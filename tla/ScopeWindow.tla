----------------------------- MODULE ScopeWindow -----------------------------
(***************************************************************************)
(* One kv8scope window and its ConsumerThread. The thread reads the data   *)
(* topics of the session from the beginning, pushes every sample of a      *)
(* counter it knows into the ring of that counter and feeds the running    *)
(* statistics; the window drains the rings once a frame. When the session  *)
(* manager announces new counters (MetaUpdated) the thread is asked to     *)
(* stop, the window waits for it without blocking and starts another one   *)
(* with the full metadata. The thread and its replay thread also queue the *)
(* enable/disable records of <session>._ctl for the checkboxes.            *)
(*                                                                         *)
(* A sample is its number on the data topic of its counter, and time grows *)
(* with it. The rings are FIFO queues (module SpscDynamicRing); the log    *)
(* store counts records (modules LogStore, TraceLog); annotations are in   *)
(* AnnotationSync. One checkbox is modelled.                               *)
(***************************************************************************)
EXTENDS Naturals, Sequences, SequencesExt, FiniteSetsExt

CONSTANTS
  Counters,    \* counters of the session
  FirstKnown,  \* those known when the window opens
  RingCap,     \* capacity of a ring, kRingCapacity
  MaxSamples,  \* bound: samples per counter
  MaxLog,      \* bound: trace-log records
  MaxCtl,      \* bound: enable/disable commands
  MaxUpdates   \* bound: MetaUpdated events

ASSUME ScopeAssumption ==
  /\ FirstKnown \subseteq Counters /\ RingCap \in Nat \ {0}
  /\ MaxSamples \in Nat /\ MaxLog \in Nat /\ MaxCtl \in Nat /\ MaxUpdates \in Nat

Slots == {"cur", "old"}   \* m_pConsumer, m_pOldConsumer

VARIABLES
  produced,  \* [Counters -> Nat]  samples on the data topics
  logged,    \* records on <session>._log
  ctl,       \* Seq(BOOLEAN)  <session>._ctl
  sent,      \* Seq(BOOLEAN)  commands of this window on their way to it
  announced, \* the counters of the newest MetaUpdated event (history)
  updates,   \* MetaUpdated events so far (bound)
  win,       \* "open", "closing", "joining", "freed", "gone"
  known,     \* counters of m_meta
  pending,   \* counters of m_pendingMeta
  reinit,    \* m_bReinitPending
  thread,    \* [Slots -> Thread]
  wave,      \* [Counters -> Seq(Nat)]  the graph: CounterData::vTimestamps
  count,     \* [Counters -> Nat]  FullDurationStats::count
  logs,      \* records pushed into the log store
  checked    \* the E checkbox

sessionVars == <<produced, logged, ctl, announced>>
storeVars   == <<wave, count, logs, checked>>
vars == <<sessionVars, storeVars, sent, updates, win, known, pending, reinit, thread>>

-----------------------------------------------------------------------------
(* Threads.                                                                *)

\* plausible bug: a new consumer starts at the end of the topics
AtLatest(c) == produced[c]

\* RebalanceCb seeks a partition to its beginning the first time it is assigned
StartOffset(c) == 0

\* plausible bug: the log topic is not subscribed
Unsubscribed(t) == FALSE
LogSubscribed(t) == t.hasLog

NewThread(meta, hasLog) ==
  [phase |-> "run", meta |-> meta, hasLog |-> hasLog, stop |-> FALSE,
   pos |-> [c \in Counters |-> StartOffset(c)], ring |-> [c \in Counters |-> <<>>], dropped |-> {},
   logPos |-> 0, ctlPos |-> 0, replayPos |-> 0, replaying |-> TRUE, ctlQ |-> <<>>]

NoThread == [NewThread({}, FALSE) EXCEPT !.phase = "none"]

cur == thread["cur"]
old == thread["old"]

Running(t) == t.phase \in {"run", "leaving"}

\* plausible bug: the flag is not raised
NeverRaised(t) == t
RequestStop(t) == [t EXCEPT !.stop = TRUE]

\* the constructor attaches the stores and starts the first thread
Init ==
  /\ produced = [c \in Counters |-> 0] /\ logged = 0 /\ ctl = <<>> /\ sent = <<>>
  /\ announced = FirstKnown /\ updates = 0
  /\ win = "open" /\ known = FirstKnown /\ pending = {} /\ reinit = FALSE
  /\ thread = [s \in Slots |-> IF s = "cur" THEN NewThread(FirstKnown, TRUE) ELSE NoThread]
  /\ wave = [c \in Counters |-> <<>>] /\ count = [c \in Counters |-> 0]
  /\ logs = 0 /\ checked = TRUE

\* the instrumented process and other windows
Produce(c) ==
  /\ produced[c] < MaxSamples
  /\ produced' = [produced EXCEPT ![c] = @ + 1]
  /\ UNCHANGED <<logged, ctl, announced, storeVars, sent, updates, win, known, pending, reinit, thread>>

ProduceLog ==
  /\ logged < MaxLog /\ logged' = logged + 1
  /\ UNCHANGED <<produced, ctl, announced, storeVars, sent, updates, win, known, pending, reinit, thread>>

RemoteCommand(b) ==
  /\ Len(ctl) + Len(sent) < MaxCtl
  /\ ctl' = Append(ctl, b)
  /\ UNCHANGED <<produced, logged, announced, storeVars, sent, updates, win, known, pending, reinit, thread>>

DeliverCommand ==
  /\ sent # <<>> /\ ctl' = Append(ctl, Head(sent)) /\ sent' = Tail(sent)
  /\ UNCHANGED <<produced, logged, announced, storeVars, updates, win, known, pending, reinit, thread>>

RingFull(r) == Len(r) >= RingCap

\* StatsEngine::Feed is called whether or not the push succeeded
Feed(n, full) == n + 1

\* onMessage, for a sample on the data topic of c
PollSample(s, c) ==
  LET t    == thread[s]
      n    == t.pos[c] + 1
      full == RingFull(t.ring[c])
  IN
  /\ t.phase = "run" /\ c \in t.meta /\ n <= produced[c]
  /\ thread' = [thread EXCEPT
       ![s].pos[c] = n,
       ![s].ring[c] = IF full THEN @ ELSE Append(@, n),
       ![s].dropped = IF full THEN @ \cup {<<c, n>>} ELSE @]
  /\ count' = [count EXCEPT ![c] = Feed(@, full)]
  /\ UNCHANGED <<sessionVars, wave, logs, checked, sent, updates, win, known, pending, reinit>>

\* onMessage, for a record of <session>._log; subscribed only with a log store
PollLog(s) ==
  /\ thread[s].phase = "run" /\ LogSubscribed(thread[s]) /\ thread[s].logPos < logged
  /\ thread' = [thread EXCEPT ![s].logPos = @ + 1]
  /\ logs' = logs + 1
  /\ UNCHANGED <<sessionVars, wave, count, checked, sent, updates, win, known, pending, reinit>>

\* ParseAndQueueCtl, called by the live consumer and by the replay thread
PollCtl(s) ==
  /\ thread[s].phase = "run" /\ thread[s].ctlPos < Len(ctl)
  /\ thread' = [thread EXCEPT ![s].ctlPos = @ + 1,
                              ![s].ctlQ = Append(@, ctl[thread[s].ctlPos + 1])]
  /\ UNCHANGED <<sessionVars, storeVars, sent, updates, win, known, pending, reinit>>

ReplayCtl(s) ==
  /\ thread[s].replaying /\ Running(thread[s]) /\ thread[s].replayPos < Len(ctl)
  /\ thread' = [thread EXCEPT ![s].replayPos = @ + 1,
                              ![s].ctlQ = Append(@, ctl[thread[s].replayPos + 1])]
  /\ UNCHANGED <<sessionVars, storeVars, sent, updates, win, known, pending, reinit>>

\* at the end of the topic, after 1.5 s, or at once when stop was requested;
\* replayPos then keeps the length of the topic (history)
ReplayEnd(s) ==
  /\ thread[s].replaying /\ Running(thread[s])
  /\ thread' = [thread EXCEPT ![s].replaying = FALSE, ![s].replayPos = Len(ctl)]
  /\ UNCHANGED <<sessionVars, storeVars, sent, updates, win, known, pending, reinit>>

LeaveLoop(s) ==
  /\ thread[s].phase = "run" /\ thread[s].stop
  /\ thread' = [thread EXCEPT ![s].phase = "leaving"]
  /\ UNCHANGED <<sessionVars, storeVars, sent, updates, win, known, pending, reinit>>

\* the replay thread is joined before m_bDone is set
RunDone(s) ==
  /\ thread[s].phase = "leaving" /\ ~thread[s].replaying
  /\ thread' = [thread EXCEPT ![s].phase = "done"]
  /\ UNCHANGED <<sessionVars, storeVars, sent, updates, win, known, pending, reinit>>

\* Run returns: its local pConsumer leaves the group and is destroyed
Exit(s) ==
  /\ thread[s].phase = "done"
  /\ thread' = [thread EXCEPT ![s].phase = "exited"]
  /\ UNCHANGED <<sessionVars, storeVars, sent, updates, win, known, pending, reinit>>

-----------------------------------------------------------------------------
(* The window.                                                             *)

\* the newest wins
PendingMeta(meta) == meta

NotifyMetaUpdated(meta) ==
  /\ win = "open" /\ updates < MaxUpdates
  /\ updates' = updates + 1 /\ announced' = meta
  /\ pending' = PendingMeta(meta) /\ reinit' = TRUE
  /\ thread' = [thread EXCEPT !["cur"] = IF @.phase = "none" THEN @ ELSE RequestStop(@)]
  /\ UNCHANGED <<produced, logged, ctl, storeVars, sent, win, known>>

\* m_bDone is set, and the thread has exited
IsDone(t) == t.phase \in {"none", "done", "exited"}
Exited(t) == t.phase \in {"none", "exited"}

\* the threads after the first part of Render
Shifted ==
  IF reinit /\ cur.phase # "none" /\ old.phase = "none"
  THEN [s \in Slots |-> IF s = "old" THEN cur ELSE NoThread]
  ELSE thread

\* plausible bug: the window does not wait for the old thread
RebuildAtOnce == reinit
Rebuild == reinit /\ IsDone(Shifted["old"])

\* Join blocks the render thread until Run has returned
Blocked == Rebuild /\ Shifted["old"].phase = "done"

\* only a finished thread is joined and released
Released(t) == IF IsDone(t) THEN NoThread ELSE t

\* the new thread gets the annotation store, the statistics and the ctl topic
AfterReinit ==
  IF Rebuild THEN [s \in Slots |-> IF s = "cur" THEN NewThread(pending, FALSE)
                                  ELSE Released(Shifted["old"])]
  ELSE Shifted

\* plausible bug: the batch is put before what is there
Prepended(w, r) == r \o w

\* DrainRingBuffer empties the ring, batch after batch
Drained(w, r) == w \o r

\* plausible bug: one event a frame, the others of the batch are lost
FirstEvent(b, q) == IF q = <<>> THEN b ELSE Head(q)

\* DrainCounterStateEvents applies the batch in order
AfterEvents(b, q) == IF q = <<>> THEN b ELSE Last(q)

\* Render: reinit, then drain everything unless the window is collapsed; the
\* user may close the window in any frame
Render(visible, close) ==
  LET t == AfterReinit["cur"] IN
  /\ win = "open" /\ ~Blocked
  /\ win' = IF close THEN "closing" ELSE win
  /\ known' = IF Rebuild THEN pending ELSE known
  /\ reinit' = (reinit /\ ~Rebuild)
  /\ IF visible /\ t.phase # "none"
     THEN /\ wave' = [c \in Counters |-> Drained(wave[c], t.ring[c])]
          /\ checked' = AfterEvents(checked, t.ctlQ)
          /\ thread' = [AfterReinit EXCEPT !["cur"].ring = [c \in Counters |-> <<>>],
                                           !["cur"].ctlQ = <<>>]
     ELSE thread' = AfterReinit /\ UNCHANGED <<wave, checked>>
  /\ UNCHANGED <<sessionVars, count, logs, sent, updates, pending>>

\* the user clicks the E checkbox
ToggleEnabled ==
  /\ win = "open" /\ Len(ctl) + Len(sent) < MaxCtl
  /\ checked' = ~checked /\ sent' = Append(sent, ~checked)
  /\ UNCHANGED <<sessionVars, wave, count, logs, updates, win, known, pending, reinit, thread>>

\* ~ScopeWindow: RequestStop and Join, then the members in reverse order of
\* their declaration, m_pOldConsumer after all the stores
BeginDestroy ==
  /\ win = "closing" /\ win' = "joining"
  /\ thread' = [thread EXCEPT !["cur"] = IF @.phase = "none" THEN @ ELSE RequestStop(@)]
  /\ UNCHANGED <<sessionVars, storeVars, sent, updates, known, pending, reinit>>

Joined == Exited(cur)

FreeStores ==
  /\ win = "joining" /\ Joined
  /\ win' = "freed"
  /\ UNCHANGED <<sessionVars, storeVars, sent, updates, known, pending, reinit, thread>>

DestroyOldConsumer ==
  /\ win = "freed" /\ Exited(old)
  /\ win' = "gone"
  /\ UNCHANGED <<sessionVars, storeVars, sent, updates, known, pending, reinit, thread>>

-----------------------------------------------------------------------------

Frame == \E visible \in BOOLEAN : Render(visible, FALSE)
CloseFrame == \E visible \in BOOLEAN : Render(visible, TRUE)
Destructor == BeginDestroy \/ FreeStores \/ DestroyOldConsumer

Next ==
  \/ \E c \in Counters : Produce(c)
  \/ ProduceLog
  \/ \E b \in BOOLEAN : RemoteCommand(b)
  \/ DeliverCommand
  \/ \E s \in Slots :
       \/ \E c \in Counters : PollSample(s, c)
       \/ PollLog(s) \/ PollCtl(s) \/ ReplayCtl(s) \/ ReplayEnd(s) \/ LeaveLoop(s)
       \/ RunDone(s) \/ Exit(s)
  \/ \E new \in SUBSET (Counters \ announced) : NotifyMetaUpdated(announced \cup new)
  \/ Frame \/ CloseFrame \/ ToggleEnabled
  \/ Destructor

Spec == Init /\ [][Next]_vars

\* PollBatch returns what there is, it and the replay have timeouts, and the
\* application renders frames; nobody has to close the window
Fairness ==
  /\ \A s \in Slots : /\ WF_vars(PollLog(s)) /\ WF_vars(ReplayEnd(s))
                       /\ WF_vars(LeaveLoop(s)) /\ WF_vars(RunDone(s)) /\ WF_vars(Exit(s))
  /\ WF_vars(Frame) /\ WF_vars(Destructor)

-----------------------------------------------------------------------------
(* Properties.                                                             *)

Thread ==
  [phase : {"none", "run", "leaving", "done", "exited"}, meta : SUBSET Counters, hasLog : BOOLEAN,
   stop : BOOLEAN, pos : [Counters -> Nat], ring : [Counters -> Seq(Nat)],
   dropped : SUBSET (Counters \X Nat), logPos : Nat, ctlPos : Nat, replayPos : Nat,
   replaying : BOOLEAN, ctlQ : Seq(BOOLEAN)]

\* Types, and every ring within its capacity.
TypeOK ==
  /\ produced \in [Counters -> Nat] /\ logged \in Nat
  /\ ctl \in Seq(BOOLEAN) /\ sent \in Seq(BOOLEAN)
  /\ announced \in SUBSET Counters /\ updates \in Nat
  /\ win \in {"open", "closing", "joining", "freed", "gone"}
  /\ known \in SUBSET Counters /\ pending \in SUBSET Counters /\ reinit \in BOOLEAN
  /\ thread \in [Slots -> Thread]
  /\ \A s \in Slots, c \in Counters : Len(thread[s].ring[c]) <= RingCap
  /\ wave \in [Counters -> Seq(Nat)] /\ count \in [Counters -> Nat]
  /\ logs \in Nat /\ checked \in BOOLEAN

\* "Fall through ... no stale data" (ScopeWindow.cpp:247), "data preserved"
\* (ScopeWindow.cpp:297): nothing that the running thread has read is missing,
\* it is in the graph, in the ring or was dropped at a full ring; this holds
\* through any number of reinitialisations, which discard the old rings.
ReadIsShown ==
  \A c \in cur.meta, n \in 1 .. MaxSamples :
    cur.phase # "none" /\ n <= cur.pos[c] =>
      n \in ToSet(wave[c]) \cup ToSet(cur.ring[c]) \/ <<c, n>> \in cur.dropped

\* "single-writer (consumer thread)" (StatsEngine.cpp:41): the two threads of a
\* reinitialisation never run together, and counters are added only while none
\* reads the tables. And a MetaUpdated event is never lost, whenever it comes:
\* outside a reinitialisation the thread has the counters of the newest one.
HandedOver ==
  /\ ~(Running(cur) /\ Running(old))
  /\ cur.phase # "none" => cur.meta = known
  /\ win = "open" /\ ~reinit => cur.phase # "none" /\ ~cur.stop /\ cur.meta = announced

\* "Stop the consumer thread before destroying ring buffers"
\* (ScopeWindow.cpp:196): no thread runs when the stores it writes are freed.
StoresOutliveThreads ==
  win \in {"freed", "gone"} => ~Running(cur) /\ ~Running(old)

Settled ==
  /\ win = "open" /\ ~reinit /\ Running(cur)
  /\ ~cur.replaying /\ cur.ctlPos = Len(ctl) /\ cur.ctlQ = <<>> /\ sent = <<>>

\* Commands given after the replay are the last word: once they are read the
\* checkbox shows the newest, however they crossed with the user's own clicks.
LateCommandsApply ==
  Settled /\ Len(ctl) > cur.replayPos => checked = Last(ctl)

\* The counter has been in the metadata of one thread only: a thread that a
\* reinitialisation starts reads the session from the beginning again.
ReadOnce(c) == updates = 0 \/ (updates = 1 /\ c \notin FirstKnown)

\* "append-only, sorted" (WaveformRenderer.h:377) and "Total sample count (full
\* session)" (KV8SCOPE_USER_GUIDE.md:252): until a second thread reads the
\* counter, the graph is in the order that lower_bound needs, whatever was
\* dropped or drained when, and N counts each sample read once, those dropped
\* at a full ring included.
GraphAndCount ==
  \A c \in Counters : ReadOnce(c) =>
    /\ \A i \in 2 .. Len(wave[c]) : wave[c][i - 1] < wave[c][i]
    /\ win = "open" /\ c \in known =>
         count[c] <= produced[c] /\ (~reinit => count[c] >= cur.pos[c])

\* "The LogStore receives decoded Kv8LogRecord entries from ConsumerThread"
\* (ScopeWindow.cpp:162): every record gets there, before any MetaUpdated.
LogRecordsShown ==
  (win = "open" /\ logged = MaxLog) ~> (win # "open" \/ updates > 0 \/ logs = MaxLog)

\* A reinitialisation completes, however often the metadata changes meanwhile,
\* and a window that was closed goes away.
StopsComplete ==
  /\ reinit ~> (~reinit \/ win # "open")
  /\ (win = "closing") ~> (win = "gone")

=============================================================================
