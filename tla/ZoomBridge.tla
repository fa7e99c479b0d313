----------------------------- MODULE ZoomBridge -----------------------------
(***************************************************************************)
(* kv8zoom: a Kafka thread decodes the records of the selected session     *)
(* into one ring per feed, the event-loop thread drains the rings on a     *)
(* timer, assembles, thins out and broadcasts the frames, and serves the   *)
(* commands of the browsers; a third thread refreshes the session list.    *)
(* A signal may call Stop at any instruction of the event loop. Payloads   *)
(* are left out: a frame is its session and its time. Rings are bounded    *)
(* FIFOs (SpscFixedRing shows that they are). A broadcast reaches every    *)
(* connected browser at once; what a browser sends may come at any time.   *)
(***************************************************************************)
EXTENDS Integers, Sequences, FiniteSets

CONSTANTS
  Sessions, Clients, Feeds,
  None,         \* no session, no frame, nothing pending
  Off,          \* the view of a browser that is not connected
  MaxRecords,   \* bound: records of one feed of one session
  RingCap,      \* frames a ring holds
  MaxPoints,    \* kMaxPoints: the trail drops its older half there
  Margin,       \* kMarginMs: a live session starts that long before its end
  StartKnown,   \* sessions whose start time the registry records
  Scans,        \* bound: what a scan of the registry may return
  MaxScans,     \* bound: scans of the discovery thread
  Growing,      \* bound: feeds that get new records
  SeekTimes,    \* bound: positions the browsers seek
  MaxCommands   \* bound: commands of the browsers
ASSUME ZoomAssumption ==
  /\ {"nav", "att"} \subseteq Feeds /\ None \notin Sessions /\ StartKnown \subseteq Sessions
  /\ Scans \subseteq SUBSET Sessions /\ SeekTimes \subseteq 0 .. 2 * MaxRecords + 1
  /\ MaxRecords \in Nat /\ RingCap \in Nat \ {0} /\ MaxPoints \in Nat \ {0, 1}
  /\ Margin \in Nat /\ MaxScans \in Nat /\ Growing \subseteq Feeds /\ MaxCommands \in Nat

VARIABLES
  count,    \* [session -> [feed -> records in its topic]]; record i is at time 2*i
  alive,    \* the sessions whose producer sends heartbeats
  known,    \* m_allSessions: the sessions of the last scan with another set of sessions
  live,     \* m_sessionLiveness: the sessions held to be live
  fresh,    \* what the discovery thread left for the timer, or None
  reader,   \* KafkaReader: its thread, m_stop, m_consumer, the session and offsets it reads
  ring,     \* [feed -> frames]
  active,   \* m_activeSessionId, m_activeMeta, m_isLive
  pending,  \* m_pendingSessionId, m_pendingSeekTs, m_pendingPause
  play,     \* m_paused, m_offlineLoadDone, m_seekTargetPosition
  ts,       \* m_tsFirst, m_tsLatest, m_tsEmit
  asm,      \* FrameAssembler: [feed -> frame or None]
  trail,    \* PathSimplifier: m_pts
  gate,     \* DecimationController, per feed: "fresh", "maybe", "shut" for this tick
  loop,     \* where the event loop is, and if a frame came in this tick
  run,      \* main: "run", "join", "exited", "crashed"; m_stop; the listen socket
  view,     \* [browser -> what it shows, or Off]
  scans,    \* history: scans so far
  commands  \* history: commands so far

topicVars  == <<count, alive>>
listVars   == <<known, live, fresh, scans>>
showVars   == <<ts, asm, trail, gate>>
bridgeVars == <<active, pending, play>>
vars == <<topicVars, listVars, reader, ring, bridgeVars, showVars, loop, run, view, commands>>

Frame(s, i)  == [session |-> s, ts |-> 2 * i]
Times        == 0 .. 2 * MaxRecords + 1
NoFrames     == [f \in Feeds |-> None]
Larger(a, b) == IF a > b THEN a ELSE b
NoOffsets    == [f \in Feeds |-> 0]

------------------------------ (* the browser *) -----------------------------

BlankView == [active |-> None, nav |-> None, att |-> None, trail |-> <<>>, timeline |-> None]

\* PathSimplifier::Simplify keeps the ends of the trail; the points between are not told apart
Ends(points) == IF Len(points) <= 2 THEN points ELSE <<points[1], points[Len(points)]>>

\* the cases of the reducer
SeeNav(v, frame)   == [v EXCEPT !.nav = frame, !.trail = Ends(Append(@, frame))]
SeeAtt(v, frame)   == [v EXCEPT !.att = frame]
SeeTrail(v, pts)   == IF pts = <<>> THEN v ELSE [v EXCEPT !.trail = Ends(pts)]
SeeSelected(v, s)  == [BlankView EXCEPT !.active = s]
SeeSessions(v, s)  == [v EXCEPT !.active = s]
SeeTimeline(v, tl) == IF tl = None THEN v ELSE [v EXCEPT !.timeline = tl]

HasMinimumData(a)  == a["nav"] # None /\ a["att"] # None
SeeSnapshot(v, a)  == IF HasMinimumData(a) THEN SeeAtt(SeeNav(v, a["nav"]), a["att"]) ELSE v

\* plausible bug: a switch keeps what the browser shows of the last session
KeepsTheView(v, s) == [v EXCEPT !.active = s]

Open == {c \in Clients : view[c] # Off}

\* what the open browsers see from now on
Broadcast(seen) == view' = [c \in Clients |-> IF c \in Open THEN seen[c] ELSE view[c]]

------------------------------ (* the topics *) ------------------------------

Produce(s, f) ==
  /\ s \in alive /\ count[s][f] < MaxRecords
  /\ count' = [count EXCEPT ![s][f] = @ + 1]
  /\ UNCHANGED <<alive, listVars, reader, ring, bridgeVars, showVars, loop, run, view, commands>>

EndSession(s) ==
  /\ s \in alive
  /\ alive' = alive \ {s}
  /\ UNCHANGED <<count, listVars, reader, ring, bridgeVars, showVars, loop, run, view, commands>>

-------------------------- (* the discovery thread *) ------------------------

\* a scan that runs out of time returns the part it has; an empty one is ignored
DiscoveryThreadFunc(found) ==
  /\ ~run.stop /\ fresh = None /\ found # {} /\ scans < MaxScans
  /\ scans' = scans + 1
  /\ fresh' = [sessions |-> found, live |-> found \cap alive]
  /\ UNCHANGED <<topicVars, known, live, reader, ring, bridgeVars, showVars, loop, run, view, commands>>

---------------------------- (* the Kafka thread *) --------------------------

\* a message of the batch that PollOnce dispatches; a full ring drops the frame
OnMessage(f) ==
  /\ reader.thread = "run" /\ reader.next[f] > 0
  /\ reader.next[f] <= count[reader.session][f]
  /\ reader' = [reader EXCEPT !.next[f] = @ + 1]
  /\ ring' = IF Len(ring[f]) < RingCap
             THEN [ring EXCEPT ![f] = Append(@, Frame(reader.session, reader.next[f]))]
             ELSE ring
  /\ UNCHANGED <<topicVars, listVars, bridgeVars, showVars, loop, run, view, commands>>

KafkaThreadExit ==
  /\ reader.thread = "run" /\ reader.stop
  /\ reader' = [reader EXCEPT !.thread = "done"]
  /\ UNCHANGED <<topicVars, listVars, ring, bridgeVars, showVars, loop, run, view, commands>>

\* offset of the first record at or after a time, of the end if there is none
OffsetAt(s, f, t) == IF (t + 1) \div 2 > count[s][f] THEN count[s][f] + 1 ELSE Larger(1, (t + 1) \div 2)

\* SubscribeToSession reads from the beginning, ...FromTimestampMs from a time
Subscribe(s, t) == [f \in Feeds |-> IF t > 0 THEN OffsetAt(s, f, t) ELSE 1]

-------------------------- (* the event-loop thread *) -----------------------

InLoop(where) == run.phase = "run" /\ loop.at = where
Goto(where)   == loop' = [loop EXCEPT !.at = where]
AnyClient     == \E c \in Clients : view[c] # Off

\* RequestStop, the first thing a switch and a seek do
StopReader(where) ==
  /\ reader' = [reader EXCEPT !.stop = TRUE]
  /\ Goto(where)

\* OnTimer 1: a pending switch; an unknown session is an error message and nothing else
TickSwitch ==
  /\ InLoop("idle") /\ pending.session # None
  /\ IF pending.session \in known
     THEN StopReader("switch") /\ UNCHANGED pending
     ELSE pending' = [pending EXCEPT !.session = None] /\ UNCHANGED <<reader, loop>>
  /\ UNCHANGED <<topicVars, listVars, ring, active, play, showVars, run, view, commands>>

\* OnTimer 2: a pending seek
TickSeek ==
  /\ InLoop("idle") /\ pending.session = None /\ pending.seek # None
  /\ play' = [play EXCEPT !.loadDone = FALSE, !.target = pending.seek]
  /\ pending' = [pending EXCEPT !.seek = None]
  /\ IF active.session = None THEN UNCHANGED <<reader, loop>> ELSE StopReader("seek")
  /\ UNCHANGED <<topicVars, listVars, ring, active, showVars, run, view, commands>>

\* plausible bug: the reader is reset while its thread still runs
DoesNotJoin == reader.thread \in {"none", "run", "done"}

\* m_kafkaThread.join() returns
Joined == reader.thread # "run"

\* plausible bug: frames of the last session stay in the rings
ResetKeepsRings == reader' = [reader EXCEPT !.consumer = FALSE, !.thread = "none", !.next = NoOffsets] /\ UNCHANGED ring

\* KafkaReader::Reset: the consumer is destroyed, then created again
Reset ==
  /\ reader' = [reader EXCEPT !.consumer = FALSE, !.thread = "none", !.next = NoOffsets]
  /\ ring' = [f \in Feeds |-> <<>>]

JoinAndReset ==
  /\ run.phase = "run" /\ loop.at \in {"switch", "seek"} /\ Joined
  /\ Reset
  /\ Goto(IF loop.at = "switch" THEN "switch reset" ELSE "seek reset")
  /\ UNCHANGED <<topicVars, listVars, bridgeVars, showVars, run, view, commands>>

\* plausible bug: the new thread finds the stop request of the old one
ForgetsClearStop ==
  /\ run.phase = "run" /\ loop.at \in {"switch reset", "seek reset"}
  /\ reader' = [reader EXCEPT !.consumer = TRUE]
  /\ Goto(IF loop.at = "switch reset" THEN "switch ready" ELSE "seek ready")
  /\ UNCHANGED <<topicVars, listVars, ring, bridgeVars, showVars, run, view, commands>>

CreateConsumerAndClearStop ==
  /\ run.phase = "run" /\ loop.at \in {"switch reset", "seek reset"}
  /\ reader' = [reader EXCEPT !.consumer = TRUE, !.stop = FALSE]
  /\ Goto(IF loop.at = "switch reset" THEN "switch ready" ELSE "seek ready")
  /\ UNCHANGED <<topicVars, listVars, ring, bridgeVars, showVars, run, view, commands>>

\* StartKafkaThread, on the topics of session s from time t
StartReader(s, t) ==
  reader' = [reader EXCEPT !.thread = "run", !.session = s, !.next = Subscribe(s, t)]

ResetShow(first) ==
  /\ ts' = [first |-> first, latest |-> 0, emit |-> 0]
  /\ asm' = NoFrames
  /\ gate' = [f \in Feeds |-> "fresh"]

\* the latest record of any feed of a live session decides where its replay starts
LiveStart(s, f) == IF s \in live /\ count[s][f] > 0 THEN Larger(0, 2 * count[s][f] - Margin) ELSE 0

\* the rest of SwitchToSession; a pending pause is kept
SwitchToSession ==
  LET s == pending.session IN
  /\ InLoop("switch ready")
  /\ \E f \in Feeds : StartReader(s, LiveStart(s, f))
  /\ ResetShow(0) /\ trail' = <<>>
  /\ active' = [session |-> s, live |-> s \in live]
  /\ pending' = [pending EXCEPT !.session = None, !.seek = None]
  /\ play' = [paused |-> FALSE, loadDone |-> FALSE, target |-> 0]
  /\ Broadcast([c \in Open |-> SeeSelected(view[c], s)])
  /\ Goto("idle")
  /\ UNCHANGED <<topicVars, listVars, ring, run, commands>>

\* the rest of ProcessSeek; the trail of an offline session stays
ProcessSeek ==
  /\ InLoop("seek ready")
  /\ StartReader(active.session, play.target)
  /\ ResetShow(ts.first)
  /\ trail' = IF active.live THEN <<>> ELSE trail
  /\ Goto("idle")
  /\ UNCHANGED <<topicVars, listVars, ring, bridgeVars, run, view, commands>>

\* OnTimer 3 and 4: the pause, the session list; without a browser or a session it returns
TickList ==
  /\ InLoop("idle") /\ pending.session = None /\ pending.seek = None
  /\ play' = IF pending.pause = None THEN play ELSE [play EXCEPT !.paused = pending.pause]
  /\ pending' = [pending EXCEPT !.pause = None]
  /\ fresh' = None /\ UNCHANGED scans
  /\ IF fresh = None
     THEN UNCHANGED <<known, live, view>>
     ELSE /\ known' = fresh.sessions /\ live' = fresh.live
          /\ Broadcast([c \in Open |-> SeeSessions(view[c], active.session)])
  /\ loop' = IF AnyClient /\ active.session # None THEN [at |-> "nav", popped |-> FALSE] ELSE loop
  /\ UNCHANGED <<topicVars, reader, ring, active, showVars, run, commands>>

\* paused with a seek target, the assembler stops at the target
Assembles(frame) == ~play.paused \/ play.target <= 0 \/ frame.ts <= play.target

TrailAppend(points, frame) ==
  LET longer == Append(points, frame)
  IN IF Len(longer) >= MaxPoints THEN SubSeq(longer, MaxPoints \div 2 + 1, Len(longer)) ELSE longer

\* A frame of feed f leaves its ring and is emitted or not. All tests of a tick use one
\* clock value: the first frame passes the interval or none does, and a navigation
\* frame that has not moved far enough uses the interval up all the same.
DrainFrame(f, assembles, emit) ==
  /\ ring' = [ring EXCEPT ![f] = Tail(@)]
  /\ asm' = IF assembles THEN [asm EXCEPT ![f] = ring[f][1]] ELSE asm
  /\ emit => ~play.paused /\ gate[f] # "shut"
  /\ ~emit => play.paused \/ gate[f] # "fresh"
  /\ gate' = IF play.paused THEN gate ELSE [gate EXCEPT ![f] = "shut"]
  /\ UNCHANGED <<topicVars, listVars, reader, bridgeVars, run, commands>>

DrainNav(emit) ==
  LET frame == ring["nav"][1] IN
  /\ InLoop("nav") /\ ring["nav"] # <<>>
  /\ DrainFrame("nav", Assembles(frame), emit)
  /\ ts' = [first  |-> IF ts.first = 0 THEN frame.ts ELSE ts.first,
            latest |-> Larger(frame.ts, ts.latest),
            emit   |-> IF emit THEN frame.ts ELSE ts.emit]
  /\ trail' = TrailAppend(trail, frame)
  /\ IF emit THEN Broadcast([c \in Open |-> SeeNav(view[c], frame)]) ELSE UNCHANGED view
  /\ loop' = [loop EXCEPT !.popped = TRUE]

DrainAtt(emit) ==
  LET frame == ring["att"][1] IN
  /\ InLoop("att") /\ ring["att"] # <<>>
  /\ DrainFrame("att", Assembles(frame), emit)
  /\ ts' = IF emit THEN [ts EXCEPT !.emit = Larger(frame.ts, @)] ELSE ts
  /\ IF emit THEN Broadcast([c \in Open |-> SeeAtt(view[c], frame)]) ELSE UNCHANGED view
  /\ loop' = [loop EXCEPT !.popped = TRUE]
  /\ UNCHANGED trail

\* the browser shows neither motors nor weather here
DrainOther(f, emit) ==
  /\ InLoop("rest") /\ f \in Feeds \ {"nav", "att"} /\ ring[f] # <<>>
  /\ DrainFrame(f, TRUE, emit)
  /\ UNCHANGED <<ts, trail, view, loop>>

DrainedFeed ==
  /\ \/ InLoop("nav") /\ ring["nav"] = <<>> /\ Goto("att")
     \/ InLoop("att") /\ ring["att"] = <<>> /\ Goto("rest")
     \/ InLoop("rest") /\ (\A f \in Feeds \ {"nav", "att"} : ring[f] = <<>>) /\ Goto("tail")
  /\ UNCHANGED <<topicVars, listVars, reader, ring, bridgeVars, showVars, run, view, commands>>

Timeline(current, paused) ==
  [session |-> active.session, start |-> IF active.session \in StartKnown THEN 1 ELSE ts.first,
   end |-> ts.latest, current |-> current, live |-> active.live, paused |-> paused]

CurrentTimeline == Timeline(IF ts.emit > 0 THEN ts.emit ELSE ts.latest, play.paused)

SeePicture(v) == SeeTrail(SeeSnapshot(v, asm), trail)

Reopen == gate' = [f \in Feeds |-> IF gate[f] = "shut" THEN "maybe" ELSE gate[f]]

\* OnTimer 5: all data of an offline session, or of a paused seek, has been shown and no
\* frame has come for 500 ms
AutoPause ==
  LET position == IF play.target > 0 THEN play.target ELSE ts.latest IN
  /\ InLoop("tail") /\ ~loop.popped
  /\ ~play.loadDone /\ ts.latest > 0 /\ (~active.live \/ play.paused)
  /\ play' = [paused |-> TRUE, loadDone |-> TRUE, target |-> 0]
  /\ ts' = [ts EXCEPT !.emit = position]
  /\ Broadcast([c \in Open |-> SeeTimeline(SeePicture(view[c]), Timeline(position, TRUE))])
  /\ Reopen /\ Goto("idle")
  /\ UNCHANGED <<topicVars, listVars, reader, ring, active, pending, asm, trail, run, commands>>

\* OnTimer 6 and 7: the periodic snapshot, the periodic timeline
TickTail(snapshot, timeline) ==
  /\ InLoop("tail")
  /\ LET Snap(v) == IF snapshot THEN SeePicture(v) ELSE v
         line == IF timeline /\ ts.latest > 0 THEN CurrentTimeline ELSE None
     IN Broadcast([c \in Open |-> SeeTimeline(Snap(view[c]), line)])
  /\ Reopen /\ Goto("idle")
  /\ UNCHANGED <<topicVars, listVars, reader, ring, bridgeVars, ts, asm, trail, run, commands>>

------------------------------ (* the browsers *) ----------------------------

\* what OnClientOpen tells everyone when a browser connects
Greet(v) ==
  LET listed == SeeSessions(v, active.session) IN
  IF active.session = None THEN listed
  ELSE SeeTimeline(IF HasMinimumData(asm) THEN SeePicture(listed) ELSE listed,
                   IF ts.latest > 0 THEN CurrentTimeline ELSE None)

OnClientOpen(c) ==
  /\ InLoop("idle") /\ run.listening /\ view[c] = Off
  /\ view' = [d \in Clients |-> IF d = c THEN Greet(BlankView)
                                ELSE IF view[d] = Off THEN Off ELSE Greet(view[d])]
  /\ UNCHANGED <<topicVars, listVars, reader, ring, bridgeVars, showVars, loop, run, commands>>

OnClientClose(c) ==
  /\ InLoop("idle") /\ view[c] # Off
  /\ view' = [view EXCEPT ![c] = Off]
  /\ UNCHANGED <<topicVars, listVars, reader, ring, bridgeVars, showVars, loop, run, commands>>

\* a command replaces the pending one of its kind
OnClientMessage(change) ==
  /\ InLoop("idle") /\ AnyClient /\ commands < MaxCommands
  /\ commands' = commands + 1
  /\ pending' = change
  /\ UNCHANGED <<topicVars, listVars, reader, ring, active, play, showVars, loop, run, view>>

ClientSelects(s) == OnClientMessage([pending EXCEPT !.session = s])
ClientSeeks(t)   == OnClientMessage([pending EXCEPT !.seek = t])
ClientPauses(b)  == OnClientMessage([pending EXCEPT !.pause = b])

------------------------------ (* the shutdown *) ----------------------------

\* the signal handler, at any instruction of the loop: between Reset and CreateConsumer
\* m_consumer is null
Stop ==
  /\ run.phase = "run" /\ ~run.stop
  /\ run' = [run EXCEPT !.stop = TRUE, !.phase = IF reader.consumer THEN @ ELSE "crashed"]
  /\ reader' = [reader EXCEPT !.stop = TRUE]
  /\ UNCHANGED <<topicVars, listVars, ring, bridgeVars, showVars, loop, view, commands>>

\* the deferred us_listen_socket_close
CloseListenSocket ==
  /\ InLoop("idle") /\ run.stop /\ run.listening
  /\ run' = [run EXCEPT !.listening = FALSE]
  /\ UNCHANGED <<topicVars, listVars, reader, ring, bridgeVars, showVars, loop, view, commands>>

\* the loop ends when it has neither a listen socket nor a connection
RunReturns ==
  /\ InLoop("idle") /\ ~run.listening /\ ~AnyClient
  /\ run' = [run EXCEPT !.phase = "join"]
  /\ UNCHANGED <<topicVars, listVars, reader, ring, bridgeVars, showVars, loop, view, commands>>

\* the destructor: Stop returns at once, then the threads are joined
Destroy ==
  /\ run.phase = "join" /\ Joined
  /\ run' = [run EXCEPT !.phase = "exited"]
  /\ UNCHANGED <<topicVars, listVars, reader, ring, bridgeVars, showVars, loop, view, commands>>

------------------------------------------------------------------------------

\* Run discovers the sessions before it listens
InitWith(records) ==
  /\ count = records /\ alive \in SUBSET Sessions
  /\ known \in Scans /\ live = known \cap alive /\ fresh = None
  /\ reader = [thread |-> "none", stop |-> FALSE, consumer |-> TRUE, session |-> None, next |-> NoOffsets]
  /\ ring = [f \in Feeds |-> <<>>]
  /\ active = [session |-> None, live |-> FALSE]
  /\ pending = [session |-> None, seek |-> None, pause |-> None]
  /\ play = [paused |-> FALSE, loadDone |-> FALSE, target |-> 0]
  /\ ts = [first |-> 0, latest |-> 0, emit |-> 0]
  /\ asm = NoFrames /\ trail = <<>> /\ gate = [f \in Feeds |-> "fresh"]
  /\ loop = [at |-> "idle", popped |-> FALSE]
  /\ run = [phase |-> "run", stop |-> FALSE, listening |-> TRUE]
  /\ view = [c \in Clients |-> Off] /\ scans = 0 /\ commands = 0

Init == \E records \in [Sessions -> [Feeds -> 0 .. MaxRecords]] : InitWith(records)

LoopNext ==
  \/ TickSwitch \/ TickSeek \/ JoinAndReset \/ CreateConsumerAndClearStop \/ SwitchToSession \/ ProcessSeek
  \/ TickList \/ DrainedFeed
  \/ \E emit \in BOOLEAN : \/ DrainNav(emit) \/ DrainAtt(emit)
                           \/ \E f \in Feeds : DrainOther(f, emit)
  \/ AutoPause
  \/ \E snapshot, timeline \in BOOLEAN : TickTail(snapshot, timeline)
  \/ CloseListenSocket \/ RunReturns \/ Destroy

KafkaNext == KafkaThreadExit \/ \E f \in Feeds : OnMessage(f)

ClientNext ==
  \/ \E c \in Clients : OnClientOpen(c) \/ OnClientClose(c)
  \/ \E s \in Sessions : ClientSelects(s)
  \/ \E t \in SeekTimes : ClientSeeks(t)
  \/ \E b \in BOOLEAN : ClientPauses(b)

Next ==
  \/ LoopNext \/ KafkaNext \/ ClientNext \/ Stop
  \/ \E found \in Scans : DiscoveryThreadFunc(found)
  \/ \E s \in Sessions : EndSession(s) \/ \E f \in Growing : Produce(s, f)

Spec == Init /\ [][Next]_vars

\* the loop and the Kafka thread run; 500 ms pass if the loop keeps finding no frame
Fairness ==
  /\ WF_vars(LoopNext) /\ WF_vars(KafkaNext) /\ SF_vars(AutoPause)
  /\ SF_vars(CloseListenSocket) /\ SF_vars(RunReturns)

FairSpec == Spec /\ Fairness

----------------------------- (* the properties *) ---------------------------

Of(s, frame) == frame = None \/ frame.session = s

\* A browser never shows a frame, a trail point or a timeline of another session than the
\* one it names as selected, and what is on its way is of the session that is selected,
\* through every switch, seek, reconnection and late command (SwitchToSession, Reset).
ShownIsSelected ==
  /\ \A c \in Clients : view[c] # Off =>
       /\ view[c].active = active.session
       /\ Of(active.session, view[c].nav) /\ Of(active.session, view[c].att)
       /\ \A i \in DOMAIN view[c].trail : Of(active.session, view[c].trail[i])
       /\ Of(active.session, view[c].timeline)
  /\ \A i \in DOMAIN trail : Of(active.session, trail[i])
  /\ \A f \in Feeds : \A i \in DOMAIN ring[f] : Of(active.session, ring[f][i])

\* The offline session that stays selected is loaded to its end and paused there, whatever
\* was switched or sought before (ClearStop, StartKafkaThread, OnTimer 5).
Loadable == /\ active.session # None /\ ~active.live /\ AnyClient /\ ~run.stop
            /\ play.target <= 2 * count[active.session]["nav"] /\ count[active.session]["nav"] > 0
OfflineLoads == <>[]Loadable => <>[]play.loadDone

\* Stop ends the program once the browsers have left ("Signal a graceful shutdown").
GracefulShutdown == (<>run.stop /\ <>[]~AnyClient) => <>(run.phase = "exited")

\* After a seek while paused the snapshot is the state at the target position: the last
\* navigation frame at or before it.
SeekShowsTarget ==
  [][play.paused /\ play.target > 1 /\ ~play.loadDone /\ play'.loadDone
     => asm'["nav"] = Frame(active.session, play.target \div 2)]_vars

=============================================================================
