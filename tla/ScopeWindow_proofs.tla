------------------------- MODULE ScopeWindow_proofs -------------------------
(***************************************************************************)
(* Proofs about the scope window and its consumer threads, for any         *)
(* counters, ring capacity and number of samples, commands and updates.    *)
(***************************************************************************)
EXTENDS ScopeWindow, Integers, TLAPS

-----------------------------------------------------------------------------
(* Types.                                                                  *)

LEMMA ThreadTypes ==
  ASSUME NEW meta \in SUBSET Counters, NEW hasLog \in BOOLEAN
  PROVE  /\ NewThread(meta, hasLog) \in Thread /\ NoThread \in Thread
         /\ NewThread(meta, hasLog).phase = "run" /\ NewThread(meta, hasLog).meta = meta
         /\ ~NewThread(meta, hasLog).stop
         /\ \A c \in Counters : /\ NewThread(meta, hasLog).pos[c] = 0
                                /\ NewThread(meta, hasLog).ring[c] = <<>>
                                /\ NoThread.ring[c] = <<>>
         /\ NoThread.phase = "none"
<1>1. /\ [c \in Counters |-> StartOffset(c)] \in [Counters -> Nat]
      /\ [c \in Counters |-> <<>>] \in [Counters -> Seq(Nat)]
      /\ <<>> \in Seq(BOOLEAN) /\ 0 \in Nat /\ {} \in SUBSET (Counters \X Nat)
  BY DEF StartOffset
<1>2. ASSUME NEW m \in SUBSET Counters, NEW h \in BOOLEAN PROVE NewThread(m, h) \in Thread
  BY <1>1 DEF NewThread, Thread
<1>3. NoThread \in Thread /\ NoThread.phase = "none" /\ NoThread.ring = NewThread({}, FALSE).ring
  <2>1. PICK b \in Thread : b = NewThread({}, FALSE)
    BY <1>2
  <2>2. NoThread = [b EXCEPT !.phase = "none"]
    BY <2>1 DEF NoThread
  <2>. QED  BY <2>1, <2>2 DEF Thread
<1>4. \A c \in Counters : NewThread(meta, hasLog).pos[c] = 0 /\ NewThread(meta, hasLog).ring[c] = <<>>
  BY DEF NewThread, StartOffset
<1>5. \A c \in Counters : NewThread({}, FALSE).ring[c] = <<>>
  BY DEF NewThread
<1>6. NewThread(meta, hasLog).phase = "run" /\ NewThread(meta, hasLog).meta = meta /\ ~NewThread(meta, hasLog).stop
  BY DEF NewThread
<1>. QED  BY <1>2, <1>3, <1>4, <1>5, <1>6

\* a thread after a step that reads a record
LEMMA ThreadFields ==
  ASSUME NEW r \in Thread, NEW n \in Nat
  PROVE  /\ [r EXCEPT !.logPos = n] \in Thread
         /\ \A q \in Seq(BOOLEAN) : /\ [r EXCEPT !.ctlPos = n, !.ctlQ = q] \in Thread
                                     /\ [r EXCEPT !.replayPos = n, !.ctlQ = q] \in Thread
         /\ [r EXCEPT !.replaying = FALSE, !.replayPos = n] \in Thread
<1>1. [r EXCEPT !.logPos = n] \in Thread
  BY DEF Thread
<1>2. ASSUME NEW q \in Seq(BOOLEAN) PROVE [r EXCEPT !.ctlPos = n, !.ctlQ = q] \in Thread
  BY DEF Thread
<1>3. ASSUME NEW q \in Seq(BOOLEAN) PROVE [r EXCEPT !.replayPos = n, !.ctlQ = q] \in Thread
  BY DEF Thread
<1>4. [r EXCEPT !.replaying = FALSE, !.replayPos = n] \in Thread
  BY DEF Thread
<1>. QED  BY <1>1, <1>2, <1>3, <1>4

\* the steps of the consumer thread in a slot, and of its replay thread
ThreadStep(s) ==
  \/ \E c \in Counters : PollSample(s, c)
  \/ PollLog(s) \/ PollCtl(s) \/ ReplayCtl(s) \/ ReplayEnd(s) \/ LeaveLoop(s) \/ RunDone(s) \/ Exit(s)

windowVars == <<win, reinit, known, pending, announced, updates>>

\* A step of a thread leaves the other thread, its own metadata and the stop flag alone; it
\* never starts a thread, and changes nothing in the window but the counts of the stores.
LEMMA ThreadSteps ==
  ASSUME TypeOK, NEW s \in Slots, ThreadStep(s)
  PROVE  /\ TypeOK' /\ UNCHANGED <<windowVars, wave, checked, produced, ctl, sent>>
         /\ \A o \in Slots \ {s} : thread'[o] = thread[o]
         /\ thread'[s].meta = thread[s].meta /\ thread'[s].stop = thread[s].stop
         /\ thread[s].phase # "none" /\ thread'[s].phase # "none"
         /\ Running(thread'[s]) => Running(thread[s])
<1> USE DEF windowVars, sessionVars, storeVars
<1> DEFINE t == thread[s]
<1>0. /\ t \in Thread /\ thread \in [Slots -> Thread]
      /\ \A c \in Counters : Len(t.ring[c]) <= RingCap
  BY DEF TypeOK
<1>1. ASSUME NEW c \in Counters, PollSample(s, c)
      PROVE  /\ TypeOK' /\ UNCHANGED <<windowVars, wave, checked, produced, ctl, sent>>
             /\ \A o \in Slots \ {s} : thread'[o] = thread[o]
             /\ thread'[s].meta = t.meta /\ thread'[s].stop = t.stop
             /\ t.phase = "run" /\ thread'[s].phase = "run"
  <2> DEFINE n    == t.pos[c] + 1
             full == RingFull(t.ring[c])
             pos  == [t.pos EXCEPT ![c] = n]
             ring == [t.ring EXCEPT ![c] = IF full THEN @ ELSE Append(@, n)]
             drop == IF full THEN t.dropped \cup {<<c, n>>} ELSE t.dropped
             new  == [t EXCEPT !.pos = pos, !.ring = ring, !.dropped = drop]
  <2>1. n \in Nat /\ t.ring[c] \in Seq(Nat)
    BY <1>0 DEF Thread
  <2>2. pos \in [Counters -> Nat] /\ drop \in SUBSET (Counters \X Nat)
    BY <1>0, <2>1 DEF Thread
  <2>3. ring \in [Counters -> Seq(Nat)] /\ \A d \in Counters : Len(ring[d]) <= RingCap
    <3>1. CASE full
      BY <1>0, <2>1, <3>1 DEF Thread
    <3>2. CASE ~full
      <4>1. Append(t.ring[c], n) \in Seq(Nat) /\ Len(Append(t.ring[c], n)) <= RingCap
        BY <2>1, <3>2, ScopeAssumption DEF RingFull
      <4>. QED  BY <1>0, <3>2, <4>1 DEF Thread
    <3>. QED  BY <3>1, <3>2
  <2>4. thread' = [thread EXCEPT ![s] = new]
    <3>1. thread' = [thread EXCEPT ![s].pos[c] = n,
                                   ![s].ring[c] = IF full THEN @ ELSE Append(@, n),
                                   ![s].dropped = IF full THEN @ \cup {<<c, n>>} ELSE @]
      BY <1>1 DEF PollSample
    <3>. QED  BY <1>0, <3>1 DEF Thread
  <2> HIDE DEF pos, ring, drop
  <2>5. new \in Thread /\ new.meta = t.meta /\ new.stop = t.stop /\ new.phase = t.phase /\ new.ring = ring
    BY <1>0, <2>2, <2>3 DEF Thread
  <2> HIDE DEF new
  <2>6. thread' \in [Slots -> Thread] /\ thread'[s] = new /\ \A o \in Slots \ {s} : thread'[o] = thread[o]
    BY <1>0, <2>4, <2>5
  <2>7. count' \in [Counters -> Nat]
    BY <1>1 DEF PollSample, Feed, TypeOK
  <2>8. \A o \in Slots, d \in Counters : Len(thread'[o].ring[d]) <= RingCap
    BY <2>3, <2>5, <2>6 DEF TypeOK
  <2>9. t.phase = "run" /\ UNCHANGED <<produced, logged, ctl, announced, wave, logs, checked, sent, updates, win, known, pending, reinit>>
    BY <1>1 DEF PollSample
  <2>. QED  BY <2>5, <2>6, <2>7, <2>8, <2>9 DEF TypeOK
<1>2. ASSUME NEW new \in Thread, thread' = [thread EXCEPT ![s] = new],
             new.ring = t.ring, new.meta = t.meta, new.stop = t.stop,
             UNCHANGED <<windowVars, produced, logged, ctl, sent, wave, count, checked>>, logs' \in Nat
      PROVE  /\ TypeOK' /\ UNCHANGED <<windowVars, wave, checked, produced, ctl, sent>>
             /\ \A o \in Slots \ {s} : thread'[o] = thread[o]
             /\ thread'[s].meta = t.meta /\ thread'[s].stop = t.stop
             /\ thread'[s].phase = new.phase
  <2>1. thread' \in [Slots -> Thread] /\ thread'[s] = new /\ \A o \in Slots \ {s} : thread'[o] = thread[o]
    BY <1>0, <1>2
  <2>2. \A o \in Slots, d \in Counters : Len(thread'[o].ring[d]) <= RingCap
    BY <1>2, <2>1 DEF TypeOK
  <2>. QED  BY <1>2, <2>1, <2>2 DEF TypeOK
<1>3. CASE PollLog(s)
  <2> DEFINE new == [t EXCEPT !.logPos = @ + 1]
  <2>0. t.logPos + 1 \in Nat
    BY <1>0 DEF Thread
  <2>1. new \in Thread /\ new.ring = t.ring /\ new.meta = t.meta /\ new.stop = t.stop /\ new.phase = t.phase
    <3>1. new \in Thread
      <4>1. PICK n \in Nat : n = t.logPos + 1
        BY <2>0
      <4>2. [t EXCEPT !.logPos = n] \in Thread
        BY <1>0, ThreadFields
      <4>. QED  BY <4>1, <4>2
    <3>. QED  BY <1>0, <3>1 DEF Thread
  <2>2. thread' = [thread EXCEPT ![s] = new] /\ logs' \in Nat /\ t.phase = "run"
    BY <1>0, <1>3 DEF PollLog, Thread, TypeOK
  <2> HIDE DEF new
  <2>. QED  BY <1>2, <1>3, <2>1, <2>2 DEF PollLog, Running
<1>4. CASE PollCtl(s)
  <2> DEFINE new == [t EXCEPT !.ctlPos = @ + 1, !.ctlQ = Append(@, ctl[t.ctlPos + 1])]
  <2>0. ctl[t.ctlPos + 1] \in BOOLEAN
    BY <1>0, <1>4 DEF PollCtl, Thread, TypeOK
  <2>1. new \in Thread /\ new.ring = t.ring /\ new.meta = t.meta /\ new.stop = t.stop /\ new.phase = t.phase
    <3>0. t.ctlQ \in Seq(BOOLEAN)
      BY <1>0 DEF Thread
    <3>1. t.ctlPos + 1 \in Nat /\ Append(t.ctlQ, ctl[t.ctlPos + 1]) \in Seq(BOOLEAN)
      BY <1>0, <2>0, <3>0 DEF Thread
    <3>2. new \in Thread
      BY <1>0, <3>1, ThreadFields
    <3>. QED  BY <1>0, <3>2 DEF Thread
  <2>2. thread' = [thread EXCEPT ![s] = new] /\ logs' \in Nat /\ t.phase = "run"
    BY <1>0, <1>4 DEF PollCtl, Thread, TypeOK
  <2> HIDE DEF new
  <2>. QED  BY <1>2, <1>4, <2>1, <2>2 DEF PollCtl, Running
<1>5. CASE ReplayCtl(s)
  <2> DEFINE new == [t EXCEPT !.replayPos = @ + 1, !.ctlQ = Append(@, ctl[t.replayPos + 1])]
  <2>0. ctl[t.replayPos + 1] \in BOOLEAN
    BY <1>0, <1>5 DEF ReplayCtl, Thread, TypeOK
  <2>1. new \in Thread /\ new.ring = t.ring /\ new.meta = t.meta /\ new.stop = t.stop /\ new.phase = t.phase
    <3>0. t.ctlQ \in Seq(BOOLEAN)
      BY <1>0 DEF Thread
    <3>1. t.replayPos + 1 \in Nat /\ Append(t.ctlQ, ctl[t.replayPos + 1]) \in Seq(BOOLEAN)
      BY <1>0, <2>0, <3>0 DEF Thread
    <3>2. new \in Thread
      BY <1>0, <3>1, ThreadFields
    <3>. QED  BY <1>0, <3>2 DEF Thread
  <2>2. thread' = [thread EXCEPT ![s] = new] /\ logs' \in Nat /\ Running(t)
    BY <1>0, <1>5 DEF ReplayCtl, Thread, TypeOK
  <2> HIDE DEF new
  <2>. QED  BY <1>2, <1>5, <2>1, <2>2 DEF ReplayCtl, Running
<1>6. CASE ReplayEnd(s)
  <2> DEFINE new == [t EXCEPT !.replaying = FALSE, !.replayPos = Len(ctl)]
  <2>1. new \in Thread /\ new.ring = t.ring /\ new.meta = t.meta /\ new.stop = t.stop /\ new.phase = t.phase
    <3>1. Len(ctl) \in Nat
      BY DEF TypeOK
    <3>2. new \in Thread
      <4>1. PICK n \in Nat : n = Len(ctl)
        BY <3>1
      <4>2. [t EXCEPT !.replaying = FALSE, !.replayPos = n] \in Thread
        BY <1>0, ThreadFields
      <4>. QED  BY <4>1, <4>2
    <3>. QED  BY <1>0, <3>2 DEF Thread
  <2>2. thread' = [thread EXCEPT ![s] = new] /\ logs' \in Nat /\ Running(t)
    BY <1>0, <1>6 DEF ReplayEnd, Thread, TypeOK
  <2> HIDE DEF new
  <2>. QED  BY <1>2, <1>6, <2>1, <2>2 DEF ReplayEnd, Running
<1>7. ASSUME NEW to \in {"leaving", "done", "exited"},
             thread' = [thread EXCEPT ![s].phase = to], t.phase # "none",
             to = "leaving" => Running(t),
             UNCHANGED <<windowVars, produced, logged, ctl, sent, wave, count, logs, checked>>
      PROVE  /\ TypeOK' /\ UNCHANGED <<windowVars, wave, checked, produced, ctl, sent>>
             /\ \A o \in Slots \ {s} : thread'[o] = thread[o]
             /\ thread'[s].meta = t.meta /\ thread'[s].stop = t.stop
             /\ thread'[s].phase # "none" /\ (Running(thread'[s]) => Running(t))
  <2> DEFINE new == [t EXCEPT !.phase = to]
  <2>1. new \in Thread /\ new.ring = t.ring /\ new.meta = t.meta /\ new.stop = t.stop /\ new.phase = to
    BY <1>0 DEF Thread
  <2>2. thread' = [thread EXCEPT ![s] = new] /\ logs' \in Nat
    BY <1>0, <1>7 DEF Thread, TypeOK
  <2> HIDE DEF new
  <2>. QED  BY <1>2, <1>7, <2>1, <2>2 DEF Running
<1>8. CASE LeaveLoop(s)
  BY <1>7, <1>8 DEF LeaveLoop, Running
<1>9. CASE RunDone(s)
  BY <1>7, <1>9 DEF RunDone
<1>10. CASE Exit(s)
  BY <1>7, <1>10 DEF Exit
<1>. QED  BY <1>1, <1>3, <1>4, <1>5, <1>6, <1>8, <1>9, <1>10 DEF ThreadStep, Running

\* What the first part of a frame does to the two threads: nothing, the running one is moved
\* aside, or the next one is started.
LEMMA Reinit ==
  ASSUME TypeOK
  PROVE  /\ AfterReinit \in [Slots -> Thread]
         /\ \A s \in Slots, c \in Counters : Len(AfterReinit[s].ring[c]) <= RingCap
         /\ \/ Rebuild /\ AfterReinit["cur"] = NewThread(pending, FALSE) /\ AfterReinit["old"] = NoThread
            \/ /\ ~Rebuild /\ reinit /\ cur.phase # "none" /\ old.phase = "none"
               /\ AfterReinit["cur"] = NoThread /\ AfterReinit["old"] = cur
            \/ ~Rebuild /\ AfterReinit = thread /\ (reinit => cur.phase = "none" \/ old.phase # "none")
<1>1. /\ thread \in [Slots -> Thread] /\ "cur" \in Slots /\ "old" \in Slots /\ Slots = {"cur", "old"}
      /\ \A s \in Slots, c \in Counters : Len(thread[s].ring[c]) <= RingCap
      /\ pending \in SUBSET Counters
  BY DEF TypeOK, Slots
<1>2. /\ NewThread(pending, FALSE) \in Thread /\ NoThread \in Thread /\ NoThread.phase = "none"
      /\ \A c \in Counters : /\ Len(NewThread(pending, FALSE).ring[c]) <= RingCap
                             /\ Len(NoThread.ring[c]) <= RingCap
  <2>1. /\ NewThread(pending, FALSE) \in Thread /\ NoThread \in Thread /\ NoThread.phase = "none"
        /\ \A c \in Counters : NewThread(pending, FALSE).ring[c] = <<>> /\ NoThread.ring[c] = <<>>
    <3>1. ASSUME NEW h \in BOOLEAN
          PROVE  /\ NewThread(pending, h) \in Thread /\ NoThread \in Thread /\ NoThread.phase = "none"
                 /\ \A c \in Counters : NewThread(pending, h).ring[c] = <<>> /\ NoThread.ring[c] = <<>>
      BY <1>1, ThreadTypes
    <3>2. FALSE \in BOOLEAN
      OBVIOUS
    <3>. QED  BY <3>1, <3>2, Zenon
  <2>2. Len(<<>>) <= RingCap
    BY ScopeAssumption
  <2>. QED  BY <2>1, <2>2
<1>3. \/ /\ reinit /\ cur.phase # "none" /\ old.phase = "none"
         /\ Shifted["cur"] = NoThread /\ Shifted["old"] = cur
      \/ Shifted = thread /\ (reinit => cur.phase = "none" \/ old.phase # "none")
  BY <1>1 DEF Shifted
<1>4. /\ Shifted \in [Slots -> Thread]
      /\ \A s \in Slots, c \in Counters : Len(Shifted[s].ring[c]) <= RingCap
  BY <1>1, <1>2 DEF Shifted, cur
<1>5. CASE Rebuild
  <2>1. AfterReinit = [s \in Slots |-> IF s = "cur" THEN NewThread(pending, FALSE) ELSE NoThread]
    BY <1>5, <1>1 DEF AfterReinit, Released, Rebuild
  <2>. QED  BY <1>1, <1>2, <1>5, <2>1
<1>6. CASE ~Rebuild
  BY <1>1, <1>3, <1>4, <1>6 DEF AfterReinit, Slots
<1>. QED  BY <1>5, <1>6

\* A frame draws the rings of the current thread and empties them, or leaves them.
LEMMA Frames ==
  ASSUME TypeOK, NEW visible \in BOOLEAN, NEW close \in BOOLEAN, Render(visible, close)
  PROVE  /\ TypeOK'
         /\ thread'["old"] = AfterReinit["old"]
         /\ cur'.phase = AfterReinit["cur"].phase /\ cur'.meta = AfterReinit["cur"].meta
         /\ cur'.stop = AfterReinit["cur"].stop /\ cur'.pos = AfterReinit["cur"].pos
         /\ cur'.dropped = AfterReinit["cur"].dropped
         /\ \/ wave' = wave /\ cur'.ring = AfterReinit["cur"].ring
            \/ \A c \in Counters : wave'[c] = wave[c] \o AfterReinit["cur"].ring[c] /\ cur'.ring[c] = <<>>
<1> DEFINE t == AfterReinit["cur"]
<1>1. /\ AfterReinit \in [Slots -> Thread] /\ t \in Thread
      /\ \A s \in Slots, c \in Counters : Len(AfterReinit[s].ring[c]) <= RingCap
      /\ "cur" \in Slots /\ "old" \in Slots
  BY Reinit DEF Slots
<1>2. /\ win' = (IF close THEN "closing" ELSE win) /\ known' = (IF Rebuild THEN pending ELSE known)
      /\ reinit' = (reinit /\ ~Rebuild) /\ win = "open"
      /\ UNCHANGED <<sessionVars, count, logs, sent, updates, pending>>
  BY DEF Render
<1>3. CASE visible /\ t.phase # "none"
  <2> DEFINE new == [t EXCEPT !.ring = [c \in Counters |-> <<>>], !.ctlQ = <<>>]
  <2>1. /\ wave' = [c \in Counters |-> Drained(wave[c], t.ring[c])]
        /\ checked' = AfterEvents(checked, t.ctlQ)
        /\ thread' = [AfterReinit EXCEPT !["cur"] = new]
    BY <1>1, <1>3 DEF Render, Thread
  <2>2. /\ new \in Thread /\ new.phase = t.phase /\ new.meta = t.meta /\ new.stop = t.stop /\ new.pos = t.pos
        /\ new.dropped = t.dropped /\ new.ring = [c \in Counters |-> <<>>]
    <3>1. [c \in Counters |-> <<>>] \in [Counters -> Seq(Nat)] /\ <<>> \in Seq(BOOLEAN)
      OBVIOUS
    <3>. QED  BY <1>1, <3>1 DEF Thread
  <2>3. wave' \in [Counters -> Seq(Nat)] /\ \A c \in Counters : wave'[c] = wave[c] \o t.ring[c]
    <3>1. ASSUME NEW c \in Counters PROVE wave[c] \o t.ring[c] \in Seq(Nat)
      <4>1. wave[c] \in Seq(Nat) /\ t.ring[c] \in Seq(Nat)
        BY <1>1 DEF TypeOK, Thread
      <4>. QED  BY <4>1
    <3>. QED  BY <2>1, <3>1 DEF Drained
  <2>4. checked' \in BOOLEAN
    <3>1. t.ctlQ \in Seq(BOOLEAN)
      BY <1>1 DEF Thread
    <3>2. t.ctlQ # <<>> => Last(t.ctlQ) \in BOOLEAN
      BY <3>1 DEF Last
    <3>. QED  BY <2>1, <3>2 DEF AfterEvents, TypeOK
  <2> HIDE DEF new
  <2>5. /\ thread' \in [Slots -> Thread] /\ thread'["cur"] = new
        /\ \A s \in Slots \ {"cur"} : thread'[s] = AfterReinit[s]
    BY <1>1, <2>1, <2>2
  <2>6. \A s \in Slots, c \in Counters : Len(thread'[s].ring[c]) <= RingCap
    <3>1. \A c \in Counters : new.ring[c] = <<>> /\ Len(<<>>) <= RingCap
      BY <2>2, ScopeAssumption
    <3>. QED  BY <1>1, <2>5, <3>1
  <2>7. TypeOK'
    BY <1>2, <2>3, <2>4, <2>5, <2>6 DEF TypeOK, sessionVars
  <2>. QED  BY <1>1, <2>2, <2>3, <2>5, <2>7 DEF cur, Slots
<1>4. CASE ~(visible /\ t.phase # "none")
  <2>1. thread' = AfterReinit /\ UNCHANGED <<wave, checked>>
    BY <1>4 DEF Render
  <2>2. TypeOK'
    BY <1>1, <1>2, <2>1 DEF TypeOK, sessionVars
  <2>. QED  BY <2>1, <2>2 DEF cur
<1>. QED  BY <1>3, <1>4

LEMMA TypesInit == Init => TypeOK
<1> SUFFICES ASSUME Init PROVE TypeOK
  OBVIOUS
<1>1. /\ NewThread(FirstKnown, TRUE) \in Thread /\ NoThread \in Thread
      /\ \A c \in Counters : NewThread(FirstKnown, TRUE).ring[c] = <<>> /\ NoThread.ring[c] = <<>>
  <2>1. ASSUME NEW h \in BOOLEAN
        PROVE  /\ NewThread(FirstKnown, h) \in Thread /\ NoThread \in Thread
               /\ \A c \in Counters : NewThread(FirstKnown, h).ring[c] = <<>> /\ NoThread.ring[c] = <<>>
    BY ThreadTypes, ScopeAssumption
  <2>2. TRUE \in BOOLEAN
    OBVIOUS
  <2>. QED  BY <2>1, <2>2, Zenon
<1>2. Len(<<>>) <= RingCap
  BY ScopeAssumption
<1>3. thread \in [Slots -> Thread] /\ \A s \in Slots, c \in Counters : Len(thread[s].ring[c]) <= RingCap
  BY <1>1, <1>2 DEF Init
<1>4. /\ FirstKnown \in SUBSET Counters /\ {} \in SUBSET Counters /\ 0 \in Nat /\ <<>> \in Seq(BOOLEAN)
      /\ [c \in Counters |-> 0] \in [Counters -> Nat]
      /\ [c \in Counters |-> <<>>] \in [Counters -> Seq(Nat)]
  BY ScopeAssumption
<1>. QED  BY <1>3, <1>4 DEF Init, TypeOK

\* the thread is asked to stop, if there is one
LEMMA StopAsked ==
  ASSUME TypeOK, thread' = [thread EXCEPT !["cur"] = IF @.phase = "none" THEN @ ELSE RequestStop(@)]
  PROVE  /\ thread' \in [Slots -> Thread] /\ old' = old
         /\ cur'.phase = cur.phase /\ cur'.meta = cur.meta /\ cur'.pos = cur.pos /\ cur'.ring = cur.ring
         /\ cur'.dropped = cur.dropped
         /\ \A s \in Slots, c \in Counters : Len(thread'[s].ring[c]) <= RingCap
<1> DEFINE new == IF cur.phase = "none" THEN cur ELSE RequestStop(cur)
<1>1. /\ thread \in [Slots -> Thread] /\ cur \in Thread /\ Slots = {"cur", "old"}
      /\ \A s \in Slots, c \in Counters : Len(thread[s].ring[c]) <= RingCap
  BY DEF TypeOK, Slots, cur
<1>2. /\ new \in Thread /\ new.phase = cur.phase /\ new.meta = cur.meta /\ new.pos = cur.pos /\ new.ring = cur.ring
      /\ new.dropped = cur.dropped
  BY <1>1 DEF RequestStop, Thread
<1>3. thread' = [thread EXCEPT !["cur"] = new]
  BY <1>1 DEF cur
<1> HIDE DEF new
<1>4. thread' \in [Slots -> Thread] /\ thread'["cur"] = new /\ thread'["old"] = thread["old"]
  BY <1>1, <1>2, <1>3
<1>5. \A s \in Slots, c \in Counters : Len(thread'[s].ring[c]) <= RingCap
  BY <1>1, <1>2, <1>4 DEF cur
<1>. QED  BY <1>2, <1>4, <1>5 DEF cur, old

LEMMA TypesStep == TypeOK /\ [Next]_vars => TypeOK'
<1> SUFFICES ASSUME TypeOK, [Next]_vars PROVE TypeOK'
  OBVIOUS
<1> USE DEF sessionVars, storeVars
<1>1. ASSUME NEW c \in Counters, Produce(c) PROVE TypeOK'
  BY <1>1 DEF Produce, TypeOK
<1>2. CASE ProduceLog
  BY <1>2 DEF ProduceLog, TypeOK
<1>3. ASSUME NEW b \in BOOLEAN, RemoteCommand(b) PROVE TypeOK'
  BY <1>3 DEF RemoteCommand, TypeOK
<1>4. CASE DeliverCommand
  <2>1. Append(ctl, Head(sent)) \in Seq(BOOLEAN) /\ Tail(sent) \in Seq(BOOLEAN)
    BY <1>4 DEF DeliverCommand, TypeOK
  <2>. QED  BY <1>4, <2>1 DEF DeliverCommand, TypeOK
<1>5. ASSUME NEW s \in Slots, ThreadStep(s) PROVE TypeOK'
  BY <1>5, ThreadSteps
<1>6. ASSUME NEW new \in SUBSET (Counters \ announced), NotifyMetaUpdated(announced \cup new) PROVE TypeOK'
  <2>1. /\ thread' \in [Slots -> Thread]
        /\ \A s \in Slots, c \in Counters : Len(thread'[s].ring[c]) <= RingCap
    BY <1>6, StopAsked DEF NotifyMetaUpdated
  <2>2. announced \cup new \in SUBSET Counters
    BY DEF TypeOK
  <2>. QED  BY <1>6, <2>1, <2>2 DEF NotifyMetaUpdated, PendingMeta, TypeOK
<1>7. ASSUME NEW visible \in BOOLEAN, NEW close \in BOOLEAN, Render(visible, close) PROVE TypeOK'
  BY <1>7, Frames
<1>8. CASE ToggleEnabled
  <2>1. PICK b \in BOOLEAN : b = ~checked
    OBVIOUS
  <2>2. Append(sent, b) \in Seq(BOOLEAN)
    BY DEF TypeOK
  <2>3. checked' \in BOOLEAN /\ sent' \in Seq(BOOLEAN)
    BY <1>8, <2>1, <2>2, Zenon DEF ToggleEnabled
  <2>. QED  BY <1>8, <2>3 DEF ToggleEnabled, TypeOK
<1>9. CASE BeginDestroy
  BY <1>9, StopAsked DEF BeginDestroy, TypeOK
<1>10. CASE FreeStores \/ DestroyOldConsumer
  BY <1>10 DEF FreeStores, DestroyOldConsumer, TypeOK
<1>11. CASE UNCHANGED vars
  BY <1>11 DEF vars, TypeOK
<1>. QED  BY <1>1, <1>2, <1>3, <1>4, <1>5, <1>6, <1>7, <1>8, <1>9, <1>10, <1>11
           DEF Next, ThreadStep, Frame, CloseFrame, Destructor

\* Every variable keeps its type, and no ring holds more than its capacity.
THEOREM ScopeTypeCorrect == Spec => []TypeOK
  BY TypesInit, TypesStep, PTL DEF Spec

-----------------------------------------------------------------------------
(* The handover. A new thread starts only when the old one is gone, so one *)
(* of the two places is always empty; while no reinitialisation is due the *)
(* thread that runs has the newest metadata.                               *)

HandInv ==
  /\ cur.phase = "none" \/ old.phase = "none"
  /\ cur.phase # "none" => cur.meta = known
  /\ reinit => pending = announced
  /\ win = "open" /\ ~reinit => cur.phase # "none" /\ ~cur.stop /\ cur.meta = announced

LEMMA HandInit == Init => HandInv
<1> SUFFICES ASSUME Init PROVE HandInv
  OBVIOUS
<1>1. /\ NewThread(FirstKnown, TRUE).phase = "run" /\ NewThread(FirstKnown, TRUE).meta = FirstKnown
      /\ ~NewThread(FirstKnown, TRUE).stop
  BY DEF NewThread
<1>2. NoThread.phase = "none"
  BY DEF NoThread, NewThread
<1>3. cur = NewThread(FirstKnown, TRUE) /\ old = NoThread
  BY DEF Init, cur, old, Slots
<1>. QED  BY <1>1, <1>2, <1>3 DEF Init, HandInv

LEMMA Started == NewThread(pending, FALSE).phase = "run" /\ NewThread(pending, FALSE).meta = pending
                 /\ NewThread(pending, FALSE).stop = FALSE /\ NoThread.phase = "none"
  BY DEF NoThread, NewThread

LEMMA HandStep == TypeOK /\ HandInv /\ [Next]_vars => HandInv'
<1> SUFFICES ASSUME TypeOK, HandInv, [Next]_vars PROVE HandInv'
  OBVIOUS
<1>1. ASSUME NEW s \in Slots, ThreadStep(s) PROVE HandInv'
  <2>1. /\ \A o \in Slots \ {s} : thread'[o] = thread[o]
        /\ thread'[s].meta = thread[s].meta /\ thread'[s].stop = thread[s].stop
        /\ thread[s].phase # "none" /\ thread'[s].phase # "none" /\ UNCHANGED windowVars
    BY <1>1, ThreadSteps
  <2>2. \A o \in Slots : /\ thread'[o].meta = thread[o].meta /\ thread'[o].stop = thread[o].stop
                         /\ thread'[o].phase = "none" <=> thread[o].phase = "none"
    BY <2>1
  <2>3. /\ cur'.meta = cur.meta /\ cur'.stop = cur.stop /\ (cur'.phase = "none" <=> cur.phase = "none")
        /\ (old'.phase = "none" <=> old.phase = "none")
    BY <2>2 DEF cur, old, Slots
  <2>. QED  BY <2>1, <2>3 DEF HandInv, windowVars
<1>2. ASSUME NEW new \in SUBSET (Counters \ announced), NotifyMetaUpdated(announced \cup new) PROVE HandInv'
  <2>1. /\ old' = old /\ cur'.phase = cur.phase /\ cur'.meta = cur.meta
        /\ pending' = announced' /\ reinit' /\ UNCHANGED <<known, win>>
    BY <1>2, StopAsked DEF NotifyMetaUpdated, PendingMeta
  <2>. QED  BY <2>1 DEF HandInv
<1>3. ASSUME NEW visible \in BOOLEAN, NEW close \in BOOLEAN, Render(visible, close) PROVE HandInv'
  <2>1. /\ old' = AfterReinit["old"]
        /\ cur'.phase = AfterReinit["cur"].phase /\ cur'.meta = AfterReinit["cur"].meta
        /\ cur'.stop = AfterReinit["cur"].stop
    BY <1>3, Frames DEF old
  <2>2. /\ win = "open" /\ known' = (IF Rebuild THEN pending ELSE known)
        /\ reinit' = (reinit /\ ~Rebuild) /\ UNCHANGED <<pending, announced>>
    BY <1>3 DEF Render, sessionVars
  <2>3. CASE Rebuild /\ AfterReinit["cur"] = NewThread(pending, FALSE) /\ AfterReinit["old"] = NoThread
    <3>1. reinit
      BY <2>3 DEF Rebuild
    <3>. QED  BY <2>1, <2>2, <2>3, <3>1, Started DEF HandInv
  <2>4. CASE ~Rebuild /\ reinit /\ AfterReinit["cur"] = NoThread /\ AfterReinit["old"] = cur
    BY <2>1, <2>2, <2>4, Started DEF HandInv
  <2>5. CASE ~Rebuild /\ AfterReinit = thread
    <3>1. AfterReinit["cur"] = cur /\ AfterReinit["old"] = old
      BY <2>5 DEF cur, old
    <3>. QED  BY <2>1, <2>2, <2>5, <3>1 DEF HandInv
  <2>. QED  BY <2>3, <2>4, <2>5, Reinit
<1>4. CASE BeginDestroy
  <2>1. /\ old' = old /\ cur'.phase = cur.phase /\ cur'.meta = cur.meta
        /\ UNCHANGED <<known, pending, announced, reinit>> /\ win' = "joining"
    BY <1>4, StopAsked DEF BeginDestroy, sessionVars
  <2>. QED  BY <2>1 DEF HandInv
<1>5. CASE FreeStores \/ DestroyOldConsumer
  BY <1>5 DEF FreeStores, DestroyOldConsumer, HandInv, cur, old, sessionVars
<1>6. CASE UNCHANGED <<thread, windowVars>>
  BY <1>6 DEF HandInv, cur, old, windowVars
<1>. QED  BY <1>1, <1>2, <1>3, <1>4, <1>5, <1>6
           DEF Next, ThreadStep, Frame, CloseFrame, Destructor, Produce, ProduceLog, RemoteCommand, DeliverCommand,
               ToggleEnabled, vars, windowVars, sessionVars

\* The two threads of a reinitialisation never run together, and no MetaUpdated is lost: for any
\* counters and any number of updates, whenever they come.
THEOREM HandoverIsSafe == Spec => []HandedOver
<1>1. HandInv => HandedOver
  BY DEF HandInv, HandedOver, Running
<1>. QED  BY <1>1, TypesInit, TypesStep, HandInit, HandStep, PTL DEF Spec

-----------------------------------------------------------------------------
(* What is read is shown.                                                  *)

LEMMA Members ==
  ASSUME NEW S, NEW q \in Seq(S)
  PROVE  /\ \A x \in S : ToSet(Append(q, x)) = ToSet(q) \cup {x}
         /\ \A r \in Seq(S) : ToSet(q \o r) = ToSet(q) \cup ToSet(r)
<1>1. ASSUME NEW x \in S PROVE ToSet(Append(q, x)) = ToSet(q) \cup {x}
  <2>1. /\ DOMAIN q = 1 .. Len(q) /\ DOMAIN Append(q, x) = 1 .. Len(q) + 1 /\ Len(q) \in Nat
        /\ \A i \in 1 .. Len(q) : Append(q, x)[i] = q[i]
        /\ Append(q, x)[Len(q) + 1] = x
    OBVIOUS
  <2>2. Len(q) + 1 \in DOMAIN Append(q, x) /\ \A i \in DOMAIN q : i \in DOMAIN Append(q, x)
    BY <2>1
  <2>3. \A i \in DOMAIN Append(q, x) : i \in DOMAIN q \/ i = Len(q) + 1
    BY <2>1
  <2>. QED  BY <2>1, <2>2, <2>3 DEF ToSet
<1>2. ASSUME NEW r \in Seq(S) PROVE ToSet(q \o r) = ToSet(q) \cup ToSet(r)
  <2>1. /\ DOMAIN q = 1 .. Len(q) /\ DOMAIN r = 1 .. Len(r) /\ DOMAIN (q \o r) = 1 .. Len(q) + Len(r)
        /\ Len(q) \in Nat /\ Len(r) \in Nat
        /\ \A i \in 1 .. Len(q) : (q \o r)[i] = q[i]
    OBVIOUS
  <2>2. ASSUME NEW i \in 1 .. Len(r) PROVE Len(q) + i \in DOMAIN (q \o r) /\ (q \o r)[Len(q) + i] = r[i]
    BY <2>1
  <2>3. ASSUME NEW i \in DOMAIN (q \o r), i \notin DOMAIN q
        PROVE  i - Len(q) \in DOMAIN r /\ (q \o r)[i] = r[i - Len(q)]
    BY <2>1, <2>3
  <2>4. \A i \in DOMAIN q : i \in DOMAIN (q \o r)
    BY <2>1
  <2>. QED  BY <2>1, <2>2, <2>3, <2>4 DEF ToSet
<1>. QED  BY <1>1, <1>2

\* what a sample does to the thread that reads it
LEMMA Sample ==
  ASSUME TypeOK, NEW s \in Slots, NEW c \in Counters, PollSample(s, c)
  PROVE  LET t == thread[s]  u == thread'[s]  n == t.pos[c] + 1 IN
         /\ \A d \in Counters \ {c} : u.pos[d] = t.pos[d] /\ u.ring[d] = t.ring[d]
         /\ u.pos[c] = n /\ n <= produced[c] /\ c \in t.meta
         /\ t.dropped \subseteq u.dropped
         /\ \/ RingFull(t.ring[c]) /\ u.ring[c] = t.ring[c] /\ <<c, n>> \in u.dropped
            \/ ~RingFull(t.ring[c]) /\ u.ring[c] = Append(t.ring[c], n)
<1> DEFINE t == thread[s]
           n == t.pos[c] + 1
           full == RingFull(t.ring[c])
<1>1. t \in Thread /\ thread \in [Slots -> Thread]
  BY DEF TypeOK
<1>2. /\ thread'[s].pos = [t.pos EXCEPT ![c] = n]
      /\ thread'[s].ring = [t.ring EXCEPT ![c] = IF full THEN @ ELSE Append(@, n)]
      /\ thread'[s].dropped = IF full THEN t.dropped \cup {<<c, n>>} ELSE t.dropped
      /\ n <= produced[c] /\ c \in t.meta
  BY <1>1 DEF PollSample, Thread
<1>3. t.pos \in [Counters -> Nat] /\ t.ring \in [Counters -> Seq(Nat)]
  BY <1>1 DEF Thread
<1> HIDE DEF n, full
<1>4. \A d \in Counters \ {c} : thread'[s].pos[d] = t.pos[d] /\ thread'[s].ring[d] = t.ring[d]
  BY <1>2, <1>3
<1>5. thread'[s].pos[c] = n
  BY <1>2, <1>3
<1>6. \/ full /\ thread'[s].ring[c] = t.ring[c] /\ <<c, n>> \in thread'[s].dropped
      \/ ~full /\ thread'[s].ring[c] = Append(t.ring[c], n)
  BY <1>2, <1>3
<1>7. t.dropped \subseteq thread'[s].dropped
  BY <1>2
<1>. QED  BY <1>2, <1>4, <1>5, <1>6, <1>7 DEF n, full

LEMMA ShownInit == Init => ReadIsShown
<1> SUFFICES ASSUME Init, NEW c \in cur.meta, NEW n \in 1 .. MaxSamples, n <= cur.pos[c] PROVE FALSE
  BY DEF ReadIsShown
<1>1. cur = NewThread(FirstKnown, TRUE)
  BY DEF Init, cur, Slots
<1>2. c \in Counters
  BY <1>1, ScopeAssumption DEF NewThread
<1>3. cur.pos[c] = 0
  BY <1>1, <1>2 DEF NewThread, StartOffset
<1>. QED  BY <1>3, ScopeAssumption

LEMMA ShownStep == TypeOK /\ ReadIsShown /\ [Next]_vars => ReadIsShown'
<1> SUFFICES ASSUME TypeOK, ReadIsShown, [Next]_vars PROVE ReadIsShown'
  OBVIOUS
<1> USE DEF sessionVars, storeVars
<1>0. cur \in Thread /\ cur.meta \in SUBSET Counters /\ TypeOK'
  BY TypesStep DEF TypeOK, cur, Slots, Thread
<1>u. ASSUME UNCHANGED wave, cur'.phase = cur.phase, cur'.meta = cur.meta, cur'.pos = cur.pos,
             cur'.ring = cur.ring, cur'.dropped = cur.dropped
      PROVE  ReadIsShown'
  BY <1>u DEF ReadIsShown
<1>1. ASSUME NEW c \in Counters, PollSample("cur", c) PROVE ReadIsShown'
  <2>0. "cur" \in Slots /\ ThreadStep("cur")
    BY <1>1 DEF Slots, ThreadStep
  <2>1. /\ \A d \in Counters \ {c} : cur'.pos[d] = cur.pos[d] /\ cur'.ring[d] = cur.ring[d]
        /\ cur'.pos[c] = cur.pos[c] + 1
        /\ cur.dropped \subseteq cur'.dropped
        /\ \/ cur'.ring[c] = cur.ring[c] /\ <<c, cur.pos[c] + 1>> \in cur'.dropped
           \/ cur'.ring[c] = Append(cur.ring[c], cur.pos[c] + 1)
    BY <1>1, <2>0, Sample DEF cur
  <2>2. wave' = wave /\ cur'.meta = cur.meta /\ cur.phase # "none"
    BY <2>0, ThreadSteps DEF cur
  <2>3. cur.pos[c] \in Nat /\ cur.ring[c] \in Seq(Nat)
    BY <1>0 DEF Thread
  <2>4. ASSUME NEW d \in cur.meta, NEW n \in 1 .. MaxSamples, n <= cur'.pos[d]
        PROVE  n \in ToSet(wave[d]) \cup ToSet(cur'.ring[d]) \/ <<d, n>> \in cur'.dropped
    <3>1. CASE d # c
      BY <1>0, <2>1, <2>2, <2>4, <3>1 DEF ReadIsShown
    <3>2. CASE d = c /\ n <= cur.pos[c]
      <4>1. n \in ToSet(wave[c]) \cup ToSet(cur.ring[c]) \/ <<c, n>> \in cur.dropped
        BY <2>2, <2>4, <3>2 DEF ReadIsShown
      <4>2. ToSet(cur.ring[c]) \subseteq ToSet(cur'.ring[c])
        <5>1. PICK m \in Nat : m = cur.pos[c] + 1
          BY <2>3
        <5>2. ToSet(Append(cur.ring[c], m)) = ToSet(cur.ring[c]) \cup {m}
          BY <2>3, Members
        <5>. QED  BY <2>1, <5>1, <5>2, Zenon
      <4>. QED  BY <2>1, <3>2, <4>1, <4>2
    <3>3. CASE d = c /\ n > cur.pos[c]
      <4>1. n = cur.pos[c] + 1
        BY <2>1, <2>3, <2>4, <3>3
      <4>2. CASE <<c, cur.pos[c] + 1>> \in cur'.dropped
        BY <3>3, <4>1, <4>2
      <4>3. CASE cur'.ring[c] = Append(cur.ring[c], cur.pos[c] + 1)
        <5>1. cur.pos[c] + 1 \in Nat
          BY <2>3
        <5>2. ToSet(cur'.ring[c]) = ToSet(cur.ring[c]) \cup {cur.pos[c] + 1}
          BY <2>3, <4>3, <5>1, Members
        <5>. QED  BY <3>3, <4>1, <5>2
      <4>. QED  BY <2>1, <4>2, <4>3
    <3>. QED  BY <2>3, <3>1, <3>2, <3>3
  <2>. QED  BY <2>2, <2>4, Zenon DEF ReadIsShown
<1>2. ASSUME NEW s \in Slots, ThreadStep(s), \A c \in Counters : ~PollSample("cur", c) PROVE ReadIsShown'
  <2>1. UNCHANGED wave /\ cur'.meta = cur.meta /\ (cur'.phase = "none" <=> cur.phase = "none")
    <3>1. CASE s = "cur"
      BY <1>2, <3>1, ThreadSteps DEF cur
    <3>2. CASE s = "old"
      BY <1>2, <3>2, ThreadSteps DEF cur, Slots
    <3>. QED  BY <3>1, <3>2 DEF Slots
  <2>2. cur'.pos = cur.pos /\ cur'.ring = cur.ring /\ cur'.dropped = cur.dropped
    <3>0. thread \in [Slots -> Thread]
      BY DEF TypeOK
    <3>1. CASE s = "old"
      BY <1>2, <3>1, ThreadSteps DEF cur, Slots
    <3>2. CASE s = "cur"
      BY <1>2, <3>0, <3>2 DEF ThreadStep, PollLog, PollCtl, ReplayCtl, ReplayEnd, LeaveLoop, RunDone, Exit, cur, Thread
    <3>. QED  BY <3>1, <3>2 DEF Slots
  <2>. QED  BY <2>1, <2>2 DEF ReadIsShown
<1>3. ASSUME NEW visible \in BOOLEAN, NEW close \in BOOLEAN, Render(visible, close) PROVE ReadIsShown'
  <2> DEFINE t == AfterReinit["cur"]
  <2>0. t \in Thread
    BY Reinit DEF Slots
  <2>1. /\ cur'.phase = t.phase /\ cur'.meta = t.meta /\ cur'.pos = t.pos /\ cur'.dropped = t.dropped
        /\ \/ wave' = wave /\ cur'.ring = t.ring
           \/ \A c \in Counters : wave'[c] = wave[c] \o t.ring[c] /\ cur'.ring[c] = <<>>
    BY <1>3, Frames
  <2>2. ASSUME NEW c \in t.meta, NEW n \in 1 .. MaxSamples, t.phase # "none", n <= t.pos[c]
        PROVE  n \in ToSet(wave[c]) \cup ToSet(t.ring[c]) \/ <<c, n>> \in t.dropped
    <3>0. c \in Counters
      BY <2>0 DEF Thread
    <3>1. CASE t = NewThread(pending, FALSE)
      <4>1. t.pos[c] = 0
        BY <3>0, <3>1 DEF NewThread, StartOffset
      <4>. QED  BY <2>2, <4>1, ScopeAssumption
    <3>2. CASE t = NoThread
      BY <2>2, <3>2, Started
    <3>3. CASE t = cur
      BY <2>2, <3>3 DEF ReadIsShown
    <3>4. t = NewThread(pending, FALSE) \/ t = NoThread \/ t = cur
      BY Reinit DEF cur
    <3>. QED  BY <3>1, <3>2, <3>3, <3>4
  <2>3. ASSUME NEW c \in t.meta PROVE ToSet(wave[c]) \cup ToSet(t.ring[c]) \subseteq ToSet(wave'[c]) \cup ToSet(cur'.ring[c])
    <3>1. c \in Counters /\ wave[c] \in Seq(Nat) /\ t.ring[c] \in Seq(Nat)
      BY <2>0 DEF Thread, TypeOK
    <3>2. ToSet(wave[c] \o t.ring[c]) = ToSet(wave[c]) \cup ToSet(t.ring[c])
      BY <3>1, Members
    <3>. QED  BY <2>1, <3>1, <3>2
  <2> HIDE DEF t
  <2>. QED  BY <2>1, <2>2, <2>3 DEF ReadIsShown
<1>4. CASE BeginDestroy \/ \E new \in SUBSET (Counters \ announced) : NotifyMetaUpdated(announced \cup new)
  BY <1>4, <1>u, StopAsked DEF BeginDestroy, NotifyMetaUpdated
<1>5. CASE UNCHANGED <<thread, wave>>
  BY <1>5 DEF ReadIsShown, cur
<1>. QED  BY <1>1, <1>2, <1>3, <1>4, <1>5
           DEF Next, ThreadStep, Frame, CloseFrame, Destructor, Produce, ProduceLog, RemoteCommand, DeliverCommand,
               ToggleEnabled, FreeStores, DestroyOldConsumer, vars

\* Nothing that the running thread has read is missing: it is in the graph, in the ring or was
\* dropped at a full ring, through any number of reinitialisations.
THEOREM ReadsAreShown == Spec => []ReadIsShown
  BY TypesInit, TypesStep, ShownInit, ShownStep, PTL DEF Spec

-----------------------------------------------------------------------------
(* Graph and count of a counter that one thread only has read.             *)

Inc(q) == \A i \in 2 .. Len(q) : q[i - 1] < q[i]

\* graph and ring together
Line(c) == wave[c] \o cur.ring[c]

\* Which thread may have read which counter, before the second update.
ReaderInv ==
  /\ updates = 0 => ~reinit /\ old.phase = "none"
  /\ updates = 0 => cur.meta = FirstKnown
  /\ updates = 1 => (old.phase # "none" => old.meta = FirstKnown)
  /\ updates = 1 /\ reinit => (cur.phase # "none" => cur.meta = FirstKnown)

\* A thread has read nothing of a counter it does not know.
PosInv ==
  \A c \in Counters : /\ cur.pos[c] <= produced[c]
                      /\ cur.phase = "none" \/ c \notin cur.meta => cur.pos[c] = 0

LineInv ==
  \A c \in Counters : ReadOnce(c) =>
    /\ count[c] = cur.pos[c]
    /\ Inc(Line(c))
    /\ \A i \in 1 .. Len(Line(c)) : Line(c)[i] \in 1 .. cur.pos[c]

CountInv == ReaderInv /\ PosInv /\ LineInv

LEMMA LineType == ASSUME TypeOK, NEW c \in Counters
                  PROVE  /\ wave[c] \in Seq(Nat) /\ cur.ring[c] \in Seq(Nat) /\ Line(c) \in Seq(Nat)
                         /\ cur.pos[c] \in Nat /\ produced[c] \in Nat
<1>1. cur \in Thread
  BY DEF TypeOK, cur, Slots
<1>2. wave[c] \in Seq(Nat) /\ cur.ring[c] \in Seq(Nat) /\ cur.pos[c] \in Nat /\ produced[c] \in Nat
  BY <1>1 DEF TypeOK, Thread
<1>. QED  BY <1>2 DEF Line

LEMMA AppendInc ==
  ASSUME NEW q \in Seq(Nat), NEW m \in Nat, Inc(q), \A i \in 1 .. Len(q) : q[i] \in 1 .. m
  PROVE  /\ Inc(Append(q, m + 1))
         /\ \A i \in 1 .. Len(Append(q, m + 1)) : Append(q, m + 1)[i] \in 1 .. m + 1
<1>1. /\ Len(Append(q, m + 1)) = Len(q) + 1 /\ Len(q) \in Nat
      /\ \A i \in 1 .. Len(q) : Append(q, m + 1)[i] = q[i]
      /\ Append(q, m + 1)[Len(q) + 1] = m + 1
  OBVIOUS
<1>2. ASSUME NEW i \in 1 .. Len(q) + 1 PROVE Append(q, m + 1)[i] \in 1 .. m + 1
  <2>1. CASE i \in 1 .. Len(q)
    BY <1>1, <2>1
  <2>2. CASE i = Len(q) + 1
    BY <1>1, <2>2
  <2>. QED  BY <1>1, <2>1, <2>2
<1>3. ASSUME NEW i \in 2 .. Len(q) + 1 PROVE Append(q, m + 1)[i - 1] < Append(q, m + 1)[i]
  <2>1. CASE i \in 2 .. Len(q)
    <3>1. i - 1 \in 1 .. Len(q) /\ i \in 1 .. Len(q)
      BY <1>1, <2>1
    <3>2. q[i - 1] < q[i]
      BY <2>1 DEF Inc
    <3>. QED  BY <1>1, <3>1, <3>2
  <2>2. CASE i = Len(q) + 1
    <3>1. i - 1 \in 1 .. Len(q) /\ i - 1 = Len(q)
      BY <1>1, <1>3, <2>2
    <3>2. q[i - 1] \in 1 .. m
      BY <3>1
    <3>. QED  BY <1>1, <2>2, <3>1, <3>2
  <2>. QED  BY <1>1, <2>1, <2>2
<1>. QED  BY <1>1, <1>2, <1>3 DEF Inc

LEMMA AppendLine ==
  ASSUME NEW w \in Seq(Nat), NEW r \in Seq(Nat), NEW x \in Nat
  PROVE  w \o Append(r, x) = Append(w \o r, x)
  OBVIOUS

LEMMA Prefix ==
  ASSUME NEW w \in Seq(Nat), NEW r \in Seq(Nat)
  PROVE  Len(w \o r) = Len(w) + Len(r) /\ \A j \in 1 .. Len(w) : (w \o r)[j] = w[j]
  OBVIOUS

LEMMA CountInit == Init => CountInv
<1> SUFFICES ASSUME Init PROVE CountInv
  OBVIOUS
<1>1. cur = NewThread(FirstKnown, TRUE) /\ old.phase = "none"
  BY Started DEF Init, cur, old, Slots
<1>2. /\ cur.meta = FirstKnown
      /\ \A c \in Counters : cur.pos[c] = 0 /\ cur.ring[c] = <<>>
  BY <1>1 DEF NewThread, StartOffset
<1>3. \A c \in Counters : wave[c] = <<>> /\ count[c] = 0 /\ produced[c] = 0
  BY DEF Init
<1>4. ASSUME NEW c \in Counters PROVE Line(c) = <<>>
  BY <1>2, <1>3 DEF Line
<1>5. Inc(<<>>) /\ Len(<<>>) = 0
  BY DEF Inc
<1>6. ReaderInv
  BY <1>1, <1>2 DEF Init, ReaderInv
<1>7. PosInv
  BY <1>2, <1>3 DEF PosInv
<1>8. LineInv
  BY <1>2, <1>3, <1>4, <1>5 DEF LineInv
<1>. QED  BY <1>6, <1>7, <1>8 DEF CountInv

LEMMA CountStep == TypeOK /\ CountInv /\ [Next]_vars => CountInv'
<1> SUFFICES ASSUME TypeOK, CountInv, [Next]_vars PROVE CountInv'
  OBVIOUS
<1> USE DEF CountInv, sessionVars, storeVars
<1>0. thread \in [Slots -> Thread] /\ cur \in Thread /\ Slots = {"cur", "old"} /\ cur.meta \subseteq Counters
  BY DEF TypeOK, cur, Slots, Thread
<1>a. ASSUME UNCHANGED <<wave, count, updates, produced>>, cur'.pos = cur.pos, cur'.ring = cur.ring,
             cur'.meta = cur.meta, cur'.phase = "none" => cur.phase = "none"
      PROVE  PosInv' /\ LineInv'
  BY <1>a DEF PosInv, LineInv, Line, ReadOnce
<1>1. ASSUME NEW c \in Counters, PollSample("cur", c) PROVE CountInv'
  <2>0. "cur" \in Slots /\ "old" \in Slots /\ ThreadStep("cur")
    BY <1>1, <1>0 DEF ThreadStep
  <2>1. /\ \A d \in Counters \ {c} : cur'.pos[d] = cur.pos[d] /\ cur'.ring[d] = cur.ring[d]
        /\ cur'.pos[c] = cur.pos[c] + 1 /\ cur.pos[c] + 1 <= produced[c] /\ c \in cur.meta
        /\ cur'.ring[c] = cur.ring[c] \/ cur'.ring[c] = Append(cur.ring[c], cur.pos[c] + 1)
    BY <1>1, <2>0, Sample DEF cur
  <2>2. /\ UNCHANGED <<windowVars, wave, produced>> /\ cur'.meta = cur.meta /\ cur.phase # "none" /\ cur'.phase # "none"
        /\ old' = old
    BY <2>0, ThreadSteps DEF cur, old
  <2>3. count'[c] = count[c] + 1 /\ \A d \in Counters \ {c} : count'[d] = count[d]
    BY <1>1 DEF PollSample, Feed, TypeOK
  <2>4. ReaderInv'
    BY <2>2 DEF ReaderInv, windowVars
  <2>5. PosInv'
    BY <2>1, <2>2 DEF PosInv
  <2>6. ASSUME NEW d \in Counters, ReadOnce(d)'
        PROVE  /\ count'[d] = cur'.pos[d] /\ Inc(Line(d)')
               /\ \A i \in 1 .. Len(Line(d)') : Line(d)'[i] \in 1 .. cur'.pos[d]
    <3>1. ReadOnce(d)
      BY <2>2, <2>6 DEF ReadOnce, windowVars
    <3>2. /\ count[d] = cur.pos[d] /\ Inc(Line(d)) /\ Line(d) \in Seq(Nat) /\ cur.pos[d] \in Nat
          /\ \A i \in 1 .. Len(Line(d)) : Line(d)[i] \in 1 .. cur.pos[d]
          /\ wave[d] \in Seq(Nat) /\ cur.ring[d] \in Seq(Nat)
      BY <3>1, LineType DEF LineInv
    <3>3. CASE d # c
      BY <2>1, <2>2, <2>3, <3>2, <3>3 DEF Line
    <3>4. CASE d = c /\ cur'.ring[c] = cur.ring[c]
      <4>1. Line(d)' = Line(d)
        BY <2>2, <3>4 DEF Line
      <4>2. \A i \in 1 .. Len(Line(d)) : Line(d)[i] \in 1 .. cur.pos[d] + 1
        BY <3>2
      <4>. QED  BY <2>1, <2>3, <3>2, <3>4, <4>1, <4>2
    <3>5. CASE d = c /\ cur'.ring[c] = Append(cur.ring[c], cur.pos[c] + 1)
      <4>1. Line(d)' = Append(Line(d), cur.pos[d] + 1)
        <5>1. PICK x \in Nat : x = cur.pos[d] + 1
          BY <3>2
        <5>2. wave[d] \o Append(cur.ring[d], x) = Append(wave[d] \o cur.ring[d], x)
          BY <3>2, AppendLine
        <5>. QED  BY <2>2, <3>5, <5>1, <5>2 DEF Line
      <4>2. /\ Inc(Append(Line(d), cur.pos[d] + 1))
            /\ \A i \in 1 .. Len(Append(Line(d), cur.pos[d] + 1)) :
                 Append(Line(d), cur.pos[d] + 1)[i] \in 1 .. cur.pos[d] + 1
        BY <3>2, AppendInc
      <4>. QED  BY <2>1, <2>3, <3>2, <3>5, <4>1, <4>2
    <3>. QED  BY <2>1, <3>3, <3>4, <3>5
  <2>7. LineInv'
    BY <2>6, Zenon DEF LineInv
  <2>. QED  BY <2>4, <2>5, <2>7
<1>2. ASSUME NEW c \in Counters, PollSample("old", c) PROVE CountInv'
  <2>0. "cur" \in Slots /\ "old" \in Slots /\ ThreadStep("old")
    BY <1>2, <1>0 DEF ThreadStep
  <2>1. /\ UNCHANGED <<windowVars, wave, produced>> /\ cur' = cur /\ old'.meta = old.meta
        /\ old.phase # "none" /\ c \in old.meta
    <3>1. c \in old.meta
      BY <1>2 DEF PollSample, old
    <3>. QED  BY <2>0, <3>1, ThreadSteps DEF cur, old
  <2>2. \A d \in Counters \ {c} : count'[d] = count[d]
    BY <1>2 DEF PollSample, TypeOK
  <2>3. ~ReadOnce(c)
    BY <2>1, ScopeAssumption DEF ReaderInv, ReadOnce
  <2>4. \A d \in Counters : ReadOnce(d)' => ReadOnce(d) /\ d # c
    BY <2>1, <2>3 DEF ReadOnce, windowVars
  <2>5. ReaderInv' /\ PosInv'
    BY <2>1 DEF ReaderInv, PosInv, windowVars
  <2>6. \A d \in Counters : Line(d)' = Line(d)
    BY <2>1 DEF Line
  <2>7. LineInv'
    BY <2>1, <2>2, <2>4, <2>6 DEF LineInv
  <2>. QED  BY <2>5, <2>7
<1>3. ASSUME NEW s \in Slots, ThreadStep(s), \A c \in Counters : ~PollSample(s, c) PROVE CountInv'
  <2>1. UNCHANGED <<windowVars, wave, produced, count>>
    <3>1. UNCHANGED count
      BY <1>3 DEF ThreadStep, PollLog, PollCtl, ReplayCtl, ReplayEnd, LeaveLoop, RunDone, Exit
    <3>. QED  BY <1>3, <3>1, ThreadSteps
  <2>2. \A o \in Slots : /\ thread'[o].meta = thread[o].meta
                         /\ thread'[o].phase = "none" <=> thread[o].phase = "none"
    BY <1>3, ThreadSteps
  <2>3. \A o \in Slots : thread'[o].pos = thread[o].pos /\ thread'[o].ring = thread[o].ring
    <3>1. thread'[s].pos = thread[s].pos /\ thread'[s].ring = thread[s].ring
      <4>0. thread[s] \in Thread /\ thread \in [Slots -> Thread]
        BY <1>0
      <4>1. CASE PollLog(s)
        BY <4>0, <4>1 DEF PollLog, Thread
      <4>2. CASE PollCtl(s)
        BY <4>0, <4>2 DEF PollCtl, Thread
      <4>3. CASE ReplayCtl(s)
        BY <4>0, <4>3 DEF ReplayCtl, Thread
      <4>4. CASE ReplayEnd(s)
        BY <4>0, <4>4 DEF ReplayEnd, Thread
      <4>5. CASE LeaveLoop(s)
        BY <4>0, <4>5 DEF LeaveLoop, Thread
      <4>6. CASE RunDone(s)
        BY <4>0, <4>6 DEF RunDone, Thread
      <4>7. CASE Exit(s)
        BY <4>0, <4>7 DEF Exit, Thread
      <4>. QED  BY <1>3, <4>1, <4>2, <4>3, <4>4, <4>5, <4>6, <4>7 DEF ThreadStep
    <3>. QED  BY <1>3, <3>1, ThreadSteps
  <2>4. /\ cur'.pos = cur.pos /\ cur'.ring = cur.ring /\ cur'.meta = cur.meta /\ (cur'.phase = "none" <=> cur.phase = "none")
        /\ old'.meta = old.meta /\ (old'.phase = "none" <=> old.phase = "none")
    BY <1>0, <2>2, <2>3 DEF cur, old
  <2>5. PosInv' /\ LineInv'
    BY <1>a, <2>1, <2>4 DEF windowVars
  <2>6. ReaderInv'
    BY <2>1, <2>4 DEF ReaderInv, windowVars
  <2>. QED  BY <2>5, <2>6
<1>4. ASSUME NEW new \in SUBSET (Counters \ announced), NotifyMetaUpdated(announced \cup new) PROVE CountInv'
  <2>1. /\ old' = old /\ cur'.phase = cur.phase /\ cur'.meta = cur.meta /\ cur'.pos = cur.pos /\ cur'.ring = cur.ring
        /\ UNCHANGED <<wave, count, produced>> /\ updates' = updates + 1 /\ updates \in Nat
    BY <1>4, StopAsked DEF NotifyMetaUpdated, TypeOK
  <2>2. ReaderInv'
    BY <2>1 DEF ReaderInv
  <2>3. \A c \in Counters : ReadOnce(c)' => ReadOnce(c)
    BY <2>1 DEF ReadOnce
  <2>4. PosInv' /\ LineInv'
    BY <2>1, <2>3 DEF PosInv, LineInv, Line
  <2>. QED  BY <2>2, <2>4
<1>5. ASSUME NEW visible \in BOOLEAN, NEW close \in BOOLEAN, Render(visible, close) PROVE CountInv'
  <2> DEFINE t == AfterReinit["cur"]
  <2>1. /\ cur'.phase = t.phase /\ cur'.meta = t.meta /\ cur'.pos = t.pos /\ old' = AfterReinit["old"]
        /\ \/ wave' = wave /\ cur'.ring = t.ring
           \/ \A c \in Counters : wave'[c] = wave[c] \o t.ring[c] /\ cur'.ring[c] = <<>>
    BY <1>5, Frames DEF old
  <2>2. reinit' = (reinit /\ ~Rebuild) /\ UNCHANGED <<updates, count, produced>>
    BY <1>5 DEF Render
  <2>3. ASSUME NEW c \in Counters, t.ring[c] \in Seq(Nat) PROVE Line(c)' = wave[c] \o t.ring[c]
    <3>1. wave[c] \in Seq(Nat)
      BY LineType
    <3>2. (wave[c] \o t.ring[c]) \o <<>> = wave[c] \o t.ring[c]
      BY <2>3, <3>1
    <3>. QED  BY <2>1, <3>2 DEF Line
  <2>4. CASE Rebuild /\ t = NewThread(pending, FALSE) /\ AfterReinit["old"] = NoThread
    <3>1. reinit /\ ~reinit' /\ old'.phase = "none" /\ updates # 0
      BY <2>1, <2>2, <2>4, Started DEF Rebuild, ReaderInv
    <3>2. \A c \in Counters : t.pos[c] = 0 /\ t.ring[c] = <<>>
      BY <2>4 DEF NewThread, StartOffset
    <3>3. ReaderInv'
      BY <2>2, <3>1 DEF ReaderInv
    <3>4. PosInv'
      BY <2>1, <2>2, <3>2, LineType DEF PosInv
    <3>5. ASSUME NEW c \in Counters, ReadOnce(c)'
          PROVE  /\ count'[c] = cur'.pos[c] /\ Inc(Line(c)')
                 /\ \A i \in 1 .. Len(Line(c)') : Line(c)'[i] \in 1 .. cur'.pos[c]
      <4>1. ReadOnce(c) /\ updates = 1 /\ c \notin FirstKnown
        BY <2>2, <3>1, <3>5 DEF ReadOnce
      <4>2. cur.pos[c] = 0
        BY <3>1, <4>1 DEF ReaderInv, PosInv
      <4>3. count[c] = 0 /\ \A i \in 1 .. Len(Line(c)) : Line(c)[i] \in 1 .. 0
        BY <4>1, <4>2 DEF LineInv
      <4>4. wave[c] = <<>>
        <5>1. Line(c) = <<>>
          BY <4>3, LineType
        <5>. QED  BY <5>1, LineType DEF Line
      <4>5. Line(c)' = <<>>
        <5>1. t.ring[c] = <<>> /\ t.ring[c] \in Seq(Nat)
          <6>1. t.ring[c] = <<>>
            BY <3>2, Zenon
          <6>2. <<>> \in Seq(Nat)
            OBVIOUS
          <6>. QED  BY <6>1, <6>2, Zenon
        <5>2. Line(c)' = wave[c] \o t.ring[c]
          BY <2>3, <5>1
        <5>3. wave[c] \o t.ring[c] = <<>>
          <6> HIDE DEF t
          <6>. QED  BY <4>4, <5>1
        <5>. QED  BY <5>2, <5>3, Zenon
      <4>. QED  BY <2>1, <2>2, <3>2, <4>3, <4>5 DEF Inc
    <3>6. LineInv'
      BY <3>5, Zenon DEF LineInv
    <3>. QED  BY <3>3, <3>4, <3>6
  <2>5. CASE ~Rebuild /\ reinit /\ cur.phase # "none" /\ t = NoThread /\ AfterReinit["old"] = cur
    <3>1. updates # 0 /\ t.phase = "none" /\ reinit'
      BY <2>2, <2>5, Started DEF ReaderInv
    <3>2. \A c \in Counters : t.pos[c] = 0 /\ t.ring[c] = <<>>
      BY <2>5 DEF NoThread, NewThread, StartOffset
    <3>3. ReaderInv'
      BY <2>1, <2>2, <2>5, <3>1 DEF ReaderInv
    <3>4. PosInv'
      BY <2>1, <2>2, <3>2, LineType DEF PosInv
    <3>5. ASSUME NEW c \in Counters, ReadOnce(c)'
          PROVE  /\ count'[c] = cur'.pos[c] /\ Inc(Line(c)')
                 /\ \A i \in 1 .. Len(Line(c)') : Line(c)'[i] \in 1 .. cur'.pos[c]
      <4>1. ReadOnce(c) /\ updates = 1 /\ c \notin FirstKnown
        BY <2>2, <3>1, <3>5 DEF ReadOnce
      <4>2. cur.pos[c] = 0
        BY <2>5, <4>1 DEF ReaderInv, PosInv
      <4>3. count[c] = 0 /\ \A i \in 1 .. Len(Line(c)) : Line(c)[i] \in 1 .. 0
        BY <4>1, <4>2 DEF LineInv
      <4>4. wave[c] = <<>>
        <5>1. Line(c) = <<>>
          BY <4>3, LineType
        <5>. QED  BY <5>1, LineType DEF Line
      <4>5. Line(c)' = <<>>
        <5>1. t.ring[c] = <<>> /\ t.ring[c] \in Seq(Nat)
          <6>1. t.ring[c] = <<>>
            BY <3>2, Zenon
          <6>2. <<>> \in Seq(Nat)
            OBVIOUS
          <6>. QED  BY <6>1, <6>2, Zenon
        <5>2. Line(c)' = wave[c] \o t.ring[c]
          BY <2>3, <5>1
        <5>3. wave[c] \o t.ring[c] = <<>>
          <6> HIDE DEF t
          <6>. QED  BY <4>4, <5>1
        <5>. QED  BY <5>2, <5>3, Zenon
      <4>. QED  BY <2>1, <2>2, <3>2, <4>3, <4>5 DEF Inc
    <3>6. LineInv'
      BY <3>5, Zenon DEF LineInv
    <3>. QED  BY <3>3, <3>4, <3>6
  <2>6. CASE ~Rebuild /\ AfterReinit = thread
    <3>1. t = cur /\ AfterReinit["old"] = old /\ (reinit' <=> reinit)
      BY <2>2, <2>6 DEF cur, old
    <3>2. ReaderInv'
      BY <2>1, <2>2, <3>1 DEF ReaderInv
    <3>3. PosInv'
      BY <2>1, <2>2, <3>1 DEF PosInv
    <3>4. \A c \in Counters : Line(c)' = Line(c)
      BY <2>3, <3>1, LineType DEF Line
    <3>5. LineInv'
      BY <2>1, <2>2, <3>1, <3>4 DEF LineInv, ReadOnce
    <3>. QED  BY <3>2, <3>3, <3>5
  <2>. QED  BY <2>4, <2>5, <2>6, Reinit
<1>6. CASE BeginDestroy
  <2>1. /\ old' = old /\ cur'.phase = cur.phase /\ cur'.meta = cur.meta /\ cur'.pos = cur.pos /\ cur'.ring = cur.ring
        /\ UNCHANGED <<wave, count, produced, updates, reinit>>
    BY <1>6, StopAsked DEF BeginDestroy
  <2>2. ReaderInv'
    BY <2>1 DEF ReaderInv
  <2>. QED  BY <1>a, <2>1, <2>2
<1>7. ASSUME NEW c \in Counters, Produce(c) PROVE CountInv'
  <2>1. \A d \in Counters : produced[d] <= produced'[d]
    BY <1>7 DEF Produce, TypeOK
  <2>2. UNCHANGED <<thread, wave, count, updates, reinit>>
    BY <1>7 DEF Produce
  <2>3. PosInv'
    <3>1. ASSUME NEW d \in Counters PROVE cur.pos[d] <= produced'[d]
      <4>1. cur.pos[d] \in Nat /\ produced[d] \in Nat /\ produced'[d] \in Nat /\ cur.pos[d] <= produced[d]
        BY <1>7, LineType DEF PosInv, Produce, TypeOK
      <4>. QED  BY <2>1, <4>1
    <3>. QED  BY <2>2, <3>1 DEF PosInv, cur
  <2>. QED  BY <2>2, <2>3 DEF ReaderInv, LineInv, Line, ReadOnce, cur, old
<1>8. CASE UNCHANGED <<thread, wave, count, updates, reinit, produced>>
  BY <1>8 DEF ReaderInv, PosInv, LineInv, Line, ReadOnce, cur, old
<1>. QED  BY <1>0, <1>1, <1>2, <1>3, <1>4, <1>5, <1>6, <1>7, <1>8
           DEF Next, ThreadStep, Frame, CloseFrame, Destructor, ProduceLog, RemoteCommand, DeliverCommand,
               ToggleEnabled, FreeStores, DestroyOldConsumer, vars

\* Until a second thread reads a counter its graph is in order and its count is that of the
\* samples read, whatever was dropped at a full ring or drained when.
THEOREM GraphIsSorted == Spec => []GraphAndCount
<1>1. TypeOK /\ CountInv => GraphAndCount
  <2> SUFFICES ASSUME TypeOK, CountInv, NEW c \in Counters, ReadOnce(c)
               PROVE  /\ \A i \in 2 .. Len(wave[c]) : wave[c][i - 1] < wave[c][i]
                      /\ count[c] <= produced[c] /\ count[c] >= cur.pos[c]
    BY DEF GraphAndCount
  <2>1. /\ wave[c] \in Seq(Nat) /\ cur.ring[c] \in Seq(Nat) /\ cur.pos[c] \in Nat /\ produced[c] \in Nat
        /\ count[c] = cur.pos[c] /\ cur.pos[c] <= produced[c] /\ Inc(Line(c))
    BY LineType DEF CountInv, PosInv, LineInv
  <2>2. ASSUME NEW i \in 2 .. Len(wave[c]) PROVE wave[c][i - 1] < wave[c][i]
    <3>1. i \in 2 .. Len(Line(c)) /\ Line(c)[i - 1] = wave[c][i - 1] /\ Line(c)[i] = wave[c][i]
      <4>1. /\ Len(Line(c)) = Len(wave[c]) + Len(cur.ring[c])
            /\ \A j \in 1 .. Len(wave[c]) : Line(c)[j] = wave[c][j]
        BY <2>1, Prefix, Zenon DEF Line
      <4>2. PICK m \in Nat : m = Len(wave[c])
        BY <2>1
      <4>3. PICK n \in Nat : n = Len(cur.ring[c])
        BY <2>1
      <4>4. i - 1 \in 1 .. m /\ i \in 1 .. m /\ i \in 2 .. m + n
        BY <2>2, <4>2
      <4>. QED  BY <4>1, <4>2, <4>3, <4>4, Zenon
    <3>. QED  BY <2>1, <3>1 DEF Inc
  <2>. QED  BY <2>1, <2>2
<1>. QED  BY <1>1, TypesInit, TypesStep, CountInit, CountStep, PTL DEF Spec

-----------------------------------------------------------------------------
(* The commands given after the replay. What matters is the last event of  *)
(* the queue: once the thread has read the whole topic and nothing of this *)
(* window is on its way, that is the newest command.                       *)

CommandInv ==
  /\ cur.ctlPos <= Len(ctl)
  /\ ~cur.replaying /\ cur.ctlPos > cur.replayPos /\ cur.ctlPos = Len(ctl) /\ sent = <<>>
       => AfterEvents(checked, cur.ctlQ) = ctl[cur.ctlPos]

SameCommands(t, r) ==
  t.ctlPos = r.ctlPos /\ t.replayPos = r.replayPos /\ t.replaying = r.replaying /\ t.ctlQ = r.ctlQ

LEMMA CommandTypes == ASSUME TypeOK
                      PROVE  /\ thread \in [Slots -> Thread] /\ Slots = {"cur", "old"} /\ cur \in Thread
                             /\ cur.ctlPos \in Nat /\ cur.replayPos \in Nat /\ cur.ctlQ \in Seq(BOOLEAN)
                             /\ Len(ctl) \in Nat /\ ctl \in Seq(BOOLEAN)
<1>1. thread \in [Slots -> Thread] /\ Slots = {"cur", "old"} /\ cur \in Thread
  BY DEF TypeOK, Slots, cur
<1>2. ctl \in Seq(BOOLEAN)
  BY DEF TypeOK
<1>3. Len(ctl) \in Nat
  BY <1>2
<1>4. cur.ctlPos \in Nat /\ cur.replayPos \in Nat
  BY <1>1, Zenon DEF Thread
<1>5. cur.ctlQ \in Seq(BOOLEAN)
  BY <1>1, Zenon DEF Thread
<1>. QED  BY <1>1, <1>2, <1>3, <1>4, <1>5, Zenon

\* the fields of a thread that its other steps write
LEMMA OtherFields ==
  ASSUME NEW r \in Thread, NEW x
  PROVE  SameCommands([r EXCEPT !.logPos = x], r) /\ SameCommands([r EXCEPT !.phase = x], r)
<1>1. SameCommands([r EXCEPT !.logPos = x], r)
  BY DEF SameCommands, Thread
<1>2. SameCommands([r EXCEPT !.phase = x], r)
  BY DEF SameCommands, Thread
<1>. QED  BY <1>1, <1>2, Zenon

\* the steps of the thread that reads the session that read no command
LEMMA QuietSteps ==
  ASSUME TypeOK, NEW s \in Slots, s = "cur", PollLog(s) \/ LeaveLoop(s) \/ RunDone(s) \/ Exit(s)
  PROVE  SameCommands(cur', cur)
<1>1. thread \in [Slots -> Thread] /\ Slots = {"cur", "old"} /\ cur \in Thread
  BY CommandTypes
<1>3. ASSUME NEW phase, thread' = [thread EXCEPT !["cur"].phase = phase] PROVE SameCommands(cur', cur)
  <2>1. cur' = [cur EXCEPT !.phase = phase]
    BY <1>1, <1>3 DEF cur
  <2>. QED  BY <1>1, <2>1, OtherFields
<1>4. CASE PollLog(s)
  <2>1. cur' = [cur EXCEPT !.logPos = @ + 1]
    BY <1>1, <1>4 DEF PollLog, cur
  <2>. QED  BY <1>1, <2>1, OtherFields
<1>5. CASE LeaveLoop(s)
  BY <1>3, <1>5, Zenon DEF LeaveLoop
<1>6. CASE RunDone(s)
  BY <1>3, <1>6, Zenon DEF RunDone
<1>7. CASE Exit(s)
  BY <1>3, <1>7, Zenon DEF Exit
<1>. QED  BY <1>4, <1>5, <1>6, <1>7

\* a thread that starts has no command yet and replays
LEMMA FreshCommands ==
  ASSUME NEW t, NEW meta, NEW hasLog, t = NewThread(meta, hasLog) \/ t = NoThread
  PROVE  t.ctlPos = 0 /\ t.replaying
<1>1. CASE t = NewThread(meta, hasLog)
  BY <1>1 DEF NewThread
<1>2. CASE t = NoThread
  BY <1>2 DEF NewThread, NoThread
<1>. QED  BY <1>1, <1>2

LEMMA LastAppended ==
  ASSUME NEW q \in Seq(BOOLEAN), NEW e \in BOOLEAN, NEW b
  PROVE  AfterEvents(b, Append(q, e)) = e
<1>1. Append(q, e) # <<>> /\ Append(q, e)[Len(Append(q, e))] = e
  OBVIOUS
<1>. QED  BY <1>1 DEF AfterEvents, Last

\* More commands on the topic than before: the thread has not read the newest.
LEMMA LongerTopic ==
  ASSUME TypeOK, CommandInv, cur' = cur, Len(ctl') = Len(ctl) + 1
  PROVE  CommandInv'
<1>1. PICK n \in Nat : n = Len(ctl)
  BY CommandTypes
<1>2. PICK p \in Nat : p = cur.ctlPos
  BY CommandTypes
<1>3. p <= n /\ Len(ctl') = n + 1 /\ cur'.ctlPos = p
  BY <1>1, <1>2 DEF CommandInv
<1>4. p <= n + 1 /\ p # n + 1
  BY <1>3
<1>. QED  BY <1>3, <1>4 DEF CommandInv

LEMMA CommandInit == Init => CommandInv
<1> SUFFICES ASSUME Init PROVE CommandInv
  OBVIOUS
<1>1. cur = NewThread(FirstKnown, TRUE)
  BY DEF Init, cur, Slots
<1>2. cur.ctlPos = 0 /\ cur.replaying
  BY <1>1 DEF NewThread
<1>3. ctl = <<>> /\ Len(<<>>) = 0
  BY DEF Init
<1>. QED  BY <1>2, <1>3 DEF CommandInv

LEMMA CommandStep == TypeOK /\ CommandInv /\ [Next]_vars => CommandInv'
<1> SUFFICES ASSUME TypeOK, CommandInv, [Next]_vars PROVE CommandInv'
  OBVIOUS
<1> USE CommandTypes DEF sessionVars, storeVars
<1>s. ASSUME SameCommands(cur', cur), UNCHANGED <<ctl, sent, checked>> PROVE CommandInv'
  BY <1>s DEF CommandInv, SameCommands
<1>1. ASSUME NEW s \in Slots, ThreadStep(s) PROVE CommandInv'
  <2>1. UNCHANGED <<ctl, sent, checked>> /\ \A o \in Slots \ {s} : thread'[o] = thread[o]
    BY <1>1, ThreadSteps
  <2>2. CASE s = "old"
    BY <1>s, <2>1, <2>2 DEF SameCommands, cur
  <2>3. CASE s = "cur"
    <3>0. cur = thread["cur"] /\ thread["cur"] \in Thread /\ cur' = thread'["cur"]
      BY DEF cur
    <3>1. CASE \/ \E c \in Counters : PollSample(s, c)
               \/ PollLog(s) \/ LeaveLoop(s) \/ RunDone(s) \/ Exit(s)
      <4>1. ASSUME NEW c \in Counters, PollSample(s, c) PROVE SameCommands(cur', cur)
        BY <2>3, <3>0, <4>1 DEF PollSample, SameCommands, Thread
      <4>2. ASSUME PollLog(s) \/ LeaveLoop(s) \/ RunDone(s) \/ Exit(s) PROVE SameCommands(cur', cur)
        BY <2>3, <4>2, QuietSteps
      <4>. QED  BY <1>s, <2>1, <3>1, <4>1, <4>2, Zenon
    <3>2. CASE PollCtl(s)
      <4>1. /\ cur.ctlPos < Len(ctl) /\ cur'.ctlPos = cur.ctlPos + 1
            /\ cur'.ctlQ = Append(cur.ctlQ, ctl[cur.ctlPos + 1])
        BY <2>3, <3>0, <3>2 DEF PollCtl, Thread
      <4>2. ctl[cur.ctlPos + 1] \in BOOLEAN
        BY <4>1
      <4>3. AfterEvents(checked, cur'.ctlQ) = ctl[cur'.ctlPos]
        BY <4>1, <4>2, LastAppended
      <4>4. cur'.ctlPos <= Len(ctl)
        BY <4>1
      <4>. QED  BY <2>1, <4>3, <4>4 DEF CommandInv
    <3>3. CASE ReplayCtl(s)
      <4>1. cur'.ctlPos = cur.ctlPos /\ cur'.replaying = cur.replaying /\ cur.replaying
        BY <2>3, <3>0, <3>3 DEF ReplayCtl, Thread
      <4>. QED  BY <2>1, <4>1 DEF CommandInv
    <3>4. CASE ReplayEnd(s)
      <4>1. cur'.ctlPos = cur.ctlPos /\ cur'.replayPos = Len(ctl)
        BY <2>3, <3>0, <3>4 DEF ReplayEnd, Thread
      <4>2. ~(cur'.ctlPos > cur'.replayPos)
        BY <4>1 DEF CommandInv
      <4>. QED  BY <2>1, <4>1, <4>2 DEF CommandInv
    <3>. QED  BY <1>1, <3>1, <3>2, <3>3, <3>4 DEF ThreadStep
  <2>. QED  BY <2>2, <2>3
<1>2. ASSUME thread' = [thread EXCEPT !["cur"] = IF @.phase = "none" THEN @ ELSE RequestStop(@)]
      PROVE  SameCommands(cur', cur)
  <2>1. cur' = IF cur.phase = "none" THEN cur ELSE RequestStop(cur)
    BY <1>2 DEF cur
  <2>. QED  BY <2>1 DEF SameCommands, RequestStop, Thread
<1>3. CASE BeginDestroy \/ \E new \in SUBSET (Counters \ announced) : NotifyMetaUpdated(announced \cup new)
  BY <1>s, <1>2, <1>3 DEF BeginDestroy, NotifyMetaUpdated
<1>4. ASSUME NEW visible \in BOOLEAN, NEW close \in BOOLEAN, Render(visible, close) PROVE CommandInv'
  <2> DEFINE t == AfterReinit["cur"]
  <2>1. UNCHANGED <<ctl, sent>> /\ t \in Thread /\ AfterReinit \in [Slots -> Thread]
    BY <1>4, Reinit DEF Render
  <2>2. /\ cur'.ctlPos = t.ctlPos /\ cur'.replayPos = t.replayPos /\ cur'.replaying = t.replaying
        /\ AfterEvents(checked', cur'.ctlQ) = AfterEvents(checked, t.ctlQ)
    <3>1. CASE visible /\ t.phase # "none"
      <4> DEFINE new == [t EXCEPT !.ring = [c \in Counters |-> <<>>], !.ctlQ = <<>>]
      <4>1. /\ checked' = AfterEvents(checked, t.ctlQ)
            /\ thread' = [AfterReinit EXCEPT !["cur"] = new]
        BY <1>4, <2>1, <3>1 DEF Render, Thread
      <4>2. new.ctlPos = t.ctlPos /\ new.replayPos = t.replayPos /\ new.replaying = t.replaying /\ new.ctlQ = <<>>
        BY <2>1 DEF Thread
      <4> HIDE DEF new
      <4>3. cur' = new
        BY <2>1, <4>1 DEF cur
      <4>4. AfterEvents(checked', <<>>) = checked'
        BY DEF AfterEvents
      <4>. QED  BY <4>1, <4>2, <4>3, <4>4
    <3>2. CASE ~(visible /\ t.phase # "none")
      BY <1>4, <3>2 DEF Render, cur
    <3>. QED  BY <3>1, <3>2
  <2>3. CASE t = cur
    BY <2>1, <2>2, <2>3 DEF CommandInv
  <2>4. CASE t = NewThread(pending, FALSE) \/ t = NoThread
    <3>1. t.ctlPos = 0 /\ t.replaying
      BY <2>4, FreshCommands, Zenon
    <3>2. 0 <= Len(ctl)
      OBVIOUS
    <3>. QED  BY <2>1, <2>2, <3>1, <3>2 DEF CommandInv
  <2>. QED  BY <2>3, <2>4, Reinit DEF cur
<1>5. CASE ToggleEnabled
  <2>1. sent' = Append(sent, ~checked) /\ UNCHANGED <<ctl, thread>> /\ sent \in Seq(BOOLEAN)
    BY <1>5 DEF ToggleEnabled, TypeOK
  <2>2. sent' # <<>>
    BY <2>1
  <2>. QED  BY <2>1, <2>2 DEF CommandInv, cur
<1>6. CASE DeliverCommand
  <2>1. thread' = thread /\ ctl' = Append(ctl, Head(sent))
    BY <1>6 DEF DeliverCommand
  <2>. QED  BY <2>1, LongerTopic DEF cur
<1>7. ASSUME NEW b \in BOOLEAN, RemoteCommand(b) PROVE CommandInv'
  <2>1. thread' = thread /\ ctl' = Append(ctl, b)
    BY <1>7 DEF RemoteCommand
  <2>. QED  BY <2>1, LongerTopic DEF cur
<1>8. CASE UNCHANGED <<thread, ctl, sent, checked>>
  BY <1>8 DEF CommandInv, cur
<1>. QED  BY <1>1, <1>3, <1>4, <1>5, <1>6, <1>7, <1>8
           DEF Next, ThreadStep, Frame, CloseFrame, Destructor, Produce, ProduceLog, FreeStores,
               DestroyOldConsumer, vars

\* Once the commands given after the replay are read, the checkbox shows the newest of them,
\* however they crossed with the user's own clicks and with reinitialisations.
THEOREM LastCommandStays == Spec => []LateCommandsApply
<1>1. TypeOK /\ CommandInv => LateCommandsApply
  <2> SUFFICES ASSUME TypeOK, CommandInv, Settled, Len(ctl) > cur.replayPos PROVE checked = Last(ctl)
    BY DEF LateCommandsApply
  <2>1. AfterEvents(checked, <<>>) = ctl[cur.ctlPos] /\ cur.ctlPos = Len(ctl)
    BY DEF Settled, CommandInv
  <2>. QED  BY <2>1 DEF AfterEvents, Last
<1>. QED  BY <1>1, TypesInit, TypesStep, CommandInit, CommandStep, PTL DEF Spec

=============================================================================
