---------------------- MODULE SessionLifecycle_proofs ----------------------
(***************************************************************************)
(* Theorems about SessionLifecycle, for every number of sessions and       *)
(* counters, every interval, delay and threshold, and every number of      *)
(* faults and deletions.                                                   *)
(***************************************************************************)
EXTENDS SessionLifecycle, TLAPS

-----------------------------------------------------------------------------
(* The inductive invariant.                                                *)

Phases == {"absent", "open", "running", "closing", "stopping", "goodbye", "ended", "died"}
Ages   == [state : {"data", "ALIVE", "SHUTDOWN"}, age : Nat]
Sent   == [topic : Counters \cup {"log", Heartbeat}, state : {"data", "ALIVE", "SHUTDOWN"}, age : Nat]

TypesOK ==
  /\ phase \in [Sessions -> Phases]
  /\ hb \in [Sessions -> [at : {"none", "sleep", "beat", "exited"}, slept : 0 .. Interval]]
  /\ queue \in [Sessions -> Seq(Sent)]
  /\ newest \in [DOMAIN newest -> Ages]
  /\ late \in BOOLEAN /\ wasLate \in BOOLEAN
  /\ probe \in [Probers -> [at : {"idle", "query", "read", "unread"}, session : Sessions \cup {""},
                            elapsed : 0 .. ProbeTicks, record : Ages \cup {<< >>}]]
  /\ status \in [Sessions -> [state : {"Unknown", "Live", "GoingOffline", "Offline", "Historical"},
                              hb : BOOLEAN]]
  /\ quick \in [Sessions -> {"unknown", "alive", "dead", "unread"}]
  /\ said \subseteq Sessions

Beats(s)  == {i \in DOMAIN queue[s] : queue[s][i].topic = Heartbeat}
BeatTopic(s) == <<s, Heartbeat>>

\* what a program that works has and a program that has not begun has not
PhaseInv ==
  /\ late => wasLate
  /\ \A s \in said : phase[s] \in {"goodbye", "ended", "died"}
  /\ \A s \in Sessions : Alive(s) => hb[s].at \in {"sleep", "beat"}
  /\ \A s \in Sessions : phase[s] = "absent" =>
       /\ hb[s].at = "none"
       /\ BeatTopic(s) \notin DOMAIN newest /\ queue[s] = << >>
       /\ ~status[s].hb /\ quick[s] # "dead"
       /\ \A p \in Probers : probe[p].at = "read" => probe[p].session # s

\* a record of the heartbeat topic, queued, stored or read, is a beat or the goodbye
IsBeat(r, s) == r.state \in {"ALIVE", "SHUTDOWN"} /\ (r.state = "SHUTDOWN" => s \in said)
RecordInv ==
  /\ \A s \in Sessions : \A i \in Beats(s) : IsBeat(queue[s][i], s)
  /\ \A s \in Sessions : BeatTopic(s) \in DOMAIN newest => IsBeat(newest[BeatTopic(s)], s)

\* the time since the thread has sent a beat, or will have when it is due
Since(s) == IF hb[s].at = "sleep" THEN hb[s].slept ELSE Interval

\* after the record at position n (0: the newest stored) a beat of the queue followed in time,
\* or the thread is not late yet
Followed(s, age, n) ==
  \/ age <= Since(s)
  \/ \E j \in Beats(s) : j > n /\ age <= queue[s][j].age + Interval

BeatInv ==
  ~wasLate =>
    /\ \A s \in Sessions : \A i \in DOMAIN queue[s] : queue[s][i].age <= MaxDelay
    /\ \A s \in Sessions : Alive(s) =>
         /\ \A i \in Beats(s) : Followed(s, queue[s][i].age, i)
         /\ BeatTopic(s) \in DOMAIN newest => Followed(s, newest[BeatTopic(s)].age, 0)

\* a probe holds a record no older than one it could read now plus the time it has taken
ProbeInv ==
  \A p \in Probers :
    /\ probe[p].at # "read" => probe[p].record = << >>
    /\ probe[p].at # "idle" => probe[p].session \in Sessions
    /\ probe[p].at = "read" =>
         /\ probe[p].record \in Ages /\ IsBeat(probe[p].record, probe[p].session)
         /\ ~wasLate /\ Alive(probe[p].session) =>
              probe[p].record.age <= Interval + MaxDelay + probe[p].elapsed

LifeInv == TypesOK /\ PhaseInv /\ RecordInv /\ BeatInv /\ ProbeInv /\ StatusHonest

-----------------------------------------------------------------------------
(* Queues, ages and the steps that leave the heartbeat alone.              *)

LEMMA QueueAppend ==
  ASSUME NEW q \in Seq(Sent), NEW x \in Sent
  PROVE  /\ Append(q, x) \in Seq(Sent)
         /\ Len(q) \in Nat /\ Len(Append(q, x)) = Len(q) + 1
         /\ DOMAIN q = 1 .. Len(q) /\ DOMAIN Append(q, x) = 1 .. Len(q) + 1
         /\ \A i \in 1 .. Len(q) : Append(q, x)[i] = q[i]
         /\ Append(q, x)[Len(q) + 1] = x
  OBVIOUS

LEMMA QueueTail ==
  ASSUME NEW q \in Seq(Sent), q # << >>
  PROVE  /\ Tail(q) \in Seq(Sent) /\ Head(q) = q[1] /\ Head(q) \in Sent
         /\ Len(q) \in Nat \ {0}
         /\ DOMAIN q = 1 .. Len(q) /\ DOMAIN Tail(q) = 1 .. Len(q) - 1
         /\ \A i \in 1 .. Len(q) - 1 : Tail(q)[i] = q[i + 1]
  OBVIOUS

LEMMA QueueTypes ==
  ASSUME TypesOK, NEW s \in Sessions
  PROVE  /\ queue[s] \in Seq(Sent) /\ Len(queue[s]) \in Nat /\ DOMAIN queue[s] = 1 .. Len(queue[s])
         /\ \A i \in 1 .. Len(queue[s]) : queue[s][i] \in Sent /\ queue[s][i].age \in Nat
         /\ Since(s) \in Nat /\ Since(s) <= Interval
         /\ BeatTopic(s) \in DOMAIN newest => newest[BeatTopic(s)] \in Ages
  <1>1. queue[s] \in Seq(Sent) /\ hb[s].slept \in 0 .. Interval
    BY DEF TypesOK
  <1>2. Since(s) \in Nat /\ Since(s) <= Interval
    BY <1>1, LifecycleAssumption DEF Since
  <1>3. BeatTopic(s) \in DOMAIN newest => newest[BeatTopic(s)] \in Ages
    BY DEF TypesOK
  <1>4. /\ Len(queue[s]) \in Nat /\ DOMAIN queue[s] = 1 .. Len(queue[s])
        /\ \A i \in 1 .. Len(queue[s]) : queue[s][i] \in Sent
    BY <1>1
  <1>5. \A x \in Sent : x.age \in Nat
    BY DEF Sent
  <1>. QED  BY <1>1, <1>2, <1>3, <1>4, <1>5

\* the topics of the heartbeat lose nothing but themselves
BeatTopicsKept ==
  /\ newest' \in [DOMAIN newest' -> Ages]
  /\ \A s \in Sessions : BeatTopic(s) \in DOMAIN newest' =>
       BeatTopic(s) \in DOMAIN newest /\ newest'[BeatTopic(s)] = newest[BeatTopic(s)]

\* A step that sends nothing, lets no program begin and looks at nothing.
LEMMA CalmStep ==
  ASSUME LifeInv, BeatTopicsKept,
         phase' \in [Sessions -> Phases],
         hb' \in [Sessions -> [at : {"none", "sleep", "beat", "exited"}, slept : 0 .. Interval]],
         queue' \in [Sessions -> Seq(Sent)],
         \A s \in Sessions : /\ Alive(s)' => Alive(s) /\ hb'[s] = hb[s]
                             /\ phase'[s] = "absent" => phase[s] = "absent" /\ hb'[s] = hb[s]
                             /\ queue'[s] # queue[s] => queue'[s] = << >> /\ ~Alive(s)',
         \A s \in said : phase'[s] \in {"goodbye", "ended", "died"},
         late' \in BOOLEAN, late' => late \/ wasLate', wasLate' \in BOOLEAN, wasLate => wasLate',
         UNCHANGED <<probe, status, quick, said>>
  PROVE  LifeInv'
  <1>1. TypesOK'
    BY DEF LifeInv, TypesOK, BeatTopicsKept
  <1>2. PhaseInv'
    <2>1. /\ late => wasLate
          /\ \A s \in Sessions : Alive(s) => hb[s].at \in {"sleep", "beat"}
      BY DEF LifeInv, PhaseInv
    <2>2. ASSUME NEW s \in Sessions, phase'[s] = "absent"
          PROVE  /\ hb'[s].at = "none"
                 /\ BeatTopic(s) \notin DOMAIN newest' /\ queue'[s] = << >>
                 /\ ~status'[s].hb /\ quick'[s] # "dead"
                 /\ \A p \in Probers : probe'[p].at = "read" => probe'[p].session # s
      <3>1. phase[s] = "absent" /\ hb'[s] = hb[s]
        BY <2>2
      <3>2. /\ hb[s].at = "none" /\ BeatTopic(s) \notin DOMAIN newest /\ queue[s] = << >>
            /\ ~status[s].hb /\ quick[s] # "dead"
            /\ \A p \in Probers : probe[p].at = "read" => probe[p].session # s
        BY <3>1 DEF LifeInv, PhaseInv
      <3>3. BeatTopic(s) \notin DOMAIN newest'
        BY <3>2 DEF BeatTopicsKept
      <3>. QED  BY <3>1, <3>2, <3>3
    <2>3. \A s \in Sessions : Alive(s)' => hb'[s].at \in {"sleep", "beat"}
      BY <2>1
    <2>. QED  BY <2>1, <2>2, <2>3 DEF PhaseInv, BeatTopic
  <1>3. RecordInv'
    <2>1. ASSUME NEW s \in Sessions, NEW i \in Beats(s)' PROVE IsBeat(queue[s][i], s)'
      <3>1. CASE queue'[s] = queue[s]
        BY <2>1, <3>1 DEF LifeInv, RecordInv, Beats, IsBeat
      <3>2. CASE queue'[s] = << >>
        BY <2>1, <3>2 DEF Beats
      <3>. QED  BY <3>1, <3>2
    <2>2. ASSUME NEW s \in Sessions, BeatTopic(s) \in DOMAIN newest' PROVE IsBeat(newest[BeatTopic(s)], s)'
      BY <2>2 DEF LifeInv, RecordInv, BeatTopicsKept, IsBeat, BeatTopic
    <2>. QED  BY <2>1, <2>2 DEF RecordInv, BeatTopic
  <1>4. BeatInv'
    <2> SUFFICES ASSUME ~wasLate'
                 PROVE  /\ \A s \in Sessions : \A i \in DOMAIN queue'[s] : queue'[s][i].age <= MaxDelay
                        /\ \A s \in Sessions : Alive(s)' =>
                             /\ \A i \in Beats(s)' : Followed(s, queue[s][i].age, i)'
                             /\ BeatTopic(s) \in DOMAIN newest' => Followed(s, newest[BeatTopic(s)].age, 0)'
      BY DEF BeatInv, BeatTopic
    <2>1. ~wasLate
      OBVIOUS
    <2>2. ASSUME NEW s \in Sessions, NEW i \in DOMAIN queue'[s] PROVE queue'[s][i].age <= MaxDelay
      <3>1. \A j \in DOMAIN queue[s] : queue[s][j].age <= MaxDelay
        BY <2>1 DEF LifeInv, BeatInv
      <3>2. CASE queue'[s] = queue[s]
        BY <2>2, <3>1, <3>2
      <3>3. CASE queue'[s] = << >>
        BY <2>2, <3>3
      <3>. QED  BY <3>2, <3>3
    <2>3. ASSUME NEW s \in Sessions, Alive(s)'
          PROVE  /\ \A i \in Beats(s)' : Followed(s, queue[s][i].age, i)'
                 /\ BeatTopic(s) \in DOMAIN newest' => Followed(s, newest[BeatTopic(s)].age, 0)'
      <3>1. Alive(s) /\ queue'[s] = queue[s] /\ Beats(s)' = Beats(s) /\ Since(s)' = Since(s)
        BY <2>3 DEF Beats, Since
      <3>2. /\ \A i \in Beats(s) : Followed(s, queue[s][i].age, i)
            /\ BeatTopic(s) \in DOMAIN newest => Followed(s, newest[BeatTopic(s)].age, 0)
        BY <2>1, <3>1 DEF LifeInv, BeatInv
      <3>. QED  BY <3>1, <3>2 DEF Followed, BeatTopicsKept, BeatTopic
    <2>. QED  BY <2>2, <2>3
  <1>5. ProbeInv'
    BY DEF LifeInv, TypesOK, ProbeInv, IsBeat, Alive
  <1>6. StatusHonest'
    BY DEF LifeInv, StatusHonest
  <1>. QED  BY <1>1, <1>2, <1>3, <1>4, <1>5, <1>6 DEF LifeInv

\* A record more in a queue. If it is a beat it may follow all the others.
LEMMA SendKeepsBeats ==
  ASSUME LifeInv, NEW r \in Sessions, NEW x \in Sent, x.age = 0,
         queue' = [queue EXCEPT ![r] = Append(@, x)],
         UNCHANGED <<newest, wasLate>>,
         \A s \in Sessions : Alive(s)' => Alive(s),
         \A s \in Sessions : s # r => hb'[s] = hb[s],
         Alive(r)' => hb'[r] = hb[r] \/ (x.topic = Heartbeat /\ Since(r)' = 0)
  PROVE  BeatInv'
  <1> SUFFICES ASSUME ~wasLate
               PROVE  /\ \A s \in Sessions : \A i \in DOMAIN queue'[s] : queue'[s][i].age <= MaxDelay
                      /\ \A s \in Sessions : Alive(s)' =>
                           /\ \A i \in Beats(s)' : Followed(s, queue[s][i].age, i)'
                           /\ BeatTopic(s) \in DOMAIN newest => Followed(s, newest[BeatTopic(s)].age, 0)'
    BY DEF BeatInv, BeatTopic
  <1> DEFINE n == Len(queue[r])
  <1>0. /\ \A s \in Sessions : \A i \in DOMAIN queue[s] : queue[s][i].age <= MaxDelay
        /\ \A s \in Sessions : Alive(s) =>
             /\ \A i \in Beats(s) : Followed(s, queue[s][i].age, i)
             /\ BeatTopic(s) \in DOMAIN newest => Followed(s, newest[BeatTopic(s)].age, 0)
    BY DEF LifeInv, BeatInv
  <1>1. /\ n \in Nat /\ DOMAIN queue[r] = 1 .. n /\ DOMAIN queue'[r] = 1 .. n + 1
        /\ \A i \in 1 .. n : queue'[r][i] = queue[r][i]
        /\ queue'[r][n + 1] = x
        /\ \A s \in Sessions : s # r => queue'[s] = queue[s]
    <2>1. queue[r] \in Seq(Sent) /\ queue'[r] = Append(queue[r], x)
      BY DEF LifeInv, TypesOK
    <2>2. \A s \in Sessions : s # r => queue'[s] = queue[s]
      BY DEF LifeInv, TypesOK
    <2>. QED  BY <2>1, <2>2, QueueAppend
  <1>2. ASSUME NEW s \in Sessions, NEW i \in DOMAIN queue'[s] PROVE queue'[s][i].age <= MaxDelay
    BY <1>0, <1>1, LifecycleAssumption
  <1>3. ASSUME NEW s \in Sessions, s # r, Alive(s)'
        PROVE  /\ \A i \in Beats(s)' : Followed(s, queue[s][i].age, i)'
               /\ BeatTopic(s) \in DOMAIN newest => Followed(s, newest[BeatTopic(s)].age, 0)'
    <2>1. Alive(s) /\ queue'[s] = queue[s] /\ Beats(s)' = Beats(s) /\ Since(s)' = Since(s)
      BY <1>1, <1>3 DEF Beats, Since
    <2>. QED  BY <1>0, <2>1 DEF Followed
  <1>4. ASSUME Alive(r)'
        PROVE  /\ \A i \in Beats(r)' : Followed(r, queue[r][i].age, i)'
               /\ BeatTopic(r) \in DOMAIN newest => Followed(r, newest[BeatTopic(r)].age, 0)'
    <2>0. Alive(r) /\ Since(r) \in Nat /\ Since(r) <= Interval
      BY <1>4, QueueTypes DEF LifeInv
    <2>1. \A i \in 1 .. n : i \in Beats(r)' <=> i \in Beats(r)
      BY <1>1 DEF Beats
    <2>2. ASSUME NEW age \in Nat, NEW i \in 0 .. n, Followed(r, age, i) PROVE Followed(r, age, i)'
      <3>1. CASE \E j \in Beats(r) : j > i /\ age <= queue[r][j].age + Interval
        <4>1. PICK j \in Beats(r) : j > i /\ age <= queue[r][j].age + Interval
          BY <3>1
        <4>2. j \in Beats(r)' /\ queue'[r][j] = queue[r][j]
          BY <1>1, <2>1 DEF Beats
        <4>. QED  BY <4>1, <4>2 DEF Followed
      <3>2. CASE age <= Since(r) /\ hb'[r] = hb[r]
        BY <3>2 DEF Followed, Since
      <3>3. CASE age <= Since(r) /\ x.topic = Heartbeat
        <4>1. n + 1 \in Beats(r)' /\ queue'[r][n + 1].age = 0 /\ n + 1 > i
          BY <1>1, <3>3 DEF Beats
        <4>2. age <= queue'[r][n + 1].age + Interval
          BY <2>0, <3>3, <4>1, LifecycleAssumption
        <4>. QED  BY <4>1, <4>2 DEF Followed
      <3>. QED  BY <1>4, <2>2, <3>1, <3>2, <3>3 DEF Followed
    <2>3. ASSUME NEW i \in Beats(r)' PROVE Followed(r, queue[r][i].age, i)'
      <3>1. CASE i = n + 1
        <4>1. Since(r)' >= 0
          BY <1>4, <2>0 DEF Since
        <4>. QED  BY <1>1, <3>1, <4>1 DEF Followed
      <3>2. CASE i \in 1 .. n
        <4>1. /\ i \in Beats(r) /\ queue'[r][i] = queue[r][i] /\ queue[r][i].age \in Nat
              /\ Followed(r, queue[r][i].age, i)
          BY <1>0, <1>1, <2>0, <2>1, <3>2, QueueTypes DEF LifeInv
        <4>2. \A age \in Nat : Followed(r, age, i) => Followed(r, age, i)'
          BY <1>1, <2>2, <3>2
        <4>. QED  BY <4>1, <4>2 DEF Followed
      <3>. QED  BY <1>1, <3>1, <3>2 DEF Beats
    <2>4. ASSUME BeatTopic(r) \in DOMAIN newest PROVE Followed(r, newest[BeatTopic(r)].age, 0)'
      <3>1. newest[BeatTopic(r)].age \in Nat /\ Followed(r, newest[BeatTopic(r)].age, 0)
        BY <1>0, <2>0, <2>4, QueueTypes DEF LifeInv, Ages
      <3>2. \A age \in Nat : Followed(r, age, 0) => Followed(r, age, 0)'
        BY <1>1, <2>2
      <3>. QED  BY <3>1, <3>2 DEF Followed, BeatTopic
    <2>. QED  BY <2>3, <2>4
  <1>. QED  BY <1>2, <1>3, <1>4

\* The same when the queues and the heartbeats stay.
LEMMA StillStep ==
  ASSUME LifeInv, BeatTopicsKept, UNCHANGED <<phase, hb, queue, probe, status, quick, said>>,
         late' \in BOOLEAN, late' => late \/ wasLate', wasLate' \in BOOLEAN, wasLate => wasLate'
  PROVE  LifeInv'
  <1>1. /\ phase' \in [Sessions -> Phases]
        /\ hb' \in [Sessions -> [at : {"none", "sleep", "beat", "exited"}, slept : 0 .. Interval]]
        /\ queue' \in [Sessions -> Seq(Sent)]
    BY DEF LifeInv, TypesOK
  <1>2. \A s \in said : phase'[s] \in {"goodbye", "ended", "died"}
    BY DEF LifeInv, PhaseInv
  <1>3. \A s \in Sessions : /\ Alive(s)' => Alive(s) /\ hb'[s] = hb[s]
                            /\ phase'[s] = "absent" => phase[s] = "absent" /\ hb'[s] = hb[s]
                            /\ queue'[s] # queue[s] => queue'[s] = << >> /\ ~Alive(s)'
    BY DEF Alive
  <1>4. UNCHANGED <<probe, status, quick, said>>
    OBVIOUS
  <1>. QED  BY <1>1, <1>2, <1>3, <1>4, CalmStep

LEMMA Kept == ASSUME TypesOK, UNCHANGED newest PROVE BeatTopicsKept
  BY DEF TypesOK, BeatTopicsKept

LEMMA CalmActions ==
  ASSUME LifeInv, NEW s \in Sessions,
         \/ WriteSessionHeader(s) \/ Close(s) \/ StopHeartbeat(s) \/ DestroyProducer(s) \/ Exit(s)
         \/ (\E c \in Counters : RegisterCounter(s, c))
  PROVE  LifeInv'
  <1> USE DEF programVars, brokerVars, probeVars, history
  <1>0. TypesOK /\ PhaseInv
    BY DEF LifeInv
  <1>t. /\ phase \in [Sessions -> Phases] /\ queue \in [Sessions -> Seq(Sent)]
        /\ hb \in [Sessions -> [at : {"none", "sleep", "beat", "exited"}, slept : 0 .. Interval]]
        /\ late \in BOOLEAN /\ wasLate \in BOOLEAN /\ said \subseteq Sessions
        /\ \A r \in said : phase[r] \in {"goodbye", "ended", "died"}
    BY <1>0 DEF TypesOK, PhaseInv
  <1>g. ASSUME NEW p \in Phases \ {"absent"}, Go(s, p)
        PROVE  /\ phase' \in [Sessions -> Phases] /\ phase'[s] = p
               /\ \A r \in Sessions : r # s => phase'[r] = phase[r]
    BY <1>t, <1>g DEF Go
  <1>1. CASE WriteSessionHeader(s)
    <2>1. BeatTopicsKept
      <3>1. /\ DOMAIN newest' = DOMAIN newest \cup {<<s, "ctl">>}
            /\ \A k \in DOMAIN newest' : newest'[k] = IF k = <<s, "ctl">> THEN [state |-> "data", age |-> 0]
                                                      ELSE newest[k]
            /\ newest' = [k \in DOMAIN newest' |-> newest'[k]]
        BY <1>1 DEF WriteSessionHeader
      <3>2. [state |-> "data", age |-> 0] \in Ages
        BY DEF Ages
      <3>3. \A k \in DOMAIN newest' : newest'[k] \in Ages
        BY <1>0, <3>1, <3>2 DEF TypesOK
      <3>4. \A r \in Sessions : BeatTopic(r) # <<s, "ctl">>
        BY DEF BeatTopic, Heartbeat
      <3>. QED  BY <3>1, <3>3, <3>4 DEF BeatTopicsKept
    <2>2. /\ phase[s] = "open" /\ phase' \in [Sessions -> Phases] /\ phase'[s] = "running"
          /\ \A r \in Sessions : r # s => phase'[r] = phase[r]
          /\ UNCHANGED <<hb, queue, late, probe, status, quick, said, wasLate>>
      BY <1>1, <1>g DEF WriteSessionHeader, Phases
    <2>3. \A r \in Sessions : /\ Alive(r)' => Alive(r) /\ hb'[r] = hb[r]
                              /\ phase'[r] = "absent" => phase[r] = "absent" /\ hb'[r] = hb[r]
                              /\ queue'[r] # queue[r] => queue'[r] = << >> /\ ~Alive(r)'
      BY <2>2 DEF Alive
    <2>4. \A r \in said : phase'[r] \in {"goodbye", "ended", "died"}
      BY <1>t, <2>2
    <2>. QED  BY <1>t, <2>1, <2>2, <2>3, <2>4, CalmStep
  <1>2. CASE Close(s) \/ StopHeartbeat(s)
    <2>1. PICK p \in {"closing", "stopping"} : Go(s, p) /\ phase[s] \in {"running", "closing"}
      BY <1>2 DEF Close, StopHeartbeat
    <2>2. /\ phase' \in [Sessions -> Phases] /\ phase'[s] = p
          /\ \A r \in Sessions : r # s => phase'[r] = phase[r]
      BY <2>1, <1>g DEF Phases
    <2>3. UNCHANGED <<newest, hb, queue, late, probe, status, quick, said, wasLate>>
      BY <1>2 DEF Close, StopHeartbeat
    <2>4. \A r \in Sessions : /\ Alive(r)' => Alive(r) /\ hb'[r] = hb[r]
                              /\ phase'[r] = "absent" => phase[r] = "absent" /\ hb'[r] = hb[r]
                              /\ queue'[r] # queue[r] => queue'[r] = << >> /\ ~Alive(r)'
      BY <2>1, <2>2, <2>3 DEF Alive
    <2>5. \A r \in said : phase'[r] \in {"goodbye", "ended", "died"}
      BY <1>t, <2>1, <2>2
    <2>. QED  BY <1>0, <1>t, <2>2, <2>3, <2>4, <2>5, CalmStep, Kept
  <1>3. CASE DestroyProducer(s) \/ Exit(s)
    <2>1. PICK p \in {"ended", "died"} : Go(s, p)
      BY <1>3 DEF DestroyProducer, Exit
    <2>2. /\ phase' \in [Sessions -> Phases] /\ phase'[s] = p
          /\ \A r \in Sessions : r # s => phase'[r] = phase[r]
      BY <2>1, <1>g DEF Phases
    <2>3. /\ UNCHANGED <<newest, late, probe, status, quick, said, wasLate>>
          /\ queue' = [queue EXCEPT ![s] = << >>]
          /\ hb' = hb \/ hb' = [hb EXCEPT ![s] = [at |-> "none", slept |-> 0]]
      BY <1>3 DEF DestroyProducer, Exit
    <2>4. /\ queue' \in [Sessions -> Seq(Sent)] /\ queue'[s] = << >>
          /\ \A r \in Sessions : r # s => queue'[r] = queue[r] /\ hb'[r] = hb[r]
      BY <1>t, <2>3
    <2>5. hb' \in [Sessions -> [at : {"none", "sleep", "beat", "exited"}, slept : 0 .. Interval]]
      <3>1. [at |-> "none", slept |-> 0] \in [at : {"none", "sleep", "beat", "exited"}, slept : 0 .. Interval]
        BY LifecycleAssumption
      <3>. QED  BY <1>t, <2>3, <3>1
    <2>6. \A r \in Sessions : /\ Alive(r)' => Alive(r) /\ hb'[r] = hb[r]
                              /\ phase'[r] = "absent" => phase[r] = "absent" /\ hb'[r] = hb[r]
                              /\ queue'[r] # queue[r] => queue'[r] = << >> /\ ~Alive(r)'
      <3>1. ~Alive(s)' /\ phase'[s] # "absent"
        BY <2>2 DEF Alive
      <3>2. \A r \in Sessions : r # s => phase'[r] = phase[r] /\ queue'[r] = queue[r] /\ hb'[r] = hb[r]
        BY <2>2, <2>4
      <3>. QED  BY <2>4, <3>1, <3>2 DEF Alive
    <2>7. \A r \in said : phase'[r] \in {"goodbye", "ended", "died"}
      BY <1>t, <2>1, <2>2
    <2>. QED  BY <1>0, <1>t, <2>2, <2>3, <2>4, <2>5, <2>6, <2>7, CalmStep, Kept
  <1>4. CASE \E c \in Counters : RegisterCounter(s, c)
    <2>1. UNCHANGED <<newest, phase, hb, queue, probe, status, quick, said, late, wasLate>>
      BY <1>4 DEF RegisterCounter
    <2>2. late' \in BOOLEAN /\ wasLate' \in BOOLEAN
      BY <1>t, <2>1
    <2>. QED  BY <1>0, <2>1, <2>2, StillStep, Kept
  <1>. QED  BY <1>1, <1>2, <1>3, <1>4

\* The tools look at the lists and delete topics: they never write one.
LEMMA DeletionActions == ASSUME LifeInv, Deletions PROVE LifeInv'
  <1> USE DEF programVars, brokerVars, probeVars, history
  <1>0. TypesOK
    BY DEF LifeInv
  <1>1. ASSUME UNCHANGED <<phase, hb, queue, probe, status, quick, said, late, wasLate>>,
               newest' = newest \/ \E S : newest' = Without(newest, S)
        PROVE  LifeInv'
    <2>1. CASE newest' = newest
      BY <1>0, <1>1, <2>1, Kept, StillStep DEF TypesOK
    <2>2. CASE \E S : newest' = Without(newest, S)
      <3>1. PICK S : newest' = Without(newest, S)
        BY <2>2
      <3>2. newest' = [k \in DOMAIN newest \ S |-> newest[k]]
        BY <3>1 DEF Without, Restrict
      <3>3. BeatTopicsKept
        BY <1>0, <3>2 DEF TypesOK, BeatTopicsKept
      <3>. QED  BY <1>0, <1>1, <3>3, StillStep DEF TypesOK
    <2>. QED  BY <1>1, <2>1, <2>2
  <1>2. ASSUME NEW t \in Tools, DeleteSessionTopics(t) PROVE LifeInv'
    <2>1. /\ UNCHANGED <<phase, hb, queue, probe, status, quick, said, late, wasLate>>
          /\ \E S : newest' = Without(newest, S)
      BY <1>2 DEF DeleteSessionTopics
    <2>. QED  BY <1>1, <2>1
  <1>3. ASSUME NEW t \in Tools, MarkSessionDeleted(t) \/ ListChannelTopics(t) \/ Killed(t)
        PROVE  LifeInv'
    <2>1. UNCHANGED <<newest, phase, hb, queue, probe, status, quick, said, late, wasLate>>
      BY <1>3 DEF MarkSessionDeleted, ListChannelTopics, Killed
    <2>. QED  BY <1>1, <2>1
  <1>4. ASSUME NEW t \in Tools, DeleteChannel(t) PROVE LifeInv'
    <2>1. /\ UNCHANGED <<phase, hb, queue, probe, status, quick, said, late, wasLate>>
          /\ newest' = newest \/ newest' = Without(newest, tool[t].topics)
      BY <1>4 DEF DeleteChannel
    <2>. QED  BY <1>1, <2>1
  <1>5. ASSUME NEW t \in Tools, NEW S \in SUBSET Sessions, ConfirmDelete(t, S) PROVE LifeInv'
    <2>1. UNCHANGED <<newest, phase, hb, queue, probe, status, quick, said, late, wasLate>>
      BY <1>5 DEF ConfirmDelete
    <2>. QED  BY <1>1, <2>1
  <1>6. ASSUME DiscoverSessions \/ Leave \/ \E s \in Sessions : Appeared(s) \/ Disappeared(s)
        PROVE  LifeInv'
    <2>1. UNCHANGED <<newest, phase, hb, queue, probe, status, quick, said, late, wasLate>>
      BY <1>6 DEF DiscoverSessions, Leave, Appeared, Disappeared
    <2>. QED  BY <1>1, <2>1
  <1>. QED  BY <1>2, <1>3, <1>4, <1>5, <1>6 DEF Deletions

-----------------------------------------------------------------------------
(* The steps of the program that concern the heartbeat.                    *)

\* Write, Beat and SayGoodbye: something is sent, or the queue is full behind a late broker.
LEMMA SendStep ==
  ASSUME LifeInv, NEW r \in Sessions, NEW topic \in Counters \cup {"log", Heartbeat},
         NEW st \in {"data", "ALIVE", "SHUTDOWN"}, Send(r, topic, st),
         UNCHANGED <<newest, late, wasLate, probe, status, quick>>,
         phase' \in [Sessions -> Phases],
         hb' \in [Sessions -> [at : {"none", "sleep", "beat", "exited"}, slept : 0 .. Interval]],
         said' \subseteq Sessions, said \subseteq said',
         \A s \in said' : phase'[s] \in {"goodbye", "ended", "died"},
         \A s \in Sessions : /\ Alive(s)' => Alive(s) /\ hb'[s].at \in {"sleep", "beat"}
                             /\ phase'[s] = "absent" => phase[s] = "absent" /\ s # r
                             /\ s # r => hb'[s] = hb[s],
         Alive(r)' => hb'[r] = hb[r] \/ (topic = Heartbeat /\ Since(r)' = 0),
         topic = Heartbeat => st = "ALIVE" \/ (st = "SHUTDOWN" /\ r \in said')
  PROVE  LifeInv'
  <1> DEFINE x == [topic |-> topic, state |-> st, age |-> 0]
  <1>0. /\ x \in Sent /\ x.age = 0 /\ x.topic = topic /\ x.state = st
        /\ TypesOK /\ queue[r] \in Seq(Sent)
    BY DEF LifeInv, TypesOK, Sent
  <1>q. (queue' = queue /\ late) \/ queue' = [queue EXCEPT ![r] = Append(@, x)]
    BY DEF Send
  <1>1. TypesOK'
    <2>1. queue' \in [Sessions -> Seq(Sent)]
      <3>1. Append(queue[r], x) \in Seq(Sent)
        BY <1>0, QueueAppend
      <3>2. queue \in [Sessions -> Seq(Sent)]
        BY <1>0 DEF TypesOK
      <3>3. CASE queue' = [queue EXCEPT ![r] = Append(@, x)]
        BY <3>1, <3>2, <3>3
      <3>. QED  BY <1>q, <3>2, <3>3
    <2>. QED  BY <1>0, <2>1 DEF TypesOK
  <1>2. PhaseInv'
    <2>1. \A s \in Sessions : s # r => queue'[s] = queue[s]
      BY <1>0, <1>q DEF TypesOK
    <2>. QED  BY <2>1 DEF LifeInv, PhaseInv, BeatTopic
  <1>3. RecordInv'
    <2>1. ASSUME NEW s \in Sessions, NEW i \in Beats(s)' PROVE IsBeat(queue[s][i], s)'
      <3>1. CASE queue'[s] = queue[s]
        BY <2>1, <3>1 DEF LifeInv, RecordInv, Beats, IsBeat
      <3>2. CASE s = r /\ queue'[r] = Append(queue[r], x)
        <4>1. \/ i = Len(queue[r]) + 1 /\ queue'[s][i] = x
              \/ i \in DOMAIN queue[r] /\ queue'[s][i] = queue[r][i]
          BY <1>0, <2>1, <3>2, QueueAppend DEF Beats
        <4>2. CASE queue'[s][i] = x
          BY <1>0, <2>1, <3>2, <4>2 DEF Beats, IsBeat
        <4>3. CASE i \in DOMAIN queue[r] /\ queue'[s][i] = queue[r][i]
          BY <2>1, <3>2, <4>3 DEF LifeInv, RecordInv, Beats, IsBeat
        <4>. QED  BY <4>1, <4>2, <4>3
      <3>3. queue \in [Sessions -> Seq(Sent)]
        BY <1>0 DEF TypesOK
      <3>4. queue' = queue => queue'[s] = queue[s]
        OBVIOUS
      <3>5. queue' = [queue EXCEPT ![r] = Append(@, x)] =>
              queue'[s] = queue[s] \/ (s = r /\ queue'[r] = Append(queue[r], x))
        BY <3>3
      <3>. QED  BY <1>q, <3>1, <3>2, <3>4, <3>5
    <2>2. ASSUME NEW s \in Sessions, BeatTopic(s) \in DOMAIN newest' PROVE IsBeat(newest[BeatTopic(s)], s)'
      BY <2>2 DEF LifeInv, RecordInv, IsBeat, BeatTopic
    <2>. QED  BY <2>1, <2>2 DEF RecordInv, BeatTopic
  <1>4. BeatInv'
    <2>1. CASE late
      BY <2>1 DEF LifeInv, PhaseInv, BeatInv
    <2>2. CASE queue' = [queue EXCEPT ![r] = Append(@, x)]
      BY <1>0, <2>2, SendKeepsBeats
    <2>. QED  BY <1>q, <2>1, <2>2
  <1>5. ProbeInv'
    BY DEF LifeInv, ProbeInv, IsBeat, Alive
  <1>6. StatusHonest'
    BY DEF LifeInv, StatusHonest
  <1>. QED  BY <1>1, <1>2, <1>3, <1>4, <1>5, <1>6 DEF LifeInv

LEMMA SendActions ==
  ASSUME LifeInv, NEW s \in Sessions,
         (\E x \in Counters \cup {"log"} : Write(s, x)) \/ Beat(s) \/ SayGoodbye(s)
  PROVE  LifeInv'
  <1> USE DEF programVars, brokerVars, probeVars, history
  <1>0. TypesOK /\ PhaseInv
    BY DEF LifeInv
  <1>t. /\ phase \in [Sessions -> Phases] /\ said \subseteq Sessions
        /\ hb \in [Sessions -> [at : {"none", "sleep", "beat", "exited"}, slept : 0 .. Interval]]
        /\ \A r \in said : phase[r] \in {"goodbye", "ended", "died"}
        /\ \A r \in Sessions : Alive(r) => hb[r].at \in {"sleep", "beat"}
        /\ \A r \in Sessions : phase[r] = "absent" => hb[r].at = "none"
    BY <1>0 DEF TypesOK, PhaseInv
  <1>1. ASSUME NEW x \in Counters \cup {"log"}, Write(s, x) PROVE LifeInv'
    <2>1. x # Heartbeat
      BY LifecycleAssumption DEF Heartbeat
    <2>2. /\ phase[s] = "running" /\ Send(s, x, "data")
          /\ UNCHANGED <<phase, hb, newest, late, wasLate, probe, status, quick, said>>
      BY <1>1 DEF Write
    <2>3. \A r \in Sessions : /\ Alive(r)' => Alive(r) /\ hb'[r].at \in {"sleep", "beat"}
                              /\ phase'[r] = "absent" => phase[r] = "absent" /\ r # s
                              /\ hb'[r] = hb[r]
      BY <1>t, <2>2 DEF Alive
    <2>4. x \in Counters \cup {"log", Heartbeat} /\ "data" \in {"data", "ALIVE", "SHUTDOWN"}
      OBVIOUS
    <2>. QED  BY <1>t, <2>1, <2>2, <2>3, <2>4, SendStep
  <1>2. CASE Beat(s)
    <2>1. /\ hb[s].at = "beat" /\ Send(s, Heartbeat, "ALIVE")
          /\ hb' = [hb EXCEPT ![s] = [at |-> "sleep", slept |-> 0]]
          /\ UNCHANGED <<phase, newest, late, wasLate, probe, status, quick, said>>
      BY <1>2 DEF Beat
    <2>2. [at |-> "sleep", slept |-> 0] \in [at : {"none", "sleep", "beat", "exited"}, slept : 0 .. Interval]
      BY LifecycleAssumption
    <2>3. /\ hb' \in [Sessions -> [at : {"none", "sleep", "beat", "exited"}, slept : 0 .. Interval]]
          /\ hb'[s] = [at |-> "sleep", slept |-> 0]
          /\ \A r \in Sessions : r # s => hb'[r] = hb[r]
      BY <1>t, <2>1, <2>2
    <2>4. Since(s)' = 0
      BY <2>3 DEF Since
    <2>5. \A r \in Sessions : /\ Alive(r)' => Alive(r) /\ hb'[r].at \in {"sleep", "beat"}
                              /\ phase'[r] = "absent" => phase[r] = "absent" /\ r # s
                              /\ r # s => hb'[r] = hb[r]
      BY <1>t, <2>1, <2>3 DEF Alive
    <2>6. Heartbeat \in Counters \cup {"log", Heartbeat} /\ "ALIVE" \in {"data", "ALIVE", "SHUTDOWN"}
      OBVIOUS
    <2>. QED  BY <1>t, <2>1, <2>3, <2>4, <2>5, <2>6, SendStep
  <1>3. CASE SayGoodbye(s)
    <2>1. /\ phase[s] = "stopping" /\ phase' = [phase EXCEPT ![s] = "goodbye"]
          /\ Send(s, Heartbeat, "SHUTDOWN") /\ said' = said \cup {s}
          /\ UNCHANGED <<hb, newest, late, wasLate, probe, status, quick>>
      BY <1>3 DEF SayGoodbye, Go
    <2>2. /\ phase' \in [Sessions -> Phases] /\ phase'[s] = "goodbye"
          /\ \A r \in Sessions : r # s => phase'[r] = phase[r]
      BY <1>t, <2>1 DEF Phases
    <2>3. \A r \in said' : phase'[r] \in {"goodbye", "ended", "died"}
      BY <1>t, <2>1, <2>2
    <2>4. \A r \in Sessions : /\ Alive(r)' => Alive(r) /\ hb'[r].at \in {"sleep", "beat"}
                              /\ phase'[r] = "absent" => phase[r] = "absent" /\ r # s
                              /\ r # s => hb'[r] = hb[r]
      BY <1>t, <2>1, <2>2 DEF Alive
    <2>5. ~Alive(s)'
      BY <2>2 DEF Alive
    <2>. QED  BY <1>t, <2>1, <2>2, <2>3, <2>4, <2>5, SendStep
  <1>. QED  BY <1>1, <1>2, <1>3

\* A program begins, or its heartbeat thread wakes: the queues and the topics stay.
LEMMA ThreadStep ==
  ASSUME LifeInv, NEW s \in Sessions, Connect(s) \/ HeartbeatWakes(s)
  PROVE  LifeInv'
  <1> USE DEF programVars, brokerVars, probeVars, history
  <1>0. TypesOK /\ PhaseInv
    BY DEF LifeInv
  <1>1. /\ phase \in [Sessions -> Phases]
        /\ hb \in [Sessions -> [at : {"none", "sleep", "beat", "exited"}, slept : 0 .. Interval]]
        /\ Interval \in Nat
    BY <1>0, LifecycleAssumption DEF TypesOK
  <1>2. UNCHANGED <<queue, newest, late, wasLate, probe, status, quick, said>>
    BY DEF Connect, HeartbeatWakes
  <1>3. PICK a \in {"sleep", "beat", "exited"}, n \in {0, Interval} : hb' = [hb EXCEPT ![s] = [at |-> a, slept |-> n]]
    BY DEF Connect, HeartbeatWakes
  <1>4. /\ hb' \in [Sessions -> [at : {"none", "sleep", "beat", "exited"}, slept : 0 .. Interval]]
        /\ \A r \in Sessions : r # s => hb'[r] = hb[r]
    <2>1. [at |-> a, slept |-> n] \in [at : {"none", "sleep", "beat", "exited"}, slept : 0 .. Interval]
      BY <1>1
    <2>. QED  BY <1>1, <1>3, <2>1
  <1>5. /\ phase' \in [Sessions -> Phases]
        /\ \A r \in Sessions : r # s => phase'[r] = phase[r]
        /\ (phase'[s] # "absent" /\ s \notin said) \/ phase' = phase
    <2>1. CASE Connect(s)
      BY <1>0, <1>1, <2>1 DEF Connect, Go, PhaseInv, Phases
    <2>2. CASE HeartbeatWakes(s)
      BY <1>1, <2>2 DEF HeartbeatWakes
    <2>. QED  BY <2>1, <2>2
  <1>6. /\ phase'[s] # "absent"
        /\ Alive(s)' => /\ hb'[s].at \in {"sleep", "beat"} /\ Since(s)' = Interval
                        /\ ~Alive(s) => phase[s] = "absent"
    <2>1. CASE Connect(s)
      BY <1>1, <2>1 DEF Connect, Go, Since, Alive
    <2>2. CASE HeartbeatWakes(s)
      <3>1. phase[s] # "absent" /\ phase' = phase
        BY <1>0, <2>2 DEF HeartbeatWakes, PhaseInv
      <3>2. Alive(s) => hb'[s] = [at |-> "beat", slept |-> 0]
        BY <1>1, <2>2 DEF HeartbeatWakes, Alive, Stopping
      <3>. QED  BY <3>1, <3>2 DEF Since, Alive
    <2>. QED  BY <2>1, <2>2
  <1>7. TypesOK'
    BY <1>0, <1>2, <1>4, <1>5 DEF TypesOK
  <1>8. PhaseInv'
    <2>1. \A r \in said : phase'[r] \in {"goodbye", "ended", "died"}
      BY <1>0, <1>5 DEF PhaseInv, TypesOK
    <2>2. \A r \in Sessions : Alive(r)' => hb'[r].at \in {"sleep", "beat"}
      BY <1>0, <1>4, <1>5, <1>6 DEF PhaseInv, Alive
    <2>3. \A r \in Sessions : phase'[r] = "absent" => r # s /\ phase[r] = "absent" /\ hb'[r] = hb[r]
      BY <1>4, <1>5, <1>6
    <2>. QED  BY <1>0, <1>2, <2>1, <2>2, <2>3 DEF PhaseInv, BeatTopic
  <1>9. RecordInv'
    BY <1>2 DEF LifeInv, RecordInv, Beats, IsBeat, BeatTopic
  <1>10. BeatInv'
    <2> SUFFICES ASSUME ~wasLate
                 PROVE  /\ \A r \in Sessions : \A i \in DOMAIN queue[r] : queue[r][i].age <= MaxDelay
                        /\ \A r \in Sessions : Alive(r)' =>
                             /\ \A i \in Beats(r) : Followed(r, queue[r][i].age, i)'
                             /\ BeatTopic(r) \in DOMAIN newest => Followed(r, newest[BeatTopic(r)].age, 0)'
      BY <1>2 DEF BeatInv, Beats, BeatTopic
    <2>1. /\ \A r \in Sessions : \A i \in DOMAIN queue[r] : queue[r][i].age <= MaxDelay
          /\ \A r \in Sessions : Alive(r) =>
               /\ \A i \in Beats(r) : Followed(r, queue[r][i].age, i)
               /\ BeatTopic(r) \in DOMAIN newest => Followed(r, newest[BeatTopic(r)].age, 0)
      BY DEF LifeInv, BeatInv
    <2>2. \A r \in Sessions : Beats(r)' = Beats(r)
      BY <1>2 DEF Beats
    <2>3. ASSUME NEW r \in Sessions, Alive(r)'
          PROVE  /\ \A i \in Beats(r) : Followed(r, queue[r][i].age, i)'
                 /\ BeatTopic(r) \in DOMAIN newest => Followed(r, newest[BeatTopic(r)].age, 0)'
      <3>1. CASE r # s
        <4>1. Alive(r) /\ Since(r)' = Since(r)
          BY <1>4, <1>5, <2>3, <3>1 DEF Alive, Since
        <4>. QED  BY <1>2, <2>1, <2>2, <4>1 DEF Followed, BeatTopic
      <3>2. CASE r = s /\ phase[s] = "absent"
        BY <1>0, <3>2 DEF PhaseInv, Beats
      <3>3. CASE r = s /\ Alive(s)
        <4>1. Since(s)' = Interval /\ Since(s) \in Nat /\ Since(s) <= Interval
          BY <1>0, <1>6, <2>3, <3>3, QueueTypes
        <4>2. \A i \in Beats(s) : queue[s][i].age \in Nat
          BY <1>0, QueueTypes DEF Beats
        <4>3. BeatTopic(s) \in DOMAIN newest => newest[BeatTopic(s)].age \in Nat
          BY <1>0, QueueTypes DEF Ages
        <4>4. \A age \in Nat : \A i \in Nat : Followed(s, age, i) => Followed(s, age, i)'
          BY <1>1, <1>2, <2>2, <4>1 DEF Followed
        <4>5. \A i \in Beats(s) : i \in Nat
          BY <1>0, QueueTypes DEF Beats
        <4>6. /\ \A i \in Beats(s) : Followed(s, queue[s][i].age, i)
              /\ BeatTopic(s) \in DOMAIN newest => Followed(s, newest[BeatTopic(s)].age, 0)
          BY <2>1, <3>3
        <4>7. ASSUME NEW i \in Beats(s) PROVE Followed(s, queue[s][i].age, i)'
          <5>1. Followed(s, queue[s][i].age, i) /\ queue[s][i].age \in Nat /\ i \in Nat /\ queue'[s][i] = queue[s][i]
            BY <1>2, <4>2, <4>5, <4>6
          <5>. QED  BY <1>1, <1>2, <2>2, <4>1, <5>1 DEF Followed
        <4>8. ASSUME BeatTopic(s) \in DOMAIN newest PROVE Followed(s, newest[BeatTopic(s)].age, 0)'
          <5>1. Followed(s, newest[BeatTopic(s)].age, 0) /\ newest[BeatTopic(s)].age \in Nat
            BY <4>3, <4>6, <4>8
          <5>. QED  BY <1>1, <1>2, <2>2, <4>1, <5>1 DEF Followed, BeatTopic
        <4>. QED  BY <3>3, <4>7, <4>8
      <3>. QED  BY <1>6, <2>3, <3>1, <3>2, <3>3
    <2>. QED  BY <2>1, <2>3
  <1>11. ProbeInv'
    <2>1. ASSUME NEW p \in Probers, probe[p].at = "read", Alive(probe[p].session)'
          PROVE  Alive(probe[p].session)
      <3>1. probe[p].session \in Sessions /\ phase[probe[p].session] # "absent"
        BY <1>0, <2>1 DEF LifeInv, ProbeInv, PhaseInv
      <3>. QED  BY <1>2, <1>5, <1>6, <2>1, <3>1 DEF Alive
    <2>. QED  BY <1>2, <2>1 DEF LifeInv, ProbeInv, IsBeat, Alive
  <1>12. StatusHonest'
    <2>1. ASSUME NEW r \in Sessions, Alive(r)' PROVE Alive(r) \/ (~status[r].hb /\ quick[r] # "dead")
      <3>1. phase[r] = "absent" => ~status[r].hb /\ quick[r] # "dead"
        BY <1>0 DEF PhaseInv
      <3>. QED  BY <1>5, <1>6, <2>1, <3>1 DEF Alive
    <2>. QED  BY <1>2, <2>1 DEF LifeInv, StatusHonest, Alive
  <1>. QED  BY <1>7, <1>8, <1>9, <1>10, <1>11, <1>12 DEF LifeInv

\* The oldest record of a queue is stored: those behind it move up by one.
LEMMA DeliverStep == ASSUME LifeInv, NEW s \in Sessions, Deliver(s) PROVE LifeInv'
  <1> USE DEF programVars, brokerVars, probeVars, history
  <1> DEFINE r   == Head(queue[s])
             key == <<s, r.topic>>
             n   == Len(queue[s])
  <1>0. TypesOK /\ PhaseInv
    BY DEF LifeInv
  <1>1. /\ queue \in [Sessions -> Seq(Sent)] /\ newest \in [DOMAIN newest -> Ages]
        /\ Interval \in Nat /\ MaxDelay \in Nat
    BY <1>0, LifecycleAssumption DEF TypesOK
  <1>2. UNCHANGED <<phase, hb, late, wasLate, probe, status, quick, said>> /\ ~late
    BY DEF Deliver
  <1>3. /\ queue[s] # << >> /\ queue' = [queue EXCEPT ![s] = Tail(queue[s])]
        /\ newest' = [k \in DOMAIN newest \cup {key} |->
                         IF k = key THEN [state |-> r.state, age |-> r.age] ELSE newest[k]]
    BY DEF Deliver
  <1>4. /\ Tail(queue[s]) \in Seq(Sent) /\ r = queue[s][1] /\ r \in Sent
        /\ n \in Nat \ {0} /\ DOMAIN queue[s] = 1 .. n /\ DOMAIN Tail(queue[s]) = 1 .. n - 1
        /\ \A i \in 1 .. n - 1 : Tail(queue[s])[i] = queue[s][i + 1]
    BY <1>1, <1>3, QueueTail
  <1>5. /\ queue' \in [Sessions -> Seq(Sent)] /\ queue'[s] = Tail(queue[s])
        /\ \A q \in Sessions : q # s => queue'[q] = queue[q]
    BY <1>1, <1>3, <1>4
  <1>6. /\ DOMAIN newest' = DOMAIN newest \cup {key}
        /\ newest'[key] = [state |-> r.state, age |-> r.age]
        /\ \A k \in DOMAIN newest : k # key => newest'[k] = newest[k]
        /\ newest' = [k \in DOMAIN newest' |-> newest'[k]]
    BY <1>3
  <1>7. [state |-> r.state, age |-> r.age] \in Ages /\ r.age \in Nat
    BY <1>4 DEF Sent, Ages
  <1>8. newest' \in [DOMAIN newest' -> Ages]
    BY <1>1, <1>6, <1>7
  <1>9. TypesOK'
    BY <1>0, <1>2, <1>5, <1>8 DEF TypesOK
  <1>10. \A q \in Sessions : /\ q # s => BeatTopic(q) # key
                             /\ q = s => (BeatTopic(q) = key <=> r.topic = Heartbeat)
    BY DEF BeatTopic
  <1>11. ASSUME NEW q \in Sessions, BeatTopic(q) \in DOMAIN newest'
         PROVE  \/ BeatTopic(q) \in DOMAIN newest /\ newest'[BeatTopic(q)] = newest[BeatTopic(q)]
                      /\ (q = s => r.topic # Heartbeat)
                \/ q = s /\ r.topic = Heartbeat /\ newest'[BeatTopic(q)] = [state |-> r.state, age |-> r.age]
    BY <1>6, <1>10, <1>11
  <1>12. PhaseInv'
    <2>1. phase[s] # "absent"
      BY <1>0, <1>3 DEF PhaseInv
    <2>2. ASSUME NEW q \in Sessions, phase[q] = "absent"
          PROVE  BeatTopic(q) \notin DOMAIN newest' /\ queue'[q] = << >>
      BY <1>0, <1>5, <1>6, <1>10, <2>1, <2>2 DEF PhaseInv
    <2>. QED  BY <1>0, <1>2, <2>2 DEF PhaseInv, Alive, BeatTopic
  \* a beat of the queue after the step is the one that was behind it
  <1>13. ASSUME NEW i \in Beats(s)'
         PROVE  i \in 1 .. n - 1 /\ i + 1 \in Beats(s) /\ queue'[s][i] = queue[s][i + 1]
    BY <1>4, <1>5, <1>13 DEF Beats
  <1>14. ASSUME NEW i \in Beats(s), i # 1
         PROVE  i \in 2 .. n /\ i - 1 \in Beats(s)' /\ queue'[s][i - 1] = queue[s][i]
    <2>1. i \in 2 .. n /\ queue[s][i].topic = Heartbeat
      BY <1>4, <1>14 DEF Beats
    <2>2. i - 1 \in 1 .. n - 1 /\ i - 1 + 1 = i
      BY <1>4, <2>1
    <2>3. Tail(queue[s])[i - 1] = queue[s][i]
      BY <1>4, <2>2
    <2>. QED  BY <1>4, <1>5, <2>1, <2>2, <2>3 DEF Beats
  <1>15. \A q \in Sessions : q # s => Beats(q)' = Beats(q)
    BY <1>5 DEF Beats
  <1>16. RecordInv'
    <2>0. /\ \A q \in Sessions : \A i \in Beats(q) : IsBeat(queue[q][i], q)
          /\ \A q \in Sessions : BeatTopic(q) \in DOMAIN newest => IsBeat(newest[BeatTopic(q)], q)
      BY DEF LifeInv, RecordInv
    <2>1. ASSUME NEW q \in Sessions, NEW i \in Beats(q)' PROVE IsBeat(queue[q][i], q)'
      <3>1. CASE q = s
        <4>1. IsBeat(queue[s][i + 1], s) /\ queue'[s][i] = queue[s][i + 1]
          BY <1>13, <2>0, <2>1, <3>1
        <4>. QED  BY <1>2, <3>1, <4>1 DEF IsBeat
      <3>2. CASE q # s
        BY <1>2, <1>5, <1>15, <2>0, <2>1, <3>2 DEF IsBeat
      <3>. QED  BY <3>1, <3>2
    <2>2. ASSUME NEW q \in Sessions, BeatTopic(q) \in DOMAIN newest' PROVE IsBeat(newest[BeatTopic(q)], q)'
      <3>1. CASE BeatTopic(q) \in DOMAIN newest /\ newest'[BeatTopic(q)] = newest[BeatTopic(q)]
        BY <1>2, <2>0, <3>1 DEF IsBeat, BeatTopic
      <3>2. CASE q = s /\ r.topic = Heartbeat /\ newest'[BeatTopic(q)] = [state |-> r.state, age |-> r.age]
        <4>1. 1 \in Beats(s)
          BY <1>4, <3>2 DEF Beats
        <4>2. IsBeat(r, s)
          BY <1>4, <2>0, <4>1
        <4>. QED  BY <1>2, <3>2, <4>2 DEF IsBeat, BeatTopic
      <3>. QED  BY <1>11, <2>2, <3>1, <3>2
    <2>. QED  BY <2>1, <2>2 DEF RecordInv, BeatTopic
  <1>17. BeatInv'
    <2> SUFFICES ASSUME ~wasLate
                 PROVE  /\ \A q \in Sessions : \A i \in DOMAIN queue'[q] : queue'[q][i].age <= MaxDelay
                        /\ \A q \in Sessions : Alive(q)' =>
                             /\ \A i \in Beats(q)' : Followed(q, queue[q][i].age, i)'
                             /\ BeatTopic(q) \in DOMAIN newest' => Followed(q, newest[BeatTopic(q)].age, 0)'
      BY <1>2 DEF BeatInv, BeatTopic
    <2>0. /\ \A q \in Sessions : \A i \in DOMAIN queue[q] : queue[q][i].age <= MaxDelay
          /\ \A q \in Sessions : Alive(q) =>
               /\ \A i \in Beats(q) : Followed(q, queue[q][i].age, i)
               /\ BeatTopic(q) \in DOMAIN newest => Followed(q, newest[BeatTopic(q)].age, 0)
      BY DEF LifeInv, BeatInv
    <2>1. ASSUME NEW q \in Sessions, NEW i \in DOMAIN queue'[q] PROVE queue'[q][i].age <= MaxDelay
      <3>1. CASE q = s
        <4>1. i \in 1 .. n - 1 /\ queue'[s][i] = queue[s][i + 1] /\ i + 1 \in DOMAIN queue[s]
          BY <1>4, <1>5, <2>1, <3>1
        <4>. QED  BY <2>0, <3>1, <4>1
      <3>2. CASE q # s
        BY <1>5, <2>0, <2>1, <3>2
      <3>. QED  BY <3>1, <3>2
    <2>2. \A q \in Sessions : Since(q)' = Since(q) /\ (Alive(q)' <=> Alive(q))
      BY <1>2 DEF Since, Alive
    \* what followed the record at i + 1 follows the one at i now
    <2>3. ASSUME NEW age \in Nat, NEW i \in Nat, NEW m \in Nat, Followed(s, age, m), m <= i + 1,
                 \A j \in Beats(s) : j > m => j > i + 1
          PROVE  Followed(s, age, i)'
      <3>1. CASE age <= Since(s)
        BY <2>2, <3>1 DEF Followed
      <3>2. CASE \E j \in Beats(s) : j > m /\ age <= queue[s][j].age + Interval
        <4>1. PICK j \in Beats(s) : j > i + 1 /\ age <= queue[s][j].age + Interval
          BY <2>3, <3>2
        <4>2. j - 1 \in Beats(s)' /\ queue'[s][j - 1] = queue[s][j] /\ j \in Nat
          BY <1>4, <1>14, <4>1 DEF Beats
        <4>3. j - 1 > i
          BY <4>1, <4>2
        <4>. QED  BY <4>1, <4>2, <4>3 DEF Followed
      <3>. QED  BY <2>3, <3>1, <3>2 DEF Followed
    <2>4. ASSUME NEW q \in Sessions, Alive(q)', NEW i \in Beats(q)' PROVE Followed(q, queue[q][i].age, i)'
      <3>1. CASE q = s
        <4>1. i \in Nat /\ i + 1 \in Nat /\ i + 1 \in Beats(s) /\ queue'[s][i] = queue[s][i + 1]
          BY <1>4, <1>13, <2>4, <3>1
        <4>2. Followed(s, queue[s][i + 1].age, i + 1) /\ queue[s][i + 1].age \in Nat
          BY <1>0, <2>0, <2>2, <2>4, <3>1, <4>1, QueueTypes DEF Beats
        <4>3. i + 1 <= i + 1
          BY <4>1
        <4>4. \A age \in Nat : Followed(s, age, i + 1) => Followed(s, age, i)'
          BY <2>3, <4>1, <4>3
        <4>. QED  BY <3>1, <4>1, <4>2, <4>4 DEF Followed
      <3>2. CASE q # s
        BY <1>5, <1>15, <2>0, <2>2, <2>4, <3>2 DEF Followed
      <3>. QED  BY <3>1, <3>2
    <2>5. ASSUME NEW q \in Sessions, Alive(q)', BeatTopic(q) \in DOMAIN newest'
          PROVE  Followed(q, newest[BeatTopic(q)].age, 0)'
      <3>0. \A j \in Beats(s) : j \in Nat /\ j >= 1
        BY <1>4 DEF Beats
      <3>1. CASE q # s
        BY <1>2, <1>5, <1>11, <1>15, <2>0, <2>2, <2>5, <3>1 DEF Followed, BeatTopic
      <3>2. CASE q = s /\ r.topic # Heartbeat
        <4>1. BeatTopic(s) \in DOMAIN newest /\ newest'[BeatTopic(s)] = newest[BeatTopic(s)]
          BY <1>11, <2>5, <3>2
        <4>2. 1 \notin Beats(s)
          BY <1>4, <3>2 DEF Beats
        <4>3. \A j \in Beats(s) : j > 0 => j > 0 + 1
          BY <3>0, <4>2
        <4>4. Followed(s, newest[BeatTopic(s)].age, 0) /\ newest[BeatTopic(s)].age \in Nat
          BY <1>0, <2>0, <2>2, <2>5, <3>2, <4>1, QueueTypes DEF Ages
        <4>5. \A age \in Nat : Followed(s, age, 0) => Followed(s, age, 0)'
          BY <2>3, <4>3
        <4>. QED  BY <3>2, <4>1, <4>4, <4>5 DEF Followed, BeatTopic
      <3>3. CASE q = s /\ r.topic = Heartbeat
        <4>1. newest'[BeatTopic(s)].age = r.age
          BY <1>11, <2>5, <3>3
        <4>2. 1 \in Beats(s)
          BY <1>4, <3>3 DEF Beats
        <4>3. Followed(s, r.age, 1)
          BY <1>4, <2>0, <2>2, <2>5, <3>3, <4>2
        <4>4. \A age \in Nat : Followed(s, age, 1) => Followed(s, age, 0)'
          BY <2>3
        <4>. QED  BY <1>7, <3>3, <4>1, <4>3, <4>4 DEF Followed, BeatTopic
      <3>. QED  BY <3>1, <3>2, <3>3
    <2>. QED  BY <2>1, <2>4, <2>5
  <1>18. ProbeInv'
    BY <1>2 DEF LifeInv, ProbeInv, IsBeat, Alive
  <1>19. StatusHonest'
    BY <1>2 DEF LifeInv, StatusHonest, Alive
  <1>. QED  BY <1>9, <1>12, <1>16, <1>17, <1>18, <1>19 DEF LifeInv

LEMMA OlderByOne ==
  ASSUME NEW a \in Nat
  PROVE  /\ Older(a) \in Nat /\ Older(a) <= a + 1
         /\ a <= MaxDelay => Older(a) = a + 1
  BY LifecycleAssumption DEF Older, MaxAge

LEMMA AgedByOne ==
  /\ \A x \in Sent : /\ Aged(x) \in Sent /\ Aged(x).age = Older(x.age)
                     /\ Aged(x).topic = x.topic /\ Aged(x).state = x.state
  /\ \A x \in Ages : Aged(x) \in Ages /\ Aged(x).age = Older(x.age) /\ Aged(x).state = x.state
  BY OlderByOne DEF Sent, Ages, Aged

\* A tick: nothing is on time any more unless it was before its time.
LEMMA TickStep == ASSUME LifeInv, Tick PROVE LifeInv'
  <1> USE DEF programVars, brokerVars, probeVars, history
  <1>0. TypesOK /\ PhaseInv
    BY DEF LifeInv
  <1>1. /\ hb \in [Sessions -> [at : {"none", "sleep", "beat", "exited"}, slept : 0 .. Interval]]
        /\ queue \in [Sessions -> Seq(Sent)] /\ newest \in [DOMAIN newest -> Ages]
        /\ probe \in [Probers -> [at : {"idle", "query", "read", "unread"}, session : Sessions \cup {""},
                                  elapsed : 0 .. ProbeTicks, record : Ages \cup {<< >>}]]
        /\ Interval \in Nat /\ MaxDelay \in Nat /\ ProbeTicks \in Nat
    BY <1>0, LifecycleAssumption DEF TypesOK
  <1>2. UNCHANGED <<phase, late, wasLate, status, quick, said>>
    BY DEF Tick
  <1>3. ASSUME NEW s \in Sessions
        PROVE  /\ hb[s].at # "beat" /\ ~(hb[s].at = "sleep" /\ hb[s].slept = Interval)
               /\ ~late => \A i \in DOMAIN queue[s] : queue[s][i].age < MaxDelay
    BY DEF Tick, OnTime
  <1>4. ASSUME NEW s \in Sessions
        PROVE  /\ hb'[s] \in [at : {"none", "sleep", "beat", "exited"}, slept : 0 .. Interval]
               /\ hb'[s].at = hb[s].at
               /\ hb[s].at = "sleep" => hb'[s].slept = hb[s].slept + 1
               /\ hb[s].at # "sleep" => hb'[s] = hb[s]
    <2>1. hb'[s] = IF hb[s].at = "sleep" THEN [hb[s] EXCEPT !.slept = @ + 1] ELSE hb[s]
      BY DEF Tick
    <2>2. hb[s] \in [at : {"none", "sleep", "beat", "exited"}, slept : 0 .. Interval]
      BY <1>1
    <2>3. hb[s].at = "sleep" => hb[s].slept + 1 \in 0 .. Interval
      <3>1. hb[s].slept \in 0 .. Interval /\ (hb[s].at = "sleep" => hb[s].slept # Interval)
        BY <1>3, <2>2
      <3>2. Interval \in Nat
        BY <1>1
      <3>. QED  BY <3>1, <3>2
    <2>. QED  BY <2>1, <2>2, <2>3
  <1>5. ASSUME NEW s \in Sessions
        PROVE  /\ queue'[s] \in Seq(Sent) /\ DOMAIN queue'[s] = DOMAIN queue[s]
               /\ \A i \in DOMAIN queue[s] : queue'[s][i] = Aged(queue[s][i])
    <2>1. queue'[s] = [i \in DOMAIN queue[s] |-> Aged(queue[s][i])]
      BY DEF Tick
    <2>2. /\ queue[s] \in Seq(Sent) /\ Len(queue[s]) \in Nat /\ DOMAIN queue[s] = 1 .. Len(queue[s])
          /\ \A i \in DOMAIN queue[s] : queue[s][i] \in Sent
      BY <1>0, QueueTypes
    <2>. QED  BY <2>1, <2>2, AgedByOne
  <1>6. ASSUME NEW s \in Sessions, NEW i \in DOMAIN queue[s]
        PROVE  /\ queue[s][i].age \in Nat /\ queue'[s][i].age = Older(queue[s][i].age)
               /\ queue'[s][i].topic = queue[s][i].topic /\ queue'[s][i].state = queue[s][i].state
    <2>1. queue[s][i] \in Sent /\ queue[s][i].age \in Nat
      BY <1>0, QueueTypes
    <2>. QED  BY <1>5, <2>1, AgedByOne
  <1>7. \A s \in Sessions : Beats(s)' = Beats(s)
    BY <1>5, <1>6 DEF Beats
  <1>8. /\ DOMAIN newest' = DOMAIN newest /\ newest' \in [DOMAIN newest -> Ages]
        /\ \A s \in Sessions : BeatTopic(s) \in DOMAIN newest =>
             /\ newest[BeatTopic(s)].age \in Nat
             /\ newest'[BeatTopic(s)].age = Older(newest[BeatTopic(s)].age)
             /\ newest'[BeatTopic(s)].state = newest[BeatTopic(s)].state
    <2>1. newest' = [k \in DOMAIN newest |-> IF k[2] \in {"ctl", "log"} THEN newest[k] ELSE Aged(newest[k])]
      BY DEF Tick
    <2>3. newest' \in [DOMAIN newest -> Ages]
      BY <1>1, <2>1, AgedByOne
    <2>4. ASSUME NEW s \in Sessions, BeatTopic(s) \in DOMAIN newest
          PROVE  /\ newest[BeatTopic(s)].age \in Nat
                 /\ newest'[BeatTopic(s)].age = Older(newest[BeatTopic(s)].age)
                 /\ newest'[BeatTopic(s)].state = newest[BeatTopic(s)].state
      <3>1. BeatTopic(s)[2] \notin {"ctl", "log"}
        BY DEF BeatTopic, Heartbeat
      <3>2. newest[BeatTopic(s)] \in Ages
        BY <1>1, <2>4
      <3>3. newest'[BeatTopic(s)] = Aged(newest[BeatTopic(s)])
        BY <2>1, <2>4, <3>1
      <3>. QED  BY <3>2, <3>3, AgedByOne DEF Ages
    <2>. QED  BY <2>1, <2>3, <2>4
  <1>9. ASSUME NEW p \in Probers
        PROVE  /\ probe'[p] \in [at : {"idle", "query", "read", "unread"}, session : Sessions \cup {""},
                                 elapsed : 0 .. ProbeTicks, record : Ages \cup {<< >>}]
               /\ probe'[p].at = probe[p].at /\ probe'[p].session = probe[p].session
               /\ probe[p].record = << >> => probe'[p].record = << >>
               /\ probe[p].at # "idle" => probe'[p].elapsed = probe[p].elapsed + 1
               /\ probe[p].at # "idle" /\ probe[p].record \in Ages /\ probe[p].record # << >> =>
                    /\ probe'[p].record \in Ages /\ probe'[p].record.state = probe[p].record.state
                    /\ probe'[p].record.age = Older(probe[p].record.age)
    <2>1. probe'[p] = IF probe[p].at = "idle" THEN probe[p]
                      ELSE [probe[p] EXCEPT !.elapsed = @ + 1,
                                            !.record = IF @ = << >> THEN @ ELSE Aged(@)]
      BY DEF Tick
    <2>2. /\ probe[p] \in [at : {"idle", "query", "read", "unread"}, session : Sessions \cup {""},
                           elapsed : 0 .. ProbeTicks, record : Ages \cup {<< >>}]
          /\ probe[p].elapsed \in 0 .. ProbeTicks
      BY <1>1
    <2>3. probe[p].elapsed + 1 \in 0 .. ProbeTicks
      <3>1. probe[p].elapsed < ProbeTicks
        BY DEF Tick, OnTime
      <3>2. probe[p].elapsed \in 0 .. ProbeTicks
        BY <2>2
      <3>. QED  BY <3>1, <3>2, LifecycleAssumption
    <2>5. CASE probe[p].at = "idle"
      BY <2>1, <2>2, <2>5
    <2>6. CASE probe[p].at # "idle"
      <3>1. /\ probe'[p].at = probe[p].at /\ probe'[p].session = probe[p].session
            /\ probe'[p].elapsed = probe[p].elapsed + 1
            /\ probe'[p].record = IF probe[p].record = << >> THEN << >> ELSE Aged(probe[p].record)
        BY <2>1, <2>2, <2>6
      <3>2. probe'[p].record \in Ages \cup {<< >>}
        BY <2>2, <3>1, AgedByOne
      <3>3. probe'[p] = [at |-> probe'[p].at, session |-> probe'[p].session,
                         elapsed |-> probe'[p].elapsed, record |-> probe'[p].record]
        BY <2>1, <2>2, <2>6
      <3>4. probe'[p] \in [at : {"idle", "query", "read", "unread"}, session : Sessions \cup {""},
                           elapsed : 0 .. ProbeTicks, record : Ages \cup {<< >>}]
        BY <2>2, <2>3, <3>1, <3>2, <3>3
      <3>. QED  BY <3>1, <3>4, AgedByOne
    <2>. QED  BY <2>5, <2>6
  <1>10. TypesOK'
    <2>1. hb' \in [Sessions -> [at : {"none", "sleep", "beat", "exited"}, slept : 0 .. Interval]]
      <3>1. hb' = [s \in Sessions |-> hb'[s]]
        BY DEF Tick
      <3>. QED  BY <1>4, <3>1
    <2>2. queue' \in [Sessions -> Seq(Sent)]
      <3>1. queue' = [s \in Sessions |-> queue'[s]]
        BY DEF Tick
      <3>. QED  BY <1>5, <3>1
    <2>3. probe' \in [Probers -> [at : {"idle", "query", "read", "unread"}, session : Sessions \cup {""},
                                  elapsed : 0 .. ProbeTicks, record : Ages \cup {<< >>}]]
      <3>1. probe' = [p \in Probers |-> probe'[p]]
        BY DEF Tick
      <3>. QED  BY <1>9, <3>1
    <2>. QED  BY <1>0, <1>2, <1>8, <2>1, <2>2, <2>3 DEF TypesOK
  <1>11. PhaseInv'
    <2>1. \A s \in Sessions : /\ hb'[s].at = hb[s].at
                              /\ queue[s] = << >> => queue'[s] = << >>
      BY <1>4, <1>5
    <2>2. /\ late' => wasLate'
          /\ \A s \in said' : phase'[s] \in {"goodbye", "ended", "died"}
          /\ \A s \in Sessions : Alive(s)' => hb'[s].at \in {"sleep", "beat"}
      BY <1>0, <1>2, <2>1 DEF PhaseInv, Alive
    <2>3. ASSUME NEW s \in Sessions, phase'[s] = "absent"
          PROVE  /\ hb'[s].at = "none"
                 /\ BeatTopic(s) \notin DOMAIN newest' /\ queue'[s] = << >>
                 /\ ~status'[s].hb /\ quick'[s] # "dead"
                 /\ \A p \in Probers : probe'[p].at = "read" => probe'[p].session # s
      <3>1. /\ hb[s].at = "none" /\ BeatTopic(s) \notin DOMAIN newest /\ queue[s] = << >>
            /\ ~status[s].hb /\ quick[s] # "dead"
            /\ \A p \in Probers : probe[p].at = "read" => probe[p].session # s
        BY <1>0, <1>2, <2>3 DEF PhaseInv
      <3>2. \A p \in Probers : probe'[p].at = probe[p].at /\ probe'[p].session = probe[p].session
        BY <1>9
      <3>. QED  BY <1>2, <1>8, <2>1, <3>1, <3>2
    <2>. QED  BY <2>2, <2>3 DEF PhaseInv, BeatTopic
  <1>12. RecordInv'
    <2>1. ASSUME NEW s \in Sessions, NEW i \in Beats(s)' PROVE IsBeat(queue[s][i], s)'
      <3>1. i \in Beats(s) /\ queue'[s][i].state = queue[s][i].state
        BY <1>6, <1>7, <2>1 DEF Beats
      <3>2. IsBeat(queue[s][i], s)
        BY <3>1 DEF LifeInv, RecordInv
      <3>. QED  BY <1>2, <3>1, <3>2 DEF IsBeat
    <2>2. ASSUME NEW s \in Sessions, BeatTopic(s) \in DOMAIN newest' PROVE IsBeat(newest[BeatTopic(s)], s)'
      <3>1. IsBeat(newest[BeatTopic(s)], s)
        BY <1>8, <2>2 DEF LifeInv, RecordInv
      <3>. QED  BY <1>2, <1>8, <2>2, <3>1 DEF IsBeat, BeatTopic
    <2>. QED  BY <2>1, <2>2 DEF RecordInv, BeatTopic
  <1>13. BeatInv'
    <2> SUFFICES ASSUME ~wasLate
                 PROVE  /\ \A s \in Sessions : \A i \in DOMAIN queue'[s] : queue'[s][i].age <= MaxDelay
                        /\ \A s \in Sessions : Alive(s)' =>
                             /\ \A i \in Beats(s)' : Followed(s, queue[s][i].age, i)'
                             /\ BeatTopic(s) \in DOMAIN newest' => Followed(s, newest[BeatTopic(s)].age, 0)'
      BY <1>2 DEF BeatInv, BeatTopic
    <2>0. /\ \A s \in Sessions : \A i \in DOMAIN queue[s] : queue[s][i].age <= MaxDelay
          /\ \A s \in Sessions : Alive(s) =>
               /\ \A i \in Beats(s) : Followed(s, queue[s][i].age, i)
               /\ BeatTopic(s) \in DOMAIN newest => Followed(s, newest[BeatTopic(s)].age, 0)
          /\ ~late
      BY <1>0 DEF LifeInv, BeatInv, PhaseInv
    <2>1. ASSUME NEW s \in Sessions, NEW i \in DOMAIN queue[s]
          PROVE  queue'[s][i].age = queue[s][i].age + 1 /\ queue'[s][i].age <= MaxDelay
      <3>1. queue[s][i].age \in Nat /\ queue[s][i].age < MaxDelay /\ queue'[s][i].age = Older(queue[s][i].age)
        BY <1>3, <1>6, <2>0
      <3>2. MaxDelay \in Nat
        BY <1>1
      <3>3. Older(queue[s][i].age) = queue[s][i].age + 1
        <4>1. queue[s][i].age <= MaxDelay
          BY <3>1, <3>2
        <4>. QED  BY <3>1, <4>1, OlderByOne
      <3>. QED  BY <3>1, <3>2, <3>3
    <2>2. ASSUME NEW s \in Sessions, Alive(s)', NEW age \in Nat, NEW i \in Nat, Followed(s, age, i)
          PROVE  Older(age) <= Since(s)' \/ \E j \in Beats(s)' : j > i /\ Older(age) <= queue'[s][j].age + Interval
      <3>0. Older(age) <= age + 1 /\ Older(age) \in Nat
        BY OlderByOne
      <3>1. CASE age <= Since(s)
        <4>1. hb[s].at = "sleep"
          BY <1>0, <1>2, <1>3, <2>2 DEF PhaseInv, Alive
        <4>2. Since(s) = hb[s].slept /\ Since(s)' = hb[s].slept + 1 /\ hb[s].slept \in Nat
          <5>1. hb[s].slept \in Nat
            <6>1. hb[s].slept \in 0 .. Interval
              BY <1>1
            <6>. QED  BY <6>1
          <5>2. hb'[s].at = "sleep" /\ hb'[s].slept = hb[s].slept + 1
            BY <1>4, <4>1
          <5>. QED  BY <4>1, <5>1, <5>2 DEF Since
        <4>. QED  BY <3>0, <3>1, <4>2
      <3>2. CASE \E j \in Beats(s) : j > i /\ age <= queue[s][j].age + Interval
        <4>1. PICK j \in Beats(s) : j > i /\ age <= queue[s][j].age + Interval
          BY <3>2
        <4>2. queue'[s][j].age = queue[s][j].age + 1 /\ queue[s][j].age \in Nat /\ j \in Beats(s)'
          BY <1>6, <1>7, <2>1 DEF Beats
        <4>3. Older(age) <= queue'[s][j].age + Interval
          <5>1. Interval \in Nat
            BY <1>1
          <5>. QED  BY <3>0, <4>1, <4>2, <5>1
        <4>. QED  BY <4>1, <4>2, <4>3
      <3>. QED  BY <2>2, <3>1, <3>2 DEF Followed
    <2>3. ASSUME NEW s \in Sessions, Alive(s)', NEW i \in Beats(s)' PROVE Followed(s, queue[s][i].age, i)'
      <3>1. /\ i \in Beats(s) /\ i \in Nat /\ queue[s][i].age \in Nat
            /\ queue'[s][i].age = Older(queue[s][i].age)
        BY <1>0, <1>6, <1>7, <2>3, QueueTypes DEF Beats
      <3>2. Followed(s, queue[s][i].age, i)
        BY <1>2, <2>0, <2>3, <3>1 DEF Alive
      <3>. QED  BY <2>2, <2>3, <3>1, <3>2 DEF Followed
    <2>4. ASSUME NEW s \in Sessions, Alive(s)', BeatTopic(s) \in DOMAIN newest'
          PROVE  Followed(s, newest[BeatTopic(s)].age, 0)'
      <3>1. Followed(s, newest[BeatTopic(s)].age, 0)
        BY <1>2, <1>8, <2>0, <2>4 DEF Alive
      <3>2. newest[BeatTopic(s)].age \in Nat /\ newest'[BeatTopic(s)].age = Older(newest[BeatTopic(s)].age)
        BY <1>8, <2>4
      <3>. QED  BY <2>2, <2>4, <3>1, <3>2 DEF Followed, BeatTopic
    <2>5. \A s \in Sessions : DOMAIN queue'[s] = DOMAIN queue[s]
      BY <1>5
    <2>. QED  BY <2>1, <2>3, <2>4, <2>5
  <1>14. ProbeInv'
    <2>1. ASSUME NEW p \in Probers, probe[p].at = "read"
          PROVE  /\ probe'[p].record \in Ages /\ IsBeat(probe[p].record, probe[p].session)'
                 /\ ~wasLate /\ Alive(probe[p].session)' =>
                      probe'[p].record.age <= Interval + MaxDelay + probe'[p].elapsed
      <3>1. /\ probe[p].record \in Ages /\ IsBeat(probe[p].record, probe[p].session)
            /\ ~wasLate /\ Alive(probe[p].session) =>
                 probe[p].record.age <= Interval + MaxDelay + probe[p].elapsed
        BY <2>1 DEF LifeInv, ProbeInv
      <3>2. probe[p].record # << >>
        <4>1. probe[p].record.state \in {"ALIVE", "SHUTDOWN"} /\ DOMAIN probe[p].record = {"state", "age"}
          BY <3>1 DEF IsBeat, Ages
        <4>2. DOMAIN << >> = {}
          OBVIOUS
        <4>. QED  BY <4>1, <4>2
      <3>3. /\ probe'[p].record \in Ages /\ probe'[p].record.state = probe[p].record.state
            /\ probe'[p].record.age = Older(probe[p].record.age)
            /\ probe'[p].elapsed = probe[p].elapsed + 1 /\ probe'[p].session = probe[p].session
        BY <1>9, <2>1, <3>1, <3>2
      <3>4. /\ probe[p].record.age \in Nat /\ Older(probe[p].record.age) \in Nat
            /\ Older(probe[p].record.age) <= probe[p].record.age + 1 /\ probe[p].elapsed \in Nat
        <4>1. probe[p].record.age \in Nat
          BY <3>1 DEF Ages
        <4>2. probe[p].elapsed \in 0 .. ProbeTicks
          BY <1>1
        <4>3. probe[p].elapsed \in Nat
          BY <4>2
        <4>. QED  BY <4>1, <4>3, OlderByOne
      <3>5. Alive(probe[p].session)' => Alive(probe[p].session)
        BY <1>2, <3>3 DEF Alive
      <3>6. IsBeat(probe[p].record, probe[p].session)'
        BY <1>2, <3>1, <3>3 DEF IsBeat
      <3>7. ASSUME ~wasLate, Alive(probe[p].session)'
            PROVE  probe'[p].record.age <= Interval + MaxDelay + probe'[p].elapsed
        <4>1. probe[p].record.age <= Interval + MaxDelay + probe[p].elapsed
          BY <3>1, <3>5, <3>7
        <4>2. Interval \in Nat /\ MaxDelay \in Nat
          BY <1>1
        <4>. QED  BY <3>3, <3>4, <4>1, <4>2
      <3>. QED  BY <3>3, <3>6, <3>7
    <2>2. ASSUME NEW p \in Probers
          PROVE  /\ probe'[p].at = probe[p].at /\ probe'[p].session = probe[p].session
                 /\ probe[p].at # "read" => probe'[p].record = << >>
                 /\ probe[p].at # "idle" => probe[p].session \in Sessions
      BY <1>9 DEF LifeInv, ProbeInv
    <2>. QED  BY <1>2, <2>1, <2>2 DEF ProbeInv
  <1>15. StatusHonest'
    BY <1>2 DEF LifeInv, StatusHonest, Alive
  <1>. QED  BY <1>10, <1>11, <1>12, <1>13, <1>14, <1>15 DEF LifeInv

-----------------------------------------------------------------------------
(* The probes.                                                             *)

\* What a probe reads now of a program at work is no older than an interval and a delay.
LEMMA NewestIsFresh ==
  ASSUME LifeInv, NEW s \in Sessions, BeatTopic(s) \in DOMAIN newest, ~wasLate, Alive(s)
  PROVE  newest[BeatTopic(s)].age <= Interval + MaxDelay
  <1>1. /\ newest[BeatTopic(s)].age \in Nat /\ Since(s) \in Nat /\ Since(s) <= Interval
        /\ \A i \in Beats(s) : queue[s][i].age \in Nat
    BY QueueTypes DEF LifeInv, Ages, Beats
  <1>2. /\ Followed(s, newest[BeatTopic(s)].age, 0)
        /\ \A i \in Beats(s) : queue[s][i].age <= MaxDelay
    BY DEF LifeInv, BeatInv, Beats
  <1>3. Interval \in Nat /\ MaxDelay \in Nat
    BY LifecycleAssumption
  <1>. QED  BY <1>1, <1>2, <1>3 DEF Followed

ProbeTypes == [at : {"idle", "query", "read", "unread"}, session : Sessions \cup {""},
               elapsed : 0 .. ProbeTicks, record : Ages \cup {<< >>}]
States == {"Unknown", "Live", "GoingOffline", "Offline", "Historical"}

\* A step of a probe: the others and what is known of other sessions stay.
LEMMA ProbeStep ==
  ASSUME LifeInv, NEW p \in Probers, NEW x \in ProbeTypes, probe' = [probe EXCEPT ![p] = x],
         UNCHANGED <<phase, hb, queue, newest, late, wasLate, said>>,
         status' \in [Sessions -> [state : States, hb : BOOLEAN]],
         quick' \in [Sessions -> {"unknown", "alive", "dead", "unread"}],
         x.at # "read" => x.record = << >>,
         x.at # "idle" => x.session \in Sessions,
         x.at = "read" => /\ x.record \in Ages /\ IsBeat(x.record, x.session)
                          /\ phase[x.session] # "absent"
                          /\ ~wasLate /\ Alive(x.session) => x.record.age <= Interval + MaxDelay + x.elapsed,
         \A s \in Sessions : phase[s] = "absent" => ~status'[s].hb /\ quick'[s] # "dead",
         StatusHonest'
  PROVE  LifeInv'
  <1>1. TypesOK /\ PhaseInv /\ RecordInv /\ BeatInv /\ ProbeInv
    BY DEF LifeInv
  <1>2. probe \in [Probers -> ProbeTypes]
    BY <1>1 DEF TypesOK, ProbeTypes
  <1>3. /\ probe' \in [Probers -> ProbeTypes] /\ probe'[p] = x
        /\ \A q \in Probers : q # p => probe'[q] = probe[q]
    BY <1>2
  <1>4. TypesOK'
    BY <1>1, <1>3 DEF TypesOK, ProbeTypes, States
  <1>5. PhaseInv'
    <2>1. \A s \in Sessions : phase[s] = "absent" =>
            \A q \in Probers : probe'[q].at = "read" => probe'[q].session # s
      BY <1>1, <1>3 DEF PhaseInv
    <2>. QED  BY <1>1, <2>1 DEF PhaseInv, Alive, BeatTopic
  <1>6. RecordInv'
    BY <1>1 DEF RecordInv, Beats, IsBeat, BeatTopic
  <1>7. BeatInv'
    BY <1>1 DEF BeatInv, Beats, BeatTopic, Followed, Since, Alive
  <1>8. ProbeInv'
    <2>1. ASSUME NEW q \in Probers
          PROVE  /\ probe'[q].at # "read" => probe'[q].record = << >>
                 /\ probe'[q].at # "idle" => probe'[q].session \in Sessions
                 /\ probe'[q].at = "read" =>
                      /\ probe'[q].record \in Ages /\ IsBeat(probe'[q].record, probe'[q].session)
                      /\ ~wasLate /\ Alive(probe'[q].session) =>
                           probe'[q].record.age <= Interval + MaxDelay + probe'[q].elapsed
      <3>1. CASE q = p
        BY <1>3, <3>1
      <3>2. CASE q # p
        BY <1>1, <1>3, <3>2 DEF ProbeInv
      <3>. QED  BY <3>1, <3>2
    <2>. QED  BY <2>1 DEF ProbeInv, IsBeat, Alive
  <1>. QED  BY <1>4, <1>5, <1>6, <1>7, <1>8 DEF LifeInv

LEMMA Reading ==
  ASSUME LifeInv, NEW p \in Probers,
         QueryWatermark(p) \/ ReadFails(p) \/ \E s \in Sessions : BeginProbe(p, s)
  PROVE  LifeInv'
  <1> USE DEF programVars, brokerVars, probeVars, history
  <1>1. TypesOK /\ PhaseInv /\ RecordInv /\ ProbeInv /\ StatusHonest
    BY DEF LifeInv
  <1>2. UNCHANGED <<phase, hb, queue, newest, late, wasLate, said, status, quick>>
    BY DEF QueryWatermark, ReadFails, BeginProbe
  <1>3. /\ status' \in [Sessions -> [state : States, hb : BOOLEAN]]
        /\ quick' \in [Sessions -> {"unknown", "alive", "dead", "unread"}]
        /\ \A s \in Sessions : phase[s] = "absent" => ~status'[s].hb /\ quick'[s] # "dead"
    BY <1>1, <1>2 DEF TypesOK, States, PhaseInv
  <1>4. StatusHonest'
    BY <1>1, <1>2 DEF StatusHonest, Alive
  <1>5. /\ probe \in [Probers -> ProbeTypes] /\ probe[p] \in ProbeTypes
    BY <1>1 DEF TypesOK, ProbeTypes
  <1>6. /\ probe[p].session \in Sessions \cup {""} /\ probe[p].elapsed \in 0 .. ProbeTicks
        /\ probe[p].at # "idle" => probe[p].session \in Sessions
        /\ 0 \in 0 .. ProbeTicks
    <2>1. probe[p].session \in Sessions \cup {""} /\ probe[p].elapsed \in 0 .. ProbeTicks
      BY <1>5 DEF ProbeTypes
    <2>2. probe[p].at # "idle" => probe[p].session \in Sessions
      BY <1>1 DEF ProbeInv
    <2>3. 0 \in 0 .. ProbeTicks
      BY LifecycleAssumption
    <2>. QED  BY <2>1, <2>2, <2>3
  <1>7. ASSUME NEW s \in Sessions, BeginProbe(p, s) PROVE LifeInv'
    <2> DEFINE x == [at |-> "query", session |-> s, elapsed |-> 0, record |-> << >>]
    <2>1. x \in ProbeTypes /\ x.at = "query" /\ x.session = s /\ x.record = << >>
      BY <1>6 DEF ProbeTypes
    <2>2. probe' = [probe EXCEPT ![p] = x]
      BY <1>7 DEF BeginProbe
    <2> HIDE DEF x
    <2>. QED  BY <1>2, <1>3, <1>4, <2>1, <2>2, ProbeStep
  <1>8. CASE QueryWatermark(p)
    <2> DEFINE s  == probe[p].session
               ux == [probe[p] EXCEPT !.at = "unread"]
               rx == [probe[p] EXCEPT !.at = "read", !.record = newest[BeatTopic(s)]]
    <2>1. probe[p].at = "query" /\ s \in Sessions /\ probe[p].record = << >>
      BY <1>1, <1>6, <1>8 DEF QueryWatermark, ProbeInv
    <2>2. \/ BeatTopic(s) \in DOMAIN newest /\ probe' = [probe EXCEPT ![p] = rx]
          \/ probe' = [probe EXCEPT ![p] = ux]
      BY <1>5, <1>8 DEF QueryWatermark, BeatTopic
    <2>3. CASE probe' = [probe EXCEPT ![p] = ux]
      <3>1. ux \in ProbeTypes /\ ux.at = "unread" /\ ux.session = s /\ ux.record = << >>
        BY <1>5, <2>1 DEF ProbeTypes
      <3> HIDE DEF ux
      <3>. QED  BY <1>2, <1>3, <1>4, <2>1, <2>3, <3>1, ProbeStep
    <2>4. CASE BeatTopic(s) \in DOMAIN newest /\ probe' = [probe EXCEPT ![p] = rx]
      <3>1. newest[BeatTopic(s)] \in Ages
        BY <1>1, <2>1, <2>4, QueueTypes
      <3>2. /\ rx \in ProbeTypes /\ rx.at = "read" /\ rx.session = s
            /\ rx.record = newest[BeatTopic(s)] /\ rx.elapsed = probe[p].elapsed
        BY <1>5, <3>1 DEF ProbeTypes
      <3>3. IsBeat(rx.record, s)
        BY <1>1, <2>1, <2>4, <3>2 DEF RecordInv
      <3>4. phase[s] # "absent"
        BY <1>1, <2>1, <2>4 DEF PhaseInv
      <3>5. ASSUME ~wasLate, Alive(s) PROVE rx.record.age <= Interval + MaxDelay + rx.elapsed
        <4>1. rx.record.age <= Interval + MaxDelay
          BY <2>1, <2>4, <3>2, <3>5, NewestIsFresh
        <4>2. rx.record.age \in Nat
          BY <3>1, <3>2 DEF Ages
        <4>3. rx.elapsed \in Nat
          <5>1. probe[p].elapsed \in Nat
            <6>1. probe[p].elapsed \in 0 .. ProbeTicks
              BY <1>6
            <6>. QED  BY <6>1
          <5>. QED  BY <3>2, <5>1
        <4>. QED  BY <4>1, <4>2, <4>3, LifecycleAssumption
      <3> HIDE DEF rx
      <3>6. rx.at = "read" => /\ rx.record \in Ages /\ IsBeat(rx.record, rx.session)
                              /\ phase[rx.session] # "absent"
                              /\ ~wasLate /\ Alive(rx.session) => rx.record.age <= Interval + MaxDelay + rx.elapsed
        BY <3>1, <3>2, <3>3, <3>4, <3>5
      <3>7. rx.at # "idle" => rx.session \in Sessions
        BY <2>1, <3>2
      <3>8. rx.at # "read" => rx.record = << >>
        BY <3>2
      <3>. QED  BY <1>2, <1>3, <1>4, <2>4, <3>2, <3>6, <3>7, <3>8, ProbeStep
    <2>. QED  BY <2>2, <2>3, <2>4
  <1>9. CASE ReadFails(p)
    <2> DEFINE x == [probe[p] EXCEPT !.at = "unread", !.record = << >>]
    <2>1. probe[p].at = "read" /\ probe' = [probe EXCEPT ![p] = x]
      BY <1>5, <1>9 DEF ReadFails
    <2>2. x \in ProbeTypes /\ x.at = "unread" /\ x.session \in Sessions /\ x.record = << >>
      BY <1>5, <1>6, <2>1 DEF ProbeTypes
    <2> HIDE DEF x
    <2>. QED  BY <1>2, <1>3, <1>4, <2>1, <2>2, ProbeStep
  <1>. QED  BY <1>7, <1>8, <1>9

\* The three ways a probe comes to an end.
LEMMA Ending == ASSUME LifeInv, ReadHeartbeat \/ DataRecency \/ QuickCheckLiveness PROVE LifeInv'
  <1> USE DEF programVars, brokerVars, probeVars, history
  <1>1. TypesOK /\ PhaseInv /\ ProbeInv /\ StatusHonest
    BY DEF LifeInv
  <1>2. UNCHANGED <<phase, hb, queue, newest, late, wasLate, said>>
    BY DEF ReadHeartbeat, DataRecency, QuickCheckLiveness
  <1>3. /\ status \in [Sessions -> [state : States, hb : BOOLEAN]]
        /\ quick \in [Sessions -> {"unknown", "alive", "dead", "unread"}]
        /\ \A s \in Sessions : phase[s] = "absent" => ~status[s].hb /\ quick[s] # "dead"
    BY <1>1 DEF TypesOK, States, PhaseInv
  <1>4. NoProbe \in ProbeTypes /\ NoProbe.at = "idle" /\ NoProbe.record = << >>
    <2>1. 0 \in 0 .. ProbeTicks
      BY LifecycleAssumption
    <2>. QED  BY <2>1 DEF NoProbe, ProbeTypes
  <1>5. \A age : ByAge(age) \in {"Live", "GoingOffline", "Offline"}
    BY DEF ByAge
  \* what is read of a program at work is in time and no goodbye
  <1>6. ASSUME NEW p \in Probers, probe[p].at = "read"
        PROVE  /\ probe[p].session \in Sessions /\ phase[probe[p].session] # "absent"
               /\ probe[p].record.state \in {"ALIVE", "SHUTDOWN"}
               /\ probe[p].record.state = "SHUTDOWN" => probe[p].session \in said /\ ~Alive(probe[p].session)
               /\ ~wasLate /\ Alive(probe[p].session) =>
                    /\ probe[p].record.age - probe[p].elapsed < LiveAge
                    /\ probe[p].record.age < QuickAge
    <2>1. /\ probe[p].session \in Sessions /\ IsBeat(probe[p].record, probe[p].session)
          /\ probe[p].record \in Ages
          /\ ~wasLate /\ Alive(probe[p].session) =>
               probe[p].record.age <= Interval + MaxDelay + probe[p].elapsed
      BY <1>1, <1>6 DEF ProbeInv
    <2>2. phase[probe[p].session] # "absent"
      BY <1>1, <1>6, <2>1 DEF PhaseInv
    <2>3. probe[p].record.state = "SHUTDOWN" => probe[p].session \in said /\ ~Alive(probe[p].session)
      BY <1>1, <2>1 DEF IsBeat, PhaseInv, Alive
    <2>4. probe[p].record.age \in Nat /\ probe[p].elapsed \in 0 .. ProbeTicks
      BY <1>1, <2>1 DEF TypesOK, Ages
    <2>5. ASSUME probe[p].record.age <= Interval + MaxDelay + probe[p].elapsed
          PROVE  /\ probe[p].record.age - probe[p].elapsed < LiveAge
                 /\ probe[p].record.age < QuickAge
      BY <2>4, <2>5, LifecycleAssumption
    <2>. QED  BY <2>1, <2>2, <2>3, <2>5 DEF IsBeat
  <1>7. CASE ReadHeartbeat
    <2> DEFINE s == probe["scope"].session
               r == probe["scope"].record
               x == [hb |-> TRUE, state |-> IF r.state = "SHUTDOWN" THEN "Historical"
                                            ELSE ByAge(AgeMs(r.age, probe["scope"].elapsed))]
    <2>1. /\ probe["scope"].at = "read" /\ probe' = [probe EXCEPT !["scope"] = NoProbe]
          /\ status' = [status EXCEPT ![s] = x] /\ quick' = quick
      BY <1>7 DEF ReadHeartbeat, HasRecord, Ends
    <2>2. "scope" \in Probers
      BY DEF Probers
    <2>3. x \in [state : States, hb : BOOLEAN]
      BY <1>5 DEF States
    <2>4. x.state = "Historical" => s \in said
      <3>1. x.state = "Historical" => r.state = "SHUTDOWN"
        BY <1>5
      <3>. QED  BY <1>6, <2>1, <2>2, <3>1
    <2>5. ~wasLate /\ Alive(s) => x.state = "Live"
      BY <1>6, <2>1, <2>2 DEF ByAge, AgeMs
    <2>6. s \in Sessions /\ phase[s] # "absent"
      BY <1>6, <2>1, <2>2
    <2> HIDE DEF x, s
    <2>7. /\ status' \in [Sessions -> [state : States, hb : BOOLEAN]] /\ status'[s] = x
          /\ \A q \in Sessions : q # s => status'[q] = status[q]
      BY <1>3, <2>1, <2>3, <2>6
    <2>8. \A q \in Sessions : phase[q] = "absent" => ~status'[q].hb /\ quick'[q] # "dead"
      BY <1>3, <2>1, <2>6, <2>7
    <2>9. StatusHonest'
      <3>1. ASSUME NEW q \in Sessions
            PROVE  /\ Alive(q) /\ status'[q].hb /\ ~wasLate => status'[q].state = "Live"
                   /\ Alive(q) /\ ~wasLate => quick'[q] # "dead"
                   /\ status'[q].state = "Historical" => q \in said
        <4>1. CASE q = s
          BY <1>1, <2>1, <2>4, <2>5, <2>7, <4>1 DEF StatusHonest
        <4>2. CASE q # s
          BY <1>1, <2>1, <2>7, <4>2 DEF StatusHonest
        <4>. QED  BY <4>1, <4>2
      <3>. QED  BY <1>2, <3>1 DEF StatusHonest, Alive
    <2>. QED  BY <1>2, <1>3, <1>4, <2>1, <2>2, <2>7, <2>8, <2>9, ProbeStep
  <1>8. CASE DataRecency
    <2> DEFINE s == probe["scope"].session
    <2>1. PICK st \in {"Live", "GoingOffline", "Offline"} : status' = [status EXCEPT ![s] = [hb |-> FALSE, state |-> st]]
      BY <1>5, <1>8 DEF DataRecency
    <2>2. probe["scope"].at = "unread" /\ probe' = [probe EXCEPT !["scope"] = NoProbe] /\ quick' = quick
      BY <1>8 DEF DataRecency, Ends
    <2>3. "scope" \in Probers /\ s \in Sessions
      BY <1>1, <2>2 DEF Probers, ProbeInv
    <2>4. [hb |-> FALSE, state |-> st] \in [state : States, hb : BOOLEAN]
      BY DEF States
    <2> HIDE DEF s
    <2>5. /\ status' \in [Sessions -> [state : States, hb : BOOLEAN]]
          /\ ~status'[s].hb /\ status'[s].state # "Historical"
          /\ \A q \in Sessions : q # s => status'[q] = status[q]
      BY <1>3, <2>1, <2>3, <2>4
    <2>6. \A q \in Sessions : phase[q] = "absent" => ~status'[q].hb /\ quick'[q] # "dead"
      BY <1>3, <2>2, <2>5
    <2>7. StatusHonest'
      BY <1>1, <1>2, <2>2, <2>5 DEF StatusHonest, Alive
    <2>. QED  BY <1>2, <1>3, <1>4, <2>2, <2>3, <2>5, <2>6, <2>7, ProbeStep
  <1>9. CASE QuickCheckLiveness
    <2> DEFINE s == probe["zoom"].session
               r == probe["zoom"].record
               v == IF r = << >> THEN "unread"
                    ELSE IF r.state = "ALIVE" /\ r.age < QuickAge THEN "alive" ELSE "dead"
    <2>1. /\ probe["zoom"].at = "read" \/ probe["zoom"].at = "unread"
          /\ probe' = [probe EXCEPT !["zoom"] = NoProbe]
          /\ quick' = [quick EXCEPT ![s] = v] /\ status' = status
      BY <1>9 DEF QuickCheckLiveness, HasRecord, Ends
    <2>2. "zoom" \in Probers /\ s \in Sessions
      BY <1>1, <2>1 DEF Probers, ProbeInv
    <2>3. v = "dead" => /\ probe["zoom"].at = "read" /\ phase[s] # "absent"
                        /\ ~(~wasLate /\ Alive(s))
      <3>1. CASE probe["zoom"].at = "unread"
        BY <1>1, <2>2, <3>1 DEF ProbeInv
      <3>2. CASE probe["zoom"].at = "read"
        BY <1>6, <2>2, <3>2
      <3>. QED  BY <2>1, <3>1, <3>2
    <2>4. v \in {"unknown", "alive", "dead", "unread"}
      OBVIOUS
    <2> HIDE DEF v, s
    <2>5. /\ quick' \in [Sessions -> {"unknown", "alive", "dead", "unread"}] /\ quick'[s] = v
          /\ \A q \in Sessions : q # s => quick'[q] = quick[q]
      BY <1>3, <2>1, <2>2, <2>4
    <2>6. \A q \in Sessions : phase[q] = "absent" => ~status'[q].hb /\ quick'[q] # "dead"
      BY <1>3, <2>1, <2>3, <2>5
    <2>7. StatusHonest'
      BY <1>1, <1>2, <2>1, <2>3, <2>5 DEF StatusHonest, Alive
    <2>8. status' \in [Sessions -> [state : States, hb : BOOLEAN]]
      BY <1>3, <2>1
    <2>. QED  BY <1>2, <1>4, <2>1, <2>2, <2>5, <2>6, <2>7, <2>8, ProbeStep
  <1>. QED  BY <1>7, <1>8, <1>9

-----------------------------------------------------------------------------
(* The theorems.                                                           *)

LEMMA LifeInit == Init => LifeInv
  <1> SUFFICES ASSUME Init PROVE LifeInv
    OBVIOUS
  <1>1. /\ phase = [s \in Sessions |-> "absent"] /\ queue = [s \in Sessions |-> << >>]
        /\ hb = [s \in Sessions |-> [at |-> "none", slept |-> 0]]
        /\ newest = << >> /\ late = FALSE /\ wasLate = FALSE /\ said = {}
        /\ probe = [p \in Probers |-> NoProbe]
        /\ status = [s \in Sessions |-> [state |-> "Unknown", hb |-> FALSE]]
        /\ quick = [s \in Sessions |-> "unknown"]
    BY DEF Init
  <1>2. 0 \in 0 .. Interval /\ 0 \in 0 .. ProbeTicks
    BY LifecycleAssumption
  <1>3. DOMAIN newest = {} /\ newest \in [DOMAIN newest -> Ages]
    BY <1>1
  <1>4. queue \in [Sessions -> Seq(Sent)]
    BY <1>1
  <1>5. TypesOK
    BY <1>1, <1>2, <1>3, <1>4 DEF TypesOK, Phases, NoProbe
  <1>6. PhaseInv
    BY <1>1, <1>3 DEF PhaseInv, Alive, NoProbe
  <1>7. RecordInv
    BY <1>1, <1>3 DEF RecordInv, Beats
  <1>8. BeatInv
    BY <1>1, <1>3 DEF BeatInv, Alive
  <1>9. ProbeInv
    BY <1>1 DEF ProbeInv, NoProbe
  <1>10. StatusHonest
    BY <1>1 DEF StatusHonest, Alive
  <1>. QED  BY <1>5, <1>6, <1>7, <1>8, <1>9, <1>10 DEF LifeInv

LEMMA LifeNext == LifeInv /\ [Next]_vars => LifeInv'
  <1> SUFFICES ASSUME LifeInv, [Next]_vars PROVE LifeInv'
    OBVIOUS
  <1>1. ASSUME NEW s \in Sessions, Program(s) PROVE LifeInv'
    BY <1>1, CalmActions, SendActions, ThreadStep, DeliverStep DEF Program
  <1>2. ASSUME NEW s \in Sessions, User(s) PROVE LifeInv'
    BY <1>2, CalmActions, SendActions, ThreadStep DEF User
  <1>3. ASSUME BrokerLate \/ BrokerBack PROVE LifeInv'
    <2>1. UNCHANGED <<newest, phase, hb, queue, probe, status, quick, said>>
      BY <1>3 DEF BrokerLate, BrokerBack, programVars, brokerVars, probeVars, history
    <2>2. \/ late' = TRUE /\ wasLate' = TRUE
          \/ late' = FALSE /\ wasLate' = wasLate
      BY <1>3 DEF BrokerLate, BrokerBack, history
    <2>3. late' \in BOOLEAN /\ wasLate' \in BOOLEAN /\ (wasLate => wasLate') /\ (late' => late \/ wasLate')
      BY <2>2 DEF LifeInv, TypesOK
    <2>. QED  BY <2>1, <2>3, Kept, StillStep DEF LifeInv
  <1>4. CASE Tick
    BY <1>4, TickStep
  <1>5. CASE Probes
    BY <1>5, Reading, Ending DEF Probes
  <1>6. CASE Deletions
    BY <1>6, DeletionActions
  <1>7. CASE UNCHANGED vars
    <2>1. UNCHANGED <<newest, phase, hb, queue, probe, status, quick, said, late, wasLate>>
      BY <1>7 DEF vars, programVars, brokerVars, probeVars, history
    <2>2. late' \in BOOLEAN /\ wasLate' \in BOOLEAN
      BY <2>1 DEF LifeInv, TypesOK
    <2>. QED  BY <2>1, <2>2, Kept, StillStep DEF LifeInv
  <1>. QED  BY <1>1, <1>2, <1>3, <1>4, <1>5, <1>6, <1>7 DEF Next

\* Whatever kv8scope and kv8zoom have found of the sessions is what StatusHonest says, whatever
\* the interval, the delays and the thresholds, however many probes run while programs come and
\* go, the broker is late and the tools delete: a probe that has read the heartbeat of a
\* program at work never takes it for going, gone or closed (ProbeSessionLiveness,
\* QuickCheckLiveness).
THEOREM StatusIsHonest == Spec => []StatusHonest
  <1>1. LifeInv => StatusHonest
    BY DEF LifeInv
  <1>. QED  BY LifeInit, LifeNext, <1>1, PTL DEF Spec

-----------------------------------------------------------------------------
(* What a deletion leaves. A session that is marked is either cleaned      *)
(* already, or kv8scope is about to delete its topics; and kv8maint marks  *)
(* only what it has cleaned before.                                        *)

Begun(s) == phase[s] \notin {"absent", "open"}
Ended(s) == phase[s] \in {"ended", "died"} /\ queue[s] = << >>
OnlyBeats(s) == Topics(s) \subseteq {Heartbeat}

Cleaning(s) == tool["scope"].at = "topics" /\ Current("scope") = s
Marking(s)  == tool["maint"].at = "mark" /\ Current("maint") = s

ListTypes ==
  /\ registered \in [Sessions -> SUBSET Counters]
  /\ registry \in [Sessions -> SUBSET (Counters \cup {"open"})]
  /\ DOMAIN newest \subseteq Sessions \X (Counters \cup {"log", "ctl", Heartbeat})
  /\ DOMAIN tool = Tools

Record(at, list, chosen, topics) == [at : {at}, list : {list}, chosen : {chosen}, topics : {topics}]

\* the tools know, and choose, only sessions that have begun
ToolInv(t) ==
  /\ tool[t] \in Record(tool[t].at, tool[t].list, tool[t].chosen, tool[t].topics)
  /\ \A s \in DOMAIN tool[t].list : s \in Sessions /\ Begun(s)
  /\ tool[t].at \in {"topics", "mark"} =>
       tool[t].chosen # {} /\ \A s \in tool[t].chosen : s \in Sessions /\ Begun(s)

WrittenInv(s) ==
  /\ Topics(s) \subseteq registered[s] \cup {"log", "ctl", Heartbeat}
  /\ \A i \in DOMAIN queue[s] : queue[s][i].topic \in registered[s] \cup {"log", Heartbeat}
  /\ ~Begun(s) => /\ OnlyBeats(s) /\ registry[s] = {} /\ s \notin tombs
                  /\ \A i \in DOMAIN queue[s] : queue[s][i].topic = Heartbeat
  /\ phase[s] \in {"goodbye", "ended"} => hb[s].at = "exited"
  /\ phase[s] = "died" => hb[s].at = "none"

LeftInv(s) ==
  s \notin spoilt =>
    /\ Begun(s) /\ ~Listed(s) => (Ended(s) /\ OnlyBeats(s)) \/ Cleaning(s)
    /\ Marking(s) => Ended(s) /\ OnlyBeats(s)

DeletionInv ==
  /\ ListTypes
  /\ \A t \in Tools : ToolInv(t)
  /\ \A s \in Sessions : WrittenInv(s) /\ LeftInv(s)

LEMMA Pairs ==
  ASSUME NEW D, NEW T, D \subseteq Sessions \X T, NEW s \in Sessions
  PROVE  \A x : x \in {k[2] : k \in {t \in D : t[1] = s}} <=> <<s, x>> \in D
  <1>1. \A k \in D : k = <<k[1], k[2]>>
    OBVIOUS
  <1>2. ASSUME NEW x, <<s, x>> \in D PROVE x \in {k[2] : k \in {t \in D : t[1] = s}}
    <2>1. <<s, x>> \in {t \in D : t[1] = s} /\ <<s, x>>[2] = x
      BY <1>2
    <2>. QED  BY <2>1
  <1>3. ASSUME NEW x \in {k[2] : k \in {t \in D : t[1] = s}} PROVE <<s, x>> \in D
    <2>1. PICK k \in {t \in D : t[1] = s} : x = k[2]
      BY <1>3
    <2>2. k \in D /\ k = <<s, x>>
      BY <1>1, <2>1
    <2>. QED  BY <2>2
  <1>. QED  BY <1>2, <1>3

LEMMA TopicsThere ==
  ASSUME ListTypes, ListTypes', NEW s \in Sessions
  PROVE  /\ \A x : x \in Topics(s) <=> <<s, x>> \in DOMAIN newest
         /\ \A x : x \in Topics(s)' <=> <<s, x>> \in DOMAIN newest'
  <1>1. /\ DOMAIN newest \subseteq Sessions \X (Counters \cup {"log", "ctl", Heartbeat})
        /\ DOMAIN newest' \subseteq Sessions \X (Counters \cup {"log", "ctl", Heartbeat})
    BY DEF ListTypes
  <1>2. \A x : x \in Topics(s) <=> <<s, x>> \in DOMAIN newest
    BY <1>1, Pairs DEF Topics
  <1>3. \A x : x \in Topics(s)' <=> <<s, x>> \in DOMAIN newest'
    BY <1>1, Pairs DEF Topics
  <1>. QED  BY <1>2, <1>3

\* a step that leaves what LeftInv says of a session alone, or brings it about
LEMMA LeftKept ==
  ASSUME NEW s \in Sessions, LeftInv(s), UNCHANGED <<tool, tombs, spoilt>>,
         Ended(s) /\ OnlyBeats(s) => Ended(s)' /\ OnlyBeats(s)',
         Begun(s)' /\ ~Listed(s)' => (Begun(s) /\ ~Listed(s)) \/ (Ended(s)' /\ OnlyBeats(s)')
  PROVE  LeftInv(s)'
  <1>1. (Cleaning(s)' <=> Cleaning(s)) /\ (Marking(s)' <=> Marking(s)) /\ (s \in spoilt' <=> s \in spoilt)
    BY DEF Cleaning, Marking, Current
  <1>. QED  BY <1>1 DEF LeftInv

LEMMA SameSession ==
  ASSUME NEW s \in Sessions, WrittenInv(s), LeftInv(s), UNCHANGED <<tool, tombs, spoilt>>,
         phase'[s] = phase[s], hb'[s].at = hb[s].at, queue'[s] = << >> <=> queue[s] = << >>,
         DOMAIN queue'[s] = DOMAIN queue[s],
         \A i \in DOMAIN queue[s] : queue'[s][i].topic = queue[s][i].topic,
         registered'[s] = registered[s], registry'[s] = registry[s], Topics(s)' = Topics(s)
  PROVE  WrittenInv(s)' /\ LeftInv(s)'
  <1>1. WrittenInv(s)'
    BY DEF WrittenInv, Begun, OnlyBeats
  <1>2. LeftInv(s)'
    BY LeftKept DEF Ended, OnlyBeats, Begun, Listed
  <1>. QED  BY <1>1, <1>2

\* A step of the program of one session.
LEMMA OneSession ==
  ASSUME DeletionInv, ListTypes', NEW s \in Sessions, UNCHANGED <<tool, tombs, spoilt>>,
         \A r \in Sessions : r # s =>
           /\ phase'[r] = phase[r] /\ hb'[r] = hb[r] /\ queue'[r] = queue[r]
           /\ registered'[r] = registered[r] /\ registry'[r] = registry[r] /\ Topics(r)' = Topics(r),
         Begun(s) => Begun(s)', WrittenInv(s)', LeftInv(s)'
  PROVE  DeletionInv'
  <1>1. ASSUME NEW r \in Sessions PROVE WrittenInv(r)' /\ LeftInv(r)'
    <2>1. CASE r = s
      BY <2>1
    <2>2. CASE r # s
      BY <2>2, SameSession DEF DeletionInv
    <2>. QED  BY <2>1, <2>2
  <1>2. \A r \in Sessions : Begun(r) => Begun(r)'
    BY DEF Begun
  <1>3. \A t \in Tools : ToolInv(t)'
    BY <1>2 DEF ToolInv, DeletionInv
  <1>. QED  BY <1>1, <1>3 DEF DeletionInv

LEMMA SendTopics ==
  ASSUME TypesOK, NEW s \in Sessions, NEW topic, NEW st, Send(s, topic, st)
  PROVE  /\ \A r \in Sessions : r # s => queue'[r] = queue[r]
         /\ \A i \in DOMAIN queue'[s] :
              queue'[s][i].topic = topic \/ \E j \in DOMAIN queue[s] : queue'[s][i].topic = queue[s][j].topic
  <1>1. queue[s] \in Seq(Sent) /\ queue \in [Sessions -> Seq(Sent)]
    BY DEF TypesOK
  <1>2. CASE queue' = queue
    BY <1>2
  <1>3. CASE queue' = [queue EXCEPT ![s] = Append(@, [topic |-> topic, state |-> st, age |-> 0])]
    <2> DEFINE x == [topic |-> topic, state |-> st, age |-> 0]
    <2>1. queue'[s] = Append(queue[s], x) /\ \A r \in Sessions : r # s => queue'[r] = queue[r]
      BY <1>1, <1>3
    <2>2. x.topic = topic
      OBVIOUS
    <2> HIDE DEF x
    <2>3. /\ DOMAIN Append(queue[s], x) = 1 .. Len(queue[s]) + 1 /\ DOMAIN queue[s] = 1 .. Len(queue[s])
          /\ \A i \in 1 .. Len(queue[s]) : Append(queue[s], x)[i] = queue[s][i]
          /\ Append(queue[s], x)[Len(queue[s]) + 1] = x /\ Len(queue[s]) \in Nat
      BY <1>1
    <2>4. ASSUME NEW i \in DOMAIN queue'[s]
          PROVE  queue'[s][i].topic = topic \/ \E j \in DOMAIN queue[s] : queue'[s][i].topic = queue[s][j].topic
      <3>1. i \in 1 .. Len(queue[s]) \/ i = Len(queue[s]) + 1
        BY <2>1, <2>3
      <3>. QED  BY <2>1, <2>2, <2>3, <3>1
    <2>. QED  BY <2>1, <2>4
  <1>. QED  BY <1>2, <1>3 DEF Send

\* The steps of a program, one by one.
LEMMA ProgramDeletions ==
  ASSUME LifeInv, DeletionInv, NEW s \in Sessions, Program(s) \/ User(s)
  PROVE  DeletionInv'
  <1> USE DEF programVars, brokerVars, probeVars, history
  <1>0. /\ ListTypes /\ WrittenInv(s) /\ LeftInv(s) /\ \A t \in Tools : ToolInv(t)
        /\ TypesOK /\ phase \in [Sessions -> Phases] /\ queue \in [Sessions -> Seq(Sent)]
        /\ hb \in [Sessions -> [at : {"none", "sleep", "beat", "exited"}, slept : 0 .. Interval]]
        /\ queue[s] \in Seq(Sent)
    BY DEF DeletionInv, LifeInv, TypesOK
  <1>t. ASSUME UNCHANGED <<registered, registry, newest, tool>> PROVE ListTypes'
    BY <1>0, <1>t DEF ListTypes
  <1>p. ASSUME NEW p, Go(s, p) PROVE phase'[s] = p /\ \A r \in Sessions : r # s => phase'[r] = phase[r]
    BY <1>0, <1>p DEF Go
  <1>n. ASSUME newest' = newest PROVE \A r \in Sessions : Topics(r)' = Topics(r)
    BY <1>n DEF Topics
  <1>1. CASE Connect(s)
    <2>1. /\ phase[s] = "absent" /\ phase'[s] = "open" /\ hb' = [hb EXCEPT ![s] = [at |-> "sleep", slept |-> Interval]]
          /\ UNCHANGED <<registered, registry, newest, tool, queue, tombs, spoilt>>
          /\ \A r \in Sessions : r # s => phase'[r] = phase[r]
      BY <1>1, <1>p DEF Connect
    <2>2. \A r \in Sessions : r # s => hb'[r] = hb[r]
      BY <1>0, <2>1
    <2>3. WrittenInv(s)'
      BY <1>0, <1>n, <2>1 DEF WrittenInv, Begun, OnlyBeats
    <2>4. LeftInv(s)'
      BY <1>0, <2>1, LeftKept DEF Ended, Begun
    <2>. QED  BY <1>t, <1>n, <2>1, <2>2, <2>3, <2>4, OneSession DEF Begun
  <1>2. CASE WriteSessionHeader(s)
    <2>1. /\ phase[s] = "open" /\ phase'[s] = "running"
          /\ UNCHANGED <<registered, tool, hb, queue, tombs, spoilt>>
          /\ DOMAIN newest' = DOMAIN newest \cup {<<s, "ctl">>}
          /\ registry' = [registry EXCEPT ![s] = @ \cup {"open"}]
          /\ \A r \in Sessions : r # s => phase'[r] = phase[r]
      BY <1>2, <1>p DEF WriteSessionHeader
    <2>2. ListTypes'
      BY <1>0, <2>1 DEF ListTypes
    <2>3. /\ \A r \in Sessions : r # s => Topics(r)' = Topics(r) /\ registry'[r] = registry[r]
          /\ Topics(s)' = Topics(s) \cup {"ctl"} /\ registry'[s] = registry[s] \cup {"open"}
      <3>1. ASSUME NEW r \in Sessions PROVE \A x : x \in Topics(r)' <=> x \in Topics(r) \/ (r = s /\ x = "ctl")
        BY <1>0, <2>1, <2>2, TopicsThere
      <3>2. /\ \A r \in Sessions : r # s => registry'[r] = registry[r]
            /\ registry'[s] = registry[s] \cup {"open"}
        BY <1>0, <2>1 DEF ListTypes
      <3>3. Topics(s)' = Topics(s) \cup {"ctl"}
        BY <3>1
      <3>4. ASSUME NEW r \in Sessions, r # s PROVE Topics(r)' = Topics(r)
        BY <3>1, <3>4
      <3>. QED  BY <3>2, <3>3, <3>4
    <2>4. WrittenInv(s)'
      BY <1>0, <2>1, <2>3 DEF WrittenInv, Begun
    <2>5. LeftInv(s)'
      <3>1. Listed(s)'
        BY <1>0, <2>1, <2>3 DEF WrittenInv, Begun, Listed
      <3>. QED  BY <1>0, <2>1, <3>1, LeftKept DEF Ended, Begun
    <2>. QED  BY <2>1, <2>2, <2>3, <2>4, <2>5, OneSession DEF Begun
  <1>3. ASSUME NEW c \in Counters, RegisterCounter(s, c) PROVE DeletionInv'
    <2>1. /\ phase[s] = "running" /\ UNCHANGED <<phase, hb, queue, newest, tombs, tool, spoilt>>
          /\ registered' = [registered EXCEPT ![s] = @ \cup {c}]
          /\ registry' = [registry EXCEPT ![s] = @ \cup {c}]
      BY <1>3 DEF RegisterCounter
    <2>2. /\ registered'[s] = registered[s] \cup {c} /\ registry'[s] = registry[s] \cup {c}
          /\ \A r \in Sessions : r # s => registered'[r] = registered[r] /\ registry'[r] = registry[r]
      BY <1>0, <2>1 DEF ListTypes
    <2>3. ListTypes'
      BY <1>0, <2>1 DEF ListTypes
    <2>4. WrittenInv(s)'
      BY <1>0, <1>n, <2>1, <2>2 DEF WrittenInv, Begun
    <2>5. LeftInv(s)'
      BY <1>0, <2>1, <2>2, LeftKept DEF Ended, Begun, Listed
    <2>. QED  BY <1>n, <2>1, <2>2, <2>3, <2>4, <2>5, OneSession DEF Begun
  <1>4. ASSUME NEW x \in Counters \cup {"log"}, Write(s, x) PROVE DeletionInv'
    <2>1. /\ phase[s] = "running" /\ x \in registered[s] \cup {"log"} /\ Send(s, x, "data")
          /\ UNCHANGED <<phase, hb, registered, registry, newest, tombs, tool, spoilt>>
      BY <1>4 DEF Write
    <2>q. \A i \in DOMAIN queue'[s] :
            queue'[s][i].topic = x \/ \E j \in DOMAIN queue[s] : queue'[s][i].topic = queue[s][j].topic
      BY <1>0, <2>1, SendTopics
    <2>2. WrittenInv(s)'
      BY <1>0, <1>n, <2>1, <2>q DEF WrittenInv, Begun
    <2>3. LeftInv(s)'
      BY <1>0, <2>1, LeftKept DEF Ended, Begun, Listed
    <2>. QED  BY <1>0, <1>t, <1>n, <2>1, <2>2, <2>3, OneSession, SendTopics DEF Begun
  <1>5. CASE HeartbeatWakes(s)
    <2>1. /\ hb[s].at = "sleep"
          /\ hb' = [hb EXCEPT ![s] = [at |-> IF Stopping(s) THEN "exited" ELSE "beat", slept |-> 0]]
          /\ UNCHANGED <<phase, queue, registered, registry, newest, tombs, tool, spoilt>>
      BY <1>5 DEF HeartbeatWakes
    <2>2. \A r \in Sessions : r # s => hb'[r] = hb[r]
      BY <1>0, <2>1
    <2>3. phase[s] \notin {"goodbye", "ended", "died"}
      BY <1>0, <2>1 DEF WrittenInv
    <2>4. WrittenInv(s)'
      BY <1>0, <1>n, <2>1, <2>3 DEF WrittenInv, Begun, OnlyBeats
    <2>5. LeftInv(s)'
      BY <1>0, <2>1, <2>3, LeftKept DEF Ended, Begun, Listed
    <2>. QED  BY <1>t, <1>n, <2>1, <2>2, <2>4, <2>5, OneSession DEF Begun
  <1>6. CASE Beat(s)
    <2>1. /\ hb[s].at = "beat" /\ Send(s, Heartbeat, "ALIVE")
          /\ hb' = [hb EXCEPT ![s] = [at |-> "sleep", slept |-> 0]]
          /\ UNCHANGED <<phase, registered, registry, newest, tombs, tool, spoilt>>
      BY <1>6 DEF Beat
    <2>2. \A r \in Sessions : r # s => hb'[r] = hb[r]
      BY <1>0, <2>1
    <2>3. phase[s] \notin {"goodbye", "ended", "died"}
      BY <1>0, <2>1 DEF WrittenInv
    <2>q. \A i \in DOMAIN queue'[s] :
            queue'[s][i].topic = Heartbeat \/ \E j \in DOMAIN queue[s] : queue'[s][i].topic = queue[s][j].topic
      BY <1>0, <2>1, SendTopics
    <2>4. WrittenInv(s)'
      BY <1>0, <1>n, <2>1, <2>3, <2>q DEF WrittenInv, Begun, OnlyBeats
    <2>5. LeftInv(s)'
      BY <1>0, <2>1, <2>3, LeftKept DEF Ended, Begun, Listed
    <2>. QED  BY <1>0, <1>t, <1>n, <2>1, <2>2, <2>4, <2>5, OneSession, SendTopics DEF Begun
  <1>7. CASE Close(s) \/ StopHeartbeat(s)
    <2>1. PICK p \in {"closing", "stopping"} : Go(s, p) /\ phase[s] \in {"running", "closing"}
      BY <1>7 DEF Close, StopHeartbeat
    <2>2. UNCHANGED <<hb, queue, registered, registry, newest, tombs, tool, spoilt>>
      BY <1>7 DEF Close, StopHeartbeat
    <2>3. phase'[s] \in {"closing", "stopping"} /\ \A r \in Sessions : r # s => phase'[r] = phase[r]
      BY <1>p, <2>1
    <2>4. WrittenInv(s)'
      BY <1>0, <1>n, <2>1, <2>2, <2>3 DEF WrittenInv, Begun
    <2>5. LeftInv(s)'
      BY <1>0, <2>1, <2>2, <2>3, LeftKept DEF Ended, Begun, Listed
    <2>. QED  BY <1>t, <1>n, <2>2, <2>3, <2>4, <2>5, OneSession DEF Begun
  <1>8. CASE SayGoodbye(s)
    <2>1. /\ phase[s] = "stopping" /\ phase'[s] = "goodbye" /\ hb[s].at = "exited" /\ Send(s, Heartbeat, "SHUTDOWN")
          /\ UNCHANGED <<hb, registered, registry, newest, tombs, tool, spoilt>>
          /\ \A r \in Sessions : r # s => phase'[r] = phase[r]
      BY <1>8, <1>p DEF SayGoodbye, Joined
    <2>q. \A i \in DOMAIN queue'[s] :
            queue'[s][i].topic = Heartbeat \/ \E j \in DOMAIN queue[s] : queue'[s][i].topic = queue[s][j].topic
      BY <1>0, <2>1, SendTopics
    <2>2. WrittenInv(s)'
      BY <1>0, <1>n, <2>1, <2>q DEF WrittenInv, Begun
    <2>3. LeftInv(s)'
      BY <1>0, <2>1, LeftKept DEF Ended, Begun, Listed
    <2>. QED  BY <1>0, <1>t, <1>n, <2>1, <2>2, <2>3, OneSession, SendTopics DEF Begun
  <1>9. CASE DestroyProducer(s)
    <2>1. /\ phase[s] = "goodbye" /\ phase'[s] = "ended" /\ queue' = [queue EXCEPT ![s] = << >>]
          /\ UNCHANGED <<hb, registered, registry, newest, tombs, tool, spoilt>>
          /\ \A r \in Sessions : r # s => phase'[r] = phase[r]
      BY <1>9, <1>p DEF DestroyProducer
    <2>2. queue'[s] = << >> /\ DOMAIN queue'[s] = {} /\ \A r \in Sessions : r # s => queue'[r] = queue[r]
      BY <1>0, <2>1
    <2>3. WrittenInv(s)'
      BY <1>0, <1>n, <2>1, <2>2 DEF WrittenInv, Begun
    <2>4. LeftInv(s)'
      BY <1>0, <2>1, LeftKept DEF Ended, Begun, Listed
    <2>. QED  BY <1>t, <1>n, <2>1, <2>2, <2>3, <2>4, OneSession DEF Begun
  <1>10. CASE Exit(s)
    <2>1. /\ phase[s] \in {"open", "running", "closing", "stopping", "goodbye"} /\ phase'[s] = "died"
          /\ queue' = [queue EXCEPT ![s] = << >>] /\ hb' = [hb EXCEPT ![s] = [at |-> "none", slept |-> 0]]
          /\ UNCHANGED <<registered, registry, newest, tombs, tool, spoilt>>
          /\ \A r \in Sessions : r # s => phase'[r] = phase[r]
      BY <1>10, <1>p DEF Exit
    <2>2. /\ queue'[s] = << >> /\ DOMAIN queue'[s] = {} /\ hb'[s].at = "none"
          /\ \A r \in Sessions : r # s => queue'[r] = queue[r] /\ hb'[r] = hb[r]
      BY <1>0, <2>1
    <2>3. WrittenInv(s)'
      BY <1>0, <1>n, <2>1, <2>2 DEF WrittenInv, Begun
    <2>4. LeftInv(s)'
      <3>1. ~Begun(s) => OnlyBeats(s)'
        BY <1>0, <1>n, <2>1 DEF WrittenInv, OnlyBeats
      <3>2. Ended(s)' /\ ~Ended(s)
        BY <2>1, <2>2 DEF Ended
      <3>. QED  BY <1>0, <2>1, <3>1, <3>2, LeftKept DEF Listed
    <2>. QED  BY <1>t, <1>n, <2>1, <2>2, <2>3, <2>4, OneSession DEF Begun
  <1>11. CASE Deliver(s)
    <2> DEFINE q == Head(queue[s]).topic
    <2>1. /\ queue[s] # << >> /\ DOMAIN newest' = DOMAIN newest \cup {<<s, q>>}
          /\ queue' = [queue EXCEPT ![s] = Tail(@)]
          /\ UNCHANGED <<phase, hb, registered, registry, tombs, tool, spoilt>>
      BY <1>11 DEF Deliver
    <2>2. /\ q = queue[s][1].topic /\ 1 \in DOMAIN queue[s]
          /\ \A i \in DOMAIN Tail(queue[s]) : i + 1 \in DOMAIN queue[s] /\ Tail(queue[s])[i] = queue[s][i + 1]
      <3>1. /\ Head(queue[s]) = queue[s][1] /\ Len(queue[s]) \in Nat \ {0} /\ DOMAIN queue[s] = 1 .. Len(queue[s])
            /\ DOMAIN Tail(queue[s]) = 1 .. Len(queue[s]) - 1
            /\ \A i \in 1 .. Len(queue[s]) - 1 : Tail(queue[s])[i] = queue[s][i + 1]
        BY <1>0, <2>1, QueueTail
      <3>. QED  BY <3>1
    <2>3. queue'[s] = Tail(queue[s]) /\ \A r \in Sessions : r # s => queue'[r] = queue[r]
      BY <1>0, <2>1
    <2>4. q \in registered[s] \cup {"log", Heartbeat} /\ (~Begun(s) => q = Heartbeat)
      BY <1>0, <2>2 DEF WrittenInv
    <2> HIDE DEF q
    <2>5. ListTypes'
      BY <1>0, <2>1, <2>4 DEF ListTypes
    <2>6. Topics(s)' = Topics(s) \cup {q} /\ \A r \in Sessions : r # s => Topics(r)' = Topics(r)
      <3>1. ASSUME NEW r \in Sessions PROVE \A x : x \in Topics(r)' <=> x \in Topics(r) \/ (r = s /\ x = q)
        BY <1>0, <2>1, <2>5, TopicsThere
      <3>2. Topics(s)' = Topics(s) \cup {q}
        BY <3>1
      <3>3. ASSUME NEW r \in Sessions, r # s PROVE Topics(r)' = Topics(r)
        BY <3>1, <3>3
      <3>. QED  BY <3>2, <3>3
    <2>7. WrittenInv(s)'
      BY <1>0, <2>1, <2>2, <2>3, <2>4, <2>6 DEF WrittenInv, Begun, OnlyBeats
    <2>8. LeftInv(s)'
      BY <1>0, <2>1, LeftKept DEF Ended, Begun, Listed
    <2>. QED  BY <2>1, <2>3, <2>5, <2>6, <2>7, <2>8, OneSession DEF Begun
  <1>. QED  BY <1>1, <1>2, <1>3, <1>4, <1>5, <1>6, <1>7, <1>8, <1>9, <1>10, <1>11 DEF Program, User

\* the records of the tools
LEMMA ToolRecord ==
  ASSUME NEW r, r \in Record(r.at, r.list, r.chosen, r.topics), NEW a, NEW l, NEW c, NEW o
  PROVE  /\ [r EXCEPT !.at = a, !.list = l] \in Record(a, l, r.chosen, r.topics)
         /\ [r EXCEPT !.list = l] \in Record(r.at, l, r.chosen, r.topics)
         /\ [r EXCEPT !.at = a] \in Record(a, r.list, r.chosen, r.topics)
         /\ [r EXCEPT !.at = a, !.chosen = c] \in Record(a, r.list, c, r.topics)
         /\ [r EXCEPT !.at = a, !.chosen = c, !.list = l] \in Record(a, l, c, r.topics)
         /\ [r EXCEPT !.at = a, !.topics = o, !.chosen = c] \in Record(a, r.list, c, o)
  BY DEF Record

IsTool(r) ==
  /\ r \in Record(r.at, r.list, r.chosen, r.topics)
  /\ \A s \in DOMAIN r.list : s \in Sessions /\ Begun(s)
  /\ r.at \in {"topics", "mark"} => r.chosen # {} /\ \A s \in r.chosen : s \in Sessions /\ Begun(s)

LEMMA ToolSet ==
  ASSUME ListTypes, \A t \in Tools : ToolInv(t), NEW t \in Tools, NEW r, Set(t, r), IsTool(r), phase' = phase
  PROVE  /\ tool'[t] = r /\ DOMAIN tool' = Tools /\ \A u \in Tools : u # t => tool'[u] = tool[u]
         /\ \A u \in Tools : ToolInv(u)'
  <1>1. tool'[t] = r /\ DOMAIN tool' = Tools /\ \A u \in Tools : u # t => tool'[u] = tool[u]
    BY DEF Set, ListTypes
  <1>2. ASSUME NEW u \in Tools PROVE ToolInv(u)'
    <2>1. \A s : Begun(s)' <=> Begun(s)
      BY DEF Begun
    <2>2. CASE u = t
      BY <1>1, <2>1, <2>2 DEF ToolInv, IsTool
    <2>3. CASE u # t
      BY <1>1, <2>1, <2>3 DEF ToolInv
    <2>. QED  BY <2>2, <2>3
  <1>. QED  BY <1>1, <1>2

LEMMA Listing ==
  ASSUME ListTypes, NEW s \in Sessions, WrittenInv(s), Listed(s)
  PROVE  Begun(s)
  BY DEF WrittenInv, Listed

\* the sessions a tool is at
LEMMA CurrentBegun ==
  ASSUME NEW t \in Tools, ToolInv(t), tool[t].at \in {"topics", "mark"}
  PROVE  Current(t) \in Sessions /\ Begun(Current(t)) /\ Current(t) \in tool[t].chosen
  <1>1. Current(t) \in tool[t].chosen
    BY DEF Current, ToolInv
  <1>. QED  BY <1>1 DEF ToolInv

\* What the tools do to a session: its topics, its records and its marker.
LEMMA SessionDeleted ==
  ASSUME NEW s \in Sessions, WrittenInv(s), LeftInv(s), UNCHANGED programVars,
         spoilt \subseteq spoilt', Topics(s)' \subseteq Topics(s), registry'[s] \subseteq registry[s],
         s \in tombs' => s \in tombs \/ Begun(s),
         s \notin spoilt' /\ Begun(s) /\ Listed(s) /\ ~Listed(s)' => (Ended(s) /\ OnlyBeats(s)') \/ Cleaning(s)',
         s \notin spoilt' /\ Cleaning(s) => Cleaning(s)' \/ (Ended(s) /\ OnlyBeats(s)'),
         s \notin spoilt' /\ Marking(s)' => Marking(s) \/ (Ended(s) /\ OnlyBeats(s)')
  PROVE  WrittenInv(s)' /\ LeftInv(s)'
  <1>1. (Begun(s)' <=> Begun(s)) /\ (Ended(s)' <=> Ended(s)) /\ (OnlyBeats(s) => OnlyBeats(s)')
    BY DEF Begun, Ended, OnlyBeats, programVars
  <1>2. WrittenInv(s)'
    BY <1>1 DEF WrittenInv, programVars
  <1>3. LeftInv(s)'
    <2> SUFFICES ASSUME s \notin spoilt'
                 PROVE  /\ Begun(s) /\ ~Listed(s)' => (Ended(s) /\ OnlyBeats(s)') \/ Cleaning(s)'
                        /\ Marking(s)' => Ended(s) /\ OnlyBeats(s)'
      BY <1>1 DEF LeftInv
    <2>1. s \notin spoilt
      OBVIOUS
    <2>. QED  BY <1>1, <2>1 DEF LeftInv
  <1>. QED  BY <1>2, <1>3

\* a step of a tool that neither deletes nor marks
LEMMA ToolAtWork ==
  ASSUME DeletionInv, NEW t \in Tools, NEW r, Set(t, r), IsTool(r),
         UNCHANGED <<programVars, brokerVars>>, spoilt \subseteq spoilt',
         t = "scope" => tool["scope"].at # "topics" \/ Current("scope") \in spoilt',
         t = "maint" => r.at # "mark"
  PROVE  DeletionInv'
  <1> USE DEF programVars, brokerVars
  <1>1. /\ tool'[t] = r /\ DOMAIN tool' = Tools /\ \A u \in Tools : u # t => tool'[u] = tool[u]
        /\ \A u \in Tools : ToolInv(u)'
    BY ToolSet DEF DeletionInv
  <1>2. ListTypes'
    BY <1>1 DEF DeletionInv, ListTypes
  <1>3. ASSUME NEW s \in Sessions PROVE WrittenInv(s)' /\ LeftInv(s)'
    <2>1. t = "scope" \/ t = "maint"
      BY DEF Tools
    <2>2. Topics(s)' = Topics(s) /\ (Listed(s)' <=> Listed(s))
      BY DEF Topics, Listed
    <2>3. s \notin spoilt' /\ Cleaning(s) => Cleaning(s)'
      BY <1>1, <2>1 DEF Cleaning, Current, Tools
    <2>4. Marking(s)' => Marking(s)
      BY <1>1, <2>1 DEF Marking, Current, Tools
    <2>5. WrittenInv(s) /\ LeftInv(s)
      BY DEF DeletionInv
    <2>. QED  BY <2>2, <2>3, <2>4, <2>5, SessionDeleted
  <1>. QED  BY <1>1, <1>2, <1>3 DEF DeletionInv

LEMMA WithoutTopics ==
  ASSUME NEW S, newest' = Without(newest, S)
  PROVE  DOMAIN newest' = DOMAIN newest \ S
  BY DEF Without, Restrict

LEMMA IdleTool == IsTool(Idle) /\ Idle.at = "idle" /\ Idle \in Record("idle", << >>, {}, {})
  BY DEF IsTool, Idle, Record

\* after the second of the two steps, and between them
LEMMA NextTool ==
  ASSUME NEW t \in Tools, ToolInv(t), tool[t].at \in {"topics", "mark"}
  PROVE  IsTool(TheNext(t)) /\ TheNext(t).at \in {First[t], "menu", "idle"}
  <1> DEFINE left == tool[t].chosen \ {Current(t)}
             list == IF t = "scope" THEN Without(tool[t].list, {Current(t)}) ELSE tool[t].list
  <1>1. DOMAIN list \subseteq DOMAIN tool[t].list
    BY DEF Without, Restrict
  <1>2. First[t] \in {"topics", "mark"}
    BY DEF First, Tools
  <1> HIDE DEF list
  <1>3. CASE left # {}
    <2>1. [tool[t] EXCEPT !.at = First[t], !.chosen = left, !.list = list]
            \in Record(First[t], list, left, tool[t].topics)
      BY ToolRecord DEF ToolInv
    <2>2. TheNext(t) = [tool[t] EXCEPT !.at = First[t], !.chosen = left, !.list = list]
      BY <1>3 DEF TheNext, list
    <2>. QED  BY <1>1, <1>3, <2>1, <2>2 DEF IsTool, ToolInv, Record
  <1>4. CASE left = {} /\ t = "maint"
    BY <1>4, IdleTool DEF TheNext
  <1>5. CASE left = {} /\ t # "maint"
    <2>1. [tool[t] EXCEPT !.at = "menu", !.chosen = {}, !.list = list]
            \in Record("menu", list, {}, tool[t].topics)
      BY ToolRecord DEF ToolInv
    <2>2. TheNext(t) = [tool[t] EXCEPT !.at = "menu", !.chosen = {}, !.list = list]
      BY <1>5 DEF TheNext, list
    <2>. QED  BY <1>1, <2>1, <2>2 DEF IsTool, ToolInv, Record
  <1>. QED  BY <1>3, <1>4, <1>5

LEMMA OtherTool ==
  ASSUME NEW t \in Tools, ToolInv(t), tool[t].at \in {"topics", "mark"}, NEW x \in {"topics", "mark"}
  PROVE  /\ IsTool([tool[t] EXCEPT !.at = x]) /\ [tool[t] EXCEPT !.at = x].at = x
         /\ [tool[t] EXCEPT !.at = x].chosen = tool[t].chosen
  <1>1. [tool[t] EXCEPT !.at = x] \in Record(x, tool[t].list, tool[t].chosen, tool[t].topics)
    BY ToolRecord DEF ToolInv
  <1>. QED  BY <1>1 DEF IsTool, ToolInv, Record

\* Deleting the topics of the session: what remains are the heartbeats, or it is spoilt.
LEMMA TopicsDeleted == ASSUME DeletionInv, NEW t \in Tools, DeleteSessionTopics(t) PROVE DeletionInv'
  <1> USE DEF programVars
  <1>0. ListTypes /\ ToolInv(t) /\ tool[t].at = "topics" /\ (t = "scope" \/ t = "maint")
        /\ \A s \in Sessions : WrittenInv(s) /\ LeftInv(s)
    BY DEF DeletionInv, DeleteSessionTopics, Tools
  <1>1. PICK c \in Sessions : c = Current(t) /\ Begun(c)
    BY <1>0, CurrentBegun
  <1>2. UNCHANGED <<programVars, registry, tombs>> /\ Set(t, After(t, "topics"))
    BY DEF DeleteSessionTopics
  <1>k. PICK kept \in SUBSET (Doomed(t) \cap Topics(Current(t))) :
          /\ newest' = Without(newest, {<<Current(t), x>> : x \in Doomed(t) \ kept})
          /\ spoilt' = IF kept # {} \/ ~Over(Current(t)) \/ tool[t].list[Current(t)] # registered[Current(t)]
                       THEN spoilt \cup {Current(t)} ELSE spoilt
    BY DEF DeleteSessionTopics
  <1>3. /\ newest' = Without(newest, {<<c, x>> : x \in Doomed(t) \ kept})
        /\ spoilt' = IF kept # {} \/ ~Over(c) \/ tool[t].list[c] # registered[c] THEN spoilt \cup {c} ELSE spoilt
    BY <1>1, <1>k, Zenon
  <1>4. DOMAIN newest' = DOMAIN newest \ {<<c, x>> : x \in Doomed(t) \ kept}
    BY <1>3, WithoutTopics
  <1>5. IsTool(After(t, "topics"))
    BY <1>0, NextTool, OtherTool DEF After
  <1>6. /\ tool'[t] = After(t, "topics") /\ DOMAIN tool' = Tools /\ \A u \in Tools : u # t => tool'[u] = tool[u]
        /\ \A u \in Tools : ToolInv(u)'
    BY <1>2, <1>5, ToolSet DEF DeletionInv
  <1>7. ListTypes'
    BY <1>0, <1>2, <1>4, <1>6 DEF ListTypes
  <1>8. ASSUME NEW s \in Sessions PROVE Topics(s)' \subseteq Topics(s)
    BY <1>0, <1>4, <1>7, TopicsThere
  <1>9. c \notin spoilt' => Ended(c) /\ OnlyBeats(c)'
    <2> SUFFICES ASSUME c \notin spoilt' PROVE Ended(c) /\ OnlyBeats(c)'
      OBVIOUS
    <2>1. kept = {} /\ Over(c) /\ tool[t].list[c] = registered[c]
      BY <1>3
    <2>2. Ended(c)
      BY <1>1, <2>1 DEF Over, Ended, Begun
    <2>3. Doomed(t) = registered[c] \cup {"log", "ctl"}
      BY <1>1, <2>1 DEF Doomed
    <2>4. Topics(c) \subseteq registered[c] \cup {"log", "ctl", Heartbeat}
      BY <1>0, <1>1 DEF WrittenInv
    <2>5. ASSUME NEW x \in Topics(c)' PROVE x = Heartbeat
      <3>1. x \in Topics(c) /\ <<c, x>> \in DOMAIN newest'
        BY <1>0, <1>1, <1>7, <1>8, TopicsThere
      <3>2. x \notin Doomed(t)
        BY <1>4, <2>1, <3>1
      <3>. QED  BY <2>3, <2>4, <3>1, <3>2
    <2>. QED  BY <2>2, <2>5 DEF OnlyBeats
  <1>10. ASSUME NEW s \in Sessions PROVE WrittenInv(s)' /\ LeftInv(s)'
    <2>1. Listed(s)' <=> Listed(s)
      BY <1>2 DEF Listed
    <2>2. s \notin spoilt' /\ Cleaning(s) => Cleaning(s)' \/ (Ended(s) /\ OnlyBeats(s)')
      <3>1. CASE t = "scope"
        BY <1>1, <1>9, <3>1 DEF Cleaning
      <3>2. CASE t = "maint"
        BY <1>6, <3>2 DEF Cleaning, Current, Tools
      <3>. QED  BY <1>0, <3>1, <3>2
    <2>3. s \notin spoilt' /\ Marking(s)' => Marking(s) \/ (Ended(s) /\ OnlyBeats(s)')
      <3>1. CASE t = "maint"
        <4>1. tool'["maint"].chosen = tool["maint"].chosen
          BY <1>0, <1>6, <3>1, OtherTool DEF After, First
        <4>. QED  BY <1>1, <1>9, <3>1, <4>1 DEF Marking, Current
      <3>2. CASE t = "scope"
        BY <1>6, <3>2 DEF Marking, Current, Tools
      <3>. QED  BY <1>0, <3>1, <3>2
    <2>4. spoilt \subseteq spoilt' /\ registry'[s] \subseteq registry[s]
      BY <1>2, <1>3
    <2>. QED  BY <1>0, <1>2, <1>8, <2>1, <2>2, <2>3, <2>4, SessionDeleted
  <1>. QED  BY <1>6, <1>7, <1>10 DEF DeletionInv

\* The marker: kv8maint has deleted the topics before, kv8scope will.
LEMMA SessionMarked == ASSUME DeletionInv, NEW t \in Tools, MarkSessionDeleted(t) PROVE DeletionInv'
  <1> USE DEF programVars
  <1>0. ListTypes /\ ToolInv(t) /\ tool[t].at = "mark" /\ (t = "scope" \/ t = "maint")
        /\ \A s \in Sessions : WrittenInv(s) /\ LeftInv(s)
    BY DEF DeletionInv, MarkSessionDeleted, Tools
  <1>1. PICK c \in Sessions : c = Current(t) /\ Begun(c)
    BY <1>0, CurrentBegun
  <1>2. UNCHANGED <<programVars, registry, newest, spoilt>> /\ Set(t, After(t, "mark"))
        /\ (tombs' = tombs \/ tombs' = tombs \cup {c})
    BY <1>1 DEF MarkSessionDeleted
  <1>5. IsTool(After(t, "mark"))
    BY <1>0, NextTool, OtherTool DEF After
  <1>6. /\ tool'[t] = After(t, "mark") /\ DOMAIN tool' = Tools /\ \A u \in Tools : u # t => tool'[u] = tool[u]
        /\ \A u \in Tools : ToolInv(u)'
    BY <1>2, <1>5, ToolSet DEF DeletionInv
  <1>7. ListTypes'
    BY <1>0, <1>2, <1>6 DEF ListTypes
  <1>8. \A s \in Sessions : Topics(s)' = Topics(s) /\ (OnlyBeats(s)' <=> OnlyBeats(s))
    BY <1>2 DEF Topics, OnlyBeats
  <1>9. ASSUME t = "scope" PROVE Cleaning(c)'
    <2>1. After(t, "mark") = [tool[t] EXCEPT !.at = "topics"]
      BY <1>9 DEF After, First
    <2>2. tool'["scope"].at = "topics" /\ tool'["scope"].chosen = tool["scope"].chosen
      <3>1. "topics" \in {"topics", "mark"} /\ tool[t].at \in {"topics", "mark"}
        BY <1>0
      <3>2. [tool[t] EXCEPT !.at = "topics"].at = "topics" /\ [tool[t] EXCEPT !.at = "topics"].chosen = tool[t].chosen
        BY <1>0, <3>1, OtherTool
      <3>. QED  BY <1>6, <1>9, <2>1, <3>2
    <2>. QED  BY <1>1, <1>9, <2>2 DEF Cleaning, Current
  <1>10. ASSUME t = "maint" PROVE ~Marking(c)' /\ tool'["maint"].at # "mark" /\ Marking(c)
    <2>1. After(t, "mark") = TheNext(t) /\ First[t] = "topics"
      BY <1>10 DEF After, First
    <2>2. tool'["maint"].at # "mark"
      BY <1>0, <1>6, <1>10, <2>1, NextTool
    <2>. QED  BY <1>0, <1>1, <1>10, <2>2 DEF Marking
  <1>11. ASSUME NEW s \in Sessions PROVE WrittenInv(s)' /\ LeftInv(s)'
    <2>1. s \notin spoilt' /\ Begun(s) /\ Listed(s) /\ ~Listed(s)' => (Ended(s) /\ OnlyBeats(s)') \/ Cleaning(s)'
      <3> SUFFICES ASSUME s \notin spoilt', Listed(s), ~Listed(s)'
                   PROVE  (Ended(s) /\ OnlyBeats(s)') \/ Cleaning(s)'
        OBVIOUS
      <3>1. s = c
        BY <1>2 DEF Listed
      <3>2. CASE t = "scope"
        BY <1>9, <3>1, <3>2
      <3>3. CASE t = "maint"
        BY <1>0, <1>1, <1>2, <1>8, <1>10, <3>1, <3>3 DEF LeftInv
      <3>. QED  BY <1>0, <3>2, <3>3
    <2>2. Cleaning(s) => Cleaning(s)'
      BY <1>0, <1>6 DEF Cleaning, Current, Tools
    <2>3. Marking(s)' => Marking(s)
      BY <1>0, <1>6, <1>10 DEF Marking, Current, Tools
    <2>4. s \in tombs' => s \in tombs \/ Begun(s)
      BY <1>1, <1>2
    <2>. QED  BY <1>0, <1>2, <1>8, <2>1, <2>2, <2>3, <2>4, SessionDeleted
  <1>. QED  BY <1>6, <1>7, <1>11 DEF DeletionInv

\* The whole channel is deleted: a session with a topic that was not in the list is spoilt.
LEMMA ChannelDeleted == ASSUME DeletionInv, NEW t \in Tools, DeleteChannel(t) PROVE DeletionInv'
  <1> USE DEF programVars
  <1>0. ListTypes /\ ToolInv(t) /\ tool[t].at = "channel" /\ (t = "scope" \/ t = "maint")
        /\ \A s \in Sessions : WrittenInv(s) /\ LeftInv(s)
    BY DEF DeletionInv, DeleteChannel, Tools
  <1>1. UNCHANGED programVars /\ Set(t, Idle)
    BY DEF DeleteChannel
  <1>2. CASE UNCHANGED <<brokerVars, spoilt>>
    <2>1. UNCHANGED <<programVars, brokerVars>> /\ spoilt \subseteq spoilt'
      BY <1>1, <1>2
    <2>. QED  BY <1>0, <1>1, <2>1, IdleTool, ToolAtWork
  <1>3. CASE /\ newest' = Without(newest, tool[t].topics)
             /\ IF tool[t].chosen = {} THEN UNCHANGED <<registry, tombs, hasRegistry>>
                ELSE registry' = [s \in Sessions |-> {}] /\ tombs' = {} /\ hasRegistry' = FALSE
             /\ spoilt' = spoilt \cup {s \in Sessions : ~Over(s) \/ \E x \in Topics(s) : <<s, x>> \notin tool[t].topics}
    <2>1. DOMAIN newest' = DOMAIN newest \ tool[t].topics
      BY <1>3, WithoutTopics
    <2>2. /\ tool'[t] = Idle /\ DOMAIN tool' = Tools /\ \A u \in Tools : u # t => tool'[u] = tool[u]
          /\ \A u \in Tools : ToolInv(u)'
      BY <1>1, IdleTool, ToolSet DEF DeletionInv
    <2>3. /\ registry' = registry \/ registry' = [s \in Sessions |-> {}]
          /\ tombs' \subseteq tombs
      BY <1>3
    <2>4. ListTypes'
      BY <1>0, <1>1, <2>1, <2>2, <2>3 DEF ListTypes
    <2>5. ASSUME NEW s \in Sessions PROVE WrittenInv(s)' /\ LeftInv(s)'
      <3>1. Topics(s)' \subseteq Topics(s)
        BY <1>0, <2>1, <2>4, TopicsThere
      <3>2. s \notin spoilt' => Over(s) /\ OnlyBeats(s)'
        <4> SUFFICES ASSUME s \notin spoilt' PROVE Over(s) /\ OnlyBeats(s)'
          OBVIOUS
        <4>1. Over(s) /\ \A x \in Topics(s) : <<s, x>> \in tool[t].topics
          BY <1>3
        <4>2. \A x \in Topics(s)' : x \in Topics(s) /\ <<s, x>> \in DOMAIN newest'
          BY <1>0, <2>4, <3>1, TopicsThere
        <4>. QED  BY <2>1, <4>1, <4>2 DEF OnlyBeats
      <3>3. s \notin spoilt' /\ Begun(s) => Ended(s)
        BY <3>2 DEF Over, Begun, Ended
      <3>4. Cleaning(s) => Cleaning(s)'
        BY <1>0, <2>2 DEF Cleaning, Current, Tools
      <3>5. Marking(s)' => Marking(s)
        BY <1>0, <2>2, IdleTool DEF Marking, Current, Tools
      <3>6. spoilt \subseteq spoilt' /\ registry'[s] \subseteq registry[s] /\ (s \in tombs' => s \in tombs)
        BY <1>3, <2>3
      <3>. QED  BY <1>0, <1>1, <3>1, <3>2, <3>3, <3>4, <3>5, <3>6, SessionDeleted
    <2>. QED  BY <2>2, <2>4, <2>5 DEF DeletionInv
  <1>. QED  BY <1>2, <1>3 DEF DeleteChannel

\* The lists, the menus and a tool that is killed.
LEMMA MenuSteps ==
  ASSUME DeletionInv,
         \/ DiscoverSessions \/ Leave \/ \E s \in Sessions : Appeared(s) \/ Disappeared(s)
         \/ \E t \in Tools : ListChannelTopics(t) \/ Killed(t) \/ \E S \in SUBSET Sessions : ConfirmDelete(t, S)
  PROVE  DeletionInv'
  <1> USE DEF history
  <1>0. /\ ListTypes /\ ToolInv("maint") /\ ToolInv("scope") /\ "maint" \in Tools /\ "scope" \in Tools
        /\ \A s \in Sessions : Listed(s) => Begun(s)
    BY Listing DEF DeletionInv, Tools
  <1>1. CASE DiscoverSessions
    <2> DEFINE l == [s \in {r \in Sessions : Listed(r)} |-> registry[s] \cap Counters]
    <2>1. /\ UNCHANGED <<programVars, brokerVars, spoilt>> /\ tool["maint"].at = "idle"
          /\ Set("maint", [Idle EXCEPT !.at = "menu", !.list = l])
      BY <1>1 DEF DiscoverSessions
    <2>2. DOMAIN l = {r \in Sessions : Listed(r)}
      OBVIOUS
    <2> HIDE DEF l
    <2>3. [Idle EXCEPT !.at = "menu", !.list = l] \in Record("menu", l, {}, {})
      BY DEF Record, Idle
    <2>4. IsTool([Idle EXCEPT !.at = "menu", !.list = l]) /\ [Idle EXCEPT !.at = "menu", !.list = l].at = "menu"
      BY <1>0, <2>2, <2>3 DEF IsTool, Record
    <2>. QED  BY <1>0, <2>1, <2>4, ToolAtWork
  <1>2. CASE Leave
    <2>1. UNCHANGED <<programVars, brokerVars, spoilt>> /\ Set("maint", Idle)
      BY <1>2 DEF Leave
    <2>. QED  BY <1>0, <2>1, IdleTool, ToolAtWork
  <1>3. ASSUME NEW s \in Sessions, Appeared(s) PROVE DeletionInv'
    <2> DEFINE l == [r \in DOMAIN tool["scope"].list \cup {s} |->
                       IF r = s THEN registry[s] \cap Counters ELSE tool["scope"].list[r]]
               new == [tool["scope"] EXCEPT !.at = "menu", !.list = l]
    <2>1. /\ UNCHANGED <<programVars, brokerVars, spoilt>> /\ tool["scope"].at # "topics" /\ Listed(s)
          /\ Set("scope", [tool["scope"] EXCEPT !.at = "menu",
               !.list = [r \in DOMAIN @ \cup {s} |-> IF r = s THEN registry[s] \cap Counters ELSE @[r]]])
      BY <1>3 DEF Appeared, Busy
    <2>2. Set("scope", new)
      BY <1>0, <2>1 DEF ToolInv, Record
    <2>3. DOMAIN l = DOMAIN tool["scope"].list \cup {s}
      OBVIOUS
    <2> HIDE DEF l
    <2>4. new \in Record("menu", l, tool["scope"].chosen, tool["scope"].topics)
      BY <1>0, ToolRecord DEF ToolInv
    <2> HIDE DEF new
    <2>5. IsTool(new)
      BY <1>0, <2>1, <2>3, <2>4 DEF IsTool, ToolInv, Record
    <2>. QED  BY <1>0, <2>1, <2>2, <2>5, ToolAtWork
  <1>4. ASSUME NEW s \in Sessions, Disappeared(s) PROVE DeletionInv'
    <2> DEFINE l == Without(tool["scope"].list, {s})
               new == [tool["scope"] EXCEPT !.list = l]
    <2>1. /\ UNCHANGED <<programVars, brokerVars, spoilt>> /\ tool["scope"].at \notin {"topics", "mark"}
          /\ Set("scope", [tool["scope"] EXCEPT !.list = Without(@, {s})])
      BY <1>0, <1>4 DEF Disappeared, Busy
    <2>2. Set("scope", new)
      BY <1>0, <2>1 DEF ToolInv, Record
    <2>3. DOMAIN l \subseteq DOMAIN tool["scope"].list
      BY DEF Without, Restrict
    <2> HIDE DEF l
    <2>4. new \in Record(tool["scope"].at, l, tool["scope"].chosen, tool["scope"].topics)
      BY <1>0, ToolRecord DEF ToolInv
    <2> HIDE DEF new
    <2>5. IsTool(new)
      BY <1>0, <2>1, <2>3, <2>4 DEF IsTool, ToolInv, Record
    <2>. QED  BY <1>0, <2>1, <2>2, <2>5, ToolAtWork
  <1>5. ASSUME NEW t \in Tools, ListChannelTopics(t) PROVE DeletionInv'
    <2> DEFINE c == IF hasRegistry THEN {"_registry"} ELSE {}
               new == [tool[t] EXCEPT !.at = "channel", !.topics = DOMAIN newest, !.chosen = c]
    <2>1. UNCHANGED <<programVars, brokerVars, spoilt>> /\ tool[t].at = "menu" /\ Set(t, new) /\ ToolInv(t)
      BY <1>5 DEF ListChannelTopics, DeletionInv
    <2> HIDE DEF c
    <2>2. new \in Record("channel", tool[t].list, c, DOMAIN newest)
      BY <2>1, ToolRecord DEF ToolInv
    <2> HIDE DEF new
    <2>3. IsTool(new) /\ new.at = "channel"
      BY <2>1, <2>2 DEF IsTool, ToolInv, Record
    <2>. QED  BY <2>1, <2>3, ToolAtWork
  <1>6. ASSUME NEW t \in Tools, Killed(t) PROVE DeletionInv'
    <2>1. /\ UNCHANGED <<programVars, brokerVars>> /\ Set(t, Idle) /\ spoilt \subseteq spoilt'
          /\ t = "scope" /\ tool[t].at = "topics" => Current(t) \in spoilt'
      BY <1>6 DEF Killed
    <2>. QED  BY <2>1, IdleTool, ToolAtWork
  <1>7. ASSUME NEW t \in Tools, NEW S \in SUBSET Sessions, ConfirmDelete(t, S) PROVE DeletionInv'
    <2> DEFINE new == [tool[t] EXCEPT !.at = First[t], !.chosen = S]
    <2>1. /\ UNCHANGED <<programVars, brokerVars, spoilt>> /\ tool[t].at = "menu" /\ Set(t, new) /\ ToolInv(t)
          /\ S # {} /\ S \subseteq DOMAIN tool[t].list
      BY <1>7 DEF ConfirmDelete, DeletionInv
    <2>2. new \in Record(First[t], tool[t].list, S, tool[t].topics)
      BY <2>1, ToolRecord DEF ToolInv
    <2> HIDE DEF new
    <2>3. IsTool(new) /\ (t = "maint" => new.at # "mark")
      BY <2>1, <2>2 DEF IsTool, ToolInv, Record, First
    <2>. QED  BY <2>1, <2>3, ToolAtWork
  <1>. QED  BY <1>1, <1>2, <1>3, <1>4, <1>5, <1>6, <1>7

\* Time, the broker and the probes leave the topics, the lists and the markers alone.
LEMMA OtherSteps ==
  ASSUME LifeInv, LifeInv', DeletionInv, Tick \/ Probes \/ BrokerLate \/ BrokerBack \/ UNCHANGED vars
  PROVE  DeletionInv'
  <1> USE DEF programVars, brokerVars, probeVars, history
  <1>1. UNCHANGED <<phase, registered, registry, tombs, tool, spoilt>> /\ DOMAIN newest' = DOMAIN newest
    <2>1. CASE Tick
      BY <2>1 DEF Tick
    <2>2. CASE Probes
      BY <2>2 DEF Probes, QueryWatermark, ReadFails, BeginProbe, ReadHeartbeat, DataRecency, QuickCheckLiveness
    <2>3. CASE BrokerLate \/ BrokerBack \/ UNCHANGED vars
      BY <2>3 DEF BrokerLate, BrokerBack, vars
    <2>. QED  BY <2>1, <2>2, <2>3
  <1>2. ASSUME NEW s \in Sessions
        PROVE  /\ hb'[s].at = hb[s].at /\ DOMAIN queue'[s] = DOMAIN queue[s]
               /\ \A i \in DOMAIN queue[s] : queue'[s][i].topic = queue[s][i].topic
    <2>1. CASE Tick
      <3>1. /\ hb \in [Sessions -> [at : {"none", "sleep", "beat", "exited"}, slept : 0 .. Interval]]
            /\ queue \in [Sessions -> Seq(Sent)] /\ queue[s] \in Seq(Sent)
        BY DEF LifeInv, TypesOK
      <3>2. hb'[s].at = hb[s].at
        BY <2>1, <3>1 DEF Tick
      <3>3. queue'[s] = [i \in DOMAIN queue[s] |-> Aged(queue[s][i])]
        BY <2>1 DEF Tick
      <3>4. \A i \in DOMAIN queue[s] : queue[s][i] \in Sent
        BY <3>1
      <3>5. \A r \in Sent : Aged(r).topic = r.topic
        BY DEF Aged, Sent
      <3>. QED  BY <3>2, <3>3, <3>4, <3>5
    <2>2. CASE UNCHANGED <<hb, queue>>
      BY <2>2
    <2>3. CASE Probes \/ BrokerLate \/ BrokerBack \/ UNCHANGED vars
      <3>1. UNCHANGED <<hb, queue>>
        BY <2>3 DEF Probes, QueryWatermark, ReadFails, BeginProbe, ReadHeartbeat, DataRecency,
                    QuickCheckLiveness, BrokerLate, BrokerBack, vars
      <3>. QED  BY <2>2, <3>1
    <2>. QED  BY <2>1, <2>3
  <1>3. ListTypes'
    BY <1>1 DEF DeletionInv, ListTypes
  <1>4. \A t \in Tools : ToolInv(t)'
    BY <1>1 DEF DeletionInv, ToolInv, Begun
  <1>5. ASSUME NEW s \in Sessions PROVE WrittenInv(s)' /\ LeftInv(s)'
    <2>1. queue'[s] = << >> <=> queue[s] = << >>
      <3>1. queue[s] \in Seq(Sent) /\ queue'[s] \in Seq(Sent)
        BY DEF LifeInv, TypesOK
      <3>2. \A q \in Seq(Sent) : q = << >> <=> DOMAIN q = {}
        OBVIOUS
      <3>. QED  BY <1>2, <3>1, <3>2
    <2>2. Topics(s)' = Topics(s)
      BY <1>1 DEF Topics
    <2>3. WrittenInv(s) /\ LeftInv(s)
      BY DEF DeletionInv
    <2>. QED  BY <1>1, <1>2, <2>1, <2>2, <2>3, SameSession
  <1>. QED  BY <1>3, <1>4, <1>5 DEF DeletionInv

LEMMA DeletionInit == Init => DeletionInv
  <1> SUFFICES ASSUME Init PROVE DeletionInv
    OBVIOUS
  <1>1. /\ \A s \in Sessions : phase[s] = "absent" /\ registry[s] = {} /\ queue[s] = << >>
        /\ registered = [s \in Sessions |-> {}] /\ registry = [s \in Sessions |-> {}]
        /\ newest = << >> /\ tombs = {} /\ tool = [t \in Tools |-> Idle]
    BY DEF Init
  <1>2. DOMAIN newest = {}
    BY <1>1
  <1>3. ListTypes
    BY <1>1, <1>2 DEF ListTypes
  <1>4. \A t \in Tools : tool[t] = Idle
    BY <1>1
  <1>5. \A t \in Tools : ToolInv(t)
    BY <1>4, IdleTool DEF ToolInv, IsTool
  <1>6. ASSUME NEW s \in Sessions PROVE WrittenInv(s) /\ LeftInv(s)
    <2>1. Topics(s) = {}
      BY <1>2 DEF Topics
    <2>2. DOMAIN queue[s] = {} /\ ~Begun(s)
      BY <1>1 DEF Begun
    <2>3. tool["scope"].at = "idle" /\ tool["maint"].at = "idle"
      BY <1>4, IdleTool DEF Tools
    <2>. QED  BY <1>1, <2>1, <2>2, <2>3 DEF WrittenInv, LeftInv, OnlyBeats, Begun, Cleaning, Marking
  <1>. QED  BY <1>3, <1>5, <1>6 DEF DeletionInv

LEMMA DeletionNext == LifeInv /\ LifeInv' /\ DeletionInv /\ [Next]_vars => DeletionInv'
  <1> SUFFICES ASSUME LifeInv, LifeInv', DeletionInv, [Next]_vars PROVE DeletionInv'
    OBVIOUS
  <1>1. CASE \E s \in Sessions : Program(s) \/ User(s)
    BY <1>1, ProgramDeletions
  <1>2. CASE Deletions
    BY <1>2, TopicsDeleted, SessionMarked, ChannelDeleted, MenuSteps DEF Deletions
  <1>3. CASE Tick \/ Probes \/ BrokerLate \/ BrokerBack \/ UNCHANGED vars
    BY <1>3, OtherSteps
  <1>. QED  BY <1>1, <1>2, <1>3 DEF Next

\* Of a session that is over and in no list any more only the heartbeat topic is left, however
\* many tools delete sessions and the channel, in whatever order their requests interleave with
\* the programs that write and with each other, and wherever kv8maint was killed
\* (DeleteSessionTopics, MarkSessionDeleted, DeleteChannel); the history variable spoilt names
\* the sessions for which the code does not promise it.
THEOREM NothingIsLeft == Spec => []DeletionLeavesNothing
  <1>1. LifeInv /\ DeletionInv => DeletionLeavesNothing
    <2> SUFFICES ASSUME DeletionInv, NEW s \in Sessions, Over(s), ~Listed(s), s \notin spoilt,
                        \A t \in Tools : ~Busy(t)
                 PROVE  OnlyBeats(s)
      BY DEF DeletionLeavesNothing, OnlyBeats
    <2>1. WrittenInv(s) /\ LeftInv(s)
      BY DEF DeletionInv
    <2>2. ~Cleaning(s)
      BY DEF Busy, Cleaning, Tools
    <2>. QED  BY <2>1, <2>2 DEF WrittenInv, LeftInv
  <1>. QED  BY LifeInit, LifeNext, DeletionInit, DeletionNext, <1>1, PTL DEF Spec

=============================================================================
