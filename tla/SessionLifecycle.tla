--------------------------- MODULE SessionLifecycle ---------------------------
(***************************************************************************)
(* The life of a session as others see it: the program that writes it, its *)
(* heartbeat thread and how it ends; the probes of kv8scope and kv8zoom    *)
(* that tell a live session from an ended one; and kv8maint and kv8scope   *)
(* deleting sessions and the whole channel while all this goes on.         *)
(*                                                                         *)
(* Time is counted in ticks. Only the newest record of a topic is ever     *)
(* looked at (ReadLatestRecord), so a topic is that record and its age.    *)
(* One channel, one partition per topic; auto.create.topics is on, as in   *)
(* docker-compose.yml: what is produced to a missing topic creates it.     *)
(***************************************************************************)
EXTENDS Integers, Sequences, FiniteSetsExt, Functions

CONSTANTS
  Sessions,
  Counters,    \* scalar counters of a session, each with a data topic
  Interval,    \* KV8_HEARTBEAT_INTERVAL_MS
  MaxDelay,    \* a record is stored this long after it was produced, unless the broker is late
  LiveAge, DeadAge, \* iHeartbeatLiveS and iDataLiveS, iHeartbeatDeadS and iDataDeadS
  QuickAge,    \* the 10 s of QuickCheckLiveness
  ProbeTicks,  \* a probe takes at most this long
  MaxQueue,    \* bound: records on their way from one program
  MaxFaults    \* bound: late brokers, failed requests and reads, killed tools

ASSUME LifecycleAssumption ==
  /\ Interval \in Nat \ {0} /\ MaxDelay \in Nat /\ ProbeTicks \in Nat
  /\ LiveAge \in Nat /\ QuickAge \in Nat /\ DeadAge \in Nat
  /\ Interval + MaxDelay < LiveAge /\ LiveAge < DeadAge
  /\ Interval + MaxDelay + ProbeTicks < QuickAge
  /\ MaxQueue \in Nat \ {0} /\ MaxFaults \in Nat
  /\ Counters \cap {"hb", "ctl", "log"} = {}

Heartbeat == "hb"
Probers == {"scope", "zoom"}
Tools == {"maint", "scope"}
MaxAge == DeadAge + ProbeTicks

VARIABLES
  \* the programs
  phase,       \* [Sessions -> ...] see Alive and Over
  hb,          \* [Sessions -> [at, slept]] the heartbeat thread
  registered,  \* [Sessions -> SUBSET Counters] what the program has registered
  queue,       \* [Sessions -> Seq([topic, state, age])] on the way to the broker
  \* the broker
  newest,      \* <<session, topic>> -> [state, age]: the topics and their newest records
  registry,    \* [Sessions -> SUBSET (Counters \cup {"open"})] records of the registry
  tombs,       \* the sessions with a deleted marker
  hasRegistry, \* the registry topic exists
  late,        \* the broker answers no producer
  \* the probes and what they found
  probe,       \* [Probers -> [at, session, elapsed, record]]
  status,      \* [Sessions -> [state, hb]]  SessionLivenessInfo: eState, bHasHeartbeat
  quick,       \* [Sessions -> {"unknown", "alive", "dead", "unread"}] QuickCheckLiveness, where
               \* dead and unread are both false: no heartbeat was read
  \* the tools
  tool,        \* [Tools -> [at, list, chosen, topics]]
  \* history
  faults, wasLate,
  said,        \* sessions whose program has sent the shutdown record
  closed,      \* ... and it was stored
  spoilt       \* sessions whose deletion DeletionLeavesNothing says nothing about

programVars == <<phase, hb, registered, queue>>
brokerVars  == <<newest, registry, tombs, hasRegistry>>
probeVars   == <<probe, status, quick>>
history     == <<faults, wasLate, said, closed, spoilt>>
vars == <<programVars, brokerVars, late, probeVars, tool, history>>

Idle == [at |-> "idle", list |-> << >>, chosen |-> {}, topics |-> {}]
NoProbe == [at |-> "idle", session |-> "", elapsed |-> 0, record |-> << >>]

Init ==
  /\ phase = [s \in Sessions |-> "absent"]
  /\ hb = [s \in Sessions |-> [at |-> "none", slept |-> 0]]
  /\ registered = [s \in Sessions |-> {}] /\ queue = [s \in Sessions |-> << >>]
  /\ newest = << >> /\ registry = [s \in Sessions |-> {}] /\ tombs = {}
  /\ hasRegistry = FALSE /\ late = FALSE
  /\ probe = [p \in Probers |-> NoProbe]
  /\ status = [s \in Sessions |-> [state |-> "Unknown", hb |-> FALSE]]
  /\ quick = [s \in Sessions |-> "unknown"]
  /\ tool = [t \in Tools |-> Idle]
  /\ faults = 0 /\ wasLate = FALSE /\ said = {} /\ closed = {} /\ spoilt = {}

Fault == faults < MaxFaults /\ faults' = faults + 1
Fine  == UNCHANGED faults

-----------------------------------------------------------------------------
(* The program of a session.                                               *)

Alive(s) == phase[s] \in {"open", "running", "closing"}
Over(s)  == phase[s] \in {"absent", "ended", "died"} /\ queue[s] = << >>

Full(s) == Len(queue[s]) >= MaxQueue

\* nobody looks whether rd_kafka_producev took the record; the queue fills while the broker is late
Send(s, topic, state) ==
  /\ Full(s) => late
  /\ queue' = IF Full(s) THEN queue
              ELSE [queue EXCEPT ![s] = Append(@, [topic |-> topic, state |-> state, age |-> 0])]

Go(s, p) == phase' = [phase EXCEPT ![s] = p]

\* kv8log_open creates the producer, which starts its heartbeat thread
Connect(s) ==
  /\ phase[s] = "absent" /\ Go(s, "open")
  /\ hb' = [hb EXCEPT ![s] = [at |-> "sleep", slept |-> Interval]]
  /\ UNCHANGED <<registered, queue, brokerVars, late, probeVars, tool, history>>

\* the control topic and the session's records in the registry, each flushed
WriteSessionHeader(s) ==
  /\ phase[s] = "open" /\ ~late /\ Go(s, "running")
  /\ registry' = [registry EXCEPT ![s] = @ \cup {"open"}] /\ hasRegistry' = TRUE
  /\ newest' = [k \in DOMAIN newest \cup {<<s, "ctl">>} |->
                  IF k = <<s, "ctl">> THEN [state |-> "data", age |-> 0] ELSE newest[k]]
  /\ UNCHANGED <<hb, registered, queue, tombs, late, probeVars, tool, history>>

RegisterCounter(s, c) ==
  /\ phase[s] = "running" /\ ~late /\ c \notin registered[s]
  /\ registered' = [registered EXCEPT ![s] = @ \cup {c}]
  /\ registry' = [registry EXCEPT ![s] = @ \cup {c}] /\ hasRegistry' = TRUE
  /\ UNCHANGED <<phase, hb, queue, newest, tombs, late, probeVars, tool, history>>

\* kv8log_add and kv8log_log
Write(s, topic) ==
  /\ phase[s] = "running" /\ topic \in registered[s] \cup {"log"}
  /\ Send(s, topic, "data")
  /\ UNCHANGED <<phase, hb, registered, brokerVars, late, probeVars, tool, history>>

Stopping(s) == phase[s] \in {"stopping", "goodbye", "ended"}

\* HeartbeatThreadFunc: the test at the head of the loop, when the sleep is over or, within
\* 100 ms, when it was told to stop
HeartbeatWakes(s) ==
  /\ hb[s].at = "sleep" /\ (Stopping(s) \/ hb[s].slept = Interval)
  /\ hb' = [hb EXCEPT ![s] = [at |-> IF Stopping(s) THEN "exited" ELSE "beat", slept |-> 0]]
  /\ UNCHANGED <<phase, registered, queue, brokerVars, late, probeVars, tool, history>>

Beat(s) ==
  /\ hb[s].at = "beat"
  /\ Send(s, Heartbeat, "ALIVE")
  /\ hb' = [hb EXCEPT ![s] = [at |-> "sleep", slept |-> 0]]
  /\ UNCHANGED <<phase, registered, brokerVars, late, probeVars, tool, history>>

\* kv8log_close joins the control thread, destroys the topic handles and flushes; the
\* heartbeats go on. The facade never calls it: its programs end by Exit.
Close(s) ==
  /\ phase[s] = "running" /\ Go(s, "closing")
  /\ UNCHANGED <<hb, registered, queue, brokerVars, late, probeVars, tool, history>>

Flushed(s) == queue[s] = << >> \/ late

\* ~Kv8ProducerImpl: StopHeartbeat raises the flag
StopHeartbeat(s) ==
  /\ phase[s] = "closing" /\ Flushed(s) /\ Go(s, "stopping")
  /\ UNCHANGED <<hb, registered, queue, brokerVars, late, probeVars, tool, history>>

Joined(s) == hb[s].at = "exited"

\* ... joins the thread and says goodbye
SayGoodbye(s) ==
  /\ phase[s] = "stopping" /\ Joined(s) /\ Go(s, "goodbye")
  /\ Send(s, Heartbeat, "SHUTDOWN")
  /\ said' = said \cup {s}
  /\ UNCHANGED <<hb, registered, brokerVars, late, probeVars, tool, faults, wasLate, closed, spoilt>>

\* the flushes of StopHeartbeat and of the destructor are over; the rest of the queue is lost
DestroyProducer(s) ==
  /\ phase[s] = "goodbye" /\ Flushed(s) /\ Go(s, "ended")
  /\ queue' = [queue EXCEPT ![s] = << >>]
  /\ UNCHANGED <<hb, registered, brokerVars, late, probeVars, tool, history>>

\* the process ends otherwise: main returns from a program of the facade, or it crashes
Exit(s) ==
  /\ phase[s] \in {"open", "running", "closing", "stopping", "goodbye"} /\ Go(s, "died")
  /\ queue' = [queue EXCEPT ![s] = << >>] /\ hb' = [hb EXCEPT ![s] = [at |-> "none", slept |-> 0]]
  /\ UNCHANGED <<registered, brokerVars, late, probeVars, tool, history>>

\* librdkafka, idempotent: in the order produced, and the topic is there afterwards
Deliver(s) ==
  /\ queue[s] # << >> /\ ~late
  /\ LET r == Head(queue[s])
         key == <<s, r.topic>>
     IN  /\ newest' = [k \in DOMAIN newest \cup {key} |->
                         IF k = key THEN [state |-> r.state, age |-> r.age] ELSE newest[k]]
         /\ closed' = IF r.state = "SHUTDOWN" THEN closed \cup {s} ELSE closed
  /\ queue' = [queue EXCEPT ![s] = Tail(@)]
  /\ UNCHANGED <<phase, hb, registered, registry, tombs, hasRegistry, late, probeVars, tool,
                 faults, wasLate, said, spoilt>>

BrokerLate ==
  /\ ~late /\ Fault /\ late' = TRUE /\ wasLate' = TRUE
  /\ UNCHANGED <<programVars, brokerVars, probeVars, tool, said, closed, spoilt>>

BrokerBack ==
  /\ late /\ late' = FALSE
  /\ UNCHANGED <<programVars, brokerVars, probeVars, tool, history>>

-----------------------------------------------------------------------------
(* Time.                                                                   *)

Older(age) == IF age < MaxAge THEN age + 1 ELSE age
Aged(r) == [r EXCEPT !.age = Older(@)]

\* A thread wakes on time, a record is stored in time, a probe comes to its end in time
OnTime ==
  /\ \A s \in Sessions : hb[s].at # "beat" /\ ~(hb[s].at = "sleep" /\ hb[s].slept = Interval)
  /\ \A s \in Sessions : ~late => \A i \in DOMAIN queue[s] : queue[s][i].age < MaxDelay
  /\ \A p \in Probers : probe[p].elapsed < ProbeTicks

\* Nobody looks at the age of the log and the control topic.
Tick ==
  /\ OnTime
  /\ hb' = [s \in Sessions |-> IF hb[s].at = "sleep" THEN [hb[s] EXCEPT !.slept = @ + 1] ELSE hb[s]]
  /\ queue' = [s \in Sessions |-> [i \in DOMAIN queue[s] |-> Aged(queue[s][i])]]
  /\ newest' = [k \in DOMAIN newest |-> IF k[2] \in {"ctl", "log"} THEN newest[k]
                                       ELSE Aged(newest[k])]
  /\ probe' = [p \in Probers |->
       IF probe[p].at = "idle" THEN probe[p]
       ELSE [probe[p] EXCEPT !.elapsed = @ + 1,
                             !.record = IF @ = << >> THEN @ ELSE Aged(@)]]
  /\ UNCHANGED <<phase, registered, registry, tombs, hasRegistry, late, status, quick, tool, history>>

-----------------------------------------------------------------------------
(* The probes. kv8scope has ProbeSessionLiveness, kv8zoom QuickCheckLiveness. *)

\* a session of a scan of the registry
Listed(s) == registry[s] # {} /\ s \notin tombs

Topics(s) == {k[2] : k \in {t \in DOMAIN newest : t[1] = s}}

\* kv8scope takes the time here, "BEFORE any Kafka calls"
BeginProbe(p, s) ==
  /\ probe[p].at = "idle" /\ Listed(s)
  /\ probe' = [probe EXCEPT ![p] = [at |-> "query", session |-> s, elapsed |-> 0, record |-> << >>]]
  /\ UNCHANGED <<programVars, brokerVars, late, status, quick, tool, history>>

\* the first half of ReadLatestRecord: the record before the high watermark
QueryWatermark(p) ==
  /\ probe[p].at = "query"
  /\ LET key == <<probe[p].session, Heartbeat>>
     IN  \/ /\ key \in DOMAIN newest /\ Fine
            /\ probe' = [probe EXCEPT ![p].at = "read", ![p].record = newest[key]]
         \/ /\ IF key \in DOMAIN newest THEN Fault ELSE Fine
            /\ probe' = [probe EXCEPT ![p].at = "unread"]
  /\ UNCHANGED <<programVars, brokerVars, late, status, quick, tool, wasLate, said, closed, spoilt>>

\* the second half: it is not there any more, or the poll ends at its deadline
ReadFails(p) ==
  /\ probe[p].at = "read"
  /\ IF <<probe[p].session, Heartbeat>> \in DOMAIN newest THEN Fault ELSE Fine
  /\ probe' = [probe EXCEPT ![p].at = "unread", ![p].record = << >>]
  /\ UNCHANGED <<programVars, brokerVars, late, status, quick, tool, wasLate, said, closed, spoilt>>

HasRecord(p) == probe[p].at = "read" /\ <<probe[p].session, Heartbeat>> \in DOMAIN newest

\* plausible bug: the clock is read after the record
AgeAtTheEnd(age, elapsed) == age
\* ageMs = nowMs - ts
AgeMs(age, elapsed) == age - elapsed

\* plausible bug: the second threshold is forgotten
NeverOffline(age) == IF age < LiveAge THEN "Live" ELSE "GoingOffline"
ByAge(age) == IF age < LiveAge THEN "Live" ELSE IF age < DeadAge THEN "GoingOffline" ELSE "Offline"

Ends(p) == probe' = [probe EXCEPT ![p] = NoProbe]

ReadHeartbeat ==
  /\ HasRecord("scope") /\ Ends("scope")
  /\ LET r == probe["scope"].record
     IN  status' = [status EXCEPT ![probe["scope"].session] =
           [hb |-> TRUE, state |-> IF r.state = "SHUTDOWN" THEN "Historical"
                                   ELSE ByAge(AgeMs(r.age, probe["scope"].elapsed))]]
  /\ UNCHANGED <<programVars, brokerVars, late, quick, tool, history>>

\* the newest record of the data topics the scan listed
DataRecency ==
  /\ probe["scope"].at = "unread" /\ Ends("scope")
  /\ LET s == probe["scope"].session
         ages == {newest[<<s, c>>].age : c \in registry[s] \cap Topics(s)}
     IN  status' = [status EXCEPT ![s] =
           [hb |-> FALSE, state |-> IF ages = {} THEN "Offline"
                                    ELSE ByAge(AgeMs(Min(ages), probe["scope"].elapsed))]]
  /\ UNCHANGED <<programVars, brokerVars, late, quick, tool, history>>

QuickCheckLiveness ==
  /\ HasRecord("zoom") \/ probe["zoom"].at = "unread"
  /\ Ends("zoom")
  /\ LET r == probe["zoom"].record
     IN  quick' = [quick EXCEPT ![probe["zoom"].session] =
           IF r = << >> THEN "unread"
           ELSE IF r.state = "ALIVE" /\ r.age < QuickAge THEN "alive" ELSE "dead"]
  /\ UNCHANGED <<programVars, brokerVars, late, status, tool, history>>

-----------------------------------------------------------------------------
(* Deleting sessions. A tool works on a copy of the metadata, tool.list,   *)
(* from session to the counters known when it was made: kv8maint makes it  *)
(* anew before each menu, kv8scope keeps the row of the first scan that    *)
(* had the session (scalar counters never update it).                      *)

Busy(t) == tool[t].at \notin {"idle", "menu"}

Set(t, r) == tool' = [tool EXCEPT ![t] = r]

\* kv8maint: DiscoverSessions, at the start and before each menu
DiscoverSessions ==
  /\ tool["maint"].at = "idle" /\ \E s \in Sessions : Listed(s)
  /\ Set("maint", [Idle EXCEPT !.at = "menu",
       !.list = [s \in {r \in Sessions : Listed(r)} |-> registry[s] \cap Counters]])
  /\ UNCHANGED <<programVars, brokerVars, late, probeVars, history>>

\* ... Q, B, C and then N
Leave ==
  /\ tool["maint"].at = "menu" /\ Set("maint", Idle)
  /\ UNCHANGED <<programVars, brokerVars, late, probeVars, history>>

\* kv8scope: the rows of SessionDiscovery
Appeared(s) ==
  /\ ~Busy("scope") /\ Listed(s) /\ s \notin DOMAIN tool["scope"].list
  /\ Set("scope", [tool["scope"] EXCEPT !.at = "menu",
       !.list = [r \in DOMAIN @ \cup {s} |-> IF r = s THEN registry[s] \cap Counters ELSE @[r]]])
  /\ UNCHANGED <<programVars, brokerVars, late, probeVars, history>>

Without(list, S) == Restrict(list, DOMAIN list \ S)

Disappeared(s) ==
  /\ ~Busy("scope") /\ ~Listed(s) /\ s \in DOMAIN tool["scope"].list
  /\ Set("scope", [tool["scope"] EXCEPT !.list = Without(@, {s})])
  /\ UNCHANGED <<programVars, brokerVars, late, probeVars, history>>

\* one or more sessions, confirmed: kv8maint deletes topics first, kv8scope marks first
First == [maint |-> "topics", scope |-> "mark"]

ConfirmDelete(t, S) ==
  /\ tool[t].at = "menu" /\ S # {} /\ S \subseteq DOMAIN tool[t].list
  /\ Set(t, [tool[t] EXCEPT !.at = First[t], !.chosen = S])
  /\ UNCHANGED <<programVars, brokerVars, late, probeVars, history>>

\* in the order of the list
Current(t) == CHOOSE s \in tool[t].chosen : TRUE

\* after the second of the two steps: the next session, or the menu
TheNext(t) ==
  LET left == tool[t].chosen \ {Current(t)}
      list == IF t = "scope" THEN Without(tool[t].list, {Current(t)}) ELSE tool[t].list
  IN  IF left # {} THEN [tool[t] EXCEPT !.at = First[t], !.chosen = left, !.list = list]
      ELSE IF t = "maint" THEN Idle
      ELSE [tool[t] EXCEPT !.at = "menu", !.chosen = {}, !.list = list]

After(t, step) == IF step = First[t] THEN [tool[t] EXCEPT !.at = IF step = "mark" THEN "topics" ELSE "mark"]
                  ELSE TheNext(t)

\* plausible bug: the log topic is not in the list
DataAndControl(t) == tool[t].list[Current(t)] \cup {"ctl"}
\* all data topics of the copy, log and control; the heartbeat and the annotations stay
Doomed(t) == tool[t].list[Current(t)] \cup {"log", "ctl"}

\* one admin request, of which each topic may fail, or all of it
DeleteSessionTopics(t) ==
  /\ tool[t].at = "topics"
  /\ LET s == Current(t)
     IN  \E kept \in SUBSET (Doomed(t) \cap Topics(s)) :
           /\ IF kept = {} THEN Fine ELSE Fault
           /\ newest' = Without(newest, {<<s, x>> : x \in Doomed(t) \ kept})
           /\ spoilt' = IF kept # {} \/ ~Over(s) \/ tool[t].list[s] # registered[s]
                        THEN spoilt \cup {s} ELSE spoilt
  /\ Set(t, After(t, "topics"))
  /\ UNCHANGED <<programVars, registry, tombs, hasRegistry, late, probeVars, wasLate, said, closed>>

\* the tombstone; a failed delivery is reported on stderr only
MarkSessionDeleted(t) ==
  /\ tool[t].at = "mark"
  /\ \/ Fine /\ tombs' = tombs \cup {Current(t)} /\ hasRegistry' = TRUE
     \/ Fault /\ UNCHANGED <<tombs, hasRegistry>>
  /\ Set(t, After(t, "mark"))
  /\ UNCHANGED <<programVars, newest, registry, late, probeVars, wasLate, said, closed, spoilt>>

\* every topic of the channel: first the names
ListChannelTopics(t) ==
  /\ tool[t].at = "menu"
  /\ Set(t, [tool[t] EXCEPT !.at = "channel", !.topics = DOMAIN newest,
                            !.chosen = IF hasRegistry THEN {"_registry"} ELSE {}])
  /\ UNCHANGED <<programVars, brokerVars, late, probeVars, history>>

\* ... then one request for them all; the list is empty after it, the menu of kv8maint closed
DeleteChannel(t) ==
  /\ tool[t].at = "channel"
  /\ \/ /\ Fine
        /\ newest' = Without(newest, tool[t].topics)
        /\ IF tool[t].chosen = {} THEN UNCHANGED <<registry, tombs, hasRegistry>>
           ELSE registry' = [s \in Sessions |-> {}] /\ tombs' = {} /\ hasRegistry' = FALSE
        /\ spoilt' = spoilt \cup {s \in Sessions : ~Over(s) \/ \E x \in Topics(s) : <<s, x>> \notin tool[t].topics}
     \/ Fault /\ UNCHANGED <<brokerVars, spoilt>>
  /\ Set(t, Idle)
  /\ UNCHANGED <<programVars, late, probeVars, wasLate, said, closed>>

\* the tool is killed between two requests; kv8scope has marked the session already
Killed(t) ==
  /\ Busy(t) /\ Fault
  /\ Set(t, Idle)
  /\ spoilt' = IF t = "scope" /\ tool[t].at = "topics" THEN spoilt \cup {Current(t)} ELSE spoilt
  /\ UNCHANGED <<programVars, brokerVars, late, probeVars, wasLate, said, closed>>

-----------------------------------------------------------------------------
Program(s) ==
  \/ HeartbeatWakes(s) \/ Beat(s) \/ StopHeartbeat(s) \/ SayGoodbye(s) \/ DestroyProducer(s)
  \/ Deliver(s)

User(s) ==
  \/ Connect(s) \/ WriteSessionHeader(s) \/ Close(s) \/ Exit(s)
  \/ (\E c \in Counters : RegisterCounter(s, c)) \/ (\E x \in Counters \cup {"log"} : Write(s, x))

Probes ==
  \/ \E p \in Probers : QueryWatermark(p) \/ ReadFails(p) \/ \E s \in Sessions : BeginProbe(p, s)
  \/ ReadHeartbeat \/ DataRecency \/ QuickCheckLiveness

Deletions ==
  \/ DiscoverSessions \/ Leave \/ \E s \in Sessions : Appeared(s) \/ Disappeared(s)
  \/ \E t \in Tools :
       \/ DeleteSessionTopics(t) \/ MarkSessionDeleted(t) \/ ListChannelTopics(t) \/ DeleteChannel(t)
       \/ Killed(t) \/ \E S \in SUBSET Sessions : ConfirmDelete(t, S)

Next ==
  \/ \E s \in Sessions : Program(s) \/ User(s)
  \/ BrokerLate \/ BrokerBack \/ Tick \/ Probes \/ Deletions

Spec == Init /\ [][Next]_vars

-----------------------------------------------------------------------------
(* Properties.                                                             *)

\* "Taking nowMs after those calls would inflate the apparent age ... and could
\* incorrectly push a session from Live into GoingOffline" (SessionManager.cpp:52): with a
\* broker that stores records in time, a program that is still at work is never held for
\* going or gone by who has read its heartbeat, however long the reading took, and is
\* never taken for closed.
StatusHonest ==
  \A s \in Sessions :
    /\ Alive(s) /\ status[s].hb /\ ~wasLate => status[s].state = "Live"
    /\ Alive(s) /\ ~wasLate => quick[s] # "dead"
    /\ status[s].state = "Historical" => s \in said

\* As long as nobody deletes anything, a program that has ended is in the end held, by who
\* looks at all, for closed if its goodbye arrived and for crashed if not, whatever was lost
\* or late and whatever the probes read meanwhile; kv8zoom holds it for dead.
StatusSettles ==
  \A s \in Sessions :
    [](\A t \in Tools : tool[t] = Idle) /\ <>(phase[s] \in {"ended", "died"} /\ Listed(s)) =>
        <>[](/\ status[s].state \in {"Unknown", IF s \in closed THEN "Historical" ELSE "Offline"}
             /\ quick[s] # "alive")

\* "This will remove all Kafka topics for these sessions" (SessionListPanel.cpp): of a session
\* that is over and listed no more there is no counter, log or control topic, whoever
\* deleted it, in whatever order two tools did it at once, and wherever kv8maint was
\* killed. It says nothing of a session whose program still wrote when its topics were
\* deleted, of a copy older than a counter, of a request that failed, and of kv8scope
\* killed between the marker and the topics: there they do stay, and no list has them.
DeletionLeavesNothing ==
  \A s \in Sessions :
    Over(s) /\ ~Listed(s) /\ s \notin spoilt /\ (\A t \in Tools : ~Busy(t))
      => Topics(s) \subseteq {Heartbeat}

=============================================================================
