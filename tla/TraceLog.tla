------------------------------ MODULE TraceLog ------------------------------
(***************************************************************************)
(* The trace log from call site to log panel: threads of the instrumented  *)
(* process run KV8_LOG at their call sites (one cached hash per site), the *)
(* runtime registers a site on its first use and produces the record; the  *)
(* site goes to <channel>._registry and the record to <session>._log, two  *)
(* topics without a common order; kv8scope reads both into its LogStore.   *)
(***************************************************************************)
EXTENDS LogStore

CONSTANTS
  Threads,     \* threads of the instrumented process
  QueueMax,    \* queue.buffering.max.messages of the producer
  MaxCalls     \* bound: KV8_LOG calls of one thread

ASSUME TraceLogAssumption == QueueMax \in Nat /\ MaxCalls \in Nat

VARIABLES
  clock,       \* the wall clock, a member of Stamps
  cache,       \* sites whose s_kv8_site_ holds the hash
  seen,        \* log_sites_seen
  pc,          \* [Threads -> ...]
  fr,          \* [Threads -> [site, ts]]  the running call
  calls,       \* [Threads -> Nat]  calls begun (bound)
  regQ, logQ,  \* the producer's outbound queue, by topic
  regLog, logLog, \* the topics
  scope,       \* is a window of the session open
  regPos, logPos  \* offsets of its consumer

processVars == <<clock, cache, seen, pc, fr, calls>>
topicVars   == <<regQ, logQ, regLog, logLog>>
readerVars  == <<scope, regPos, logPos>>
vars == <<processVars, topicVars, readerVars, storeVars>>

Init ==
  /\ clock \in Stamps /\ \A ts \in Stamps : clock <= ts
  /\ cache = {} /\ seen = {}
  /\ pc = [t \in Threads |-> "idle"] /\ calls = [t \in Threads |-> 0]
  /\ fr \in [Threads -> [site : {CHOOSE s \in Sites : TRUE}, ts : {clock}]]
  /\ regQ = <<>> /\ logQ = <<>> /\ regLog = <<>> /\ logLog = <<>>
  /\ scope = FALSE /\ regPos = 0 /\ logPos = 0
  /\ StoreInit

Tick ==
  /\ clock + 1 \in Stamps /\ clock' = clock + 1
  /\ UNCHANGED <<cache, seen, pc, fr, calls, topicVars, readerVars, storeVars>>

Goto(t, label) == pc' = [pc EXCEPT ![t] = label]

\* the macro loads the static of its call site
CallSite(t, s) ==
  /\ pc[t] = "idle" /\ calls[t] < MaxCalls
  /\ calls' = [calls EXCEPT ![t] = @ + 1]
  /\ fr' = [fr EXCEPT ![t].site = s]
  /\ Goto(t, IF s \in cache THEN "log" ELSE "register")
  /\ UNCHANGED <<clock, cache, seen, topicVars, readerVars, storeVars>>

\* plausible bug: every racing thread takes itself for the first
AlwaysNew(s) == TRUE
NewSite(s) == s \notin seen

\* kv8log_register_log_site, under log_sites_mu: the first thread goes on to
\* write the record, the others return the hash at once
RegisterLogSite(t) ==
  /\ pc[t] = "register"
  /\ seen' = seen \cup {fr[t].site}
  /\ Goto(t, IF NewSite(fr[t].site) THEN "announce" ELSE "cache")
  /\ UNCHANGED <<clock, cache, fr, calls, topicVars, readerVars, storeVars>>

Room == Len(regQ) + Len(logQ) < QueueMax

\* rd_kafka_producev refuses the record when the queue is full
AnnounceSite(t) ==
  /\ pc[t] = "announce"
  /\ regQ' = IF Room THEN Append(regQ, fr[t].site) ELSE regQ
  /\ Goto(t, "cache")
  /\ UNCHANGED <<clock, cache, seen, fr, calls, logQ, regLog, logLog, readerVars, storeVars>>

CacheSite(t) ==
  /\ pc[t] = "cache"
  /\ cache' = cache \cup {fr[t].site}
  /\ Goto(t, "log")
  /\ UNCHANGED <<clock, seen, fr, calls, topicVars, readerVars, storeVars>>

WallNs == clock

\* kv8log_log reads the clock, then produces
StampRecord(t) ==
  /\ pc[t] = "log"
  /\ fr' = [fr EXCEPT ![t].ts = WallNs]
  /\ Goto(t, "produce")
  /\ UNCHANGED <<clock, cache, seen, calls, topicVars, readerVars, storeVars>>

ProduceRecord(t) ==
  /\ pc[t] = "produce"
  /\ logQ' = IF Room THEN Append(logQ, fr[t]) ELSE logQ
  /\ Goto(t, "idle")
  /\ UNCHANGED <<clock, cache, seen, fr, calls, regQ, regLog, logLog, readerVars, storeVars>>

DeliverSite ==
  /\ regQ # <<>>
  /\ regQ' = Tail(regQ) /\ regLog' = Append(regLog, Head(regQ))
  /\ UNCHANGED <<processVars, logQ, logLog, readerVars, storeVars>>

DeliverRecord ==
  /\ logQ # <<>>
  /\ logQ' = Tail(logQ) /\ logLog' = Append(logLog, Head(logQ))
  /\ UNCHANGED <<processVars, regQ, regLog, readerVars, storeVars>>

\* a window opens with the sites that the discovery scan read
OpenScope ==
  /\ ~scope /\ scope' = TRUE
  /\ \E n \in 0 .. Len(regLog) : SeedLogSites(ToSet(SubSeq(regLog, 1, n)))
  /\ UNCHANGED <<processVars, topicVars, regPos, logPos>>

\* the consumer reads both topics from the beginning
ConsumeSite ==
  /\ scope /\ regPos < Len(regLog)
  /\ PushLogSite(regLog[regPos + 1])
  /\ regPos' = regPos + 1
  /\ UNCHANGED <<processVars, topicVars, scope, logPos>>

ConsumeRecord ==
  /\ scope /\ logPos < Len(logLog)
  /\ PushLogRecord(logLog[logPos + 1].ts, logLog[logPos + 1].site)
  /\ logPos' = logPos + 1
  /\ UNCHANGED <<processVars, topicVars, scope, regPos>>

RenderFrame ==
  /\ scope /\ DrainPending
  /\ UNCHANGED <<processVars, topicVars, readerVars>>

Step(t) ==
  RegisterLogSite(t) \/ AnnounceSite(t) \/ CacheSite(t) \/ StampRecord(t) \/ ProduceRecord(t)

Next ==
  \/ Tick
  \/ \E t \in Threads : (\E s \in Sites : CallSite(t, s)) \/ Step(t)
  \/ DeliverSite \/ DeliverRecord
  \/ OpenScope \/ ConsumeSite \/ ConsumeRecord \/ RenderFrame

Spec == Init /\ [][Next]_vars

-----------------------------------------------------------------------------
(* Properties.                                                             *)

\* Types of the process and the topics.
TypeOK ==
  /\ clock \in Stamps /\ cache \subseteq seen /\ seen \subseteq Sites
  /\ pc \in [Threads -> {"idle", "register", "announce", "cache", "log", "produce"}]
  /\ fr \in [Threads -> [site : Sites, ts : Stamps]]
  /\ calls \in [Threads -> 0 .. MaxCalls]
  /\ regQ \in Seq(Sites) /\ regLog \in Seq(Sites)
  /\ scope \in BOOLEAN /\ regPos \in 0 .. Len(regLog) /\ logPos \in 0 .. Len(logLog)
  /\ StoreTypeOK

Settled ==
  /\ scope /\ \A t \in Threads : pc[t] = "idle"
  /\ regQ = <<>> /\ logQ = <<>> /\ regPos = Len(regLog) /\ logPos = Len(logLog)
  /\ pendingEntries = <<>> /\ pendingSites = <<>>

\* "Slow path -- called at most once per call site per process run"
\* (kv8log_impl.cpp:895): however the first calls of a site race, the registry
\* holds at most one record of it. Every record pushed to the store is shown or
\* pending, once; and in the end "every record's site is resolved"
\* (KV8SCOPE_USER_GUIDE.md:498): a record that overtakes the descriptor of its
\* site is not left with a placeholder.
LogComplete ==
  /\ IsInjective(regLog \o regQ)
  /\ EveryRecordOnce
  /\ Settled => \A i \in DOMAIN entries : entries[i].resolved

=============================================================================
