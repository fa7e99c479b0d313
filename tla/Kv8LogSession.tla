--------------------------- MODULE Kv8LogSession ---------------------------
(***************************************************************************)
(* One kv8log session inside an instrumented process: the C++ facade       *)
(* (Counter, UdtFeed, Channel with their std::call_once flags), the        *)
(* runtime library (kv8log_open, kv8log_register_counter,                  *)
(* kv8log_register_udt_feed, kv8log_add*, kv8log_set_counter_enabled), its *)
(* control consumer thread, the outbound queue of the Kafka producer and   *)
(* the three kinds of topics it writes: <channel>._registry, <session>._ctl*)
(* and one data topic per counter.                                         *)
(*                                                                         *)
(* A topic is a pair of sequences: the messages still in the producer's    *)
(* outbound queue (xxxQ) and the messages the broker stores (xxxLog).      *)
(* librdkafka keeps the order of one topic and none between topics.        *)
(* Payload values, timestamps, names and ranges are left out: no property  *)
(* below distinguishes them.                                               *)
(***************************************************************************)
EXTENDS Naturals, Sequences, FiniteSets, FiniteSetsExt

CONSTANTS
  Threads,      \* application threads that use the facade
  Counters,     \* static Counter and UdtFeed objects of the program
  UdtFeeds,     \* those of them that are UdtFeed objects
  Capacity,     \* 1024 in the code: reserved slots and size of aEnabled[]
  QueueMax,     \* queue.buffering.max.messages of the producer
  Faults,       \* which environment faults may happen
  MaxSlots,     \* bound: slots ever pushed to the counters vector
  MaxCalls,     \* bound: facade calls made by one thread
  MaxRemote     \* bound: ctr_state commands sent by kv8scope

FaultKinds == {"flush_timeout", "queue_full"}

ASSUME KAssumption ==
  /\ Counters # {} /\ UdtFeeds \subseteq Counters
  /\ Capacity \in Nat \ {0}
  /\ QueueMax \in Nat
  /\ Faults \subseteq FaultKinds
  /\ MaxSlots \in Nat \ {0}
  /\ MaxCalls \in Nat
  /\ MaxRemote \in Nat

Ids   == 0 .. MaxSlots - 1
Flags == 0 .. Capacity - 1
NoId  == MaxSlots           \* m_id before registration (0xFFFF in the code)
FieldId == MaxSlots + 1     \* kv8scope's id of a UDT field: 0x1000 + ..., never a slot

RegRecord  == [kind : {"LOG", "GROUP", "SCHEMA", "COUNTER", "FEED"}, id : Ids \cup {NoId}]
CtlRecord  == [kind : {"tombstone", "session_open", "ctr_state"},
               wid : Ids \cup {NoId, FieldId}, enabled : BOOLEAN]

VARIABLES
  once,      \* [Counters -> ...]  std::once_flag m_reg_once of each object
  cid,       \* [Counters -> ...]  m_id (NoId: m_fn_add / m_cached_handle unset)
  chan,      \* std::once_flag and m_handle of the Channel
  countersMu,\* Kv8LogSession::counters_mu: the set of threads inside it
  nextId,    \* Kv8LogSession::next_id = counters.size()
  rkt,       \* [Ids -> BOOLEAN]   CounterSlot::rkt # nullptr
  seq,       \* [Ids -> Nat]       CounterSlot::seq
  aEnabled,  \* [Flags -> BOOLEAN] Kv8LogSession::aEnabled
  pc,        \* [Threads -> ...]   where each application thread is
  fr,        \* [Threads -> ...]   its stack frame: the object, the call, id, wSeqN
  calls,     \* [Threads -> Nat]   calls made so far (bound)
  ctlThread, \* is RunCtlConsumerThread running
  ctlPos,    \* records of ctlLog the control thread has consumed
  remote,    \* ctr_state commands kv8scope has sent (bound)
  regQ, regLog, ctlQ, ctlLog, dataQ, dataLog

facadeVars  == <<once, cid, chan>>
sessionVars == <<countersMu, nextId, rkt, seq, aEnabled>>
threadVars  == <<pc, fr, calls>>
ctlVars     == <<ctlThread, ctlPos, remote>>
regVars     == <<regQ, regLog>>
ctlTopic    == <<ctlQ, ctlLog>>
dataVars    == <<dataQ, dataLog>>
vars == <<facadeVars, sessionVars, threadVars, ctlVars, regVars, ctlTopic, dataVars>>

Frame == [obj : Counters, call : {"add", "enable", "disable"},
          id : Ids \cup {NoId}, sn : Nat]

EmptyFrame == [obj |-> CHOOSE c \in Counters : TRUE, call |-> "add", id |-> NoId, sn |-> 0]

PcValues ==
  {"idle", "handle", "open_ctl", "open_flush1", "open_log", "open_group",
   "open_flush2", "open_marker", "open_flush3", "reg_lock", "reg_push", "reg_schema",
   "reg_record", "reg_rkt", "reg_flush", "body", "add_seq", "add_produce",
   "set_produce"}

-----------------------------------------------------------------------------
(* The producer: Kv8ProducerImpl::Produce, ProduceToTopic and Flush.       *)

Outstanding ==
  Len(regQ) + Len(ctlQ) + MapThenSumSet(LAMBDA i : Len(dataQ[i]), Ids)

QueueFull == "queue_full" \in Faults /\ Outstanding >= QueueMax

\* rd_kafka_producev fails only on a full queue; every caller ignores that
Enqueue(q, rec) == IF QueueFull THEN q ELSE Append(q, rec)

OutqEmpty == regQ = <<>> /\ ctlQ = <<>> /\ \A i \in Ids : dataQ[i] = <<>>

\* a plausible bug: the flush does not wait for the outbound queue
FlushReturnsAtOnce == TRUE

\* rd_kafka_flush returns when the outbound queue is empty or its time is up
FlushReturns == OutqEmpty \/ "flush_timeout" \in Faults

-----------------------------------------------------------------------------
(* Application threads.                                                    *)

Goto(t, from, to) == pc[t] = from /\ pc' = [pc EXCEPT ![t] = to]

\* Counter::Add / Enable / Disable up to the call_once of EnsureRegistered:
\* a thread that finds the flag "running" waits, which is not calling yet.
CallFacade(t, c, call) ==
  /\ calls[t] < MaxCalls
  /\ once[c] # "running"
  /\ Goto(t, "idle", IF once[c] = "new" THEN "handle" ELSE "body")
  /\ once' = [once EXCEPT ![c] = IF @ = "new" THEN "running" ELSE @]
  /\ fr' = [fr EXCEPT ![t] = [obj |-> c, call |-> call, id |-> NoId, sn |-> 0]]
  /\ calls' = [calls EXCEPT ![t] = @ + 1]
  /\ UNCHANGED <<cid, chan, sessionVars, ctlVars, regVars, ctlTopic, dataVars>>

\* Channel::Handle: the first caller opens the session, the others wait for it
ChannelHandle(t) ==
  /\ chan # "opening"
  /\ Goto(t, "handle", IF chan = "new" THEN "open_ctl" ELSE "reg_lock")
  /\ chan' = IF chan = "new" THEN "opening" ELSE chan
  /\ UNCHANGED <<once, cid, sessionVars, fr, calls, ctlVars, regVars, ctlTopic, dataVars>>

\* kv8log_open / WriteSessionHeader: the records of the session, in order
OpenCtlTopic(t) ==
  /\ Goto(t, "open_ctl", "open_flush1")
  /\ ctlQ' = Enqueue(ctlQ, [kind |-> "tombstone", wid |-> NoId, enabled |-> TRUE])
  /\ UNCHANGED <<facadeVars, sessionVars, fr, calls, ctlVars, regVars, ctlLog, dataVars>>

OpenAnnounce(t) ==
  /\ \/ /\ Goto(t, "open_log", "open_group")
        /\ regQ' = Enqueue(regQ, [kind |-> "LOG", id |-> NoId])
     \/ /\ Goto(t, "open_group", "open_flush2")
        /\ regQ' = Enqueue(regQ, [kind |-> "GROUP", id |-> NoId])
  /\ UNCHANGED <<facadeVars, sessionVars, fr, calls, ctlVars, regLog, ctlTopic, dataVars>>

OpenMarker(t) ==
  /\ Goto(t, "open_marker", "open_flush3")
  /\ ctlQ' = Enqueue(ctlQ, [kind |-> "session_open", wid |-> NoId, enabled |-> TRUE])
  /\ UNCHANGED <<facadeVars, sessionVars, fr, calls, ctlVars, regVars, ctlLog, dataVars>>

OpenFlush(t) ==
  /\ FlushReturns
  /\ \/ Goto(t, "open_flush1", "open_log")
     \/ Goto(t, "open_flush2", "open_marker")
  /\ UNCHANGED <<facadeVars, sessionVars, fr, calls, ctlVars, regVars, ctlTopic, dataVars>>

\* the last flush, then the control thread is started and Handle() returns
OpenFinish(t) ==
  /\ FlushReturns
  /\ Goto(t, "open_flush3", "reg_lock")
  /\ chan' = "open"
  /\ ctlThread' = TRUE
  /\ UNCHANGED <<once, cid, sessionVars, fr, calls, ctlPos, remote, regVars, ctlTopic, dataVars>>

\* a plausible bug: the lock_guard of phase 1 is gone
NoLock == TRUE

\* counters_mu can be locked
MutexFree == countersMu = {}

\* a plausible bug: an early return that leaves counters_mu locked
StillLocked(t) == countersMu

\* the lock_guard of phase 1 goes out of scope
Unlocked(t) == countersMu \ {t}

\* Phase 1 of kv8log_register_counter and kv8log_register_udt_feed: lock
\* counters_mu and peek at next_id ...
RegisterLock(t) ==
  /\ MutexFree
  /\ nextId < MaxSlots
  /\ Goto(t, "reg_lock", "reg_push")
  /\ countersMu' = countersMu \cup {t}
  /\ fr' = [fr EXCEPT ![t].id = nextId]
  /\ UNCHANGED <<facadeVars, nextId, rkt, seq, aEnabled, calls, ctlVars, regVars, ctlTopic, dataVars>>

\* the guard "id >= 1024" of kv8log_register_udt_feed
IdSpaceExhausted(id) == id >= Capacity

\* ... push the slot, publish next_id + 1 and unlock. Only the UDT variant
\* refuses an id outside the reserved slots (returns -2).
RegisterPush(t) ==
  LET c == fr[t].obj
      refused == c \in UdtFeeds /\ IdSpaceExhausted(fr[t].id)
  IN
  /\ Goto(t, "reg_push", IF refused THEN "body"
                         ELSE IF c \in UdtFeeds THEN "reg_schema" ELSE "reg_record")
  /\ once' = [once EXCEPT ![c] = IF refused THEN "done" ELSE @]
  /\ nextId' = IF refused THEN nextId ELSE nextId + 1
  /\ countersMu' = Unlocked(t)
  /\ UNCHANGED <<cid, chan, rkt, seq, aEnabled, fr, calls, ctlVars, regVars, ctlTopic, dataVars>>

\* the record of a UDT feed carries KV8_FLAG_UDT
CounterKind(c) == IF c \in UdtFeeds THEN "FEED" ELSE "COUNTER"

\* Phase 2: the registry records (a UDT feed writes its schema first)
RegisterRecord(t) ==
  /\ \/ /\ Goto(t, "reg_schema", "reg_record")
        /\ regQ' = Enqueue(regQ, [kind |-> "SCHEMA", id |-> fr[t].id])
     \/ /\ Goto(t, "reg_record", "reg_rkt")
        /\ regQ' = Enqueue(regQ, [kind |-> CounterKind(fr[t].obj), id |-> fr[t].id])
  /\ UNCHANGED <<facadeVars, sessionVars, fr, calls, ctlVars, regLog, ctlTopic, dataVars>>

\* Phase 3: the topic handle of the hot path
RegisterTopic(t) ==
  /\ Goto(t, "reg_rkt", "reg_flush")
  /\ rkt' = [rkt EXCEPT ![fr[t].id] = TRUE]
  /\ UNCHANGED <<facadeVars, countersMu, nextId, seq, aEnabled, fr, calls, ctlVars, regVars, ctlTopic, dataVars>>

\* Phase 4: Flush(2000); then EnsureRegistered caches id, handle and functions
RegisterFlush(t) ==
  /\ FlushReturns
  /\ Goto(t, "reg_flush", "body")
  /\ cid'  = [cid EXCEPT ![fr[t].obj] = fr[t].id]
  /\ once' = [once EXCEPT ![fr[t].obj] = "done"]
  /\ UNCHANGED <<chan, sessionVars, fr, calls, ctlVars, regVars, ctlTopic, dataVars>>

\* The call proper has nothing to do: the object was never registered, or the
\* id is out of bounds, or (add only) the counter is disabled. The flag of a
\* slot beyond aEnabled[] is whatever memory holds.
SkipBody(t) ==
  LET id == cid[fr[t].obj] IN
  /\ Goto(t, "body", "idle")
  /\ \/ id = NoId
     \/ id >= nextId
     \/ fr[t].call = "add" /\ (id \in Flags => ~aEnabled[id])
  /\ fr' = [fr EXCEPT ![t] = EmptyFrame]
  /\ UNCHANGED <<facadeVars, sessionVars, calls, ctlVars, regVars, ctlTopic, dataVars>>

\* kv8log_add / add_ts / add_udt / add_udt_ts up to the load of aEnabled
AddCheck(t) ==
  LET id == cid[fr[t].obj] IN
  /\ fr[t].call = "add"
  /\ id < nextId
  /\ id \in Flags => aEnabled[id]
  /\ Goto(t, "body", "add_seq")
  /\ fr' = [fr EXCEPT ![t].id = id]
  /\ UNCHANGED <<facadeVars, sessionVars, calls, ctlVars, regVars, ctlTopic, dataVars>>

\* a plausible bug: the counter of the slot is read and not incremented
SameSeq(id) == seq[id]

\* what seq.fetch_add(1) leaves in the slot
NextSeq(id) == seq[id] + 1

AddSeq(t) ==
  LET id == fr[t].id IN
  /\ Goto(t, "add_seq", "add_produce")
  /\ fr' = [fr EXCEPT ![t].sn = seq[id]]
  /\ seq' = [seq EXCEPT ![id] = NextSeq(id)]
  /\ UNCHANGED <<facadeVars, countersMu, nextId, rkt, aEnabled, calls, ctlVars, regVars, ctlTopic, dataVars>>

\* ProduceToTopic drops the sample silently when the slot has no handle yet
AddProduce(t) ==
  LET id == fr[t].id IN
  /\ Goto(t, "add_produce", "idle")
  /\ dataQ' = IF rkt[id] THEN [dataQ EXCEPT ![id] = Enqueue(@, fr[t].sn)] ELSE dataQ
  /\ fr' = [fr EXCEPT ![t] = EmptyFrame]
  /\ UNCHANGED <<facadeVars, sessionVars, calls, ctlVars, regVars, ctlTopic, dataLog>>

StoreEnabled(id, b) ==
  aEnabled' = IF id \in Flags THEN [aEnabled EXCEPT ![id] = b] ELSE aEnabled

\* kv8log_set_counter_enabled: first the flag ...
SetStore(t) ==
  LET id == cid[fr[t].obj] IN
  /\ fr[t].call # "add"
  /\ id < nextId
  /\ Goto(t, "body", "set_produce")
  /\ fr' = [fr EXCEPT ![t].id = id]
  /\ StoreEnabled(id, fr[t].call = "enable")
  /\ UNCHANGED <<facadeVars, countersMu, nextId, rkt, seq, calls, ctlVars, regVars, ctlTopic, dataVars>>

\* ... then the ctr_state command, which the process's own thread reads back
SetProduce(t) ==
  /\ Goto(t, "set_produce", "idle")
  /\ ctlQ' = Enqueue(ctlQ, [kind |-> "ctr_state", wid |-> fr[t].id,
                            enabled |-> fr[t].call = "enable"])
  /\ fr' = [fr EXCEPT ![t] = EmptyFrame]
  /\ UNCHANGED <<facadeVars, sessionVars, calls, ctlVars, regVars, ctlLog, dataVars>>

-----------------------------------------------------------------------------
(* The control consumer thread, kv8scope, and the broker.                  *)

\* plausible bugs: an off-by-one in the bounds check of the control thread,
\* and a control thread that parses no command at all
CtlOffByOne(rec) == rec.kind = "ctr_state" /\ rec.wid + 1 < nextId
CtlIgnores(rec) == FALSE

\* the test of the Poll callback: ParseCtlMsg succeeds and the id is known
CtlApplies(rec) == rec.kind = "ctr_state" /\ rec.wid < nextId

\* the consumer position after a record was dispatched
NextOffset(pos) == pos + 1

\* one Poll callback of RunCtlConsumerThread, from offset 0 on
CtlPoll ==
  /\ ctlThread
  /\ ctlPos < Len(ctlLog)
  /\ ctlPos' = NextOffset(ctlPos)
  /\ LET rec == ctlLog[ctlPos + 1]
     IN  IF CtlApplies(rec) THEN StoreEnabled(rec.wid, rec.enabled) ELSE UNCHANGED aEnabled
  /\ UNCHANGED <<facadeVars, countersMu, nextId, rkt, seq, threadVars, ctlThread, remote, regVars, ctlTopic, dataVars>>

\* the registry topic holds the record of a counter
IsCounterRecord(rec, id) == rec.kind \in {"COUNTER", "FEED"} /\ rec.id = id
Discoverable(id) == \E i \in 1 .. Len(regLog) : IsCounterRecord(regLog[i], id)

\* a plausible bug: kv8scope sends commands for counters it has not read about
AnyIdToggled(wid) == TRUE

\* kv8scope shows an E checkbox for a scalar counter, under its own id, and
\* for the fields of a feed whose schema it has, under an id it made up
CanToggle(wid) ==
  \E i \in 1 .. Len(regLog) :
    \/ regLog[i] = [kind |-> "COUNTER", id |-> wid]
    \/ /\ wid = FieldId /\ regLog[i].kind = "FEED"
       /\ \E j \in 1 .. i - 1 : regLog[j] = [kind |-> "SCHEMA", id |-> regLog[i].id]

\* kv8scope has read the registry record of a counter and its user toggles it
RemoteToggle(wid, b) ==
  /\ remote < MaxRemote
  /\ CanToggle(wid)
  /\ remote' = remote + 1
  /\ ctlLog' = Append(ctlLog, [kind |-> "ctr_state", wid |-> wid, enabled |-> b])
  /\ UNCHANGED <<facadeVars, sessionVars, threadVars, ctlThread, ctlPos, regVars, ctlQ, dataVars>>

\* the broker acknowledges the oldest message of one topic
Deliver ==
  /\ \/ /\ regQ # <<>>
        /\ regQ' = Tail(regQ) /\ regLog' = Append(regLog, Head(regQ))
        /\ UNCHANGED <<ctlTopic, dataVars>>
     \/ /\ ctlQ # <<>>
        /\ ctlQ' = Tail(ctlQ) /\ ctlLog' = Append(ctlLog, Head(ctlQ))
        /\ UNCHANGED <<regVars, dataVars>>
     \/ \E i \in Ids :
          /\ dataQ[i] # <<>>
          /\ dataQ'   = [dataQ EXCEPT ![i] = Tail(@)]
          /\ dataLog' = [dataLog EXCEPT ![i] = Append(@, Head(dataQ[i]))]
          /\ UNCHANGED <<regVars, ctlTopic>>
  /\ UNCHANGED <<facadeVars, sessionVars, threadVars, ctlVars>>

-----------------------------------------------------------------------------
Init ==
  /\ once = [c \in Counters |-> "new"]
  /\ cid  = [c \in Counters |-> NoId]
  /\ chan = "new"
  /\ countersMu = {}
  /\ nextId = 0
  /\ rkt = [i \in Ids |-> FALSE]
  /\ seq = [i \in Ids |-> 0]
  /\ aEnabled = [i \in Flags |-> TRUE]
  /\ pc = [t \in Threads |-> "idle"]
  /\ fr = [t \in Threads |-> EmptyFrame]
  /\ calls = [t \in Threads |-> 0]
  /\ ctlThread = FALSE
  /\ ctlPos = 0
  /\ remote = 0
  /\ regQ = <<>> /\ regLog = <<>>
  /\ ctlQ = <<>> /\ ctlLog = <<>>
  /\ dataQ = [i \in Ids |-> <<>>] /\ dataLog = [i \in Ids |-> <<>>]

OpenStep(t) == ChannelHandle(t) \/ OpenCtlTopic(t) \/ OpenAnnounce(t) \/ OpenMarker(t)
               \/ OpenFlush(t) \/ OpenFinish(t)
RegisterStep(t) == RegisterLock(t) \/ RegisterPush(t) \/ RegisterRecord(t) \/ RegisterTopic(t) \/ RegisterFlush(t)
BodyStep(t) == SkipBody(t) \/ AddCheck(t) \/ AddSeq(t) \/ AddProduce(t) \/ SetStore(t) \/ SetProduce(t)

\* what a thread does once it has entered a call
InCall(t) == OpenStep(t) \/ RegisterStep(t) \/ BodyStep(t)

\* every call of the bounded program has returned and all is consumed
Finished ==
  /\ \A t \in Threads : pc[t] = "idle" /\ calls[t] = MaxCalls
  /\ OutqEmpty
  /\ ctlThread => ctlPos = Len(ctlLog)
  /\ UNCHANGED vars

Next ==
  \/ \E t \in Threads :
       \/ \E c \in Counters, call \in {"add", "enable", "disable"} : CallFacade(t, c, call)
       \/ InCall(t)
  \/ CtlPoll
  \/ \E wid \in Ids \cup {FieldId}, b \in BOOLEAN : RemoteToggle(wid, b)
  \/ Deliver
  \/ Finished

Spec == Init /\ [][Next]_vars

\* A thread inside a call keeps running, librdkafka keeps sending and the
\* control thread keeps polling; nobody is obliged to make another call.
Fairness ==
  /\ \A t \in Threads : WF_vars(InCall(t))
  /\ WF_vars(Deliver)
  /\ WF_vars(CtlPoll)

FairSpec == Spec /\ Fairness

-----------------------------------------------------------------------------
(* Properties.                                                             *)

\* Every variable has the type its C++ declaration gives it.
TypeOK ==
  /\ once \in [Counters -> {"new", "running", "done"}]
  /\ cid \in [Counters -> Ids \cup {NoId}]
  /\ chan \in {"new", "opening", "open"}
  /\ countersMu \in SUBSET Threads
  /\ nextId \in 0 .. MaxSlots
  /\ rkt \in [Ids -> BOOLEAN]
  /\ seq \in [Ids -> Nat]
  /\ aEnabled \in [Flags -> BOOLEAN]
  /\ pc \in [Threads -> PcValues]
  /\ fr \in [Threads -> Frame]
  /\ calls \in [Threads -> Nat]
  /\ ctlThread \in BOOLEAN
  /\ ctlPos \in Nat /\ ctlPos <= Len(ctlLog)
  /\ remote \in Nat
  /\ regQ \in Seq(RegRecord) /\ regLog \in Seq(RegRecord)
  /\ ctlQ \in Seq(CtlRecord) /\ ctlLog \in Seq(CtlRecord)
  /\ dataQ \in [Ids -> Seq(Nat)] /\ dataLog \in [Ids -> Seq(Nat)]

\* "Write registry record so kv8scope can discover the counter before any
\* data samples arrive" (kv8log_impl.cpp:630): a data topic with a sample,
\* stored or on its way, belongs to a counter whose record is stored.
RegistryFirst ==
  \A id \in Ids : (dataLog[id] # <<>> \/ dataQ[id] # <<>>) => Discoverable(id)

\* ... which holds as long as no flush times out and no message is dropped:
\* it depends on the order of the four phases, on the final flush and on the
\* call_once that keeps other threads out until it has returned.
DiscoverableBeforeData == Faults = {} => RegistryFirst

\* kv8scope finds the session by its registry records and then subscribes to
\* ._ctl, which must exist by then (kv8log_impl.cpp:355-359).
CtlTopicBeforeAnnouncement == Faults = {} /\ regLog # <<>> => ctlLog # <<>>

\* Every ctr_state command on ._ctl that names a slot names one that next_id
\* has already published, whoever sent it: the control thread discards no
\* command because it came too early.
CommandsNameKnownCounters ==
  \A i \in 1 .. Len(ctlLog) :
    ctlLog[i].kind = "ctr_state" => ctlLog[i].wid = FieldId \/ ctlLog[i].wid < nextId

\* Two facade objects never share a slot, not even while they register: their
\* samples would be mixed in one data topic under one name.
Registering(t) == pc[t] \in {"reg_push", "reg_schema", "reg_record", "reg_rkt", "reg_flush"}
SlotsNotShared ==
  /\ \A c, d \in Counters : c # d /\ cid[c] = cid[d] => cid[c] = NoId
  /\ \A t, u \in Threads : t # u /\ Registering(t) /\ Registering(u) => fr[t].id # fr[u].id
  /\ \A t \in Threads, c \in Counters : Registering(t) => cid[c] # fr[t].id

\* Every number taken from CounterSlot::seq is in exactly one place: with the
\* thread that took it, in the outbound queue, or in the data topic. A gap
\* that kv8verify reports therefore means a sample the queue refused.
Holders(id) == {t \in Threads : pc[t] = "add_produce" /\ fr[t].id = id}
SamplesAccounted ==
  "queue_full" \notin Faults =>
    \A id \in Ids :
      LET sent == dataLog[id] \o dataQ[id]
          held == Holders(id)
      IN  /\ {sent[i] : i \in 1 .. Len(sent)} \cup {fr[t].sn : t \in held} = 0 .. seq[id] - 1
          /\ Len(sent) + Cardinality(held) = seq[id]

\* A command for id that the control thread has still to read, or that a
\* thread which has already stored the flag has still to write.
IsCommand(rec, id) == rec.kind = "ctr_state" /\ rec.wid = id
Pending(id) ==
  \/ \E i \in 1 .. Len(ctlLog) : i > ctlPos /\ IsCommand(ctlLog[i], id)
  \/ \E i \in 1 .. Len(ctlQ) : IsCommand(ctlQ[i], id)
  \/ \E t \in Threads : pc[t] = "set_produce" /\ fr[t].id = id

\* The flag equals the last command for id on ._ctl (none: enabled).
InSync(id) ==
  /\ (\A i \in 1 .. Len(ctlLog) : ~IsCommand(ctlLog[i], id)) => aEnabled[id]
  /\ \A i \in 1 .. Len(ctlLog) :
       IsCommand(ctlLog[i], id)
       /\ (\A j \in 1 .. Len(ctlLog) : j > i => ~IsCommand(ctlLog[j], id))
       => aEnabled[id] = ctlLog[i].enabled

\* Local setters, remote commands and the echo of the process's own commands
\* race, yet whenever nothing is pending for a counter its flag is what the
\* ._ctl topic, and so kv8scope, says (kv8log_impl.cpp:576).
EnabledAgreesWithCtl ==
  "queue_full" \notin Faults => \A id \in Ids \cap Flags : InSync(id) \/ Pending(id)

\* No call of the facade blocks for ever: the nested call_once flags, the
\* mutex and the flushes never wait for one another in a circle.
CallsReturn == \A t \in Threads : (pc[t] # "idle") ~> (pc[t] = "idle")

\* In the end the flags and the ._ctl topic agree for good.
EnabledSettles == <>[](\A id \in Ids \cap Flags : InSync(id))

\* kv8log_impl.cpp:509-512 and 599: "push_back never reallocates".
NeverReallocates == nextId <= Capacity

=============================================================================
