------------------------------ MODULE BenchRun ------------------------------
(***************************************************************************)
(* A run of kv8bench: the main thread produces numbered samples while a    *)
(* consumer thread reads them back. Main looks whether the topic is empty, *)
(* which may be one of an earlier run, warms the consumer up with one      *)
(* sentinel, asks it to reset its counters, produces, waits for it to      *)
(* catch up, stops and joins it, and then reads the topic a second time    *)
(* from its beginning for the verdict. The run with scalars and the one    *)
(* with UDT samples do so in the same steps, except that the second tells  *)
(* the consumer to stop before it waits for it. The 30 s for the warm-up,  *)
(* the 50 ms for the reset, the 60 s for the flush, the stall and deadline *)
(* of the wait and the 2 s of the last drain may all run out early.        *)
(***************************************************************************)
EXTENDS Integers, Sequences, SequencesExt, FiniteSets

CONSTANTS
  Count,      \* nCountArg of a run by count
  Capacity,   \* nSeqCapacity of a run by duration
  MaxSent,    \* bound: samples sent in a run by duration
  QueueMax,   \* messages in the outbound queue of the producer
  MaxFaults   \* bound: messages lost or repeated, assignments lost, queries unanswered

Sentinel == -1        \* nSeq UINT64_MAX, or tSendWallMs 0: out of the range of every run

VARIABLES
  mode, byCount,      \* "scalar" or "udt"; --count or --duration
  pc, sent, total,    \* main: gSent, nTotalSent
  recv, stop, reset,  \* gRecv, gConsumerStop, gResetCounters
  cpc, local, empties, \* the consumer thread: nLocalRecv, nConsecutiveEmpty
  seen, dups, oor,    \* its check of the numbers: aSeqSeen, nLocalDups, nLocalOOR
  assigned, pos,      \* its partition
  queue, topic,       \* of sequence numbers
  readBack,           \* what the second consumer has read
  late, whole,        \* history: did the consumer miss a deadline; was the topic read to its end
  clean,              \* history: was the topic empty when the run began to use it
  stopAt,             \* history: end of the topic when the consumer was told to stop
  joins, faults       \* history: assignments; faults (bound)

mainVars     == <<pc, sent, total, readBack, whole>>
sharedVars   == <<recv, stop, reset, stopAt>>
consumerVars == <<cpc, local, empties, seen, dups, oor>>
brokerVars   == <<queue, topic, faults>>
readerVars   == <<assigned, pos, joins>>
vars == <<mode, byCount, mainVars, sharedVars, consumerVars, brokerVars, readerVars, late, clean>>

\* what a run that was aborted has left in the topic
Stale == {<<>>, <<0>>}

Init ==
  /\ mode \in {"scalar", "udt"} /\ byCount \in BOOLEAN
  /\ pc = "preflight" /\ sent = 0 /\ total = 0 /\ readBack = <<>> /\ whole = FALSE
  /\ recv = 0 /\ stop = FALSE /\ reset = FALSE /\ stopAt = 0
  /\ cpc = "off" /\ local = 0 /\ empties = 0 /\ seen = {} /\ dups = 0 /\ oor = 0
  /\ queue = <<>> /\ topic \in Stale /\ faults = 0
  /\ assigned = FALSE /\ pos = 0 /\ joins = 0 /\ late = FALSE
  /\ clean = FALSE

\* numbers the bitmap has room for; 1024 more than needed in a run by count
SeqCapacity == IF byCount THEN Count + 1 ELSE Capacity

-----------------------------------------------------------------------------
(* The main thread.                                                        *)

\* GetTopicMessageCounts, the partitions of the topic and how many of them answer: the sum up
\* to the first that does not, and nothing at all only if that is the first
MessageCount(sizes, answers) ==
  IF answers = 0 THEN -1 ELSE FoldLeft(LAMBDA n, size : n + size, 0, SubSeq(sizes, 1, answers))

\* "ERROR: topic already has messages"
Refuses(count) == count > 0

\* the topic has two partitions here
PreFlight ==
  /\ pc = "preflight"
  /\ \E first \in 0 .. Len(topic), answers \in 0 .. 2 :
       /\ pc' = IF Refuses(MessageCount(<<first, Len(topic) - first>>, answers)) THEN "done" ELSE "topic"
       /\ faults' = faults + (IF topic # <<>> /\ answers < 2 THEN 1 ELSE 0) /\ faults' <= MaxFaults
       /\ clean' = (topic = <<>> \/ answers = 2)
  /\ UNCHANGED <<mode, byCount, sent, total, readBack, whole, sharedVars, consumerVars, queue, topic, readerVars,
                 late>>

\* made, or there already; or an error, or no answer
CreateTopic ==
  /\ pc = "topic"
  /\ \/ pc' = "create" /\ cpc' = "subscribe"
     \/ pc' = "done" /\ UNCHANGED cpc
  /\ UNCHANGED <<mode, byCount, sent, total, readBack, whole, sharedVars, local, empties, seen, dups, oor,
                 brokerVars, readerVars, late, clean>>

TellToStop == stop' = TRUE /\ stopAt' = Len(topic)

\* the sentinel, tried again until the queue takes it
Warm == pc' = "await" /\ queue' = Append(queue, Sentinel) /\ UNCHANGED <<stop, stopAt>>

\* with scalars the producer is made here; or the run ends without one
Create ==
  /\ pc = "create" /\ mode = "scalar"
  /\ Warm \/ (pc' = "abort" /\ TellToStop /\ UNCHANGED queue)
  /\ UNCHANGED <<mode, byCount, sent, total, readBack, whole, recv, reset, consumerVars, topic, faults,
                 readerVars, late, clean>>

\* with UDT samples there is one, which has announced the feed
WarmUpUdt ==
  /\ pc = "create" /\ mode = "udt"
  /\ Warm
  /\ UNCHANGED <<mode, byCount, sent, total, readBack, whole, recv, reset, consumerVars, topic, faults,
                 readerVars, late, clean>>

\* the consumer has received something, or 30 s are over
WarmedUp ==
  /\ pc = "await"
  /\ pc' = "zero" /\ late' = (late \/ recv = 0)
  /\ UNCHANGED <<mode, byCount, sent, total, readBack, whole, sharedVars, consumerVars, brokerVars,
                 readerVars, clean>>

ZeroCounters ==
  /\ pc = "zero"
  /\ sent' = 0 /\ recv' = 0 /\ pc' = "ask"
  /\ UNCHANGED <<mode, byCount, total, readBack, whole, stop, reset, stopAt, consumerVars, brokerVars,
                 readerVars, late, clean>>

AskReset ==
  /\ pc = "ask"
  /\ reset' = TRUE /\ pc' = "settle"
  /\ UNCHANGED <<mode, byCount, sent, total, readBack, whole, recv, stop, stopAt, consumerVars, brokerVars,
                 readerVars, late, clean>>

\* 50 ms for the consumer to take the request
Settle ==
  /\ pc = "settle"
  /\ pc' = "produce" /\ late' = (late \/ reset)
  /\ UNCHANGED <<mode, byCount, sent, total, readBack, whole, sharedVars, consumerVars, brokerVars,
                 readerVars, clean>>

MayProduce == sent < IF byCount THEN Count ELSE MaxSent

\* a full queue only makes it try the same number again
SendNext ==
  /\ pc = "produce" /\ MayProduce /\ Len(queue) < QueueMax
  /\ queue' = Append(queue, sent) /\ sent' = sent + 1
  /\ UNCHANGED <<mode, byCount, pc, total, readBack, whole, sharedVars, consumerVars, topic, faults, readerVars,
                 late, clean>>

Produce == mode = "scalar" /\ SendNext

\* so too the number in the payload; the one in the header, which nobody checks, goes on
ProduceUdt == mode = "udt" /\ SendNext

StopProducing ==
  /\ pc = "produce" /\ (byCount => ~MayProduce)
  /\ pc' = "flush" /\ total' = sent
  /\ UNCHANGED <<mode, byCount, sent, readBack, whole, sharedVars, consumerVars, brokerVars, readerVars,
                 late, clean>>

\* everything is delivered, or 60 s are over
Flush ==
  /\ pc = "flush" /\ mode = "scalar"
  /\ pc' = "drain"
  /\ UNCHANGED <<mode, byCount, sent, total, readBack, whole, sharedVars, consumerVars, brokerVars, readerVars,
                 late, clean>>

FlushUdt ==
  /\ pc = "flush" /\ mode = "udt"
  /\ pc' = "drain" /\ TellToStop
  /\ UNCHANGED <<mode, byCount, sent, total, readBack, whole, recv, reset, consumerVars, brokerVars, readerVars,
                 late, clean>>

\* gRecv has reached the total, has stood still for 3 s, or 30 s are over
StopWaiting ==
  /\ pc = "drain" /\ mode = "scalar"
  /\ pc' = "join" /\ TellToStop
  /\ UNCHANGED <<mode, byCount, sent, total, readBack, whole, recv, reset, consumerVars, brokerVars, readerVars,
                 late, clean>>

StopWaitingUdt ==
  /\ pc = "drain" /\ mode = "udt"
  /\ pc' = "join"
  /\ UNCHANGED <<mode, byCount, sent, total, readBack, whole, sharedVars, consumerVars, brokerVars, readerVars,
                 late, clean>>

Join ==
  /\ pc \in {"join", "abort"} /\ cpc = "done"
  /\ pc' = IF pc = "join" THEN "verify" ELSE "done"
  /\ UNCHANGED <<mode, byCount, sent, total, readBack, whole, sharedVars, consumerVars, brokerVars, readerVars,
                 late, clean>>

\* ConsumeTopicFromBeginning with its 30 s
Verify ==
  /\ pc = "verify"
  /\ \E n \in 0 .. Len(topic) :
       readBack' = SubSeq(topic, 1, n) /\ whole' = (n = Len(topic))
  /\ pc' = "done"
  /\ UNCHANGED <<mode, byCount, sent, total, sharedVars, consumerVars, brokerVars, readerVars, late, clean>>

\* a sample in the bitmap, or beyond it
Track(check, n) ==
  IF n \notin 0 .. SeqCapacity - 1 THEN [check EXCEPT !.oor = @ + 1]
  ELSE IF n \in check.seen THEN [check EXCEPT !.dups = @ + 1]
  ELSE [check EXCEPT !.seen = @ \cup {n}]

Missing(numbers) == {i \in 0 .. total - 1 : i < SeqCapacity} \ numbers

\* "Note: seq 0 was seen (warmup message, counted in recv but not in sent)", printed after the
\* join; the sentinel has another number
NotesWarmup == total > 0 /\ SeqCapacity > 0 /\ 0 \in seen

\* what the second consumer does with a record: it skips the sentinel
VerifyStep(check, n) == IF n = Sentinel THEN check ELSE Track(check, n)

\* ">>> PASSED" for a run with scalars: none missing, repeated or out of range
PassedScalar(recs) ==
  LET check == FoldLeft(VerifyStep, [seen |-> {}, dups |-> 0, oor |-> 0], recs)
  IN  Missing(check.seen) = {} /\ check.dups = 0 /\ check.oor = 0

VerifyUdtStep(check, n) ==
  IF n = Sentinel THEN check
  ELSE [recv |-> check.recv + 1, last |-> n, order |-> check.order + (IF n <= check.last THEN 1 ELSE 0)]

\* and for one with UDT samples: as many as were sent, each number above the one before
PassedUdt(recs) ==
  LET check == FoldLeft(VerifyUdtStep, [recv |-> 0, last |-> Sentinel, order |-> 0], recs)
  IN  check.recv = total /\ check.order = 0

Passed(recs) == IF mode = "scalar" THEN PassedScalar(recs) ELSE PassedUdt(recs)

-----------------------------------------------------------------------------
(* The consumer thread.                                                    *)

Subscribe ==
  /\ cpc = "subscribe"
  /\ cpc' = "loop"
  /\ UNCHANGED <<mode, byCount, mainVars, sharedVars, local, empties, seen, dups, oor, brokerVars,
                 readerVars, late, clean>>

\* no consumer: the thread ends at once
SubscribeFails ==
  /\ cpc = "subscribe"
  /\ cpc' = "done" /\ late' = TRUE
  /\ stop' = (stop \/ mode = "scalar")
  /\ UNCHANGED <<mode, byCount, mainVars, recv, reset, stopAt, local, empties, seen, dups, oor, brokerVars,
                 readerVars, clean>>

\* a plausible bug: told to stop, it stops
NoLastDrain ==
  /\ cpc = "loop"
  /\ IF stop THEN cpc' = "finish" /\ UNCHANGED <<local, reset>>
     ELSE /\ cpc' = "poll"
          /\ local' = IF reset THEN 0 ELSE local
          /\ reset' = FALSE
  /\ UNCHANGED <<mode, byCount, mainVars, recv, stop, stopAt, empties, seen, dups, oor, brokerVars, readerVars,
                 late, clean>>

\* the head of the loop: stop first, then the request to reset
Loop ==
  /\ cpc = "loop"
  /\ IF stop THEN cpc' = "final" /\ UNCHANGED <<local, reset>>
     ELSE /\ cpc' = "poll"
          /\ local' = IF reset THEN 0 ELSE local
          /\ reset' = FALSE
  /\ UNCHANGED <<mode, byCount, mainVars, recv, stop, stopAt, empties, seen, dups, oor, brokerVars, readerVars,
                 late, clean>>

\* PollBatch gives k messages to the callback
Receive(k) ==
  LET check == FoldLeft(Track, [seen |-> seen, dups |-> dups, oor |-> oor], SubSeq(topic, pos + 1, pos + k)) IN
  /\ pos' = pos + k /\ local' = local + k
  /\ IF mode = "scalar" THEN seen' = check.seen /\ dups' = check.dups /\ oor' = check.oor
     ELSE UNCHANGED <<seen, dups, oor>>

Available == IF assigned THEN Len(topic) - pos ELSE 0

Poll ==
  /\ cpc = "poll"
  /\ \E k \in 0 .. Available : Receive(k)
  /\ cpc' = "publish"
  /\ UNCHANGED <<mode, byCount, mainVars, sharedVars, empties, brokerVars, assigned, joins, late, clean>>

Publish ==
  /\ cpc = "publish"
  /\ recv' = local /\ cpc' = "loop"
  /\ UNCHANGED <<mode, byCount, mainVars, stop, reset, stopAt, local, empties, seen, dups, oor, brokerVars,
                 readerVars, late, clean>>

\* after the stop: until three polls of 100 ms in a row bring nothing
FinalPoll ==
  /\ cpc = "final"
  /\ \E k \in 0 .. Available :
       /\ Receive(k)
       /\ IF k > 0 THEN recv' = local' /\ empties' = 0 /\ UNCHANGED cpc
          ELSE /\ empties' = empties + 1 /\ UNCHANGED recv
               /\ cpc' = IF empties' = 3 THEN "finish" ELSE cpc
       /\ late' = (late \/ (k = 0 /\ pos < Len(topic)))
  /\ UNCHANGED <<mode, byCount, mainVars, stop, reset, stopAt, brokerVars, assigned, joins, clean>>

\* or until 2 s are over
FinalDeadline ==
  /\ cpc = "final"
  /\ cpc' = "finish" /\ late' = (late \/ pos < Len(topic))
  /\ UNCHANGED <<mode, byCount, mainVars, sharedVars, local, empties, seen, dups, oor, brokerVars,
                 readerVars, clean>>

Finish ==
  /\ cpc = "finish"
  /\ recv' = local /\ cpc' = "done"
  /\ UNCHANGED <<mode, byCount, mainVars, stop, reset, stopAt, local, empties, seen, dups, oor, brokerVars,
                 readerVars, late, clean>>

-----------------------------------------------------------------------------
(* The broker.                                                             *)

Deliver ==
  /\ queue # <<>>
  /\ topic' = Append(topic, Head(queue)) /\ queue' = Tail(queue)
  /\ UNCHANGED <<mode, byCount, mainVars, sharedVars, consumerVars, faults, readerVars, late, clean>>

\* a delivery fails for good; or, without idempotence, is made twice
Lose ==
  /\ queue # <<>> /\ faults < MaxFaults
  /\ queue' = Tail(queue) /\ faults' = faults + 1
  /\ UNCHANGED <<mode, byCount, mainVars, sharedVars, consumerVars, topic, readerVars, late, clean>>

Repeat ==
  /\ topic # <<>> /\ faults < MaxFaults
  /\ topic' = Append(topic, Last(topic)) /\ faults' = faults + 1
  /\ UNCHANGED <<mode, byCount, mainVars, sharedVars, consumerVars, queue, readerVars, late, clean>>

\* RebalanceCb: from the beginning, and again from there after the group had lost it, as no offset
\* is ever committed
Assign ==
  /\ cpc \notin {"off", "subscribe", "done"} /\ ~assigned
  /\ assigned' = TRUE /\ pos' = 0 /\ joins' = joins + 1
  /\ UNCHANGED <<mode, byCount, mainVars, sharedVars, consumerVars, brokerVars, late, clean>>

LoseAssignment ==
  /\ assigned /\ cpc # "done" /\ faults < MaxFaults
  /\ assigned' = FALSE /\ faults' = faults + 1
  /\ UNCHANGED <<mode, byCount, mainVars, sharedVars, consumerVars, queue, topic, pos, joins, late, clean>>

-----------------------------------------------------------------------------
Next ==
  \/ PreFlight \/ CreateTopic \/ Create \/ WarmUpUdt \/ WarmedUp \/ ZeroCounters \/ AskReset \/ Settle
  \/ Produce \/ ProduceUdt \/ StopProducing \/ Flush \/ FlushUdt \/ StopWaiting \/ StopWaitingUdt \/ Join \/ Verify
  \/ Subscribe \/ SubscribeFails \/ Loop \/ Poll \/ Publish \/ FinalPoll \/ FinalDeadline \/ Finish
  \/ Deliver \/ Lose \/ Repeat \/ Assign \/ LoseAssignment

Spec == Init /\ [][Next]_vars

-----------------------------------------------------------------------------
(* Properties.                                                             *)

\* Types; the consumer is never past the end.
TypeOK ==
  /\ mode \in {"scalar", "udt"} /\ byCount \in BOOLEAN
  /\ pc \in {"preflight", "topic", "create", "await", "zero", "ask", "settle", "produce", "flush", "drain",
             "join", "abort", "verify", "done"}
  /\ cpc \in {"off", "subscribe", "loop", "poll", "publish", "final", "finish", "done"}
  /\ sent \in Nat /\ total \in Nat /\ recv \in Nat /\ local \in Nat /\ empties \in 0 .. 3
  /\ seen \subseteq 0 .. MaxSent /\ dups \in Nat /\ oor \in Nat
  /\ pos \in 0 .. Len(topic)

\* where the samples of the run are in what was stored
SampleIndices(recs) == {i \in DOMAIN recs : recs[i] # Sentinel}

\* ">>> PASSED -- every produced sequence was found in Kafka. No gaps."
\* (kv8bench.cpp:1988), ">>> PASSED -- fields, continuity, count all correct."
\* (:974): a verdict on the whole topic says so exactly when every sample is
\* stored once (and, for UDT samples, in order), unless the topic was not empty
\* and the pre-flight got no full answer. As many lost as repeated is no pass.
VerdictExact ==
  pc = "done" /\ whole /\ clean /\ total <= SeqCapacity =>
    LET stored  == {readBack[i] : i \in SampleIndices(readBack)} = 0 .. total - 1
        once    == \A i, j \in SampleIndices(readBack) : readBack[i] = readBack[j] => i = j
        ordered == \A i, j \in SampleIndices(readBack) : i < j => readBack[i] < readBack[j]
    IN  Passed(readBack) <=> stored /\ once /\ (mode = "udt" => ordered)

\* The counters of the consumer thread, once it has been joined: unless a
\* deadline was missed it has received every sample that was stored when it
\* was told to stop, and if its partition was assigned once, the number
\* received is that of the samples and not of the sentinel ("so gRecv reflects
\* only benchmark messages, not warmup ones", kv8bench.cpp:1423). So the note
\* "seq 0 was seen (warmup message, counted in recv but not in sent)"
\* (kv8bench.cpp:1861), which is printed whenever the first sample of a run with
\* scalars was stored in time, is untrue: number 0 is that sample, the warm-up
\* message is the sentinel, and it is not counted.
LiveExact ==
  pc \in {"verify", "done"} /\ cpc = "done" /\ stop /\ clean /\ ~late /\ total > 0 =>
    /\ joins = 1 => pos >= stopAt
    /\ mode = "scalar" => {n \in ToSet(SubSeq(topic, 1, stopAt)) : n \in 0 .. SeqCapacity - 1} \subseteq seen
    /\ mode = "scalar" /\ SeqCapacity > 0 /\ 0 \in ToSet(SubSeq(topic, 1, stopAt)) => NotesWarmup
    /\ joins = 1 /\ Cardinality(DOMAIN topic \ SampleIndices(topic)) = 1 =>
         recv = Cardinality({i \in SampleIndices(topic) : i <= pos})

=============================================================================
