---------------------------- MODULE ProbeVerify ----------------------------
(***************************************************************************)
(* kv8probe writes a manifest and then N samples of one counter, with the  *)
(* time and the value of each computed from its index; kv8verify reads     *)
(* them back and reports what is missing, repeated or out of order. It     *)
(* knows a sample by its sequence number alone, which wraps: with the      *)
(* manifest it recovers the index and compares the time with it, without   *)
(* one (seqgap mode) it compares the number with the one before. A sample  *)
(* is its index here, its time and value go with it, and the numbers wrap  *)
(* at W in place of 65536. The reader may give up before the end of the    *)
(* topic (35 s and 45 s).                                                  *)
(***************************************************************************)
EXTENDS Integers, Sequences, SequencesExt, FiniteSets

CONSTANTS
  N,          \* --count of the probe
  W,          \* sequence numbers, 65536 in the code: even
  QueueMax,   \* messages in the outbound queue
  MaxFaults   \* bound: samples refused, lost, repeated or overtaken

VARIABLES
  phase,      \* of the probe, then "checked"
  idem,       \* did the broker grant the idempotent producer
  manifest,   \* is the manifest on its topic
  next,       \* of the probe's loop: the next sample
  nFailed,    \* samples the queue has refused
  queue, topic,
  read,       \* what kv8verify has read of the topic
  faults      \* history (bound)

vars == <<phase, idem, manifest, next, nFailed, queue, topic, read, faults>>

Init ==
  /\ phase = "announce" /\ idem \in BOOLEAN /\ manifest = FALSE
  /\ next = 0 /\ nFailed = 0 /\ queue = <<>> /\ topic = <<>> /\ read = <<>> /\ faults = 0

Half == W \div 2

-----------------------------------------------------------------------------
(* kv8probe and the delivery of its samples.                               *)

\* the registry records and the manifest; a manifest that is refused is only reported
Announce ==
  /\ phase = "announce"
  /\ phase' = "send" /\ manifest' \in BOOLEAN
  /\ UNCHANGED <<idem, next, nFailed, queue, topic, read, faults>>

Sample ==
  /\ phase = "send" /\ next < N /\ Len(queue) < QueueMax
  /\ queue' = Append(queue, next) /\ next' = next + 1
  /\ UNCHANGED <<phase, idem, manifest, nFailed, topic, read, faults>>

\* a full queue: the sample is counted as failed and the loop goes on
Refused ==
  /\ phase = "send" /\ next < N /\ Len(queue) = QueueMax /\ faults < MaxFaults
  /\ next' = next + 1 /\ nFailed' = nFailed + 1 /\ faults' = faults + 1
  /\ UNCHANGED <<phase, idem, manifest, queue, topic, read>>

\* the last flush, everything delivered or 30 s over
Finish ==
  /\ phase = "send" /\ next = N
  /\ phase' = "sent"
  /\ UNCHANGED <<idem, manifest, next, nFailed, queue, topic, read, faults>>

Deliver ==
  /\ queue # <<>>
  /\ topic' = Append(topic, Head(queue)) /\ queue' = Tail(queue)
  /\ UNCHANGED <<phase, idem, manifest, next, nFailed, read, faults>>

Lose ==
  /\ queue # <<>> /\ faults < MaxFaults
  /\ queue' = Tail(queue) /\ faults' = faults + 1
  /\ UNCHANGED <<phase, idem, manifest, next, nFailed, topic, read>>

\* without idempotence: an acknowledgement is lost and the sample sent again, or a retry is overtaken
Repeat ==
  /\ ~idem /\ topic # <<>> /\ faults < MaxFaults
  /\ topic' = Append(topic, Last(topic)) /\ faults' = faults + 1
  /\ UNCHANGED <<phase, idem, manifest, next, nFailed, queue, read>>

Overtake ==
  /\ ~idem /\ Len(queue) > 1 /\ faults < MaxFaults
  /\ queue' = <<queue[2], queue[1]>> \o SubSeq(queue, 3, Len(queue)) /\ faults' = faults + 1
  /\ UNCHANGED <<phase, idem, manifest, next, nFailed, topic, read>>

\* kv8verify, once the probe is done: as much of the topic as the time allows
Check ==
  /\ phase = "sent"
  /\ \E n \in 0 .. Len(topic) : read' = SubSeq(topic, 1, n)
  /\ phase' = "checked"
  /\ UNCHANGED <<idem, manifest, next, nFailed, queue, topic, faults>>

Next ==
  \/ Announce \/ Sample \/ Refused \/ Finish
  \/ Deliver \/ Lose \/ Repeat \/ Overtake
  \/ Check

Spec == Init /\ [][Next]_vars

-----------------------------------------------------------------------------
(* What kv8verify computes of the samples it has read.                     *)

\* a plausible bug: a number that has wrapped before as many were received is not moved on
NotMovedOn(received, seq) == (received \div W) * W + seq

\* the index a number stands for when so many have been received
GlobalIdx(received, seq) ==
  LET idx == (received \div W) * W + seq IN
  IF idx + Half < received THEN idx + W ELSE idx

ManifestStep(check, i) ==
  LET idx == GlobalIdx(check.received, i % W) IN
  [received |-> check.received + 1,
   expected |-> idx + 1,
   seen     |-> check.seen \cup ({idx} \cap 0 .. N - 1),
   dups     |-> check.dups + (IF idx \in check.seen THEN 1 ELSE 0),
   order    |-> check.order + (IF idx # check.expected THEN 1 ELSE 0),
   timer    |-> check.timer + (IF idx # i THEN 1 ELSE 0)]

ManifestCheck(recs) ==
  FoldLeft(ManifestStep,
           [received |-> 0, expected |-> 0, seen |-> {}, dups |-> 0, order |-> 0, timer |-> 0], recs)

Missing(check) == N - Cardinality(check.seen)

ManifestPasses(recs) ==
  LET check == ManifestCheck(recs) IN
  /\ manifest
  /\ check.received = N /\ Missing(check) = 0
  /\ check.dups = 0 /\ check.order = 0 /\ check.timer = 0

\* SeqTracker; the number last seen moves on even when it goes back
SeqStep(tr, i) ==
  LET seq  == i % W
      diff == (seq - (tr.last + 1)) % W
  IN  IF seq = tr.last THEN [tr EXCEPT !.dups = @ + 1]
      ELSE IF diff > Half THEN [tr EXCEPT !.order = @ + 1, !.last = seq]
      ELSE [tr EXCEPT !.missed = @ + diff, !.last = seq]

SeqCheck(recs) ==
  FoldLeft(SeqStep, [last |-> recs[1] % W, missed |-> 0, dups |-> 0, order |-> 0], Tail(recs))

\* its "OVERALL: PASS"; a topic with no samples has no counter that fails
SeqPasses(recs) ==
  recs # <<>> => LET tr == SeqCheck(recs) IN tr.missed = 0 /\ tr.dups = 0 /\ tr.order = 0

-----------------------------------------------------------------------------
(* Properties.                                                             *)

\* Types; a sample is stored only after it was sent.
TypeOK ==
  /\ phase \in {"announce", "send", "sent", "checked"} /\ idem \in BOOLEAN /\ manifest \in BOOLEAN
  /\ next \in 0 .. N /\ nFailed \in 0 .. next /\ faults \in 0 .. MaxFaults
  /\ \A i \in DOMAIN topic : topic[i] \in 0 .. next - 1
  /\ \A i \in DOMAIN queue : queue[i] \in 0 .. next - 1
  /\ read # <<>> => phase = "checked"

InOrder(recs) == \A i \in 2 .. Len(recs) : recs[i - 1] < recs[i]

\* "OVERALL: PASS" (kv8verify.cpp:305) exactly when the manifest and the N
\* samples are there, each once and in order.
ManifestExact == ManifestPasses(read) <=> manifest /\ read = [i \in 1 .. N |-> i - 1]

\* The indices a number may stand for when r samples have been received: of the
\* turn of r in its first half, around r in its second.
Recoverable(r) ==
  LET first == IF r % W <= Half THEN r - (r % W) ELSE r - Half IN first .. first + W - 1

\* where a sample is not the one after the sample before it (or the first of all)
Breaks(recs) == {i \in DOMAIN recs : recs[i] # (IF i = 1 THEN 0 ELSE recs[i - 1] + 1)}

\* The counts of manifest mode (kv8verify.cpp:262-272), whatever was lost,
\* repeated or overtaken: it has no timer error exactly as long as every sample
\* is read near its place, and as long as it has none, the missing are those
\* that were not read, the duplicates those read again, and the order errors
\* the places where the index does not go on by one. A sample read too far from
\* its place is taken for another and voids the counts; it fails the check.
ManifestCounts ==
  LET check == ManifestCheck(read) IN
  /\ check.timer = 0 <=> \A i \in DOMAIN read : read[i] \in Recoverable(i - 1)
  /\ check.timer = 0 =>
       /\ Missing(check) = N - Cardinality(ToSet(read))
       /\ check.dups = Len(read) - Cardinality(ToSet(read))
       /\ check.order = Cardinality(Breaks(read))

\* "Forward jumps in wSeqN are reported with exact miss count" (README.md:291):
\* as long as samples were only lost, both modes count the lost ones exactly,
\* the first while fewer than half the numbers were lost in all, the second,
\* which sees only those between the first and the last, while no hole is longer
\* than half. The second reports nothing else. The first also has an order error
\* for each hole that a sample follows (kv8verify.cpp:191), though the samples
\* arrived "in ascending index order", which README.md:284 says is all it asks for,
\* and none "out of order" (kv8verify.cpp:158).
LossExact ==
  read # <<>> /\ InOrder(read) =>
    LET check == ManifestCheck(read)
        tr    == SeqCheck(read)
        upTo  == Last(read) + 1
    IN  /\ upTo - Len(read) < Half =>
             /\ check.dups = 0 /\ check.timer = 0 /\ Missing(check) = N - Len(read)
             /\ check.order = Cardinality(Breaks(read))
        /\ (\A i \in 2 .. Len(read) : read[i] - read[i - 1] - 1 <= Half) =>
             tr.dups = 0 /\ tr.order = 0 /\ tr.missed = upTo - read[1] - Len(read)

\* each sample is near enough to the one before it for seqgap mode
Steady(recs) == \A i \in 2 .. Len(recs) : recs[i] - recs[i - 1] \in 2 - Half .. Half + 1

\* "OVERALL: PASS" of seqgap mode (kv8verify.cpp:612) exactly when each sample
\* read is the one after the sample read before it, unless a step between two
\* of them is further than half the numbers; that nothing is missing at either
\* end it does not say.
SeqExact == Steady(read) => (SeqPasses(read) <=> \A i \in 2 .. Len(read) : read[i] = read[i - 1] + 1)

\* the samples a step passes over, with the step; one may have been read before or come later
PassedOver(recs) ==
  {p \in (2 .. Len(recs)) \X (0 .. N - 1) : recs[p[1] - 1] < p[2] /\ p[2] < recs[p[1]]}

\* The counts of seqgap mode under the same condition: a duplicate for each
\* sample read twice in a row, "Same wSeqN repeated consecutively" (README.md:292),
\* an order error for each step back, and as missed every sample a step forward
\* passes over. After a step back that counts samples again that were read.
SeqCounts ==
  read # <<>> /\ Steady(read) =>
    LET tr == SeqCheck(read) IN
    /\ tr.dups = Cardinality({i \in 2 .. Len(read) : read[i] = read[i - 1]})
    /\ tr.order = Cardinality({i \in 2 .. Len(read) : read[i] < read[i - 1]})
    /\ tr.missed = Cardinality(PassedOver(read))

ChecksExact ==
  phase = "checked" => ManifestExact /\ ManifestCounts /\ LossExact /\ SeqExact /\ SeqCounts

=============================================================================
