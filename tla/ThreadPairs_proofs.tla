------------------------- MODULE ThreadPairs_proofs -------------------------
(***************************************************************************)
(* Proofs about the small producer-consumer pairs: the ring of kv8scope    *)
(* (SpscDynamicRing) and the ring of kv8zoom (Fixed, an instance of        *)
(* SpscFixedRing) implement a bounded FIFO for every capacity; what        *)
(* kv8verify reports of the samples it has read is true of them; and so is *)
(* the verdict of kv8bench and, at its end, the counters of its consumer   *)
(* thread. The last two rest on what the folds of the checks compute of    *)
(* any sequence, by induction over its length.                             *)
(***************************************************************************)
EXTENDS MCThreadPairs, FiniteSetTheorems, SequenceTheorems, WellFoundedInduction, TLAPS

-----------------------------------------------------------------------------
(* Slots.                                                                  *)

LEMMA DivMod ==
  ASSUME NEW C \in Nat \ {0}, NEW a \in Int
  PROVE  /\ a \div C \in Int
         /\ a % C \in 0 .. C - 1
         /\ a = C * (a \div C) + (a % C)
  <1>1. a \div C \in Int
    OBVIOUS
  <1>2. a % C \in 0 .. C - 1
    OBVIOUS
  <1>3. a = C * (a \div C) + (a % C)
    OBVIOUS
  <1>. QED  BY <1>1, <1>2, <1>3

\* Two indices less than one lap apart never fall on the same slot.
LEMMA ModDistinct ==
  ASSUME NEW C \in Nat \ {0}, NEW a \in Nat, NEW b \in Nat, a < b, b < a + C
  PROVE  a % C # b % C
  <1> SUFFICES ASSUME a % C = b % C PROVE FALSE
    OBVIOUS
  <1>1. PICK p \in Int, q \in Int : b - a = C * q - C * p
    <2>1. a = C * (a \div C) + (a % C) /\ b = C * (b \div C) + (b % C)
      BY DivMod
    <2>2. a \div C \in Int /\ b \div C \in Int
      BY DivMod
    <2>3. b - a = C * (b \div C) - C * (a \div C)
      <3> DEFINE x == C * (a \div C)  y == C * (b \div C)
                 r == a % C  s == b % C
      <3>1. a = x + r /\ b = y + s /\ r = s /\ x \in Int /\ y \in Int /\ r \in Int /\ s \in Int
        BY <2>1, <2>2, DivMod
      <3> HIDE DEF x, y, r, s
      <3>2. b - a = y - x
        BY <3>1
      <3>. QED  BY <3>2 DEF x, y
    <2>. QED  BY <2>2, <2>3
  <1>2. CASE q <= p
    <2>1. C * q <= C * p
      BY <1>2
    <2>. QED  BY <1>1, <2>1
  <1>3. CASE q >= p + 1
    <2>1. C * q >= C * p + C
      BY <1>3
    <2>. QED  BY <1>1, <2>1
  <1>. QED  BY <1>2, <1>3

\* The slots between m_tail and m_head are pairwise distinct.
LEMMA SlotsDiffer ==
  ASSUME NEW a \in Nat, NEW b \in Nat, a # b, a < b + Capacity, b < a + Capacity
  PROVE  Slot(a) # Slot(b)
  <1>1. CASE a < b
    BY <1>1, ModDistinct, RingAssumption DEF Slot
  <1>2. CASE b < a
    BY <1>2, ModDistinct, RingAssumption DEF Slot
  <1>. QED  BY <1>1, <1>2

LEMMA SlotInRange == \A a \in Nat : Slot(a) \in 0 .. Capacity - 1
  BY DivMod, RingAssumption DEF Slot

-----------------------------------------------------------------------------
(* The inductive invariant: the writer is between one lap behind and the   *)
(* reader, and what PopBatch has copied is still what the slots hold.      *)

WriterInv ==
  /\ offered <= MaxItems
  /\ wpc \in {"write", "publish"} => head - tail < Capacity /\ offered >= 1
  /\ wpc = "publish" => data[Slot(head)] = offered

ReaderInv ==
  /\ rpc = "idle" => rn = 0 /\ out = <<>>
  /\ rpc = "copy" => rn <= head - tail /\ Len(out) <= rn
  /\ \A i \in 1 .. Len(out) : out[i] = data[Slot(tail + i - 1)]

RingInv == TypeOK /\ WriterInv /\ ReaderInv

LEMMA RingInit == Init => RingInv
  BY RingAssumption DEF Init, RingInv, TypeOK, WriterInv, ReaderInv

LEMMA RingStep == RingInv /\ [Next]_vars => RingInv'
  <1> SUFFICES ASSUME RingInv, [Next]_vars PROVE RingInv'
    OBVIOUS
  <1> USE RingAssumption DEF RingInv, writerVars, readerVars
  <1>1. CASE PushFull
    BY <1>1 DEF PushFull, TypeOK, WriterInv, ReaderInv
  <1>2. CASE PushBegin
    BY <1>2 DEF PushBegin, Full, TypeOK, WriterInv, ReaderInv
  <1>3. CASE PushWrite
    <2>1. \A k \in Nat : k < head - tail => data'[Slot(tail + k)] = data[Slot(tail + k)]
      <3> SUFFICES ASSUME NEW k \in Nat, k < head - tail
                   PROVE  data'[Slot(tail + k)] = data[Slot(tail + k)]
        OBVIOUS
      <3>1. Slot(tail + k) # Slot(head)
        BY <1>3, SlotsDiffer DEF PushWrite, TypeOK, WriterInv
      <3>. QED  BY <1>3, <3>1, SlotInRange DEF PushWrite, TypeOK
    <2>2. TypeOK'
      BY <1>3, SlotInRange DEF PushWrite, TypeOK
    <2>3. WriterInv'
      BY <1>3, SlotInRange DEF PushWrite, TypeOK, WriterInv
    <2>4. ReaderInv'
      <3>1. \A i \in 1 .. Len(out) : data'[Slot(tail + i - 1)] = data[Slot(tail + i - 1)]
        <4> SUFFICES ASSUME NEW i \in 1 .. Len(out)
                     PROVE  data'[Slot(tail + i - 1)] = data[Slot(tail + i - 1)]
          OBVIOUS
        <4>1. i - 1 \in Nat /\ i - 1 < head - tail /\ tail + (i - 1) = tail + i - 1
          BY DEF TypeOK, ReaderInv
        <4>. QED  BY <2>1, <4>1
      <3>. QED  BY <1>3, <3>1 DEF PushWrite, ReaderInv
    <2>. QED  BY <2>2, <2>3, <2>4
  <1>4. CASE PushPublish
    BY <1>4 DEF PushPublish, TypeOK, WriterInv, ReaderInv
  <1>5. ASSUME NEW maxCount \in 1 .. MaxBatch, PopBegin(maxCount) PROVE RingInv'
    BY <1>5 DEF PopBegin, BatchSize, TypeOK, WriterInv, ReaderInv
  <1>6. CASE PopCopy
    <2>1. data[Slot(tail + Len(out))] \in Nat
      <3>1. tail + Len(out) \in Nat
        BY DEF TypeOK
      <3>. QED  BY <3>1, SlotInRange DEF TypeOK
    <2>2. TypeOK'
      BY <1>6, <2>1 DEF PopCopy, TypeOK
    <2>3. WriterInv'
      BY <1>6 DEF PopCopy, TypeOK, WriterInv
    <2>4. ReaderInv'
      <3>1. /\ Len(out') = Len(out) + 1
            /\ \A i \in 1 .. Len(out) : out'[i] = out[i]
            /\ out'[Len(out) + 1] = data[Slot(tail + Len(out))]
        BY <1>6, <2>1 DEF PopCopy, TypeOK
      <3>2. tail + (Len(out) + 1) - 1 = tail + Len(out)
        BY DEF TypeOK
      <3>3. \A i \in 1 .. Len(out') : out'[i] = data'[Slot(tail' + i - 1)]
        <4> SUFFICES ASSUME NEW i \in 1 .. Len(out') PROVE out'[i] = data'[Slot(tail' + i - 1)]
          OBVIOUS
        <4>1. CASE i = Len(out) + 1
          BY <1>6, <3>1, <3>2, <4>1 DEF PopCopy
        <4>2. CASE i \in 1 .. Len(out)
          BY <1>6, <3>1, <4>2 DEF PopCopy, ReaderInv
        <4>. QED  BY <3>1, <4>1, <4>2 DEF TypeOK
      <3>. QED  BY <1>6, <3>1, <3>3 DEF PopCopy, TypeOK, ReaderInv
    <2>. QED  BY <2>2, <2>3, <2>4
  <1>7. CASE PopPublish
    BY <1>7 DEF PopPublish, TypeOK, WriterInv, ReaderInv
  <1>8. CASE UNCHANGED vars
    BY <1>8 DEF vars, TypeOK, WriterInv, ReaderInv
  <1>. QED  BY <1>1, <1>2, <1>3, <1>4, <1>5, <1>6, <1>7, <1>8 DEF Next, Push, PopBatch, Finished

LEMMA RingAlways == Spec => []RingInv
  BY RingInit, RingStep, PTL DEF Spec

\* The indices never drift apart by more than the capacity, and every slot the
\* reader touches has been written.
THEOREM RingTypeCorrect == Spec => []TypeOK
  <1>1. RingInv => TypeOK
    BY DEF RingInv
  <1>. QED  BY RingAlways, <1>1, PTL

\* Push never writes a slot that a running PopBatch has still to copy.
THEOREM CopiesAreWhole == Spec => []NoTornCopy
  <1>1. RingInv => NoTornCopy
    <2> SUFFICES ASSUME RingInv, wpc = "write", rpc = "copy", NEW k \in Len(out) .. rn - 1
                 PROVE  Slot(tail + k) # Slot(head)
      BY DEF NoTornCopy
    <2>. QED  BY SlotsDiffer, RingAssumption DEF RingInv, TypeOK, WriterInv, ReaderInv
  <1>. QED  BY RingAlways, <1>1, PTL

-----------------------------------------------------------------------------
(* Refinement. The queue of the abstract channel is what lies between the  *)
(* indices; an item enters it when m_head is published, and leaves it when *)
(* m_tail is.                                                              *)

\* the n items that follow index t
Window(d, t, n) == [i \in 1 .. n |-> d[Slot(t + i - 1)]]

LEMMA GapIsNat ==
  ASSUME NEW h \in Nat, NEW t \in Nat, t <= h
  PROVE  h - t \in Nat
  OBVIOUS

LEMMA WindowFacts ==
  ASSUME NEW d \in [0 .. Capacity - 1 -> Nat], NEW t \in Nat, NEW n \in Nat
  PROVE  /\ Window(d, t, n) \in Seq(Nat)
         /\ Len(Window(d, t, n)) = n
         /\ \A i \in 1 .. n : Window(d, t, n)[i] = d[Slot(t + i - 1)]
  <1>1. ASSUME NEW i \in 1 .. n PROVE d[Slot(t + i - 1)] \in Nat
    <2>1. t + i - 1 \in Nat
      OBVIOUS
    <2>. QED  BY <2>1, SlotInRange
  <1>. QED  BY <1>1 DEF Window

LEMMA QueueFacts ==
  ASSUME RingInv
  PROVE  /\ Queue \in Seq(Nat)
         /\ Len(Queue) = head - tail
         /\ \A i \in 1 .. head - tail : Queue[i] = data[Slot(tail + i - 1)]
  <1>1. head - tail \in Nat /\ Queue = Window(data, tail, head - tail)
    BY DEF RingInv, TypeOK, Queue, Window
  <1>. QED  BY <1>1, WindowFacts DEF RingInv, TypeOK

LEMMA RefinesInit == Init => Fifo!FifoInit
  <1> SUFFICES ASSUME Init PROVE Fifo!FifoInit
    OBVIOUS
  <1>1. RingInv
    BY RingInit
  <1>2. Queue = <<>>
    <2>1. Len(Queue) = 0 /\ Queue \in Seq(Nat)
      BY <1>1, QueueFacts DEF Init
    <2>. QED  BY <2>1
  <1>. QED  BY <1>2 DEF Init, Fifo!FifoInit

LEMMA RefinesStep == RingInv /\ [Next]_vars => [Fifo!FifoNext]_(Fifo!fifoVars)
  <1> SUFFICES ASSUME RingInv, [Next]_vars PROVE [Fifo!FifoNext]_(Fifo!fifoVars)
    OBVIOUS
  <1> USE RingAssumption DEF writerVars, readerVars
  <1>0. RingInv'
    BY RingStep
  <1> DEFINE items == IF wpc = "idle" THEN offered ELSE offered - 1
  <1>q. /\ Queue \in Seq(Nat) /\ Len(Queue) = head - tail
        /\ \A i \in 1 .. head - tail : Queue[i] = data[Slot(tail + i - 1)]
        /\ Queue' \in Seq(Nat) /\ Len(Queue') = head' - tail'
        /\ \A i \in 1 .. head' - tail' : Queue'[i] = data'[Slot(tail' + i - 1)]
    <2>1. /\ Queue' \in Seq(Nat) /\ Len(Queue') = head' - tail'
          /\ \A i \in 1 .. head' - tail' : Queue'[i] = data'[Slot(tail' + i - 1)]
      <3>1. head' - tail' \in Nat /\ Queue' = Window(data', tail', head' - tail')
        <4>0. head' \in Nat /\ tail' \in Nat /\ tail' <= head'
          BY <1>0 DEF RingInv, TypeOK
        <4>1. head' - tail' \in Nat
          BY <4>0, GapIsNat
        <4>2. Queue' = Window(data', tail', head' - tail')
          BY DEF Queue, Window, Slot
        <4>. QED  BY <4>1, <4>2
      <3>2. data' \in [0 .. Capacity - 1 -> Nat] /\ tail' \in Nat
        BY <1>0 DEF RingInv, TypeOK
      <3>. QED  BY <3>1, <3>2, WindowFacts
    <2>. QED  BY <2>1, QueueFacts
  \* the steps inside a call are invisible
  <1>s. ASSUME UNCHANGED <<Queue, received, items, dropped>>
        PROVE  [Fifo!FifoNext]_(Fifo!fifoVars)
    BY <1>s DEF Fifo!fifoVars
  <1>1. CASE PushFull
    <2>1. Len(Queue) = Capacity
      BY <1>1, <1>q DEF PushFull, Full, RingInv, TypeOK
    <2>2. UNCHANGED Queue
      BY <1>1 DEF PushFull, Queue, Slot
    <2>. QED  BY <1>1, <2>1, <2>2 DEF PushFull, Fifo!Refuse, Fifo!FifoNext
  <1>2. CASE PushBegin
    BY <1>2, <1>s DEF PushBegin, Queue, Slot, RingInv, TypeOK
  <1>3. CASE PushWrite
    <2>1. UNCHANGED Queue
      <3>1. \A i \in 1 .. head - tail : Queue'[i] = Queue[i]
        <4> SUFFICES ASSUME NEW i \in 1 .. head - tail PROVE Queue'[i] = Queue[i]
          OBVIOUS
        <4>1. tail + i - 1 \in Nat /\ Slot(tail + i - 1) # Slot(head)
          BY <1>3, SlotsDiffer DEF PushWrite, RingInv, TypeOK, WriterInv
        <4>2. data'[Slot(tail + i - 1)] = data[Slot(tail + i - 1)]
          BY <1>3, <4>1, SlotInRange DEF PushWrite, RingInv, TypeOK
        <4>. QED  BY <1>3, <1>q, <4>2 DEF PushWrite
      <3>. QED  BY <1>3, <1>q, <3>1 DEF PushWrite
    <2>. QED  BY <1>3, <1>s, <2>1 DEF PushWrite
  <1>4. CASE PushPublish
    <2>1. /\ head' = head + 1 /\ UNCHANGED <<tail, data, received, dropped, offered>>
          /\ head \in Nat /\ tail \in Nat /\ head - tail \in Nat
          /\ data[Slot(head)] = offered /\ head - tail < Capacity
      BY <1>4 DEF PushPublish, RingInv, TypeOK, WriterInv
    <2>2. ASSUME NEW i \in 1 .. head - tail PROVE Queue'[i] = Queue[i]
      <3>1. i \in 1 .. head' - tail'
        BY <2>1
      <3>. QED  BY <1>q, <2>1, <3>1
    <2>3. Queue'[head - tail + 1] = offered
      <3>1. tail + (head - tail + 1) - 1 = head
        BY <2>1
      <3>. QED  BY <1>q, <2>1, <3>1
    <2>4. Queue' = Append(Queue, offered)
      BY <1>q, <2>1, <2>2, <2>3
    <2>5. items < MaxItems /\ items' = items + 1 /\ items' = offered
      BY <1>4 DEF PushPublish, RingInv, TypeOK, WriterInv
    <2>. QED  BY <1>q, <2>1, <2>4, <2>5 DEF Fifo!Put, Fifo!FifoNext
  <1>5. ASSUME NEW maxCount \in 1 .. MaxBatch, PopBegin(maxCount)
        PROVE  [Fifo!FifoNext]_(Fifo!fifoVars)
    BY <1>5, <1>s DEF PopBegin, Queue, Slot
  <1>6. CASE PopCopy
    BY <1>6, <1>s DEF PopCopy, Queue, Slot
  <1>7. CASE PopPublish
    <2>1. /\ tail' = tail + rn /\ UNCHANGED <<head, data, dropped, offered, wpc>>
          /\ received' = received \o out /\ Len(out) = rn /\ rn \in Nat
          /\ rn <= head - tail /\ tail \in Nat /\ head \in Nat
      BY <1>7 DEF PopPublish, RingInv, TypeOK, ReaderInv
    <2>2. out = SubSeq(Queue, 1, rn)
      <3>1. \A i \in 1 .. rn : out[i] = Queue[i]
        <4> SUFFICES ASSUME NEW i \in 1 .. rn PROVE out[i] = Queue[i]
          OBVIOUS
        <4>1. out[i] = data[Slot(tail + i - 1)]
          BY <2>1 DEF RingInv, ReaderInv
        <4>2. i \in 1 .. head - tail
          BY <2>1
        <4>. QED  BY <1>q, <4>1, <4>2
      <3>. QED  BY <1>q, <2>1, <3>1 DEF RingInv, TypeOK
    <2>3. Queue' = SubSeq(Queue, rn + 1, Len(Queue))
      <3>1. \A i \in 1 .. head - (tail + rn) : Queue'[i] = Queue[rn + i]
        <4> SUFFICES ASSUME NEW i \in 1 .. head - (tail + rn) PROVE Queue'[i] = Queue[rn + i]
          OBVIOUS
        <4>1. tail + rn + i - 1 = tail + (rn + i) - 1 /\ rn + i \in 1 .. head - tail
          BY <2>1
        <4>2. Queue'[i] = data[Slot(tail + rn + i - 1)]
          BY <1>q, <2>1
        <4>. QED  BY <1>q, <4>1, <4>2
      <3>2. Len(Queue') = Len(SubSeq(Queue, rn + 1, Len(Queue)))
        BY <1>q, <2>1
      <3>. QED  BY <1>q, <2>1, <3>1, <3>2
    <2>4. CASE rn = 0
      BY <1>s, <2>1, <2>2, <2>3, <2>4, <1>q DEF RingInv, TypeOK
    <2>5. CASE rn # 0
      <3>1. rn \in 1 .. Len(Queue)
        BY <1>q, <2>1, <2>5
      <3>. QED  BY <2>1, <2>2, <2>3, <3>1 DEF Fifo!Take, Fifo!FifoNext
    <2>. QED  BY <2>4, <2>5
  <1>8. CASE UNCHANGED vars
    BY <1>8, <1>s DEF vars, Queue, Slot
  <1>. QED  BY <1>1, <1>2, <1>3, <1>4, <1>5, <1>6, <1>7, <1>8 DEF Next, Push, PopBatch, Finished

\* For every capacity and batch size the ring loses, repeats, tears and reorders
\* nothing, and refuses a sample only when it is full.
THEOREM RingIsFifo == Spec => ImplementsFifo
  BY RefinesInit, RefinesStep, RingAlways, PTL DEF Spec, ImplementsFifo, Fifo!FifoSpec




-----------------------------------------------------------------------------
(* The indices wrap once at most.                                          *)

LEMMA WrapOnce ==
  ASSUME NEW C \in Nat \ {0}, NEW a \in Nat, a < C + C
  PROVE  a % C = IF a < C THEN a ELSE a - C
  <1>1. PICK q \in Int, r \in 0 .. C - 1 : a = C * q + r /\ a % C = r
    <2>1. a \div C \in Int
      OBVIOUS
    <2>2. a % C \in 0 .. C - 1
      OBVIOUS
    <2>3. a = C * (a \div C) + (a % C)
      OBVIOUS
    <2>. QED  BY <2>1, <2>2, <2>3
  <1>2. CASE q <= -1
    <2>1. C * q <= -C
      BY <1>2
    <2>. QED  BY <1>1, <2>1
  <1>3. CASE q = 0
    BY <1>1, <1>3
  <1>4. CASE q = 1
    BY <1>1, <1>4
  <1>5. CASE q >= 2
    <2>1. C * q >= C + C
      BY <1>5
    <2>. QED  BY <1>1, <2>1
  <1>. QED  BY <1>1, <1>2, <1>3, <1>4, <1>5

\* the slot n places behind index h, and the distance of two indices
Place(h, n)    == (h + n) % N
Distance(h, t) == (t + N - h) % N

LEMMA Places ==
  ASSUME NEW h \in 0 .. N - 1
  PROVE  /\ \A n \in 0 .. N - 1 : /\ Place(h, n) \in 0 .. N - 1
                                  /\ Place(h, n) = IF h + n < N THEN h + n ELSE h + n - N
         /\ Fixed!NextIndex(h) \in 0 .. N - 1
         /\ Fixed!NextIndex(h) = IF h + 1 < N THEN h + 1 ELSE 0
  <1>1. ASSUME NEW n \in 0 .. N - 1 PROVE Place(h, n) = IF h + n < N THEN h + n ELSE h + n - N
    <2>1. PICK a \in Nat : a = h + n
      BY PairsAssumption
    <2>2. a < N + N /\ N \in Nat \ {0}
      BY <2>1, PairsAssumption
    <2>3. a % N = IF a < N THEN a ELSE a - N
      BY <2>2, WrapOnce, Zenon
    <2>4. Place(h, n) = a % N
      BY <2>1, Zenon DEF Place
    <2>5. Place(h, n) = IF a < N THEN a ELSE a - N
      BY <2>3, <2>4, Zenon
    <2>. QED  BY <2>1, <2>5, PairsAssumption
  <1>2. ASSUME NEW n \in 0 .. N - 1 PROVE Place(h, n) \in 0 .. N - 1
    BY <1>1, PairsAssumption
  <1>3. Fixed!NextIndex(h) = Place(h, 1) /\ 1 \in 0 .. N - 1
    BY PairsAssumption DEF Fixed!NextIndex, Place
  <1>4. Fixed!NextIndex(h) = IF h + 1 < N THEN h + 1 ELSE 0
    BY <1>1, <1>3, PairsAssumption
  <1>. QED  BY <1>1, <1>2, <1>3, <1>4

LEMMA Distances ==
  ASSUME NEW h \in 0 .. N - 1, NEW t \in 0 .. N - 1
  PROVE  /\ Distance(h, t) \in 0 .. N - 1
         /\ Distance(h, t) = IF t < h THEN t + N - h ELSE t - h
  <1>1. PICK a \in Nat : a = t + N - h
    BY PairsAssumption
  <1>2. a < N + N /\ N \in Nat \ {0}
    BY <1>1, PairsAssumption
  <1>3. a % N = IF a < N THEN a ELSE a - N
    BY <1>2, WrapOnce, Zenon
  <1>4. Distance(h, t) = a % N
    BY <1>1, Zenon DEF Distance
  <1>5. Distance(h, t) = IF a < N THEN a ELSE a - N
    BY <1>4, <1>3, Zenon
  <1>. QED  BY <1>1, <1>5, PairsAssumption

\* What lies between the indices never falls on the slot of the writer; one slot stays free.
LEMMA Between ==
  ASSUME NEW h \in 0 .. N - 1, NEW t \in 0 .. N - 1
  PROVE  /\ \A n \in 0 .. N - 1 : n < Distance(h, t) => Place(h, n) # t
         /\ Place(h, Distance(h, t)) = t
         /\ Fixed!NextIndex(t) = h <=> Distance(h, t) = N - 1
         /\ Fixed!NextIndex(t) # h => Distance(h, Fixed!NextIndex(t)) = Distance(h, t) + 1
         /\ h # t => /\ Distance(Fixed!NextIndex(h), t) = Distance(h, t) - 1
                     /\ \A n \in 0 .. N - 2 : Place(Fixed!NextIndex(h), n) = Place(h, n + 1)
         /\ h = t <=> Distance(h, t) = 0
  <1>1. Distance(h, t) \in 0 .. N - 1 /\ Distance(h, t) = IF t < h THEN t + N - h ELSE t - h
    BY Distances
  <1>2. \A n \in 0 .. N - 1 : Place(h, n) = IF h + n < N THEN h + n ELSE h + n - N
    BY Places
  <1>3. /\ Fixed!NextIndex(t) \in 0 .. N - 1 /\ Fixed!NextIndex(t) = IF t + 1 < N THEN t + 1 ELSE 0
        /\ Fixed!NextIndex(h) \in 0 .. N - 1 /\ Fixed!NextIndex(h) = IF h + 1 < N THEN h + 1 ELSE 0
    BY Places
  <1>4. /\ Distance(h, Fixed!NextIndex(t)) =
             IF Fixed!NextIndex(t) < h THEN Fixed!NextIndex(t) + N - h ELSE Fixed!NextIndex(t) - h
        /\ Distance(Fixed!NextIndex(h), t) =
             IF t < Fixed!NextIndex(h) THEN t + N - Fixed!NextIndex(h) ELSE t - Fixed!NextIndex(h)
    BY <1>3, Distances
  <1>5. \A n \in 0 .. N - 1 :
          Place(Fixed!NextIndex(h), n) =
            IF Fixed!NextIndex(h) + n < N THEN Fixed!NextIndex(h) + n ELSE Fixed!NextIndex(h) + n - N
    BY <1>3, Places
  <1>6. ASSUME NEW n \in 0 .. N - 1, n < Distance(h, t) PROVE Place(h, n) # t
    BY <1>1, <1>2, <1>6, PairsAssumption
  <1>7. Place(h, Distance(h, t)) = t
    BY <1>1, <1>2, PairsAssumption
  <1>8. Fixed!NextIndex(t) = h <=> Distance(h, t) = N - 1
    BY <1>1, <1>3, PairsAssumption
  <1>9. Fixed!NextIndex(t) # h => Distance(h, Fixed!NextIndex(t)) = Distance(h, t) + 1
    BY <1>1, <1>3, <1>4, PairsAssumption
  <1>10. h # t => Distance(Fixed!NextIndex(h), t) = Distance(h, t) - 1
    BY <1>1, <1>3, <1>4, PairsAssumption
  <1>11. ASSUME NEW n \in 0 .. N - 2 PROVE Place(Fixed!NextIndex(h), n) = Place(h, n + 1)
    <2>1. n \in 0 .. N - 1 /\ n + 1 \in 0 .. N - 1
      BY PairsAssumption
    <2>2. Place(h, n + 1) = IF h + (n + 1) < N THEN h + (n + 1) ELSE h + (n + 1) - N
      BY <1>2, <2>1
    <2>3. Place(Fixed!NextIndex(h), n) =
            IF Fixed!NextIndex(h) + n < N THEN Fixed!NextIndex(h) + n ELSE Fixed!NextIndex(h) + n - N
      BY <1>5, <2>1
    <2>. QED  BY <1>3, <2>1, <2>2, <2>3, PairsAssumption
  <1>12. h = t <=> Distance(h, t) = 0
    BY <1>1, PairsAssumption
  <1>. QED  BY <1>6, <1>7, <1>8, <1>9, <1>10, <1>11, <1>12

-----------------------------------------------------------------------------
(* The inductive invariant: a frame half pushed has a free slot, and the   *)
(* frame being popped is the one at the front; the ring is cleared, and    *)
(* the Kafka thread started again, only between the exit of one thread     *)
(* and the start of the next.                                              *)

FixedWriter ==
  /\ foffered <= MaxFrames
  /\ fwpc \in {"write", "publish"} => Fixed!NextIndex(ftail) # fhead /\ foffered >= 1
  /\ fwpc = "publish" => buf[ftail] = foffered

FixedReader ==
  frpc = "publish" => fhead # ftail /\ frame = buf[fhead]

ResetInv ==
  /\ fwpc = "exited" => frpc \in {"join", "restart"}
  /\ stop => frpc \in {"join", "restart"}
  /\ frpc = "restart" => fwpc = "exited" /\ fhead = 0 /\ ftail = 0

FixedInv == Fixed!TypeOK /\ FixedWriter /\ FixedReader /\ ResetInv

LEMMA FixedInit == Fixed!Init => FixedInv
  BY PairsAssumption DEF Fixed!Init, FixedInv, Fixed!TypeOK, FixedWriter, FixedReader, ResetInv

LEMMA FixedStep == FixedInv /\ [Fixed!Next]_(Fixed!vars) => FixedInv'
  <1> SUFFICES ASSUME FixedInv, [Fixed!Next]_(Fixed!vars) PROVE FixedInv'
    OBVIOUS
  <1> USE DEF FixedInv
  <1>0. /\ Fixed!NextIndex(fhead) \in 0 .. N - 1
        /\ Fixed!NextIndex(ftail) \in 0 .. N - 1
        /\ 0 \in 0 .. N - 1
    <2>1. fhead \in 0 .. N - 1 /\ ftail \in 0 .. N - 1
      BY DEF Fixed!TypeOK
    <2>2. 0 \in 0 .. N - 1
      BY PairsAssumption
    <2>3. Fixed!NextIndex(fhead) \in 0 .. N - 1 /\ Fixed!NextIndex(ftail) \in 0 .. N - 1
      BY <2>1, Places
    <2>. QED  BY <2>2, <2>3
  <1>1. CASE Fixed!PushFull
    BY <1>1, PairsAssumption DEF Fixed!PushFull, Fixed!TypeOK, FixedWriter, FixedReader, ResetInv
  <1>2. CASE Fixed!PushBegin
    BY <1>2, PairsAssumption DEF Fixed!PushBegin, Fixed!Full, Fixed!TypeOK, FixedWriter, FixedReader, ResetInv
  <1>3. CASE Fixed!PushWrite
    <2>1. frpc = "publish" => buf'[fhead] = buf[fhead]
      BY <1>3 DEF Fixed!PushWrite, Fixed!TypeOK, FixedReader
    <2>2. buf' \in [0 .. N - 1 -> Nat] /\ buf'[ftail] = foffered
      BY <1>3 DEF Fixed!PushWrite, Fixed!TypeOK
    <2>. QED  BY <1>3, <2>1, <2>2 DEF Fixed!PushWrite, Fixed!TypeOK, FixedWriter, FixedReader, ResetInv
  <1>4. CASE Fixed!PushPublish
    <2>1. ftail' # fhead
      BY <1>4 DEF Fixed!PushPublish, FixedWriter
    <2>. QED  BY <1>0, <1>4, <2>1 DEF Fixed!PushPublish, Fixed!TypeOK, FixedWriter, FixedReader, ResetInv
  <1>5. CASE Fixed!KafkaThreadExit
    BY <1>5 DEF Fixed!KafkaThreadExit, Fixed!StopRequested, Fixed!TypeOK, FixedWriter, FixedReader, ResetInv
  <1>6. CASE Fixed!PopCopy
    BY <1>6 DEF Fixed!PopCopy, Fixed!TypeOK, FixedWriter, FixedReader, ResetInv
  <1>7. CASE Fixed!PopPublish
    \* the slot the reader frees is not one the writer needs
    <2>1. ASSUME fhead # ftail PROVE Fixed!NextIndex(ftail) # Fixed!NextIndex(fhead)
      <3>1. /\ Fixed!NextIndex(fhead) = IF fhead + 1 < N THEN fhead + 1 ELSE 0
            /\ Fixed!NextIndex(ftail) = IF ftail + 1 < N THEN ftail + 1 ELSE 0
        BY Places DEF Fixed!TypeOK
      <3>. QED  BY <2>1, <3>1, PairsAssumption DEF Fixed!TypeOK
    <2>2. freceived' \in Seq(Nat)
      BY <1>7 DEF Fixed!PopPublish, Fixed!TypeOK
    <2>. QED  BY <1>0, <1>7, <2>1, <2>2 DEF Fixed!PopPublish, Fixed!TypeOK, FixedWriter, FixedReader, ResetInv
  <1>8. CASE Fixed!RequestStop
    BY <1>8 DEF Fixed!RequestStop, Fixed!TypeOK, FixedWriter, FixedReader, ResetInv
  <1>9. CASE Fixed!JoinAndClear
    BY <1>0, <1>9 DEF Fixed!JoinAndClear, Fixed!TypeOK, FixedWriter, FixedReader, ResetInv
  <1>10. CASE Fixed!Restart
    BY <1>10 DEF Fixed!Restart, Fixed!TypeOK, FixedWriter, FixedReader, ResetInv
  <1>11. CASE UNCHANGED Fixed!vars
    BY <1>11 DEF Fixed!vars, Fixed!TypeOK, FixedWriter, FixedReader, ResetInv, Fixed!NextIndex
  <1>. QED  BY <1>1, <1>2, <1>3, <1>4, <1>5, <1>6, <1>7, <1>8, <1>9, <1>10, <1>11
             DEF Fixed!Next, Fixed!KafkaThread, Fixed!EventLoop, Fixed!Finished

LEMMA FixedAlways == Fixed!Spec => []FixedInv
  BY FixedInit, FixedStep, PTL DEF Fixed!Spec

\* The masked indices stay inside m_buf, and no call finds the other thread where the protocol
\* of a session switch does not allow it.
THEOREM FixedRingTypeCorrect == Fixed!Spec => []Fixed!TypeOK
  <1>1. FixedInv => Fixed!TypeOK
    BY DEF FixedInv
  <1>. QED  BY FixedAlways, <1>1, PTL

\* clear() (m_head, then m_tail, with no protection of its own) and the start of the next Kafka
\* thread never meet a thread that is still pushing: KafkaReader::Reset is called after the join.
THEOREM ClearedAlone ==
  Fixed!Spec => [](/\ frpc = "restart" => fwpc = "exited"
                   /\ fwpc = "exited" => frpc \in {"join", "restart"})
  <1>1. FixedInv => /\ frpc = "restart" => fwpc = "exited"
                    /\ fwpc = "exited" => frpc \in {"join", "restart"}
    BY DEF FixedInv, ResetInv
  <1>. QED  BY FixedAlways, <1>1, PTL

-----------------------------------------------------------------------------
(* Refinement. The queue of the abstract channel is what lies between the  *)
(* indices; the clear is the step that throws it away.                     *)

\* the frames from index h up to index t
Items(b, h, t) == [i \in 1 .. Distance(h, t) |-> b[(h + i - 1) % N]]

LEMMA ItemsFacts ==
  ASSUME NEW b \in [0 .. N - 1 -> Nat], NEW h \in 0 .. N - 1, NEW t \in 0 .. N - 1
  PROVE  /\ Items(b, h, t) \in Seq(Nat)
         /\ Len(Items(b, h, t)) = Distance(h, t)
         /\ \A i \in 1 .. Distance(h, t) : Items(b, h, t)[i] = b[Place(h, i - 1)]
  <1>1. Distance(h, t) \in 0 .. N - 1
    BY Distances
  <1>2. ASSUME NEW i \in 1 .. Distance(h, t)
        PROVE  b[(h + i - 1) % N] = b[Place(h, i - 1)] /\ b[Place(h, i - 1)] \in Nat
    <2>1. i - 1 \in 0 .. N - 1 /\ h + i - 1 = h + (i - 1)
      BY <1>1, PairsAssumption
    <2>2. (h + i - 1) % N = Place(h, i - 1)
      BY <2>1, Zenon DEF Place
    <2>3. Place(h, i - 1) \in 0 .. N - 1
      BY <2>1, Places
    <2>. QED  BY <2>2, <2>3
  <1>3. ASSUME NEW i \in 1 .. Distance(h, t) PROVE Items(b, h, t)[i] = b[Place(h, i - 1)]
    <2>1. Items(b, h, t)[i] = b[(h + i - 1) % N]
      BY Zenon DEF Items
    <2>. QED  BY <1>2, <2>1, Zenon
  <1>4. Distance(h, t) \in Nat
    BY <1>1, PairsAssumption
  <1>5. Items(b, h, t) \in [1 .. Distance(h, t) -> Nat]
    <2>1. \A i \in 1 .. Distance(h, t) : b[(h + i - 1) % N] \in Nat
      BY <1>2, Zenon
    <2>. QED  BY <2>1, Zenon DEF Items
  <1>. QED  BY <1>3, <1>4, <1>5

LEMMA OneItem ==
  ASSUME NEW s \in Seq(Nat), Len(s) = 1
  PROVE  s = <<s[1]>>
  <1>1. PICK x \in Nat : x = s[1]
    OBVIOUS
  <1>2. <<x>> \in Seq(Nat) /\ Len(<<x>>) = 1 /\ <<x>>[1] = x
    OBVIOUS
  <1>3. s = <<x>>
    BY <1>1, <1>2
  <1>. QED  BY <1>1, <1>3

LEMMA QueueIsItems == Fixed!Queue = Items(buf, fhead, ftail) /\ Fixed!Queue' = Items(buf', fhead', ftail')
  BY Zenon DEF Fixed!Queue, Items, Fixed!Size, Distance

LEMMA FixedRefinesInit == Fixed!Init => Fixed!Fifo!FifoInit
  <1> SUFFICES ASSUME Fixed!Init PROVE Fixed!Fifo!FifoInit
    OBVIOUS
  <1>1. FixedInv
    BY FixedInit
  <1>2. Distance(fhead, ftail) = 0
    BY <1>1, Between DEF Fixed!Init, FixedInv, Fixed!TypeOK
  <1>3. Len(Fixed!Queue) = 0 /\ Fixed!Queue \in Seq(Nat)
    BY <1>1, <1>2, ItemsFacts, QueueIsItems DEF FixedInv, Fixed!TypeOK
  <1>. QED  BY <1>3 DEF Fixed!Init, Fixed!Fifo!FifoInit

LEMMA FixedRefinesStep ==
  FixedInv /\ [Fixed!Next]_(Fixed!vars) => [Fixed!Fifo!FifoNext \/ Fixed!Fifo!Discard]_(Fixed!Fifo!fifoVars)
  <1> SUFFICES ASSUME FixedInv, [Fixed!Next]_(Fixed!vars)
               PROVE  [Fixed!Fifo!FifoNext \/ Fixed!Fifo!Discard]_(Fixed!Fifo!fifoVars)
    OBVIOUS
  <1>0. FixedInv'
    BY FixedStep
  <1> DEFINE items == IF fwpc \in {"idle", "exited"} THEN foffered ELSE foffered - 1
             size  == Distance(fhead, ftail)
             size1 == Distance(fhead', ftail')
  <1>q. /\ Fixed!Queue \in Seq(Nat) /\ Len(Fixed!Queue) = size /\ size \in 0 .. N - 1
        /\ \A i \in 1 .. size : Fixed!Queue[i] = buf[Place(fhead, i - 1)]
    <2>1. buf \in [0 .. N - 1 -> Nat] /\ fhead \in 0 .. N - 1 /\ ftail \in 0 .. N - 1
      BY DEF FixedInv, Fixed!TypeOK
    <2>2. size \in 0 .. N - 1
      BY <2>1, Distances
    <2>3. /\ Items(buf, fhead, ftail) \in Seq(Nat)
          /\ Len(Items(buf, fhead, ftail)) = size
          /\ \A i \in 1 .. size : Items(buf, fhead, ftail)[i] = buf[Place(fhead, i - 1)]
      BY <2>1, ItemsFacts
    <2>. QED  BY <2>2, <2>3, QueueIsItems, Zenon
  <1>r. /\ Fixed!Queue' \in Seq(Nat) /\ Len(Fixed!Queue') = size1 /\ size1 \in 0 .. N - 1
        /\ \A i \in 1 .. size1 : Fixed!Queue'[i] = buf'[Place(fhead', i - 1)]
    <2>1. buf' \in [0 .. N - 1 -> Nat] /\ fhead' \in 0 .. N - 1 /\ ftail' \in 0 .. N - 1
      BY <1>0 DEF FixedInv, Fixed!TypeOK
    <2>2. size1 \in 0 .. N - 1
      BY <2>1, Distances
    <2>3. /\ Items(buf', fhead', ftail') \in Seq(Nat)
          /\ Len(Items(buf', fhead', ftail')) = size1
          /\ \A i \in 1 .. size1 : Items(buf', fhead', ftail')[i] = buf'[Place(fhead', i - 1)]
      BY <2>1, ItemsFacts
    <2>. QED  BY <2>2, <2>3, QueueIsItems, Zenon
  <1>t. /\ fhead \in 0 .. N - 1 /\ ftail \in 0 .. N - 1 /\ buf \in [0 .. N - 1 -> Nat] /\ foffered \in Nat
        /\ N \in Nat \ {0, 1}
    BY PairsAssumption DEF FixedInv, Fixed!TypeOK
  \* the steps inside a call, and those of the thread's life, are invisible
  <1>s. ASSUME UNCHANGED <<Fixed!Queue, freceived, items, fdropped>>
        PROVE  [Fixed!Fifo!FifoNext \/ Fixed!Fifo!Discard]_(Fixed!Fifo!fifoVars)
    BY <1>s DEF Fixed!Fifo!fifoVars
  <1>u. ASSUME UNCHANGED <<buf, fhead, ftail>> PROVE UNCHANGED Fixed!Queue
    BY <1>u, QueueIsItems, Zenon
  <1>1. CASE Fixed!PushFull
    <2>1. size = N - 1
      BY <1>1, <1>t, Between DEF Fixed!PushFull, Fixed!Full
    <2>2. UNCHANGED Fixed!Queue
      BY <1>1, <1>u DEF Fixed!PushFull
    <2>3. items = foffered /\ items' = foffered + 1 /\ foffered < MaxFrames
      BY <1>1 DEF Fixed!PushFull
    <2>. QED  BY <1>1, <1>q, <2>1, <2>2, <2>3 DEF Fixed!PushFull, Fixed!Fifo!Refuse, Fixed!Fifo!FifoNext
  <1>2. CASE Fixed!PushBegin
    <2>1. UNCHANGED items
      BY <1>2, <1>t DEF Fixed!PushBegin
    <2>. QED  BY <1>2, <1>s, <1>u, <2>1 DEF Fixed!PushBegin
  <1>3. CASE Fixed!PushWrite
    <2>1. UNCHANGED <<fhead, ftail, freceived, fdropped, items>> /\ buf' = [buf EXCEPT ![ftail] = foffered]
      BY <1>3 DEF Fixed!PushWrite
    <2>2. ASSUME NEW i \in 1 .. size PROVE Fixed!Queue'[i] = Fixed!Queue[i]
      <3>1. i - 1 \in 0 .. N - 1 /\ i - 1 < size
        BY <1>q, <1>t
      <3>2. Place(fhead, i - 1) # ftail /\ Place(fhead, i - 1) \in 0 .. N - 1
        BY <1>t, <3>1, Places, Between
      <3>3. buf'[Place(fhead, i - 1)] = buf[Place(fhead, i - 1)]
        BY <1>t, <2>1, <3>2
      <3>. QED  BY <1>q, <1>r, <2>1, <3>3
    <2>3. size1 = size
      BY <2>1
    <2>4. UNCHANGED Fixed!Queue
      BY <1>q, <1>r, <2>2, <2>3
    <2>. QED  BY <1>s, <2>1, <2>4
  <1>4. CASE Fixed!PushPublish
    <2>1. /\ ftail' = Fixed!NextIndex(ftail) /\ UNCHANGED <<fhead, buf, freceived, fdropped, foffered>>
          /\ fwpc = "publish" /\ fwpc' = "idle" /\ buf[ftail] = foffered /\ Fixed!NextIndex(ftail) # fhead
          /\ foffered >= 1 /\ foffered <= MaxFrames
      BY <1>4 DEF Fixed!PushPublish, FixedInv, FixedWriter
    <2>2. size1 = size + 1 /\ Place(fhead, size) = ftail /\ size # N - 1
      BY <1>t, <2>1, Between
    <2>3. ASSUME NEW i \in 1 .. size PROVE Fixed!Queue'[i] = Fixed!Queue[i]
      <3>1. i \in 1 .. size1
        BY <1>q, <2>2
      <3>. QED  BY <1>q, <1>r, <2>1, <3>1
    <2>4. Fixed!Queue'[size + 1] = foffered
      <3>1. size + 1 \in 1 .. size1 /\ (size + 1) - 1 = size
        BY <1>q, <2>2
      <3>2. Fixed!Queue'[size + 1] = buf'[Place(fhead', (size + 1) - 1)]
        BY <1>r, <3>1
      <3>. QED  BY <2>1, <2>2, <3>1, <3>2
    <2>5. Fixed!Queue' = Append(Fixed!Queue, foffered)
      <3> HIDE DEF size, size1
      <3>. QED  BY <1>q, <1>r, <1>t, <2>2, <2>3, <2>4
    <2>6. items < MaxFrames /\ items' = items + 1 /\ items' = foffered
      BY <1>t, <2>1, PairsAssumption
    <2>7. Len(Fixed!Queue) < N - 1
      BY <1>q, <1>t, <2>2
    <2>. QED  BY <2>1, <2>5, <2>6, <2>7 DEF Fixed!Fifo!Put, Fixed!Fifo!FifoNext
  <1>5. CASE Fixed!KafkaThreadExit
    <2>1. UNCHANGED items
      BY <1>5 DEF Fixed!KafkaThreadExit
    <2>. QED  BY <1>5, <1>s, <1>u, <2>1 DEF Fixed!KafkaThreadExit
  <1>6. CASE Fixed!PopCopy
    <2>1. UNCHANGED items
      BY <1>6 DEF Fixed!PopCopy
    <2>. QED  BY <1>6, <1>s, <1>u, <2>1 DEF Fixed!PopCopy
  <1>7. CASE Fixed!PopPublish
    <2>1. /\ fhead' = Fixed!NextIndex(fhead) /\ UNCHANGED <<ftail, buf, fdropped, items>>
          /\ freceived' = Append(freceived, frame) /\ fhead # ftail /\ frame = buf[fhead]
      BY <1>7 DEF Fixed!PopPublish, FixedInv, FixedReader
    <2>2. /\ size1 = size - 1 /\ size # 0
          /\ \A n \in 0 .. N - 2 : Place(fhead', n) = Place(fhead, n + 1)
      BY <1>t, <2>1, Between
    <2>3. Fixed!Queue[1] = frame
      <3>1. 1 \in 1 .. size /\ 1 - 1 = 0 /\ 0 \in 0 .. N - 1
        BY <1>q, <1>t, <2>2
      <3>2. Place(fhead, 0) = fhead
        <4>1. Place(fhead, 0) = IF fhead + 0 < N THEN fhead + 0 ELSE fhead + 0 - N
          BY <1>t, <3>1, Places
        <4>. QED  BY <1>t, <4>1
      <3>3. Fixed!Queue[1] = buf[Place(fhead, 1 - 1)]
        BY <1>q, <3>1
      <3>. QED  BY <2>1, <3>1, <3>2, <3>3
    <2>4. ASSUME NEW i \in 1 .. size1 PROVE Fixed!Queue'[i] = Fixed!Queue[i + 1]
      <3>1. i - 1 \in 0 .. N - 2 /\ i + 1 \in 1 .. size /\ (i - 1) + 1 = i /\ (i + 1) - 1 = i
        BY <1>q, <1>r, <1>t, <2>2
      <3>2. Place(fhead', i - 1) = Place(fhead, (i - 1) + 1)
        BY <2>2, <3>1
      <3>3. Fixed!Queue'[i] = buf[Place(fhead', i - 1)]
        BY <1>r, <2>1
      <3>4. Fixed!Queue[i + 1] = buf[Place(fhead, (i + 1) - 1)]
        BY <1>q, <3>1
      <3>. QED  BY <3>1, <3>2, <3>3, <3>4
    <2>5. /\ Fixed!Queue' = SubSeq(Fixed!Queue, 1 + 1, Len(Fixed!Queue))
          /\ freceived' = freceived \o SubSeq(Fixed!Queue, 1, 1)
          /\ 1 \in 1 .. Len(Fixed!Queue)
      <3>1. freceived \in Seq(Nat) /\ frame \in Nat
        BY DEF FixedInv, Fixed!TypeOK
      <3> HIDE DEF size, size1
      <3>2. Len(SubSeq(Fixed!Queue, 2, Len(Fixed!Queue))) = size1
        BY <1>q, <1>t, <2>2
      <3>3. Fixed!Queue' = SubSeq(Fixed!Queue, 2, Len(Fixed!Queue))
        <4>1. ASSUME NEW i \in 1 .. size1 PROVE SubSeq(Fixed!Queue, 2, Len(Fixed!Queue))[i] = Fixed!Queue[i + 1]
          BY <1>q, <1>r, <1>t, <2>2
        <4>. QED  BY <1>q, <1>r, <1>t, <2>2, <2>4, <3>2, <4>1
      <3>4. SubSeq(Fixed!Queue, 1, 1) = <<frame>>
        <4>1. Fixed!Queue \in Seq(Nat) /\ Len(Fixed!Queue) >= 1 /\ Fixed!Queue[1] = frame
          BY <1>q, <1>t, <2>2, <2>3
        <4>2. /\ SubSeq(Fixed!Queue, 1, 1) \in Seq(Nat) /\ Len(SubSeq(Fixed!Queue, 1, 1)) = 1
              /\ SubSeq(Fixed!Queue, 1, 1)[1] = Fixed!Queue[1]
          BY <4>1
        <4>. QED  BY <3>1, <4>1, <4>2, OneItem
      <3>5. freceived' = freceived \o <<frame>>
        BY <2>1, <3>1
      <3>6. 1 \in 1 .. Len(Fixed!Queue)
        BY <1>q, <1>t, <2>2
      <3>7. 1 + 1 = 2
        OBVIOUS
      <3>. QED  BY <3>3, <3>4, <3>5, <3>6, <3>7, Zenon
    <2>. QED  BY <2>1, <2>5 DEF Fixed!Fifo!Take, Fixed!Fifo!FifoNext
  <1>8. CASE Fixed!RequestStop
    <2>1. UNCHANGED items
      BY <1>8 DEF Fixed!RequestStop
    <2>. QED  BY <1>8, <1>s, <1>u, <2>1 DEF Fixed!RequestStop
  <1>9. CASE Fixed!JoinAndClear
    <2>1. fhead' = ftail' /\ UNCHANGED <<freceived, items, fdropped>>
      BY <1>9 DEF Fixed!JoinAndClear
    <2>2. size1 = 0
      <3>1. fhead' \in 0 .. N - 1 /\ ftail' \in 0 .. N - 1
        BY <1>0 DEF FixedInv, Fixed!TypeOK
      <3>. QED  BY <2>1, <3>1, Between
    <2>3. Fixed!Queue' = <<>>
      BY <1>r, <2>2
    <2>. QED  BY <2>1, <2>3 DEF Fixed!Fifo!Discard
  <1>10. CASE Fixed!Restart
    <2>1. UNCHANGED items
      BY <1>10 DEF Fixed!Restart, FixedInv, ResetInv
    <2>. QED  BY <1>10, <1>s, <1>u, <2>1 DEF Fixed!Restart
  <1>11. CASE UNCHANGED Fixed!vars
    BY <1>11, <1>s, <1>u DEF Fixed!vars
  <1>. QED  BY <1>1, <1>2, <1>3, <1>4, <1>5, <1>6, <1>7, <1>8, <1>9, <1>10, <1>11
             DEF Fixed!Next, Fixed!KafkaThread, Fixed!EventLoop, Fixed!Finished

\* For every number of slots the ring of kv8zoom loses, repeats and reorders no frame, refuses
\* one only when N - 1 are waiting, and pops no frame pushed before the clear after it.
THEOREM FixedRingIsFifo == Fixed!Spec => FixedImplementsFifo
  BY FixedRefinesInit, FixedRefinesStep, FixedAlways, PTL
     DEF Fixed!Spec, FixedImplementsFifo, Fixed!ImplementsFifo, Fixed!Fifo!ResettableFifoSpec

-----------------------------------------------------------------------------
(* Induction over the numbers, and what a fold of a sequence computes.     *)

Below == {p \in Nat \X Nat : p[1] < p[2]}

LEMMA BelowWF == IsWellFoundedOn(Below, Nat)
  BY NatLessThanWellFounded DEF OpToRel, Below

\* Induction over the naturals, for a set.
LEMMA NatSetInduction ==
  ASSUME NEW S, S \subseteq Nat, 0 \in S, \A n \in S : n + 1 \in S
  PROVE  S = Nat
<1> SUFFICES ASSUME Nat \ S # {} PROVE FALSE
  OBVIOUS
<1>1. \E x \in Nat \ S : \A y \in Nat \ S : ~ (<<y, x>> \in Below)
  BY BelowWF, WFMin
<1>2. PICK x \in Nat \ S : \A y \in Nat \ S : ~ (<<y, x>> \in Below)
  BY <1>1
<1>3. x # 0 /\ x - 1 \in Nat /\ <<x - 1, x>> \in Below
  BY DEF Below
<1>4. x - 1 \in S /\ (x - 1) + 1 = x
  BY <1>2, <1>3
<1>. QED  BY <1>4

Top(s) == CHOOSE x \in s : \A y \in s : x >= y

LEMMA TopIs == ASSUME NEW S, NEW m \in S, S \subseteq Nat, \A x \in S : x <= m PROVE Top(S) = m
<1>1. \A y \in S : m >= y
  BY SMT
<1>2. Top(S) \in S /\ \A y \in S : Top(S) >= y
  BY <1>1, Zenon DEF Top
<1>3. Top(S) >= m /\ Top(S) <= m /\ Top(S) \in Nat /\ m \in Nat
  BY <1>2
<1>. QED  BY <1>3

LEMMA TopInterval ==
  ASSUME NEW n \in Nat, NEW s \in SUBSET (1 .. n), s # {}
  PROVE  Top(s) \in s /\ \A x \in s : x <= Top(s)
<1> DEFINE Good == {k \in Nat : \A t \in SUBSET (1 .. k) : t # {} => \E m \in t : \A x \in t : x <= m}
<1>1. 0 \in Good
  <2>1. 1 .. 0 = {}
    OBVIOUS
  <2>. QED  BY <2>1
<1>2. ASSUME NEW k \in Good PROVE k + 1 \in Good
  <2> SUFFICES ASSUME NEW t \in SUBSET (1 .. k + 1), t # {} PROVE \E m \in t : \A x \in t : x <= m
    OBVIOUS
  <2>1. CASE k + 1 \in t
    <3>1. \A x \in t : x <= k + 1
      OBVIOUS
    <3>. QED  BY <2>1, <3>1
  <2>2. CASE k + 1 \notin t
    <3>1. t \in SUBSET (1 .. k)
      BY <2>2
    <3>. QED  BY <3>1
  <2>. QED  BY <2>1, <2>2
<1>3. Good = Nat
  <2> HIDE DEF Good
  <2>1. Good \subseteq Nat
    BY DEF Good
  <2>. QED  BY <1>1, <1>2, <2>1, NatSetInduction
<1>4. n \in Good
  <2> HIDE DEF Good
  <2>. QED  BY <1>3
<1>5. PICK m \in s : \A x \in s : x <= m
  BY <1>4
<1>6. s \subseteq Nat
  OBVIOUS
<1>7. Top(s) = m
  BY <1>5, <1>6, TopIs
<1>. QED  BY <1>5, <1>7

\* A value for every subset of 1 .. n, from that for the subset without its
\* largest number: what the folds of the community modules iterate.
Iterates(g, T, F, b, n) ==
  /\ g \in [SUBSET (1 .. n) -> T]
  /\ \A s \in SUBSET (1 .. n) : g[s] = IF s = {} THEN b ELSE F[<<g[s \ {Top(s)}], Top(s)>>]

LEMMA IterationExists ==
  ASSUME NEW T, NEW b \in T, NEW m \in Nat, NEW F \in [T \X (1 .. m) -> T]
  PROVE  \E g : Iterates(g, T, F, b, m)
<1> DEFINE Good == {n \in Nat : n <= m => \E g : Iterates(g, T, F, b, n)}
<1>1. 0 \in Good
  <2> DEFINE z == [s \in SUBSET (1 .. 0) |-> b]
  <2>1. 1 .. 0 = {}
    OBVIOUS
  <2>2. \A s \in SUBSET (1 .. 0) : s = {} /\ z[s] = b
    BY <2>1
  <2>3. z \in [SUBSET (1 .. 0) -> T]
    OBVIOUS
  <2> HIDE DEF z
  <2>4. Iterates(z, T, F, b, 0)
    BY <2>2, <2>3 DEF Iterates
  <2>. QED  BY <2>4
<1>2. ASSUME NEW n \in Good PROVE n + 1 \in Good
  <2> SUFFICES ASSUME n + 1 <= m PROVE \E g : Iterates(g, T, F, b, n + 1)
    OBVIOUS
  <2>0. n \in Nat /\ n <= m /\ n + 1 \in 1 .. m
    OBVIOUS
  <2>1. PICK g : Iterates(g, T, F, b, n)
    BY <2>0
  <2>2. /\ g \in [SUBSET (1 .. n) -> T]
        /\ \A s \in SUBSET (1 .. n) : g[s] = IF s = {} THEN b ELSE F[<<g[s \ {Top(s)}], Top(s)>>]
    BY <2>1 DEF Iterates
  <2> DEFINE h == [s \in SUBSET (1 .. n + 1) |-> IF n + 1 \in s THEN F[<<g[s \ {n + 1}], n + 1>>] ELSE g[s]]
  <2>3. ASSUME NEW s \in SUBSET (1 .. n + 1)
        PROVE  h[s] \in T /\ h[s] = IF s = {} THEN b ELSE F[<<h[s \ {Top(s)}], Top(s)>>]
    <3>1. CASE n + 1 \in s
      <4>1. Top(s) = n + 1
        <5>1. s \subseteq Nat /\ \A x \in s : x <= n + 1
          BY <2>0
        <5>. QED  BY <3>1, <5>1, TopIs, Zenon
      <4>2. s \ {n + 1} \in SUBSET (1 .. n) /\ s \ {n + 1} \in SUBSET (1 .. n + 1) /\ n + 1 \notin s \ {n + 1}
        BY <2>0
      <4>3. h[s \ {n + 1}] = g[s \ {n + 1}] /\ g[s \ {n + 1}] \in T
        BY <2>2, <4>2
      <4>4. h[s] = F[<<g[s \ {n + 1}], n + 1>>]
        BY <3>1
      <4>5. F[<<g[s \ {n + 1}], n + 1>>] \in T
        <5>1. <<g[s \ {n + 1}], n + 1>> \in T \X (1 .. m)
          BY <2>0, <4>3, Zenon
        <5>. QED  BY <5>1
      <4> HIDE DEF h
      <4>. QED  BY <3>1, <4>1, <4>3, <4>4, <4>5
    <3>2. CASE n + 1 \notin s
      <4>0. s \in SUBSET (1 .. n)
        BY <2>0, <3>2
      <4>1. /\ s \ {Top(s)} \in SUBSET (1 .. n)
            /\ s \ {Top(s)} \in SUBSET (1 .. n + 1) /\ n + 1 \notin s \ {Top(s)}
        BY <3>2, <4>0
      <4>2. h[s] = g[s] /\ h[s \ {Top(s)}] = g[s \ {Top(s)}] /\ g[s] \in T
        BY <2>2, <3>2, <4>0, <4>1
      <4> HIDE DEF h
      <4>. QED  BY <2>2, <4>0, <4>2
    <3>. QED  BY <3>1, <3>2
  <2>4. h = [s \in SUBSET (1 .. n + 1) |-> h[s]]
    OBVIOUS
  <2> HIDE DEF h
  <2>5. h \in [SUBSET (1 .. n + 1) -> T]
    BY <2>3, <2>4
  <2>6. Iterates(h, T, F, b, n + 1)
    BY <2>3, <2>5 DEF Iterates
  <2>. QED  BY <2>6
<1>3. Good = Nat
  <2> HIDE DEF Good
  <2>1. Good \subseteq Nat
    BY DEF Good
  <2>. QED  BY <1>1, <1>2, <2>1, NatSetInduction
<1>4. m \in Good
  <2> HIDE DEF Good
  <2>. QED  BY <1>3
<1>. QED  BY <1>4

\* The values of such an iteration for 1 .. i are a history of the fold: each comes from the one
\* before it and the next item. The function need only be known where the values are of their type.
Keeps(F, T, n) == \A t \in T, i \in 1 .. n : F[<<t, i>>] \in T
Unfolds(g, F, b, n) ==
  \A s \in SUBSET (1 .. n) : g[s] = IF s = {} THEN b ELSE F[<<g[s \ {Top(s)}], Top(s)>>]
History(h, F, b, n) == h[0] = b /\ \A i \in 1 .. n : h[i] = F[<<h[i - 1], i>>]

Iteration(T, b, n, F, g) == b \in T /\ n \in Nat /\ Keeps(F, T, n) /\ Unfolds(g, F, b, n)

LEMMA IterationHistory ==
  ASSUME NEW T, NEW b, NEW n, NEW F, NEW g, Iteration(T, b, n, F, g)
  PROVE  \E h \in [0 .. n -> T] : History(h, F, b, n) /\ h[n] = g[1 .. n]
<1>00. b \in T /\ n \in Nat /\ Keeps(F, T, n) /\ Unfolds(g, F, b, n)
  BY Zenon DEF Iteration
<1>0. /\ \A t \in T, i \in 1 .. n : F[<<t, i>>] \in T
      /\ \A s \in SUBSET (1 .. n) : g[s] = IF s = {} THEN b ELSE F[<<g[s \ {Top(s)}], Top(s)>>]
  BY <1>00, Zenon DEF Keeps, Unfolds
<1> DEFINE h == [i \in 0 .. n |-> g[1 .. i]]
<1>1. h[0] = b
  <2>1. 1 .. 0 = {} /\ 1 .. 0 \in SUBSET (1 .. n)
    OBVIOUS
  <2>2. g[1 .. 0] = b
    BY <1>0, <2>1
  <2>3. 0 \in 0 .. n
    BY <1>00
  <2>. QED  BY <2>2, <2>3
<1>2. ASSUME NEW i \in 1 .. n PROVE h[i] = F[<<h[i - 1], i>>]
  <2>1. Top(1 .. i) = i
    <3>1. i \in 1 .. i /\ 1 .. i \subseteq Nat /\ \A x \in 1 .. i : x <= i
      BY <1>00
    <3>. QED  BY <3>1, TopIs, Zenon
  <2>2. (1 .. i) \ {i} = 1 .. (i - 1)
    BY <1>00
  <2>3. 1 .. i \in SUBSET (1 .. n) /\ 1 .. i # {}
    <3>1. \A x \in 1 .. i : x \in 1 .. n
      BY <1>00
    <3>2. i \in 1 .. i
      BY <1>00
    <3>. QED  BY <3>1, <3>2
  <2>4. g[1 .. i] = F[<<g[(1 .. i) \ {Top(1 .. i)}], Top(1 .. i)>>]
    BY <1>0, <2>3, Zenon
  <2>5. h[i] = g[1 .. i] /\ h[i - 1] = g[1 .. (i - 1)]
    BY <1>00
  <2>. QED  BY <2>1, <2>2, <2>4, <2>5, Zenon
<1>3. h[n] = g[1 .. n] /\ h = [i \in 0 .. n |-> h[i]]
  BY <1>00
<1> HIDE DEF h
<1> DEFINE S == {i \in Nat : i <= n => h[i] \in T}
<1>4. 0 \in S
  BY <1>00, <1>1
<1>5. ASSUME NEW i \in S PROVE i + 1 \in S
  <2> SUFFICES ASSUME i + 1 <= n PROVE h[i + 1] \in T
    OBVIOUS
  <2>1. i + 1 \in 1 .. n /\ (i + 1) - 1 = i /\ i <= n
    BY <1>00
  <2>. QED  BY <1>0, <1>2, <2>1
<1>6. S = Nat
  <2> HIDE DEF S
  <2>1. S \subseteq Nat
    BY DEF S
  <2>. QED  BY <1>4, <1>5, <2>1, NatSetInduction
<1>7. \A i \in 0 .. n : h[i] \in T
  BY <1>00, <1>6
<1>8. h \in [0 .. n -> T]
  BY <1>3, <1>7
<1>. QED  BY <1>1, <1>2, <1>3, <1>8 DEF History

-----------------------------------------------------------------------------
(* kv8verify: what its two checks compute of any sequence of samples.      *)

Tally == [received : Nat, expected : Nat, seen : SUBSET (0 .. Samples - 1), dups : Nat, order : Nat, timer : Nat]
NoTally == [received |-> 0, expected |-> 0, seen |-> {}, dups |-> 0, order |-> 0, timer |-> 0]

\* Wrap is the number of sequence numbers, half of it Probe!Half
LEMMA Wrapping == Wrap \in Nat /\ Probe!Half \in Nat /\ Wrap = Probe!Half + Probe!Half /\ Probe!Half > 1
<1>1. Wrap \in Nat /\ Wrap > 3 /\ Wrap % 2 = 0
  BY PairsAssumption
<1>2. Wrap = 2 * (Wrap \div 2) /\ Wrap \div 2 \in Nat
  BY <1>1
<1>. QED  BY <1>1, <1>2 DEF Probe!Half

LEMMA NumberFacts ==
  ASSUME NEW i \in Nat
  PROVE  i % Wrap \in 0 .. Wrap - 1 /\ i \div Wrap \in Nat /\ i = Wrap * (i \div Wrap) + (i % Wrap)
<1>1. Wrap \in Nat \ {0}
  BY Wrapping
<1>2. i % Wrap \in 0 .. Wrap - 1 /\ i \div Wrap \in Int /\ i = Wrap * (i \div Wrap) + (i % Wrap)
  BY <1>1, DivMod
<1>3. i \div Wrap >= 0
  BY <1>1
<1>. QED  BY <1>2, <1>3

LEMMA TallyStep ==
  ASSUME NEW c \in Tally, NEW i \in Nat
  PROVE  Probe!ManifestStep(c, i) \in Tally
<1>0. c.received \in Nat /\ Wrap \in Nat
  BY Wrapping DEF Tally
<1>1. c.received \in Nat /\ i % Wrap \in Nat /\ c.received \div Wrap \in Nat /\ Wrap \in Nat
  <2>1. i % Wrap \in 0 .. Wrap - 1 /\ c.received \div Wrap \in Nat
    BY <1>0, NumberFacts, Zenon
  <2>. QED  BY <1>0, <2>1
<1>2. (c.received \div Wrap) * Wrap \in Nat
  BY <1>1
<1>3. Probe!GlobalIdx(c.received, i % Wrap) \in Nat
  BY <1>1, <1>2 DEF Probe!GlobalIdx
<1> DEFINE idx == Probe!GlobalIdx(c.received, i % Wrap)
<1>4. c.seen \cup ({idx} \cap 0 .. Samples - 1) \in SUBSET (0 .. Samples - 1)
  BY DEF Tally
<1> HIDE DEF idx
<1>. QED  BY <1>3, <1>4 DEF Probe!ManifestStep, Tally, idx

LEMMA NoTallyType == NoTally \in Tally
  BY DEF Tally, NoTally

LEMMA TallyHistory ==
  ASSUME NEW q \in Seq(Nat)
  PROVE  \E h \in [0 .. Len(q) -> Tally] :
           /\ h[0] = NoTally /\ h[Len(q)] = Probe!ManifestCheck(q)
           /\ \A i \in 1 .. Len(q) : h[i] = Probe!ManifestStep(h[i - 1], q[i])
<1> DEFINE n == Len(q)
           F == [p \in Tally \X (1 .. n) |-> Probe!ManifestStep(p[1], q[p[2]])]
           Eqn(g) == g = [s \in SUBSET (1 .. n) |->
                            IF s = {} THEN NoTally ELSE Probe!ManifestStep(g[s \ {Probe!Max(s)}], q[Probe!Max(s)])]
           it == CHOOSE g : Eqn(g)
           V == Tally \cup {it[s] : s \in SUBSET (1 .. n)}
           G == [p \in V \X (1 .. n) |-> Probe!ManifestStep(p[1], q[p[2]])]
<1>1. n \in Nat /\ DOMAIN q = 1 .. n /\ \A i \in 1 .. n : q[i] \in Nat
  BY LenProperties
<1>2. Probe!ManifestCheck(q) = it[1 .. n]
  BY <1>1 DEF Probe!ManifestCheck, Probe!FoldLeft, Probe!MapThenFoldSet, NoTally
<1>3. \A s : Probe!Max(s) = Top(s)
  BY DEF Probe!Max, Top
<1>4. NoTally \in Tally /\ \A c \in Tally, i \in 1 .. n : Probe!ManifestStep(c, q[i]) \in Tally
  <2> HIDE DEF n
  <2>. QED  BY <1>1, TallyStep, NoTallyType
<1> HIDE DEF n
<1>5. \A s \in SUBSET (1 .. n) : s # {} => Top(s) \in 1 .. n /\ s \ {Top(s)} \in SUBSET (1 .. n)
  BY <1>1, TopInterval
<1>6. F \in [Tally \X (1 .. n) -> Tally] /\ \A c \in Tally, i \in 1 .. n : F[<<c, i>>] = Probe!ManifestStep(c, q[i])
  <2>1. ASSUME NEW p \in Tally \X (1 .. n) PROVE Probe!ManifestStep(p[1], q[p[2]]) \in Tally
    <3>1. p[1] \in Tally /\ p[2] \in 1 .. n
      OBVIOUS
    <3>. QED  BY <1>4, <3>1
  <2>2. ASSUME NEW c \in Tally, NEW i \in 1 .. n PROVE F[<<c, i>>] = Probe!ManifestStep(c, q[i])
    <3>1. <<c, i>> \in Tally \X (1 .. n) /\ <<c, i>>[1] = c /\ <<c, i>>[2] = i
      OBVIOUS
    <3>. QED  BY <3>1, Zenon
  <2>. QED  BY <2>1, <2>2, Zenon
<1>7. \E g : Eqn(g)
  <2>1. PICK g : Iterates(g, Tally, F, NoTally, n)
    <3> HIDE DEF F
    <3>. QED  BY <1>1, <1>4, <1>6, IterationExists
  <2>2. /\ g \in [SUBSET (1 .. n) -> Tally]
        /\ \A s \in SUBSET (1 .. n) : g[s] = IF s = {} THEN NoTally ELSE F[<<g[s \ {Top(s)}], Top(s)>>]
    BY <2>1, Zenon DEF Iterates
  <2>3. ASSUME NEW s \in SUBSET (1 .. n)
        PROVE  g[s] = IF s = {} THEN NoTally ELSE Probe!ManifestStep(g[s \ {Probe!Max(s)}], q[Probe!Max(s)])
    <3>1. CASE s = {}
      BY <2>2, <3>1, Zenon
    <3>2. CASE s # {}
      <4>1. Top(s) \in 1 .. n /\ g[s \ {Top(s)}] \in Tally
        <5> HIDE DEF F
        <5>. QED  BY <1>5, <2>2, <3>2
      <4>2. F[<<g[s \ {Top(s)}], Top(s)>>] = Probe!ManifestStep(g[s \ {Top(s)}], q[Top(s)])
        BY <1>6, <4>1, Zenon
      <4>. QED  BY <1>3, <2>2, <3>2, <4>2, Zenon
    <3>. QED  BY <3>1, <3>2, Zenon
  <2>4. g = [s \in SUBSET (1 .. n) |-> g[s]]
    BY <2>2, Zenon
  <2>5. Eqn(g)
    BY <2>3, <2>4, Zenon
  <2>. QED  BY <2>5, Zenon
<1>8. Eqn(it)
  BY <1>7, Zenon
<1> HIDE DEF it
<1>9. \A c \in V, i \in 1 .. n : G[<<c, i>>] = Probe!ManifestStep(c, q[i])
  <2>1. ASSUME NEW c \in V, NEW i \in 1 .. n PROVE G[<<c, i>>] = Probe!ManifestStep(c, q[i])
    <3> HIDE DEF V
    <3>1. <<c, i>> \in V \X (1 .. n) /\ <<c, i>>[1] = c /\ <<c, i>>[2] = i
      OBVIOUS
    <3>. QED  BY <3>1, Zenon
  <2>. QED  BY <2>1
<1>10. \A s \in SUBSET (1 .. n) : it[s] = IF s = {} THEN NoTally ELSE G[<<it[s \ {Top(s)}], Top(s)>>]
  <2> SUFFICES ASSUME NEW s \in SUBSET (1 .. n)
               PROVE  it[s] = IF s = {} THEN NoTally ELSE G[<<it[s \ {Top(s)}], Top(s)>>]
    OBVIOUS
  <2>1. it[s] = IF s = {} THEN NoTally ELSE Probe!ManifestStep(it[s \ {Top(s)}], q[Top(s)])
    BY <1>3, <1>8, Zenon
  <2>2. CASE s # {}
    <3>1. Top(s) \in 1 .. n /\ it[s \ {Top(s)}] \in V
      BY <1>5, <2>2, Zenon
    <3> HIDE DEF V, G
    <3>. QED  BY <1>9, <2>1, <2>2, <3>1, Zenon
  <2>. QED  BY <2>1, <2>2, Zenon
<1>11. \A c \in Tally, i \in 1 .. n : G[<<c, i>>] = Probe!ManifestStep(c, q[i]) /\ G[<<c, i>>] \in Tally
  BY <1>4, <1>9, Zenon
<1> HIDE DEF V, G
<1>12. PICK h \in [0 .. n -> Tally] : History(h, G, NoTally, n) /\ h[n] = it[1 .. n]
  <2>1. Keeps(G, Tally, n) /\ Unfolds(it, G, NoTally, n)
    BY <1>10, <1>11, Zenon DEF Keeps, Unfolds
  <2>2. NoTally \in Tally /\ n \in Nat
    BY <1>1, <1>4, Zenon
  <2>3. Iteration(Tally, NoTally, n, G, it)
    BY <2>1, <2>2, Zenon DEF Iteration
  <2>. QED  BY <2>3, IterationHistory
<1>13. ASSUME NEW i \in 1 .. n PROVE h[i] = Probe!ManifestStep(h[i - 1], q[i])
  <2>1. i - 1 \in 0 .. n /\ h[i - 1] \in Tally
    BY <1>1
  <2>. QED  BY <1>11, <1>12, <2>1, Zenon DEF History
<1>. QED  BY <1>2, <1>12, <1>13, Zenon DEF n, History

\* The index a number stands for is the right one while fewer than half the numbers are missing.
LEMMA IndexFound ==
  ASSUME NEW r \in Nat, NEW i \in Nat, r <= i, i < r + Probe!Half
  PROVE  Probe!GlobalIdx(r, i % Wrap) = i
<1>1. PICK half \in Nat, w \in Nat : half > 1 /\ w = half + half /\ half = Probe!Half /\ w = Wrap
  BY Wrapping
<1>2. PICK a \in Nat, b \in Nat, x \in 0 .. w - 1, y \in 0 .. w - 1 :
        /\ a = r \div Wrap /\ b = i \div Wrap /\ y = i % Wrap
        /\ r = w * a + x /\ i = w * b + y
  <2>1. r \div w \in Nat /\ r % w \in 0 .. w - 1 /\ r = w * (r \div w) + (r % w)
    BY <1>1, NumberFacts, Zenon
  <2>2. i \div w \in Nat /\ i % w \in 0 .. w - 1 /\ i = w * (i \div w) + (i % w)
    BY <1>1, NumberFacts, Zenon
  <2>. QED  BY <1>1, <2>1, <2>2, Zenon
<1>3. b = a \/ b = a + 1
  <2>1. CASE b <= a - 1
    <3>1. w * b <= w * a - w
      BY <2>1
    <3>. QED  BY <1>1, <1>2, <3>1
  <2>2. CASE b >= a + 2
    <3>1. w * b >= w * a + w + w
      BY <2>2
    <3>. QED  BY <1>1, <1>2, <3>1
  <2>. QED  BY <2>1, <2>2
<1>4. a * w = w * a /\ w * (a + 1) = w * a + w /\ w * a \in Nat
  OBVIOUS
<1>5. Probe!GlobalIdx(r, i % Wrap) = IF a * w + y + half < r THEN a * w + y + w ELSE a * w + y
  BY <1>1, <1>2, Zenon DEF Probe!GlobalIdx
<1>6. CASE b = a
  BY <1>1, <1>2, <1>4, <1>5, <1>6
<1>7. CASE b = a + 1
  BY <1>1, <1>2, <1>4, <1>5, <1>7
<1>. QED  BY <1>3, <1>6, <1>7

\* One step of the first check, when the index is found.
LEMMA TallyFound ==
  ASSUME NEW c \in Tally, NEW i \in 0 .. Samples - 1, c.received <= i, i < c.received + Probe!Half
  PROVE  /\ Probe!ManifestStep(c, i).received = c.received + 1
         /\ Probe!ManifestStep(c, i).expected = i + 1
         /\ Probe!ManifestStep(c, i).seen = c.seen \cup {i}
         /\ Probe!ManifestStep(c, i).dups = c.dups + (IF i \in c.seen THEN 1 ELSE 0)
         /\ Probe!ManifestStep(c, i).order = c.order + (IF i # c.expected THEN 1 ELSE 0)
         /\ Probe!ManifestStep(c, i).timer = c.timer
<1>1. c.received \in Nat /\ c.timer \in Nat /\ i \in Nat
  BY PairsAssumption DEF Tally
<1>2. Probe!GlobalIdx(c.received, i % Wrap) = i
  BY <1>1, IndexFound
<1>3. {i} \cap 0 .. Samples - 1 = {i}
  OBVIOUS
<1>. QED  BY <1>1, <1>2, <1>3 DEF Probe!ManifestStep

\* the cardinality of the module of kv8verify is the one the library's theorems are about
LEMMA SameCardinality == ASSUME NEW s PROVE Probe!Cardinality(s) = Cardinality(s)
  BY Zenon DEF Probe!Cardinality, Cardinality

\* The first check passes the samples in order, all of them, and nothing else.
LEMMA ManifestPassed ==
  ASSUME NEW r \in Seq(0 .. Samples - 1)
  PROVE  Probe!ManifestPasses(r) <=> manifest /\ r = [i \in 1 .. Samples |-> i - 1]
<1> DEFINE n == Len(r)
<1>0. n \in Nat /\ Samples \in Nat /\ r \in Seq(Nat) /\ \A i \in 1 .. n : r[i] \in 0 .. Samples - 1
  BY PairsAssumption
<1>1. PICK h \in [0 .. n -> Tally] :
        /\ h[0] = NoTally /\ h[n] = Probe!ManifestCheck(r)
        /\ \A i \in 1 .. n : h[i] = Probe!ManifestStep(h[i - 1], r[i])
  BY <1>0, TallyHistory
<1> HIDE DEF n
<1> DEFINE S == {i \in Nat : i <= n =>
                   /\ h[i].received = i
                   /\ h[i].order = 0 /\ h[i].timer = 0 =>
                        h[i].expected = i /\ \A j \in 1 .. i : r[j] = j - 1}
           P == {i \in Nat : i <= n =>
                   /\ h[i].received = i /\ h[i].expected = i /\ h[i].seen = 0 .. i - 1
                   /\ h[i].dups = 0 /\ h[i].order = 0 /\ h[i].timer = 0}
<1>2. 0 \in S /\ 0 \in P
  BY <1>1 DEF NoTally
<1>3. ASSUME NEW i \in S PROVE i + 1 \in S
  <2> SUFFICES ASSUME i + 1 <= n
               PROVE  /\ h[i + 1].received = i + 1
                      /\ h[i + 1].order = 0 /\ h[i + 1].timer = 0 =>
                           h[i + 1].expected = i + 1 /\ \A j \in 1 .. i + 1 : r[j] = j - 1
    OBVIOUS
  <2>1. /\ i \in Nat /\ i <= n /\ i + 1 \in 1 .. n /\ (i + 1) - 1 = i
        /\ h[i] \in Tally /\ h[i].received = i
        /\ h[i].order = 0 /\ h[i].timer = 0 => h[i].expected = i /\ \A j \in 1 .. i : r[j] = j - 1
    BY <1>0
  <2>2. h[i + 1] = Probe!ManifestStep(h[i], r[i + 1])
    BY <1>1, <2>1
  <2> DEFINE idx == Probe!GlobalIdx(h[i].received, r[i + 1] % Wrap)
  <2>3. /\ h[i + 1].received = h[i].received + 1
        /\ h[i + 1].expected = idx + 1
        /\ idx = h[i].expected => h[i + 1].order = h[i].order + 0
        /\ idx # h[i].expected => h[i + 1].order = h[i].order + 1
        /\ idx = r[i + 1] => h[i + 1].timer = h[i].timer + 0
        /\ idx # r[i + 1] => h[i + 1].timer = h[i].timer + 1
    BY <2>2 DEF Probe!ManifestStep
  <2> HIDE DEF idx
  <2>4. h[i].order \in Nat /\ h[i].timer \in Nat
    BY <2>1 DEF Tally
  <2>5. ASSUME h[i + 1].order = 0, h[i + 1].timer = 0
        PROVE  h[i + 1].expected = i + 1 /\ \A j \in 1 .. i + 1 : r[j] = j - 1
    <3>1. h[i].order = 0 /\ h[i].timer = 0 /\ idx = h[i].expected /\ idx = r[i + 1]
      <4>1. CASE idx # h[i].expected
        BY <2>3, <2>4, <2>5, <4>1
      <4>2. CASE idx # r[i + 1]
        BY <2>3, <2>4, <2>5, <4>2
      <4>3. CASE idx = h[i].expected /\ idx = r[i + 1]
        <5>1. PICK x \in Nat, y \in Nat : h[i].order = x /\ h[i].timer = y
          BY <2>4
        <5>2. x + 0 = 0 /\ y + 0 = 0
          BY <2>3, <2>5, <4>3, <5>1, Zenon
        <5>3. x = 0 /\ y = 0
          BY <5>2
        <5>. QED  BY <4>3, <5>1, <5>3, Zenon
      <4>. QED  BY <4>1, <4>2, <4>3
    <3>2. r[i + 1] = i /\ h[i + 1].expected = i + 1 /\ \A j \in 1 .. i : r[j] = j - 1
      BY <2>1, <2>3, <3>1
    <3>3. ASSUME NEW j \in 1 .. i + 1 PROVE r[j] = j - 1
      <4>1. CASE j = i + 1
        BY <2>1, <3>2, <4>1
      <4>2. CASE j \in 1 .. i
        BY <3>2, <4>2
      <4>. QED  BY <2>1, <4>1, <4>2
    <3>. QED  BY <3>2, <3>3
  <2>. QED  BY <2>1, <2>3, <2>5
<1>4. ASSUME r = [i \in 1 .. Samples |-> i - 1], NEW i \in P PROVE i + 1 \in P
  <2> SUFFICES ASSUME i + 1 <= n
               PROVE  /\ h[i + 1].received = i + 1 /\ h[i + 1].expected = i + 1
                      /\ h[i + 1].seen = 0 .. (i + 1) - 1
                      /\ h[i + 1].dups = 0 /\ h[i + 1].order = 0 /\ h[i + 1].timer = 0
    OBVIOUS
  <2>0. n = Samples
    BY <1>0, <1>4 DEF n
  <2>1. /\ i \in Nat /\ i <= n /\ i + 1 \in 1 .. n /\ (i + 1) - 1 = i
        /\ h[i] \in Tally /\ h[i].received = i /\ h[i].expected = i /\ h[i].seen = 0 .. i - 1
        /\ h[i].dups = 0 /\ h[i].order = 0 /\ h[i].timer = 0
    BY <1>0
  <2>2. r[i + 1] = i /\ i \in 0 .. Samples - 1
    BY <1>0, <1>4, <2>0, <2>1
  <2>3. h[i + 1] = Probe!ManifestStep(h[i], i)
    BY <1>1, <2>1, <2>2
  <2>4. h[i].received <= i /\ i < h[i].received + Probe!Half
    BY <2>1, Wrapping
  <2>5. /\ h[i + 1].received = h[i].received + 1 /\ h[i + 1].expected = i + 1 /\ h[i + 1].seen = h[i].seen \cup {i}
        /\ h[i + 1].dups = h[i].dups + (IF i \in h[i].seen THEN 1 ELSE 0)
        /\ h[i + 1].order = h[i].order + (IF i # h[i].expected THEN 1 ELSE 0)
        /\ h[i + 1].timer = h[i].timer
    BY <2>1, <2>2, <2>3, <2>4, TallyFound
  <2>6. (0 .. i - 1) \cup {i} = 0 .. (i + 1) - 1 /\ i \notin 0 .. i - 1
    BY <2>1
  <2>. QED  BY <2>1, <2>5, <2>6
<1>5. S = Nat
  <2> HIDE DEF S
  <2>1. S \subseteq Nat
    BY DEF S
  <2>. QED  BY <1>2, <1>3, <2>1, NatSetInduction
<1>6. ASSUME Probe!ManifestPasses(r) PROVE manifest /\ r = [i \in 1 .. Samples |-> i - 1]
  <2>1. manifest /\ h[n].received = Samples /\ h[n].order = 0 /\ h[n].timer = 0
    BY <1>1, <1>6, Zenon DEF Probe!ManifestPasses
  <2>2. h[n].received = n /\ \A j \in 1 .. n : r[j] = j - 1
    BY <1>0, <1>5, <2>1
  <2>3. r = [i \in 1 .. n |-> r[i]]
    BY <1>0 DEF n
  <2>. QED  BY <2>1, <2>2, <2>3
<1>7. ASSUME manifest, r = [i \in 1 .. Samples |-> i - 1] PROVE Probe!ManifestPasses(r)
  <2>1. P = Nat
    <3> HIDE DEF P
    <3>1. P \subseteq Nat
      BY DEF P
    <3>. QED  BY <1>2, <1>4, <1>7, <3>1, NatSetInduction
  <2>2. n = Samples
    BY <1>0, <1>7 DEF n
  <2>3. /\ h[n].received = Samples /\ h[n].seen = 0 .. Samples - 1
        /\ h[n].dups = 0 /\ h[n].order = 0 /\ h[n].timer = 0
    BY <1>0, <2>1, <2>2
  <2>4. Cardinality(0 .. Samples - 1) = Samples
    <3>1. Cardinality(0 .. Samples - 1) = IF 0 > Samples - 1 THEN 0 ELSE (Samples - 1) - 0 + 1
      BY <1>0, FS_Interval
    <3>. QED  BY <1>0, <3>1
  <2>5. Probe!Missing(h[n]) = 0
    <3>1. Probe!Missing(h[n]) = Samples - Cardinality(0 .. Samples - 1)
      BY <2>3, SameCardinality, Zenon DEF Probe!Missing
    <3>. QED  BY <1>0, <2>4, <3>1
  <2>. QED  BY <1>1, <1>7, <2>3, <2>5, Zenon DEF Probe!ManifestPasses
<1>. QED  BY <1>6, <1>7

\* Numbers in order are no closer than their places.
LEMMA OrderedGap ==
  ASSUME NEW r \in Seq(Nat), Probe!InOrder(r), NEW i \in 1 .. Len(r), NEW j \in i .. Len(r)
  PROVE  r[i] - i <= r[j] - j
<1> DEFINE S == {d \in Nat : i + d <= Len(r) => r[i] - i <= r[i + d] - (i + d)}
<1>0. Len(r) \in Nat /\ \A k \in 1 .. Len(r) : r[k] \in Nat
  OBVIOUS
<1>1. 0 \in S
  BY <1>0
<1>2. ASSUME NEW d \in S PROVE d + 1 \in S
  <2> SUFFICES ASSUME i + (d + 1) <= Len(r) PROVE r[i] - i <= r[i + (d + 1)] - (i + (d + 1))
    OBVIOUS
  <2>1. r[i] - i <= r[i + d] - (i + d)
    BY <1>0
  <2>2. i + (d + 1) \in 2 .. Len(r) /\ (i + (d + 1)) - 1 = i + d /\ i + d \in 1 .. Len(r)
    BY <1>0
  <2>3. r[i + d] < r[i + (d + 1)]
    <3>1. PICK k \in 2 .. Len(r) : k = i + (d + 1) /\ k - 1 = i + d
      BY <2>2
    <3>. QED  BY <3>1, Zenon DEF Probe!InOrder
  <2>4. r[i] \in Nat /\ r[i + d] \in Nat /\ r[i + (d + 1)] \in Nat /\ i \in Nat /\ d \in Nat
    <3>1. i + (d + 1) \in 1 .. Len(r)
      BY <2>2
    <3>2. r[i] \in Nat /\ r[i + d] \in Nat /\ r[i + (d + 1)] \in Nat
      BY <1>0, <2>2, <3>1, Zenon
    <3>3. i \in Nat /\ d \in Nat
      BY <1>0
    <3>. QED  BY <3>2, <3>3, Zenon
  <2>5. PICK x \in Nat, y \in Nat, z \in Nat : x = r[i] /\ y = r[i + d] /\ z = r[i + (d + 1)]
    BY <2>4, Zenon
  <2>6. x - i <= y - (i + d) /\ y < z
    BY <2>1, <2>3, <2>5, Zenon
  <2>7. x - i <= z - (i + (d + 1))
    BY <2>4, <2>6
  <2>. QED  BY <2>5, <2>7, Zenon
<1>3. S = Nat
  <2> HIDE DEF S
  <2>1. S \subseteq Nat
    BY DEF S
  <2>. QED  BY <1>1, <1>2, <2>1, NatSetInduction
<1>4. j - i \in S /\ i + (j - i) = j /\ j <= Len(r)
  <2>1. j - i \in Nat /\ i + (j - i) = j /\ j <= Len(r)
    BY <1>0
  <2> HIDE DEF S
  <2>. QED  BY <1>3, <2>1
<1>. QED  BY <1>4

LEMMA InOrderFacts ==
  ASSUME NEW r \in Seq(Nat), Probe!InOrder(r)
  PROVE  /\ \A i \in 1 .. Len(r) : r[i] >= i - 1 /\ r[i] - i <= r[Len(r)] - Len(r)
         /\ \A i, j \in 1 .. Len(r) : i < j => r[i] < r[j]
<1>0. Len(r) \in Nat /\ \A k \in 1 .. Len(r) : r[k] \in Nat
  OBVIOUS
<1>1. ASSUME NEW i \in 1 .. Len(r) PROVE r[i] >= i - 1 /\ r[i] - i <= r[Len(r)] - Len(r)
  <2>1. 1 \in 1 .. Len(r) /\ i \in 1 .. Len(r) /\ Len(r) \in i .. Len(r)
    BY <1>0
  <2>2. r[1] - 1 <= r[i] - i /\ r[i] - i <= r[Len(r)] - Len(r)
    BY <2>1, OrderedGap
  <2>. QED  BY <1>0, <2>1, <2>2
<1>2. ASSUME NEW i \in 1 .. Len(r), NEW j \in 1 .. Len(r), i < j PROVE r[i] < r[j]
  <2>1. j \in i .. Len(r)
    BY <1>0, <1>2
  <2>2. r[i] - i <= r[j] - j
    BY <2>1, OrderedGap
  <2>. QED  BY <1>0, <1>2, <2>2
<1>. QED  BY <1>1, <1>2

\* Samples that are only missing are counted by the first check, fewer than half the numbers of them.
LEMMA LossCounted ==
  ASSUME NEW r \in Seq(0 .. Samples - 1), r # <<>>, Probe!InOrder(r),
         (Probe!Last(r) + 1) - Len(r) < Probe!Half
  PROVE  /\ Probe!ManifestCheck(r).dups = 0 /\ Probe!ManifestCheck(r).timer = 0
         /\ Probe!Missing(Probe!ManifestCheck(r)) = Samples - Len(r)
<1> DEFINE n == Len(r)
<1>0. n \in Nat /\ Samples \in Nat /\ r \in Seq(Nat) /\ \A i \in 1 .. n : r[i] \in 0 .. Samples - 1
  BY PairsAssumption
<1>1. PICK h \in [0 .. n -> Tally] :
        /\ h[0] = NoTally /\ h[n] = Probe!ManifestCheck(r)
        /\ \A i \in 1 .. n : h[i] = Probe!ManifestStep(h[i - 1], r[i])
  BY <1>0, TallyHistory
<1>2. /\ \A i \in 1 .. n : r[i] >= i - 1 /\ r[i] - i <= r[n] - n
      /\ \A i, j \in 1 .. n : i < j => r[i] < r[j]
  BY <1>0, InOrderFacts
<1>3. n > 0 /\ (r[n] + 1) - n < Probe!Half /\ Probe!Half \in Nat
  BY Wrapping DEF Probe!Last
<1> HIDE DEF n
<1> DEFINE P == {i \in Nat : i <= n =>
                   /\ h[i].received = i /\ h[i].dups = 0 /\ h[i].timer = 0
                   /\ h[i].seen = {r[j] : j \in 1 .. i}
                   /\ IsFiniteSet(h[i].seen) /\ Cardinality(h[i].seen) = i}
<1>4. 0 \in P
  <2>1. {r[j] : j \in 1 .. 0} = {}
    OBVIOUS
  <2>2. NoTally.received = 0 /\ NoTally.dups = 0 /\ NoTally.timer = 0 /\ NoTally.seen = {}
    BY DEF NoTally
  <2>. QED  BY <1>1, <2>1, <2>2, FS_EmptySet
<1>5. ASSUME NEW i \in P PROVE i + 1 \in P
  <2> SUFFICES ASSUME i + 1 <= n
               PROVE  /\ h[i + 1].received = i + 1 /\ h[i + 1].dups = 0 /\ h[i + 1].timer = 0
                      /\ h[i + 1].seen = {r[j] : j \in 1 .. i + 1}
                      /\ IsFiniteSet(h[i + 1].seen) /\ Cardinality(h[i + 1].seen) = i + 1
    OBVIOUS
  <2>1. /\ i \in Nat /\ i <= n /\ i + 1 \in 1 .. n /\ (i + 1) - 1 = i
        /\ h[i] \in Tally /\ h[i].received = i /\ h[i].dups = 0 /\ h[i].timer = 0
        /\ h[i].seen = {r[j] : j \in 1 .. i}
        /\ IsFiniteSet(h[i].seen) /\ Cardinality(h[i].seen) = i
    BY <1>0
  <2>2. r[i + 1] \in 0 .. Samples - 1 /\ r[i + 1] >= i /\ r[i + 1] < i + Probe!Half
    <3>1. r[i + 1] \in 0 .. Samples - 1 /\ r[i + 1] >= (i + 1) - 1 /\ r[i + 1] - (i + 1) <= r[n] - n
      BY <1>0, <1>2, <2>1, Zenon
    <3>2. r[n] \in Nat /\ r[i + 1] \in Nat
      BY <1>0, <1>3, <2>1
    <3>3. PICK x \in Nat, y \in Nat, half \in Nat : x = r[i + 1] /\ y = r[n] /\ half = Probe!Half
      BY <1>3, <3>2, Zenon
    <3>4. x >= (i + 1) - 1 /\ x - (i + 1) <= y - n /\ (y + 1) - n < half
      BY <1>3, <3>1, <3>3, Zenon
    <3>5. x >= i /\ x < i + half
      BY <1>0, <2>1, <3>4
    <3>. QED  BY <3>1, <3>3, <3>5, Zenon
  <2>3. h[i].received <= r[i + 1] /\ r[i + 1] < h[i].received + Probe!Half
    BY <2>1, <2>2
  <2>4. /\ h[i + 1].received = h[i].received + 1
        /\ h[i + 1].seen = h[i].seen \cup {r[i + 1]}
        /\ h[i + 1].dups = h[i].dups + (IF r[i + 1] \in h[i].seen THEN 1 ELSE 0)
        /\ h[i + 1].timer = h[i].timer
    <3>1. h[i + 1] = Probe!ManifestStep(h[i], r[i + 1])
      BY <1>1, <2>1
    <3>. QED  BY <2>1, <2>2, <2>3, <3>1, TallyFound
  <2>5. r[i + 1] \notin h[i].seen
    <3>1. \A j \in 1 .. i : r[j] < r[i + 1] /\ r[j] \in Nat
      BY <1>0, <1>2, <2>1
    <3>. QED  BY <2>1, <2>2, <3>1
  <2>6. h[i + 1].seen = {r[j] : j \in 1 .. i + 1}
    <3>1. 1 .. i + 1 = (1 .. i) \cup {i + 1}
      BY <2>1
    <3>. QED  BY <2>1, <2>4, <3>1
  <2>7. IsFiniteSet(h[i].seen \cup {r[i + 1]}) /\ Cardinality(h[i].seen \cup {r[i + 1]}) = i + 1
    BY <2>1, <2>5, FS_AddElement
  <2>8. h[i + 1].dups = 0
    BY <2>1, <2>4, <2>5
  <2>. QED  BY <2>1, <2>4, <2>6, <2>7, <2>8
<1>6. P = Nat
  <2> HIDE DEF P
  <2>1. P \subseteq Nat
    BY DEF P
  <2>. QED  BY <1>4, <1>5, <2>1, NatSetInduction
<1>7. h[n].dups = 0 /\ h[n].timer = 0 /\ Cardinality(h[n].seen) = n
  BY <1>0, <1>6
<1>8. Probe!Missing(h[n]) = Samples - Cardinality(h[n].seen)
  BY SameCardinality, Zenon DEF Probe!Missing
<1>. QED  BY <1>1, <1>7, <1>8, Zenon DEF n

\* The index a number stands for is the right one exactly in the window of the number received.
LEMMA IndexWindow ==
  ASSUME NEW r \in Nat, NEW i \in Nat
  PROVE  Probe!GlobalIdx(r, i % Wrap) = i <=> i \in Probe!Recoverable(r)
<1>1. PICK half \in Nat, w \in Nat : half > 1 /\ w = half + half /\ half = Probe!Half /\ w = Wrap
  BY Wrapping
<1>2. PICK a \in Nat, b \in Nat, x \in 0 .. w - 1, y \in 0 .. w - 1 :
        /\ a = r \div Wrap /\ x = r % Wrap /\ y = i % Wrap
        /\ r = w * a + x /\ i = w * b + y
  <2>1. r \div w \in Nat /\ r % w \in 0 .. w - 1 /\ r = w * (r \div w) + (r % w)
    BY <1>1, NumberFacts, Zenon
  <2>2. i \div w \in Nat /\ i % w \in 0 .. w - 1 /\ i = w * (i \div w) + (i % w)
    BY <1>1, NumberFacts, Zenon
  <2>. QED  BY <1>1, <2>1, <2>2, Zenon
<1>3. PICK p \in Nat, q \in Nat : p = w * a /\ p = a * w /\ q = w * b
  OBVIOUS
<1>4. Probe!GlobalIdx(r, i % Wrap) = IF p + y + half < r THEN p + y + w ELSE p + y
  BY <1>1, <1>2, <1>3, Zenon DEF Probe!GlobalIdx
<1>5. Probe!Recoverable(r) = IF x <= half THEN r - x .. (r - x) + w - 1 ELSE r - half .. (r - half) + w - 1
  <2>1. CASE x <= half
    BY <1>1, <1>2, <2>1, Zenon DEF Probe!Recoverable
  <2>2. CASE ~ (x <= half)
    BY <1>1, <1>2, <2>2, Zenon DEF Probe!Recoverable
  <2>. QED  BY <2>1, <2>2
<1>6. q <= p - w \/ q = p \/ q = p + w \/ q >= p + w + w
  <2>1. CASE b <= a - 1
    <3>1. w * b <= w * (a - 1) /\ w * (a - 1) = w * a - w
      BY <2>1
    <3>. QED  BY <1>3, <3>1
  <2>2. CASE b >= a + 2
    <3>1. w * b >= w * (a + 2) /\ w * (a + 2) = w * a + w + w
      BY <2>2
    <3>. QED  BY <1>3, <3>1
  <2>3. CASE b = a
    BY <1>3, <2>3
  <2>4. CASE b = a + 1
    BY <1>3, <2>4
  <2>. QED  BY <2>1, <2>2, <2>3, <2>4
<1>7. r = p + x /\ i = q + y
  BY <1>2, <1>3
<1>8. CASE x <= half
  <2>1. i \in Probe!Recoverable(r) <=> p <= i /\ i <= p + w - 1
    BY <1>5, <1>7, <1>8
  <2>. QED  BY <1>1, <1>4, <1>6, <1>7, <1>8, <2>1
<1>9. CASE ~ (x <= half)
  <2>1. i \in Probe!Recoverable(r) <=> (p + x) - half <= i /\ i <= ((p + x) - half) + w - 1
    BY <1>5, <1>7, <1>9
  <2>. QED  BY <1>1, <1>4, <1>6, <1>7, <1>9, <2>1
<1>. QED  BY <1>8, <1>9

\* One step of the first check, whether the index is found or not.
LEMMA TallyMoves ==
  ASSUME NEW c \in Tally, NEW i \in 0 .. Samples - 1
  PROVE  /\ Probe!ManifestStep(c, i).received = c.received + 1
         /\ Probe!ManifestStep(c, i).timer = 0 <=> c.timer = 0 /\ i \in Probe!Recoverable(c.received)
         /\ i \in Probe!Recoverable(c.received) =>
              /\ Probe!ManifestStep(c, i).expected = i + 1
              /\ Probe!ManifestStep(c, i).seen = c.seen \cup {i}
              /\ Probe!ManifestStep(c, i).dups = c.dups + (IF i \in c.seen THEN 1 ELSE 0)
              /\ Probe!ManifestStep(c, i).order = c.order + (IF i # c.expected THEN 1 ELSE 0)
<1>1. c.received \in Nat /\ c.timer \in Nat /\ i \in Nat
  BY PairsAssumption DEF Tally
<1> DEFINE idx == Probe!GlobalIdx(c.received, i % Wrap)
<1>2. idx = i <=> i \in Probe!Recoverable(c.received)
  BY <1>1, IndexWindow
<1>3. {i} \cap 0 .. Samples - 1 = {i}
  OBVIOUS
<1>4. /\ Probe!ManifestStep(c, i).received = c.received + 1
      /\ Probe!ManifestStep(c, i).expected = idx + 1
      /\ Probe!ManifestStep(c, i).seen = c.seen \cup ({idx} \cap 0 .. Samples - 1)
      /\ Probe!ManifestStep(c, i).dups = c.dups + (IF idx \in c.seen THEN 1 ELSE 0)
      /\ Probe!ManifestStep(c, i).order = c.order + (IF idx # c.expected THEN 1 ELSE 0)
      /\ Probe!ManifestStep(c, i).timer = c.timer + (IF idx # i THEN 1 ELSE 0)
  BY DEF Probe!ManifestStep
<1> HIDE DEF idx
<1>5. CASE idx = i
  BY <1>1, <1>2, <1>3, <1>4, <1>5
<1>6. CASE idx # i
  BY <1>1, <1>2, <1>4, <1>6
<1>. QED  BY <1>5, <1>6

\* Of the first i samples read: each is near its place; which they are; where the index does not go on by one.
NearTo(r, i) == \A j \in 1 .. i : r[j] \in Probe!Recoverable(j - 1)
ReadTo(r, i) == {r[j] : j \in 1 .. i}
Expected(r, i) == IF i = 1 THEN 0 ELSE r[i - 1] + 1
BreaksTo(r, i) == {j \in 1 .. i : r[j] # Expected(r, j)}

LEMMA PrefixGrows ==
  ASSUME NEW r, NEW i \in Nat
  PROVE  /\ NearTo(r, i + 1) <=> NearTo(r, i) /\ r[i + 1] \in Probe!Recoverable(i)
         /\ ReadTo(r, i + 1) = ReadTo(r, i) \cup {r[i + 1]}
         /\ BreaksTo(r, i + 1) = IF r[i + 1] # Expected(r, i + 1) THEN BreaksTo(r, i) \cup {i + 1} ELSE BreaksTo(r, i)
         /\ i + 1 \notin BreaksTo(r, i)
<1>1. 1 .. i + 1 = (1 .. i) \cup {i + 1} /\ (i + 1) - 1 = i /\ i + 1 \notin 1 .. i
  OBVIOUS
<1>2. NearTo(r, i + 1) <=> NearTo(r, i) /\ r[i + 1] \in Probe!Recoverable(i)
  BY <1>1, Zenon DEF NearTo
<1>3. ReadTo(r, i + 1) = ReadTo(r, i) \cup {r[i + 1]}
  BY <1>1 DEF ReadTo
<1>4. /\ BreaksTo(r, i + 1) = IF r[i + 1] # Expected(r, i + 1) THEN BreaksTo(r, i) \cup {i + 1} ELSE BreaksTo(r, i)
      /\ i + 1 \notin BreaksTo(r, i)
  <2> HIDE DEF Expected
  <2>. QED  BY <1>1 DEF BreaksTo
<1>. QED  BY <1>2, <1>3, <1>4

LEMMA PrefixEmpty == ASSUME NEW r PROVE NearTo(r, 0) /\ ReadTo(r, 0) = {} /\ BreaksTo(r, 0) = {}
<1>1. 1 .. 0 = {}
  OBVIOUS
<1>. QED  BY <1>1 DEF NearTo, ReadTo, BreaksTo

\* Adding to a finite set what is in it, or what is not.
LEMMA CardinalityGrows ==
  ASSUME NEW s, NEW x, IsFiniteSet(s)
  PROVE  /\ IsFiniteSet(s \cup {x}) /\ Cardinality(s) \in Nat
         /\ Cardinality(s \cup {x}) = Cardinality(s) + (IF x \in s THEN 0 ELSE 1)
<1>1. IsFiniteSet(s \cup {x}) /\ Cardinality(s) \in Nat /\ Cardinality(s \cup {x}) = IF x \in s THEN Cardinality(s) ELSE Cardinality(s) + 1
  BY FS_AddElement, FS_CardinalityType
<1>. QED  BY <1>1

\* The first check knows a sample read too far from its place by its time; as long as there is none, it counts
\* the missing, the repeated and the places where the index does not go on by one.
LEMMA ManifestCounted ==
  ASSUME NEW r \in Seq(0 .. Samples - 1)
  PROVE  /\ Probe!ManifestCheck(r).timer = 0 <=> NearTo(r, Len(r))
         /\ Probe!ManifestCheck(r).timer = 0 =>
              /\ Probe!Missing(Probe!ManifestCheck(r)) = Samples - Cardinality(ReadTo(r, Len(r)))
              /\ Probe!ManifestCheck(r).dups = Len(r) - Cardinality(ReadTo(r, Len(r)))
              /\ Probe!ManifestCheck(r).order = Cardinality(BreaksTo(r, Len(r)))
<1> DEFINE n == Len(r)
<1>0. n \in Nat /\ Samples \in Nat /\ r \in Seq(Nat) /\ \A i \in 1 .. n : r[i] \in 0 .. Samples - 1
  BY PairsAssumption
<1>1. PICK h \in [0 .. n -> Tally] :
        /\ h[0] = NoTally /\ h[n] = Probe!ManifestCheck(r)
        /\ \A i \in 1 .. n : h[i] = Probe!ManifestStep(h[i - 1], r[i])
  BY <1>0, TallyHistory
<1> HIDE DEF n
<1> DEFINE Counted(i) == /\ h[i].expected = Expected(r, i + 1)
                         /\ h[i].seen = ReadTo(r, i)
                         /\ h[i].dups + Cardinality(ReadTo(r, i)) = i
                         /\ h[i].order = Cardinality(BreaksTo(r, i))
           P == {i \in Nat : i <= n =>
                   /\ h[i].received = i /\ (h[i].timer = 0 <=> NearTo(r, i))
                   /\ IsFiniteSet(ReadTo(r, i)) /\ IsFiniteSet(BreaksTo(r, i))
                   /\ h[i].timer = 0 => Counted(i)}
<1>2. 0 \in P
  <2>1. NoTally.received = 0 /\ NoTally.dups = 0 /\ NoTally.timer = 0 /\ NoTally.seen = {}
        /\ NoTally.expected = 0 /\ NoTally.order = 0
    BY DEF NoTally
  <2>2. NearTo(r, 0) /\ ReadTo(r, 0) = {} /\ BreaksTo(r, 0) = {} /\ Expected(r, 0 + 1) = 0
    BY PrefixEmpty DEF Expected
  <2>3. IsFiniteSet({}) /\ Cardinality({}) = 0
    BY FS_EmptySet
  <2>4. h[0].received = 0 /\ h[0].timer = 0
    BY <1>1, <2>1, Zenon
  <2>5. h[0].expected = Expected(r, 0 + 1) /\ h[0].seen = ReadTo(r, 0) /\ h[0].order = Cardinality(BreaksTo(r, 0))
    BY <1>1, <2>1, <2>2, <2>3, Zenon
  <2>6. h[0].dups + Cardinality(ReadTo(r, 0)) = 0
    <3>1. h[0].dups = 0 /\ Cardinality(ReadTo(r, 0)) = 0
      BY <1>1, <2>1, <2>2, <2>3, Zenon
    <3>. QED  BY <3>1
  <2>7. Counted(0)
    BY <2>5, <2>6, Zenon
  <2>8. IsFiniteSet(ReadTo(r, 0)) /\ IsFiniteSet(BreaksTo(r, 0))
    BY <2>2, <2>3, Zenon
  <2> HIDE DEF Counted
  <2>. QED  BY <2>2, <2>4, <2>7, <2>8, Zenon
<1>3. ASSUME NEW i \in P PROVE i + 1 \in P
  <2> SUFFICES ASSUME i + 1 <= n
               PROVE  /\ h[i + 1].received = i + 1 /\ (h[i + 1].timer = 0 <=> NearTo(r, i + 1))
                      /\ IsFiniteSet(ReadTo(r, i + 1)) /\ IsFiniteSet(BreaksTo(r, i + 1))
                      /\ h[i + 1].timer = 0 => Counted(i + 1)
    OBVIOUS
  <2>1. /\ i \in Nat /\ i <= n /\ i + 1 \in 1 .. n /\ (i + 1) - 1 = i
        /\ h[i] \in Tally /\ h[i].received = i /\ (h[i].timer = 0 <=> NearTo(r, i))
        /\ IsFiniteSet(ReadTo(r, i)) /\ IsFiniteSet(BreaksTo(r, i))
        /\ h[i].timer = 0 => Counted(i)
    BY <1>0
  <2>2. PICK x \in 0 .. Samples - 1 : x = r[i + 1]
    BY <1>0, <2>1
  <2>3. /\ h[i + 1].received = i + 1
        /\ h[i + 1].timer = 0 <=> h[i].timer = 0 /\ x \in Probe!Recoverable(i)
        /\ x \in Probe!Recoverable(i) =>
             /\ h[i + 1].expected = x + 1
             /\ h[i + 1].seen = h[i].seen \cup {x}
             /\ h[i + 1].dups = h[i].dups + (IF x \in h[i].seen THEN 1 ELSE 0)
             /\ h[i + 1].order = h[i].order + (IF x # h[i].expected THEN 1 ELSE 0)
    <3>1. h[i + 1] = Probe!ManifestStep(h[i], x)
      BY <1>1, <2>1, <2>2
    <3>2. h[i].received = i
      BY <2>1
    <3> DEFINE c == h[i]
               d == h[i + 1]
    <3>3. c \in Tally /\ c.received = i /\ d = Probe!ManifestStep(c, x)
      BY <2>1, <3>1, Zenon
    <3> HIDE DEF c, d
    <3>4. /\ d.received = c.received + 1
          /\ d.timer = 0 <=> c.timer = 0 /\ x \in Probe!Recoverable(c.received)
          /\ x \in Probe!Recoverable(c.received) =>
               /\ d.expected = x + 1 /\ d.seen = c.seen \cup {x}
               /\ d.dups = c.dups + (IF x \in c.seen THEN 1 ELSE 0)
               /\ d.order = c.order + (IF x # c.expected THEN 1 ELSE 0)
      BY <3>3, TallyMoves, Zenon
    <3>. QED  BY <3>3, <3>4, Zenon DEF c, d
  <2>4. /\ NearTo(r, i + 1) <=> NearTo(r, i) /\ x \in Probe!Recoverable(i)
        /\ ReadTo(r, i + 1) = ReadTo(r, i) \cup {x}
        /\ BreaksTo(r, i + 1) = IF x # Expected(r, i + 1) THEN BreaksTo(r, i) \cup {i + 1} ELSE BreaksTo(r, i)
        /\ i + 1 \notin BreaksTo(r, i)
    BY <2>1, <2>2, PrefixGrows, Zenon
  <2>5. /\ IsFiniteSet(ReadTo(r, i + 1)) /\ Cardinality(ReadTo(r, i)) \in Nat
        /\ Cardinality(ReadTo(r, i + 1)) = Cardinality(ReadTo(r, i)) + (IF x \in ReadTo(r, i) THEN 0 ELSE 1)
    <3>1. /\ IsFiniteSet(ReadTo(r, i) \cup {x}) /\ Cardinality(ReadTo(r, i)) \in Nat
          /\ Cardinality(ReadTo(r, i) \cup {x}) = Cardinality(ReadTo(r, i)) + (IF x \in ReadTo(r, i) THEN 0 ELSE 1)
      BY <2>1, CardinalityGrows, Zenon
    <3>. QED  BY <2>4, <3>1, Zenon
  <2>6. /\ IsFiniteSet(BreaksTo(r, i + 1)) /\ Cardinality(BreaksTo(r, i)) \in Nat
        /\ Cardinality(BreaksTo(r, i + 1)) = Cardinality(BreaksTo(r, i)) + (IF x # Expected(r, i + 1) THEN 1 ELSE 0)
    <3>1. /\ IsFiniteSet(BreaksTo(r, i) \cup {i + 1}) /\ Cardinality(BreaksTo(r, i)) \in Nat
          /\ Cardinality(BreaksTo(r, i) \cup {i + 1}) = Cardinality(BreaksTo(r, i)) + (IF i + 1 \in BreaksTo(r, i) THEN 0 ELSE 1)
      BY <2>1, CardinalityGrows, Zenon
    <3>2. CASE x # Expected(r, i + 1)
      BY <2>4, <3>1, <3>2
    <3>3. CASE x = Expected(r, i + 1)
      BY <2>1, <2>4, <3>1, <3>3
    <3>. QED  BY <3>2, <3>3
  <2>7. Expected(r, (i + 1) + 1) = x + 1
    BY <2>1, <2>2 DEF Expected
  <2>8. ASSUME h[i + 1].timer = 0 PROVE Counted(i + 1)
    <3>1. h[i].timer = 0 /\ x \in Probe!Recoverable(i)
      BY <2>3, <2>8, Zenon
    <3>2. h[i].expected = Expected(r, i + 1) /\ h[i].seen = ReadTo(r, i)
          /\ h[i].dups + Cardinality(ReadTo(r, i)) = i /\ h[i].order = Cardinality(BreaksTo(r, i))
      BY <2>1, <3>1, Zenon
    <3>3. h[i + 1].expected = Expected(r, (i + 1) + 1) /\ h[i + 1].seen = ReadTo(r, i + 1)
      BY <2>3, <2>4, <2>7, <3>1, <3>2, Zenon
    <3>4. h[i + 1].order = Cardinality(BreaksTo(r, i + 1))
      BY <2>3, <2>6, <3>1, <3>2, Zenon
    <3>5. h[i + 1].dups = h[i].dups + (IF x \in ReadTo(r, i) THEN 1 ELSE 0) /\ h[i].dups \in Nat
      <4>1. h[i].dups \in Nat
        BY <2>1 DEF Tally
      <4>. QED  BY <2>3, <3>1, <3>2, <4>1, Zenon
    <3>6. h[i + 1].dups + Cardinality(ReadTo(r, i + 1)) = i + 1
      <4>1. CASE x \in ReadTo(r, i)
        BY <2>1, <2>5, <3>2, <3>5, <4>1
      <4>2. CASE x \notin ReadTo(r, i)
        BY <2>1, <2>5, <3>2, <3>5, <4>2
      <4>. QED  BY <4>1, <4>2
    <3>. QED  BY <3>3, <3>4, <3>6, Zenon
  <2> HIDE DEF Counted
  <2>. QED  BY <2>1, <2>3, <2>4, <2>5, <2>6, <2>8, Zenon
<1>4. P = Nat
  <2> HIDE DEF P
  <2>1. P \subseteq Nat
    BY DEF P
  <2>. QED  BY <1>2, <1>3, <2>1, NatSetInduction
<1>5. /\ h[n].timer = 0 <=> NearTo(r, n)
      /\ IsFiniteSet(ReadTo(r, n)) /\ h[n] \in Tally
      /\ h[n].timer = 0 => Counted(n)
  BY <1>0, <1>4
<1>6. ASSUME h[n].timer = 0
      PROVE  /\ Probe!Missing(h[n]) = Samples - Cardinality(ReadTo(r, n))
             /\ h[n].dups = n - Cardinality(ReadTo(r, n))
             /\ h[n].order = Cardinality(BreaksTo(r, n))
  <2>1. h[n].seen = ReadTo(r, n) /\ h[n].dups + Cardinality(ReadTo(r, n)) = n /\ h[n].order = Cardinality(BreaksTo(r, n))
    BY <1>5, <1>6, Zenon
  <2>2. Probe!Missing(h[n]) = Samples - Cardinality(ReadTo(r, n))
    BY <2>1, SameCardinality, Zenon DEF Probe!Missing
  <2>3. h[n].dups \in Nat /\ Cardinality(ReadTo(r, n)) \in Nat
    BY <1>5, FS_CardinalityType DEF Tally
  <2>4. h[n].dups = n - Cardinality(ReadTo(r, n))
    BY <2>1, <2>3
  <2>. QED  BY <2>1, <2>2, <2>4
<1> HIDE DEF Counted
<1>. QED  BY <1>1, <1>5, <1>6, Zenon DEF n

\* A remainder of a number between minus the divisor and the divisor.
LEMMA SmallMod ==
  ASSUME NEW w \in Nat \ {0}, NEW z \in -w .. w - 1
  PROVE  /\ z >= 0 => z % w = z
         /\ z < 0 => z % w = z + w
<1>1. PICK c \in Int, x \in 0 .. w - 1 : x = z % w /\ z = w * c + x
  <2>1. z \in Int
    OBVIOUS
  <2>. QED  BY <2>1, DivMod
<1>2. c = 0 \/ c = -1
  <2>1. CASE c >= 1
    <3>1. w * c >= w
      BY <2>1
    <3>. QED  BY <1>1, <3>1
  <2>2. CASE c <= -2
    <3>1. w * c <= -w - w
      BY <2>2
    <3>. QED  BY <1>1, <3>1
  <2>. QED  BY <2>1, <2>2
<1>3. w * 0 = 0 /\ w * (-1) = -w
  OBVIOUS
<1>. QED  BY <1>1, <1>2, <1>3

SeqTally == [last : 0 .. Wrap - 1, missed : Nat, dups : Nat, order : Nat]

LEMMA SeqTallyFields ==
  ASSUME NEW c \in SeqTally, NEW s \in 0 .. Wrap - 1, NEW d \in Nat
  PROVE  /\ [c EXCEPT !.dups = @ + 1] \in SeqTally
         /\ [c EXCEPT !.order = @ + 1, !.last = s] \in SeqTally
         /\ [c EXCEPT !.missed = @ + d, !.last = s] \in SeqTally
<1>1. \A x \in SeqTally, n \in Nat : [x EXCEPT !.order = n] \in SeqTally /\ [x EXCEPT !.missed = n] \in SeqTally
  BY DEF SeqTally
<1>2. \A x \in SeqTally : [x EXCEPT !.last = s] \in SeqTally
  BY DEF SeqTally
<1>3. c.order + 1 \in Nat /\ c.missed + d \in Nat
  BY DEF SeqTally
<1>4. /\ [c EXCEPT !.order = @ + 1, !.last = s] = [[c EXCEPT !.order = c.order + 1] EXCEPT !.last = s]
      /\ [c EXCEPT !.missed = @ + d, !.last = s] = [[c EXCEPT !.missed = c.missed + d] EXCEPT !.last = s]
  BY DEF SeqTally
<1>5. [c EXCEPT !.dups = @ + 1] \in SeqTally
  BY DEF SeqTally
<1>. QED  BY <1>1, <1>2, <1>3, <1>4, <1>5

LEMMA SeqTallyStep ==
  ASSUME NEW c \in SeqTally, NEW i \in Nat
  PROVE  Probe!SeqStep(c, i) \in SeqTally
<1>0. i % Wrap \in 0 .. Wrap - 1 /\ Wrap \in Nat \ {0}
  BY NumberFacts, Wrapping
<1>1. i % Wrap \in 0 .. Wrap - 1 /\ Wrap \in Nat \ {0} /\ c.last \in 0 .. Wrap - 1
  BY <1>0 DEF SeqTally
<1>2. (i % Wrap) - (c.last + 1) \in Int
  BY <1>1
<1>3. ((i % Wrap) - (c.last + 1)) % Wrap \in 0 .. Wrap - 1
  BY <1>1, <1>2, DivMod
<1>4. ((i % Wrap) - (c.last + 1)) % Wrap \in Nat
  BY <1>1, <1>3
<1> DEFINE seq == i % Wrap
           diff == (seq - (c.last + 1)) % Wrap
<1>5. seq \in 0 .. Wrap - 1 /\ diff \in Nat
  BY <1>1, <1>4
<1>6. /\ [c EXCEPT !.dups = @ + 1] \in SeqTally
      /\ [c EXCEPT !.order = @ + 1, !.last = seq] \in SeqTally
      /\ [c EXCEPT !.missed = @ + diff, !.last = seq] \in SeqTally
  <2> HIDE DEF seq, diff
  <2>. QED  BY <1>5, SeqTallyFields
<1>. QED  BY <1>6 DEF Probe!SeqStep

LEMMA SeqTallyStart == ASSUME NEW i \in Nat PROVE [last |-> i % Wrap, missed |-> 0, dups |-> 0, order |-> 0] \in SeqTally
<1>1. i % Wrap \in 0 .. Wrap - 1
  BY NumberFacts
<1>. QED  BY <1>1 DEF SeqTally

LEMMA SeqTallyHistory ==
  ASSUME NEW start \in SeqTally, NEW q \in Seq(Nat)
  PROVE  \E h \in [0 .. Len(q) -> SeqTally] :
           /\ h[0] = start /\ h[Len(q)] = Probe!FoldLeft(Probe!SeqStep, start, q)
           /\ \A i \in 1 .. Len(q) : h[i] = Probe!SeqStep(h[i - 1], q[i])
<1> DEFINE n == Len(q)
           F == [p \in SeqTally \X (1 .. n) |-> Probe!SeqStep(p[1], q[p[2]])]
           Eqn(g) == g = [s \in SUBSET (1 .. n) |->
                            IF s = {} THEN start ELSE Probe!SeqStep(g[s \ {Probe!Max(s)}], q[Probe!Max(s)])]
           it == CHOOSE g : Eqn(g)
           V == SeqTally \cup {it[s] : s \in SUBSET (1 .. n)}
           G == [p \in V \X (1 .. n) |-> Probe!SeqStep(p[1], q[p[2]])]
<1>1. n \in Nat /\ DOMAIN q = 1 .. n /\ \A i \in 1 .. n : q[i] \in Nat
  BY LenProperties
<1>2. Probe!FoldLeft(Probe!SeqStep, start, q) = it[1 .. n]
  BY <1>1 DEF Probe!FoldLeft, Probe!MapThenFoldSet
<1>3. \A s : Probe!Max(s) = Top(s)
  BY DEF Probe!Max, Top
<1>4. start \in SeqTally /\ \A c \in SeqTally, i \in 1 .. n : Probe!SeqStep(c, q[i]) \in SeqTally
  <2> HIDE DEF n
  <2>. QED  BY <1>1, SeqTallyStep
<1> HIDE DEF n
<1>5. \A s \in SUBSET (1 .. n) : s # {} => Top(s) \in 1 .. n /\ s \ {Top(s)} \in SUBSET (1 .. n)
  BY <1>1, TopInterval
<1>6. F \in [SeqTally \X (1 .. n) -> SeqTally] /\ \A c \in SeqTally, i \in 1 .. n : F[<<c, i>>] = Probe!SeqStep(c, q[i])
  <2>1. ASSUME NEW p \in SeqTally \X (1 .. n) PROVE Probe!SeqStep(p[1], q[p[2]]) \in SeqTally
    <3>1. p[1] \in SeqTally /\ p[2] \in 1 .. n
      OBVIOUS
    <3>. QED  BY <1>4, <3>1
  <2>2. ASSUME NEW c \in SeqTally, NEW i \in 1 .. n PROVE F[<<c, i>>] = Probe!SeqStep(c, q[i])
    <3>1. <<c, i>> \in SeqTally \X (1 .. n) /\ <<c, i>>[1] = c /\ <<c, i>>[2] = i
      OBVIOUS
    <3>. QED  BY <3>1, Zenon
  <2>. QED  BY <2>1, <2>2, Zenon
<1>7. \E g : Eqn(g)
  <2>1. PICK g : Iterates(g, SeqTally, F, start, n)
    <3> HIDE DEF F
    <3>. QED  BY <1>1, <1>4, <1>6, IterationExists
  <2>2. /\ g \in [SUBSET (1 .. n) -> SeqTally]
        /\ \A s \in SUBSET (1 .. n) : g[s] = IF s = {} THEN start ELSE F[<<g[s \ {Top(s)}], Top(s)>>]
    BY <2>1, Zenon DEF Iterates
  <2>3. ASSUME NEW s \in SUBSET (1 .. n)
        PROVE  g[s] = IF s = {} THEN start ELSE Probe!SeqStep(g[s \ {Probe!Max(s)}], q[Probe!Max(s)])
    <3>1. CASE s = {}
      BY <2>2, <3>1, Zenon
    <3>2. CASE s # {}
      <4>1. Top(s) \in 1 .. n /\ g[s \ {Top(s)}] \in SeqTally
        <5> HIDE DEF F
        <5>. QED  BY <1>5, <2>2, <3>2
      <4>2. F[<<g[s \ {Top(s)}], Top(s)>>] = Probe!SeqStep(g[s \ {Top(s)}], q[Top(s)])
        BY <1>6, <4>1, Zenon
      <4>. QED  BY <1>3, <2>2, <3>2, <4>2, Zenon
    <3>. QED  BY <3>1, <3>2, Zenon
  <2>4. g = [s \in SUBSET (1 .. n) |-> g[s]]
    BY <2>2, Zenon
  <2>5. Eqn(g)
    BY <2>3, <2>4, Zenon
  <2>. QED  BY <2>5, Zenon
<1>8. Eqn(it)
  BY <1>7, Zenon
<1> HIDE DEF it
<1>9. \A c \in V, i \in 1 .. n : G[<<c, i>>] = Probe!SeqStep(c, q[i])
  <2>1. ASSUME NEW c \in V, NEW i \in 1 .. n PROVE G[<<c, i>>] = Probe!SeqStep(c, q[i])
    <3> HIDE DEF V
    <3>1. <<c, i>> \in V \X (1 .. n) /\ <<c, i>>[1] = c /\ <<c, i>>[2] = i
      OBVIOUS
    <3>. QED  BY <3>1, Zenon
  <2>. QED  BY <2>1
<1>10. \A s \in SUBSET (1 .. n) : it[s] = IF s = {} THEN start ELSE G[<<it[s \ {Top(s)}], Top(s)>>]
  <2> SUFFICES ASSUME NEW s \in SUBSET (1 .. n)
               PROVE  it[s] = IF s = {} THEN start ELSE G[<<it[s \ {Top(s)}], Top(s)>>]
    OBVIOUS
  <2>1. it[s] = IF s = {} THEN start ELSE Probe!SeqStep(it[s \ {Top(s)}], q[Top(s)])
    BY <1>3, <1>8, Zenon
  <2>2. CASE s # {}
    <3>1. Top(s) \in 1 .. n /\ it[s \ {Top(s)}] \in V
      BY <1>5, <2>2, Zenon
    <3> HIDE DEF V, G
    <3>. QED  BY <1>9, <2>1, <2>2, <3>1, Zenon
  <2>. QED  BY <2>1, <2>2, Zenon
<1>11. \A c \in SeqTally, i \in 1 .. n : G[<<c, i>>] = Probe!SeqStep(c, q[i]) /\ G[<<c, i>>] \in SeqTally
  BY <1>4, <1>9, Zenon
<1> HIDE DEF V, G
<1>12. PICK h \in [0 .. n -> SeqTally] : History(h, G, start, n) /\ h[n] = it[1 .. n]
  <2>1. Keeps(G, SeqTally, n) /\ Unfolds(it, G, start, n)
    BY <1>10, <1>11, Zenon DEF Keeps, Unfolds
  <2>2. start \in SeqTally /\ n \in Nat
    BY <1>1, <1>4, Zenon
  <2>3. Iteration(SeqTally, start, n, G, it)
    BY <2>1, <2>2, Zenon DEF Iteration
  <2>. QED  BY <2>3, IterationHistory
<1>13. ASSUME NEW i \in 1 .. n PROVE h[i] = Probe!SeqStep(h[i - 1], q[i])
  <2>1. i - 1 \in 0 .. n /\ h[i - 1] \in SeqTally
    BY <1>1
  <2>. QED  BY <1>11, <1>12, <2>1, Zenon DEF History
<1>. QED  BY <1>2, <1>12, <1>13, Zenon DEF n, History

\* One step of the second check, between samples that are no further apart than half the numbers.
Apart(c, a, b) ==
  /\ c \in SeqTally /\ a \in Nat /\ b \in Nat /\ c.last = a % Wrap
  /\ b - a \in 2 - Probe!Half .. Probe!Half + 1

LEMMA SeqStepFound ==
  ASSUME NEW c, NEW a, NEW b, Apart(c, a, b)
  PROVE  /\ Probe!SeqStep(c, b).last = b % Wrap
         /\ b = a => /\ Probe!SeqStep(c, b).dups = c.dups + 1
                     /\ Probe!SeqStep(c, b).missed = c.missed /\ Probe!SeqStep(c, b).order = c.order
         /\ b > a => /\ Probe!SeqStep(c, b).missed = c.missed + (b - a - 1)
                     /\ Probe!SeqStep(c, b).dups = c.dups /\ Probe!SeqStep(c, b).order = c.order
         /\ b < a => /\ Probe!SeqStep(c, b).order = c.order + 1
                     /\ Probe!SeqStep(c, b).missed = c.missed /\ Probe!SeqStep(c, b).dups = c.dups
<1>0. c \in SeqTally /\ a \in Nat /\ b \in Nat /\ c.last = a % Wrap /\ b - a \in 2 - Probe!Half .. Probe!Half + 1
  BY Zenon DEF Apart
<1>1. PICK half \in Nat, w \in Nat : half > 1 /\ w = half + half /\ half = Probe!Half /\ w = Wrap
  BY Wrapping
<1>2. PICK p \in Nat, q \in Nat, x \in 0 .. w - 1, y \in 0 .. w - 1 :
        x = a % Wrap /\ y = b % Wrap /\ a = w * p + x /\ b = w * q + y
  <2>1. a \div w \in Nat /\ a % w \in 0 .. w - 1 /\ a = w * (a \div w) + (a % w)
    BY <1>0, <1>1, NumberFacts, Zenon
  <2>2. b \div w \in Nat /\ b % w \in 0 .. w - 1 /\ b = w * (b \div w) + (b % w)
    BY <1>0, <1>1, NumberFacts, Zenon
  <2>. QED  BY <1>1, <2>1, <2>2, Zenon
<1>3. p = q \/ q = p + 1 \/ p = q + 1
  <2>1. CASE p >= q + 2
    <3>1. w * p >= w * q + w + w
      BY <2>1
    <3>. QED  BY <1>0, <1>1, <1>2, <3>1
  <2>2. CASE q >= p + 2
    <3>1. w * q >= w * p + w + w
      BY <2>2
    <3>. QED  BY <1>0, <1>1, <1>2, <3>1
  <2>. QED  BY <1>2, <2>1, <2>2
<1>4. b - a = y - x \/ b - a = w + y - x \/ b - a = y - x - w
  <2>1. w * (p + 1) = w * p + w /\ w * (q + 1) = w * q + w /\ w * p \in Nat /\ w * q \in Nat
    OBVIOUS
  <2>2. CASE p = q
    BY <1>2, <2>1, <2>2
  <2>3. CASE q = p + 1
    BY <1>2, <2>1, <2>3
  <2>4. CASE p = q + 1
    BY <1>2, <2>1, <2>4
  <2>. QED  BY <1>3, <2>2, <2>3, <2>4
<1> DEFINE z == y - (x + 1)
           diff == z % Wrap
<1>5. z \in -w .. w - 1 /\ w \in Nat \ {0}
  BY <1>1, <1>2
<1>6. (z >= 0 => diff = z) /\ (z < 0 => diff = z + w)
  BY <1>1, <1>5, SmallMod
<1>7. /\ b = a => y = x
      /\ b > a => y # x /\ diff = b - a - 1 /\ ~ (diff > Probe!Half)
      /\ b < a => y # x /\ diff > Probe!Half
  <2> HIDE DEF diff
  <2>. QED  BY <1>0, <1>1, <1>2, <1>4, <1>6
<1>8. /\ y = x => Probe!SeqStep(c, b) = [c EXCEPT !.dups = @ + 1]
      /\ y # x /\ diff > Probe!Half => Probe!SeqStep(c, b) = [c EXCEPT !.order = @ + 1, !.last = y]
      /\ y # x /\ ~ (diff > Probe!Half) => Probe!SeqStep(c, b) = [c EXCEPT !.missed = @ + diff, !.last = y]
  BY <1>0, <1>2, Zenon DEF Probe!SeqStep
<1>9. b = a \/ b > a \/ b < a
  BY <1>0
<1> HIDE DEF diff
<1>10. CASE b = a
  BY <1>0, <1>2, <1>7, <1>8, <1>10 DEF SeqTally
<1>11. CASE b > a
  BY <1>0, <1>2, <1>7, <1>8, <1>11 DEF SeqTally
<1>12. CASE b < a
  BY <1>0, <1>2, <1>7, <1>8, <1>12 DEF SeqTally
<1>. QED  BY <1>9, <1>10, <1>11, <1>12

\* The history of the second check.
LEMMA SeqCheckHistory ==
  ASSUME NEW r \in Seq(Nat), r # <<>>
  PROVE  \E h \in [0 .. Len(r) - 1 -> SeqTally] :
           /\ h[0] = [last |-> r[1] % Wrap, missed |-> 0, dups |-> 0, order |-> 0]
           /\ h[Len(r) - 1] = Probe!SeqCheck(r)
           /\ \A i \in 1 .. Len(r) - 1 : h[i] = Probe!SeqStep(h[i - 1], r[i + 1])
<1> DEFINE q == Tail(r)
           start == [last |-> r[1] % Wrap, missed |-> 0, dups |-> 0, order |-> 0]
<1>1. q \in Seq(Nat) /\ Len(q) = Len(r) - 1 /\ \A i \in 1 .. Len(q) : q[i] = r[i + 1]
  OBVIOUS
<1>2. start \in SeqTally
  <2>1. r[1] \in Nat
    OBVIOUS
  <2>. QED  BY <2>1, SeqTallyStart
<1>3. Probe!SeqCheck(r) = Probe!FoldLeft(Probe!SeqStep, start, q)
  BY Zenon DEF Probe!SeqCheck
<1> HIDE DEF start, q
<1>4. PICK h \in [0 .. Len(q) -> SeqTally] :
        /\ h[0] = start /\ h[Len(q)] = Probe!FoldLeft(Probe!SeqStep, start, q)
        /\ \A i \in 1 .. Len(q) : h[i] = Probe!SeqStep(h[i - 1], q[i])
  BY <1>1, <1>2, SeqTallyHistory
<1>5. \A i \in 1 .. Len(r) - 1 : h[i] = Probe!SeqStep(h[i - 1], r[i + 1])
  BY <1>1, <1>4, Zenon
<1>. QED  BY <1>1, <1>3, <1>4, <1>5, Zenon DEF start

\* What the second check has counted when samples are only missing.
LEMMA SeqLossCounted ==
  ASSUME NEW r \in Seq(Nat), r # <<>>, Probe!InOrder(r),
         \A i \in 2 .. Len(r) : r[i] - r[i - 1] - 1 <= Probe!Half
  PROVE  /\ Probe!SeqCheck(r).dups = 0 /\ Probe!SeqCheck(r).order = 0
         /\ Probe!SeqCheck(r).missed = (Probe!Last(r) + 1) - r[1] - Len(r)
<1> DEFINE n == Len(r)
<1>0. n \in Nat /\ n > 0 /\ \A i \in 1 .. n : r[i] \in Nat
  OBVIOUS
<1>1. PICK h \in [0 .. n - 1 -> SeqTally] :
        /\ h[0] = [last |-> r[1] % Wrap, missed |-> 0, dups |-> 0, order |-> 0]
        /\ h[n - 1] = Probe!SeqCheck(r)
        /\ \A i \in 1 .. n - 1 : h[i] = Probe!SeqStep(h[i - 1], r[i + 1])
  BY SeqCheckHistory
<1>2. ASSUME NEW i \in 2 .. n PROVE r[i - 1] < r[i] /\ r[i] - r[i - 1] - 1 <= Probe!Half
  BY DEF Probe!InOrder
<1>3. Probe!Last(r) = r[n] /\ Probe!Half \in Nat /\ Probe!Half > 1
  BY Wrapping DEF Probe!Last
<1> HIDE DEF n
<1> DEFINE P == {i \in Nat : i <= n - 1 =>
                   /\ h[i].last = r[i + 1] % Wrap /\ h[i].dups = 0 /\ h[i].order = 0
                   /\ h[i].missed = r[i + 1] - r[1] - i}
<1>4. 0 \in P
  <2>1. r[0 + 1] = r[1] /\ r[1] \in Nat
    BY <1>0
  <2>2. h[0].last = r[1] % Wrap /\ h[0].dups = 0 /\ h[0].order = 0 /\ h[0].missed = 0
    BY <1>1
  <2>3. r[0 + 1] - r[1] - 0 = 0
    BY <2>1
  <2>. QED  BY <2>1, <2>2, <2>3
<1>5. ASSUME NEW i \in P PROVE i + 1 \in P
  <2> SUFFICES ASSUME i + 1 <= n - 1
               PROVE  /\ h[i + 1].last = r[(i + 1) + 1] % Wrap /\ h[i + 1].dups = 0 /\ h[i + 1].order = 0
                      /\ h[i + 1].missed = r[(i + 1) + 1] - r[1] - (i + 1)
    OBVIOUS
  <2>1. /\ i \in Nat /\ i <= n - 1 /\ i + 1 \in 1 .. n - 1 /\ (i + 1) - 1 = i /\ h[i] \in SeqTally
        /\ h[i].last = r[i + 1] % Wrap /\ h[i].dups = 0 /\ h[i].order = 0
        /\ h[i].missed = r[i + 1] - r[1] - i
    BY <1>0
  <2>2. PICK a \in Nat, b \in Nat, c \in Nat : a = r[i + 1] /\ b = r[(i + 1) + 1] /\ c = r[1]
    <3>1. i + 1 \in 1 .. n /\ (i + 1) + 1 \in 1 .. n /\ 1 \in 1 .. n
      BY <1>0, <2>1
    <3>. QED  BY <1>0, <3>1
  <2>3. a < b /\ b - a - 1 <= Probe!Half
    <3>1. PICK k \in 2 .. n : k = (i + 1) + 1 /\ k - 1 = i + 1
      BY <1>0, <2>1
    <3>. QED  BY <1>2, <2>2, <3>1, Zenon
  <2>4. b - a \in 2 - Probe!Half .. Probe!Half + 1
    BY <1>3, <2>3
  <2>5. h[i + 1] = Probe!SeqStep(h[i], b)
    BY <1>1, <2>1, <2>2, Zenon
  <2>6. /\ h[i + 1].last = b % Wrap
        /\ h[i + 1].missed = h[i].missed + (b - a - 1)
        /\ h[i + 1].dups = h[i].dups /\ h[i + 1].order = h[i].order
    <3>1. b > a
      BY <2>3
    <3>2. h[i] \in SeqTally /\ h[i].last = a % Wrap
      BY <2>1, <2>2, Zenon
    <3>3. Apart(h[i], a, b)
      BY <2>4, <3>2, Zenon DEF Apart
    <3> DEFINE u == h[i]
    <3>4. Apart(u, a, b)
      BY <3>3, Zenon
    <3> HIDE DEF u
    <3>5. /\ Probe!SeqStep(u, b).last = b % Wrap
          /\ b > a => /\ Probe!SeqStep(u, b).missed = u.missed + (b - a - 1)
                      /\ Probe!SeqStep(u, b).dups = u.dups /\ Probe!SeqStep(u, b).order = u.order
      BY <3>4, SeqStepFound
    <3>. QED  BY <2>5, <3>1, <3>5, Zenon DEF u
  <2>7. (a - c - i) + (b - a - 1) = b - c - (i + 1)
    BY <2>1
  <2>. QED  BY <2>1, <2>2, <2>6, <2>7, Zenon
<1>6. P = Nat
  <2> HIDE DEF P
  <2>1. P \subseteq Nat
    BY DEF P
  <2>. QED  BY <1>4, <1>5, <2>1, NatSetInduction
<1>7. n - 1 \in Nat /\ (n - 1) + 1 = n
  BY <1>0
<1>8. h[n - 1].dups = 0 /\ h[n - 1].order = 0 /\ h[n - 1].missed = r[n] - r[1] - (n - 1)
  BY <1>6, <1>7
<1>9. r[n] - r[1] - (n - 1) = (r[n] + 1) - r[1] - n
  <2>1. PICK x \in Nat, y \in Nat : x = r[n] /\ y = r[1]
    BY <1>0
  <2>2. x - y - (n - 1) = (x + 1) - y - n
    BY <1>0
  <2>. QED  BY <2>1, <2>2, Zenon
<1>. QED  BY <1>1, <1>3, <1>8, <1>9, Zenon DEF n

\* The second check passes samples that follow one another, and no others unless two are further apart
\* than half the numbers.
LEMMA SeqPassed ==
  ASSUME NEW r \in Seq(Nat), \A i \in 2 .. Len(r) : r[i] - r[i - 1] \in 2 - Probe!Half .. Probe!Half + 1
  PROVE  Probe!SeqPasses(r) <=> \A i \in 2 .. Len(r) : r[i] = r[i - 1] + 1
<1>0. CASE r = <<>>
  <2>1. Len(r) = 0
    BY <1>0
  <2>2. \A i \in 2 .. Len(r) : r[i] = r[i - 1] + 1
    BY <2>1
  <2>. QED  BY <1>0, <2>2, Zenon DEF Probe!SeqPasses
<1>1. CASE r # <<>>
  <2> DEFINE n == Len(r)
             Follows(i) == \A j \in 2 .. i : r[j] = r[j - 1] + 1
  <2>0. n \in Nat /\ n > 0 /\ \A i \in 1 .. n : r[i] \in Nat
    BY <1>1
  <2>1. PICK h \in [0 .. n - 1 -> SeqTally] :
          /\ h[0] = [last |-> r[1] % Wrap, missed |-> 0, dups |-> 0, order |-> 0]
          /\ h[n - 1] = Probe!SeqCheck(r)
          /\ \A i \in 1 .. n - 1 : h[i] = Probe!SeqStep(h[i - 1], r[i + 1])
    BY <1>1, SeqCheckHistory
  <2>2. \A i \in 2 .. n : r[i] - r[i - 1] \in 2 - Probe!Half .. Probe!Half + 1
    OBVIOUS
  <2> HIDE DEF n
  <2> DEFINE Clean(i) == h[i].missed = 0 /\ h[i].dups = 0 /\ h[i].order = 0
             P == {i \in Nat : i <= n - 1 => h[i].last = r[i + 1] % Wrap /\ (Clean(i) <=> Follows(i + 1))}
  <2>3. 0 \in P
    <3>1. h[0].last = r[1] % Wrap /\ h[0].dups = 0 /\ h[0].order = 0 /\ h[0].missed = 0
      BY <2>1
    <3>2. 0 + 1 = 1 /\ Follows(1)
      OBVIOUS
    <3>. QED  BY <3>1, <3>2
  <2>4. ASSUME NEW i \in P PROVE i + 1 \in P
    <3> SUFFICES ASSUME i + 1 <= n - 1
                 PROVE  /\ h[i + 1].last = r[(i + 1) + 1] % Wrap
                        /\ Clean(i + 1) <=> Follows((i + 1) + 1)
      OBVIOUS
    <3>1. /\ i \in Nat /\ i <= n - 1 /\ i + 1 \in 1 .. n - 1 /\ (i + 1) - 1 = i /\ h[i] \in SeqTally
          /\ h[i].last = r[i + 1] % Wrap /\ (Clean(i) <=> Follows(i + 1))
      BY <2>0
    <3>2. PICK a \in Nat, b \in Nat : a = r[i + 1] /\ b = r[(i + 1) + 1]
      <4>1. i + 1 \in 1 .. n /\ (i + 1) + 1 \in 1 .. n
        BY <2>0, <3>1
      <4>. QED  BY <2>0, <4>1
    <3>3. PICK k \in 2 .. n : k = (i + 1) + 1 /\ k - 1 = i + 1
      BY <2>0, <3>1
    <3>4. b - a \in 2 - Probe!Half .. Probe!Half + 1
      BY <2>2, <3>2, <3>3, Zenon
    <3>5. h[i + 1] = Probe!SeqStep(h[i], b)
      BY <2>1, <3>1, <3>2, Zenon
    <3>6. h[i] \in SeqTally /\ h[i].last = a % Wrap
      BY <3>1, <3>2, Zenon
    <3>7. /\ h[i + 1].last = b % Wrap
          /\ b = a => /\ h[i + 1].dups = h[i].dups + 1
                      /\ h[i + 1].missed = h[i].missed /\ h[i + 1].order = h[i].order
          /\ b > a => /\ h[i + 1].missed = h[i].missed + (b - a - 1)
                      /\ h[i + 1].dups = h[i].dups /\ h[i + 1].order = h[i].order
          /\ b < a => /\ h[i + 1].order = h[i].order + 1
                      /\ h[i + 1].missed = h[i].missed /\ h[i + 1].dups = h[i].dups
      <4>1. Apart(h[i], a, b)
        BY <3>4, <3>6, Zenon DEF Apart
      <4> DEFINE u == h[i]
      <4>2. Apart(u, a, b)
        BY <4>1, Zenon
      <4> HIDE DEF u
      <4>3. /\ Probe!SeqStep(u, b).last = b % Wrap
            /\ b = a => /\ Probe!SeqStep(u, b).dups = u.dups + 1
                        /\ Probe!SeqStep(u, b).missed = u.missed /\ Probe!SeqStep(u, b).order = u.order
            /\ b > a => /\ Probe!SeqStep(u, b).missed = u.missed + (b - a - 1)
                        /\ Probe!SeqStep(u, b).dups = u.dups /\ Probe!SeqStep(u, b).order = u.order
            /\ b < a => /\ Probe!SeqStep(u, b).order = u.order + 1
                        /\ Probe!SeqStep(u, b).missed = u.missed /\ Probe!SeqStep(u, b).dups = u.dups
        BY <4>2, SeqStepFound
      <4>. QED  BY <3>5, <4>3, Zenon DEF u
    <3>8. PICK x \in Nat, y \in Nat, z \in Nat : x = h[i].missed /\ y = h[i].dups /\ z = h[i].order
      BY <3>6 DEF SeqTally
    <3>9. Clean(i + 1) <=> Clean(i) /\ b = a + 1
      <4>1. CASE b = a
        <5>1. h[i + 1].dups = y + 1 /\ b # a + 1 /\ y + 1 # 0
          BY <3>7, <3>8, <4>1
        <5>. QED  BY <5>1
      <4>2. CASE b < a
        <5>1. h[i + 1].order = z + 1 /\ b # a + 1 /\ z + 1 # 0
          BY <3>7, <3>8, <4>2
        <5>. QED  BY <5>1
      <4>3. CASE b > a
        <5>1. h[i + 1].missed = x + (b - a - 1) /\ h[i + 1].dups = y /\ h[i + 1].order = z
          BY <3>7, <3>8, <4>3
        <5>2. x + (b - a - 1) = 0 <=> x = 0 /\ b = a + 1
          BY <4>3
        <5>. QED  BY <3>8, <5>1, <5>2
      <4>. QED  BY <4>1, <4>2, <4>3
    <3>10. Follows(k) <=> Follows(i + 1) /\ b = a + 1
      <4>1. 2 .. k = (2 .. i + 1) \cup {k}
        BY <3>1, <3>3
      <4>2. r[k] = b /\ r[k - 1] = a
        BY <3>2, <3>3, Zenon
      <4>. QED  BY <4>1, <4>2
    <3> HIDE DEF Clean, Follows
    <3>. QED  BY <3>1, <3>2, <3>3, <3>7, <3>9, <3>10, Zenon
  <2>5. P = Nat
    <3> HIDE DEF P
    <3>1. P \subseteq Nat
      BY DEF P
    <3>. QED  BY <2>3, <2>4, <3>1, NatSetInduction
  <2>6. n - 1 \in Nat /\ (n - 1) + 1 = n
    BY <2>0
  <2>7. Clean(n - 1) <=> Follows(n)
    <3> HIDE DEF Clean, Follows
    <3>. QED  BY <2>5, <2>6
  <2>8. Probe!SeqPasses(r) <=> Clean(n - 1)
    BY <1>1, <2>1, Zenon DEF Probe!SeqPasses
  <2>. QED  BY <2>7, <2>8, Zenon DEF n
<1>. QED  BY <1>0, <1>1

\* Of the first i samples read, those that repeat the one before, those that are below it, and the samples the
\* steps between them pass over.
SameTo(r, i) == {j \in 2 .. i : r[j] = r[j - 1]}
BackTo(r, i) == {j \in 2 .. i : r[j] < r[j - 1]}
PassedTo(r, i) == {p \in (2 .. i) \X (0 .. Samples - 1) : r[p[1] - 1] < p[2] /\ p[2] < r[p[1]]}

\* what a step from a to b passes over, at place i
Jump(i, a, b) == {i} \X (a + 1 .. b - 1)

LEMMA JumpSize ==
  ASSUME NEW i, NEW a \in Nat, NEW b \in Nat
  PROVE  /\ IsFiniteSet(Jump(i, a, b))
         /\ Cardinality(Jump(i, a, b)) = IF a < b THEN b - a - 1 ELSE 0
<1>1. /\ IsFiniteSet(a + 1 .. b - 1)
      /\ Cardinality(a + 1 .. b - 1) = IF a + 1 > b - 1 THEN 0 ELSE (b - 1) - (a + 1) + 1
  <2>1. a + 1 \in Int /\ b - 1 \in Int
    OBVIOUS
  <2>. QED  BY <2>1, FS_Interval
<1>2. IsFiniteSet({i}) /\ Cardinality({i}) = 1
  BY FS_Singleton, Zenon
<1>3. /\ IsFiniteSet(Jump(i, a, b))
      /\ Cardinality(Jump(i, a, b)) = Cardinality({i}) * Cardinality(a + 1 .. b - 1)
  BY <1>1, <1>2, FS_Product, Zenon DEF Jump
<1>4. Cardinality(a + 1 .. b - 1) = IF a < b THEN b - a - 1 ELSE 0
  BY <1>1
<1>5. (IF a < b THEN b - a - 1 ELSE 0) \in Nat
  OBVIOUS
<1>6. \A n \in Nat : 1 * n = n
  OBVIOUS
<1>. QED  BY <1>2, <1>3, <1>4, <1>5, <1>6, Zenon

Adjacent(r, i, a, b) ==
  /\ i \in Nat /\ i > 0 /\ a \in 0 .. Samples - 1 /\ b \in 0 .. Samples - 1
  /\ a = r[i] /\ b = r[i + 1]

LEMMA StepGrows ==
  ASSUME NEW r, NEW i, NEW a, NEW b, Adjacent(r, i, a, b)
  PROVE  /\ SameTo(r, i + 1) = IF b = a THEN SameTo(r, i) \cup {i + 1} ELSE SameTo(r, i)
         /\ BackTo(r, i + 1) = IF b < a THEN BackTo(r, i) \cup {i + 1} ELSE BackTo(r, i)
         /\ i + 1 \notin SameTo(r, i) /\ i + 1 \notin BackTo(r, i)
         /\ PassedTo(r, i + 1) = PassedTo(r, i) \cup Jump(i + 1, a, b)
         /\ PassedTo(r, i) \cap Jump(i + 1, a, b) = {}
<1>0. /\ i \in Nat /\ i > 0 /\ a \in 0 .. Samples - 1 /\ b \in 0 .. Samples - 1
      /\ a = r[i] /\ b = r[i + 1]
  BY Zenon DEF Adjacent
<1>1. 2 .. i + 1 = (2 .. i) \cup {i + 1} /\ (i + 1) - 1 = i /\ i + 1 \notin 2 .. i
  BY <1>0
<1>2. SameTo(r, i + 1) = (IF b = a THEN SameTo(r, i) \cup {i + 1} ELSE SameTo(r, i)) /\ i + 1 \notin SameTo(r, i)
  BY <1>0, <1>1 DEF SameTo
<1>3. BackTo(r, i + 1) = (IF b < a THEN BackTo(r, i) \cup {i + 1} ELSE BackTo(r, i)) /\ i + 1 \notin BackTo(r, i)
  BY <1>0, <1>1 DEF BackTo
<1>4. PassedTo(r, i) \cap Jump(i + 1, a, b) = {}
  BY <1>1 DEF PassedTo, Jump
<1>5. \A x : x \in 0 .. Samples - 1 /\ a < x /\ x < b <=> x \in a + 1 .. b - 1
  BY <1>0, PairsAssumption
<1>6. PassedTo(r, i + 1) \subseteq PassedTo(r, i) \cup Jump(i + 1, a, b)
  <2> SUFFICES ASSUME NEW j \in 2 .. i + 1, NEW x \in 0 .. Samples - 1, r[j - 1] < x, x < r[j]
               PROVE  <<j, x>> \in PassedTo(r, i) \cup Jump(i + 1, a, b)
    BY DEF PassedTo
  <2>1. CASE j = i + 1
    <3>1. r[j - 1] = a /\ r[j] = b
      BY <1>0, <1>1, <2>1
    <3>2. x \in a + 1 .. b - 1
      BY <1>5, <3>1, Zenon
    <3>. QED  BY <2>1, <3>2 DEF Jump
  <2>2. CASE j \in 2 .. i
    BY <2>2 DEF PassedTo
  <2>. QED  BY <1>1, <2>1, <2>2
<1>7. PassedTo(r, i) \subseteq PassedTo(r, i + 1)
  BY <1>1 DEF PassedTo
<1>8. Jump(i + 1, a, b) \subseteq PassedTo(r, i + 1)
  <2> SUFFICES ASSUME NEW x \in a + 1 .. b - 1 PROVE <<i + 1, x>> \in PassedTo(r, i + 1)
    BY DEF Jump
  <2>1. x \in 0 .. Samples - 1 /\ a < x /\ x < b
    BY <1>5, Zenon
  <2>2. i + 1 \in 2 .. i + 1 /\ r[(i + 1) - 1] < x /\ x < r[i + 1]
    BY <1>0, <1>1, <2>1
  <2>. QED  BY <2>1, <2>2 DEF PassedTo
<1>. QED  BY <1>2, <1>3, <1>4, <1>6, <1>7, <1>8, Zenon

\* What the second check counts, unless a step is further than half the numbers.
LEMMA SeqCounted ==
  ASSUME NEW r \in Seq(0 .. Samples - 1), r # <<>>,
         \A i \in 2 .. Len(r) : r[i] - r[i - 1] \in 2 - Probe!Half .. Probe!Half + 1
  PROVE  /\ Probe!SeqCheck(r).dups = Cardinality(SameTo(r, Len(r)))
         /\ Probe!SeqCheck(r).order = Cardinality(BackTo(r, Len(r)))
         /\ Probe!SeqCheck(r).missed = Cardinality(PassedTo(r, Len(r)))
<1> DEFINE n == Len(r)
<1>0. n \in Nat /\ n > 0 /\ r \in Seq(Nat) /\ \A i \in 1 .. n : r[i] \in 0 .. Samples - 1
  BY PairsAssumption
<1>1. PICK h \in [0 .. n - 1 -> SeqTally] :
        /\ h[0] = [last |-> r[1] % Wrap, missed |-> 0, dups |-> 0, order |-> 0]
        /\ h[n - 1] = Probe!SeqCheck(r)
        /\ \A i \in 1 .. n - 1 : h[i] = Probe!SeqStep(h[i - 1], r[i + 1])
  BY <1>0, SeqCheckHistory
<1>2. \A i \in 2 .. n : r[i] - r[i - 1] \in 2 - Probe!Half .. Probe!Half + 1
  OBVIOUS
<1> HIDE DEF n
<1> DEFINE Counted(i) == /\ h[i].dups = Cardinality(SameTo(r, i + 1)) /\ IsFiniteSet(SameTo(r, i + 1))
                         /\ h[i].order = Cardinality(BackTo(r, i + 1)) /\ IsFiniteSet(BackTo(r, i + 1))
                         /\ h[i].missed = Cardinality(PassedTo(r, i + 1)) /\ IsFiniteSet(PassedTo(r, i + 1))
           P == {i \in Nat : i <= n - 1 => h[i].last = r[i + 1] % Wrap /\ Counted(i)}
<1>3. 0 \in P
  <2>1. h[0].last = r[1] % Wrap /\ h[0].dups = 0 /\ h[0].order = 0 /\ h[0].missed = 0
    BY <1>1
  <2>2. 2 .. 0 + 1 = {} /\ 0 + 1 = 1
    OBVIOUS
  <2>3. SameTo(r, 0 + 1) = {} /\ BackTo(r, 0 + 1) = {} /\ PassedTo(r, 0 + 1) = {}
    BY <2>2 DEF SameTo, BackTo, PassedTo
  <2>4. IsFiniteSet({}) /\ Cardinality({}) = 0
    BY FS_EmptySet
  <2>. QED  BY <2>1, <2>2, <2>3, <2>4, Zenon
<1>4. ASSUME NEW i \in P PROVE i + 1 \in P
  <2> SUFFICES ASSUME i + 1 <= n - 1
               PROVE  h[i + 1].last = r[(i + 1) + 1] % Wrap /\ Counted(i + 1)
    OBVIOUS
  <2>1. /\ i \in Nat /\ i <= n - 1 /\ i + 1 \in 1 .. n - 1 /\ (i + 1) - 1 = i /\ h[i] \in SeqTally
        /\ h[i].last = r[i + 1] % Wrap /\ Counted(i)
    BY <1>0
  <2>2. PICK k \in 2 .. n : k = (i + 1) + 1 /\ k - 1 = i + 1
    BY <1>0, <2>1
  <2>3. PICK a \in 0 .. Samples - 1, b \in 0 .. Samples - 1 : a = r[i + 1] /\ b = r[k]
    <3>1. i + 1 \in 1 .. n /\ k \in 1 .. n
      BY <1>0, <2>1, <2>2
    <3>. QED  BY <1>0, <3>1
  <2>4. b - a \in 2 - Probe!Half .. Probe!Half + 1 /\ a \in Nat /\ b \in Nat
    <3>1. a \in Nat /\ b \in Nat
      BY PairsAssumption
    <3>. QED  BY <1>2, <2>2, <2>3, <3>1, Zenon
  <2> DEFINE u == h[i]
             v == h[i + 1]
  <2>5. u \in SeqTally /\ v = Probe!SeqStep(u, b) /\ Apart(u, a, b)
    <3>1. v = Probe!SeqStep(u, b)
      BY <1>1, <2>1, <2>2, <2>3, Zenon
    <3>. QED  BY <2>1, <2>3, <2>4, <3>1, Zenon DEF Apart
  <2>6. /\ u.dups = Cardinality(SameTo(r, i + 1)) /\ IsFiniteSet(SameTo(r, i + 1))
        /\ u.order = Cardinality(BackTo(r, i + 1)) /\ IsFiniteSet(BackTo(r, i + 1))
        /\ u.missed = Cardinality(PassedTo(r, i + 1)) /\ IsFiniteSet(PassedTo(r, i + 1))
    BY <2>1, Zenon
  <2> HIDE DEF u, v
  <2>7. /\ v.last = b % Wrap
        /\ b = a => v.dups = u.dups + 1 /\ v.missed = u.missed /\ v.order = u.order
        /\ b > a => v.missed = u.missed + (b - a - 1) /\ v.dups = u.dups /\ v.order = u.order
        /\ b < a => v.order = u.order + 1 /\ v.missed = u.missed /\ v.dups = u.dups
    BY <2>5, SeqStepFound
  <2>8. /\ SameTo(r, k) = IF b = a THEN SameTo(r, i + 1) \cup {k} ELSE SameTo(r, i + 1)
        /\ BackTo(r, k) = IF b < a THEN BackTo(r, i + 1) \cup {k} ELSE BackTo(r, i + 1)
        /\ k \notin SameTo(r, i + 1) /\ k \notin BackTo(r, i + 1)
        /\ PassedTo(r, k) = PassedTo(r, i + 1) \cup Jump(k, a, b)
        /\ PassedTo(r, i + 1) \cap Jump(k, a, b) = {}
    <3>1. PICK j \in Nat : j = i + 1 /\ j > 0 /\ k = j + 1
      BY <2>1, <2>2
    <3>2. a = r[j] /\ b = r[j + 1]
      BY <2>3, <3>1, Zenon
    <3>3. /\ SameTo(r, j + 1) = IF b = a THEN SameTo(r, j) \cup {j + 1} ELSE SameTo(r, j)
          /\ BackTo(r, j + 1) = IF b < a THEN BackTo(r, j) \cup {j + 1} ELSE BackTo(r, j)
          /\ j + 1 \notin SameTo(r, j) /\ j + 1 \notin BackTo(r, j)
          /\ PassedTo(r, j + 1) = PassedTo(r, j) \cup Jump(j + 1, a, b)
          /\ PassedTo(r, j) \cap Jump(j + 1, a, b) = {}
      <4>1. Adjacent(r, j, a, b)
        BY <3>1, <3>2, Zenon DEF Adjacent
      <4>. QED  BY <4>1, StepGrows, Zenon
    <3>. QED  BY <3>1, <3>3, Zenon
  <2>9. u.dups \in Nat /\ u.order \in Nat /\ u.missed \in Nat
    BY <2>5 DEF SeqTally
  <2>10. v.dups = Cardinality(SameTo(r, k)) /\ IsFiniteSet(SameTo(r, k))
    <3>1. IsFiniteSet(SameTo(r, i + 1) \cup {k})
          /\ Cardinality(SameTo(r, i + 1) \cup {k}) = Cardinality(SameTo(r, i + 1)) + (IF k \in SameTo(r, i + 1) THEN 0 ELSE 1)
      BY <2>6, CardinalityGrows, Zenon
    <3>2. CASE b = a
      BY <2>6, <2>7, <2>8, <3>1, <3>2, Zenon
    <3>3. CASE b # a
      <4>1. v.dups = u.dups
        BY <2>4, <2>7, <3>3
      <4>. QED  BY <2>6, <2>8, <3>3, <4>1, Zenon
    <3>. QED  BY <3>2, <3>3
  <2>11. v.order = Cardinality(BackTo(r, k)) /\ IsFiniteSet(BackTo(r, k))
    <3>1. IsFiniteSet(BackTo(r, i + 1) \cup {k})
          /\ Cardinality(BackTo(r, i + 1) \cup {k}) = Cardinality(BackTo(r, i + 1)) + (IF k \in BackTo(r, i + 1) THEN 0 ELSE 1)
      BY <2>6, CardinalityGrows, Zenon
    <3>2. CASE b < a
      BY <2>6, <2>7, <2>8, <3>1, <3>2, Zenon
    <3>3. CASE ~ (b < a)
      <4>1. v.order = u.order
        BY <2>4, <2>7, <3>3
      <4>. QED  BY <2>6, <2>8, <3>3, <4>1, Zenon
    <3>. QED  BY <3>2, <3>3
  <2>12. v.missed = Cardinality(PassedTo(r, k)) /\ IsFiniteSet(PassedTo(r, k))
    <3>1. IsFiniteSet(Jump(k, a, b)) /\ Cardinality(Jump(k, a, b)) = IF a < b THEN b - a - 1 ELSE 0
      BY <2>4, JumpSize
    <3>2. /\ IsFiniteSet(PassedTo(r, k))
          /\ Cardinality(PassedTo(r, k)) = Cardinality(PassedTo(r, i + 1)) + Cardinality(Jump(k, a, b)) - Cardinality({})
      <4> DEFINE s == PassedTo(r, i + 1)
                 t == Jump(k, a, b)
      <4>1. IsFiniteSet(s) /\ IsFiniteSet(t) /\ PassedTo(r, k) = s \cup t /\ s \cap t = {}
        BY <2>6, <2>8, <3>1, Zenon
      <4> HIDE DEF s, t
      <4>2. IsFiniteSet(s \cup t) /\ Cardinality(s \cup t) = Cardinality(s) + Cardinality(t) - Cardinality(s \cap t)
        BY <4>1, FS_Union, Zenon
      <4>. QED  BY <4>1, <4>2, Zenon DEF s, t
    <3>3. Cardinality({}) = 0
      BY FS_EmptySet
    <3>4. Cardinality(PassedTo(r, k)) = u.missed + (IF a < b THEN b - a - 1 ELSE 0)
      <4>1. PICK m \in Nat : m = Cardinality(Jump(k, a, b))
        BY <3>1, FS_CardinalityType, Zenon
      <4>2. Cardinality(PassedTo(r, k)) = u.missed + m - 0
        BY <2>6, <3>2, <3>3, <4>1, Zenon
      <4>3. u.missed + m - 0 = u.missed + m
        BY <2>9
      <4>. QED  BY <3>1, <4>1, <4>2, <4>3, Zenon
    <3>5. v.missed = u.missed + (IF a < b THEN b - a - 1 ELSE 0)
      BY <2>4, <2>7, <2>9
    <3>. QED  BY <3>2, <3>4, <3>5, Zenon
  <2>. QED  BY <2>2, <2>3, <2>7, <2>10, <2>11, <2>12, Zenon DEF v
<1>5. P = Nat
  <2> HIDE DEF P
  <2>1. P \subseteq Nat
    BY DEF P
  <2>. QED  BY <1>3, <1>4, <2>1, NatSetInduction
<1>6. n - 1 \in Nat /\ (n - 1) + 1 = n
  BY <1>0
<1>7. Counted(n - 1)
  <2> HIDE DEF Counted
  <2>. QED  BY <1>5, <1>6
<1>. QED  BY <1>1, <1>6, <1>7, Zenon DEF n

\* What is on its way or stored or read are samples of the run.
SamplesOnly ==
  /\ next \in 0 .. Samples
  /\ queue \in Seq(0 .. Samples - 1) /\ topic \in Seq(0 .. Samples - 1) /\ read \in Seq(0 .. Samples - 1)

LEMMA SamplesKept == SamplesOnly /\ [Probe!Next]_(Probe!vars) => SamplesOnly'
<1> SUFFICES ASSUME SamplesOnly, [Probe!Next]_(Probe!vars) PROVE SamplesOnly'
  OBVIOUS
<1>0. /\ next \in 0 .. Samples /\ Samples \in Nat
      /\ queue \in Seq(0 .. Samples - 1) /\ topic \in Seq(0 .. Samples - 1) /\ read \in Seq(0 .. Samples - 1)
  BY PairsAssumption DEF SamplesOnly
<1>1. CASE Probe!Announce
  BY <1>0, <1>1 DEF SamplesOnly, Probe!Announce
<1>2. CASE Probe!Sample
  <2>1. next \in 0 .. Samples - 1 /\ next + 1 \in 0 .. Samples
    BY <1>0, <1>2 DEF Probe!Sample
  <2>. QED  BY <1>0, <1>2, <2>1 DEF SamplesOnly, Probe!Sample
<1>3. CASE Probe!Refused
  <2>1. next + 1 \in 0 .. Samples
    BY <1>0, <1>3 DEF Probe!Refused
  <2>. QED  BY <1>0, <1>3, <2>1 DEF SamplesOnly, Probe!Refused
<1>4. CASE Probe!Finish
  BY <1>0, <1>4 DEF SamplesOnly, Probe!Finish
<1>5. CASE Probe!Deliver
  BY <1>0, <1>5 DEF SamplesOnly, Probe!Deliver
<1>6. CASE Probe!Lose
  BY <1>0, <1>6 DEF SamplesOnly, Probe!Lose
<1>7. CASE Probe!Repeat
  <2>1. Probe!Last(topic) \in 0 .. Samples - 1
    BY <1>0, <1>7 DEF Probe!Repeat, Probe!Last
  <2>. QED  BY <1>0, <1>7, <2>1 DEF SamplesOnly, Probe!Repeat
<1>8. CASE Probe!Overtake
  <2>1. <<queue[2], queue[1]>> \in Seq(0 .. Samples - 1)
    BY <1>0, <1>8 DEF Probe!Overtake
  <2>2. SubSeq(queue, 3, Len(queue)) \in Seq(0 .. Samples - 1)
    BY <1>0, <1>8 DEF Probe!Overtake
  <2>3. queue' \in Seq(0 .. Samples - 1)
    BY <1>8, <2>1, <2>2, ConcatProperties DEF Probe!Overtake
  <2>. QED  BY <1>0, <1>8, <2>3 DEF SamplesOnly, Probe!Overtake
<1>9. CASE Probe!Check
  <2>1. PICK n \in 0 .. Len(topic) : read' = SubSeq(topic, 1, n)
    BY <1>9 DEF Probe!Check
  <2>2. SubSeq(topic, 1, n) \in Seq(0 .. Samples - 1)
    BY <1>0
  <2>. QED  BY <1>0, <1>9, <2>1, <2>2 DEF SamplesOnly, Probe!Check
<1>10. CASE UNCHANGED Probe!vars
  BY <1>0, <1>10 DEF SamplesOnly, Probe!vars
<1>. QED  BY <1>1, <1>2, <1>3, <1>4, <1>5, <1>6, <1>7, <1>8, <1>9, <1>10 DEF Probe!Next

\* What kv8verify reports of whatever was read, with samples lost, repeated or overtaken: its manifest mode
\* passes exactly on a complete run in order; it has no timer error exactly while every sample is read near its
\* place, and as long as it has none its counts of the missing, the repeated and the places where the index does
\* not go on by one are exact, which they are too when fewer than half the numbers were lost and nothing else
\* went wrong. Its seqgap mode passes exactly when each sample follows the one before, and its three counts are
\* exact, as long as no step is further than half the numbers (MCThreadPairs!ChecksExact).
THEOREM VerifierIsExact == Probe!Spec => []ChecksExact
<1>1. Probe!Init => SamplesOnly
  <2>1. Samples \in Nat /\ <<>> \in Seq(0 .. Samples - 1)
    BY PairsAssumption
  <2>. QED  BY <2>1 DEF Probe!Init, SamplesOnly
<1>2. SamplesOnly => ChecksExact
  <2> SUFFICES ASSUME SamplesOnly
               PROVE  /\ Probe!ManifestExact /\ Probe!ManifestCounts /\ Probe!LossExact
                      /\ Probe!SeqExact /\ Probe!SeqCounts
    BY Zenon DEF ChecksExact, Probe!ChecksExact
  <2>1. read \in Seq(0 .. Samples - 1) /\ read \in Seq(Nat)
    BY PairsAssumption DEF SamplesOnly
  <2>2. Probe!ManifestExact
    BY <2>1, ManifestPassed, Zenon DEF Probe!ManifestExact
  <2>3. /\ Probe!ManifestCheck(read).timer = 0 <=> \A i \in DOMAIN read : read[i] \in Probe!Recoverable(i - 1)
        /\ Probe!ManifestCheck(read).timer = 0 =>
             /\ Probe!Missing(Probe!ManifestCheck(read)) = Samples - Probe!Cardinality(Probe!ToSet(read))
             /\ Probe!ManifestCheck(read).dups = Len(read) - Probe!Cardinality(Probe!ToSet(read))
             /\ Probe!ManifestCheck(read).order = Probe!Cardinality(Probe!Breaks(read))
    <3>1. DOMAIN read = 1 .. Len(read)
      BY <2>1
    <3>2. Probe!ToSet(read) = ReadTo(read, Len(read))
      BY <3>1, Zenon DEF Probe!ToSet, ReadTo
    <3>3. Probe!Breaks(read) = BreaksTo(read, Len(read))
      BY <3>1, Zenon DEF Probe!Breaks, BreaksTo, Expected
    <3>4. NearTo(read, Len(read)) <=> \A i \in DOMAIN read : read[i] \in Probe!Recoverable(i - 1)
      BY <3>1, Zenon DEF NearTo
    <3>. QED  BY <2>1, <3>2, <3>3, <3>4, ManifestCounted, SameCardinality, Zenon
  <2>4. Probe!ManifestCounts
    BY <2>3, Zenon DEF Probe!ManifestCounts
  <2>5. Probe!LossExact
    <3>1. ASSUME read # <<>>, Probe!InOrder(read)
          PROVE  /\ (Probe!Last(read) + 1) - Len(read) < Probe!Half =>
                      /\ Probe!ManifestCheck(read).dups = 0 /\ Probe!ManifestCheck(read).timer = 0
                      /\ Probe!Missing(Probe!ManifestCheck(read)) = Samples - Len(read)
                      /\ Probe!ManifestCheck(read).order = Probe!Cardinality(Probe!Breaks(read))
                 /\ (\A i \in 2 .. Len(read) : read[i] - read[i - 1] - 1 <= Probe!Half) =>
                      /\ Probe!SeqCheck(read).dups = 0 /\ Probe!SeqCheck(read).order = 0
                      /\ Probe!SeqCheck(read).missed = (Probe!Last(read) + 1) - read[1] - Len(read)
      <4>1. ASSUME (Probe!Last(read) + 1) - Len(read) < Probe!Half
            PROVE  /\ Probe!ManifestCheck(read).dups = 0 /\ Probe!ManifestCheck(read).timer = 0
                   /\ Probe!Missing(Probe!ManifestCheck(read)) = Samples - Len(read)
                   /\ Probe!ManifestCheck(read).order = Probe!Cardinality(Probe!Breaks(read))
        <5> DEFINE r == read
        <5>1. r \in Seq(0 .. Samples - 1)
          BY <2>1, Zenon
        <5>2. r # <<>> /\ Probe!InOrder(r) /\ (Probe!Last(r) + 1) - Len(r) < Probe!Half
          BY <3>1, <4>1, Zenon
        <5> HIDE DEF r
        <5>3. /\ Probe!ManifestCheck(r).dups = 0 /\ Probe!ManifestCheck(r).timer = 0
              /\ Probe!Missing(Probe!ManifestCheck(r)) = Samples - Len(r)
          BY <5>1, <5>2, LossCounted
        <5>. QED  BY <2>3, <5>3, Zenon DEF r
      <4>2. ASSUME \A i \in 2 .. Len(read) : read[i] - read[i - 1] - 1 <= Probe!Half
            PROVE  /\ Probe!SeqCheck(read).dups = 0 /\ Probe!SeqCheck(read).order = 0
                   /\ Probe!SeqCheck(read).missed = (Probe!Last(read) + 1) - read[1] - Len(read)
        BY <2>1, <3>1, <4>2, SeqLossCounted, Zenon
      <4>. QED  BY <4>1, <4>2, Zenon
    <3>. QED  BY <3>1 DEF Probe!LossExact
  <2>6. Probe!SeqExact
    BY <2>1, SeqPassed, Zenon DEF Probe!SeqExact, Probe!Steady
  <2>7. Probe!SeqCounts
    <3>1. ASSUME read # <<>>, Probe!Steady(read)
          PROVE  /\ Probe!SeqCheck(read).dups = Probe!Cardinality({i \in 2 .. Len(read) : read[i] = read[i - 1]})
                 /\ Probe!SeqCheck(read).order = Probe!Cardinality({i \in 2 .. Len(read) : read[i] < read[i - 1]})
                 /\ Probe!SeqCheck(read).missed = Probe!Cardinality(Probe!PassedOver(read))
      <4>1. /\ Probe!SeqCheck(read).dups = Cardinality(SameTo(read, Len(read)))
            /\ Probe!SeqCheck(read).order = Cardinality(BackTo(read, Len(read)))
            /\ Probe!SeqCheck(read).missed = Cardinality(PassedTo(read, Len(read)))
        BY <2>1, <3>1, SeqCounted, Zenon DEF Probe!Steady
      <4>2. Probe!PassedOver(read) = PassedTo(read, Len(read))
        BY Zenon DEF Probe!PassedOver, PassedTo
      <4>. QED  BY <4>1, <4>2, SameCardinality, Zenon DEF SameTo, BackTo
    <3>. QED  BY <3>1, Zenon DEF Probe!SeqCounts
  <2>. QED  BY <2>2, <2>4, <2>5, <2>6, <2>7, Zenon
<1>. QED  BY <1>1, <1>2, SamplesKept, PTL DEF Probe!Spec

-----------------------------------------------------------------------------
(* kv8bench: what its checks compute of any sequence of numbers.           *)

Bitmap == [seen : SUBSET Int, dups : Nat, oor : Nat]
NoneSeen == [seen |-> {}, dups |-> 0, oor |-> 0]
InBitmap == 0 .. Bench!SeqCapacity - 1

LEMMA Room == Bench!SeqCapacity \in Nat /\ Bench!Sentinel = -1 /\ Bench!Sentinel \in Int
  BY PairsAssumption DEF Bench!SeqCapacity, Bench!Sentinel

LEMMA BitmapStep ==
  ASSUME NEW c \in Bitmap, NEW n \in Int
  PROVE  /\ Bench!Track(c, n) \in Bitmap
         /\ n \in InBitmap /\ n \notin c.seen =>
              Bench!Track(c, n).seen = c.seen \cup {n} /\ Bench!Track(c, n).dups = c.dups /\ Bench!Track(c, n).oor = c.oor
         /\ n \in InBitmap /\ n \in c.seen =>
              Bench!Track(c, n).seen = c.seen /\ Bench!Track(c, n).dups = c.dups + 1 /\ Bench!Track(c, n).oor = c.oor
         /\ n \notin InBitmap =>
              Bench!Track(c, n).seen = c.seen /\ Bench!Track(c, n).dups = c.dups /\ Bench!Track(c, n).oor = c.oor + 1
<1>1. /\ n \notin InBitmap => Bench!Track(c, n) = [c EXCEPT !.oor = @ + 1]
      /\ n \in InBitmap /\ n \in c.seen => Bench!Track(c, n) = [c EXCEPT !.dups = @ + 1]
      /\ n \in InBitmap /\ n \notin c.seen => Bench!Track(c, n) = [c EXCEPT !.seen = @ \cup {n}]
  BY DEF Bench!Track, InBitmap
<1>2. c.seen \cup {n} \in SUBSET Int
  BY DEF Bitmap
<1> HIDE DEF InBitmap
<1>3. CASE n \notin InBitmap
  BY <1>1, <1>3 DEF Bitmap
<1>4. CASE n \in InBitmap /\ n \in c.seen
  BY <1>1, <1>4 DEF Bitmap
<1>5. CASE n \in InBitmap /\ n \notin c.seen
  BY <1>1, <1>2, <1>5 DEF Bitmap
<1>. QED  BY <1>3, <1>4, <1>5

LEMMA VerifyStepType ==
  ASSUME NEW c \in Bitmap, NEW n \in Int
  PROVE  Bench!VerifyStep(c, n) \in Bitmap
  BY BitmapStep DEF Bench!VerifyStep

Continuity == [recv : Nat, last : Int, order : Nat]

LEMMA VerifyUdtStepType ==
  ASSUME NEW c \in Continuity, NEW n \in Int
  PROVE  Bench!VerifyUdtStep(c, n) \in Continuity
<1>1. c.recv + 1 \in Nat /\ c.order + (IF n <= c.last THEN 1 ELSE 0) \in Nat
  BY DEF Continuity
<1>2. [recv |-> c.recv + 1, last |-> n, order |-> c.order + (IF n <= c.last THEN 1 ELSE 0)] \in Continuity
  BY <1>1 DEF Continuity
<1>. QED  BY <1>2, Zenon DEF Bench!VerifyUdtStep

LEMMA TrackHistory ==
  ASSUME NEW start \in Bitmap, NEW q \in Seq(Int)
  PROVE  \E h \in [0 .. Len(q) -> Bitmap] :
           /\ h[0] = start /\ h[Len(q)] = Bench!FoldLeft(Bench!Track, start, q)
           /\ \A i \in 1 .. Len(q) : h[i] = Bench!Track(h[i - 1], q[i])
<1> DEFINE n == Len(q)
           F == [p \in Bitmap \X (1 .. n) |-> Bench!Track(p[1], q[p[2]])]
           Eqn(g) == g = [s \in SUBSET (1 .. n) |->
                            IF s = {} THEN start ELSE Bench!Track(g[s \ {Bench!Max(s)}], q[Bench!Max(s)])]
           it == CHOOSE g : Eqn(g)
           V == Bitmap \cup {it[s] : s \in SUBSET (1 .. n)}
           G == [p \in V \X (1 .. n) |-> Bench!Track(p[1], q[p[2]])]
<1>1. n \in Nat /\ DOMAIN q = 1 .. n /\ \A i \in 1 .. n : q[i] \in Int
  BY LenProperties
<1>2. Bench!FoldLeft(Bench!Track, start, q) = it[1 .. n]
  BY <1>1 DEF Bench!FoldLeft, Bench!MapThenFoldSet
<1>3. \A s : Bench!Max(s) = Top(s)
  BY DEF Bench!Max, Top
<1>4. start \in Bitmap /\ \A c \in Bitmap, i \in 1 .. n : Bench!Track(c, q[i]) \in Bitmap
  <2> HIDE DEF n
  <2>. QED  BY <1>1, BitmapStep
<1> HIDE DEF n
<1>5. \A s \in SUBSET (1 .. n) : s # {} => Top(s) \in 1 .. n /\ s \ {Top(s)} \in SUBSET (1 .. n)
  BY <1>1, TopInterval
<1>6. F \in [Bitmap \X (1 .. n) -> Bitmap] /\ \A c \in Bitmap, i \in 1 .. n : F[<<c, i>>] = Bench!Track(c, q[i])
  <2>1. ASSUME NEW p \in Bitmap \X (1 .. n) PROVE Bench!Track(p[1], q[p[2]]) \in Bitmap
    <3>1. p[1] \in Bitmap /\ p[2] \in 1 .. n
      OBVIOUS
    <3>. QED  BY <1>4, <3>1
  <2>2. ASSUME NEW c \in Bitmap, NEW i \in 1 .. n PROVE F[<<c, i>>] = Bench!Track(c, q[i])
    <3>1. <<c, i>> \in Bitmap \X (1 .. n) /\ <<c, i>>[1] = c /\ <<c, i>>[2] = i
      OBVIOUS
    <3>. QED  BY <3>1, Zenon
  <2>. QED  BY <2>1, <2>2, Zenon
<1>7. \E g : Eqn(g)
  <2>1. PICK g : Iterates(g, Bitmap, F, start, n)
    <3> HIDE DEF F
    <3>. QED  BY <1>1, <1>4, <1>6, IterationExists
  <2>2. /\ g \in [SUBSET (1 .. n) -> Bitmap]
        /\ \A s \in SUBSET (1 .. n) : g[s] = IF s = {} THEN start ELSE F[<<g[s \ {Top(s)}], Top(s)>>]
    BY <2>1, Zenon DEF Iterates
  <2>3. ASSUME NEW s \in SUBSET (1 .. n)
        PROVE  g[s] = IF s = {} THEN start ELSE Bench!Track(g[s \ {Bench!Max(s)}], q[Bench!Max(s)])
    <3>1. CASE s = {}
      BY <2>2, <3>1, Zenon
    <3>2. CASE s # {}
      <4>1. Top(s) \in 1 .. n /\ g[s \ {Top(s)}] \in Bitmap
        <5> HIDE DEF F
        <5>. QED  BY <1>5, <2>2, <3>2
      <4>2. F[<<g[s \ {Top(s)}], Top(s)>>] = Bench!Track(g[s \ {Top(s)}], q[Top(s)])
        BY <1>6, <4>1, Zenon
      <4>. QED  BY <1>3, <2>2, <3>2, <4>2, Zenon
    <3>. QED  BY <3>1, <3>2, Zenon
  <2>4. g = [s \in SUBSET (1 .. n) |-> g[s]]
    BY <2>2, Zenon
  <2>5. Eqn(g)
    BY <2>3, <2>4, Zenon
  <2>. QED  BY <2>5, Zenon
<1>8. Eqn(it)
  BY <1>7, Zenon
<1> HIDE DEF it
<1>9. \A c \in V, i \in 1 .. n : G[<<c, i>>] = Bench!Track(c, q[i])
  <2>1. ASSUME NEW c \in V, NEW i \in 1 .. n PROVE G[<<c, i>>] = Bench!Track(c, q[i])
    <3> HIDE DEF V
    <3>1. <<c, i>> \in V \X (1 .. n) /\ <<c, i>>[1] = c /\ <<c, i>>[2] = i
      OBVIOUS
    <3>. QED  BY <3>1, Zenon
  <2>. QED  BY <2>1
<1>10. \A s \in SUBSET (1 .. n) : it[s] = IF s = {} THEN start ELSE G[<<it[s \ {Top(s)}], Top(s)>>]
  <2> SUFFICES ASSUME NEW s \in SUBSET (1 .. n)
               PROVE  it[s] = IF s = {} THEN start ELSE G[<<it[s \ {Top(s)}], Top(s)>>]
    OBVIOUS
  <2>1. it[s] = IF s = {} THEN start ELSE Bench!Track(it[s \ {Top(s)}], q[Top(s)])
    BY <1>3, <1>8, Zenon
  <2>2. CASE s # {}
    <3>1. Top(s) \in 1 .. n /\ it[s \ {Top(s)}] \in V
      BY <1>5, <2>2, Zenon
    <3> HIDE DEF V, G
    <3>. QED  BY <1>9, <2>1, <2>2, <3>1, Zenon
  <2>. QED  BY <2>1, <2>2, Zenon
<1>11. \A c \in Bitmap, i \in 1 .. n : G[<<c, i>>] = Bench!Track(c, q[i]) /\ G[<<c, i>>] \in Bitmap
  BY <1>4, <1>9, Zenon
<1> HIDE DEF V, G
<1>12. PICK h \in [0 .. n -> Bitmap] : History(h, G, start, n) /\ h[n] = it[1 .. n]
  <2>1. Keeps(G, Bitmap, n) /\ Unfolds(it, G, start, n)
    BY <1>10, <1>11, Zenon DEF Keeps, Unfolds
  <2>2. start \in Bitmap /\ n \in Nat
    BY <1>1, <1>4, Zenon
  <2>3. Iteration(Bitmap, start, n, G, it)
    BY <2>1, <2>2, Zenon DEF Iteration
  <2>. QED  BY <2>3, IterationHistory
<1>13. ASSUME NEW i \in 1 .. n PROVE h[i] = Bench!Track(h[i - 1], q[i])
  <2>1. i - 1 \in 0 .. n /\ h[i - 1] \in Bitmap
    BY <1>1
  <2>. QED  BY <1>11, <1>12, <2>1, Zenon DEF History
<1>. QED  BY <1>2, <1>12, <1>13, Zenon DEF n, History

LEMMA VerifyHistory ==
  ASSUME NEW start \in Bitmap, NEW q \in Seq(Int)
  PROVE  \E h \in [0 .. Len(q) -> Bitmap] :
           /\ h[0] = start /\ h[Len(q)] = Bench!FoldLeft(Bench!VerifyStep, start, q)
           /\ \A i \in 1 .. Len(q) : h[i] = Bench!VerifyStep(h[i - 1], q[i])
<1> DEFINE n == Len(q)
           F == [p \in Bitmap \X (1 .. n) |-> Bench!VerifyStep(p[1], q[p[2]])]
           Eqn(g) == g = [s \in SUBSET (1 .. n) |->
                            IF s = {} THEN start ELSE Bench!VerifyStep(g[s \ {Bench!Max(s)}], q[Bench!Max(s)])]
           it == CHOOSE g : Eqn(g)
           V == Bitmap \cup {it[s] : s \in SUBSET (1 .. n)}
           G == [p \in V \X (1 .. n) |-> Bench!VerifyStep(p[1], q[p[2]])]
<1>1. n \in Nat /\ DOMAIN q = 1 .. n /\ \A i \in 1 .. n : q[i] \in Int
  BY LenProperties
<1>2. Bench!FoldLeft(Bench!VerifyStep, start, q) = it[1 .. n]
  BY <1>1 DEF Bench!FoldLeft, Bench!MapThenFoldSet
<1>3. \A s : Bench!Max(s) = Top(s)
  BY DEF Bench!Max, Top
<1>4. start \in Bitmap /\ \A c \in Bitmap, i \in 1 .. n : Bench!VerifyStep(c, q[i]) \in Bitmap
  <2> HIDE DEF n
  <2>. QED  BY <1>1, VerifyStepType
<1> HIDE DEF n
<1>5. \A s \in SUBSET (1 .. n) : s # {} => Top(s) \in 1 .. n /\ s \ {Top(s)} \in SUBSET (1 .. n)
  BY <1>1, TopInterval
<1>6. F \in [Bitmap \X (1 .. n) -> Bitmap] /\ \A c \in Bitmap, i \in 1 .. n : F[<<c, i>>] = Bench!VerifyStep(c, q[i])
  <2>1. ASSUME NEW p \in Bitmap \X (1 .. n) PROVE Bench!VerifyStep(p[1], q[p[2]]) \in Bitmap
    <3>1. p[1] \in Bitmap /\ p[2] \in 1 .. n
      OBVIOUS
    <3>. QED  BY <1>4, <3>1
  <2>2. ASSUME NEW c \in Bitmap, NEW i \in 1 .. n PROVE F[<<c, i>>] = Bench!VerifyStep(c, q[i])
    <3>1. <<c, i>> \in Bitmap \X (1 .. n) /\ <<c, i>>[1] = c /\ <<c, i>>[2] = i
      OBVIOUS
    <3>. QED  BY <3>1, Zenon
  <2>. QED  BY <2>1, <2>2, Zenon
<1>7. \E g : Eqn(g)
  <2>1. PICK g : Iterates(g, Bitmap, F, start, n)
    <3> HIDE DEF F
    <3>. QED  BY <1>1, <1>4, <1>6, IterationExists
  <2>2. /\ g \in [SUBSET (1 .. n) -> Bitmap]
        /\ \A s \in SUBSET (1 .. n) : g[s] = IF s = {} THEN start ELSE F[<<g[s \ {Top(s)}], Top(s)>>]
    BY <2>1, Zenon DEF Iterates
  <2>3. ASSUME NEW s \in SUBSET (1 .. n)
        PROVE  g[s] = IF s = {} THEN start ELSE Bench!VerifyStep(g[s \ {Bench!Max(s)}], q[Bench!Max(s)])
    <3>1. CASE s = {}
      BY <2>2, <3>1, Zenon
    <3>2. CASE s # {}
      <4>1. Top(s) \in 1 .. n /\ g[s \ {Top(s)}] \in Bitmap
        <5> HIDE DEF F
        <5>. QED  BY <1>5, <2>2, <3>2
      <4>2. F[<<g[s \ {Top(s)}], Top(s)>>] = Bench!VerifyStep(g[s \ {Top(s)}], q[Top(s)])
        BY <1>6, <4>1, Zenon
      <4>. QED  BY <1>3, <2>2, <3>2, <4>2, Zenon
    <3>. QED  BY <3>1, <3>2, Zenon
  <2>4. g = [s \in SUBSET (1 .. n) |-> g[s]]
    BY <2>2, Zenon
  <2>5. Eqn(g)
    BY <2>3, <2>4, Zenon
  <2>. QED  BY <2>5, Zenon
<1>8. Eqn(it)
  BY <1>7, Zenon
<1> HIDE DEF it
<1>9. \A c \in V, i \in 1 .. n : G[<<c, i>>] = Bench!VerifyStep(c, q[i])
  <2>1. ASSUME NEW c \in V, NEW i \in 1 .. n PROVE G[<<c, i>>] = Bench!VerifyStep(c, q[i])
    <3> HIDE DEF V
    <3>1. <<c, i>> \in V \X (1 .. n) /\ <<c, i>>[1] = c /\ <<c, i>>[2] = i
      OBVIOUS
    <3>. QED  BY <3>1, Zenon
  <2>. QED  BY <2>1
<1>10. \A s \in SUBSET (1 .. n) : it[s] = IF s = {} THEN start ELSE G[<<it[s \ {Top(s)}], Top(s)>>]
  <2> SUFFICES ASSUME NEW s \in SUBSET (1 .. n)
               PROVE  it[s] = IF s = {} THEN start ELSE G[<<it[s \ {Top(s)}], Top(s)>>]
    OBVIOUS
  <2>1. it[s] = IF s = {} THEN start ELSE Bench!VerifyStep(it[s \ {Top(s)}], q[Top(s)])
    BY <1>3, <1>8, Zenon
  <2>2. CASE s # {}
    <3>1. Top(s) \in 1 .. n /\ it[s \ {Top(s)}] \in V
      BY <1>5, <2>2, Zenon
    <3> HIDE DEF V, G
    <3>. QED  BY <1>9, <2>1, <2>2, <3>1, Zenon
  <2>. QED  BY <2>1, <2>2, Zenon
<1>11. \A c \in Bitmap, i \in 1 .. n : G[<<c, i>>] = Bench!VerifyStep(c, q[i]) /\ G[<<c, i>>] \in Bitmap
  BY <1>4, <1>9, Zenon
<1> HIDE DEF V, G
<1>12. PICK h \in [0 .. n -> Bitmap] : History(h, G, start, n) /\ h[n] = it[1 .. n]
  <2>1. Keeps(G, Bitmap, n) /\ Unfolds(it, G, start, n)
    BY <1>10, <1>11, Zenon DEF Keeps, Unfolds
  <2>2. start \in Bitmap /\ n \in Nat
    BY <1>1, <1>4, Zenon
  <2>3. Iteration(Bitmap, start, n, G, it)
    BY <2>1, <2>2, Zenon DEF Iteration
  <2>. QED  BY <2>3, IterationHistory
<1>13. ASSUME NEW i \in 1 .. n PROVE h[i] = Bench!VerifyStep(h[i - 1], q[i])
  <2>1. i - 1 \in 0 .. n /\ h[i - 1] \in Bitmap
    BY <1>1
  <2>. QED  BY <1>11, <1>12, <2>1, Zenon DEF History
<1>. QED  BY <1>2, <1>12, <1>13, Zenon DEF n, History

LEMMA VerifyUdtHistory ==
  ASSUME NEW start \in Continuity, NEW q \in Seq(Int)
  PROVE  \E h \in [0 .. Len(q) -> Continuity] :
           /\ h[0] = start /\ h[Len(q)] = Bench!FoldLeft(Bench!VerifyUdtStep, start, q)
           /\ \A i \in 1 .. Len(q) : h[i] = Bench!VerifyUdtStep(h[i - 1], q[i])
<1> DEFINE n == Len(q)
           F == [p \in Continuity \X (1 .. n) |-> Bench!VerifyUdtStep(p[1], q[p[2]])]
           Eqn(g) == g = [s \in SUBSET (1 .. n) |->
                            IF s = {} THEN start ELSE Bench!VerifyUdtStep(g[s \ {Bench!Max(s)}], q[Bench!Max(s)])]
           it == CHOOSE g : Eqn(g)
           V == Continuity \cup {it[s] : s \in SUBSET (1 .. n)}
           G == [p \in V \X (1 .. n) |-> Bench!VerifyUdtStep(p[1], q[p[2]])]
<1>1. n \in Nat /\ DOMAIN q = 1 .. n /\ \A i \in 1 .. n : q[i] \in Int
  BY LenProperties
<1>2. Bench!FoldLeft(Bench!VerifyUdtStep, start, q) = it[1 .. n]
  BY <1>1 DEF Bench!FoldLeft, Bench!MapThenFoldSet
<1>3. \A s : Bench!Max(s) = Top(s)
  BY DEF Bench!Max, Top
<1>4. start \in Continuity /\ \A c \in Continuity, i \in 1 .. n : Bench!VerifyUdtStep(c, q[i]) \in Continuity
  <2> HIDE DEF n
  <2>. QED  BY <1>1, VerifyUdtStepType
<1> HIDE DEF n
<1>5. \A s \in SUBSET (1 .. n) : s # {} => Top(s) \in 1 .. n /\ s \ {Top(s)} \in SUBSET (1 .. n)
  BY <1>1, TopInterval
<1>6. F \in [Continuity \X (1 .. n) -> Continuity] /\ \A c \in Continuity, i \in 1 .. n : F[<<c, i>>] = Bench!VerifyUdtStep(c, q[i])
  <2>1. ASSUME NEW p \in Continuity \X (1 .. n) PROVE Bench!VerifyUdtStep(p[1], q[p[2]]) \in Continuity
    <3>1. p[1] \in Continuity /\ p[2] \in 1 .. n
      OBVIOUS
    <3>. QED  BY <1>4, <3>1
  <2>2. ASSUME NEW c \in Continuity, NEW i \in 1 .. n PROVE F[<<c, i>>] = Bench!VerifyUdtStep(c, q[i])
    <3>1. <<c, i>> \in Continuity \X (1 .. n) /\ <<c, i>>[1] = c /\ <<c, i>>[2] = i
      OBVIOUS
    <3>. QED  BY <3>1, Zenon
  <2>. QED  BY <2>1, <2>2, Zenon
<1>7. \E g : Eqn(g)
  <2>1. PICK g : Iterates(g, Continuity, F, start, n)
    <3> HIDE DEF F
    <3>. QED  BY <1>1, <1>4, <1>6, IterationExists
  <2>2. /\ g \in [SUBSET (1 .. n) -> Continuity]
        /\ \A s \in SUBSET (1 .. n) : g[s] = IF s = {} THEN start ELSE F[<<g[s \ {Top(s)}], Top(s)>>]
    BY <2>1, Zenon DEF Iterates
  <2>3. ASSUME NEW s \in SUBSET (1 .. n)
        PROVE  g[s] = IF s = {} THEN start ELSE Bench!VerifyUdtStep(g[s \ {Bench!Max(s)}], q[Bench!Max(s)])
    <3>1. CASE s = {}
      BY <2>2, <3>1, Zenon
    <3>2. CASE s # {}
      <4>1. Top(s) \in 1 .. n /\ g[s \ {Top(s)}] \in Continuity
        <5> HIDE DEF F
        <5>. QED  BY <1>5, <2>2, <3>2
      <4>2. F[<<g[s \ {Top(s)}], Top(s)>>] = Bench!VerifyUdtStep(g[s \ {Top(s)}], q[Top(s)])
        BY <1>6, <4>1, Zenon
      <4>. QED  BY <1>3, <2>2, <3>2, <4>2, Zenon
    <3>. QED  BY <3>1, <3>2, Zenon
  <2>4. g = [s \in SUBSET (1 .. n) |-> g[s]]
    BY <2>2, Zenon
  <2>5. Eqn(g)
    BY <2>3, <2>4, Zenon
  <2>. QED  BY <2>5, Zenon
<1>8. Eqn(it)
  BY <1>7, Zenon
<1> HIDE DEF it
<1>9. \A c \in V, i \in 1 .. n : G[<<c, i>>] = Bench!VerifyUdtStep(c, q[i])
  <2>1. ASSUME NEW c \in V, NEW i \in 1 .. n PROVE G[<<c, i>>] = Bench!VerifyUdtStep(c, q[i])
    <3> HIDE DEF V
    <3>1. <<c, i>> \in V \X (1 .. n) /\ <<c, i>>[1] = c /\ <<c, i>>[2] = i
      OBVIOUS
    <3>. QED  BY <3>1, Zenon
  <2>. QED  BY <2>1
<1>10. \A s \in SUBSET (1 .. n) : it[s] = IF s = {} THEN start ELSE G[<<it[s \ {Top(s)}], Top(s)>>]
  <2> SUFFICES ASSUME NEW s \in SUBSET (1 .. n)
               PROVE  it[s] = IF s = {} THEN start ELSE G[<<it[s \ {Top(s)}], Top(s)>>]
    OBVIOUS
  <2>1. it[s] = IF s = {} THEN start ELSE Bench!VerifyUdtStep(it[s \ {Top(s)}], q[Top(s)])
    BY <1>3, <1>8, Zenon
  <2>2. CASE s # {}
    <3>1. Top(s) \in 1 .. n /\ it[s \ {Top(s)}] \in V
      BY <1>5, <2>2, Zenon
    <3> HIDE DEF V, G
    <3>. QED  BY <1>9, <2>1, <2>2, <3>1, Zenon
  <2>. QED  BY <2>1, <2>2, Zenon
<1>11. \A c \in Continuity, i \in 1 .. n : G[<<c, i>>] = Bench!VerifyUdtStep(c, q[i]) /\ G[<<c, i>>] \in Continuity
  BY <1>4, <1>9, Zenon
<1> HIDE DEF V, G
<1>12. PICK h \in [0 .. n -> Continuity] : History(h, G, start, n) /\ h[n] = it[1 .. n]
  <2>1. Keeps(G, Continuity, n) /\ Unfolds(it, G, start, n)
    BY <1>10, <1>11, Zenon DEF Keeps, Unfolds
  <2>2. start \in Continuity /\ n \in Nat
    BY <1>1, <1>4, Zenon
  <2>3. Iteration(Continuity, start, n, G, it)
    BY <2>1, <2>2, Zenon DEF Iteration
  <2>. QED  BY <2>3, IterationHistory
<1>13. ASSUME NEW i \in 1 .. n PROVE h[i] = Bench!VerifyUdtStep(h[i - 1], q[i])
  <2>1. i - 1 \in 0 .. n /\ h[i - 1] \in Continuity
    BY <1>1
  <2>. QED  BY <1>11, <1>12, <2>1, Zenon DEF History
<1>. QED  BY <1>2, <1>12, <1>13, Zenon DEF n, History

\* What the consumer thread has in its bitmap after a batch.
LEMMA TrackGathers ==
  ASSUME NEW start \in Bitmap, NEW q \in Seq(Int)
  PROVE  /\ Bench!FoldLeft(Bench!Track, start, q) \in Bitmap
         /\ start.seen \subseteq Bench!FoldLeft(Bench!Track, start, q).seen
         /\ \A i \in 1 .. Len(q) :
              q[i] \in InBitmap => q[i] \in Bench!FoldLeft(Bench!Track, start, q).seen
<1> DEFINE n == Len(q)
<1>1. PICK h \in [0 .. n -> Bitmap] :
        /\ h[0] = start /\ h[n] = Bench!FoldLeft(Bench!Track, start, q)
        /\ \A i \in 1 .. n : h[i] = Bench!Track(h[i - 1], q[i])
  BY TrackHistory
<1>2. n \in Nat /\ \A i \in 1 .. n : q[i] \in Int
  OBVIOUS
<1> HIDE DEF n
<1> DEFINE P == {i \in Nat : i <= n =>
                   start.seen \subseteq h[i].seen /\ \A j \in 1 .. i : q[j] \in InBitmap => q[j] \in h[i].seen}
<1>3. 0 \in P
  BY <1>1
<1>4. ASSUME NEW i \in P PROVE i + 1 \in P
  <2> SUFFICES ASSUME i + 1 <= n
               PROVE  /\ start.seen \subseteq h[i + 1].seen
                      /\ \A j \in 1 .. i + 1 : q[j] \in InBitmap => q[j] \in h[i + 1].seen
    OBVIOUS
  <2>1. /\ i \in Nat /\ i + 1 \in 1 .. n /\ (i + 1) - 1 = i /\ h[i] \in Bitmap /\ q[i + 1] \in Int
        /\ start.seen \subseteq h[i].seen /\ \A j \in 1 .. i : q[j] \in InBitmap => q[j] \in h[i].seen
    BY <1>2
  <2>2. h[i + 1] = Bench!Track(h[i], q[i + 1])
    BY <1>1, <2>1, Zenon
  <2>3. h[i].seen \subseteq h[i + 1].seen /\ (q[i + 1] \in InBitmap => q[i + 1] \in h[i + 1].seen)
    <3> DEFINE u == h[i]
               x == q[i + 1]
    <3>1. u \in Bitmap /\ x \in Int
      BY <2>1, Zenon
    <3> HIDE DEF u, x, InBitmap
    <3>2. u.seen \subseteq Bench!Track(u, x).seen /\ (x \in InBitmap => x \in Bench!Track(u, x).seen)
      <4>1. /\ x \in InBitmap /\ x \notin u.seen => Bench!Track(u, x).seen = u.seen \cup {x}
            /\ x \in InBitmap /\ x \in u.seen => Bench!Track(u, x).seen = u.seen
            /\ x \notin InBitmap => Bench!Track(u, x).seen = u.seen
        BY <3>1, BitmapStep
      <4>. QED  BY <4>1, Zenon
    <3>. QED  BY <2>2, <3>2, Zenon DEF u, x
  <2>4. 1 .. i + 1 = (1 .. i) \cup {i + 1}
    BY <2>1
  <2> HIDE DEF InBitmap
  <2>. QED  BY <2>1, <2>3, <2>4, Zenon
<1>5. P = Nat
  <2> HIDE DEF P
  <2>1. P \subseteq Nat
    BY DEF P
  <2>. QED  BY <1>3, <1>4, <2>1, NatSetInduction
<1>6. /\ start.seen \subseteq h[n].seen /\ \A j \in 1 .. n : q[j] \in InBitmap => q[j] \in h[n].seen
      /\ h[n] \in Bitmap
  BY <1>2, <1>5
<1>. QED  BY <1>1, <1>6, Zenon DEF n

\* The places of the numbers of a run up to one of them, and what the verdict asks of them.
Kept(r, i) == {j \in 1 .. i : r[j] # Bench!Sentinel}
Once(r, i) == \A j, k \in Kept(r, i) : r[j] = r[k] => j = k
Rising(r, i) == \A j, k \in Kept(r, i) : j < k => r[j] < r[k]
RunOf(r) == r \in Seq(Int) /\ total \in Nat /\ \A i \in 1 .. Len(r) : r[i] = Bench!Sentinel \/ r[i] \in 0 .. total - 1

LEMMA KeptAll == ASSUME NEW r \in Seq(Int) PROVE Bench!SampleIndices(r) = Kept(r, Len(r))
  BY DEF Bench!SampleIndices, Kept

LEMMA KeptNext ==
  ASSUME NEW r, NEW i \in Nat
  PROVE  /\ Kept(r, 0) = {}
         /\ r[i + 1] = Bench!Sentinel => Kept(r, i + 1) = Kept(r, i)
         /\ r[i + 1] # Bench!Sentinel => Kept(r, i + 1) = Kept(r, i) \cup {i + 1}
         /\ \A j \in Kept(r, i) : j \in Nat /\ j < i + 1
  BY DEF Kept

\* The verdict for scalars: each sample stored, and each once.
LEMMA ScalarVerdict ==
  ASSUME NEW r, RunOf(r), total <= Bench!SeqCapacity
  PROVE  Bench!PassedScalar(r) <=> {r[i] : i \in Kept(r, Len(r))} = 0 .. total - 1 /\ Once(r, Len(r))
<1> DEFINE n == Len(r)
<1>1. /\ r \in Seq(Int) /\ total \in Nat /\ n \in Nat
      /\ \A i \in 1 .. n : r[i] \in Int /\ (r[i] = Bench!Sentinel \/ r[i] \in 0 .. total - 1)
  BY DEF RunOf
<1>2. NoneSeen \in Bitmap
  BY DEF NoneSeen, Bitmap
<1> DEFINE check == Bench!FoldLeft(Bench!VerifyStep, NoneSeen, r)
<1>3. PICK h \in [0 .. n -> Bitmap] :
        h[0] = NoneSeen /\ h[n] = check /\ \A i \in 1 .. n : h[i] = Bench!VerifyStep(h[i - 1], r[i])
  BY <1>1, <1>2, VerifyHistory
<1>4. Bench!PassedScalar(r) <=> Bench!Missing(check.seen) = {} /\ check.dups = 0 /\ check.oor = 0
  BY Zenon DEF Bench!PassedScalar, NoneSeen
<1>5. \A x \in 0 .. total - 1 : x \in InBitmap /\ x # Bench!Sentinel /\ x \in Int
  BY <1>1, Room DEF InBitmap
<1> HIDE DEF n, check
<1> DEFINE P == {i \in Nat : i <= n =>
                   /\ h[i].oor = 0 /\ h[i].seen = {r[j] : j \in Kept(r, i)}
                   /\ h[i].dups = 0 <=> Once(r, i)}
<1>6. 0 \in P
  <2>1. h[0].oor = 0 /\ h[0].seen = {} /\ h[0].dups = 0
    BY <1>3 DEF NoneSeen
  <2>2. Kept(r, 0) = {}
    BY KeptNext
  <2>. QED  BY <2>1, <2>2 DEF Once
<1>7. ASSUME NEW i \in P PROVE i + 1 \in P
  <2> SUFFICES ASSUME i + 1 <= n
               PROVE  /\ h[i + 1].oor = 0 /\ h[i + 1].seen = {r[j] : j \in Kept(r, i + 1)}
                      /\ h[i + 1].dups = 0 <=> Once(r, i + 1)
    OBVIOUS
  <2>1. /\ i \in Nat /\ i + 1 \in 1 .. n /\ (i + 1) - 1 = i /\ h[i] \in Bitmap
        /\ h[i].oor = 0 /\ h[i].seen = {r[j] : j \in Kept(r, i)}
        /\ h[i].dups = 0 <=> Once(r, i)
    BY <1>1
  <2>2. h[i + 1] = Bench!VerifyStep(h[i], r[i + 1])
    BY <1>3, <2>1, Zenon
  <2>3. \A j \in Kept(r, i) : j # i + 1
    BY <2>1, KeptNext
  <2>4. CASE r[i + 1] = Bench!Sentinel
    <3>1. h[i + 1] = h[i]
      BY <2>2, <2>4, Zenon DEF Bench!VerifyStep
    <3>2. Kept(r, i + 1) = Kept(r, i)
      BY <2>1, <2>4, KeptNext
    <3>. QED  BY <2>1, <3>1, <3>2, Zenon DEF Once
  <2>5. CASE r[i + 1] # Bench!Sentinel
    <3> DEFINE u == h[i]
               x == r[i + 1]
    <3>1. h[i + 1] = Bench!Track(u, x)
      BY <2>2, <2>5, Zenon DEF Bench!VerifyStep
    <3>2. u \in Bitmap /\ x \in InBitmap /\ x \in Int
      BY <1>1, <1>5, <2>1, <2>5, Zenon
    <3>3. Kept(r, i + 1) = Kept(r, i) \cup {i + 1}
      BY <2>1, <2>5, KeptNext
    <3> HIDE DEF u, x
    <3>4. /\ x \notin u.seen =>
               Bench!Track(u, x).seen = u.seen \cup {x} /\ Bench!Track(u, x).dups = u.dups /\ Bench!Track(u, x).oor = u.oor
          /\ x \in u.seen =>
               Bench!Track(u, x).seen = u.seen /\ Bench!Track(u, x).dups = u.dups + 1 /\ Bench!Track(u, x).oor = u.oor
      BY <3>2, BitmapStep
    <3>5. u.dups + 1 # 0
      <4>1. PICK d \in Nat : d = u.dups
        BY <3>2 DEF Bitmap
      <4>. QED  BY <4>1
    <3>6. CASE x \in u.seen
      <4>1. PICK j \in Kept(r, i) : r[j] = x
        BY <2>1, <3>6, Zenon DEF u
      <4>2. ~ Once(r, i + 1)
        BY <2>3, <3>3, <4>1, Zenon DEF Once, x
      <4>3. h[i + 1].seen = u.seen /\ h[i + 1].dups = u.dups + 1 /\ h[i + 1].oor = u.oor
        BY <3>1, <3>4, <3>6, Zenon
      <4>4. {r[k] : k \in Kept(r, i + 1)} = {r[k] : k \in Kept(r, i)} \cup {x}
        BY <3>3, Zenon DEF x
      <4>. QED  BY <2>1, <3>5, <3>6, <4>2, <4>3, <4>4, Zenon DEF u
    <3>7. CASE x \notin u.seen
      <4>1. \A j \in Kept(r, i) : r[j] # x
        BY <2>1, <3>7, Zenon DEF u
      <4>2. Once(r, i + 1) <=> Once(r, i)
        BY <3>3, <4>1, Zenon DEF Once, x
      <4>3. h[i + 1].seen = u.seen \cup {x} /\ h[i + 1].dups = u.dups /\ h[i + 1].oor = u.oor
        BY <3>1, <3>4, <3>7, Zenon
      <4>4. {r[k] : k \in Kept(r, i + 1)} = {r[k] : k \in Kept(r, i)} \cup {x}
        BY <3>3, Zenon DEF x
      <4>. QED  BY <2>1, <4>2, <4>3, <4>4, Zenon DEF u
    <3>. QED  BY <3>6, <3>7
  <2>. QED  BY <2>4, <2>5
<1>8. P = Nat
  <2> HIDE DEF P
  <2>1. P \subseteq Nat
    BY DEF P
  <2>. QED  BY <1>6, <1>7, <2>1, NatSetInduction
<1>9. check.oor = 0 /\ check.seen = {r[j] : j \in Kept(r, n)} /\ (check.dups = 0 <=> Once(r, n))
  <2>1. h[n].oor = 0 /\ h[n].seen = {r[j] : j \in Kept(r, n)} /\ (h[n].dups = 0 <=> Once(r, n))
    BY <1>1, <1>8
  <2>. QED  BY <1>3, <2>1, Zenon
<1>10. {r[j] : j \in Kept(r, n)} \subseteq 0 .. total - 1
  BY <1>1 DEF Kept
<1>11. Bench!Missing(check.seen) = {} <=> 0 .. total - 1 \subseteq check.seen
  <2>1. \A i \in 0 .. total - 1 : i < Bench!SeqCapacity
    BY <1>1, Room
  <2>. QED  BY <2>1, Zenon DEF Bench!Missing
<1>12. Bench!PassedScalar(r) <=> {r[i] : i \in Kept(r, n)} = 0 .. total - 1 /\ Once(r, n)
  BY <1>4, <1>9, <1>10, <1>11, Zenon
<1>. QED  BY <1>12, Zenon DEF n

\* And the one for UDT samples: each stored, each once, in order.
LEMMA UdtVerdict ==
  ASSUME NEW r, RunOf(r)
  PROVE  Bench!PassedUdt(r) <=>
           {r[i] : i \in Kept(r, Len(r))} = 0 .. total - 1 /\ Once(r, Len(r)) /\ Rising(r, Len(r))
<1> DEFINE n == Len(r)
           start == [recv |-> 0, last |-> Bench!Sentinel, order |-> 0]
<1>1. /\ r \in Seq(Int) /\ total \in Nat /\ n \in Nat
      /\ \A i \in 1 .. n : r[i] \in Int /\ (r[i] = Bench!Sentinel \/ r[i] \in 0 .. total - 1)
  BY DEF RunOf
<1>2. start \in Continuity
  BY Room DEF Continuity
<1> DEFINE check == Bench!FoldLeft(Bench!VerifyUdtStep, start, r)
<1>3. start.recv = 0 /\ start.last = Bench!Sentinel /\ start.order = 0
  BY Zenon
<1>4. Bench!PassedUdt(r) <=> check.recv = total /\ check.order = 0
  BY Zenon DEF Bench!PassedUdt
<1> HIDE DEF start, check
<1>5. PICK h \in [0 .. n -> Continuity] :
        h[0] = start /\ h[n] = check /\ \A i \in 1 .. n : h[i] = Bench!VerifyUdtStep(h[i - 1], r[i])
  BY <1>1, <1>2, VerifyUdtHistory DEF check
<1> HIDE DEF n
<1> DEFINE Values(i) == {r[j] : j \in Kept(r, i)}
           P == {i \in Nat : i <= n =>
                   /\ h[i].order = 0 <=> Rising(r, i)
                   /\ h[i].last = Bench!Sentinel \/ h[i].last \in Values(i)
                   /\ h[i].order = 0 =>
                        /\ \A x \in Values(i) : x <= h[i].last
                        /\ IsFiniteSet(Values(i)) /\ Cardinality(Values(i)) = h[i].recv}
<1>6. 0 \in P
  <2>1. Kept(r, 0) = {} /\ Values(0) = {}
    BY KeptNext
  <2>2. h[0].recv = 0 /\ h[0].last = Bench!Sentinel /\ h[0].order = 0
    BY <1>3, <1>5
  <2>. QED  BY <2>1, <2>2, FS_EmptySet DEF Rising
<1>7. ASSUME NEW i \in P PROVE i + 1 \in P
  <2> SUFFICES ASSUME i + 1 <= n
               PROVE  /\ h[i + 1].order = 0 <=> Rising(r, i + 1)
                      /\ h[i + 1].last = Bench!Sentinel \/ h[i + 1].last \in Values(i + 1)
                      /\ h[i + 1].order = 0 =>
                           /\ \A x \in Values(i + 1) : x <= h[i + 1].last
                           /\ IsFiniteSet(Values(i + 1)) /\ Cardinality(Values(i + 1)) = h[i + 1].recv
    OBVIOUS
  <2>1. /\ i \in Nat /\ i <= n /\ i + 1 \in 1 .. n /\ (i + 1) - 1 = i /\ h[i] \in Continuity
        /\ h[i].order = 0 <=> Rising(r, i)
        /\ h[i].last = Bench!Sentinel \/ h[i].last \in Values(i)
        /\ h[i].order = 0 =>
             /\ \A x \in Values(i) : x <= h[i].last
             /\ IsFiniteSet(Values(i)) /\ Cardinality(Values(i)) = h[i].recv
    BY <1>1
  <2>2. h[i + 1] = Bench!VerifyUdtStep(h[i], r[i + 1])
    BY <1>5, <2>1, Zenon
  <2>3. \A j \in Kept(r, i) : j \in Nat /\ j < i + 1 /\ ~ (i + 1 < j) /\ r[j] \in Int
    BY <1>1, <2>1 DEF Kept
  <2>4. CASE r[i + 1] = Bench!Sentinel
    <3>1. h[i + 1] = h[i]
      BY <2>2, <2>4, Zenon DEF Bench!VerifyUdtStep
    <3>2. Kept(r, i + 1) = Kept(r, i)
      BY <2>1, <2>4, KeptNext
    <3>. QED  BY <2>1, <3>1, <3>2, Zenon DEF Rising
  <2>5. CASE r[i + 1] # Bench!Sentinel
    <3>1. Kept(r, i + 1) = Kept(r, i) \cup {i + 1}
      BY <2>1, <2>5, KeptNext
    <3>2. PICK x \in Nat, c \in Nat, l \in Int, o \in Nat :
            x = r[i + 1] /\ c = h[i].recv /\ l = h[i].last /\ o = h[i].order
      <4>1. r[i + 1] \in Nat
        <5>1. r[i + 1] \in 0 .. total - 1
          BY <1>1, <2>1, <2>5, Zenon
        <5>. QED  BY <1>1, <5>1
      <4>. QED  BY <2>1, <4>1 DEF Continuity
    <3>3. /\ h[i + 1].recv = c + 1 /\ h[i + 1].last = x
          /\ x <= l => h[i + 1].order = o + 1
          /\ ~ (x <= l) => h[i + 1].order = o + 0
      BY <2>2, <2>5, <3>2 DEF Bench!VerifyUdtStep
    <3>4. Values(i + 1) = Values(i) \cup {x}
      BY <3>1, <3>2, Zenon
    <3>5. CASE x <= l
      <4>1. l \in Values(i)
        <5>1. l # Bench!Sentinel
          BY <3>2, <3>5, Room
        <5>. QED  BY <2>1, <3>2, <5>1, Zenon
      <4>2. PICK j \in Kept(r, i) : r[j] = l
        BY <4>1, Zenon
      <4>3. ~ Rising(r, i + 1)
        <5>1. ~ (r[j] < r[i + 1])
          BY <3>2, <3>5, <4>2
        <5>. QED  BY <2>3, <3>1, <4>2, <5>1, Zenon DEF Rising
      <4>4. h[i + 1].order # 0
        BY <3>2, <3>3, <3>5
      <4>. QED  BY <3>2, <3>3, <3>4, <4>3, <4>4
    <3>6. CASE ~ (x <= l)
      <4>1. h[i + 1].order = o
        BY <3>2, <3>3, <3>6
      <4>2. o = 0 => \A y \in Values(i) : y \in Int /\ y < x
        <5>1. \A y \in Values(i) : y \in Int
          BY <2>3, Zenon
        <5>2. o = 0 => \A y \in Values(i) : y <= l
          BY <2>1, <3>2, Zenon
        <5> HIDE DEF Values
        <5>. QED  BY <3>2, <3>6, <5>1, <5>2
      <4>3. Rising(r, i + 1) <=> Rising(r, i)
        <5>1. Rising(r, i + 1) => Rising(r, i)
          BY <3>1, Zenon DEF Rising
        <5>2. ASSUME Rising(r, i) PROVE Rising(r, i + 1)
          <6>1. \A j \in Kept(r, i) : r[j] < r[i + 1]
            BY <2>1, <3>2, <4>2, <5>2, Zenon
          <6>2. ~ (i + 1 < i + 1)
            BY <2>1
          <6>. QED  BY <2>3, <3>1, <5>2, <6>1, <6>2, Zenon DEF Rising
        <5>. QED  BY <5>1, <5>2
      <4>4. ASSUME o = 0
            PROVE  /\ \A y \in Values(i + 1) : y <= x
                   /\ IsFiniteSet(Values(i + 1)) /\ Cardinality(Values(i + 1)) = c + 1
        <5> DEFINE s == Values(i)
        <5>1. IsFiniteSet(s) /\ Cardinality(s) = c
          BY <2>1, <3>2, <4>4, Zenon
        <5>2. x \notin s /\ \A y \in s : y <= x
          BY <4>2, <4>4
        <5>3. Values(i + 1) = s \cup {x}
          BY <3>4, Zenon
        <5> HIDE DEF s, Values
        <5>4. IsFiniteSet(s \cup {x}) /\ Cardinality(s \cup {x}) = c + 1
          BY <5>1, <5>2, FS_AddElement
        <5>5. x <= x
          OBVIOUS
        <5>. QED  BY <5>2, <5>3, <5>4, <5>5, Zenon
      <4>5. x \in Values(i + 1)
        BY <3>4, Zenon
      <4> HIDE DEF Values
      <4>. QED  BY <2>1, <3>2, <3>3, <4>1, <4>3, <4>4, <4>5, Zenon
    <3>. QED  BY <3>5, <3>6
  <2>. QED  BY <2>4, <2>5
<1>8. P = Nat
  <2> HIDE DEF P
  <2>1. P \subseteq Nat
    BY DEF P
  <2>. QED  BY <1>6, <1>7, <2>1, NatSetInduction
<1>9. /\ check.order = 0 <=> Rising(r, n)
      /\ check.order = 0 => IsFiniteSet(Values(n)) /\ Cardinality(Values(n)) = check.recv
  <2>1. /\ h[n].order = 0 <=> Rising(r, n)
        /\ h[n].order = 0 => IsFiniteSet(Values(n)) /\ Cardinality(Values(n)) = h[n].recv
    BY <1>1, <1>8
  <2>. QED  BY <1>5, <2>1, Zenon
<1>10. Values(n) \subseteq 0 .. total - 1
  BY <1>1 DEF Kept
<1>11. IsFiniteSet(0 .. total - 1) /\ Cardinality(0 .. total - 1) = total
  <2>1. IsFiniteSet(0 .. total - 1) /\ Cardinality(0 .. total - 1) = IF 0 > total - 1 THEN 0 ELSE (total - 1) - 0 + 1
    <3>1. 0 \in Int /\ total - 1 \in Int
      BY <1>1
    <3>. QED  BY <3>1, FS_Interval, Zenon
  <2>. QED  BY <1>1, <2>1
<1>12. Rising(r, n) => Once(r, n)
  <2> SUFFICES ASSUME Rising(r, n), NEW j \in Kept(r, n), NEW k \in Kept(r, n), r[j] = r[k] PROVE j = k
    BY Zenon DEF Once
  <2>1. j \in Nat /\ k \in Nat /\ r[j] \in Int
    BY <1>1 DEF Kept
  <2>2. ~ (j < k) /\ ~ (k < j)
    <3>1. ~ (r[j] < r[k]) /\ ~ (r[k] < r[j])
      BY <2>1
    <3>. QED  BY <3>1, Zenon DEF Rising
  <2>. QED  BY <2>1, <2>2
<1> DEFINE s == Values(n)
<1>13. ASSUME Cardinality(s) = total PROVE s = 0 .. total - 1
  <2>1. s \in SUBSET (0 .. total - 1)
    BY <1>10, Zenon
  <2> HIDE DEF s
  <2>. QED  BY <1>11, <1>13, <2>1, FS_Subset
<1>14. Bench!PassedUdt(r) <=> s = 0 .. total - 1 /\ Once(r, n) /\ Rising(r, n)
  BY <1>4, <1>9, <1>11, <1>12, <1>13, Zenon
<1>. QED  BY <1>14, Zenon DEF n

-----------------------------------------------------------------------------
(* kv8bench: the run.                                                      *)

\* The numbers that may be on their way or stored: the sentinel's and those of the samples sent.
Numbers == {Bench!Sentinel} \cup 0 .. sent - 1

BenchTypes ==
  /\ mode \in {"scalar", "udt"} /\ byCount \in BOOLEAN
  /\ pc \in {"preflight", "topic", "create", "await", "zero", "ask", "settle", "produce", "flush", "drain",
             "join", "abort", "verify", "done"}
  /\ cpc \in {"off", "subscribe", "loop", "poll", "publish", "final", "finish", "done"}
  /\ told \in BOOLEAN /\ reset \in BOOLEAN /\ assigned \in BOOLEAN
  /\ late \in BOOLEAN /\ whole \in BOOLEAN /\ clean \in BOOLEAN
  /\ sent \in Nat /\ total \in Nat /\ recv \in Nat /\ local \in Nat /\ dups \in Nat /\ oor \in Nat
  /\ joins \in Nat /\ seen \in SUBSET Int
  /\ queue \in Seq(Int) /\ benchTopic \in Seq(Int) /\ readBack \in Seq(Int)
  /\ pos \in 0 .. Len(benchTopic) /\ stopAt \in 0 .. Len(benchTopic)

\* Nothing is produced before the counters are reset; a topic that was found empty holds the numbers of
\* the run only.
RunNumbers ==
  /\ cpc = "off" => pc \in {"preflight", "topic", "done"} /\ queue = <<>> /\ ~ whole
  /\ cpc # "off" => pc \notin {"preflight", "topic"}
  /\ pc \in {"preflight", "topic", "create", "await", "zero", "ask", "settle"} => sent = 0
  /\ cpc = "off" \/ pc \notin {"flush", "drain", "join", "verify", "done"} => total = 0
  /\ pc \in {"flush", "drain", "join", "verify"} => total = sent
  /\ whole => total = sent /\ pc = "done"
  /\ clean /\ pc = "topic" => benchTopic = <<>>
  /\ clean /\ cpc # "off" => benchTopic \in Seq(Numbers) /\ queue \in Seq(Numbers)
  /\ clean /\ whole => readBack \in Seq(Numbers)

\* The consumer stops only when main has told it to, unless it could not subscribe; the scalars up to where
\* it reads are in its bitmap, and it ends with no less than there was when it was told, unless it was late.
Gathered(n) == \A i \in 1 .. n : benchTopic[i] \in InBitmap => benchTopic[i] \in seen

ConsumerReads ==
  /\ mode = "scalar" => Gathered(pos)
  /\ told /\ ~ late => pc \in {"abort", "join", "verify", "done"} \/ (pc = "drain" /\ mode = "udt")
  /\ cpc \in {"final", "finish", "done"} /\ ~ late => told
  /\ cpc \in {"finish", "done"} /\ ~ late /\ joins <= 1 => pos >= stopAt
  /\ cpc \in {"finish", "done"} /\ ~ late /\ mode = "scalar" => Gathered(stopAt)
  /\ cpc = "done" /\ ~ late => recv = local

\* main has seen the consumer receive something; the counters have been reset
HasWarmedUp == pc \in {"zero", "ask", "settle", "produce", "flush", "drain", "join", "verify"} \/ total > 0
HasReset    == pc \in {"produce", "flush", "drain", "join", "verify"} \/ total > 0 \/ (pc = "settle" /\ ~ reset)

\* the consumer has read the sentinel and nothing else when its counters were reset, and counts since then
CountsSince(base) == local = pos - base /\ \A i \in 1 .. base : benchTopic[i] = Bench!Sentinel

ConsumerCounts ==
  /\ joins = 0 => pos = 0 /\ local = 0 /\ recv = 0 /\ ~ assigned
  /\ joins <= 1 => recv <= pos /\ local <= pos
  /\ HasWarmedUp /\ ~ late /\ joins <= 1 => pos >= 1
  /\ reset /\ ~ late => pc = "settle"
  /\ HasReset /\ clean /\ ~ late /\ joins = 1 => \E base \in 1 .. pos : CountsSince(base)

BenchInv == BenchTypes /\ RunNumbers /\ ConsumerReads /\ ConsumerCounts

LEMMA SumHistory ==
  ASSUME NEW start \in Nat, NEW q \in Seq(Nat)
  PROVE  \E h \in [0 .. Len(q) -> Nat] :
           /\ h[0] = start /\ h[Len(q)] = Bench!FoldLeft(LAMBDA m, size : m + size, start, q)
           /\ \A i \in 1 .. Len(q) : h[i] = h[i - 1] + q[i]
<1> DEFINE n == Len(q)
           F == [p \in Nat \X (1 .. n) |-> p[1] + q[p[2]]]
           Eqn(g) == g = [s \in SUBSET (1 .. n) |->
                            IF s = {} THEN start ELSE g[s \ {Bench!Max(s)}] + q[Bench!Max(s)]]
           it == CHOOSE g : Eqn(g)
           V == Nat \cup {it[s] : s \in SUBSET (1 .. n)}
           G == [p \in V \X (1 .. n) |-> p[1] + q[p[2]]]
<1>1. n \in Nat /\ DOMAIN q = 1 .. n /\ \A i \in 1 .. n : q[i] \in Nat
  BY LenProperties
<1>2. Bench!FoldLeft(LAMBDA m, size : m + size, start, q) = it[1 .. n]
  BY <1>1 DEF Bench!FoldLeft, Bench!MapThenFoldSet
<1>3. \A s : Bench!Max(s) = Top(s)
  BY DEF Bench!Max, Top
<1>4. start \in Nat /\ \A c \in Nat, i \in 1 .. n : c + q[i] \in Nat
  <2> HIDE DEF n
  <2>. QED  BY <1>1, SMT
<1> HIDE DEF n
<1>5. \A s \in SUBSET (1 .. n) : s # {} => Top(s) \in 1 .. n /\ s \ {Top(s)} \in SUBSET (1 .. n)
  BY <1>1, TopInterval
<1>6. F \in [Nat \X (1 .. n) -> Nat] /\ \A c \in Nat, i \in 1 .. n : F[<<c, i>>] = c + q[i]
  <2>1. ASSUME NEW p \in Nat \X (1 .. n) PROVE p[1] + q[p[2]] \in Nat
    <3>1. p[1] \in Nat /\ p[2] \in 1 .. n
      OBVIOUS
    <3>. QED  BY <1>4, <3>1
  <2>2. ASSUME NEW c \in Nat, NEW i \in 1 .. n PROVE F[<<c, i>>] = c + q[i]
    <3>1. <<c, i>> \in Nat \X (1 .. n) /\ <<c, i>>[1] = c /\ <<c, i>>[2] = i
      OBVIOUS
    <3>. QED  BY <3>1, Zenon
  <2>. QED  BY <2>1, <2>2, Zenon
<1>7. \E g : Eqn(g)
  <2>1. PICK g : Iterates(g, Nat, F, start, n)
    <3> HIDE DEF F
    <3>. QED  BY <1>1, <1>4, <1>6, IterationExists
  <2>2. /\ g \in [SUBSET (1 .. n) -> Nat]
        /\ \A s \in SUBSET (1 .. n) : g[s] = IF s = {} THEN start ELSE F[<<g[s \ {Top(s)}], Top(s)>>]
    BY <2>1, Zenon DEF Iterates
  <2>3. ASSUME NEW s \in SUBSET (1 .. n)
        PROVE  g[s] = IF s = {} THEN start ELSE g[s \ {Bench!Max(s)}] + q[Bench!Max(s)]
    <3>1. CASE s = {}
      BY <2>2, <3>1, Zenon
    <3>2. CASE s # {}
      <4>1. Top(s) \in 1 .. n /\ g[s \ {Top(s)}] \in Nat
        <5> HIDE DEF F
        <5>. QED  BY <1>5, <2>2, <3>2
      <4>2. F[<<g[s \ {Top(s)}], Top(s)>>] = g[s \ {Top(s)}] + q[Top(s)]
        BY <1>6, <4>1, Zenon
      <4>. QED  BY <1>3, <2>2, <3>2, <4>2, Zenon
    <3>. QED  BY <3>1, <3>2, Zenon
  <2>4. g = [s \in SUBSET (1 .. n) |-> g[s]]
    BY <2>2, Zenon
  <2>5. Eqn(g)
    BY <2>3, <2>4, Zenon
  <2>. QED  BY <2>5, Zenon
<1>8. Eqn(it)
  BY <1>7, Zenon
<1> HIDE DEF it
<1>9. \A c \in V, i \in 1 .. n : G[<<c, i>>] = c + q[i]
  <2>1. ASSUME NEW c \in V, NEW i \in 1 .. n PROVE G[<<c, i>>] = c + q[i]
    <3> HIDE DEF V
    <3>1. <<c, i>> \in V \X (1 .. n) /\ <<c, i>>[1] = c /\ <<c, i>>[2] = i
      OBVIOUS
    <3>. QED  BY <3>1, Zenon
  <2>. QED  BY <2>1
<1>10. \A s \in SUBSET (1 .. n) : it[s] = IF s = {} THEN start ELSE G[<<it[s \ {Top(s)}], Top(s)>>]
  <2> SUFFICES ASSUME NEW s \in SUBSET (1 .. n)
               PROVE  it[s] = IF s = {} THEN start ELSE G[<<it[s \ {Top(s)}], Top(s)>>]
    OBVIOUS
  <2>1. it[s] = IF s = {} THEN start ELSE it[s \ {Top(s)}] + q[Top(s)]
    BY <1>3, <1>8, Zenon
  <2>2. CASE s # {}
    <3>1. Top(s) \in 1 .. n /\ it[s \ {Top(s)}] \in V
      BY <1>5, <2>2, Zenon
    <3> HIDE DEF V, G
    <3>. QED  BY <1>9, <2>1, <2>2, <3>1, Zenon
  <2>. QED  BY <2>1, <2>2, Zenon
<1>11. \A c \in Nat, i \in 1 .. n : G[<<c, i>>] = c + q[i] /\ G[<<c, i>>] \in Nat
  BY <1>4, <1>9, Zenon
<1> HIDE DEF V, G
<1>12. PICK h \in [0 .. n -> Nat] : History(h, G, start, n) /\ h[n] = it[1 .. n]
  <2>1. Keeps(G, Nat, n) /\ Unfolds(it, G, start, n)
    BY <1>10, <1>11, Zenon DEF Keeps, Unfolds
  <2>2. start \in Nat /\ n \in Nat
    BY <1>1, <1>4, Zenon
  <2>3. Iteration(Nat, start, n, G, it)
    BY <2>1, <2>2, Zenon DEF Iteration
  <2>. QED  BY <2>3, IterationHistory
<1>13. ASSUME NEW i \in 1 .. n PROVE h[i] = h[i - 1] + q[i]
  <2>1. i - 1 \in 0 .. n /\ h[i - 1] \in Nat
    BY <1>1
  <2>. QED  BY <1>11, <1>12, <2>1, Zenon DEF History
<1>. QED  BY <1>2, <1>12, <1>13, Zenon DEF n, History

\* Both partitions have answered: the count is that of the topic.
LEMMA BothAnswer ==
  ASSUME NEW a \in Nat, NEW b \in Nat
  PROVE  Bench!MessageCount(<<a, b>>, 2) = a + b
<1> DEFINE q == SubSeq(<<a, b>>, 1, 2)
<1>1. q \in Seq(Nat) /\ Len(q) = 2 /\ q[1] = a /\ q[2] = b
  OBVIOUS
<1>2. 2 # 0
  OBVIOUS
<1>3. Bench!MessageCount(<<a, b>>, 2) = Bench!FoldLeft(LAMBDA m, size : m + size, 0, q)
  BY <1>2, Zenon DEF Bench!MessageCount
<1> HIDE DEF q
<1>4. PICK h \in [0 .. Len(q) -> Nat] :
        /\ h[0] = 0 /\ h[Len(q)] = Bench!FoldLeft(LAMBDA m, size : m + size, 0, q)
        /\ \A i \in 1 .. Len(q) : h[i] = h[i - 1] + q[i]
  BY <1>1, SumHistory
<1>5. h[1] = a /\ h[2] = a + b
  <2>1. 1 \in 1 .. 2 /\ 2 \in 1 .. 2 /\ 1 - 1 = 0 /\ 2 - 1 = 1 /\ 0 + a = a
    OBVIOUS
  <2>2. h[1] = h[0] + a /\ h[2] = h[1] + b
    BY <1>1, <1>4, <2>1, Zenon
  <2>. QED  BY <1>4, <2>1, <2>2
<1>. QED  BY <1>1, <1>3, <1>4, <1>5 DEF q

LEMMA Received ==
  ASSUME BenchTypes, NEW k \in 0 .. Bench!Available, Bench!Receive(k)
  PROVE  /\ k \in Nat /\ pos' = pos + k /\ local' = local + k /\ pos + k <= Len(benchTopic)
         /\ k # 0 => assigned
         /\ seen \subseteq seen' /\ seen' \in SUBSET Int /\ dups' \in Nat /\ oor' \in Nat
         /\ mode = "scalar" =>
              \A i \in pos + 1 .. pos + k : benchTopic[i] \in InBitmap => benchTopic[i] \in seen'
<1>0. /\ pos \in Nat /\ local \in Nat /\ dups \in Nat /\ oor \in Nat /\ seen \in SUBSET Int
      /\ assigned \in BOOLEAN /\ benchTopic \in Seq(Int) /\ pos <= Len(benchTopic) /\ Len(benchTopic) \in Nat
  BY DEF BenchTypes
<1>1. k \in Nat /\ pos + k <= Len(benchTopic) /\ (k # 0 => assigned)
  BY <1>0 DEF Bench!Available
<1> DEFINE start == [seen |-> seen, dups |-> dups, oor |-> oor]
           q == SubSeq(benchTopic, pos + 1, pos + k)
           check == Bench!FoldLeft(Bench!Track, start, q)
<1>2. start \in Bitmap /\ start.seen = seen
  BY <1>0 DEF Bitmap
<1>3. q \in Seq(Int) /\ Len(q) = k /\ \A i \in 1 .. k : q[i] = benchTopic[pos + i]
  <2>1. \A i \in pos + 1 .. pos + k : benchTopic[i] \in Int
    <3>1. \A i \in pos + 1 .. pos + k : i \in 1 .. Len(benchTopic)
      BY <1>0, <1>1
    <3>. QED  BY <1>0, <3>1
  <2>2. pos + 1 \in Int /\ pos + k \in Int
    BY <1>0, <1>1
  <2>3. /\ q \in Seq(Int) /\ Len(q) = IF pos + 1 <= pos + k THEN (pos + k) - (pos + 1) + 1 ELSE 0
        /\ \A i \in 1 .. (pos + k) - (pos + 1) + 1 : q[i] = benchTopic[(pos + 1) + i - 1]
    BY <2>1, <2>2, SubSeqProperties
  <2>4. (IF pos + 1 <= pos + k THEN (pos + k) - (pos + 1) + 1 ELSE 0) = k /\ (pos + k) - (pos + 1) + 1 = k
    BY <1>0, <1>1
  <2>5. \A i \in 1 .. k : (pos + 1) + i - 1 = pos + i
    BY <1>0, <1>1
  <2>. QED  BY <2>3, <2>4, <2>5
<1>4. /\ pos' = pos + k /\ local' = local + k
      /\ mode = "scalar" => seen' = check.seen /\ dups' = check.dups /\ oor' = check.oor
      /\ mode # "scalar" => seen' = seen /\ dups' = dups /\ oor' = oor
  BY DEF Bench!Receive
<1> HIDE DEF start, q
<1>5. /\ check \in Bitmap /\ start.seen \subseteq check.seen
      /\ \A i \in 1 .. Len(q) : q[i] \in InBitmap => q[i] \in check.seen
  BY <1>2, <1>3, TrackGathers, Zenon
<1> HIDE DEF check
<1>6. check.seen \in SUBSET Int /\ check.dups \in Nat /\ check.oor \in Nat
  BY <1>5 DEF Bitmap
<1>7. seen \subseteq seen' /\ seen' \in SUBSET Int /\ dups' \in Nat /\ oor' \in Nat
  BY <1>0, <1>2, <1>4, <1>5, <1>6, Zenon
<1>8. ASSUME mode = "scalar", NEW i \in pos + 1 .. pos + k, benchTopic[i] \in InBitmap
      PROVE  benchTopic[i] \in seen'
  <2>1. i - pos \in 1 .. k /\ pos + (i - pos) = i
    BY <1>0, <1>1
  <2>2. q[i - pos] = benchTopic[i]
    BY <1>3, <2>1, Zenon
  <2>. QED  BY <1>3, <1>4, <1>5, <1>8, <2>1, <2>2, Zenon
<1>. QED  BY <1>1, <1>4, <1>7, <1>8, Zenon

LEMMA BenchTypesKept == BenchTypes /\ [Bench!Next]_(Bench!vars) => BenchTypes'
<1> SUFFICES ASSUME BenchTypes, [Bench!Next]_(Bench!vars) PROVE BenchTypes'
  OBVIOUS
<1> USE DEF Bench!mainVars, Bench!sharedVars, Bench!consumerVars, Bench!brokerVars, Bench!readerVars
<1>0. Bench!Sentinel \in Int /\ Len(benchTopic) \in Nat
  BY Room DEF BenchTypes
<1>1. ASSUME NEW k \in 0 .. Bench!Available, Bench!Receive(k)
      PROVE  /\ pos' \in 0 .. Len(benchTopic) /\ local' \in Nat
             /\ seen' \in SUBSET Int /\ dups' \in Nat /\ oor' \in Nat
  <2>1. k \in Nat /\ pos' = pos + k /\ local' = local + k /\ pos + k <= Len(benchTopic) /\ pos \in Nat /\ local \in Nat
    BY <1>1, Received DEF BenchTypes
  <2>2. seen' \in SUBSET Int /\ dups' \in Nat /\ oor' \in Nat
    BY <1>1, Received
  <2>. QED  BY <1>0, <2>1, <2>2
<1>2. ASSUME NEW x \in Int
      PROVE  /\ Append(benchTopic, x) \in Seq(Int) /\ Len(Append(benchTopic, x)) = Len(benchTopic) + 1
             /\ Append(queue, x) \in Seq(Int)
  BY DEF BenchTypes
<1>3. queue # <<>> => Head(queue) \in Int /\ Tail(queue) \in Seq(Int)
  BY DEF BenchTypes
<1>a1. CASE Bench!PreFlight
  BY <1>0, <1>a1 DEF BenchTypes, Bench!PreFlight
<1>a2. CASE Bench!CreateTopic
  BY <1>0, <1>a2 DEF BenchTypes, Bench!CreateTopic
<1>a3. CASE Bench!Create
  <2>1. CASE Bench!Warm
    BY <1>0, <1>2, <2>1, <1>a3 DEF BenchTypes, Bench!Create, Bench!Warm
  <2>2. CASE pc' = "abort" /\ Bench!TellToStop /\ UNCHANGED queue
    BY <1>0, <2>2, <1>a3 DEF BenchTypes, Bench!Create, Bench!TellToStop
  <2>. QED  BY <2>1, <2>2, <1>a3, Zenon DEF Bench!Create
<1>a4. CASE Bench!WarmUpUdt
  BY <1>0, <1>2, <1>a4 DEF BenchTypes, Bench!WarmUpUdt, Bench!Warm
<1>a5. CASE Bench!WarmedUp
  BY <1>0, <1>a5 DEF BenchTypes, Bench!WarmedUp
<1>a6. CASE Bench!ZeroCounters
  BY <1>0, <1>a6 DEF BenchTypes, Bench!ZeroCounters
<1>a7. CASE Bench!AskReset
  BY <1>0, <1>a7 DEF BenchTypes, Bench!AskReset
<1>a8. CASE Bench!Settle
  BY <1>0, <1>a8 DEF BenchTypes, Bench!Settle
<1>a9. CASE Bench!Produce
  <2>1. sent \in Int /\ sent + 1 \in Nat
    BY DEF BenchTypes
  <2>. QED  BY <1>0, <1>2, <2>1, <1>a9 DEF BenchTypes, Bench!Produce, Bench!SendNext
<1>a10. CASE Bench!ProduceUdt
  <2>1. sent \in Int /\ sent + 1 \in Nat
    BY DEF BenchTypes
  <2>. QED  BY <1>0, <1>2, <2>1, <1>a10 DEF BenchTypes, Bench!ProduceUdt, Bench!SendNext
<1>a11. CASE Bench!StopProducing
  BY <1>0, <1>a11 DEF BenchTypes, Bench!StopProducing
<1>a12. CASE Bench!Flush
  BY <1>0, <1>a12 DEF BenchTypes, Bench!Flush
<1>a13. CASE Bench!FlushUdt
  BY <1>0, <1>a13 DEF BenchTypes, Bench!FlushUdt, Bench!TellToStop
<1>a14. CASE Bench!StopWaiting
  BY <1>0, <1>a14 DEF BenchTypes, Bench!StopWaiting, Bench!TellToStop
<1>a15. CASE Bench!StopWaitingUdt
  BY <1>0, <1>a15 DEF BenchTypes, Bench!StopWaitingUdt
<1>a16. CASE Bench!Join
  BY <1>0, <1>a16 DEF BenchTypes, Bench!Join
<1>a17. CASE Bench!Verify
  <2>1. PICK n \in 0 .. Len(benchTopic) : readBack' = SubSeq(benchTopic, 1, n) /\ whole' = (n = Len(benchTopic))
    BY <1>a17 DEF Bench!Verify
  <2>2. SubSeq(benchTopic, 1, n) \in Seq(Int)
    BY <1>0 DEF BenchTypes
  <2>. QED  BY <2>1, <2>2, <1>a17 DEF BenchTypes, Bench!Verify
<1>a18. CASE Bench!Subscribe
  BY <1>0, <1>a18 DEF BenchTypes, Bench!Subscribe
<1>a19. CASE Bench!SubscribeFails
  BY <1>0, <1>a19 DEF BenchTypes, Bench!SubscribeFails
<1>a20. CASE Bench!Loop
  <2>1. CASE told
    BY <1>0, <2>1, <1>a20 DEF BenchTypes, Bench!Loop
  <2>2. CASE ~ told
    <3>1. local' \in Nat /\ reset' \in BOOLEAN /\ cpc' = "poll"
      <4>1. local' = (IF reset THEN 0 ELSE local) /\ reset' = FALSE /\ cpc' = "poll"
        BY <2>2, <1>a20, Zenon DEF Bench!Loop
      <4>2. local \in Nat /\ 0 \in Nat
        BY DEF BenchTypes
      <4>. QED  BY <4>1, <4>2, Zenon
    <3>2. /\ UNCHANGED <<mode, byCount, Bench!mainVars, recv, told, stopAt, seen, dups, oor, queue, benchTopic>>
          /\ UNCHANGED <<Bench!readerVars, late, clean>>
      BY <1>a20, Zenon DEF Bench!Loop
    <3>. QED  BY <1>0, <3>1, <3>2 DEF BenchTypes
  <2>. QED  BY <2>1, <2>2
<1>a21. CASE Bench!Poll
  <2>1. PICK k \in 0 .. Bench!Available : Bench!Receive(k)
    BY <1>a21 DEF Bench!Poll
  <2>2. /\ pos' \in 0 .. Len(benchTopic) /\ local' \in Nat
        /\ seen' \in SUBSET Int /\ dups' \in Nat /\ oor' \in Nat
    BY <1>1, <2>1
  <2>. QED  BY <2>2, <1>a21 DEF BenchTypes, Bench!Poll
<1>a22. CASE Bench!Publish
  BY <1>0, <1>a22 DEF BenchTypes, Bench!Publish
<1>a23. CASE Bench!FinalPoll
  <2>1. PICK k \in 0 .. Bench!Available :
          /\ Bench!Receive(k)
          /\ IF k > 0 THEN recv' = local' /\ UNCHANGED cpc
             ELSE UNCHANGED recv /\ (cpc' = "finish" \/ UNCHANGED cpc)
          /\ late' = (late \/ (k = 0 /\ pos < Len(benchTopic)))
    BY <1>a23 DEF Bench!FinalPoll
  <2>2. /\ pos' \in 0 .. Len(benchTopic) /\ local' \in Nat
        /\ seen' \in SUBSET Int /\ dups' \in Nat /\ oor' \in Nat
    BY <1>1, <2>1
  <2>3. /\ recv' \in Nat /\ late' \in BOOLEAN
        /\ cpc' \in {"off", "subscribe", "loop", "poll", "publish", "final", "finish", "done"}
    BY <2>1, <2>2 DEF BenchTypes
  <2>4. /\ UNCHANGED <<mode, byCount, pc, sent, total, readBack, whole, told, reset, stopAt, queue, benchTopic>>
        /\ UNCHANGED <<assigned, joins, clean>>
    BY <1>a23 DEF Bench!FinalPoll
  <2>. QED  BY <2>2, <2>3, <2>4 DEF BenchTypes
<1>a24. CASE Bench!FinalDeadline
  BY <1>0, <1>a24 DEF BenchTypes, Bench!FinalDeadline
<1>a25. CASE Bench!Finish
  BY <1>0, <1>a25 DEF BenchTypes, Bench!Finish
<1>a26. CASE Bench!Deliver
  BY <1>0, <1>2, <1>3, <1>a26 DEF BenchTypes, Bench!Deliver
<1>a27. CASE Bench!Lose
  BY <1>0, <1>3, <1>a27 DEF BenchTypes, Bench!Lose
<1>a28. CASE Bench!Repeat
  <2>1. Bench!Last(benchTopic) \in Int
    BY <1>a28 DEF BenchTypes, Bench!Repeat, Bench!Last
  <2>. QED  BY <1>0, <1>2, <2>1, <1>a28 DEF BenchTypes, Bench!Repeat
<1>a29. CASE Bench!Assign
  BY <1>0, <1>a29 DEF BenchTypes, Bench!Assign
<1>a30. CASE Bench!LoseAssignment
  <2>1. assigned' \in BOOLEAN
    BY <1>a30, Zenon DEF Bench!LoseAssignment
  <2>2. /\ UNCHANGED <<mode, byCount, Bench!mainVars, Bench!sharedVars, Bench!consumerVars, queue, benchTopic, pos>>
        /\ UNCHANGED <<joins, late, clean>>
    BY <1>a30, Zenon DEF Bench!LoseAssignment
  <2>. QED  BY <1>0, <2>1, <2>2 DEF BenchTypes
<1>a31. CASE UNCHANGED Bench!vars
  BY <1>0, <1>a31 DEF BenchTypes, Bench!vars
<1>. QED
  BY <1>a1, <1>a2, <1>a3, <1>a4, <1>a5, <1>a6, <1>a7, <1>a8, <1>a9, <1>a10, <1>a11, <1>a12, <1>a13,
     <1>a14, <1>a15, <1>a16, <1>a17, <1>a18, <1>a19, <1>a20, <1>a21, <1>a22, <1>a23, <1>a24, <1>a25,
     <1>a26, <1>a27, <1>a28, <1>a29, <1>a30, <1>a31 DEF Bench!Next

LEMMA RunNumbersKept ==
  BenchTypes /\ RunNumbers /\ [Bench!Next]_(Bench!vars) => RunNumbers'
<1> SUFFICES ASSUME BenchTypes, RunNumbers, [Bench!Next]_(Bench!vars) PROVE RunNumbers'
  OBVIOUS
<1> USE DEF Bench!mainVars, Bench!sharedVars, Bench!consumerVars, Bench!brokerVars, Bench!readerVars
<1>0. sent' = sent => Numbers' = Numbers
  BY DEF Numbers
<1>1. Bench!Sentinel \in Numbers /\ sent \in Nat
  BY DEF BenchTypes, Numbers
<1>a1. CASE Bench!PreFlight
  <2>1. PICK first \in 0 .. Len(benchTopic), answers \in 0 .. 2 :
          /\ pc' = IF Bench!Refuses(Bench!MessageCount(<<first, Len(benchTopic) - first>>, answers)) THEN "done" ELSE "topic"
          /\ clean' = (benchTopic = <<>> \/ answers = 2)
    BY <1>a1, Zenon DEF Bench!PreFlight
  <2>2. pc = "preflight" /\ UNCHANGED <<sent, total, readBack, whole, cpc, queue, benchTopic>>
    BY <1>a1 DEF Bench!PreFlight
  <2>3. ASSUME clean', pc' = "topic" PROVE benchTopic = <<>>
    <3>1. CASE answers = 2
      <4>1. Len(benchTopic) \in Nat /\ first \in Nat /\ Len(benchTopic) - first \in Nat
            /\ first + (Len(benchTopic) - first) = Len(benchTopic)
        BY DEF BenchTypes
      <4>2. Bench!MessageCount(<<first, Len(benchTopic) - first>>, 2) = Len(benchTopic)
        BY <4>1, BothAnswer, Zenon
      <4>3. ~ Bench!Refuses(Len(benchTopic))
        <5>1. "topic" # "done"
          OBVIOUS
        <5>. QED  BY <2>1, <2>3, <3>1, <4>2, <5>1, Zenon
      <4>4. Len(benchTopic) = 0
        BY <4>1, <4>3 DEF Bench!Refuses
      <4>. QED  BY <4>4 DEF BenchTypes
    <3>. QED  BY <2>1, <2>3, <3>1, Zenon
  <2>4. cpc = "off" /\ ~ whole /\ pc' \in {"done", "topic"}
    BY <2>1, <2>2 DEF RunNumbers
  <2>. QED  BY <1>0, <2>2, <2>3, <2>4 DEF RunNumbers
<1>a2. CASE Bench!CreateTopic
  <2>1. /\ pc = "topic" /\ UNCHANGED <<sent, total, readBack, whole, queue, benchTopic, clean>>
        /\ \/ pc' = "create" /\ cpc' = "subscribe"
           \/ pc' = "done" /\ cpc' = cpc
    BY <1>a2 DEF Bench!CreateTopic
  <2>2. cpc = "off" /\ ~ whole /\ queue = <<>> /\ <<>> \in Seq(Numbers)
    BY <2>1 DEF RunNumbers
  <2>. QED  BY <1>0, <2>1, <2>2 DEF RunNumbers
<1>a3. CASE Bench!Create
  <2>1. CASE Bench!Warm
    <3>1. /\ pc = "create" /\ pc' = "await" /\ queue' = Append(queue, Bench!Sentinel)
          /\ UNCHANGED <<sent, total, readBack, whole, cpc, benchTopic, clean>>
      BY <2>1, <1>a3 DEF Bench!Create, Bench!Warm, Bench!TellToStop
    <3>2. queue \in Seq(Numbers) => Append(queue, Bench!Sentinel) \in Seq(Numbers)
      BY <1>1
    <3>. QED  BY <1>0, <3>1, <3>2 DEF RunNumbers
  <2>2. CASE pc' = "abort" /\ Bench!TellToStop /\ UNCHANGED queue
    <3>1. pc = "create" /\ pc' = "abort" /\ UNCHANGED <<sent, total, readBack, whole, cpc, queue, benchTopic, clean>>
      BY <2>2, <1>a3 DEF Bench!Create
    <3>. QED  BY <1>0, <3>1 DEF RunNumbers
  <2>. QED  BY <2>1, <2>2, <1>a3, Zenon DEF Bench!Create
<1>a4. CASE Bench!WarmUpUdt
  <2>1. CASE Bench!Warm
    <3>1. /\ pc = "create" /\ pc' = "await" /\ queue' = Append(queue, Bench!Sentinel)
          /\ UNCHANGED <<sent, total, readBack, whole, cpc, benchTopic, clean>>
      BY <2>1, <1>a4 DEF Bench!WarmUpUdt, Bench!Warm
    <3>2. queue \in Seq(Numbers) => Append(queue, Bench!Sentinel) \in Seq(Numbers)
      BY <1>1
    <3>. QED  BY <1>0, <3>1, <3>2 DEF RunNumbers
  <2>. QED  BY <2>1, <1>a4, Zenon DEF Bench!WarmUpUdt
<1>a5. CASE Bench!WarmedUp
  BY <1>0, <1>a5 DEF RunNumbers, Bench!WarmedUp
<1>a6. CASE Bench!ZeroCounters
  <2>1. sent' = sent
    BY <1>a6 DEF Bench!ZeroCounters, RunNumbers
  <2>. QED  BY <1>0, <2>1, <1>a6 DEF RunNumbers, Bench!ZeroCounters
<1>a7. CASE Bench!AskReset
  BY <1>0, <1>a7 DEF RunNumbers, Bench!AskReset
<1>a8. CASE Bench!Settle
  BY <1>0, <1>a8 DEF RunNumbers, Bench!Settle
<1>a9. CASE Bench!Produce
  <2>1. /\ pc = "produce" /\ queue' = Append(queue, sent) /\ sent' = sent + 1
        /\ UNCHANGED <<pc, total, readBack, whole, cpc, benchTopic, clean>>
    BY <1>a9 DEF Bench!Produce, Bench!SendNext
  <2>2. Numbers \subseteq Numbers' /\ sent \in Numbers'
    BY <1>1, <2>1 DEF Numbers
  <2>3. queue \in Seq(Numbers) => Append(queue, sent) \in Seq(Numbers')
    BY <2>2
  <2>4. benchTopic \in Seq(Numbers) => benchTopic \in Seq(Numbers')
    BY <2>2
  <2>. QED  BY <2>1, <2>3, <2>4 DEF RunNumbers
<1>a10. CASE Bench!ProduceUdt
  <2>1. /\ pc = "produce" /\ queue' = Append(queue, sent) /\ sent' = sent + 1
        /\ UNCHANGED <<pc, total, readBack, whole, cpc, benchTopic, clean>>
    BY <1>a10 DEF Bench!ProduceUdt, Bench!SendNext
  <2>2. Numbers \subseteq Numbers' /\ sent \in Numbers'
    BY <1>1, <2>1 DEF Numbers
  <2>3. queue \in Seq(Numbers) => Append(queue, sent) \in Seq(Numbers')
    BY <2>2
  <2>4. benchTopic \in Seq(Numbers) => benchTopic \in Seq(Numbers')
    BY <2>2
  <2>. QED  BY <2>1, <2>3, <2>4 DEF RunNumbers
<1>a11. CASE Bench!StopProducing
  BY <1>0, <1>a11 DEF RunNumbers, Bench!StopProducing
<1>a12. CASE Bench!Flush
  BY <1>0, <1>a12 DEF RunNumbers, Bench!Flush
<1>a13. CASE Bench!FlushUdt
  BY <1>0, <1>a13 DEF RunNumbers, Bench!FlushUdt, Bench!TellToStop
<1>a14. CASE Bench!StopWaiting
  BY <1>0, <1>a14 DEF RunNumbers, Bench!StopWaiting, Bench!TellToStop
<1>a15. CASE Bench!StopWaitingUdt
  BY <1>0, <1>a15 DEF RunNumbers, Bench!StopWaitingUdt
<1>a16. CASE Bench!Join
  BY <1>0, <1>a16 DEF RunNumbers, Bench!Join
<1>a17. CASE Bench!Verify
  <2>1. PICK n \in 0 .. Len(benchTopic) : readBack' = SubSeq(benchTopic, 1, n)
    BY <1>a17 DEF Bench!Verify
  <2>2. pc = "verify" /\ pc' = "done" /\ UNCHANGED <<sent, total, cpc, queue, benchTopic, clean>>
    BY <1>a17 DEF Bench!Verify
  <2>3. benchTopic \in Seq(Numbers) => SubSeq(benchTopic, 1, n) \in Seq(Numbers)
    BY DEF BenchTypes
  <2>. QED  BY <1>0, <2>1, <2>2, <2>3 DEF RunNumbers
<1>a18. CASE Bench!Subscribe
  BY <1>0, <1>a18 DEF RunNumbers, Bench!Subscribe
<1>a19. CASE Bench!SubscribeFails
  BY <1>0, <1>a19 DEF RunNumbers, Bench!SubscribeFails
<1>a20. CASE Bench!Loop
  BY <1>0, <1>a20 DEF RunNumbers, Bench!Loop
<1>a21. CASE Bench!Poll
  BY <1>0, <1>a21 DEF RunNumbers, Bench!Poll
<1>a22. CASE Bench!Publish
  BY <1>0, <1>a22 DEF RunNumbers, Bench!Publish
<1>a23. CASE Bench!FinalPoll
  BY <1>0, <1>a23 DEF RunNumbers, Bench!FinalPoll
<1>a24. CASE Bench!FinalDeadline
  BY <1>0, <1>a24 DEF RunNumbers, Bench!FinalDeadline
<1>a25. CASE Bench!Finish
  BY <1>0, <1>a25 DEF RunNumbers, Bench!Finish
<1>a26. CASE Bench!Deliver
  <2>1. /\ queue # <<>> /\ benchTopic' = Append(benchTopic, Head(queue)) /\ queue' = Tail(queue)
        /\ UNCHANGED <<pc, sent, total, readBack, whole, cpc, clean>>
    BY <1>a26 DEF Bench!Deliver
  <2>2. queue \in Seq(Numbers) /\ benchTopic \in Seq(Numbers) =>
          Tail(queue) \in Seq(Numbers) /\ Append(benchTopic, Head(queue)) \in Seq(Numbers)
    BY <2>1
  <2>3. cpc # "off" /\ pc # "topic"
    BY <2>1 DEF RunNumbers
  <2>. QED  BY <1>0, <2>1, <2>2, <2>3 DEF RunNumbers
<1>a27. CASE Bench!Lose
  <2>1. queue # <<>> /\ queue' = Tail(queue) /\ UNCHANGED <<pc, sent, total, readBack, whole, cpc, clean, benchTopic>>
    BY <1>a27 DEF Bench!Lose
  <2>2. queue \in Seq(Numbers) => Tail(queue) \in Seq(Numbers)
    BY <2>1
  <2>3. cpc # "off"
    BY <2>1 DEF RunNumbers
  <2>. QED  BY <1>0, <2>1, <2>2, <2>3 DEF RunNumbers
<1>a28. CASE Bench!Repeat
  <2>1. /\ benchTopic # <<>> /\ benchTopic' = Append(benchTopic, Bench!Last(benchTopic))
        /\ UNCHANGED <<pc, sent, total, readBack, whole, cpc, clean, queue>>
    BY <1>a28 DEF Bench!Repeat
  <2>2. benchTopic \in Seq(Numbers) => Append(benchTopic, Bench!Last(benchTopic)) \in Seq(Numbers)
    BY <2>1 DEF Bench!Last
  <2>. QED  BY <1>0, <2>1, <2>2 DEF RunNumbers
<1>a29. CASE Bench!Assign
  BY <1>0, <1>a29 DEF RunNumbers, Bench!Assign
<1>a30. CASE Bench!LoseAssignment
  BY <1>0, <1>a30 DEF RunNumbers, Bench!LoseAssignment
<1>a31. CASE UNCHANGED Bench!vars
  BY <1>0, <1>a31 DEF RunNumbers, Bench!vars
<1>. QED
  BY <1>a1, <1>a2, <1>a3, <1>a4, <1>a5, <1>a6, <1>a7, <1>a8, <1>a9, <1>a10, <1>a11, <1>a12, <1>a13,
     <1>a14, <1>a15, <1>a16, <1>a17, <1>a18, <1>a19, <1>a20, <1>a21, <1>a22, <1>a23, <1>a24, <1>a25,
     <1>a26, <1>a27, <1>a28, <1>a29, <1>a30, <1>a31 DEF Bench!Next

LEMMA ConsumerReadsKept ==
  BenchTypes /\ ConsumerReads /\ ConsumerCounts /\ [Bench!Next]_(Bench!vars) => ConsumerReads'
<1> SUFFICES ASSUME BenchTypes, ConsumerReads, ConsumerCounts, [Bench!Next]_(Bench!vars) PROVE ConsumerReads'
  OBVIOUS
<1> USE DEF Bench!mainVars, Bench!sharedVars, Bench!consumerVars, Bench!brokerVars, Bench!readerVars
<1>0. byCount' = byCount => InBitmap' = InBitmap
  BY DEF InBitmap, Bench!SeqCapacity
<1>1. ASSUME NEW k \in 0 .. Bench!Available, Bench!Receive(k), mode = "scalar", Gathered(pos),
             byCount' = byCount, benchTopic' = benchTopic
      PROVE  Gathered(pos)'
  <2>1. k \in Nat /\ pos' = pos + k /\ pos \in Nat /\ seen \subseteq seen'
    BY <1>1, Received DEF BenchTypes
  <2>2. \A i \in pos + 1 .. pos + k : benchTopic[i] \in InBitmap => benchTopic[i] \in seen'
    BY <1>1, Received
  <2>3. \A i \in 1 .. pos' : i \in 1 .. pos \/ i \in pos + 1 .. pos + k
    BY <2>1
  <2>4. InBitmap' = InBitmap
    BY <1>0, <1>1
  <2>. QED  BY <1>1, <2>1, <2>2, <2>3, <2>4, Zenon DEF Gathered
<1>2. pos \in Nat /\ stopAt \in Nat /\ pos <= Len(benchTopic) /\ stopAt <= Len(benchTopic) /\ Len(benchTopic) \in Nat
  BY DEF BenchTypes
<1>a1. CASE Bench!PreFlight
  BY <1>0, <1>a1 DEF ConsumerReads, Gathered, Bench!PreFlight
<1>a2. CASE Bench!CreateTopic
  BY <1>0, <1>a2 DEF ConsumerReads, Gathered, Bench!CreateTopic
<1>a3. CASE Bench!Create
  BY <1>0, <1>a3 DEF ConsumerReads, Gathered, Bench!Create, Bench!Warm, Bench!TellToStop
<1>a4. CASE Bench!WarmUpUdt
  BY <1>0, <1>a4 DEF ConsumerReads, Gathered, Bench!WarmUpUdt, Bench!Warm
<1>a5. CASE Bench!WarmedUp
  BY <1>0, <1>a5 DEF ConsumerReads, Gathered, Bench!WarmedUp
<1>a6. CASE Bench!ZeroCounters
  BY <1>0, <1>a6 DEF ConsumerReads, Gathered, Bench!ZeroCounters
<1>a7. CASE Bench!AskReset
  BY <1>0, <1>a7 DEF ConsumerReads, Gathered, Bench!AskReset
<1>a8. CASE Bench!Settle
  BY <1>0, <1>a8 DEF ConsumerReads, Gathered, Bench!Settle
<1>a9. CASE Bench!Produce
  BY <1>0, <1>a9 DEF ConsumerReads, Gathered, Bench!Produce, Bench!SendNext
<1>a10. CASE Bench!ProduceUdt
  BY <1>0, <1>a10 DEF ConsumerReads, Gathered, Bench!ProduceUdt, Bench!SendNext
<1>a11. CASE Bench!StopProducing
  BY <1>0, <1>a11 DEF ConsumerReads, Gathered, Bench!StopProducing
<1>a12. CASE Bench!Flush
  BY <1>0, <1>a12 DEF ConsumerReads, Gathered, Bench!Flush
<1>a13. CASE Bench!FlushUdt
  BY <1>0, <1>a13 DEF ConsumerReads, Gathered, Bench!FlushUdt, Bench!TellToStop
<1>a14. CASE Bench!StopWaiting
  BY <1>0, <1>a14 DEF ConsumerReads, Gathered, Bench!StopWaiting, Bench!TellToStop
<1>a15. CASE Bench!StopWaitingUdt
  BY <1>0, <1>a15 DEF ConsumerReads, Gathered, Bench!StopWaitingUdt
<1>a16. CASE Bench!Join
  BY <1>0, <1>a16 DEF ConsumerReads, Gathered, Bench!Join
<1>a17. CASE Bench!Verify
  BY <1>0, <1>a17 DEF ConsumerReads, Gathered, Bench!Verify
<1>a18. CASE Bench!Subscribe
  BY <1>0, <1>a18 DEF ConsumerReads, Gathered, Bench!Subscribe
<1>a19. CASE Bench!SubscribeFails
  BY <1>0, <1>a19 DEF ConsumerReads, Gathered, Bench!SubscribeFails
<1>a20. CASE Bench!Loop
  BY <1>0, <1>a20 DEF ConsumerReads, Gathered, Bench!Loop
<1>a21. CASE Bench!Poll
  <2>1. PICK k \in 0 .. Bench!Available : Bench!Receive(k)
    BY <1>a21 DEF Bench!Poll
  <2>2. /\ cpc' = "publish" /\ UNCHANGED <<mode, byCount, pc, recv, told, stopAt, benchTopic, joins, late>>
    BY <1>a21 DEF Bench!Poll
  <2>3. mode = "scalar" => Gathered(pos)'
    BY <1>1, <2>1, <2>2 DEF ConsumerReads
  <2>4. told' /\ ~ late' => pc' \in {"abort", "join", "verify", "done"} \/ (pc' = "drain" /\ mode' = "udt")
    BY <2>2 DEF ConsumerReads
  <2>. QED  BY <2>2, <2>3, <2>4 DEF ConsumerReads
<1>a22. CASE Bench!Publish
  BY <1>0, <1>a22 DEF ConsumerReads, Gathered, Bench!Publish
<1>a23. CASE Bench!FinalPoll
  <2>1. PICK k \in 0 .. Bench!Available :
          /\ Bench!Receive(k)
          /\ IF k > 0 THEN UNCHANGED cpc ELSE cpc' = "finish" \/ UNCHANGED cpc
          /\ late' = (late \/ (k = 0 /\ pos < Len(benchTopic)))
    BY <1>a23 DEF Bench!FinalPoll
  <2>2. /\ cpc = "final" /\ UNCHANGED <<mode, byCount, pc, told, stopAt, benchTopic, joins>>
    BY <1>a23 DEF Bench!FinalPoll
  <2>3. mode = "scalar" => Gathered(pos)'
    BY <1>1, <2>1, <2>2 DEF ConsumerReads
  <2>4. told' /\ ~ late' => pc' \in {"abort", "join", "verify", "done"} \/ (pc' = "drain" /\ mode' = "udt")
    BY <2>1, <2>2 DEF ConsumerReads
  <2>5. cpc' \in {"final", "finish"} /\ (~ late' => told')
    BY <2>1, <2>2 DEF ConsumerReads
  <2>6. cpc' = "finish" /\ ~ late' => pos' >= stopAt'
    <3>1. pos' = pos + k /\ k \in Nat
      BY <2>1, Received
    <3>2. cpc' = "finish" /\ ~ late' => k = 0 /\ ~ (pos < Len(benchTopic))
      <4>1. cpc' = "finish" => ~ (k > 0)
        BY <2>1, <2>2
      <4>2. cpc' = "finish" => k = 0
        BY <3>1, <4>1
      <4>. QED  BY <2>1, <4>2, Zenon
    <3>. QED  BY <2>2, <3>1, <3>2 DEF BenchTypes
  <2>7. pos' \in Nat
    <3>1. pos' = pos + k /\ k \in Nat
      BY <2>1, Received
    <3>. QED  BY <1>2, <3>1
  <2>8. mode = "scalar" /\ pos' >= stopAt' => Gathered(stopAt)'
    BY <1>2, <2>2, <2>3, <2>7 DEF Gathered
  <2>. QED  BY <2>2, <2>3, <2>4, <2>5, <2>6, <2>8 DEF ConsumerReads
<1>a24. CASE Bench!FinalDeadline
  <2>1. /\ cpc = "final" /\ cpc' = "finish" /\ late' = (late \/ pos < Len(benchTopic))
        /\ UNCHANGED <<mode, byCount, pc, told, stopAt, benchTopic, joins, seen, pos>>
    BY <1>a24, Zenon DEF Bench!FinalDeadline
  <2>2. mode = "scalar" => Gathered(pos)'
    BY <1>0, <2>1 DEF ConsumerReads, Gathered
  <2>3. told' /\ ~ late' => pc' \in {"abort", "join", "verify", "done"} \/ (pc' = "drain" /\ mode' = "udt")
    BY <2>1 DEF ConsumerReads
  <2>4. ~ late' => told' /\ pos' >= stopAt'
    BY <2>1 DEF ConsumerReads, BenchTypes
  <2>5. mode = "scalar" /\ pos' >= stopAt' => Gathered(stopAt)'
    BY <2>1, <2>2, <1>2 DEF Gathered
  <2>. QED  BY <2>1, <2>2, <2>3, <2>4, <2>5 DEF ConsumerReads
<1>a25. CASE Bench!Finish
  BY <1>0, <1>a25 DEF ConsumerReads, Gathered, Bench!Finish
<1>a26. CASE Bench!Deliver
  <2>1. /\ \E x : benchTopic' = Append(benchTopic, x)
        /\ UNCHANGED <<mode, byCount, pc, recv, local, told, stopAt, joins, seen, pos, cpc, late>>
    BY <1>a26 DEF Bench!Deliver
  <2>2. \A i \in 1 .. Len(benchTopic) : benchTopic'[i] = benchTopic[i]
    BY <2>1 DEF BenchTypes
  <2>3. (Gathered(pos) => Gathered(pos)') /\ (Gathered(stopAt) => Gathered(stopAt)')
    BY <1>0, <1>2, <2>1, <2>2 DEF Gathered
  <2>. QED  BY <2>1, <2>3 DEF ConsumerReads
<1>a27. CASE Bench!Lose
  BY <1>0, <1>a27 DEF ConsumerReads, Gathered, Bench!Lose
<1>a28. CASE Bench!Repeat
  <2>1. /\ \E x : benchTopic' = Append(benchTopic, x)
        /\ UNCHANGED <<mode, byCount, pc, recv, local, told, stopAt, joins, seen, pos, cpc, late>>
    BY <1>a28 DEF Bench!Repeat, Bench!Last
  <2>2. \A i \in 1 .. Len(benchTopic) : benchTopic'[i] = benchTopic[i]
    BY <2>1 DEF BenchTypes
  <2>3. (Gathered(pos) => Gathered(pos)') /\ (Gathered(stopAt) => Gathered(stopAt)')
    BY <1>0, <1>2, <2>1, <2>2 DEF Gathered
  <2>. QED  BY <2>1, <2>3 DEF ConsumerReads
<1>a29. CASE Bench!Assign
  <2>1. /\ pos' = 0 /\ joins' = joins + 1 /\ cpc # "done"
        /\ UNCHANGED <<mode, byCount, pc, recv, local, told, stopAt, seen, cpc, late, benchTopic>>
    BY <1>a29 DEF Bench!Assign
  <2>2. Gathered(pos)' /\ (Gathered(stopAt) => Gathered(stopAt)')
    BY <1>0, <2>1 DEF Gathered
  <2>3. joins' <= 1 => joins = 0 /\ pos = 0
    BY <2>1 DEF BenchTypes, ConsumerCounts
  <2>4. cpc' \in {"finish", "done"} /\ ~ late' /\ joins' <= 1 => pos' >= stopAt'
    BY <2>1, <2>3 DEF ConsumerReads
  <2>. QED  BY <2>1, <2>2, <2>4 DEF ConsumerReads
<1>a30. CASE Bench!LoseAssignment
  BY <1>0, <1>a30 DEF ConsumerReads, Gathered, Bench!LoseAssignment
<1>a31. CASE UNCHANGED Bench!vars
  BY <1>0, <1>a31 DEF ConsumerReads, Gathered, Bench!vars
<1>. QED
  BY <1>a1, <1>a2, <1>a3, <1>a4, <1>a5, <1>a6, <1>a7, <1>a8, <1>a9, <1>a10, <1>a11, <1>a12, <1>a13,
     <1>a14, <1>a15, <1>a16, <1>a17, <1>a18, <1>a19, <1>a20, <1>a21, <1>a22, <1>a23, <1>a24, <1>a25,
     <1>a26, <1>a27, <1>a28, <1>a29, <1>a30, <1>a31 DEF Bench!Next

LEMMA ConsumerCountsKept ==
  BenchInv /\ [Bench!Next]_(Bench!vars) => ConsumerCounts'
<1> SUFFICES ASSUME BenchTypes, RunNumbers, ConsumerReads, ConsumerCounts, [Bench!Next]_(Bench!vars)
             PROVE  ConsumerCounts'
  BY DEF BenchInv
<1> USE DEF Bench!mainVars, Bench!sharedVars, Bench!consumerVars, Bench!brokerVars, Bench!readerVars
<1>1. \A base : UNCHANGED <<pos, local, benchTopic>> => (CountsSince(base)' <=> CountsSince(base))
  BY DEF CountsSince
<1>2. /\ pos \in Nat /\ local \in Nat /\ recv \in Nat /\ joins \in Nat /\ Len(benchTopic) \in Nat
      /\ pos <= Len(benchTopic) /\ reset \in BOOLEAN /\ late \in BOOLEAN /\ clean \in BOOLEAN
  BY DEF BenchTypes
<1>3. ASSUME NEW k \in 0 .. Bench!Available, Bench!Receive(k),
             UNCHANGED <<pc, total, reset, joins, assigned, benchTopic, clean>>, late => late',
             recv' = recv \/ recv' = local'
      PROVE  ConsumerCounts'
  <2>1. k \in Nat /\ pos' = pos + k /\ local' = local + k /\ (k # 0 => assigned)
    BY <1>3, Received
  <2>2. joins' = 0 => pos' = 0 /\ local' = 0 /\ recv' = 0 /\ ~ assigned'
    <3>1. joins = 0 => k = 0
      BY <2>1 DEF ConsumerCounts
    <3>. QED  BY <1>2, <1>3, <2>1, <3>1 DEF ConsumerCounts
  <2>3. joins' <= 1 => recv' <= pos' /\ local' <= pos'
    BY <1>2, <1>3, <2>1 DEF ConsumerCounts
  <2>4. HasWarmedUp' /\ ~ late' /\ joins' <= 1 => pos' >= 1
    BY <1>2, <1>3, <2>1 DEF ConsumerCounts, HasWarmedUp
  <2>5. reset' /\ ~ late' => pc' = "settle"
    BY <1>3 DEF ConsumerCounts
  <2>6. ASSUME HasReset', clean', ~ late', joins' = 1 PROVE \E base \in 1 .. pos' : CountsSince(base)'
    <3>1. HasReset /\ clean /\ ~ late /\ joins = 1
      BY <1>3, <2>6 DEF HasReset
    <3>2. PICK base \in 1 .. pos : CountsSince(base)
      BY <3>1 DEF ConsumerCounts
    <3>3. CountsSince(base)' /\ base \in 1 .. pos'
      BY <1>2, <1>3, <2>1, <3>2 DEF CountsSince
    <3>. QED  BY <3>3
  <2>. QED  BY <2>2, <2>3, <2>4, <2>5, <2>6 DEF ConsumerCounts
<1>a1. CASE Bench!PreFlight
  <2>1. /\ pc = "preflight" /\ pc' \in {"done", "topic"} /\ UNCHANGED <<reset, late, joins, pos, local, recv, assigned, total>>
    BY <1>a1 DEF Bench!PreFlight
  <2>2. total' = 0
    BY <2>1 DEF RunNumbers
  <2>3. ~ HasWarmedUp' /\ ~ HasReset'
    BY <2>1, <2>2 DEF HasWarmedUp, HasReset
  <2>. QED  BY <2>1, <2>3 DEF ConsumerCounts
<1>a2. CASE Bench!CreateTopic
  BY <1>1, <1>a2 DEF ConsumerCounts, HasWarmedUp, HasReset, Bench!CreateTopic
<1>a3. CASE Bench!Create
  BY <1>1, <1>a3 DEF ConsumerCounts, HasWarmedUp, HasReset, Bench!Create, Bench!Warm, Bench!TellToStop
<1>a4. CASE Bench!WarmUpUdt
  BY <1>1, <1>a4 DEF ConsumerCounts, HasWarmedUp, HasReset, Bench!WarmUpUdt, Bench!Warm
<1>a5. CASE Bench!WarmedUp
  <2>1. /\ pc = "await" /\ pc' = "zero" /\ late' = (late \/ recv = 0)
        /\ UNCHANGED <<reset, clean, joins, pos, local, recv, assigned, total, benchTopic>>
    BY <1>a5, Zenon DEF Bench!WarmedUp
  <2>2. total = 0
    BY <2>1 DEF RunNumbers
  <2>3. ~ HasReset'
    BY <2>1, <2>2 DEF HasReset
  <2>4. ~ late' /\ joins' <= 1 => pos' >= 1
    <3>1. ~ late' => recv # 0 /\ ~ late
      BY <2>1, Zenon
    <3>2. joins <= 1 => recv <= pos
      BY DEF ConsumerCounts
    <3>3. recv # 0 /\ recv <= pos => pos >= 1
      BY <1>2
    <3>4. joins' = joins /\ pos' = pos
      BY <2>1
    <3>. QED  BY <3>1, <3>2, <3>3, <3>4, Zenon
  <2>. QED  BY <2>1, <2>3, <2>4 DEF ConsumerCounts
<1>a6. CASE Bench!ZeroCounters
  <2>1. /\ pc = "zero" /\ pc' = "ask" /\ recv' = 0
        /\ UNCHANGED <<reset, clean, joins, pos, local, late, assigned, total, benchTopic>>
    BY <1>a6 DEF Bench!ZeroCounters
  <2>2. total = 0
    BY <2>1 DEF RunNumbers
  <2>3. ~ HasReset' /\ (HasWarmedUp' => HasWarmedUp)
    BY <2>1, <2>2 DEF HasReset, HasWarmedUp
  <2>. QED  BY <1>2, <2>1, <2>3 DEF ConsumerCounts
<1>a7. CASE Bench!AskReset
  BY <1>1, <1>a7 DEF ConsumerCounts, HasWarmedUp, HasReset, Bench!AskReset
<1>a8. CASE Bench!Settle
  BY <1>1, <1>a8 DEF ConsumerCounts, HasWarmedUp, HasReset, Bench!Settle
<1>a9. CASE Bench!Produce
  BY <1>1, <1>a9 DEF ConsumerCounts, HasWarmedUp, HasReset, Bench!Produce, Bench!SendNext
<1>a10. CASE Bench!ProduceUdt
  BY <1>1, <1>a10 DEF ConsumerCounts, HasWarmedUp, HasReset, Bench!ProduceUdt, Bench!SendNext
<1>a11. CASE Bench!StopProducing
  BY <1>1, <1>a11 DEF ConsumerCounts, HasWarmedUp, HasReset, Bench!StopProducing
<1>a12. CASE Bench!Flush
  BY <1>1, <1>a12 DEF ConsumerCounts, HasWarmedUp, HasReset, Bench!Flush
<1>a13. CASE Bench!FlushUdt
  BY <1>1, <1>a13 DEF ConsumerCounts, HasWarmedUp, HasReset, Bench!FlushUdt, Bench!TellToStop
<1>a14. CASE Bench!StopWaiting
  BY <1>1, <1>a14 DEF ConsumerCounts, HasWarmedUp, HasReset, Bench!StopWaiting, Bench!TellToStop
<1>a15. CASE Bench!StopWaitingUdt
  BY <1>1, <1>a15 DEF ConsumerCounts, HasWarmedUp, HasReset, Bench!StopWaitingUdt
<1>a16. CASE Bench!Join
  BY <1>1, <1>a16 DEF ConsumerCounts, HasWarmedUp, HasReset, Bench!Join
<1>a17. CASE Bench!Verify
  BY <1>1, <1>a17 DEF ConsumerCounts, HasWarmedUp, HasReset, Bench!Verify
<1>a18. CASE Bench!Subscribe
  BY <1>1, <1>a18 DEF ConsumerCounts, HasWarmedUp, HasReset, Bench!Subscribe
<1>a19. CASE Bench!SubscribeFails
  BY <1>1, <1>a19 DEF ConsumerCounts, HasWarmedUp, HasReset, Bench!SubscribeFails
<1>a20. CASE Bench!Loop
  <2>1. /\ cpc = "loop"
        /\ UNCHANGED <<pc, recv, clean, joins, pos, late, assigned, total, benchTopic>>
        /\ \/ local' = local /\ (reset' <=> reset)
           \/ local' = 0 /\ ~ reset' /\ reset
    <3>1. CASE told
      BY <3>1, <1>a20, Zenon DEF Bench!Loop
    <3>2. CASE ~ told
      BY <3>2, <1>a20, Zenon DEF Bench!Loop
    <3>. QED  BY <3>1, <3>2, Zenon
  <2>2. CASE local' = local /\ (reset' <=> reset)
    <3>1. (HasReset' <=> HasReset) /\ (HasWarmedUp' <=> HasWarmedUp) /\ (reset' <=> reset)
      <4>1. reset' <=> reset
        BY <2>2, Zenon
      <4>2. pc' = pc /\ total' = total
        BY <2>1
      <4>. QED  BY <4>1, <4>2, Zenon DEF HasReset, HasWarmedUp
    <3>2. \A base : CountsSince(base)' <=> CountsSince(base)
      BY <1>1, <2>1, <2>2
    <3>. QED  BY <2>1, <2>2, <3>1, <3>2, Zenon DEF ConsumerCounts
  <2>3. CASE local' = 0 /\ ~ reset' /\ reset
    <3>1. (HasWarmedUp' <=> HasWarmedUp) /\ ~ reset'
      BY <2>1, <2>3, Zenon DEF HasWarmedUp
    <3>2. ASSUME clean, ~ late, joins = 1 PROVE \E base \in 1 .. pos : CountsSince(base)'
      <4>1. pc = "settle" /\ HasWarmedUp
        BY <2>3, <3>2 DEF ConsumerCounts, HasWarmedUp
      <4>2. pos >= 1
        BY <3>2, <4>1 DEF ConsumerCounts
      <4>3. sent = 0 /\ benchTopic \in Seq(Numbers)
        BY <2>1, <3>2, <4>1 DEF RunNumbers
      <4>4. \A i \in 1 .. pos : benchTopic[i] = Bench!Sentinel
        <5>1. Numbers = {Bench!Sentinel}
          BY <4>3 DEF Numbers
        <5>. QED  BY <1>2, <4>3, <5>1
      <4>5. PICK base \in 1 .. pos : base = pos
        BY <1>2, <4>2
      <4>6. local' = pos' - base /\ \A i \in 1 .. base : benchTopic'[i] = Bench!Sentinel
        <5>1. 0 = pos - pos
          BY <1>2
        <5>2. pos' = pos /\ benchTopic' = benchTopic
          BY <2>1
        <5>. QED  BY <2>3, <4>4, <4>5, <5>1, <5>2, Zenon
      <4>. QED  BY <4>6, Zenon DEF CountsSince
    <3>3. joins <= 1 => local' <= pos
      BY <1>2, <2>3
    <3>. QED  BY <2>1, <2>3, <3>1, <3>2, <3>3, Zenon DEF ConsumerCounts
  <2>. QED  BY <2>1, <2>2, <2>3, Zenon
<1>a21. CASE Bench!Poll
  <2>1. PICK k \in 0 .. Bench!Available : Bench!Receive(k)
    BY <1>a21 DEF Bench!Poll
  <2>2. UNCHANGED <<pc, recv, total, reset, joins, assigned, benchTopic, clean, late>>
    BY <1>a21 DEF Bench!Poll
  <2>. QED  BY <1>3, <2>1, <2>2
<1>a22. CASE Bench!Publish
  BY <1>1, <1>a22 DEF ConsumerCounts, HasWarmedUp, HasReset, Bench!Publish
<1>a23. CASE Bench!FinalPoll
  <2>1. PICK k \in 0 .. Bench!Available :
          Bench!Receive(k) /\ (recv' = local' \/ recv' = recv) /\ (late => late')
    BY <1>a23 DEF Bench!FinalPoll
  <2>2. UNCHANGED <<pc, total, reset, joins, assigned, benchTopic, clean>>
    BY <1>a23 DEF Bench!FinalPoll
  <2>. QED  BY <1>3, <2>1, <2>2
<1>a24. CASE Bench!FinalDeadline
  BY <1>1, <1>a24 DEF ConsumerCounts, HasWarmedUp, HasReset, Bench!FinalDeadline
<1>a25. CASE Bench!Finish
  BY <1>1, <1>a25 DEF ConsumerCounts, HasWarmedUp, HasReset, Bench!Finish
<1>a26. CASE Bench!Deliver
  <2>1. /\ \E x : benchTopic' = Append(benchTopic, x)
        /\ UNCHANGED <<pc, recv, local, reset, joins, assigned, total, pos, clean, late>>
    BY <1>a26 DEF Bench!Deliver
  <2>2. \A i \in 1 .. Len(benchTopic) : benchTopic'[i] = benchTopic[i]
    BY <2>1 DEF BenchTypes
  <2>3. \A base \in 1 .. pos : CountsSince(base) => CountsSince(base)'
    BY <1>2, <2>1, <2>2 DEF CountsSince
  <2>4. (HasReset' <=> HasReset) /\ (HasWarmedUp' <=> HasWarmedUp)
    BY <2>1, Zenon DEF HasReset, HasWarmedUp
  <2>. QED  BY <2>1, <2>3, <2>4, Zenon DEF ConsumerCounts
<1>a27. CASE Bench!Lose
  BY <1>1, <1>a27 DEF ConsumerCounts, HasWarmedUp, HasReset, Bench!Lose
<1>a28. CASE Bench!Repeat
  <2>1. /\ \E x : benchTopic' = Append(benchTopic, x)
        /\ UNCHANGED <<pc, recv, local, reset, joins, assigned, total, pos, clean, late>>
    BY <1>a28 DEF Bench!Repeat, Bench!Last
  <2>2. \A i \in 1 .. Len(benchTopic) : benchTopic'[i] = benchTopic[i]
    BY <2>1 DEF BenchTypes
  <2>3. \A base \in 1 .. pos : CountsSince(base) => CountsSince(base)'
    BY <1>2, <2>1, <2>2 DEF CountsSince
  <2>4. (HasReset' <=> HasReset) /\ (HasWarmedUp' <=> HasWarmedUp)
    BY <2>1, Zenon DEF HasReset, HasWarmedUp
  <2>. QED  BY <2>1, <2>3, <2>4, Zenon DEF ConsumerCounts
<1>a29. CASE Bench!Assign
  <2>1. /\ pos' = 0 /\ joins' = joins + 1 /\ assigned' = TRUE
        /\ UNCHANGED <<pc, recv, local, reset, total, clean, late>>
    BY <1>a29 DEF Bench!Assign
  <2>2. joins' # 0 /\ (joins' <= 1 => joins = 0 /\ joins <= 1)
    BY <1>2, <2>1
  <2>3. (HasReset' <=> HasReset) /\ (HasWarmedUp' <=> HasWarmedUp) /\ (HasReset => HasWarmedUp)
    BY <2>1, Zenon DEF HasReset, HasWarmedUp
  <2>4. joins' <= 1 => recv' <= pos' /\ local' <= pos'
    BY <1>2, <2>1, <2>2 DEF ConsumerCounts
  <2>5. ~ (HasWarmedUp' /\ ~ late' /\ joins' <= 1)
    <3>1. joins = 0 => pos = 0 /\ ~ (pos >= 1)
      BY DEF ConsumerCounts
    <3>. QED  BY <2>1, <2>2, <2>3, <3>1, Zenon DEF ConsumerCounts
  <2>6. joins' = 1 => joins' <= 1
    OBVIOUS
  <2>. QED  BY <2>1, <2>2, <2>3, <2>4, <2>5, <2>6, Zenon DEF ConsumerCounts
<1>a30. CASE Bench!LoseAssignment
  BY <1>1, <1>a30 DEF ConsumerCounts, HasWarmedUp, HasReset, Bench!LoseAssignment
<1>a31. CASE UNCHANGED Bench!vars
  BY <1>1, <1>a31 DEF ConsumerCounts, HasWarmedUp, HasReset, Bench!vars
<1>. QED
  BY <1>a1, <1>a2, <1>a3, <1>a4, <1>a5, <1>a6, <1>a7, <1>a8, <1>a9, <1>a10, <1>a11, <1>a12, <1>a13,
     <1>a14, <1>a15, <1>a16, <1>a17, <1>a18, <1>a19, <1>a20, <1>a21, <1>a22, <1>a23, <1>a24, <1>a25,
     <1>a26, <1>a27, <1>a28, <1>a29, <1>a30, <1>a31 DEF Bench!Next

LEMMA BenchInvariant == Bench!Spec => []BenchInv
<1>1. Bench!Init => BenchInv
  <2> SUFFICES ASSUME Bench!Init PROVE BenchInv
    OBVIOUS
  <2>1. benchTopic = <<>> \/ benchTopic = <<0>>
    BY DEF Bench!Init, Bench!Stale
  <2>2. BenchTypes
    <3>1. benchTopic \in Seq(Int) /\ Len(benchTopic) \in Nat
      <4>1. <<>> \in Seq(Int) /\ Len(<<>>) = 0 /\ <<0>> \in Seq(Int) /\ Len(<<0>>) = 1
        OBVIOUS
      <4>. QED  BY <2>1, <4>1
    <3>2. pos \in 0 .. Len(benchTopic) /\ stopAt \in 0 .. Len(benchTopic)
      BY <3>1 DEF Bench!Init
    <3>3. /\ told \in BOOLEAN /\ reset \in BOOLEAN /\ assigned \in BOOLEAN /\ byCount \in BOOLEAN
          /\ late \in BOOLEAN /\ whole \in BOOLEAN /\ clean \in BOOLEAN
      BY Zenon DEF Bench!Init
    <3>4. queue \in Seq(Int) /\ readBack \in Seq(Int)
      BY DEF Bench!Init
    <3>5. /\ sent \in Nat /\ total \in Nat /\ recv \in Nat /\ local \in Nat /\ dups \in Nat /\ oor \in Nat
          /\ joins \in Nat /\ seen \in SUBSET Int
      BY DEF Bench!Init
    <3>6. mode \in {"scalar", "udt"} /\ pc = "preflight" /\ cpc = "off"
      BY DEF Bench!Init
    <3>. QED  BY <3>1, <3>2, <3>3, <3>4, <3>5, <3>6, Zenon DEF BenchTypes
  <2>3. RunNumbers
    BY DEF RunNumbers, Bench!Init
  <2>4. ConsumerReads
    BY DEF ConsumerReads, Gathered, Bench!Init
  <2>5. ConsumerCounts
    BY DEF ConsumerCounts, HasWarmedUp, HasReset, Bench!Init
  <2>. QED  BY <2>2, <2>3, <2>4, <2>5 DEF BenchInv
<1>2. BenchInv /\ [Bench!Next]_(Bench!vars) => BenchInv'
  BY BenchTypesKept, RunNumbersKept, ConsumerReadsKept, ConsumerCountsKept, Zenon DEF BenchInv
<1>. QED  BY <1>1, <1>2, PTL DEF Bench!Spec

LEMMA VerdictIsExact == BenchInv => Bench!VerdictExact
<1> SUFFICES ASSUME BenchInv, pc = "done", whole, clean, total <= Bench!SeqCapacity
             PROVE  LET stored  == {readBack[i] : i \in Bench!SampleIndices(readBack)} = 0 .. total - 1
                        once    == \A i, j \in Bench!SampleIndices(readBack) : readBack[i] = readBack[j] => i = j
                        ordered == \A i, j \in Bench!SampleIndices(readBack) : i < j => readBack[i] < readBack[j]
                    IN  Bench!Passed(readBack) <=> stored /\ once /\ (mode = "udt" => ordered)
  BY Zenon DEF Bench!VerdictExact
<1> DEFINE n == Len(readBack)
<1>1. mode \in {"scalar", "udt"} /\ total \in Nat /\ readBack \in Seq(Int) /\ total = sent /\ readBack \in Seq(Numbers)
  BY DEF BenchInv, BenchTypes, RunNumbers
<1>2. RunOf(readBack)
  <2>1. \A i \in 1 .. n : readBack[i] \in Numbers
    BY <1>1
  <2>. QED  BY <1>1, <2>1 DEF RunOf, Numbers
<1>3. Bench!SampleIndices(readBack) = Kept(readBack, n)
  BY <1>1, KeptAll
<1> HIDE DEF n
<1>4. CASE mode = "scalar"
  <2>1. Bench!PassedScalar(readBack) <=> {readBack[i] : i \in Kept(readBack, n)} = 0 .. total - 1 /\ Once(readBack, n)
    BY <1>2, ScalarVerdict DEF n
  <2>2. Bench!Passed(readBack) <=> Bench!PassedScalar(readBack)
    BY <1>4, Zenon DEF Bench!Passed
  <2>3. mode # "udt"
    BY <1>4
  <2>. QED  BY <1>3, <2>1, <2>2, <2>3, Zenon DEF Once
<1>5. CASE mode = "udt"
  <2>1. Bench!PassedUdt(readBack) <=>
          {readBack[i] : i \in Kept(readBack, n)} = 0 .. total - 1 /\ Once(readBack, n) /\ Rising(readBack, n)
    BY <1>2, UdtVerdict DEF n
  <2>2. mode # "scalar"
    BY <1>5
  <2>3. Bench!Passed(readBack) <=> Bench!PassedUdt(readBack)
    BY <2>2, Zenon DEF Bench!Passed
  <2>. QED  BY <1>3, <1>5, <2>1, <2>3, Zenon DEF Once, Rising
<1>. QED  BY <1>1, <1>4, <1>5

LEMMA SameBenchCardinality == ASSUME NEW s PROVE Bench!Cardinality(s) = Cardinality(s)
  BY Zenon DEF Bench!Cardinality, Cardinality

LEMMA LiveIsExact == BenchInv => Bench!LiveExact
<1> SUFFICES ASSUME BenchInv, pc \in {"verify", "done"}, cpc = "done", told, clean, ~ late, total > 0
             PROVE  /\ joins = 1 => pos >= stopAt
                    /\ mode = "scalar" =>
                         {x \in Bench!ToSet(SubSeq(benchTopic, 1, stopAt)) : x \in InBitmap} \subseteq seen
                    /\ mode = "scalar" /\ Bench!SeqCapacity > 0 /\ 0 \in Bench!ToSet(SubSeq(benchTopic, 1, stopAt)) =>
                         Bench!NotesWarmup
                    /\ joins = 1 /\ Bench!Cardinality(DOMAIN benchTopic \ Bench!SampleIndices(benchTopic)) = 1 =>
                         recv = Bench!Cardinality({i \in Bench!SampleIndices(benchTopic) : i <= pos})
  BY Zenon DEF Bench!LiveExact, InBitmap
<1>1. /\ benchTopic \in Seq(Int) /\ pos \in Nat /\ stopAt \in Nat /\ Len(benchTopic) \in Nat /\ joins \in Nat
      /\ pos <= Len(benchTopic) /\ stopAt <= Len(benchTopic)
  BY DEF BenchInv, BenchTypes
<1>2. joins = 1 => pos >= stopAt
  BY DEF BenchInv, ConsumerReads
<1>3. ASSUME mode = "scalar", NEW x \in Bench!ToSet(SubSeq(benchTopic, 1, stopAt)), x \in InBitmap PROVE x \in seen
  <2>1. Gathered(stopAt)
    BY <1>3 DEF BenchInv, ConsumerReads
  <2> DEFINE q == SubSeq(benchTopic, 1, stopAt)
  <2>2. Len(q) = stopAt /\ \A i \in 1 .. stopAt : q[i] = benchTopic[i]
    BY <1>1
  <2>3. DOMAIN q = 1 .. Len(q)
    BY <1>1
  <2> HIDE DEF q
  <2>4. PICK i \in DOMAIN q : x = q[i]
    BY <1>3, Zenon DEF Bench!ToSet, q
  <2>. QED  BY <1>3, <2>1, <2>2, <2>3, <2>4, Zenon DEF Gathered
<1>4. ASSUME joins = 1, Bench!Cardinality(DOMAIN benchTopic \ Bench!SampleIndices(benchTopic)) = 1
      PROVE  recv = Bench!Cardinality({i \in Bench!SampleIndices(benchTopic) : i <= pos})
  <2> DEFINE rest == DOMAIN benchTopic \ Bench!SampleIndices(benchTopic)
             counted == {i \in Bench!SampleIndices(benchTopic) : i <= pos}
  <2>1. PICK base \in 1 .. pos : CountsSince(base)
    <3>1. HasReset
      BY DEF HasReset
    <3>. QED  BY <1>4, <3>1 DEF BenchInv, ConsumerCounts
  <2>2. recv = local /\ local = pos - base
    BY <2>1 DEF BenchInv, ConsumerReads, CountsSince
  <2>3. rest = {i \in 1 .. Len(benchTopic) : benchTopic[i] = Bench!Sentinel}
    BY <1>1 DEF Bench!SampleIndices
  <2>4. PICK x : rest = {x}
    <3>1. IsFiniteSet(1 .. Len(benchTopic))
      BY <1>1, FS_Interval
    <3>2. rest \in SUBSET (1 .. Len(benchTopic))
      BY <2>3
    <3>3. Cardinality(rest) = 1
      BY <1>4, SameBenchCardinality, Zenon
    <3> HIDE DEF rest
    <3>4. IsFiniteSet(rest)
      BY <3>1, <3>2, FS_Subset
    <3>. QED  BY <3>3, <3>4, FS_Singleton
  <2>5. \A i \in 1 .. base : i \in rest
    BY <1>1, <2>1, <2>3 DEF CountsSince
  <2>6. base = 1 /\ x = 1
    <3>1. 1 \in 1 .. base /\ base \in 1 .. base
      BY <1>1, <2>1
    <3>. QED  BY <2>4, <2>5, <3>1, Zenon
  <2>7. counted = 2 .. pos
    <3>1. \A i \in 1 .. Len(benchTopic) : benchTopic[i] = Bench!Sentinel <=> i = 1
      BY <2>3, <2>4, <2>6
    <3>2. Bench!SampleIndices(benchTopic) = {i \in 1 .. Len(benchTopic) : benchTopic[i] # Bench!Sentinel}
      BY <1>1 DEF Bench!SampleIndices
    <3>3. Bench!SampleIndices(benchTopic) = {i \in 1 .. Len(benchTopic) : i # 1}
      BY <3>1, <3>2
    <3>. QED  BY <1>1, <3>3
  <2>8. Cardinality(2 .. pos) = pos - 1
    <3>1. Cardinality(2 .. pos) = IF 2 > pos THEN 0 ELSE pos - 2 + 1
      BY <1>1, FS_Interval
    <3>. QED  BY <1>1, <2>1, <3>1
  <2>9. Bench!Cardinality(counted) = Cardinality(2 .. pos)
    BY <2>7, SameBenchCardinality, Zenon
  <2>. QED  BY <2>2, <2>6, <2>8, <2>9, Zenon
<1>5. ASSUME mode = "scalar", Bench!SeqCapacity > 0, 0 \in Bench!ToSet(SubSeq(benchTopic, 1, stopAt))
      PROVE  Bench!NotesWarmup
  <2>1. 0 \in InBitmap
    BY <1>5, Room DEF InBitmap
  <2>2. 0 \in seen
    BY <1>3, <1>5, <2>1, Zenon
  <2>. QED  BY <1>5, <2>2, Zenon DEF Bench!NotesWarmup
<1>. QED  BY <1>2, <1>3, <1>4, <1>5

\* What kv8bench reports is exact (MCThreadPairs!ReportsExact): its verdict, and the numbers its consumer
\* thread has counted, however the two threads, the deliveries and the assignments interleave.
THEOREM BenchReportsExactly == Bench!Spec => []ReportsExact
<1>1. BenchInv => ReportsExact
  BY VerdictIsExact, LiveIsExact, Zenon DEF ReportsExact
<1>. QED  BY <1>1, BenchInvariant, PTL

=============================================================================
