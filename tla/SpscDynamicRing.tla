-------------------------- MODULE SpscDynamicRing --------------------------
(***************************************************************************)
(* SpscDynamicRing<T> of kv8scope: one consumer thread pushes decoded      *)
(* samples, the render thread drains them in batches. Neither takes a      *)
(* lock. Each atomic access and each copy of an item is a step of its own; *)
(* m_head is stored by the writer only and m_tail by the reader only, so   *)
(* an acquire load sees the value of the last release store.               *)
(* Item n is the n-th sample offered to Push.                              *)
(***************************************************************************)
EXTENDS Naturals, Sequences

CONSTANTS
  Capacity,   \* m_capacity: the power of two NextPow2 rounds the request up to
  MaxBatch,   \* largest maxCount of PopBatch (1 is Pop)
  MaxItems    \* bound: samples ever pushed

ASSUME RingAssumption ==
  /\ Capacity \in Nat \ {0} /\ \E e \in 0 .. Capacity : Capacity = 2 ^ e
  /\ MaxBatch \in Nat \ {0}
  /\ MaxItems \in Nat

\* index & m_mask
Slot(index) == index % Capacity

VARIABLES
  head, tail,   \* m_head, m_tail
  data,         \* m_pData
  wpc,          \* where Push is
  rpc, rn, out, \* where PopBatch is, its n, and the items it has copied
  received,     \* items all completed calls of PopBatch returned
  offered,      \* calls of Push so far
  dropped       \* those that returned false (m_nDropped of the caller)

writerVars == <<head, data, wpc, offered, dropped>>
readerVars == <<tail, rpc, rn, out, received>>
vars == <<writerVars, readerVars>>

Init ==
  /\ head = 0 /\ tail = 0
  /\ data = [s \in 0 .. Capacity - 1 |-> 0]
  /\ wpc = "idle" /\ rpc = "idle"
  /\ rn = 0 /\ out = <<>> /\ received = <<>>
  /\ offered = 0 /\ dropped = 0

\* plausible bugs: room for one item more, and a ring one slot short of full
FullTooLate == head - tail > Capacity
FullTooEarly == head - tail >= Capacity - 1

\* the test of Push after it has loaded both indices
Full == head - tail >= Capacity

PushFull ==
  /\ wpc = "idle" /\ offered < MaxItems
  /\ Full
  /\ offered' = offered + 1
  /\ dropped' = dropped + 1
  /\ UNCHANGED <<head, data, wpc, readerVars>>

PushBegin ==
  /\ wpc = "idle" /\ offered < MaxItems
  /\ ~Full
  /\ offered' = offered + 1
  /\ wpc' = "write"
  /\ UNCHANGED <<head, data, dropped, readerVars>>

PushWrite ==
  /\ wpc = "write"
  /\ data' = [data EXCEPT ![Slot(head)] = offered]
  /\ wpc' = "publish"
  /\ UNCHANGED <<head, offered, dropped, readerVars>>

PushPublish ==
  /\ wpc = "publish"
  /\ head' = head + 1
  /\ wpc' = "idle"
  /\ UNCHANGED <<data, offered, dropped, readerVars>>

\* a plausible bug: the newest item is always left behind
AllButOne(avail, maxCount) == IF avail - 1 < maxCount THEN avail - 1 ELSE maxCount

\* n of PopBatch
BatchSize(avail, maxCount) == IF avail < maxCount THEN avail ELSE maxCount

\* PopBatch(out, maxCount) with at least one item available
PopBegin(maxCount) ==
  /\ rpc = "idle" /\ head - tail # 0
  /\ rn' = BatchSize(head - tail, maxCount)
  /\ out' = <<>>
  /\ rpc' = "copy"
  /\ UNCHANGED <<writerVars, tail, received>>

PopCopy ==
  /\ rpc = "copy" /\ Len(out) < rn
  /\ out' = Append(out, data[Slot(tail + Len(out))])
  /\ UNCHANGED <<writerVars, tail, rpc, rn, received>>

PopPublish ==
  /\ rpc = "copy" /\ Len(out) = rn
  /\ tail' = tail + rn
  /\ received' = received \o out
  /\ rpc' = "idle" /\ rn' = 0 /\ out' = <<>>
  /\ UNCHANGED writerVars

Push == PushFull \/ PushBegin \/ PushWrite \/ PushPublish
PopBatch == (\E maxCount \in 1 .. MaxBatch : PopBegin(maxCount)) \/ PopCopy \/ PopPublish

\* all samples were offered and drained
Finished == offered = MaxItems /\ wpc = "idle" /\ rpc = "idle" /\ head = tail /\ UNCHANGED vars

Next == Push \/ PopBatch \/ Finished
Spec == Init /\ [][Next]_vars

\* Push is not blocked inside a call, and the render loop drains every frame
Fairness == WF_vars(PushWrite \/ PushPublish) /\ WF_vars(PopBatch)

-----------------------------------------------------------------------------
(* Properties.                                                             *)

\* The items between the two indices are the ones accepted and not drained.
Queue == [i \in 1 .. head - tail |-> data[Slot(tail + i - 1)]]

Fifo == INSTANCE BoundedFifo WITH queue <- Queue,
          offered <- IF wpc = "idle" THEN offered ELSE offered - 1

\* The ring implements a bounded first-in first-out channel: no sample is
\* lost, repeated, torn or reordered, and Push fails only when it is full.
ImplementsFifo == Fifo!FifoSpec

\* Types, and the indices: the writer is never more than Capacity ahead.
TypeOK ==
  /\ head \in Nat /\ tail \in Nat /\ tail <= head /\ head - tail <= Capacity
  /\ data \in [0 .. Capacity - 1 -> Nat]
  /\ wpc \in {"idle", "write", "publish"}
  /\ rpc \in {"idle", "copy"}
  /\ rn \in Nat /\ out \in Seq(Nat) /\ received \in Seq(Nat)
  /\ offered \in Nat /\ dropped \in Nat

\* The slot Push writes is never one the running PopBatch still has to copy.
NoTornCopy ==
  wpc = "write" /\ rpc = "copy" =>
    \A k \in Len(out) .. rn - 1 : Slot(tail + k) # Slot(head)

\* Every accepted sample reaches the renderer.
AllDrained == <>[](head = tail)

=============================================================================
