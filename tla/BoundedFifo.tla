---------------------------- MODULE BoundedFifo ----------------------------
(***************************************************************************)
(* What the sample rings of kv8scope and kv8zoom promise their one writer  *)
(* and their one reader: a bounded first-in first-out channel that refuses *)
(* an item only when it is full and hands the items over in order, once.   *)
(* Item n is the n-th item the writer offers.                              *)
(***************************************************************************)
EXTENDS Naturals, Sequences

CONSTANTS
  Capacity,   \* items the channel holds
  MaxItems    \* bound: items ever offered

VARIABLES
  queue,      \* accepted, not yet handed over
  received,   \* handed over, in order
  offered,    \* items offered so far
  dropped     \* items refused so far

fifoVars == <<queue, received, offered, dropped>>

FifoInit == queue = <<>> /\ received = <<>> /\ offered = 0 /\ dropped = 0

Put ==
  /\ offered < MaxItems
  /\ Len(queue) < Capacity
  /\ offered' = offered + 1
  /\ queue' = Append(queue, offered')
  /\ UNCHANGED <<received, dropped>>

Refuse ==
  /\ offered < MaxItems
  /\ Len(queue) = Capacity
  /\ offered' = offered + 1
  /\ dropped' = dropped + 1
  /\ UNCHANGED <<queue, received>>

\* one call hands over the oldest n items
Take(n) ==
  /\ received' = received \o SubSeq(queue, 1, n)
  /\ queue' = SubSeq(queue, n + 1, Len(queue))
  /\ UNCHANGED <<offered, dropped>>

FifoNext == Put \/ Refuse \/ \E n \in 1 .. Len(queue) : Take(n)

FifoSpec == FifoInit /\ [][FifoNext]_fifoVars

\* a session switch throws away what has not been handed over
Discard == queue' = <<>> /\ UNCHANGED <<received, offered, dropped>>

ResettableFifoSpec == FifoInit /\ [][FifoNext \/ Discard]_fifoVars

=============================================================================
