--------------------------- MODULE SpscFixedRing ---------------------------
(***************************************************************************)
(* SpscFixedRing<T, N> of kv8zoom with the two threads that use it: the    *)
(* Kafka thread pushes decoded frames, the uWS event loop pops them and,   *)
(* for a session switch or a seek, stops and joins the Kafka thread,       *)
(* clears the ring and starts a new Kafka thread. The indices wrap at N,   *)
(* one slot is always left free, and clear() resets both with no           *)
(* protection of its own. Item n is the n-th frame offered to push.        *)
(***************************************************************************)
EXTENDS Naturals, Sequences

CONSTANTS
  N,          \* slots; a power of two, at least 2 (static_assert)
  MaxItems,   \* bound: frames ever pushed
  MaxResets   \* bound: session switches and seeks

VARIABLES
  head, tail,   \* m_head (reader), m_tail (writer)
  buf,          \* m_buf
  wpc, rpc,     \* where the Kafka thread and the event loop are
  stop,         \* KafkaReader::m_stop
  frame,        \* the item the running pop has copied
  received, offered, dropped,
  resets

vars == <<head, tail, buf, wpc, rpc, stop, frame, received, offered, dropped, resets>>

Init ==
  /\ head = 0 /\ tail = 0
  /\ buf = [s \in 0 .. N - 1 |-> 0]
  /\ wpc = "idle" /\ rpc = "idle"
  /\ stop = FALSE
  /\ frame = 0 /\ received = <<>>
  /\ offered = 0 /\ dropped = 0 /\ resets = 0

\* (index + 1) & kMask
NextIndex(index) == (index + 1) % N

\* a plausible bug: a ring that is never full
NeverFull == FALSE

Full == NextIndex(tail) = head

PushFull ==
  /\ wpc = "idle" /\ offered < MaxItems
  /\ Full
  /\ offered' = offered + 1
  /\ dropped' = dropped + 1
  /\ UNCHANGED <<head, tail, buf, wpc, rpc, stop, frame, received, resets>>

PushBegin ==
  /\ wpc = "idle" /\ offered < MaxItems
  /\ ~Full
  /\ offered' = offered + 1
  /\ wpc' = "write"
  /\ UNCHANGED <<head, tail, buf, rpc, stop, frame, received, dropped, resets>>

PushWrite ==
  /\ wpc = "write"
  /\ buf' = [buf EXCEPT ![tail] = offered]
  /\ wpc' = "publish"
  /\ UNCHANGED <<head, tail, rpc, stop, frame, received, offered, dropped, resets>>

PushPublish ==
  /\ wpc = "publish"
  /\ tail' = NextIndex(tail)
  /\ wpc' = "idle"
  /\ UNCHANGED <<head, buf, rpc, stop, frame, received, offered, dropped, resets>>

StopRequested == stop

\* KafkaThreadFunc returns between two batches
KafkaThreadExit ==
  /\ wpc = "idle"
  /\ StopRequested
  /\ wpc' = "exited"
  /\ UNCHANGED <<head, tail, buf, rpc, stop, frame, received, offered, dropped, resets>>

PopCopy ==
  /\ rpc = "idle"
  /\ head # tail
  /\ frame' = buf[head]
  /\ rpc' = "publish"
  /\ UNCHANGED <<head, tail, buf, wpc, stop, received, offered, dropped, resets>>

PopPublish ==
  /\ rpc = "publish"
  /\ head' = NextIndex(head)
  /\ received' = Append(received, frame)
  /\ frame' = 0
  /\ rpc' = "idle"
  /\ UNCHANGED <<tail, buf, wpc, stop, offered, dropped, resets>>

\* SwitchToSession / ProcessSeek on the event loop: RequestStop ...
RequestStop ==
  /\ rpc = "idle" /\ resets < MaxResets
  /\ stop' = TRUE
  /\ rpc' = "join"
  /\ resets' = resets + 1
  /\ UNCHANGED <<head, tail, buf, wpc, frame, received, offered, dropped>>

\* ... join, KafkaReader::Reset (clear() stores m_head, then m_tail) ...
JoinAndClear ==
  /\ rpc = "join"
  /\ wpc = "exited"
  /\ head' = 0 /\ tail' = 0
  /\ rpc' = "restart"
  /\ UNCHANGED <<buf, wpc, stop, frame, received, offered, dropped, resets>>

\* ... ClearStop and StartKafkaThread
Restart ==
  /\ rpc = "restart"
  /\ stop' = FALSE
  /\ wpc' = "idle"
  /\ rpc' = "idle"
  /\ UNCHANGED <<head, tail, buf, frame, received, offered, dropped, resets>>

KafkaThread == PushFull \/ PushBegin \/ PushWrite \/ PushPublish \/ KafkaThreadExit
EventLoop == PopCopy \/ PopPublish \/ RequestStop \/ JoinAndClear \/ Restart

Finished == offered = MaxItems /\ resets = MaxResets /\ wpc = "idle" /\ rpc = "idle"
            /\ head = tail /\ UNCHANGED vars

Next == KafkaThread \/ EventLoop \/ Finished
Spec == Init /\ [][Next]_vars

-----------------------------------------------------------------------------
(* Properties.                                                             *)

\* (m_tail - m_head) & kMask
Size == (tail + N - head) % N
Queue == [i \in 1 .. Size |-> buf[(head + i - 1) % N]]

Fifo == INSTANCE BoundedFifo WITH Capacity <- N - 1, queue <- Queue,
          offered <- IF wpc \in {"idle", "exited"} THEN offered ELSE offered - 1

\* The ring with its reset protocol implements a bounded first-in first-out
\* channel whose content a session switch may throw away: no frame of the old
\* session, and no half-written one, is popped after the clear.
ImplementsFifo == Fifo!ResettableFifoSpec

\* Types; the masked indices stay inside m_buf.
TypeOK ==
  /\ head \in 0 .. N - 1 /\ tail \in 0 .. N - 1
  /\ buf \in [0 .. N - 1 -> Nat]
  /\ wpc \in {"idle", "write", "publish", "exited"}
  /\ rpc \in {"idle", "publish", "join", "restart"}
  /\ stop \in BOOLEAN
  /\ frame \in Nat /\ received \in Seq(Nat)
  /\ offered \in Nat /\ dropped \in Nat /\ resets \in Nat

=============================================================================
