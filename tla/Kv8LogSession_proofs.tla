------------------------ MODULE Kv8LogSession_proofs ------------------------
(***************************************************************************)
(* Theorems about Kv8LogSession, for every set of threads, counters and    *)
(* UDT feeds, every capacity and every bound.                              *)
(***************************************************************************)
EXTENDS Kv8LogSession, FiniteSetTheorems, TLAPS

-----------------------------------------------------------------------------
(* Sequences.                                                              *)

\* Appending keeps the old elements where they are and puts the new one last.
LEMMA AppendFacts ==
  ASSUME NEW S, NEW s \in Seq(S), NEW x \in S
  PROVE  /\ Append(s, x) \in Seq(S)
         /\ Len(Append(s, x)) = Len(s) + 1
         /\ \A i \in 1 .. Len(s) : Append(s, x)[i] = s[i]
         /\ Append(s, x)[Len(s) + 1] = x
  OBVIOUS

\* The tail of a non-empty sequence is the sequence shifted by one.
LEMMA TailFacts ==
  ASSUME NEW S, NEW s \in Seq(S), s # <<>>
  PROVE  /\ Tail(s) \in Seq(S)
         /\ Head(s) \in S
         /\ Head(s) = s[1]
         /\ Len(s) \in Nat \ {0}
         /\ Len(Tail(s)) = Len(s) - 1
         /\ \A i \in 1 .. Len(s) - 1 : Tail(s)[i] = s[i + 1]
  OBVIOUS

\* A refused message leaves the outbound queue as it is.
LEMMA EnqueueType ==
  ASSUME NEW S, NEW q \in Seq(S), NEW x \in S
  PROVE  Enqueue(q, x) \in Seq(S)
  BY DEF Enqueue

-----------------------------------------------------------------------------
(* Types, the mutex and the ids. TypeOK alone is not inductive: AddSeq     *)
(* reads seq at the id in its frame, which is a slot only because the id   *)
(* was peeked under counters_mu and published before it was handed out.    *)

LockInv ==
  /\ \A t \in Threads : pc[t] = "reg_push" <=> t \in countersMu
  /\ \A t, u \in countersMu : t = u
  /\ \A t \in countersMu : fr[t].id = nextId /\ nextId < MaxSlots

\* the thread works on a slot that next_id has published
HasSlot(t) == pc[t] \in {"reg_schema", "reg_record", "reg_rkt", "reg_flush",
                         "add_seq", "add_produce", "set_produce"}

IdInv ==
  /\ \A t \in Threads : HasSlot(t) => fr[t].id < nextId
  /\ \A c \in Counters : cid[c] = NoId \/ cid[c] < nextId

CoreInv == TypeOK /\ LockInv /\ IdInv

LEMMA IdArith ==
  /\ Ids \subseteq Nat
  /\ NoId \in Nat /\ NoId \notin Ids
  /\ \A i \in Nat : i < MaxSlots => i \in Ids
  BY KAssumption DEF Ids, NoId

\* An id below next_id is a slot, never NoId.
LEMMA PublishedIsSlot ==
  ASSUME NEW i \in Ids \cup {NoId}, NEW n \in 0 .. MaxSlots, i < n
  PROVE  i \in Ids
  BY KAssumption DEF Ids, NoId

LEMMA FrameUpdates ==
  ASSUME NEW f \in Frame, NEW i \in Ids, NEW n \in Nat
  PROVE  /\ [f EXCEPT !.id = i] \in Frame
         /\ [f EXCEPT !.sn = n] \in Frame
  BY DEF Frame

\* The frame a thread has between two calls.
LEMMA EmptyFrameType == EmptyFrame \in Frame
  <1>1. (CHOOSE c \in Counters : TRUE) \in Counters
    BY KAssumption
  <1>. QED  BY <1>1, IdArith DEF EmptyFrame, Frame

LEMMA CoreInit == Init => CoreInv
  <1> SUFFICES ASSUME Init PROVE CoreInv
    OBVIOUS
  <1>2. TypeOK
    BY EmptyFrameType, KAssumption, IdArith DEF Init, TypeOK, PcValues
  <1>3. LockInv /\ IdInv
    BY DEF Init, LockInv, IdInv, HasSlot
  <1>. QED  BY <1>2, <1>3 DEF CoreInv

LEMMA CoreNext == CoreInv /\ [Next]_vars => CoreInv'
  <1> SUFFICES ASSUME CoreInv, [Next]_vars PROVE CoreInv'
    OBVIOUS
  <1> USE IdArith DEF CoreInv, facadeVars, sessionVars, threadVars, ctlVars, regVars, ctlTopic, dataVars
  <1>1. ASSUME NEW t \in Threads, NEW c \in Counters,
               NEW call \in {"add", "enable", "disable"}, CallFacade(t, c, call)
        PROVE CoreInv'
    <2>1. TypeOK'
      <3>1. [obj |-> c, call |-> call, id |-> NoId, sn |-> 0] \in Frame
        BY DEF Frame
      <3>2. fr' \in [Threads -> Frame] /\ calls' \in [Threads -> Nat]
        BY <1>1, <3>1 DEF TypeOK, CallFacade
      <3>3. once' \in [Counters -> {"new", "running", "done"}] /\ pc' \in [Threads -> PcValues]
        BY <1>1 DEF TypeOK, CallFacade, Goto, PcValues
      <3>. QED  BY <1>1, <3>2, <3>3 DEF TypeOK, CallFacade
    <2>2. LockInv'
      BY <1>1 DEF TypeOK, LockInv, Goto, CallFacade
    <2>3. IdInv'
      BY <1>1 DEF TypeOK, LockInv, IdInv, HasSlot, Goto, CallFacade
    <2>. QED  BY <2>1, <2>2, <2>3
  <1>2. ASSUME NEW t \in Threads, ChannelHandle(t) PROVE CoreInv'
    <2>1. TypeOK'
      BY <1>2 DEF TypeOK, ChannelHandle, Goto, PcValues
    <2>2. LockInv'
      BY <1>2 DEF TypeOK, LockInv, Goto, ChannelHandle
    <2>3. IdInv'
      BY <1>2 DEF TypeOK, LockInv, IdInv, HasSlot, Goto, ChannelHandle
    <2>. QED  BY <2>1, <2>2, <2>3
  <1>3. ASSUME NEW t \in Threads, OpenCtlTopic(t) PROVE CoreInv'
    <2>1. TypeOK'
      <3>1. [kind |-> "tombstone", wid |-> NoId, enabled |-> TRUE] \in CtlRecord
        BY DEF CtlRecord
      <3>2. ctlQ' \in Seq(CtlRecord)
        BY <1>3, <3>1, EnqueueType DEF TypeOK, OpenCtlTopic
      <3>. QED  BY <1>3, <3>2 DEF TypeOK, OpenCtlTopic, Goto, PcValues
    <2>2. LockInv'
      BY <1>3 DEF TypeOK, LockInv, Goto, OpenCtlTopic
    <2>3. IdInv'
      BY <1>3 DEF TypeOK, LockInv, IdInv, HasSlot, Goto, OpenCtlTopic
    <2>. QED  BY <2>1, <2>2, <2>3
  <1>4. ASSUME NEW t \in Threads, OpenAnnounce(t) PROVE CoreInv'
    <2>1. TypeOK'
      <3>1. Enqueue(regQ, [kind |-> "LOG", id |-> NoId]) \in Seq(RegRecord)
        <4>1. [kind |-> "LOG", id |-> NoId] \in RegRecord
          BY DEF RegRecord, TypeOK, Frame
        <4>. QED  BY <4>1, EnqueueType DEF TypeOK
      <3>2. Enqueue(regQ, [kind |-> "GROUP", id |-> NoId]) \in Seq(RegRecord)
        <4>1. [kind |-> "GROUP", id |-> NoId] \in RegRecord
          BY DEF RegRecord, TypeOK, Frame
        <4>. QED  BY <4>1, EnqueueType DEF TypeOK
      <3>3. regQ' \in Seq(RegRecord)
        BY <1>4, <3>1, <3>2 DEF OpenAnnounce
      <3>. QED  BY <1>4, <3>3 DEF TypeOK, OpenAnnounce, Goto, PcValues
    <2>2. LockInv'
      BY <1>4 DEF TypeOK, LockInv, Goto, OpenAnnounce
    <2>3. IdInv'
      BY <1>4 DEF TypeOK, LockInv, IdInv, HasSlot, Goto, OpenAnnounce
    <2>. QED  BY <2>1, <2>2, <2>3
  <1>5. ASSUME NEW t \in Threads, OpenMarker(t) PROVE CoreInv'
    <2>1. TypeOK'
      <3>1. [kind |-> "session_open", wid |-> NoId, enabled |-> TRUE] \in CtlRecord
        BY DEF CtlRecord
      <3>2. ctlQ' \in Seq(CtlRecord)
        BY <1>5, <3>1, EnqueueType DEF TypeOK, OpenMarker
      <3>. QED  BY <1>5, <3>2 DEF TypeOK, OpenMarker, Goto, PcValues
    <2>2. LockInv'
      BY <1>5 DEF TypeOK, LockInv, Goto, OpenMarker
    <2>3. IdInv'
      BY <1>5 DEF TypeOK, LockInv, IdInv, HasSlot, Goto, OpenMarker
    <2>. QED  BY <2>1, <2>2, <2>3
  <1>6. ASSUME NEW t \in Threads, OpenFlush(t) PROVE CoreInv'
    <2>1. TypeOK'
      BY <1>6 DEF TypeOK, OpenFlush, Goto, PcValues
    <2>2. LockInv'
      BY <1>6 DEF TypeOK, LockInv, Goto, OpenFlush
    <2>3. IdInv'
      BY <1>6 DEF TypeOK, LockInv, IdInv, HasSlot, Goto, OpenFlush
    <2>. QED  BY <2>1, <2>2, <2>3
  <1>7. ASSUME NEW t \in Threads, OpenFinish(t) PROVE CoreInv'
    <2>1. TypeOK'
      BY <1>7 DEF TypeOK, OpenFinish, Goto, PcValues
    <2>2. LockInv'
      BY <1>7 DEF TypeOK, LockInv, Goto, OpenFinish
    <2>3. IdInv'
      BY <1>7 DEF TypeOK, LockInv, IdInv, HasSlot, Goto, OpenFinish
    <2>. QED  BY <2>1, <2>2, <2>3
  <1>8. ASSUME NEW t \in Threads, RegisterLock(t) PROVE CoreInv'
    <2>1. TypeOK'
      <3>1. nextId \in Ids
        BY <1>8 DEF TypeOK, RegisterLock
      <3>2. fr' \in [Threads -> Frame]
        BY <1>8, <3>1 DEF TypeOK, RegisterLock, Frame
      <3>. QED  BY <1>8, <3>2 DEF TypeOK, RegisterLock, Goto, PcValues
    <2>2. LockInv'
      BY <1>8 DEF TypeOK, LockInv, Goto, RegisterLock, MutexFree
    <2>3. IdInv'
      BY <1>8 DEF TypeOK, LockInv, IdInv, HasSlot, Goto, RegisterLock, MutexFree
    <2>. QED  BY <2>1, <2>2, <2>3
  <1>9. ASSUME NEW t \in Threads, RegisterPush(t) PROVE CoreInv'
    <2>1. TypeOK'
      <3>1. t \in countersMu /\ nextId < MaxSlots
        BY <1>9 DEF TypeOK, LockInv, RegisterPush, Goto
      <3>2. nextId' \in 0 .. MaxSlots
        BY <1>9, <3>1, KAssumption DEF TypeOK, RegisterPush
      <3>3. once' \in [Counters -> {"new", "running", "done"}] /\ pc' \in [Threads -> PcValues]
        BY <1>9 DEF TypeOK, RegisterPush, Goto, PcValues
      <3>4. countersMu' \in SUBSET Threads
        BY <1>9 DEF TypeOK, RegisterPush, Unlocked
      <3>. QED  BY <1>9, <3>2, <3>3, <3>4 DEF TypeOK, RegisterPush
    <2>2. LockInv'
      BY <1>9 DEF TypeOK, LockInv, Goto, RegisterPush, Unlocked, IdSpaceExhausted
    <2>3. IdInv'
      <3>1. t \in countersMu /\ fr[t].id = nextId /\ nextId \in Nat
        BY <1>9 DEF TypeOK, LockInv, RegisterPush, Goto
      <3>2. CASE nextId' = nextId /\ pc'[t] = "body"
        BY <1>9, <3>2 DEF TypeOK, IdInv, HasSlot, Goto, RegisterPush
      <3>3. CASE nextId' = nextId + 1
        <4>0. /\ \A c \in Counters : cid[c] \in Nat
              /\ \A u \in Threads : fr[u].id \in Nat
          BY DEF TypeOK, Frame
        <4>1. \A c \in Counters : cid[c] = NoId \/ cid[c] < nextId + 1
          BY <3>1, <4>0 DEF IdInv
        <4>2. \A u \in Threads : HasSlot(u)' => fr[u].id < nextId + 1
          <5>1. \A u \in Threads : HasSlot(u)' => HasSlot(u) \/ u = t
            BY <1>9 DEF TypeOK, HasSlot, Goto, RegisterPush
          <5>. QED  BY <3>1, <4>0, <5>1 DEF IdInv
        <4>. QED  BY <1>9, <3>3, <4>1, <4>2 DEF IdInv, RegisterPush
      <3>. QED  BY <1>9, <3>2, <3>3 DEF RegisterPush, Goto, TypeOK
    <2>. QED  BY <2>1, <2>2, <2>3
  <1>10. ASSUME NEW t \in Threads, RegisterRecord(t) PROVE CoreInv'
    <2>1. TypeOK'
      <3>1. Enqueue(regQ, [kind |-> "SCHEMA", id |-> fr[t].id]) \in Seq(RegRecord)
        <4>1. [kind |-> "SCHEMA", id |-> fr[t].id] \in RegRecord
          BY DEF RegRecord, TypeOK, Frame
        <4>. QED  BY <4>1, EnqueueType DEF TypeOK
      <3>2. Enqueue(regQ, [kind |-> CounterKind(fr[t].obj), id |-> fr[t].id]) \in Seq(RegRecord)
        <4>1. [kind |-> CounterKind(fr[t].obj), id |-> fr[t].id] \in RegRecord
          BY DEF RegRecord, CounterKind, TypeOK, Frame
        <4>. QED  BY <4>1, EnqueueType DEF TypeOK
      <3>3. regQ' \in Seq(RegRecord)
        BY <1>10, <3>1, <3>2 DEF RegisterRecord
      <3>. QED  BY <1>10, <3>3 DEF TypeOK, RegisterRecord, Goto, PcValues
    <2>2. LockInv'
      BY <1>10 DEF TypeOK, LockInv, Goto, RegisterRecord
    <2>3. IdInv'
      BY <1>10 DEF TypeOK, LockInv, IdInv, HasSlot, Goto, RegisterRecord
    <2>. QED  BY <2>1, <2>2, <2>3
  <1>11. ASSUME NEW t \in Threads, RegisterTopic(t) PROVE CoreInv'
    <2>1. TypeOK'
      BY <1>11 DEF TypeOK, RegisterTopic, Goto, PcValues
    <2>2. LockInv'
      BY <1>11 DEF TypeOK, LockInv, Goto, RegisterTopic
    <2>3. IdInv'
      BY <1>11 DEF TypeOK, LockInv, IdInv, HasSlot, Goto, RegisterTopic
    <2>. QED  BY <2>1, <2>2, <2>3
  <1>12. ASSUME NEW t \in Threads, RegisterFlush(t) PROVE CoreInv'
    <2>1. TypeOK'
      BY <1>12 DEF TypeOK, Frame, RegisterFlush, Goto, PcValues
    <2>2. LockInv'
      BY <1>12 DEF TypeOK, LockInv, Goto, RegisterFlush
    <2>3. IdInv'
      BY <1>12 DEF TypeOK, LockInv, IdInv, HasSlot, Goto, RegisterFlush
    <2>. QED  BY <2>1, <2>2, <2>3
  <1>13. ASSUME NEW t \in Threads, SkipBody(t) PROVE CoreInv'
    <2>1. TypeOK'
      BY <1>13, EmptyFrameType DEF TypeOK, SkipBody, Goto, PcValues
    <2>2. LockInv'
      BY <1>13 DEF TypeOK, LockInv, Goto, SkipBody
    <2>3. IdInv'
      BY <1>13 DEF TypeOK, LockInv, IdInv, HasSlot, Goto, SkipBody
    <2>. QED  BY <2>1, <2>2, <2>3
  <1>14. ASSUME NEW t \in Threads, AddCheck(t) PROVE CoreInv'
    <2>1. TypeOK'
      <3>1. cid[fr[t].obj] \in Ids
        <4>1. cid[fr[t].obj] \in Ids \cup {NoId}
          BY DEF TypeOK, Frame
        <4>2. cid[fr[t].obj] < nextId
          BY <1>14 DEF AddCheck
        <4>. QED  BY <4>1, <4>2, PublishedIsSlot DEF TypeOK
      <3>2. fr' \in [Threads -> Frame]
        <4>1. [fr[t] EXCEPT !.id = cid[fr[t].obj]] \in Frame
          BY <3>1, FrameUpdates DEF TypeOK
        <4>. QED  BY <1>14, <4>1 DEF TypeOK, AddCheck
      <3>. QED  BY <1>14, <3>2 DEF TypeOK, AddCheck, Goto, PcValues
    <2>2. LockInv'
      BY <1>14 DEF TypeOK, LockInv, Goto, AddCheck
    <2>3. IdInv'
      BY <1>14 DEF TypeOK, LockInv, IdInv, HasSlot, Goto, AddCheck
    <2>. QED  BY <2>1, <2>2, <2>3
  <1>15. ASSUME NEW t \in Threads, AddSeq(t) PROVE CoreInv'
    <2>1. TypeOK'
      <3>1. fr[t].id \in Ids
        <4>1. fr[t].id \in Ids \cup {NoId}
          BY DEF TypeOK, Frame
        <4>2. fr[t].id < nextId
          BY <1>15 DEF IdInv, HasSlot, AddSeq, Goto
        <4>. QED  BY <4>1, <4>2, PublishedIsSlot DEF TypeOK
      <3>2. fr' \in [Threads -> Frame]
        <4>1. [fr[t] EXCEPT !.sn = seq[fr[t].id]] \in Frame
          BY <3>1, FrameUpdates DEF TypeOK
        <4>. QED  BY <1>15, <4>1 DEF TypeOK, AddSeq
      <3>3. seq' \in [Ids -> Nat]
        BY <1>15, <3>1 DEF TypeOK, AddSeq, NextSeq
      <3>. QED  BY <1>15, <3>2, <3>3 DEF TypeOK, AddSeq, Goto, PcValues
    <2>2. LockInv'
      BY <1>15 DEF TypeOK, LockInv, Goto, AddSeq, NextSeq
    <2>3. IdInv'
      BY <1>15 DEF TypeOK, LockInv, IdInv, HasSlot, Goto, AddSeq, NextSeq
    <2>. QED  BY <2>1, <2>2, <2>3
  <1>16. ASSUME NEW t \in Threads, AddProduce(t) PROVE CoreInv'
    <2>1. TypeOK'
      <3>1. fr[t].id \in Ids /\ fr[t].sn \in Nat
        <4>1. fr[t].id \in Ids \cup {NoId} /\ fr[t].sn \in Nat
          BY DEF TypeOK, Frame
        <4>2. fr[t].id < nextId
          BY <1>16 DEF IdInv, HasSlot, AddProduce, Goto
        <4>. QED  BY <4>1, <4>2, PublishedIsSlot DEF TypeOK
      <3>2. Enqueue(dataQ[fr[t].id], fr[t].sn) \in Seq(Nat)
        BY <3>1, EnqueueType DEF TypeOK
      <3>3. dataQ' \in [Ids -> Seq(Nat)]
        BY <1>16, <3>1, <3>2 DEF TypeOK, AddProduce
      <3>4. fr' \in [Threads -> Frame]
        BY <1>16, EmptyFrameType DEF TypeOK, AddProduce
      <3>. QED  BY <1>16, <3>3, <3>4 DEF TypeOK, AddProduce, Goto, PcValues
    <2>2. LockInv'
      BY <1>16 DEF TypeOK, LockInv, Goto, AddProduce
    <2>3. IdInv'
      BY <1>16 DEF TypeOK, LockInv, IdInv, HasSlot, Goto, AddProduce
    <2>. QED  BY <2>1, <2>2, <2>3
  <1>17. ASSUME NEW t \in Threads, SetStore(t) PROVE CoreInv'
    <2>1. TypeOK'
      <3>1. cid[fr[t].obj] \in Ids
        <4>1. cid[fr[t].obj] \in Ids \cup {NoId}
          BY DEF TypeOK, Frame
        <4>2. cid[fr[t].obj] < nextId
          BY <1>17 DEF SetStore
        <4>. QED  BY <4>1, <4>2, PublishedIsSlot DEF TypeOK
      <3>2. fr' \in [Threads -> Frame]
        <4>1. [fr[t] EXCEPT !.id = cid[fr[t].obj]] \in Frame
          BY <3>1, FrameUpdates DEF TypeOK
        <4>. QED  BY <1>17, <4>1 DEF TypeOK, SetStore
      <3>3. aEnabled' \in [Flags -> BOOLEAN]
        BY <1>17 DEF TypeOK, SetStore, StoreEnabled
      <3>. QED  BY <1>17, <3>2, <3>3 DEF TypeOK, SetStore, Goto, PcValues
    <2>2. LockInv'
      BY <1>17 DEF TypeOK, LockInv, Goto, SetStore, StoreEnabled
    <2>3. IdInv'
      BY <1>17 DEF TypeOK, LockInv, IdInv, HasSlot, Goto, SetStore, StoreEnabled
    <2>. QED  BY <2>1, <2>2, <2>3
  <1>18. ASSUME NEW t \in Threads, SetProduce(t) PROVE CoreInv'
    <2>1. TypeOK'
      <3>1. [kind |-> "ctr_state", wid |-> fr[t].id, enabled |-> fr[t].call = "enable"] \in CtlRecord
        BY DEF CtlRecord, TypeOK, Frame
      <3>2. ctlQ' \in Seq(CtlRecord)
        BY <1>18, <3>1, EnqueueType DEF TypeOK, SetProduce
      <3>3. fr' \in [Threads -> Frame]
        BY <1>18, EmptyFrameType DEF TypeOK, SetProduce
      <3>. QED  BY <1>18, <3>2, <3>3 DEF TypeOK, SetProduce, Goto, PcValues
    <2>2. LockInv'
      BY <1>18 DEF TypeOK, LockInv, Goto, SetProduce
    <2>3. IdInv'
      BY <1>18 DEF TypeOK, LockInv, IdInv, HasSlot, Goto, SetProduce
    <2>. QED  BY <2>1, <2>2, <2>3
  <1>19. ASSUME CtlPoll PROVE CoreInv'
    <2>1. TypeOK'
      <3>1. ctlLog[ctlPos + 1] \in CtlRecord
        BY <1>19 DEF TypeOK, CtlPoll
      <3>2. aEnabled' \in [Flags -> BOOLEAN]
        BY <1>19, <3>1 DEF TypeOK, CtlPoll, StoreEnabled, CtlRecord
      <3>3. ctlPos' \in Nat /\ ctlPos' <= Len(ctlLog)
        BY <1>19 DEF TypeOK, CtlPoll, NextOffset
      <3>. QED  BY <1>19, <3>2, <3>3 DEF TypeOK, CtlPoll
    <2>2. LockInv'
      BY <1>19 DEF TypeOK, LockInv, Goto, CtlPoll, CtlApplies, StoreEnabled, NextOffset
    <2>3. IdInv'
      BY <1>19 DEF TypeOK, LockInv, IdInv, HasSlot, Goto, CtlPoll, CtlApplies, StoreEnabled, NextOffset
    <2>. QED  BY <2>1, <2>2, <2>3
  <1>20. ASSUME NEW id \in Ids \cup {FieldId}, NEW b \in BOOLEAN, RemoteToggle(id, b) PROVE CoreInv'
    <2>1. TypeOK'
      <3>1. [kind |-> "ctr_state", wid |-> id, enabled |-> b] \in CtlRecord
        BY DEF CtlRecord
      <3>2. ctlLog' \in Seq(CtlRecord) /\ ctlPos <= Len(ctlLog')
        <4>1. PICK x \in CtlRecord : ctlLog' = Append(ctlLog, x)
          BY <1>20, <3>1 DEF RemoteToggle
        <4>. QED  BY <4>1, AppendFacts DEF TypeOK
      <3>3. /\ remote' \in Nat
            /\ UNCHANGED <<facadeVars, sessionVars, threadVars, ctlThread, ctlPos, regVars, ctlQ, dataVars>>
        BY <1>20 DEF TypeOK, RemoteToggle
      <3>. QED  BY <3>2, <3>3 DEF TypeOK
    <2>2. LockInv'
      BY <1>20 DEF TypeOK, LockInv, Goto, RemoteToggle
    <2>3. IdInv'
      BY <1>20 DEF TypeOK, LockInv, IdInv, HasSlot, Goto, RemoteToggle
    <2>. QED  BY <2>1, <2>2, <2>3
  <1>21. ASSUME Deliver PROVE CoreInv'
    <2>1. TypeOK'
      <3>1. CASE regQ # <<>> /\ regQ' = Tail(regQ) /\ regLog' = Append(regLog, Head(regQ))
                 /\ UNCHANGED <<ctlTopic, dataVars>>
        <4>1. regQ' \in Seq(RegRecord) /\ regLog' \in Seq(RegRecord)
          BY <3>1, TailFacts, AppendFacts DEF TypeOK
        <4>. QED  BY <1>21, <3>1, <4>1 DEF TypeOK, Deliver
      <3>2. CASE ctlQ # <<>> /\ ctlQ' = Tail(ctlQ) /\ ctlLog' = Append(ctlLog, Head(ctlQ))
                 /\ UNCHANGED <<regVars, dataVars>>
        <4>1. ctlQ' \in Seq(CtlRecord) /\ ctlLog' \in Seq(CtlRecord) /\ ctlPos <= Len(ctlLog')
          BY <3>2, TailFacts, AppendFacts DEF TypeOK
        <4>. QED  BY <1>21, <3>2, <4>1 DEF TypeOK, Deliver
      <3>3. ASSUME NEW i \in Ids, dataQ[i] # <<>>,
                   dataQ'   = [dataQ EXCEPT ![i] = Tail(@)],
                   dataLog' = [dataLog EXCEPT ![i] = Append(@, Head(dataQ[i]))],
                   UNCHANGED <<regVars, ctlTopic>>
            PROVE  TypeOK'
        <4>1. Tail(dataQ[i]) \in Seq(Nat) /\ Append(dataLog[i], Head(dataQ[i])) \in Seq(Nat)
          BY <3>3, TailFacts, AppendFacts DEF TypeOK
        <4>2. dataQ' \in [Ids -> Seq(Nat)] /\ dataLog' \in [Ids -> Seq(Nat)]
          BY <3>3, <4>1 DEF TypeOK
        <4>. QED  BY <1>21, <3>3, <4>2 DEF TypeOK, Deliver
      <3>. QED  BY <1>21, <3>1, <3>2, <3>3 DEF Deliver
    <2>2. LockInv'
      BY <1>21 DEF TypeOK, LockInv, Goto, Deliver
    <2>3. IdInv'
      BY <1>21 DEF TypeOK, LockInv, IdInv, HasSlot, Goto, Deliver
    <2>. QED  BY <2>1, <2>2, <2>3
  <1>22. ASSUME UNCHANGED vars PROVE CoreInv'
    <2>1. TypeOK'
      BY <1>22 DEF TypeOK, vars
    <2>2. LockInv'
      BY <1>22 DEF TypeOK, LockInv, Goto, vars
    <2>3. IdInv'
      BY <1>22 DEF TypeOK, LockInv, IdInv, HasSlot, Goto, vars
    <2>. QED  BY <2>1, <2>2, <2>3
  <1>. QED
    BY <1>1, <1>2, <1>3, <1>4, <1>5, <1>6, <1>7, <1>8, <1>9, <1>10, <1>11, <1>12, <1>13, <1>14, <1>15, <1>16, <1>17, <1>18, <1>19, <1>20, <1>21, <1>22
    DEF Next, InCall, OpenStep, RegisterStep, BodyStep, Finished

-----------------------------------------------------------------------------
(* Type correctness.                                                       *)

LEMMA CoreAlways == Spec => []CoreInv
  BY CoreInit, CoreNext, PTL DEF Spec

\* Every variable keeps the type of its C++ declaration; an id a thread works
\* with after its registration, as an index of counters[] too, is below next_id,
\* and so is the id a Counter object holds; and only one thread at a time, the
\* owner of counters_mu, is between the peek of next_id and the push.
THEOREM TypeCorrect == Spec => [](TypeOK /\ LockInv /\ IdInv)
  BY CoreAlways DEF CoreInv

-----------------------------------------------------------------------------
(* Slots are not shared. SlotsNotShared is inductive relative to CoreInv:  *)
(* the peeked id is above every published one, and only one thread peeks.  *)

LEMMA SlotsStep == CoreInv /\ SlotsNotShared /\ [Next]_vars => SlotsNotShared'
  <1> SUFFICES ASSUME CoreInv, SlotsNotShared, [Next]_vars PROVE SlotsNotShared'
    OBVIOUS
  <1> USE DEF facadeVars, sessionVars, threadVars, ctlVars, regVars, ctlTopic, dataVars
  <1>0. /\ \A c \in Counters : cid[c] \in Nat
        /\ \A t \in Threads : fr[t].id \in Nat /\ fr[t].obj \in Counters
        /\ nextId \in Nat /\ nextId <= MaxSlots /\ NoId = MaxSlots /\ MaxSlots \in Nat
    <2>1. /\ \A c \in Counters : cid[c] \in Nat
          /\ \A t \in Threads : fr[t].id \in Nat /\ fr[t].obj \in Counters
      BY IdArith DEF CoreInv, TypeOK, Frame
    <2>. QED  BY <2>1, KAssumption DEF CoreInv, TypeOK, NoId
  <1>1. \A t \in Threads : Registering(t) => fr[t].id < MaxSlots
    BY <1>0, IdArith DEF CoreInv, TypeOK, LockInv, IdInv, HasSlot, Registering
  <1>2. ASSUME NEW t \in Threads, RegisterLock(t) PROVE SlotsNotShared'
    <2>1. /\ \A u \in Threads : Registering(u) => fr[u].id < nextId
          /\ \A c \in Counters : cid[c] # nextId
          /\ ~Registering(t)
      BY <1>2, <1>0 DEF CoreInv, LockInv, IdInv, HasSlot, Registering, RegisterLock, MutexFree, Goto
    <2>2. /\ fr'[t].id = nextId
          /\ \A u \in Threads : u # t => fr'[u] = fr[u] /\ (Registering(u)' <=> Registering(u))
      BY <1>2 DEF CoreInv, TypeOK, RegisterLock, Goto, Registering
    <2>. QED  BY <1>2, <1>0, <2>1, <2>2 DEF SlotsNotShared, RegisterLock
  <1>3. ASSUME NEW t \in Threads, RegisterFlush(t) PROVE SlotsNotShared'
    <2>1. /\ Registering(t) /\ ~Registering(t)'
          /\ \A u \in Threads : Registering(u)' => Registering(u) /\ u # t
      BY <1>3 DEF CoreInv, TypeOK, RegisterFlush, Goto, Registering
    <2>2. \A c \in Counters : cid'[c] = IF c = fr[t].obj THEN fr[t].id ELSE cid[c]
      BY <1>3 DEF CoreInv, TypeOK, RegisterFlush
    <2>. QED  BY <1>3, <1>0, <1>1, <2>1, <2>2 DEF SlotsNotShared, RegisterFlush
  <1>4. ASSUME UNCHANGED cid,
               \A t \in Threads : Registering(t)' => Registering(t) /\ fr'[t].id = fr[t].id
        PROVE  SlotsNotShared'
    BY <1>4 DEF SlotsNotShared
  <1>5. ASSUME NEW t \in Threads, NEW c \in Counters,
               NEW call \in {"add", "enable", "disable"}, CallFacade(t, c, call)
        PROVE  SlotsNotShared'
    BY <1>4, <1>5 DEF CoreInv, TypeOK, CallFacade, Goto, Registering
  <1>6. ASSUME NEW t \in Threads, OpenStep(t) PROVE SlotsNotShared'
    BY <1>4, <1>6 DEF CoreInv, TypeOK, OpenStep, ChannelHandle, OpenCtlTopic, OpenAnnounce,
                      OpenMarker, OpenFlush, OpenFinish, Goto, Registering
  <1>7. ASSUME NEW t \in Threads, RegisterPush(t) \/ RegisterRecord(t) \/ RegisterTopic(t)
        PROVE  SlotsNotShared'
    BY <1>4, <1>7 DEF CoreInv, TypeOK, RegisterPush, RegisterRecord, RegisterTopic, Goto, Registering
  <1>8. ASSUME NEW t \in Threads, BodyStep(t) PROVE SlotsNotShared'
    BY <1>4, <1>8 DEF CoreInv, TypeOK, BodyStep, SkipBody, AddCheck, AddSeq, AddProduce,
                      SetStore, SetProduce, Goto, Registering
  <1>9. ASSUME CtlPoll \/ (\E id \in Ids \cup {FieldId}, b \in BOOLEAN : RemoteToggle(id, b)) \/ Deliver
               \/ UNCHANGED vars
        PROVE  SlotsNotShared'
    BY <1>4, <1>9 DEF CtlPoll, RemoteToggle, Deliver, vars, Registering
  <1>. QED  BY <1>2, <1>3, <1>5, <1>6, <1>7, <1>8, <1>9 DEF Next, InCall, RegisterStep, Finished

\* Two Counter or UdtFeed objects never end up with one slot of
\* Kv8LogSession::counters, nor while they register concurrently.
THEOREM SlotsDistinct == Spec => []SlotsNotShared
  <1>1. Init => SlotsNotShared
    BY DEF Init, SlotsNotShared, Registering
  <1>. QED  BY CoreAlways, SlotsStep, <1>1, PTL DEF Spec

-----------------------------------------------------------------------------
(* The registry record of a counter is stored before any of its samples is *)
(* produced. RegInv follows one record through the registration: it is     *)
(* queued in phase 2, and phase 4 returns with an empty queue.             *)

InRegQ(id) == \E i \in 1 .. Len(regQ) : IsCounterRecord(regQ[i], id)

RegInv ==
  /\ \A t \in Threads : pc[t] \in {"reg_rkt", "reg_flush"} => InRegQ(fr[t].id) \/ Discoverable(fr[t].id)
  /\ \A c \in Counters : cid[c] # NoId => Discoverable(cid[c])
  /\ \A t \in Threads : pc[t] \in {"add_seq", "add_produce", "set_produce"} => Discoverable(fr[t].id)
  /\ RegistryFirst

\* what one step may do to the registry topic
RegTopicStep ==
  \/ UNCHANGED <<regQ, regLog>>
  \/ UNCHANGED regLog /\ \E x \in RegRecord : regQ' = Append(regQ, x)
  \/ regQ # <<>> /\ regQ' = Tail(regQ) /\ regLog' = Append(regLog, Head(regQ))

\* A stored record is never lost, a queued one is stored or still queued.
LEMMA RegistryKeeps ==
  ASSUME CoreInv, Faults = {}, [Next]_vars, NEW id
  PROVE  /\ Discoverable(id) => Discoverable(id)'
         /\ InRegQ(id) => InRegQ(id)' \/ Discoverable(id)'
  <1> USE DEF facadeVars, sessionVars, threadVars, ctlVars, regVars, ctlTopic, dataVars
  <1>0. /\ regQ \in Seq(RegRecord) /\ regLog \in Seq(RegRecord)
        /\ \A q, x : Enqueue(q, x) = Append(q, x)
    BY DEF CoreInv, TypeOK, Enqueue, QueueFull
  <1>1. CASE UNCHANGED regVars
    BY <1>1 DEF Discoverable, InRegQ, IsCounterRecord
  <1>2. CASE UNCHANGED regLog /\ \E x \in RegRecord : regQ' = Append(regQ, x)
    BY <1>0, <1>2, AppendFacts DEF Discoverable, InRegQ, IsCounterRecord
  <1>3. CASE regQ # <<>> /\ regQ' = Tail(regQ) /\ regLog' = Append(regLog, Head(regQ))
    <2>1. Discoverable(id) => Discoverable(id)'
      BY <1>0, <1>3, TailFacts, AppendFacts DEF Discoverable, IsCounterRecord
    <2>2. ASSUME NEW i \in 1 .. Len(regQ), IsCounterRecord(regQ[i], id)
          PROVE  InRegQ(id)' \/ Discoverable(id)'
      <3>1. CASE i = 1
        <4>1. regLog'[Len(regLog) + 1] = regQ[i] /\ Len(regLog) + 1 \in 1 .. Len(regLog')
          BY <1>0, <1>3, <2>2, <3>1, TailFacts, AppendFacts
        <4>. QED  BY <2>2, <4>1 DEF Discoverable, IsCounterRecord
      <3>2. CASE i # 1
        <4>1. regQ'[i - 1] = regQ[i] /\ i - 1 \in 1 .. Len(regQ')
          BY <1>0, <1>3, <2>2, <3>2, TailFacts
        <4>. QED  BY <2>2, <4>1 DEF InRegQ, IsCounterRecord
      <3>. QED  BY <3>1, <3>2
    <2>. QED  BY <2>1, <2>2 DEF InRegQ
  <1>4. RegTopicStep
    <2>1. /\ [kind |-> "LOG", id |-> NoId] \in RegRecord
          /\ [kind |-> "GROUP", id |-> NoId] \in RegRecord
          /\ \A t \in Threads : /\ [kind |-> "SCHEMA", id |-> fr[t].id] \in RegRecord
                                /\ [kind |-> CounterKind(fr[t].obj), id |-> fr[t].id] \in RegRecord
      BY DEF RegRecord, CounterKind, CoreInv, TypeOK, Frame
    <2>2. ASSUME NEW t \in Threads, OpenAnnounce(t) \/ RegisterRecord(t) PROVE RegTopicStep
      BY <1>0, <2>1, <2>2 DEF OpenAnnounce, RegisterRecord, RegTopicStep
    <2>3. ASSUME NEW t \in Threads, NEW c \in Counters,
                 NEW call \in {"add", "enable", "disable"}, CallFacade(t, c, call)
          PROVE  UNCHANGED regVars
      BY <2>3 DEF CallFacade
    <2>4. ASSUME NEW t \in Threads, OpenStep(t), ~OpenAnnounce(t) PROVE UNCHANGED regVars
      BY <2>4 DEF OpenStep, ChannelHandle, OpenCtlTopic, OpenMarker, OpenFlush, OpenFinish
    <2>5. ASSUME NEW t \in Threads, RegisterStep(t), ~RegisterRecord(t) PROVE UNCHANGED regVars
      BY <2>5 DEF RegisterStep, RegisterLock, RegisterPush, RegisterTopic, RegisterFlush
    <2>6. ASSUME NEW t \in Threads, BodyStep(t) PROVE UNCHANGED regVars
      BY <2>6 DEF BodyStep, SkipBody, AddCheck, AddSeq, AddProduce, SetStore, SetProduce
    <2>7. ASSUME CtlPoll \/ (\E i \in Ids \cup {FieldId}, b \in BOOLEAN : RemoteToggle(i, b)) \/ UNCHANGED vars
          PROVE  UNCHANGED regVars
      BY <2>7 DEF CtlPoll, RemoteToggle, vars
    <2>8. ASSUME Deliver PROVE RegTopicStep
      BY <2>8 DEF Deliver, RegTopicStep
    <2>. QED  BY <2>2, <2>3, <2>4, <2>5, <2>6, <2>7, <2>8 DEF Next, InCall, Finished, RegTopicStep
  <1>. QED  BY <1>1, <1>2, <1>3, <1>4 DEF RegTopicStep

LEMMA RegStep == CoreInv /\ RegInv /\ Faults = {} /\ [Next]_vars => RegInv'
  <1> SUFFICES ASSUME CoreInv, RegInv, Faults = {}, [Next]_vars PROVE RegInv'
    OBVIOUS
  <1> USE DEF facadeVars, sessionVars, threadVars, ctlVars, regVars, ctlTopic, dataVars
  <1>0. /\ \A id : Discoverable(id) => Discoverable(id)'
        /\ \A id : InRegQ(id) => InRegQ(id)' \/ Discoverable(id)'
    BY RegistryKeeps
  <1>1. /\ regQ \in Seq(RegRecord)
        /\ \A q, x : Enqueue(q, x) = Append(q, x)
    BY DEF CoreInv, TypeOK, Enqueue, QueueFull
  <1> DEFINE Rec(t) == pc[t] \in {"reg_rkt", "reg_flush"}
             Hot(t) == pc[t] \in {"add_seq", "add_produce", "set_produce"}
  \* the steps that hand no id to a new place and add no sample
  <1>2. ASSUME UNCHANGED cid,
               \A t \in Threads : /\ Rec(t)' => Rec(t) /\ fr'[t].id = fr[t].id
                                  /\ Hot(t)' => Hot(t) /\ fr'[t].id = fr[t].id,
               \A id \in Ids : dataLog'[id] # <<>> \/ dataQ'[id] # <<>>
                               => dataLog[id] # <<>> \/ dataQ[id] # <<>>
        PROVE  RegInv'
    BY <1>0, <1>2 DEF RegInv, RegistryFirst
  <1>3. ASSUME NEW t \in Threads, RegisterRecord(t) PROVE RegInv'
    <2>1. CASE pc[t] = "reg_schema"
      <3>1. \A u \in Threads : /\ Rec(u)' => Rec(u) /\ fr'[u].id = fr[u].id
                               /\ Hot(u)' => Hot(u) /\ fr'[u].id = fr[u].id
        BY <1>3, <2>1 DEF CoreInv, TypeOK, RegisterRecord, Goto
      <3>. QED  BY <1>2, <1>3, <3>1 DEF RegisterRecord
    <2>2. CASE pc[t] = "reg_record"
      <3>1. regQ' = Append(regQ, [kind |-> CounterKind(fr[t].obj), id |-> fr[t].id])
        BY <1>1, <1>3, <2>2 DEF RegisterRecord, Goto
      <3>2. InRegQ(fr[t].id)'
        <4>1. [kind |-> CounterKind(fr[t].obj), id |-> fr[t].id] \in RegRecord
          BY DEF RegRecord, CounterKind, CoreInv, TypeOK, Frame
        <4>2. /\ regQ'[Len(regQ) + 1] = [kind |-> CounterKind(fr[t].obj), id |-> fr[t].id]
              /\ Len(regQ) + 1 \in 1 .. Len(regQ')
          BY <1>1, <3>1, <4>1, AppendFacts
        <4>. QED  BY <1>3, <4>2 DEF InRegQ, IsCounterRecord, CounterKind, RegisterRecord
      <3>3. \A u \in Threads : /\ u # t => (Rec(u)' <=> Rec(u))
                               /\ Hot(u)' <=> Hot(u)
        BY <1>3, <2>2 DEF CoreInv, TypeOK, RegisterRecord, Goto
      <3>. QED  BY <1>0, <1>3, <3>2, <3>3 DEF RegInv, RegistryFirst, RegisterRecord
    <2>. QED  BY <1>3, <2>1, <2>2 DEF RegisterRecord, Goto
  <1>4. ASSUME NEW t \in Threads, RegisterFlush(t) PROVE RegInv'
    <2>1. ~InRegQ(fr[t].id)
      BY <1>4 DEF RegisterFlush, FlushReturns, OutqEmpty, InRegQ
    <2>2. Discoverable(fr[t].id)
      BY <1>4, <2>1 DEF RegInv, RegisterFlush, Goto
    <2>3. \A c \in Counters : cid'[c] = cid[c] \/ cid'[c] = fr[t].id
      BY <1>4 DEF CoreInv, TypeOK, RegisterFlush
    <2>4. \A u \in Threads : (Rec(u)' => Rec(u)) /\ (Hot(u)' => Hot(u))
      BY <1>4 DEF CoreInv, TypeOK, RegisterFlush, Goto
    <2>. QED  BY <1>0, <1>4, <2>2, <2>3, <2>4 DEF RegInv, RegistryFirst, RegisterFlush
  <1>5. ASSUME NEW t \in Threads, AddCheck(t) \/ SetStore(t) PROVE RegInv'
    <2>1. cid[fr[t].obj] # NoId
      BY <1>5, IdArith, KAssumption DEF CoreInv, TypeOK, AddCheck, SetStore, NoId
    <2>2. Discoverable(cid[fr[t].obj])
      BY <2>1 DEF RegInv, CoreInv, TypeOK, Frame
    <2>3. fr'[t].id = cid[fr[t].obj] /\ \A u \in Threads : u # t => fr'[u] = fr[u]
      BY <1>5 DEF AddCheck, SetStore, CoreInv, TypeOK, Frame
    <2>4. \A u \in Threads : (Rec(u)' => Rec(u) /\ u # t) /\ (u # t => (Hot(u)' => Hot(u)))
      BY <1>5 DEF CoreInv, TypeOK, AddCheck, SetStore, Goto
    <2>5. UNCHANGED <<cid, dataVars>>
      BY <1>5 DEF AddCheck, SetStore
    <2>. QED  BY <1>0, <2>2, <2>3, <2>4, <2>5 DEF RegInv, RegistryFirst
  <1>6. ASSUME NEW t \in Threads, AddProduce(t) PROVE RegInv'
    <2>1. Discoverable(fr[t].id)
      BY <1>6 DEF RegInv, AddProduce, Goto
    <2>2. \A id \in Ids : id # fr[t].id => dataQ'[id] = dataQ[id]
      BY <1>6 DEF AddProduce, CoreInv, TypeOK
    <2>3. \A u \in Threads : /\ Rec(u)' => Rec(u) /\ fr'[u].id = fr[u].id
                             /\ Hot(u)' => Hot(u) /\ fr'[u].id = fr[u].id
      BY <1>6 DEF CoreInv, TypeOK, AddProduce, Goto
    <2>. QED  BY <1>0, <1>6, <2>1, <2>2, <2>3 DEF RegInv, RegistryFirst, AddProduce
  <1>7. ASSUME Deliver PROVE RegInv'
    <2>1. ASSUME NEW id \in Ids, dataLog'[id] # <<>> \/ dataQ'[id] # <<>>
          PROVE  dataLog[id] # <<>> \/ dataQ[id] # <<>>
      BY <1>7, <2>1 DEF Deliver, CoreInv, TypeOK
    <2>. QED  BY <1>2, <1>7, <2>1 DEF Deliver
  <1>8. ASSUME NEW t \in Threads, NEW c \in Counters,
               NEW call \in {"add", "enable", "disable"}, CallFacade(t, c, call)
        PROVE  RegInv'
    BY <1>2, <1>8 DEF CoreInv, TypeOK, CallFacade, Goto
  <1>9. ASSUME NEW t \in Threads, OpenStep(t) PROVE RegInv'
    BY <1>2, <1>9 DEF CoreInv, TypeOK, OpenStep, ChannelHandle, OpenCtlTopic, OpenAnnounce,
                      OpenMarker, OpenFlush, OpenFinish, Goto
  <1>10. ASSUME NEW t \in Threads, RegisterLock(t) \/ RegisterPush(t) \/ RegisterTopic(t)
         PROVE  RegInv'
    BY <1>2, <1>10 DEF CoreInv, TypeOK, RegisterLock, RegisterPush, RegisterTopic, Goto
  <1>11. ASSUME NEW t \in Threads, SkipBody(t) \/ AddSeq(t) \/ SetProduce(t) PROVE RegInv'
    <2>1. CASE AddSeq(t)
      <3>1. \A u \in Threads : fr'[u].id = fr[u].id
        BY <2>1 DEF CoreInv, TypeOK, Frame, AddSeq
      <3>2. \A u \in Threads : (Rec(u)' => Rec(u)) /\ (Hot(u)' => Hot(u))
        BY <2>1 DEF CoreInv, TypeOK, AddSeq, Goto
      <3>. QED  BY <1>2, <2>1, <3>1, <3>2 DEF AddSeq
    <2>2. CASE SkipBody(t) \/ SetProduce(t)
      BY <1>2, <2>2 DEF CoreInv, TypeOK, SkipBody, SetProduce, Goto
    <2>. QED  BY <1>11, <2>1, <2>2
  <1>12. ASSUME CtlPoll \/ (\E id \in Ids \cup {FieldId}, b \in BOOLEAN : RemoteToggle(id, b)) \/ UNCHANGED vars
         PROVE  RegInv'
    BY <1>2, <1>12 DEF CtlPoll, RemoteToggle, vars
  <1>. QED
    BY <1>3, <1>4, <1>5, <1>6, <1>7, <1>8, <1>9, <1>10, <1>11, <1>12
    DEF Next, InCall, RegisterStep, BodyStep, Finished

\* While flushes complete and the queue has room, a data sample of a counter is
\* produced only after its registry record is stored, whatever the threads do.
THEOREM SamplesAreDiscoverable == Spec => []DiscoverableBeforeData
  <1>1. CASE Faults = {}
    <2>1. Init => RegInv
      BY DEF Init, RegInv, RegistryFirst
    <2>2. RegInv => DiscoverableBeforeData
      BY DEF RegInv, DiscoverableBeforeData
    <2>3. CoreInv /\ RegInv /\ [Next]_vars => RegInv'
      BY <1>1, RegStep
    <2>. QED  BY CoreAlways, <2>1, <2>2, <2>3, PTL DEF Spec
  <1>2. CASE Faults # {}
    <2>1. DiscoverableBeforeData
      BY <1>2 DEF DiscoverableBeforeData
    <2>. QED  BY <2>1, PTL
  <1>. QED  BY <1>1, <1>2

-----------------------------------------------------------------------------
(* The control topic is there before the registry tells of the session.    *)
(* AnnounceInv follows the tombstone that creates ._ctl: it is queued      *)
(* before the first flush, stored after it, and every record of the        *)
(* registry comes from a thread for which that flush has returned, its own *)
(* or that of the thread that opened the channel.                          *)

Announcing == {"open_log", "open_group", "open_flush2", "open_marker", "open_flush3",
               "reg_lock", "reg_push", "reg_schema", "reg_record"}

AnnounceInv ==
  /\ \A t \in Threads : pc[t] = "open_flush1" => ctlQ # <<>> \/ ctlLog # <<>>
  /\ \A t \in Threads : pc[t] \in Announcing => ctlLog # <<>>
  /\ chan = "open" => ctlLog # <<>>
  /\ regQ # <<>> \/ regLog # <<>> => ctlLog # <<>>

\* An appended sequence is not empty.
LEMMA AppendNotEmpty ==
  ASSUME NEW S, NEW s \in Seq(S), NEW x \in S
  PROVE  Append(s, x) # <<>>
  <1>1. Len(Append(s, x)) = Len(s) + 1 /\ Len(s) \in Nat /\ Len(<<>>) = 0
    BY AppendFacts
  <1>. QED  BY <1>1

\* What was stored on ._ctl stays, and what was queued is stored or still queued.
LEMMA CtlKeeps ==
  ASSUME CoreInv, Faults = {}, [Next]_vars
  PROVE  /\ ctlLog # <<>> => ctlLog' # <<>>
         /\ ctlQ # <<>> => ctlQ' # <<>> \/ ctlLog' # <<>>
  <1> USE DEF facadeVars, sessionVars, threadVars, ctlVars, regVars, ctlTopic, dataVars
  <1>0. /\ ctlQ \in Seq(CtlRecord) /\ ctlLog \in Seq(CtlRecord)
        /\ \A q, x : Enqueue(q, x) = Append(q, x)
    BY DEF CoreInv, TypeOK, Enqueue, QueueFull
  <1>1. CASE UNCHANGED ctlTopic
    BY <1>1
  <1>2. ASSUME NEW x \in CtlRecord, UNCHANGED ctlLog, ctlQ' = Append(ctlQ, x)
        PROVE  ctlQ' # <<>> /\ (ctlLog # <<>> => ctlLog' # <<>>)
    BY <1>0, <1>2, AppendNotEmpty
  <1>3. ASSUME NEW t \in Threads, OpenCtlTopic(t) \/ OpenMarker(t) \/ SetProduce(t)
        PROVE  ctlQ' # <<>> /\ (ctlLog # <<>> => ctlLog' # <<>>)
    <2>1. /\ [kind |-> "tombstone", wid |-> NoId, enabled |-> TRUE] \in CtlRecord
          /\ [kind |-> "session_open", wid |-> NoId, enabled |-> TRUE] \in CtlRecord
          /\ [kind |-> "ctr_state", wid |-> fr[t].id, enabled |-> fr[t].call = "enable"] \in CtlRecord
      BY DEF CtlRecord, CoreInv, TypeOK, Frame
    <2>. QED  BY <1>0, <1>2, <1>3, <2>1 DEF OpenCtlTopic, OpenMarker, SetProduce
  <1>4. ASSUME NEW j \in Ids \cup {FieldId}, NEW b \in BOOLEAN, RemoteToggle(j, b)
        PROVE  ctlLog' # <<>> /\ UNCHANGED ctlQ
    <2>1. [kind |-> "ctr_state", wid |-> j, enabled |-> b] \in CtlRecord
      BY DEF CtlRecord
    <2>. QED  BY <1>0, <1>4, <2>1, AppendNotEmpty DEF RemoteToggle
  <1>5. CASE Deliver
    <2>1. CASE ctlQ # <<>> /\ ctlLog' = Append(ctlLog, Head(ctlQ))
      <3>1. ctlLog' # <<>>
        BY <1>0, <2>1, TailFacts, AppendNotEmpty
      <3>. QED  BY <3>1
    <2>. QED  BY <1>1, <1>5, <2>1 DEF Deliver
  <1>6. ASSUME NEW t \in Threads, NEW c \in Counters,
               NEW call \in {"add", "enable", "disable"}, CallFacade(t, c, call)
        PROVE  UNCHANGED ctlTopic
    BY <1>6 DEF CallFacade
  <1>7. ASSUME NEW t \in Threads, OpenStep(t), ~OpenCtlTopic(t), ~OpenMarker(t)
        PROVE  UNCHANGED ctlTopic
    BY <1>7 DEF OpenStep, ChannelHandle, OpenAnnounce, OpenFlush, OpenFinish
  <1>8. ASSUME NEW t \in Threads, RegisterStep(t) PROVE UNCHANGED ctlTopic
    BY <1>8 DEF RegisterStep, RegisterLock, RegisterPush, RegisterRecord, RegisterTopic, RegisterFlush
  <1>9. ASSUME NEW t \in Threads, BodyStep(t), ~SetProduce(t) PROVE UNCHANGED ctlTopic
    BY <1>9 DEF BodyStep, SkipBody, AddCheck, AddSeq, AddProduce, SetStore
  <1>10. CASE CtlPoll \/ UNCHANGED vars
    BY <1>1, <1>10 DEF CtlPoll, vars
  <1>. QED  BY <1>1, <1>3, <1>4, <1>5, <1>6, <1>7, <1>8, <1>9, <1>10 DEF Next, InCall, Finished

LEMMA AnnounceStep == CoreInv /\ AnnounceInv /\ Faults = {} /\ [Next]_vars => AnnounceInv'
  <1> SUFFICES ASSUME CoreInv, AnnounceInv, Faults = {}, [Next]_vars PROVE AnnounceInv'
    OBVIOUS
  <1> USE DEF facadeVars, sessionVars, threadVars, ctlVars, regVars, ctlTopic, dataVars
  <1>0. /\ ctlLog # <<>> => ctlLog' # <<>>
        /\ ctlQ # <<>> => ctlQ' # <<>> \/ ctlLog' # <<>>
    BY CtlKeeps
  \* the steps after which no more threads announce and the registry is as empty as before
  <1>1. ASSUME \A t \in Threads : /\ pc'[t] = "open_flush1" => pc[t] = "open_flush1"
                                  /\ pc'[t] \in Announcing => pc[t] \in Announcing,
               chan' = "open" => chan = "open",
               regQ' # <<>> \/ regLog' # <<>> => regQ # <<>> \/ regLog # <<>>
        PROVE  AnnounceInv'
    BY <1>0, <1>1 DEF AnnounceInv
  \* the steps of a thread for which the first flush has returned
  <1>2. ASSUME ctlLog # <<>> PROVE AnnounceInv'
    BY <1>0, <1>2 DEF AnnounceInv
  <1>3. ASSUME NEW t \in Threads, NEW c \in Counters,
               NEW call \in {"add", "enable", "disable"}, CallFacade(t, c, call)
        PROVE  AnnounceInv'
    BY <1>1, <1>3 DEF CoreInv, TypeOK, CallFacade, Goto, Announcing
  <1>4. ASSUME NEW t \in Threads, ChannelHandle(t) PROVE AnnounceInv'
    <2>1. CASE chan = "new"
      BY <1>1, <1>4, <2>1 DEF CoreInv, TypeOK, ChannelHandle, Goto, Announcing
    <2>2. CASE chan = "open"
      BY <1>2, <2>2 DEF AnnounceInv
    <2>. QED  BY <1>4, <2>1, <2>2 DEF CoreInv, TypeOK, ChannelHandle
  <1>5. ASSUME NEW t \in Threads, OpenCtlTopic(t) PROVE AnnounceInv'
    <2>1. ctlQ' # <<>>
      <3>1. [kind |-> "tombstone", wid |-> NoId, enabled |-> TRUE] \in CtlRecord
        BY DEF CtlRecord
      <3>. QED  BY <1>5, <3>1, AppendNotEmpty DEF OpenCtlTopic, Enqueue, QueueFull, CoreInv, TypeOK
    <2>2. \A u \in Threads : pc'[u] \in Announcing => pc[u] \in Announcing
      BY <1>5 DEF CoreInv, TypeOK, OpenCtlTopic, Goto, Announcing
    <2>. QED  BY <1>0, <1>5, <2>1, <2>2 DEF AnnounceInv, OpenCtlTopic
  <1>6. ASSUME NEW t \in Threads, OpenFlush(t) PROVE AnnounceInv'
    <2>1. ctlQ = <<>>
      BY <1>6 DEF OpenFlush, FlushReturns, OutqEmpty
    <2>2. ctlLog # <<>>
      BY <1>6, <2>1 DEF OpenFlush, Goto, AnnounceInv, Announcing
    <2>. QED  BY <1>2, <2>2
  <1>7. ASSUME NEW t \in Threads, OpenAnnounce(t) \/ OpenMarker(t) \/ OpenFinish(t) PROVE AnnounceInv'
    BY <1>2, <1>7 DEF OpenAnnounce, OpenMarker, OpenFinish, Goto, AnnounceInv, Announcing
  <1>8. ASSUME NEW t \in Threads, RegisterLock(t) \/ RegisterPush(t) \/ RegisterRecord(t)
        PROVE  AnnounceInv'
    BY <1>2, <1>8 DEF RegisterLock, RegisterPush, RegisterRecord, Goto, AnnounceInv, Announcing
  <1>9. ASSUME NEW t \in Threads, RegisterTopic(t) \/ RegisterFlush(t) PROVE AnnounceInv'
    BY <1>1, <1>9 DEF CoreInv, TypeOK, RegisterTopic, RegisterFlush, Goto, Announcing
  <1>10. ASSUME NEW t \in Threads, BodyStep(t) PROVE AnnounceInv'
    BY <1>1, <1>10 DEF CoreInv, TypeOK, BodyStep, SkipBody, AddCheck, AddSeq, AddProduce,
                       SetStore, SetProduce, Goto, Announcing
  <1>11. ASSUME Deliver PROVE AnnounceInv'
    <2>1. regQ' # <<>> \/ regLog' # <<>> => regQ # <<>> \/ regLog # <<>>
      BY <1>11 DEF Deliver, CoreInv, TypeOK
    <2>. QED  BY <1>1, <1>11, <2>1 DEF Deliver
  <1>12. ASSUME CtlPoll \/ (\E id \in Ids \cup {FieldId}, b \in BOOLEAN : RemoteToggle(id, b)) \/ UNCHANGED vars
         PROVE  AnnounceInv'
    BY <1>1, <1>12 DEF CtlPoll, RemoteToggle, vars
  <1>. QED
    BY <1>3, <1>4, <1>5, <1>6, <1>7, <1>8, <1>9, <1>10, <1>11, <1>12
    DEF Next, InCall, OpenStep, RegisterStep, Finished

\* While flushes complete and the queue has room, whoever finds the session in
\* the registry finds its control topic too, whichever thread opened the session.
THEOREM CtlTopicFirst == Spec => []CtlTopicBeforeAnnouncement
  <1>1. CASE Faults = {}
    <2>1. Init => AnnounceInv
      BY DEF Init, AnnounceInv, Announcing
    <2>2. AnnounceInv => CtlTopicBeforeAnnouncement
      BY DEF AnnounceInv, CtlTopicBeforeAnnouncement
    <2>3. CoreInv /\ AnnounceInv /\ [Next]_vars => AnnounceInv'
      BY <1>1, AnnounceStep
    <2>. QED  BY CoreAlways, <2>1, <2>2, <2>3, PTL DEF Spec
  <1>2. CASE Faults # {}
    <2>1. CtlTopicBeforeAnnouncement
      BY <1>2 DEF CtlTopicBeforeAnnouncement
    <2>. QED  BY <2>1, PTL
  <1>. QED  BY <1>1, <1>2

-----------------------------------------------------------------------------
(* Commands on ._ctl. Those of the process carry the id of a registered    *)
(* object; those of kv8scope an id it read in a COUNTER record, and these  *)
(* are written after next_id has been published.                           *)

CountersBelow(s, n) == \A i \in 1 .. Len(s) : s[i].kind = "COUNTER" => s[i].id < n
Known(x, n) == x.kind = "ctr_state" => x.wid = FieldId \/ x.wid < n
CommandsBelow(s, n) == \A i \in 1 .. Len(s) : Known(s[i], n)

CmdInv ==
  /\ CountersBelow(regQ, nextId) /\ CountersBelow(regLog, nextId)
  /\ CommandsBelow(ctlQ, nextId) /\ CommandsBelow(ctlLog, nextId)

LEMMA CountersBelowFacts ==
  ASSUME NEW s \in Seq(RegRecord), NEW m \in Nat, NEW n \in Nat, m <= n, CountersBelow(s, m)
  PROVE  /\ CountersBelow(s, n)
         /\ \A x \in RegRecord : (x.kind = "COUNTER" => x.id < n) => CountersBelow(Append(s, x), n)
         /\ s # <<>> => /\ CountersBelow(Tail(s), n)
                        /\ Head(s).kind = "COUNTER" => Head(s).id < n
  <1>1. \A i \in 1 .. Len(s) : s[i].id \in Nat
    <2>1. \A x \in RegRecord : x.id \in Nat
      BY IdArith DEF RegRecord
    <2>. QED  BY <2>1
  <1>2. CountersBelow(s, n)
    BY <1>1 DEF CountersBelow
  <1>3. ASSUME NEW x \in RegRecord, x.kind = "COUNTER" => x.id < n
        PROVE  CountersBelow(Append(s, x), n)
    BY <1>2, <1>3, AppendFacts DEF CountersBelow
  <1>4. ASSUME s # <<>>
        PROVE  CountersBelow(Tail(s), n) /\ (Head(s).kind = "COUNTER" => Head(s).id < n)
    <2>1. /\ Len(s) \in Nat \ {0} /\ Head(s) = s[1] /\ Len(Tail(s)) = Len(s) - 1
          /\ \A i \in 1 .. Len(s) - 1 : Tail(s)[i] = s[i + 1]
      BY <1>4, TailFacts
    <2>. QED  BY <1>2, <2>1 DEF CountersBelow
  <1>. QED  BY <1>2, <1>3, <1>4

LEMMA CommandsBelowFacts ==
  ASSUME NEW s \in Seq(CtlRecord), NEW m \in Nat, NEW n \in Nat, m <= n, CommandsBelow(s, m)
  PROVE  /\ CommandsBelow(s, n)
         /\ \A x \in CtlRecord : Known(x, n) => CommandsBelow(Append(s, x), n)
         /\ s # <<>> => /\ CommandsBelow(Tail(s), n)
                        /\ Known(Head(s), n)
  <1>1. \A i \in 1 .. Len(s) : s[i].wid \in Nat
    <2>1. \A x \in CtlRecord : x.wid \in Nat
      <3>1. FieldId \in Nat
        BY KAssumption DEF FieldId
      <3>. QED  BY <3>1, IdArith DEF CtlRecord
    <2>. QED  BY <2>1
  <1>2. CommandsBelow(s, n)
    BY <1>1 DEF CommandsBelow, Known
  <1>3. ASSUME NEW x \in CtlRecord, Known(x, n)
        PROVE  CommandsBelow(Append(s, x), n)
    BY <1>2, <1>3, AppendFacts DEF CommandsBelow
  <1>4. ASSUME s # <<>>
        PROVE  CommandsBelow(Tail(s), n) /\ Known(Head(s), n)
    <2>1. /\ Len(s) \in Nat \ {0} /\ Head(s) = s[1] /\ Len(Tail(s)) = Len(s) - 1
          /\ \A i \in 1 .. Len(s) - 1 : Tail(s)[i] = s[i + 1]
      BY <1>4, TailFacts
    <2>. QED  BY <1>2, <2>1 DEF CommandsBelow
  <1>. QED  BY <1>2, <1>3, <1>4

LEMMA CmdStep == CoreInv /\ CmdInv /\ [Next]_vars => CmdInv'
  <1> SUFFICES ASSUME CoreInv, CmdInv, [Next]_vars PROVE CmdInv'
    OBVIOUS
  <1> USE DEF facadeVars, sessionVars, threadVars, ctlVars, regVars, ctlTopic, dataVars
  <1>0. /\ regQ \in Seq(RegRecord) /\ regLog \in Seq(RegRecord)
        /\ ctlQ \in Seq(CtlRecord) /\ ctlLog \in Seq(CtlRecord)
        /\ nextId \in Nat /\ nextId <= nextId
        /\ \A t \in Threads : fr[t].id \in Ids \cup {NoId}
    BY DEF CoreInv, TypeOK, Frame
  <1>r. ASSUME NEW x \in RegRecord, x.kind = "COUNTER" => x.id < nextId
        PROVE  CountersBelow(Enqueue(regQ, x), nextId)
    BY <1>0, <1>r, CountersBelowFacts DEF CmdInv, Enqueue
  <1>c. ASSUME NEW x \in CtlRecord, Known(x, nextId)
        PROVE  CommandsBelow(Enqueue(ctlQ, x), nextId)
    BY <1>0, <1>c, CommandsBelowFacts DEF CmdInv, Enqueue
  \* the steps that leave both topics and next_id alone
  <1>1. ASSUME UNCHANGED <<regVars, ctlTopic, nextId>> PROVE CmdInv'
    BY <1>1 DEF CmdInv
  <1>2. ASSUME NEW t \in Threads, NEW c \in Counters,
               NEW call \in {"add", "enable", "disable"}, CallFacade(t, c, call)
        PROVE  CmdInv'
    BY <1>1, <1>2 DEF CallFacade
  <1>3. ASSUME NEW t \in Threads, ChannelHandle(t) \/ OpenFlush(t) \/ OpenFinish(t) PROVE CmdInv'
    BY <1>1, <1>3 DEF ChannelHandle, OpenFlush, OpenFinish
  <1>4. ASSUME NEW t \in Threads, OpenCtlTopic(t) PROVE CmdInv'
    <2>1. [kind |-> "tombstone", wid |-> NoId, enabled |-> TRUE] \in CtlRecord
      BY DEF CtlRecord
    <2>. QED  BY <1>4, <1>c, <2>1 DEF OpenCtlTopic, CmdInv, Known
  <1>5. ASSUME NEW t \in Threads, OpenAnnounce(t) PROVE CmdInv'
    <2>1. /\ [kind |-> "LOG", id |-> NoId] \in RegRecord
          /\ [kind |-> "GROUP", id |-> NoId] \in RegRecord
      BY DEF RegRecord
    <2>2. CountersBelow(regQ', nextId)
      BY <1>5, <1>r, <2>1 DEF OpenAnnounce
    <2>. QED  BY <1>5, <2>2 DEF OpenAnnounce, CmdInv
  <1>6. ASSUME NEW t \in Threads, OpenMarker(t) PROVE CmdInv'
    <2>1. [kind |-> "session_open", wid |-> NoId, enabled |-> TRUE] \in CtlRecord
      BY DEF CtlRecord
    <2>. QED  BY <1>6, <1>c, <2>1 DEF OpenMarker, CmdInv, Known
  <1>7. ASSUME NEW t \in Threads, RegisterLock(t) \/ RegisterTopic(t) \/ RegisterFlush(t)
        PROVE  CmdInv'
    BY <1>1, <1>7 DEF RegisterLock, RegisterTopic, RegisterFlush
  <1>8. ASSUME NEW t \in Threads, RegisterPush(t) PROVE CmdInv'
    <2>1. nextId' \in Nat /\ nextId <= nextId'
      BY <1>0, <1>8 DEF RegisterPush
    <2>. QED  BY <1>0, <1>8, <2>1, CountersBelowFacts, CommandsBelowFacts DEF RegisterPush, CmdInv
  <1>9. ASSUME NEW t \in Threads, RegisterRecord(t) PROVE CmdInv'
    <2>1. fr[t].id < nextId
      BY <1>9 DEF CoreInv, IdInv, HasSlot, RegisterRecord, Goto
    <2>2. /\ [kind |-> "SCHEMA", id |-> fr[t].id] \in RegRecord
          /\ [kind |-> CounterKind(fr[t].obj), id |-> fr[t].id] \in RegRecord
      BY <1>0 DEF RegRecord, CounterKind
    <2>3. CountersBelow(regQ', nextId)
      BY <1>9, <1>r, <2>1, <2>2 DEF RegisterRecord
    <2>. QED  BY <1>9, <2>3 DEF RegisterRecord, CmdInv
  <1>10. ASSUME NEW t \in Threads,
                SkipBody(t) \/ AddCheck(t) \/ AddSeq(t) \/ AddProduce(t) \/ SetStore(t)
         PROVE  CmdInv'
    BY <1>1, <1>10 DEF SkipBody, AddCheck, AddSeq, AddProduce, SetStore
  <1>11. ASSUME NEW t \in Threads, SetProduce(t) PROVE CmdInv'
    <2>1. fr[t].id < nextId
      BY <1>11 DEF CoreInv, IdInv, HasSlot, SetProduce, Goto
    <2>2. [kind |-> "ctr_state", wid |-> fr[t].id, enabled |-> fr[t].call = "enable"] \in CtlRecord
      BY <1>0 DEF CtlRecord
    <2>. QED  BY <1>11, <1>c, <2>1, <2>2 DEF SetProduce, CmdInv, Known
  <1>12. ASSUME NEW id \in Ids \cup {FieldId}, NEW b \in BOOLEAN, RemoteToggle(id, b)
         PROVE  CmdInv'
    <2>1. id = FieldId \/ id < nextId
      BY <1>12 DEF RemoteToggle, CanToggle, CmdInv, CountersBelow
    <2>2. [kind |-> "ctr_state", wid |-> id, enabled |-> b] \in CtlRecord
      BY DEF CtlRecord
    <2>3. CommandsBelow(ctlLog', nextId)
      BY <1>0, <1>12, <2>1, <2>2, CommandsBelowFacts DEF RemoteToggle, CmdInv, Known
    <2>. QED  BY <1>12, <2>3 DEF RemoteToggle, CmdInv
  <1>13. ASSUME Deliver PROVE CmdInv'
    <2>1. CASE regQ # <<>> /\ regQ' = Tail(regQ) /\ regLog' = Append(regLog, Head(regQ))
               /\ UNCHANGED <<ctlTopic, dataVars>>
      <3>1. Head(regQ) \in RegRecord
        BY <1>0, <2>1, TailFacts
      <3>2. CountersBelow(regQ', nextId) /\ CountersBelow(regLog', nextId)
        BY <1>0, <2>1, <3>1, CountersBelowFacts DEF CmdInv
      <3>. QED  BY <1>13, <2>1, <3>2 DEF Deliver, CmdInv
    <2>2. CASE ctlQ # <<>> /\ ctlQ' = Tail(ctlQ) /\ ctlLog' = Append(ctlLog, Head(ctlQ))
               /\ UNCHANGED <<regVars, dataVars>>
      <3>1. Head(ctlQ) \in CtlRecord
        BY <1>0, <2>2, TailFacts
      <3>2. CommandsBelow(ctlQ', nextId) /\ CommandsBelow(ctlLog', nextId)
        BY <1>0, <2>2, <3>1, CommandsBelowFacts DEF CmdInv
      <3>. QED  BY <1>13, <2>2, <3>2 DEF Deliver, CmdInv
    <2>3. CASE UNCHANGED <<regVars, ctlTopic>>
      BY <1>1, <1>13, <2>3 DEF Deliver
    <2>. QED  BY <1>13, <2>1, <2>2, <2>3 DEF Deliver
  <1>14. ASSUME CtlPoll \/ UNCHANGED vars PROVE CmdInv'
    BY <1>1, <1>14 DEF CtlPoll, vars
  <1>. QED
    BY <1>2, <1>3, <1>4, <1>5, <1>6, <1>7, <1>8, <1>9, <1>10, <1>11, <1>12, <1>13, <1>14
    DEF Next, InCall, OpenStep, RegisterStep, BodyStep, Finished

LEMMA CmdAlways == Spec => []CmdInv
  <1>1. Init => CmdInv
    BY DEF Init, CmdInv, CountersBelow, CommandsBelow
  <1>. QED  BY CoreAlways, CmdStep, <1>1, PTL DEF Spec

\* No command on ._ctl, from the process or from kv8scope, ever names a slot
\* that the control thread would have to discard as unknown.
THEOREM CommandsAreKnown == Spec => []CommandsNameKnownCounters
  <1>1. CmdInv => CommandsNameKnownCounters
    BY DEF CmdInv, CommandsBelow, Known, CommandsNameKnownCounters
  <1>. QED  BY CmdAlways, <1>1, PTL

-----------------------------------------------------------------------------
(* The enabled flag and the control topic. Agree(id) is inductive: a flag  *)
(* changes either together with a command that is on its way (SetStore) or *)
(* by reading a command (CtlPoll), and a command is read in the order of   *)
(* the topic, so the last one decides.                                     *)

Agree(id) == InSync(id) \/ Pending(id)

\* One more record at the end of ._ctl, none read.
LEMMA CtlLogGrows ==
  ASSUME CoreInv, NEW id \in Ids, NEW x \in CtlRecord,
         ctlLog' = Append(ctlLog, x), UNCHANGED <<aEnabled, ctlPos>>
  PROVE  /\ IsCommand(x, id) => Pending(id)'
         /\ ~IsCommand(x, id) /\ InSync(id) => InSync(id)'
         /\ \A i \in 1 .. Len(ctlLog) : i \in 1 .. Len(ctlLog)' /\ ctlLog'[i] = ctlLog[i]
  <1>1. /\ ctlLog \in Seq(CtlRecord) /\ ctlPos \in Nat /\ ctlPos <= Len(ctlLog)
        /\ Len(ctlLog) \in Nat
    BY DEF CoreInv, TypeOK
  <1>2. /\ Len(ctlLog') = Len(ctlLog) + 1
        /\ \A i \in 1 .. Len(ctlLog) : ctlLog'[i] = ctlLog[i]
        /\ ctlLog'[Len(ctlLog) + 1] = x
    BY <1>1, AppendFacts
  <1>3. ASSUME IsCommand(x, id) PROVE Pending(id)'
    <2>1. /\ Len(ctlLog) + 1 \in 1 .. Len(ctlLog') /\ Len(ctlLog) + 1 > ctlPos'
          /\ IsCommand(ctlLog'[Len(ctlLog) + 1], id)
      BY <1>1, <1>2, <1>3
    <2>. QED  BY <2>1 DEF Pending, IsCommand
  <1>4. ASSUME ~IsCommand(x, id), InSync(id) PROVE InSync(id)'
    <2>1. \A i \in 1 .. Len(ctlLog') : IsCommand(ctlLog'[i], id) => i \in 1 .. Len(ctlLog)
      BY <1>1, <1>2, <1>4
    <2>. QED  BY <1>1, <1>2, <1>4, <2>1 DEF InSync, IsCommand
  <1>. QED  BY <1>1, <1>2, <1>3, <1>4

LEMMA SyncStep ==
  ASSUME "queue_full" \notin Faults, CoreInv, CmdInv, [Next]_vars,
         NEW id \in Ids \cap Flags, Agree(id)
  PROVE  Agree(id)'
  <1> USE DEF facadeVars, sessionVars, threadVars, ctlVars, regVars, ctlTopic, dataVars
  <1>0. /\ ctlQ \in Seq(CtlRecord) /\ ctlLog \in Seq(CtlRecord)
        /\ ctlPos \in Nat /\ ctlPos <= Len(ctlLog)
        /\ \A q, x : Enqueue(q, x) = Append(q, x)
    BY DEF CoreInv, TypeOK, Enqueue, QueueFull
  <1> DEFINE Setter(t) == pc[t] = "set_produce" /\ fr[t].id = id
             InQueue == \E i \in 1 .. Len(ctlQ) : IsCommand(ctlQ[i], id)
             Unread == \E i \in 1 .. Len(ctlLog) : i > ctlPos /\ IsCommand(ctlLog[i], id)
  <1>1. Pending(id) <=> Unread \/ InQueue \/ \E t \in Threads : Setter(t)
    BY DEF Pending
  <1>2. Pending(id)' <=> Unread' \/ InQueue' \/ \E t \in Threads : Setter(t)'
    BY DEF Pending, IsCommand
  <1>q. ASSUME NEW x \in CtlRecord, ctlQ' = Append(ctlQ, x)
        PROVE  (InQueue => InQueue') /\ (IsCommand(x, id) => InQueue')
    <2>1. /\ Len(ctlQ') = Len(ctlQ) + 1 /\ Len(ctlQ) \in Nat /\ ctlQ'[Len(ctlQ) + 1] = x
          /\ \A i \in 1 .. Len(ctlQ) : ctlQ'[i] = ctlQ[i]
      BY <1>0, <1>q, AppendFacts
    <2>2. Len(ctlQ) + 1 \in 1 .. Len(ctlQ')
      BY <2>1
    <2>. QED  BY <2>1, <2>2 DEF IsCommand
  \* the steps that keep the flag and the stored topic
  <1>3. ASSUME aEnabled'[id] = aEnabled[id], UNCHANGED <<ctlLog, ctlPos>>,
               InQueue => InQueue', \A t \in Threads : Setter(t) => Setter(t)'
        PROVE  Agree(id)'
    BY <1>1, <1>2, <1>3 DEF Agree, InSync, IsCommand
  <1>4. ASSUME NEW t \in Threads, NEW c \in Counters,
               NEW call \in {"add", "enable", "disable"}, CallFacade(t, c, call)
        PROVE  Agree(id)'
    BY <1>3, <1>4 DEF CallFacade, Goto, CoreInv, TypeOK, IsCommand
  <1>5. ASSUME NEW t \in Threads,
               ChannelHandle(t) \/ OpenAnnounce(t) \/ OpenFlush(t) \/ OpenFinish(t)
        PROVE  Agree(id)'
    BY <1>3, <1>5 DEF ChannelHandle, OpenAnnounce, OpenFlush, OpenFinish, Goto, CoreInv, TypeOK, IsCommand
  <1>6. ASSUME NEW t \in Threads, OpenCtlTopic(t) \/ OpenMarker(t) PROVE Agree(id)'
    <2>1. /\ [kind |-> "tombstone", wid |-> NoId, enabled |-> TRUE] \in CtlRecord
          /\ [kind |-> "session_open", wid |-> NoId, enabled |-> TRUE] \in CtlRecord
      BY DEF CtlRecord
    <2>2. InQueue => InQueue'
      BY <1>0, <1>6, <1>q, <2>1 DEF OpenCtlTopic, OpenMarker
    <2>. QED  BY <1>3, <1>6, <2>2 DEF OpenCtlTopic, OpenMarker, Goto, CoreInv, TypeOK
  <1>7. ASSUME NEW t \in Threads, RegisterStep(t) PROVE Agree(id)'
    BY <1>3, <1>7 DEF RegisterStep, RegisterLock, RegisterPush, RegisterRecord, RegisterTopic,
                      RegisterFlush, Goto, CoreInv, TypeOK, IsCommand
  <1>8. ASSUME NEW t \in Threads, SkipBody(t) \/ AddCheck(t) \/ AddSeq(t) \/ AddProduce(t)
        PROVE  Agree(id)'
    BY <1>3, <1>8 DEF SkipBody, AddCheck, AddSeq, AddProduce, Goto, CoreInv, TypeOK, IsCommand
  <1>9. ASSUME NEW t \in Threads, SetStore(t) PROVE Agree(id)'
    <2>1. /\ pc'[t] = "set_produce" /\ fr'[t].id = cid[fr[t].obj]
          /\ \A u \in Threads : Setter(u) => Setter(u)'
      BY <1>9 DEF SetStore, Goto, CoreInv, TypeOK, Frame
    <2>2. CASE cid[fr[t].obj] = id
      BY <1>2, <2>1, <2>2 DEF Agree
    <2>3. CASE cid[fr[t].obj] # id
      BY <1>3, <1>9, <2>1, <2>3 DEF SetStore, StoreEnabled, CoreInv, TypeOK, IsCommand
    <2>. QED  BY <2>2, <2>3
  <1>10. ASSUME NEW t \in Threads, SetProduce(t) PROVE Agree(id)'
    <2> DEFINE x == [kind |-> "ctr_state", wid |-> fr[t].id, enabled |-> fr[t].call = "enable"]
    <2>1. x \in CtlRecord /\ ctlQ' = Append(ctlQ, x)
      BY <1>0, <1>10 DEF CtlRecord, SetProduce, CoreInv, TypeOK, Frame
    <2>2. CASE fr[t].id = id
      <3>1. IsCommand(x, id)
        BY <2>2 DEF IsCommand
      <3>. QED  BY <1>2, <1>q, <2>1, <3>1 DEF Agree
    <2>3. CASE fr[t].id # id
      <3>1. \A u \in Threads : Setter(u) => Setter(u)'
        BY <1>10, <2>3 DEF SetProduce, Goto, CoreInv, TypeOK
      <3>. QED  BY <1>3, <1>10, <1>q, <2>1, <3>1 DEF SetProduce
    <2>. QED  BY <2>2, <2>3
  <1>11. ASSUME CtlPoll PROVE Agree(id)'
    <2> DEFINE rec == ctlLog[ctlPos + 1]
    <2>1. /\ ctlPos + 1 \in 1 .. Len(ctlLog) /\ rec \in CtlRecord
          /\ ctlPos' = ctlPos + 1 /\ UNCHANGED <<ctlLog, ctlQ, pc, fr>>
      BY <1>0, <1>11 DEF CtlPoll, NextOffset
    <2>2. CASE IsCommand(rec, id)
      <3>1. aEnabled'[id] = rec.enabled
        <4>1. CtlApplies(rec)
          BY <2>1, <2>2, KAssumption DEF CmdInv, CommandsBelow, Known, CtlApplies, IsCommand, Ids, FieldId
        <4>. QED  BY <1>11, <2>2, <4>1 DEF CtlPoll, StoreEnabled, IsCommand, CoreInv, TypeOK
      <3>2. CASE Unread'
        BY <1>2, <3>2 DEF Agree
      <3>3. CASE ~Unread'
        <4>1. \A i \in 1 .. Len(ctlLog) : IsCommand(ctlLog[i], id) => i <= ctlPos + 1
          BY <1>0, <2>1, <3>3 DEF IsCommand
        <4>2. ASSUME NEW i \in 1 .. Len(ctlLog), IsCommand(ctlLog[i], id),
                     \A j \in 1 .. Len(ctlLog) : j > i => ~IsCommand(ctlLog[j], id)
              PROVE  i = ctlPos + 1
          BY <1>0, <2>1, <2>2, <4>1, <4>2
        <4>3. InSync(id)'
          BY <2>1, <2>2, <3>1, <4>2 DEF InSync, IsCommand
        <4>. QED  BY <4>3 DEF Agree
      <3>. QED  BY <3>2, <3>3
    <2>3. CASE ~IsCommand(rec, id)
      <3>1. aEnabled'[id] = aEnabled[id]
        BY <1>11, <2>3 DEF CtlPoll, CtlApplies, StoreEnabled, IsCommand, CoreInv, TypeOK
      <3>2. CASE InSync(id)
        BY <2>1, <3>1, <3>2 DEF Agree, InSync, IsCommand
      <3>3. CASE Unread
        <4>1. PICK i \in 1 .. Len(ctlLog) : i > ctlPos /\ IsCommand(ctlLog[i], id)
          BY <3>3
        <4>2. i > ctlPos + 1
          BY <1>0, <2>3, <4>1
        <4>. QED  BY <1>2, <2>1, <4>1, <4>2 DEF Agree, IsCommand
      <3>4. CASE InQueue \/ \E t \in Threads : Setter(t)
        BY <1>2, <2>1, <3>4 DEF Agree, IsCommand
      <3>. QED  BY <1>1, <3>2, <3>3, <3>4 DEF Agree
    <2>. QED  BY <2>2, <2>3
  <1>l. ASSUME NEW x \in CtlRecord, ctlLog' = Append(ctlLog, x), UNCHANGED <<aEnabled, ctlPos, pc, fr>>,
               InQueue => InQueue' \/ IsCommand(x, id)
        PROVE  Agree(id)'
    <2>1. CASE IsCommand(x, id)
      BY <1>l, <2>1, CtlLogGrows DEF Agree
    <2>2. CASE ~IsCommand(x, id) /\ InSync(id)
      BY <1>l, <2>2, CtlLogGrows DEF Agree
    <2>3. CASE ~IsCommand(x, id) /\ Unread
      BY <1>2, <1>l, <2>3, CtlLogGrows DEF Agree, IsCommand
    <2>4. CASE ~IsCommand(x, id) /\ (InQueue \/ \E t \in Threads : Setter(t))
      BY <1>2, <1>l, <2>4 DEF Agree
    <2>. QED  BY <1>1, <2>1, <2>2, <2>3, <2>4 DEF Agree
  <1>12. ASSUME NEW j \in Ids \cup {FieldId}, NEW b \in BOOLEAN, RemoteToggle(j, b) PROVE Agree(id)'
    <2>1. [kind |-> "ctr_state", wid |-> j, enabled |-> b] \in CtlRecord
      BY DEF CtlRecord
    <2>2. InQueue => InQueue'
      BY <1>12 DEF RemoteToggle, IsCommand
    <2>. QED  BY <1>12, <1>l, <2>1, <2>2 DEF RemoteToggle
  <1>13. ASSUME Deliver PROVE Agree(id)'
    <2>1. CASE ctlQ # <<>> /\ ctlQ' = Tail(ctlQ) /\ ctlLog' = Append(ctlLog, Head(ctlQ))
      <3>1. /\ Head(ctlQ) \in CtlRecord /\ Head(ctlQ) = ctlQ[1] /\ Len(ctlQ) \in Nat \ {0}
            /\ Len(ctlQ') = Len(ctlQ) - 1
            /\ \A i \in 1 .. Len(ctlQ) - 1 : ctlQ'[i] = ctlQ[i + 1]
        BY <1>0, <2>1, TailFacts
      <3>2. ASSUME NEW i \in 1 .. Len(ctlQ), IsCommand(ctlQ[i], id), i # 1
            PROVE  InQueue'
        <4>1. i - 1 \in 1 .. Len(ctlQ') /\ ctlQ'[i - 1] = ctlQ[i]
          BY <3>1, <3>2
        <4>. QED  BY <3>2, <4>1 DEF IsCommand
      <3>. QED  BY <1>13, <1>l, <2>1, <3>1, <3>2 DEF Deliver
    <2>2. CASE UNCHANGED ctlTopic
      BY <1>3, <1>13, <2>2 DEF Deliver, IsCommand
    <2>. QED  BY <1>13, <2>1, <2>2 DEF Deliver
  <1>14. ASSUME UNCHANGED vars PROVE Agree(id)'
    BY <1>3, <1>14 DEF vars, IsCommand
  <1>. QED
    BY <1>4, <1>5, <1>6, <1>7, <1>8, <1>9, <1>10, <1>11, <1>12, <1>13, <1>14
    DEF Next, InCall, OpenStep, BodyStep, Finished

\* Whatever the race between local setters, remote commands and the echo of the
\* process's own commands, a counter with nothing pending obeys the last command.
THEOREM FlagFollowsCtl == Spec => []EnabledAgreesWithCtl
  <1>1. CASE "queue_full" \notin Faults
    <2> DEFINE AllAgree == \A id \in Ids \cap Flags : Agree(id)
    <2>1. Init => AllAgree
      <3> SUFFICES ASSUME Init, NEW id \in Ids \cap Flags PROVE InSync(id)
        BY DEF Agree
      <3>. QED  BY DEF Init, InSync
    <2>2. CoreInv /\ CmdInv /\ AllAgree /\ [Next]_vars => AllAgree'
      BY <1>1, SyncStep
    <2>3. AllAgree => EnabledAgreesWithCtl
      BY DEF Agree, EnabledAgreesWithCtl
    <2>. QED  BY CoreAlways, CmdAlways, <2>1, <2>2, <2>3, PTL DEF Spec
  <1>2. CASE "queue_full" \in Faults
    <2>1. EnabledAgreesWithCtl
      BY <1>2 DEF EnabledAgreesWithCtl
    <2>. QED  BY <2>1, PTL
  <1>. QED  BY <1>1, <1>2

-----------------------------------------------------------------------------
(* Every number of a data stream is in one place. RktInv says that the hot *)
(* path finds the topic handle that phase 3 has set, without which         *)
(* ProduceToTopic would drop the sample; Accounted is then inductive for   *)
(* each slot: AddSeq takes the next number, AddProduce puts it at the end  *)
(* of the queue, the broker moves the oldest.                              *)

RktInv ==
  /\ \A t \in Threads : pc[t] \in {"reg_flush", "add_seq", "add_produce"} => rkt[fr[t].id]
  /\ \A c \in Counters : cid[c] # NoId => rkt[cid[c]]

Sent(id)    == dataLog[id] \o dataQ[id]
Elements(s) == {s[i] : i \in 1 .. Len(s)}
Held(id)    == {fr[t].sn : t \in Holders(id)}

Accounted(id) ==
  /\ IsFiniteSet(Holders(id))
  /\ Elements(Sent(id)) \cup Held(id) = 0 .. seq[id] - 1
  /\ Len(Sent(id)) + Cardinality(Holders(id)) = seq[id]

\* One more element at the end.
LEMMA AppendElements ==
  ASSUME NEW S, NEW s \in Seq(S), NEW x \in S
  PROVE  Elements(Append(s, x)) = Elements(s) \cup {x}
  <1>1. Len(s) \in Nat
    OBVIOUS
  <1>2. ASSUME NEW v PROVE v \in Elements(Append(s, x)) <=> v \in Elements(s) \cup {x}
    BY <1>1, AppendFacts DEF Elements
  <1>. QED  BY <1>2

\* Appending to the queue appends to the stream.
LEMMA AppendStream ==
  ASSUME NEW s \in Seq(Nat), NEW q \in Seq(Nat), NEW x \in Nat
  PROVE  s \o q \in Seq(Nat) /\ s \o Append(q, x) = Append(s \o q, x)
  OBVIOUS

\* Storing the oldest queued element does not change the stream.
LEMMA MoveOldest ==
  ASSUME NEW S, NEW s \in Seq(S), NEW q \in Seq(S), q # <<>>
  PROVE  Append(s, Head(q)) \o Tail(q) = s \o q
  OBVIOUS

LEMMA RktStep == CoreInv /\ RktInv /\ [Next]_vars => RktInv'
  <1> SUFFICES ASSUME CoreInv, RktInv, [Next]_vars PROVE RktInv'
    OBVIOUS
  <1> USE DEF facadeVars, sessionVars, threadVars, ctlVars, regVars, ctlTopic, dataVars
  <1> DEFINE Uses(t) == pc[t] \in {"reg_flush", "add_seq", "add_produce"}
  \* the steps that give no id away
  <1>1. ASSUME UNCHANGED <<cid, rkt>>,
               \A t \in Threads : Uses(t)' => Uses(t) /\ fr'[t].id = fr[t].id
        PROVE  RktInv'
    BY <1>1 DEF RktInv
  <1>2. ASSUME NEW t \in Threads, NEW c \in Counters,
               NEW call \in {"add", "enable", "disable"}, CallFacade(t, c, call)
        PROVE  RktInv'
    BY <1>1, <1>2 DEF CoreInv, TypeOK, CallFacade, Goto
  <1>3. ASSUME NEW t \in Threads, OpenStep(t) PROVE RktInv'
    BY <1>1, <1>3 DEF CoreInv, TypeOK, OpenStep, ChannelHandle, OpenCtlTopic, OpenAnnounce,
                      OpenMarker, OpenFlush, OpenFinish, Goto
  <1>4. ASSUME NEW t \in Threads, RegisterLock(t) \/ RegisterPush(t) \/ RegisterRecord(t)
        PROVE  RktInv'
    BY <1>1, <1>4 DEF CoreInv, TypeOK, RegisterLock, RegisterPush, RegisterRecord, Goto
  <1>5. ASSUME NEW t \in Threads, RegisterTopic(t) PROVE RktInv'
    <2>1. fr[t].id \in Ids
      BY <1>5, PublishedIsSlot DEF CoreInv, TypeOK, Frame, IdInv, HasSlot, RegisterTopic, Goto
    <2>2. /\ rkt'[fr[t].id] = TRUE /\ \A i : rkt[i] /\ i \in Ids => rkt'[i]
          /\ UNCHANGED <<cid, fr>>
          /\ \A u \in Threads : u # t => (Uses(u)' <=> Uses(u))
      BY <1>5, <2>1 DEF CoreInv, TypeOK, RegisterTopic, Goto
    <2>3. \A u \in Threads : Uses(u) => fr[u].id \in Ids
      BY PublishedIsSlot DEF CoreInv, TypeOK, Frame, IdInv, HasSlot
    <2>. QED  BY <2>2, <2>3 DEF RktInv, CoreInv, TypeOK
  <1>6. ASSUME NEW t \in Threads, RegisterFlush(t) PROVE RktInv'
    <2>1. rkt[fr[t].id]
      BY <1>6 DEF RktInv, RegisterFlush, Goto
    <2>2. /\ \A c \in Counters : cid'[c] = cid[c] \/ cid'[c] = fr[t].id
          /\ \A u \in Threads : Uses(u)' => Uses(u)
      BY <1>6 DEF CoreInv, TypeOK, RegisterFlush, Goto
    <2>. QED  BY <1>6, <2>1, <2>2 DEF RktInv, RegisterFlush
  <1>7. ASSUME NEW t \in Threads, AddCheck(t) PROVE RktInv'
    <2>1. cid[fr[t].obj] # NoId
      BY <1>7, KAssumption, IdArith DEF CoreInv, TypeOK, AddCheck, NoId
    <2>2. rkt[cid[fr[t].obj]]
      BY <2>1 DEF RktInv, CoreInv, TypeOK, Frame
    <2>3. /\ fr'[t].id = cid[fr[t].obj] /\ \A u \in Threads : u # t => fr'[u] = fr[u]
          /\ \A u \in Threads : u # t => (Uses(u)' <=> Uses(u))
      BY <1>7 DEF AddCheck, Goto, CoreInv, TypeOK, Frame
    <2>. QED  BY <1>7, <2>2, <2>3 DEF RktInv, AddCheck
  <1>8. ASSUME NEW t \in Threads, AddSeq(t) PROVE RktInv'
    <2>1. \A u \in Threads : fr'[u].id = fr[u].id /\ (Uses(u)' <=> Uses(u))
      BY <1>8 DEF CoreInv, TypeOK, Frame, AddSeq, Goto
    <2>. QED  BY <1>1, <1>8, <2>1 DEF AddSeq
  <1>9. ASSUME NEW t \in Threads, SkipBody(t) \/ AddProduce(t) \/ SetProduce(t) PROVE RktInv'
    BY <1>1, <1>9 DEF CoreInv, TypeOK, SkipBody, AddProduce, SetProduce, Goto
  <1>10. ASSUME NEW t \in Threads, SetStore(t) PROVE RktInv'
    BY <1>1, <1>10 DEF CoreInv, TypeOK, SetStore, Goto
  <1>11. ASSUME CtlPoll \/ (\E id \in Ids \cup {FieldId}, b \in BOOLEAN : RemoteToggle(id, b)) \/ Deliver
                \/ UNCHANGED vars
         PROVE  RktInv'
    BY <1>1, <1>11 DEF CtlPoll, RemoteToggle, Deliver, vars
  <1>. QED
    BY <1>2, <1>3, <1>4, <1>5, <1>6, <1>7, <1>8, <1>9, <1>10, <1>11
    DEF Next, InCall, RegisterStep, BodyStep, Finished

LEMMA AccountedStep ==
  ASSUME "queue_full" \notin Faults, CoreInv, RktInv, [Next]_vars, NEW id \in Ids, Accounted(id)
  PROVE  Accounted(id)'
  <1> USE DEF facadeVars, sessionVars, threadVars, ctlVars, regVars, ctlTopic, dataVars
  <1>0. /\ dataQ[id] \in Seq(Nat) /\ dataLog[id] \in Seq(Nat) /\ seq[id] \in Nat
        /\ \A q, x : Enqueue(q, x) = Append(q, x)
    BY DEF CoreInv, TypeOK, Enqueue, QueueFull
  <1>h. /\ IsFiniteSet(Holders(id))
        /\ Elements(Sent(id)) \cup Held(id) = 0 .. seq[id] - 1
        /\ Len(Sent(id)) + Cardinality(Holders(id)) = seq[id]
        /\ Len(Sent(id)) \in Nat /\ Cardinality(Holders(id)) \in Nat
    <2>1. IsFiniteSet(Holders(id)) /\ Sent(id) \in Seq(Nat)
      BY <1>0 DEF Accounted, Sent
    <2>. QED  BY <2>1, FS_CardinalityType DEF Accounted
  <1> DEFINE Holds(t) == pc[t] = "add_produce" /\ fr[t].id = id
  \* the steps that take no number of this slot and move none
  <1>1. ASSUME Sent(id)' = Sent(id), seq'[id] = seq[id],
               \A t \in Threads : /\ Holds(t)' <=> Holds(t)
                                  /\ Holds(t) => fr'[t].sn = fr[t].sn
        PROVE  Accounted(id)'
    <2>1. Holders(id)' = Holders(id)
      BY <1>1 DEF Holders
    <2>2. Held(id)' = Held(id)
      BY <1>1, <2>1 DEF Held, Holders
    <2>3. Elements(Sent(id))' = Elements(Sent(id))
      BY <1>1 DEF Elements
    <2>. QED  BY <1>h, <1>1, <2>1, <2>2, <2>3 DEF Accounted
  <1>2. ASSUME NEW t \in Threads, NEW c \in Counters,
               NEW call \in {"add", "enable", "disable"}, CallFacade(t, c, call)
        PROVE  Accounted(id)'
    BY <1>1, <1>2 DEF CoreInv, TypeOK, CallFacade, Goto, Sent
  <1>3. ASSUME NEW t \in Threads, OpenStep(t) PROVE Accounted(id)'
    BY <1>1, <1>3 DEF CoreInv, TypeOK, OpenStep, ChannelHandle, OpenCtlTopic, OpenAnnounce,
                      OpenMarker, OpenFlush, OpenFinish, Goto, Sent
  <1>4. ASSUME NEW t \in Threads, RegisterStep(t) PROVE Accounted(id)'
    BY <1>1, <1>4 DEF CoreInv, TypeOK, RegisterStep, RegisterLock, RegisterPush, RegisterRecord,
                      RegisterTopic, RegisterFlush, Goto, Sent
  <1>5. ASSUME NEW t \in Threads, SkipBody(t) \/ AddCheck(t) \/ SetStore(t) \/ SetProduce(t)
        PROVE  Accounted(id)'
    BY <1>1, <1>5 DEF CoreInv, TypeOK, SkipBody, AddCheck, SetStore, SetProduce, Goto, Sent
  <1>6. ASSUME NEW t \in Threads, AddSeq(t) PROVE Accounted(id)'
    <2>0. UNCHANGED dataVars /\ Sent(id)' = Sent(id) /\ Elements(Sent(id))' = Elements(Sent(id))
      BY <1>6 DEF AddSeq, Sent, Elements
    <2>1. CASE fr[t].id # id
      <3>1. \A u \in Threads : (Holds(u)' <=> Holds(u)) /\ (Holds(u) => fr'[u].sn = fr[u].sn)
        BY <1>6, <2>1 DEF CoreInv, TypeOK, Frame, AddSeq, Goto
      <3>. QED  BY <1>1, <1>6, <2>0, <2>1, <3>1 DEF AddSeq, CoreInv, TypeOK
    <2>2. CASE fr[t].id = id
      <3>1. /\ ~Holds(t) /\ Holds(t)' /\ fr'[t].sn = seq[id] /\ seq'[id] = seq[id] + 1
            /\ \A u \in Threads : u # t => (Holds(u)' <=> Holds(u)) /\ fr'[u] = fr[u]
        BY <1>6, <2>2 DEF CoreInv, TypeOK, Frame, AddSeq, NextSeq, Goto
      <3>2. Holders(id)' = Holders(id) \cup {t} /\ t \notin Holders(id)
        BY <3>1 DEF Holders
      <3>3. /\ IsFiniteSet(Holders(id))' /\ Cardinality(Holders(id))' = Cardinality(Holders(id)) + 1
        BY <1>h, <3>2, FS_AddElement
      <3>4. Held(id)' = Held(id) \cup {seq[id]}
        BY <3>1, <3>2 DEF Held, Holders
      <3>5. (Elements(Sent(id)) \cup Held(id))' = (0 .. seq[id] - 1) \cup {seq[id]}
        BY <1>h, <2>0, <3>4
      <3>6. (0 .. seq[id] - 1) \cup {seq[id]} = 0 .. (seq[id] + 1) - 1
        BY <1>0
      <3>. QED  BY <1>h, <2>0, <3>1, <3>3, <3>5, <3>6 DEF Accounted
    <2>. QED  BY <2>1, <2>2
  <1>7. ASSUME NEW t \in Threads, AddProduce(t) PROVE Accounted(id)'
    <2>0. /\ rkt[fr[t].id] /\ pc[t] = "add_produce" /\ fr[t].sn \in Nat
          /\ dataQ' = [dataQ EXCEPT ![fr[t].id] = Append(@, fr[t].sn)]
          /\ UNCHANGED <<dataLog, seq>>
      BY <1>0, <1>7 DEF AddProduce, Goto, RktInv, CoreInv, TypeOK, Frame
    <2>1. CASE fr[t].id # id
      <3>1. \A u \in Threads : (Holds(u)' <=> Holds(u)) /\ (Holds(u) => fr'[u].sn = fr[u].sn)
        BY <1>7, <2>1 DEF CoreInv, TypeOK, AddProduce, Goto
      <3>2. Sent(id)' = Sent(id)
        BY <2>0, <2>1 DEF Sent, CoreInv, TypeOK
      <3>. QED  BY <1>1, <2>0, <3>1, <3>2
    <2>2. CASE fr[t].id = id
      <3>1. /\ Holds(t) /\ ~Holds(t)'
            /\ \A u \in Threads : u # t => (Holds(u)' <=> Holds(u)) /\ fr'[u] = fr[u]
        BY <1>7, <2>2 DEF CoreInv, TypeOK, AddProduce, Goto
      <3>2. Holders(id)' = Holders(id) \ {t} /\ t \in Holders(id)
        BY <3>1 DEF Holders
      <3>3. /\ IsFiniteSet(Holders(id))' /\ Cardinality(Holders(id))' = Cardinality(Holders(id)) - 1
        BY <1>h, <3>2, FS_RemoveElement
      <3>4. Held(id) = Held(id)' \cup {fr[t].sn}
        BY <3>1, <3>2 DEF Held, Holders
      <3>5. /\ Elements(Sent(id))' = Elements(Sent(id)) \cup {fr[t].sn}
            /\ Len(Sent(id))' = Len(Sent(id)) + 1
        <4>1. Sent(id)' = Append(Sent(id), fr[t].sn) /\ Sent(id) \in Seq(Nat)
          <5>1. Sent(id)' = dataLog[id] \o Append(dataQ[id], fr[t].sn)
            BY <2>0, <2>2 DEF Sent, CoreInv, TypeOK
          <5>2. dataLog[id] \in Seq(Nat) /\ dataQ[id] \in Seq(Nat) /\ fr[t].sn \in Nat
            BY <1>0, <2>0
          <5>. QED  BY <5>1, <5>2, AppendStream DEF Sent
        <4>2. Elements(Sent(id))' = Elements(Append(Sent(id), fr[t].sn))
          BY <4>1 DEF Elements
        <4>. QED  BY <2>0, <4>1, <4>2, AppendElements, AppendFacts
      <3>. QED  BY <1>h, <2>0, <3>3, <3>4, <3>5 DEF Accounted
    <2>. QED  BY <2>1, <2>2
  <1>8. ASSUME Deliver PROVE Accounted(id)'
    <2>1. Sent(id)' = Sent(id)
      <3>1. CASE dataQ'[id] = dataQ[id] /\ dataLog'[id] = dataLog[id]
        BY <3>1 DEF Sent
      <3>2. CASE /\ dataQ[id] # <<>> /\ dataQ'[id] = Tail(dataQ[id])
                 /\ dataLog'[id] = Append(dataLog[id], Head(dataQ[id]))
        BY <1>0, <3>2, MoveOldest DEF Sent
      <3>. QED  BY <1>8, <3>1, <3>2 DEF Deliver, CoreInv, TypeOK
    <2>. QED  BY <1>1, <1>8, <2>1 DEF Deliver
  <1>9. ASSUME CtlPoll \/ (\E j \in Ids \cup {FieldId}, b \in BOOLEAN : RemoteToggle(j, b)) \/ UNCHANGED vars
        PROVE  Accounted(id)'
    BY <1>1, <1>9 DEF CtlPoll, RemoteToggle, vars, Sent
  <1>. QED
    BY <1>2, <1>3, <1>4, <1>5, <1>6, <1>7, <1>8, <1>9 DEF Next, InCall, BodyStep, Finished

LEMMA AccountedInit == Init => RktInv /\ \A id \in Ids : Accounted(id)
  <1> SUFFICES ASSUME Init PROVE RktInv /\ \A id \in Ids : Accounted(id)
    OBVIOUS
  <1>1. RktInv
    BY DEF Init, RktInv
  <1>2. ASSUME NEW id \in Ids PROVE Accounted(id)
    <2>1. Holders(id) = {} /\ Held(id) = {}
      BY DEF Init, Holders, Held
    <2>2. Sent(id) = <<>> /\ Len(Sent(id)) = 0 /\ seq[id] = 0
      BY DEF Init, Sent
    <2>3. Elements(Sent(id)) = {} /\ 0 .. 0 - 1 = {}
      BY <2>2 DEF Elements
    <2>. QED  BY <2>1, <2>2, <2>3, FS_EmptySet DEF Accounted
  <1>. QED  BY <1>1, <1>2

\* With room in the outbound queue no number that CounterSlot::seq has given is
\* lost or used twice, with any number of threads in add() at once.
THEOREM NoNumberLost == Spec => []SamplesAccounted
  <1>1. CASE "queue_full" \notin Faults
    <2> DEFINE AllAccounted == \A id \in Ids : Accounted(id)
    <2>1. Init => RktInv /\ AllAccounted
      BY AccountedInit
    <2>2. CoreInv /\ RktInv /\ AllAccounted /\ [Next]_vars => RktInv' /\ AllAccounted'
      BY <1>1, RktStep, AccountedStep
    <2>3. AllAccounted => SamplesAccounted
      BY DEF Accounted, Sent, Elements, Held, SamplesAccounted
    <2>. QED  BY CoreAlways, <2>1, <2>2, <2>3, PTL DEF Spec
  <1>2. CASE "queue_full" \in Faults
    <2>1. SamplesAccounted
      BY <1>2 DEF SamplesAccounted
    <2>. QED  BY <2>1, PTL
  <1>. QED  BY <1>1, <1>2

=============================================================================
