--------------------------- MODULE AnnotationSync ---------------------------
(***************************************************************************)
(* Annotations of one session: every kv8scope window of the session keeps  *)
(* an AnnotationStore, publishes its own changes to <session>._annotations *)
(* and reads that topic twice at once, from the beginning: with the live   *)
(* consumer of its ConsumerThread and with a replay thread that ends at    *)
(* the end of the topic or after two seconds. Both push into one pending   *)
(* queue, which the render thread drains once a frame. The live consumers  *)
(* of all windows are one consumer group, kv8scope-<session>: the broker   *)
(* gives the partition of the topic to one of them at a time.              *)
(*                                                                         *)
(* Title, description, type and time of an annotation are its version. The *)
(* topic has one partition (records are keyed by the annotation id).       *)
(***************************************************************************)
EXTENDS Naturals, Sequences, SequencesExt, FiniteSetsExt

CONSTANTS
  Windows,     \* kv8scope windows (several instances) showing the session
  Compaction,  \* is the topic log-compacted, as AnnotationStore.h asks
  MaxClock,    \* bound: seconds that pass
  MaxAdds,     \* bound: annotations added by one AnnotationStore
  MaxWrites,   \* bound: records published by all windows
  MaxOpens,    \* bound: windows opened or reinitialised
  MaxPend      \* bound: records pending in one store

Ids      == (0 .. MaxClock) \X (1 .. MaxAdds)   \* "%08x-%llu": second and m_nNextID
NoId     == <<>>
NoOwner  == "none"
Absent   == [ver |-> 0, deleted |-> FALSE]      \* not in m_annotations
Versions == 1 .. MaxWrites
Record   == [kind : {"ann", "del"}, id : Ids, ver : Versions]

VARIABLES
  clock,     \* std::time(nullptr)
  open,      \* the windows that are open
  store,     \* [Windows -> [Ids -> [ver, deleted]]]  m_annotations
  nextSeq,   \* [Windows -> Nat]  m_nNextID
  editing,   \* [Windows -> id]   the annotation in the editor, or NoId
  pend,      \* [Windows -> Seq(Record)]  m_pendingItems
  outq,      \* [Windows -> Seq(Record)]  outbound queue of m_pAnnProducer
  owner,     \* the window whose live consumer has the partition, or NoOwner
  live,      \* [Windows -> Nat]  offset of the live consumer
  replay,    \* [Windows -> Nat]  offset of the replay thread; when it has ended,
             \*                   the end of the topic at that time (history)
  replaying, \* the windows whose replay thread runs
  topic,     \* the records of the topic, by offset
  gone,      \* the offsets compaction has removed
  opens,     \* windows opened so far (bound)
  writes     \* records published so far; each takes the next version (bound)

windowVars  == <<open, store, nextSeq, editing>>
readerVars  == <<pend, owner, live, replay, replaying>>
topicVars   == <<outq, topic, gone>>
boundVars   == <<opens, writes>>
vars == <<clock, windowVars, readerVars, topicVars, boundVars>>

Init ==
  /\ clock = 0 /\ open = {} /\ opens = 0 /\ writes = 0
  /\ store = [w \in Windows |-> [id \in Ids |-> Absent]]
  /\ nextSeq = [w \in Windows |-> 1]
  /\ editing = [w \in Windows |-> NoId]
  /\ pend = [w \in Windows |-> <<>>] /\ outq = [w \in Windows |-> <<>>]
  /\ live = [w \in Windows |-> 0] /\ replay = [w \in Windows |-> 0]
  /\ replaying = {} /\ owner = NoOwner
  /\ topic = <<>> /\ gone = {}

-----------------------------------------------------------------------------
(* The window.                                                             *)

\* a consumer that stops leaves the group
LeaveGroup(w) == owner' = IF owner = w THEN NoOwner ELSE owner

\* the live consumer and the replay thread of a fresh ConsumerThread
StartReaders(w) ==
  /\ live' = [live EXCEPT ![w] = 0]
  /\ replay' = [replay EXCEPT ![w] = 0]
  /\ replaying' = replaying \cup {w}

\* ScopeWindow constructor: a new AnnotationStore, then the consumer thread
OpenWindow(w) ==
  /\ w \notin open /\ opens < MaxOpens
  /\ opens' = opens + 1
  /\ open' = open \cup {w}
  /\ StartReaders(w)
  /\ UNCHANGED <<clock, store, nextSeq, editing, pend, owner, topicVars, writes>>

\* Run() joins its replay thread before the thread counts as done
ThreadsDone(w) == w \notin replaying

\* MetaUpdated: once the old thread, its replay included, is done, a new one
\* reads the topic into the same store again
Reinit(w) ==
  /\ w \in open /\ ThreadsDone(w) /\ opens < MaxOpens
  /\ opens' = opens + 1
  /\ LeaveGroup(w) /\ StartReaders(w)
  /\ UNCHANGED <<clock, windowVars, pend, topicVars, writes>>

\* the destructor joins the threads, and the producer flushes its queue
CloseWindow(w) ==
  /\ w \in open /\ ThreadsDone(w) /\ outq[w] = <<>>
  /\ open' = open \ {w}
  /\ store' = [store EXCEPT ![w] = [id \in Ids |-> Absent]]
  /\ nextSeq' = [nextSeq EXCEPT ![w] = 1]
  /\ editing' = [editing EXCEPT ![w] = NoId]
  /\ pend' = [pend EXCEPT ![w] = <<>>]
  /\ LeaveGroup(w)
  /\ live' = [live EXCEPT ![w] = 0] /\ replay' = [replay EXCEPT ![w] = 0]
  /\ UNCHANGED <<clock, replaying, topicVars, boundVars>>

Tick == clock < MaxClock /\ clock' = clock + 1
        /\ UNCHANGED <<windowVars, readerVars, topicVars, boundVars>>

NewId(w) == <<clock, nextSeq[w]>>

Publish(w, rec) == outq' = [outq EXCEPT ![w] = Append(@, rec)]

\* AnnotationStore::Add (a store that already holds the new id is not followed)
Add(w) ==
  LET id == NewId(w) IN
  /\ w \in open /\ nextSeq[w] <= MaxAdds /\ writes < MaxWrites
  /\ store[w][id] = Absent
  /\ nextSeq' = [nextSeq EXCEPT ![w] = @ + 1]
  /\ store' = [store EXCEPT ![w][id] = [ver |-> writes + 1, deleted |-> FALSE]]
  /\ Publish(w, [kind |-> "ann", id |-> id, ver |-> writes + 1]) /\ writes' = writes + 1
  /\ UNCHANGED <<clock, open, editing, readerVars, topic, gone, opens>>

\* the panel offers its buttons for the annotations that are not deleted
Offered(w, id) == w \in open /\ store[w][id] # Absent /\ ~store[w][id].deleted

\* also in place of the annotation that was being edited
OpenEditor(w, id) ==
  /\ Offered(w, id) /\ editing[w] # id
  /\ editing' = [editing EXCEPT ![w] = id]
  /\ UNCHANGED <<clock, open, store, nextSeq, readerVars, topicVars, boundVars>>

\* AnnotationStore::Edit, with whatever became of the annotation meanwhile
SaveEdit(w) ==
  LET id == editing[w] IN
  /\ w \in open /\ id # NoId /\ writes < MaxWrites
  /\ store[w][id] # Absent
  /\ store' = [store EXCEPT ![w][id].ver = writes + 1]
  /\ Publish(w, [kind |-> "ann", id |-> id, ver |-> writes + 1]) /\ writes' = writes + 1
  /\ editing' = [editing EXCEPT ![w] = NoId]
  /\ UNCHANGED <<clock, open, nextSeq, readerVars, topic, gone, opens>>

\* AnnotationStore::Delete
Delete(w, id) ==
  /\ Offered(w, id) /\ writes < MaxWrites
  /\ store' = [store EXCEPT ![w][id].deleted = TRUE]
  /\ Publish(w, [kind |-> "del", id |-> id, ver |-> writes + 1]) /\ writes' = writes + 1
  /\ UNCHANGED <<clock, open, nextSeq, editing, readerVars, topic, gone, opens>>

-----------------------------------------------------------------------------
(* The topic and its readers.                                              *)

Deliver(w) ==
  /\ outq[w] # <<>>
  /\ outq' = [outq EXCEPT ![w] = Tail(@)]
  /\ topic' = Append(topic, Head(outq[w]))
  /\ UNCHANGED <<clock, windowVars, readerVars, gone, boundVars>>

\* compaction removes a record that has a newer one with the same key
Compact(o) ==
  /\ Compaction
  /\ o \notin gone /\ \E n \in o + 1 .. Len(topic) : topic[n].id = topic[o].id
  /\ gone' = gone \cup {o}
  /\ UNCHANGED <<clock, windowVars, readerVars, outq, topic, boundVars>>

\* RebalanceCb: the partition is new to the consumer and read from its
\* beginning; nor is an offset ever committed to which it could return
Assign(w) ==
  /\ w \in open /\ owner # w
  /\ owner' = w
  /\ live' = [live EXCEPT ![w] = 0]
  /\ UNCHANGED <<clock, windowVars, pend, replay, replaying, topicVars, boundVars>>

\* the pending queue after a reader at offset o has gone on to the next record
PushFromKafka(w, o) ==
  /\ Len(pend[w]) < MaxPend
  /\ pend' = IF o + 1 \in gone THEN pend ELSE [pend EXCEPT ![w] = Append(@, topic[o + 1])]

LivePush(w) ==
  /\ owner = w /\ live[w] < Len(topic)
  /\ PushFromKafka(w, live[w])
  /\ live' = [live EXCEPT ![w] = @ + 1]
  /\ UNCHANGED <<clock, windowVars, owner, replay, replaying, topicVars, boundVars>>

ReplayPush(w) ==
  /\ w \in replaying /\ replay[w] < Len(topic)
  /\ PushFromKafka(w, replay[w])
  /\ replay' = [replay EXCEPT ![w] = @ + 1]
  /\ UNCHANGED <<clock, windowVars, owner, live, replaying, topicVars, boundVars>>

\* end of the topic, or the hard timeout of two seconds
ReplayEnd(w) ==
  /\ w \in replaying
  /\ replaying' = replaying \ {w}
  /\ replay' = [replay EXCEPT ![w] = Len(topic)]
  /\ UNCHANGED <<clock, windowVars, pend, owner, live, topicVars, boundVars>>

\* plausible bugs: a delete that erases the entry (and lets an older record
\* bring it back), an upsert that only inserts
ErasesOnDelete(entry, rec) ==
  IF rec.kind = "del" THEN Absent ELSE [ver |-> rec.ver, deleted |-> FALSE]
InsertsOnly(entry, rec) ==
  IF rec.kind = "ann" THEN IF entry = Absent THEN [ver |-> rec.ver, deleted |-> FALSE] ELSE entry
  ELSE IF entry = Absent THEN Absent ELSE [entry EXCEPT !.deleted = TRUE]

\* what a pending record does to the entry with its id: an upsert keeps the
\* deleted flag, a delete marker for an unknown id is ignored
Applied(entry, rec) ==
  IF rec.kind = "ann" THEN [entry EXCEPT !.ver = rec.ver]
  ELSE IF entry = Absent THEN Absent ELSE [entry EXCEPT !.deleted = TRUE]

DrainPending(w) ==
  /\ w \in open /\ pend[w] # <<>>
  /\ store' = [store EXCEPT ![w] =
       FoldLeft(LAMBDA s, rec : [s EXCEPT ![rec.id] = Applied(@, rec)], @, pend[w])]
  /\ pend' = [pend EXCEPT ![w] = <<>>]
  /\ UNCHANGED <<clock, open, nextSeq, editing, owner, live, replay, replaying, topicVars, boundVars>>

-----------------------------------------------------------------------------
Next ==
  \/ Tick
  \/ \E o \in 1 .. Len(topic) : Compact(o)
  \/ \E w \in Windows :
       \/ OpenWindow(w) \/ Reinit(w) \/ CloseWindow(w)
       \/ Add(w) \/ SaveEdit(w)
       \/ \E id \in Ids : OpenEditor(w, id) \/ Delete(w, id)
       \/ Deliver(w) \/ Assign(w) \/ LivePush(w) \/ ReplayPush(w) \/ ReplayEnd(w) \/ DrainPending(w)

Spec == Init /\ [][Next]_vars

-----------------------------------------------------------------------------
(* Properties.                                                             *)

\* the ids of the records of a kind published so far, by any window
Published(kind) ==
  {rec.id : rec \in {r \in ToSet(topic) \cup UNION {ToSet(outq[w]) : w \in Windows} : r.kind = kind}}

\* Types, and no reader is past the end of the topic.
TypeOK ==
  /\ clock \in 0 .. MaxClock /\ open \subseteq Windows /\ opens \in Nat
  /\ store \in [Windows -> [Ids -> [ver : 0 .. MaxWrites, deleted : BOOLEAN]]]
  /\ nextSeq \in [Windows -> Nat] /\ editing \in [Windows -> Ids \cup {NoId}]
  /\ pend \in [Windows -> Seq(Record)] /\ outq \in [Windows -> Seq(Record)]
  /\ live \in [Windows -> 0 .. Len(topic)] /\ replay \in [Windows -> 0 .. Len(topic)]
  /\ replaying \subseteq open /\ owner \in open \cup {NoOwner}
  /\ topic \in Seq(Record) /\ gone \subseteq 1 .. Len(topic)

\* Everything published is in the topic, the live consumer that has the
\* partition is at its end, and window w has drained what it was given.
Settled(w) ==
  /\ w \in open \ replaying /\ pend[w] = <<>>
  /\ owner # NoOwner /\ live[owner] = Len(topic)
  /\ \A v \in Windows : outq[v] = <<>>

Knows(w, ids) == \A id \in ids : store[w][id] = Absent \/ store[w][id].deleted

\* the deleted ids, except those edited after their marker in a topic that
\* compaction has been through
OffsetsOf(id) == {o \in 1 .. Len(topic) : topic[o].id = id}
DeletedIds ==
  {id \in Published("del") : \/ OffsetsOf(id) \cap gone = {}
                             \/ topic[Max(OffsetsOf(id))].kind = "del"}

\* A window never brings an annotation back that it has shown as deleted.
DeletedStays ==
  [][\A w \in open \cap open', id \in Ids : store[w][id].deleted => store'[w][id].deleted]_vars

LastRecord(id) ==
  {o \in 1 .. Len(topic) : /\ topic[o].kind = "ann" /\ topic[o].id = id
                           /\ \A n \in o + 1 .. Len(topic) : topic[n].kind = "ann" => topic[n].id # id}

\* The delete marker is published "so other instances and future loads know
\* the annotation is deleted" (AnnotationStore.cpp:337): whatever the replay
\* and the live consumer pushed in whatever order, the window whose live
\* consumer has the partition shows no annotation any window ever deleted
\* (compaction leaves the last record of an annotation only: a marker that
\* is not the last one is lost). And an annotation saved after it finished its
\* replay reaches that window (unless compaction removed it for a newer one):
\* concurrent editors agree on the version the topic has last.
ChangesKnown ==
  \A w \in Windows : Settled(w) /\ owner = w =>
    /\ Knows(w, DeletedIds)
    /\ \A id \in Ids : \A o \in LastRecord(id) : o > replay[w] /\ o \notin gone => store[w][id].ver = topic[o].ver

=============================================================================
