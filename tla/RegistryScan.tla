---------------------------- MODULE RegistryScan ----------------------------
(***************************************************************************)
(* IKv8Consumer::DiscoverSessions: one scan of the topic <channel>._registry*)
(* from its beginning, by a consumer of its own, while sessions go on      *)
(* registering their feeds and users of kv8scope delete sessions. The scan *)
(* stops at the end-of-partition events or at a deadline and builds the    *)
(* metadata of the sessions from what it has read. A call keeps nothing    *)
(* for the next one, so that one call is modelled.                         *)
(*                                                                         *)
(* A registry record is its kind, its session and, for a schema or a feed, *)
(* the schema. A schema is the hash of its JSON text; the text names the   *)
(* type it defines and the types embedded in it. The LOG and GROUP records *)
(* of a session are one SESSION record here. Scalar counters, names,       *)
(* ranges, time anchors and trace-log sites (module TraceLog) are left out.*)
(***************************************************************************)
EXTENDS Naturals, Sequences, SequencesExt, Functions

CONSTANTS
  Sessions,
  Schemas,     \* hashes of the schema texts
  HashOrder,   \* Seq(Schemas): the hashes in ascending order
  TypeName,    \* [Schemas -> type names]  "name" of the text
  Embeds,      \* [Schemas -> SUBSET type names]  the field types that are no primitives
  Feed,        \* [Sessions -> Seq(Schemas)] what the UdtFeed of the session registers: the
               \*   schemas it embeds, one as often as it is embedded, then its own
  MaxParts,    \* bound: partitions of the registry topic
  MaxSpread    \* bound: records in a topic of several partitions

TypeNames == {TypeName[h] : h \in Schemas}

ASSUME RegistryAssumption ==
  /\ HashOrder \in Seq(Schemas) /\ ToSet(HashOrder) = Schemas
  /\ \A s \in Sessions : Feed[s] \in Seq(Schemas) /\ Feed[s] # <<>>
  /\ \A s \in Sessions : \A i \in 1 .. Len(Feed[s]) : \A n \in Embeds[Feed[s][i]] :
       \E j \in 1 .. i - 1 : TypeName[Feed[s][j]] = n
  \* a program has one struct Kv8UDT_<Name> (KV8_UDT_DEFINE)
  /\ \A s \in Sessions : \A g, h \in ToSet(Feed[s]) : TypeName[g] = TypeName[h] => g = h
  /\ MaxParts \in Nat \ {0} /\ MaxSpread \in Nat

NoSchema == "none"

Record == [kind : {"SESSION", "SCHEMA", "FEED", "DELETED"},
           session : Sessions, schema : Schemas \cup {NoSchema}]

Rec(kind, s, h) == [kind |-> kind, session |-> s, schema |-> h]

\* what a session writes: WriteSessionHeader, then UdtFeed::DoRegister
Program(s) ==
  <<Rec("SESSION", s, NoSchema)>>
  \o [i \in 1 .. Len(Feed[s]) |-> Rec("SCHEMA", s, Feed[s][i])]
  \o <<Rec("FEED", s, Last(Feed[s]))>>

VARIABLES
  parts,    \* num.partitions of the topic
  registry, \* [1..parts -> Seq(Record)]
  step,     \* [Sessions -> Nat]  records of Program(s) written
  phase,    \* of the call: before, scan, after
  nParts,   \* partitions assigned
  pos,      \* [partitions -> Nat]  offsets of the consumer
  eofAt,    \* [partitions -> Nat]  offset of the last end-of-partition event, plus one
  nEof,     \* end-of-partition events counted
  acc,      \* sessions, feeds, schemaCache, deletedPrefixes of the scan
  result,   \* what the call returned
  start,    \* history: ends of the partitions when the scan began
  ok        \* history: the scan assigned every partition, met no deadline, and
            \*   a topic of several partitions did not grow meanwhile

topicVars == <<parts, registry, step>>
scanVars  == <<phase, nParts, pos, eofAt, nEof, acc, start>>
vars == <<topicVars, scanVars, result, ok>>

Partitions == 1 .. MaxParts

Nothing == [found |-> {}, feeds |-> {}, cache |-> {}, deleted |-> {}]
NoMeta  == [sessions |-> {}, fields |-> {}]

Init ==
  /\ parts \in Partitions
  /\ registry = [p \in Partitions |-> <<>>] /\ step = [s \in Sessions |-> 0]
  /\ phase = "before" /\ nParts = 0 /\ pos = [p \in Partitions |-> 0]
  /\ eofAt = [p \in Partitions |-> 0] /\ nEof = 0 /\ acc = Nothing
  /\ start = [p \in Partitions |-> 0]
  /\ result = NoMeta /\ ok = FALSE

-----------------------------------------------------------------------------
(* Writers of the registry.                                                *)

\* registry records have no key: any partition
Register(s) ==
  /\ step[s] < Len(Program(s)) /\ phase # "after"
  /\ parts > 1 => FoldFunction(LAMBDA q, n : n + Len(q), 0, registry) < MaxSpread
  /\ step' = [step EXCEPT ![s] = @ + 1]
  /\ \E p \in 1 .. parts : registry' = [registry EXCEPT ![p] = Append(@, Program(s)[step[s] + 1])]
  /\ UNCHANGED <<parts, scanVars, result, ok>>

Tombstone(s) == Rec("DELETED", s, NoSchema)

\* MarkSessionDeleted of a session some user has seen: partition 0, once
MarkSessionDeleted(s) ==
  /\ step[s] >= 1 /\ phase # "after" /\ Tombstone(s) \notin ToSet(registry[1])
  /\ registry' = [registry EXCEPT ![1] = Append(@, Tombstone(s))]
  /\ UNCHANGED <<parts, step, scanVars, result, ok>>

-----------------------------------------------------------------------------
(* The scan.                                                               *)

\* QueryPartitionCount falls back to 1 on an error
PartitionCount == {parts, 1}

BeginScan ==
  /\ phase = "before" /\ phase' = "scan"
  /\ nParts' \in PartitionCount
  /\ start' = [p \in Partitions |-> Len(registry[p])]
  /\ UNCHANGED <<topicVars, pos, eofAt, nEof, acc, result, ok>>

\* sSchemaJson is set if the schema was read before the feed
HasJson(a, r) == r.schema \in a.cache

\* ParseRegistryRecord
Parsed(a, r) ==
  CASE r.kind = "DELETED" -> [a EXCEPT !.deleted = @ \cup {r.session}]
    [] r.kind = "SCHEMA"  -> [a EXCEPT !.cache = @ \cup {r.schema}]
    [] r.kind = "FEED"    -> [a EXCEPT !.found = @ \cup {r.session},
                                !.feeds = @ \cup {[session |-> r.session, schema |-> r.schema,
                                                   json |-> HasJson(a, r)]}]
    [] OTHER              -> [a EXCEPT !.found = @ \cup {r.session}]

ReadRecord(p) ==
  /\ phase = "scan" /\ nEof < nParts /\ p <= nParts
  /\ pos[p] < Len(registry[p])
  /\ pos' = [pos EXCEPT ![p] = @ + 1]
  /\ acc' = Parsed(acc, registry[p][pos[p] + 1])
  /\ UNCHANGED <<topicVars, phase, nParts, eofAt, nEof, start, result, ok>>

\* RD_KAFKA_RESP_ERR__PARTITION_EOF: once each time the end is reached
PartitionEof(p) ==
  /\ phase = "scan" /\ nEof < nParts /\ p <= nParts
  /\ pos[p] = Len(registry[p]) /\ eofAt[p] # pos[p] + 1
  /\ eofAt' = [eofAt EXCEPT ![p] = pos[p] + 1]
  /\ nEof' = nEof + 1
  /\ UNCHANGED <<topicVars, phase, nParts, pos, acc, start, result, ok>>

\* plausible bug: a field of an unknown type is skipped
ResolveAnyway(st, h) ==
  LET flat == {h} \cup UNION {st.known[n] : n \in Embeds[h]}
  IN  IF st.layout[h] # {} THEN st
      ELSE [layout |-> [st.layout EXCEPT ![h] = flat],
            known  |-> [st.known EXCEPT ![TypeName[h]] = flat]]

\* One schema of a pass over the unresolved ones: ParseUdtSchema succeeds when
\* each embedded type name is known, and makes its own name known. The layout
\* is the set of the schemas whose fields it is flattened from.
TryResolve(st, h) ==
  IF st.layout[h] = {} /\ \A n \in Embeds[h] : st.known[n] # {}
  THEN LET flat == {h} \cup UNION {st.known[n] : n \in Embeds[h]}
       IN  [layout |-> [st.layout EXCEPT ![h] = flat],
            known  |-> [st.known EXCEPT ![TypeName[h]] = flat]]
  ELSE st

\* A pass over the schemas read, in the order of the std::map.
Pass(cache, st) ==
  FoldLeft(LAMBDA now, h : IF h \in cache THEN TryResolve(now, h) ELSE now, st, HashOrder)

Unresolved == [layout |-> [h \in Schemas |-> {}], known |-> [n \in TypeNames |-> {}]]

\* The fixed point of DiscoverSessions: as many passes as there are schemas, no
\* further one makes progress.
ResolvedSchemas(cache) == FoldLeft(LAMBDA st, h : Pass(cache, st), Unresolved, HashOrder).layout

\* tombstones win, wherever in the registry they are
Surviving(a) == a.found \ a.deleted

\* the virtual fields of the feeds, and the filter
SessionsOf(a) ==
  LET layout == ResolvedSchemas(a.cache)
      live   == Surviving(a)
  IN  [sessions |-> live,
       fields |-> {[session |-> f.session, schema |-> f.schema, layout |-> layout[f.schema]] :
                    f \in {g \in a.feeds : g.session \in live /\ g.json /\ layout[g.schema] # {}}}]

\* plausible bug: the loop ends at the first event
FirstEof == nEof >= 1
AllEof == nEof >= nParts

Return ==
  /\ phase' = "after" /\ result' = SessionsOf(acc)
  /\ UNCHANGED <<topicVars, nParts, pos, eofAt, nEof, acc, start>>

Quiet == \A p \in 1 .. parts : Len(registry[p]) = start[p]

EndScan ==
  /\ phase = "scan" /\ AllEof
  /\ ok' = (nParts = parts /\ (parts = 1 \/ Quiet))
  /\ Return

\* ten seconds have passed; the caller is not told
ScanTimeout == phase = "scan" /\ ~AllEof /\ ok' = FALSE /\ Return

Next ==
  \/ \E s \in Sessions : Register(s) \/ MarkSessionDeleted(s)
  \/ BeginScan \/ EndScan \/ ScanTimeout
  \/ \E p \in Partitions : ReadRecord(p) \/ PartitionEof(p)

Spec == Init /\ [][Next]_vars

-----------------------------------------------------------------------------
(* Properties.                                                             *)

\* Types; the consumer is never past the end.
TypeOK ==
  /\ parts \in Partitions /\ registry \in [Partitions -> Seq(Record)]
  /\ step \in [Sessions -> Nat] /\ phase \in {"before", "scan", "after"}
  /\ nParts \in (IF phase = "before" THEN {0} ELSE 1 .. parts) /\ nEof \in Nat
  /\ \A p \in Partitions : pos[p] \in 0 .. Len(registry[p]) /\ eofAt[p] <= pos[p] + 1
  /\ acc.found \subseteq Sessions /\ acc.deleted \subseteq Sessions /\ acc.cache \subseteq Schemas
  /\ result.sessions \subseteq Sessions /\ ok \in BOOLEAN

\* the records that were in the topic when the scan began
Before == UNION {ToSet(SubSeq(registry[p], 1, start[p])) : p \in 1 .. parts}

\* "Track how many partitions have signalled EOF so we stop once all are done"
\* (Kv8Consumer.cpp:742): a scan that met no deadline has read all that was in
\* the topic when it began, if the topic has one partition or nobody wrote to
\* it meanwhile. (Otherwise a partition that grows signals its end twice and
\* stands for one that was never read.) So a deleted session does not come
\* back, and one that is not deleted is there, though its records may lie
\* before and after its tombstone, in several partitions, and may still be
\* being written during the scan.
ScanExact ==
  phase = "after" /\ ok =>
    /\ \A p \in 1 .. parts : pos[p] >= start[p]
    /\ \A s \in Sessions :
         /\ Tombstone(s) \in Before => s \notin result.sessions
         /\ (\E r \in Before : r.session = s) /\ Tombstone(s) \notin ToSet(registry[1])
              => s \in result.sessions

\* The schemas of the feed of a session that schema x is made of, itself and those
\* it embeds, at any depth: the least set with x that has what its members embed.
EmbedClosed(s, S) ==
  \A g \in S : \A h \in ToSet(Feed[s]) : TypeName[h] \in Embeds[g] => h \in S
MadeOf(s, x) ==
  {h \in ToSet(Feed[s]) : \A S \in SUBSET ToSet(Feed[s]) : x \in S /\ EmbedClosed(s, S) => h \in S}

\* the layout a session writes its samples with: its own versions of the types
WriterLayout(s) == MadeOf(s, Last(Feed[s]))

\* no other text for one of the types of the session's feed was read
OneVersion(s) ==
  \A h \in acc.cache : \A i \in 1 .. Len(Feed[s]) :
    TypeName[h] = TypeName[Feed[s][i]] => h = Feed[s][i]

FieldsOf(s) == {f \in result.fields : f.session = s}

\* "the JSON is always present in schemaCache when the feed counter record
\* arrives" (Kv8Consumer.cpp:196): a session whose feed record the scan read
\* is returned with the fields of the feed, deadline or not, and however the
\* schemas of several sessions are interleaved and ordered by their hashes;
\* and the fields are decoded as the session encoded them, as long as no other
\* version of an embedded type is registered in the channel.
FeedsDecoded ==
  phase = "after" =>
    /\ parts = 1 =>
         \A f \in acc.feeds : f.session \in result.sessions => FieldsOf(f.session) # {}
    /\ \A s \in Sessions : OneVersion(s) => \A f \in FieldsOf(s) : f.layout = WriterLayout(s)

=============================================================================
