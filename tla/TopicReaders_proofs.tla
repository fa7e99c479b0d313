------------------------ MODULE TopicReaders_proofs ------------------------
(***************************************************************************)
(* Proofs about the two readers of topics that are written while they are  *)
(* read: the scan of the registry (RegistryScan), for any sessions, feeds, *)
(* schemas and partitions, and the readers of annotations (Notes, an       *)
(* instance of AnnotationSync), for any windows, records and seconds.      *)
(***************************************************************************)
EXTENDS MCTopicReaders, Integers, FiniteSetTheorems, SequenceTheorems,
        WellFoundedInduction, TLAPS

-----------------------------------------------------------------------------
(* The registry scan. Types.                                               *)

ScanTypes ==
  /\ parts \in Partitions /\ registry \in [Partitions -> Seq(Record)]
  /\ step \in [Sessions -> Nat] /\ phase \in {"before", "scan", "after"}
  /\ nParts \in Nat /\ nParts <= parts /\ (phase # "before" => nParts >= 1) /\ nEof \in Nat
  /\ pos \in [Partitions -> Nat] /\ eofAt \in [Partitions -> Nat] /\ start \in [Partitions -> Nat]
  /\ \A p \in Partitions : pos[p] <= Len(registry[p]) /\ eofAt[p] <= pos[p] + 1
  /\ acc.found \in SUBSET Sessions /\ acc.deleted \in SUBSET Sessions
  /\ DOMAIN acc = {"found", "feeds", "cache", "deleted"}
  /\ ok \in BOOLEAN

\* What a session writes is no tombstone, and begins with its SESSION record.
LEMMA ProgramRecords ==
  ASSUME NEW s \in Sessions
  PROVE  /\ Len(Program(s)) \in Nat /\ Len(Feed[s]) \in Nat /\ Len(Program(s)) = Len(Feed[s]) + 2
         /\ \A n \in 1 .. Len(Program(s)) :
              /\ Program(s)[n] \in Record /\ Program(s)[n].session = s
              /\ Program(s)[n].kind # "DELETED"
              /\ n = 1 => Program(s)[n] = Rec("SESSION", s, NoSchema)
              /\ n # 1 /\ n <= Len(Feed[s]) + 1 => Program(s)[n] = Rec("SCHEMA", s, Feed[s][n - 1])
              /\ n = Len(Feed[s]) + 2 => Program(s)[n] = Rec("FEED", s, Last(Feed[s]))
<1> DEFINE first  == <<Rec("SESSION", s, NoSchema)>>
           middle == [i \in 1 .. Len(Feed[s]) |-> Rec("SCHEMA", s, Feed[s][i])]
           end    == <<Rec("FEED", s, Last(Feed[s]))>>
           OfOwn(r) == r \in Record /\ r.session = s /\ r.kind # "DELETED"
           L      == Len(Feed[s])
<1>1. Feed[s] \in Seq(Schemas) /\ Feed[s] # <<>> /\ L \in Nat /\ L >= 1
  BY RegistryAssumption
<1>2. \A i \in 1 .. L : Feed[s][i] \in Schemas
  BY <1>1
<1>3. Last(Feed[s]) \in Schemas
  BY <1>1, <1>2 DEF Last
<1>4. first[1] = Rec("SESSION", s, NoSchema) /\ OfOwn(first[1]) /\ Len(first) = 1 /\ first \in Seq(Record)
  BY DEF Rec, Record
<1>5. \A i \in 1 .. L : OfOwn(middle[i]) /\ middle[i] = Rec("SCHEMA", s, Feed[s][i])
  BY <1>2 DEF Rec, Record
<1>6. OfOwn(end[1]) /\ end[1] = Rec("FEED", s, Last(Feed[s])) /\ Len(end) = 1 /\ end \in Seq(Record)
  BY <1>3 DEF Rec, Record
<1>7. Len(middle) = L /\ middle \in Seq(Record)
  <2>1. middle = [i \in 1 .. L |-> middle[i]] /\ \A i \in 1 .. L : middle[i] \in Record
    BY <1>5
  <2> HIDE DEF middle
  <2>. QED  BY <1>1, <2>1
<1>8. Program(s) = (first \o middle) \o end
  BY Zenon DEF Program
<1> HIDE DEF first, middle, end, OfOwn, L
<1>9. /\ first \o middle \in Seq(Record) /\ Len(first \o middle) = 1 + L
      /\ \A i \in 1 .. 1 + L : (first \o middle)[i] = IF i <= 1 THEN first[i] ELSE middle[i - 1]
  <2>1. /\ first \o middle \in Seq(Record) /\ Len(first \o middle) = Len(first) + Len(middle)
        /\ \A i \in 1 .. Len(first) + Len(middle) :
             (first \o middle)[i] = IF i <= Len(first) THEN first[i] ELSE middle[i - Len(first)]
    BY <1>4, <1>7, ConcatProperties, Zenon
  <2>. QED  BY <1>4, <1>7, <2>1
<1>10. /\ Len(Program(s)) = L + 2
       /\ \A i \in 1 .. L + 2 : Program(s)[i] = IF i <= 1 + L THEN (first \o middle)[i] ELSE end[i - (1 + L)]
  <2> DEFINE both == first \o middle
  <2>1. /\ Len(both \o end) = Len(both) + Len(end)
        /\ \A i \in 1 .. Len(both) + Len(end) :
             (both \o end)[i] = IF i <= Len(both) THEN both[i] ELSE end[i - Len(both)]
    <3>1. both \in Seq(Record) /\ end \in Seq(Record)
      BY <1>6, <1>9
    <3>. QED  BY <3>1, ConcatProperties, Zenon
  <2>2. Len(both) = 1 + L /\ Len(end) = 1 /\ Program(s) = both \o end /\ L \in Nat
    BY <1>1, <1>6, <1>8, <1>9
  <2> HIDE DEF both
  <2>3. Len(Program(s)) = L + 2
    BY <2>1, <2>2
  <2>4. \A i \in 1 .. L + 2 : Program(s)[i] = IF i <= 1 + L THEN both[i] ELSE end[i - (1 + L)]
    BY <2>1, <2>2
  <2>. QED  BY <2>3, <2>4 DEF both
<1>11. ASSUME NEW n \in 1 .. L + 2
       PROVE  /\ OfOwn(Program(s)[n]) /\ (n = 1 => Program(s)[n] = first[1])
              /\ n # 1 /\ n <= L + 1 => Program(s)[n] = Rec("SCHEMA", s, Feed[s][n - 1])
              /\ n = L + 2 => Program(s)[n] = Rec("FEED", s, Last(Feed[s]))
  <2>1. CASE n = 1
    <3>1. 1 \in 1 .. 1 + L /\ 1 \in 1 .. L + 2 /\ 1 <= 1 + L /\ n # L + 2
      BY <1>1, <2>1
    <3>2. Program(s)[1] = (first \o middle)[1] /\ (first \o middle)[1] = first[1]
      BY <1>9, <1>10, <3>1
    <3>. QED  BY <1>4, <2>1, <3>1, <3>2
  <2>2. CASE n # 1 /\ n <= 1 + L
    <3>0. n \in 1 .. 1 + L /\ ~(n <= 1) /\ n - 1 \in 1 .. L /\ n # L + 2
      BY <1>1, <2>2
    <3>1. Program(s)[n] = (first \o middle)[n] /\ (first \o middle)[n] = middle[n - 1]
      BY <1>9, <1>10, <2>2, <3>0
    <3>2. OfOwn(middle[n - 1]) /\ middle[n - 1] = Rec("SCHEMA", s, Feed[s][n - 1])
      BY <1>5, <3>0
    <3>. QED  BY <2>2, <3>0, <3>1, <3>2
  <2>3. CASE n = L + 2
    <3>1. Program(s)[n] = end[1] /\ n # 1 /\ ~(n <= L + 1)
      BY <1>1, <1>10, <2>3
    <3>. QED  BY <1>6, <3>1
  <2>. QED  BY <1>1, <2>1, <2>2, <2>3
<1>. QED  BY <1>1, <1>4, <1>10, <1>11 DEF OfOwn, L

LEMMA Grows ==
  ASSUME NEW q \in Seq(Record), NEW r \in Record
  PROVE  /\ Append(q, r) \in Seq(Record) /\ Len(q) \in Nat /\ Len(Append(q, r)) = Len(q) + 1
         /\ \A i \in 1 .. Len(q) : Append(q, r)[i] = q[i]
         /\ Append(q, r)[Len(q) + 1] = r
  OBVIOUS

\* Writers append one record to one partition, the tombstone to the first.
Wrote(p, r) == registry' = [registry EXCEPT ![p] = Append(@, r)]

LEMMA WriterSteps ==
  ASSUME ScanTypes, NEW s \in Sessions, Register(s) \/ MarkSessionDeleted(s)
  PROVE  /\ phase # "after" /\ UNCHANGED <<parts, phase, nParts, pos, eofAt, nEof, acc, start, result, ok>>
         /\ step' \in [Sessions -> Nat] /\ step'[s] >= 1
         /\ \A t \in Sessions \ {s} : step'[t] = step[t]
         /\ \E p \in 1 .. parts, r \in Record :
              /\ Wrote(p, r) /\ r.session = s
              /\ r.kind = "DELETED" => p = 1 /\ r = Tombstone(s)
              /\ r.kind = "DELETED" => step[s] >= 1 /\ step'[s] = step[s]
              /\ r.kind # "DELETED" => step'[s] = step[s] + 1 /\ step[s] + 1 \in 1 .. Len(Program(s))
                                       /\ r = Program(s)[step[s] + 1]
              /\ step[s] = 0 => r = Rec("SESSION", s, NoSchema)
<1>0. 1 \in 1 .. parts /\ parts \in Nat /\ step[s] \in Nat
  BY RegistryAssumption DEF ScanTypes, Partitions
<1>1. CASE Register(s)
  <2>0. /\ step[s] < Len(Program(s)) /\ phase # "after" /\ step' = [step EXCEPT ![s] = @ + 1]
        /\ UNCHANGED <<parts, phase, nParts, pos, eofAt, nEof, acc, start, result, ok>>
        /\ \E p \in 1 .. parts : Wrote(p, Program(s)[step[s] + 1])
    BY <1>1, Zenon DEF Register, Wrote, scanVars
  <2>1. step[s] + 1 \in 1 .. Len(Program(s))
    BY <1>0, <2>0, ProgramRecords
  <2>2. PICK p \in 1 .. parts : Wrote(p, Program(s)[step[s] + 1])
    BY <2>0
  <2>3. /\ Program(s)[step[s] + 1] \in Record /\ Program(s)[step[s] + 1].session = s
        /\ Program(s)[step[s] + 1].kind # "DELETED"
        /\ step[s] = 0 => Program(s)[step[s] + 1] = Rec("SESSION", s, NoSchema)
    BY <1>0, <2>1, ProgramRecords
  <2>4. /\ step' \in [Sessions -> Nat] /\ step'[s] = step[s] + 1 /\ step'[s] >= 1
        /\ \A t \in Sessions \ {s} : step'[t] = step[t]
    BY <1>0, <2>0 DEF ScanTypes
  <2>. QED  BY <2>0, <2>1, <2>2, <2>3, <2>4
<1>2. CASE MarkSessionDeleted(s)
  <2>1. Tombstone(s) \in Record /\ Tombstone(s).session = s /\ Tombstone(s).kind = "DELETED"
    BY DEF Tombstone, Rec, Record
  <2>2. /\ step[s] >= 1 /\ phase # "after" /\ step' = step /\ Wrote(1, Tombstone(s))
        /\ UNCHANGED <<parts, phase, nParts, pos, eofAt, nEof, acc, start, result, ok>>
    BY <1>2, Zenon DEF MarkSessionDeleted, scanVars, Wrote
  <2>3. step' \in [Sessions -> Nat] /\ step[s] # 0
    BY <1>0, <2>2 DEF ScanTypes
  <2>. QED  BY <1>0, <2>1, <2>2, <2>3
<1>. QED  BY <1>1, <1>2

-----------------------------------------------------------------------------
(* What the registry holds. A session that has written anything has        *)
(* written its SESSION record first, wherever that went, and so it was     *)
(* there when the scan began if anything of the session was.               *)

Header(s) == Rec("SESSION", s, NoSchema)

RegistryInv ==
  /\ \A p \in Partitions, i \in Nat : i \in 1 .. Len(registry[p]) =>
       /\ p <= parts /\ step[registry[p][i].session] >= 1
       /\ registry[p][i].kind = "DELETED" => p = 1 /\ registry[p][i] = Tombstone(registry[p][i].session)
  /\ \A s \in Sessions : step[s] >= 1 =>
       \E p \in Partitions, i \in Nat : i \in 1 .. Len(registry[p]) /\ registry[p][i] = Header(s)

StartInv ==
  phase # "before" =>
    /\ \A p \in Partitions : start[p] <= Len(registry[p])
    /\ \A p \in Partitions, i \in Nat : i \in 1 .. start[p] =>
         \E q \in Partitions, j \in Nat : j \in 1 .. start[q] /\ registry[q][j] = Header(registry[p][i].session)

\* What the scan has made of the records it has read.
ReadInv ==
  /\ \A p \in Partitions, i \in Nat : i \in 1 .. pos[p] =>
       /\ registry[p][i].kind = "DELETED" => registry[p][i].session \in acc.deleted
       /\ registry[p][i].kind = "SESSION" => registry[p][i].session \in acc.found
  /\ \A s \in acc.deleted : Tombstone(s) \in ToSet(registry[1])
  /\ phase = "after" => result.sessions = acc.found \ acc.deleted

\* What the end-of-partition events it has counted say: each was at or after the
\* end the scan found at its beginning, and a topic that does not grow gives one
\* for a partition.
Ended == {p \in 1 .. nParts : eofAt[p] # 0}

EofInv ==
  /\ phase = "before" => nEof = 0 /\ \A p \in Partitions : eofAt[p] = 0
  /\ \A p \in Partitions : eofAt[p] # 0 => p <= nParts
  /\ phase # "before" => \A p \in Partitions : eofAt[p] # 0 => eofAt[p] >= start[p] + 1
  /\ nEof # 0 => Ended # {}
  /\ phase # "before" /\ Quiet => nEof = Cardinality(Ended)

OkInv == phase = "after" /\ ok => nEof >= nParts /\ nParts = parts /\ (parts = 1 \/ Quiet)

ScanInv == RegistryInv /\ StartInv /\ ReadInv /\ EofInv /\ OkInv

\* what the steps of the scan leave alone
LEMMA ScanSteps ==
  ASSUME ScanTypes
  PROVE  /\ BeginScan => UNCHANGED <<parts, registry, step, pos, eofAt, nEof, acc, result, ok>>
         /\ \A p \in Partitions : ReadRecord(p) =>
              UNCHANGED <<parts, registry, step, phase, nParts, eofAt, nEof, start, result, ok>>
         /\ \A p \in Partitions : PartitionEof(p) =>
              UNCHANGED <<parts, registry, step, phase, nParts, pos, acc, start, result, ok>>
         /\ EndScan \/ ScanTimeout =>
              UNCHANGED <<parts, registry, step, nParts, pos, eofAt, nEof, acc, start>>
  BY DEF BeginScan, ReadRecord, PartitionEof, EndScan, ScanTimeout, Return, topicVars

LEMMA ParsedFields ==
  ASSUME NEW a, NEW r \in Record, DOMAIN a = {"found", "feeds", "cache", "deleted"},
         a.found \in SUBSET Sessions, a.deleted \in SUBSET Sessions
  PROVE  /\ DOMAIN Parsed(a, r) = {"found", "feeds", "cache", "deleted"}
         /\ Parsed(a, r).deleted = IF r.kind = "DELETED" THEN a.deleted \cup {r.session} ELSE a.deleted
         /\ Parsed(a, r).found = IF r.kind \in {"SESSION", "FEED"} THEN a.found \cup {r.session} ELSE a.found
         /\ Parsed(a, r).cache = IF r.kind = "SCHEMA" THEN a.cache \cup {r.schema} ELSE a.cache
         /\ Parsed(a, r).feeds = IF r.kind # "FEED" THEN a.feeds
                                 ELSE a.feeds \cup {[session |-> r.session, schema |-> r.schema,
                                                     json |-> r.schema \in a.cache]}
  BY DEF Parsed, Record, HasJson

LEMMA ScanTypesInit == Init => ScanTypes
<1> SUFFICES ASSUME Init PROVE ScanTypes
  OBVIOUS
<1>1. 0 \in Nat /\ <<>> \in Seq(Record) /\ Len(<<>>) = 0
  OBVIOUS
<1>2. parts \in Nat /\ 0 <= parts
  BY RegistryAssumption DEF Init, Partitions
<1>3. \A p \in Partitions : registry[p] = <<>> /\ pos[p] = 0 /\ eofAt[p] = 0
  BY DEF Init
<1>4. /\ DOMAIN acc = {"found", "feeds", "cache", "deleted"}
      /\ acc.found \in SUBSET Sessions /\ acc.deleted \in SUBSET Sessions
  BY DEF Init, Nothing
<1>5. registry \in [Partitions -> Seq(Record)] /\ step \in [Sessions -> Nat]
  BY <1>1 DEF Init
<1>6. /\ pos \in [Partitions -> Nat] /\ eofAt \in [Partitions -> Nat] /\ start \in [Partitions -> Nat]
      /\ nEof \in Nat /\ nParts \in Nat /\ nParts <= parts /\ phase = "before" /\ ok \in BOOLEAN
      /\ parts \in Partitions
  BY <1>1, <1>2 DEF Init
<1>7. \A p \in Partitions : pos[p] <= Len(registry[p]) /\ eofAt[p] <= pos[p] + 1
  BY <1>1, <1>3
<1>. QED  BY <1>4, <1>5, <1>6, <1>7 DEF ScanTypes

LEMMA ScanTypesStep == ScanTypes /\ [Next]_vars => ScanTypes'
<1> SUFFICES ASSUME ScanTypes, [Next]_vars PROVE ScanTypes'
  OBVIOUS
<1>0. parts \in Nat /\ parts >= 1 /\ parts <= MaxParts /\ Partitions = 1 .. MaxParts
  BY RegistryAssumption DEF ScanTypes, Partitions
<1>1. ASSUME NEW s \in Sessions, Register(s) \/ MarkSessionDeleted(s) PROVE ScanTypes'
  <2>1. PICK p \in 1 .. parts, r \in Record : Wrote(p, r)
    BY <1>1, WriterSteps
  <2>2. p \in Partitions
    BY <1>0, RegistryAssumption
  <2>3. \A q \in Partitions : registry'[q] = IF q = p THEN Append(registry[p], r) ELSE registry[q]
    BY <2>1, <2>2 DEF Wrote, ScanTypes
  <2>4. \A q \in Partitions : registry'[q] \in Seq(Record) /\ Len(registry[q]) \in Nat
                              /\ Len(registry'[q]) \in Nat /\ Len(registry[q]) <= Len(registry'[q])
    <3> SUFFICES ASSUME NEW q \in Partitions
                 PROVE  /\ registry'[q] \in Seq(Record) /\ Len(registry[q]) \in Nat
                        /\ Len(registry'[q]) \in Nat /\ Len(registry[q]) <= Len(registry'[q])
      OBVIOUS
    <3>1. registry[q] \in Seq(Record) /\ registry[p] \in Seq(Record)
      BY <2>2 DEF ScanTypes
    <3>2. Len(registry[q]) \in Nat
      BY <3>1
    <3>3. CASE q = p
      <4>1. registry'[q] = Append(registry[q], r) /\ Len(Append(registry[q], r)) = Len(registry[q]) + 1
            /\ Append(registry[q], r) \in Seq(Record)
        BY <2>2, <2>3, <3>1, <3>3, Grows
      <4> HIDE DEF Record
      <4>. QED  BY <3>2, <4>1
    <3>4. CASE q # p
      BY <2>3, <3>1, <3>2, <3>4
    <3>. QED  BY <3>3, <3>4
  <2>5. registry' \in [Partitions -> Seq(Record)]
    BY <2>1, <2>4 DEF Wrote, ScanTypes
  <2>6. \A q \in Partitions : pos[q] <= Len(registry'[q])
    BY <2>4 DEF ScanTypes
  <2>. QED  BY <1>1, <2>5, <2>6, WriterSteps DEF ScanTypes, Partitions
<1>2. CASE BeginScan
  <2>1. start' \in [Partitions -> Nat]
    BY <1>2 DEF BeginScan, ScanTypes
  <2>2. nParts' \in Nat /\ nParts' <= parts /\ nParts' >= 1 /\ phase' = "scan"
    BY <1>0, <1>2 DEF BeginScan, PartitionCount
  <2>. QED  BY <1>2, <2>1, <2>2, ScanSteps DEF ScanTypes, Partitions
<1>3. ASSUME NEW p \in Partitions, ReadRecord(p) PROVE ScanTypes'
  <2>1. pos[p] < Len(registry[p]) /\ pos' = [pos EXCEPT ![p] = @ + 1]
        /\ acc' = Parsed(acc, registry[p][pos[p] + 1])
    BY <1>3 DEF ReadRecord
  <2>2. pos' \in [Partitions -> Nat] /\ \A q \in Partitions : pos'[q] = IF q = p THEN pos[p] + 1 ELSE pos[q]
    BY <2>1 DEF ScanTypes
  <2>3. \A q \in Partitions : Len(registry[q]) \in Nat /\ pos[q] \in Nat /\ eofAt[q] \in Nat
    BY DEF ScanTypes
  <2>4. \A q \in Partitions : pos'[q] <= Len(registry[q]) /\ eofAt[q] <= pos'[q] + 1
    BY <2>1, <2>2, <2>3 DEF ScanTypes
  <2>5. registry[p][pos[p] + 1] \in Record
    BY <2>1, <2>3 DEF ScanTypes
  <2>6. /\ DOMAIN acc' = {"found", "feeds", "cache", "deleted"}
        /\ acc'.found \in SUBSET Sessions /\ acc'.deleted \in SUBSET Sessions
    <3> DEFINE r == registry[p][pos[p] + 1]
    <3>1. r.session \in Sessions
      BY <2>5 DEF Record
    <3>2. /\ DOMAIN Parsed(acc, r) = {"found", "feeds", "cache", "deleted"}
          /\ Parsed(acc, r).deleted = IF r.kind = "DELETED" THEN acc.deleted \cup {r.session} ELSE acc.deleted
          /\ Parsed(acc, r).found = IF r.kind \in {"SESSION", "FEED"} THEN acc.found \cup {r.session} ELSE acc.found
      BY <2>5, ParsedFields DEF ScanTypes
    <3>3. acc' = Parsed(acc, r) /\ acc.found \in SUBSET Sessions /\ acc.deleted \in SUBSET Sessions
      BY <2>1 DEF ScanTypes
    <3> HIDE DEF r
    <3>. QED  BY <3>1, <3>2, <3>3
  <2>. QED  BY <1>3, <2>2, <2>4, <2>6, ScanSteps DEF ScanTypes, Partitions
<1>4. ASSUME NEW p \in Partitions, PartitionEof(p) PROVE ScanTypes'
  <2>1. eofAt' = [eofAt EXCEPT ![p] = pos[p] + 1] /\ nEof' = nEof + 1
    BY <1>4 DEF PartitionEof
  <2>2. \A q \in Partitions : pos[q] \in Nat /\ eofAt[q] \in Nat /\ eofAt[q] <= pos[q] + 1
    BY DEF ScanTypes
  <2>3. \A q \in Partitions : eofAt'[q] = IF q = p THEN pos[q] + 1 ELSE eofAt[q]
    BY <2>1 DEF ScanTypes
  <2>4. eofAt' \in [Partitions -> Nat] /\ nEof' \in Nat /\ \A q \in Partitions : eofAt'[q] <= pos[q] + 1
    <3>1. pos[p] + 1 \in Nat /\ nEof + 1 \in Nat
      BY <2>2 DEF ScanTypes
    <3>2. \A q \in Partitions : eofAt'[q] <= pos[q] + 1
      BY <2>2, <2>3
    <3>. QED  BY <2>1, <3>1, <3>2 DEF ScanTypes
  <2>. QED  BY <1>4, <2>1, <2>4, ScanSteps DEF ScanTypes, Partitions
<1>5. CASE EndScan \/ ScanTimeout
  <2>1. phase' = "after" /\ phase = "scan" /\ ok' \in BOOLEAN
    BY <1>5 DEF EndScan, ScanTimeout, Return
  <2>. QED  BY <1>5, <2>1, ScanSteps DEF ScanTypes, Partitions
<1>6. CASE UNCHANGED vars
  BY <1>6 DEF ScanTypes, vars, topicVars, scanVars, Partitions
<1>. QED  BY <1>1, <1>2, <1>3, <1>4, <1>5, <1>6 DEF Next

-----------------------------------------------------------------------------
(* Each part of the invariant.                                             *)

\* what a write leaves of the records, and adds
LEMMA WroteRecords ==
  ASSUME ScanTypes, NEW p \in Partitions, NEW r \in Record, Wrote(p, r)
  PROVE  /\ \A q \in Partitions, i \in Nat : i \in 1 .. Len(registry[q]) =>
              i \in 1 .. Len(registry'[q]) /\ registry'[q][i] = registry[q][i]
         /\ \A q \in Partitions, i \in Nat : i \in 1 .. Len(registry'[q]) =>
              \/ i \in 1 .. Len(registry[q]) /\ registry'[q][i] = registry[q][i]
              \/ q = p /\ registry'[q][i] = r
         /\ Len(registry[p]) + 1 \in 1 .. Len(registry'[p]) /\ registry'[p][Len(registry[p]) + 1] = r
         /\ Len(registry'[p]) # Len(registry[p])
         /\ \A q \in Partitions : Len(registry[q]) \in Nat /\ Len(registry[q]) <= Len(registry'[q])
<1>1. \A q \in Partitions : registry[q] \in Seq(Record) /\ Len(registry[q]) \in Nat
  <2>1. \A q \in Partitions : registry[q] \in Seq(Record)
    BY DEF ScanTypes
  <2>. QED  BY <2>1, LenProperties
<1>2. \A q \in Partitions \ {p} : registry'[q] = registry[q]
  BY DEF Wrote, ScanTypes
<1>3. registry'[p] = Append(registry[p], r)
  BY DEF Wrote, ScanTypes
<1>4. /\ Len(registry'[p]) = Len(registry[p]) + 1
      /\ \A i \in 1 .. Len(registry[p]) : registry'[p][i] = registry[p][i]
      /\ registry'[p][Len(registry[p]) + 1] = r
  <2> DEFINE q == registry[p]
  <2>1. q \in Seq(Record)
    BY <1>1
  <2>2. /\ Len(Append(q, r)) = Len(q) + 1
        /\ \A i \in 1 .. Len(q) : Append(q, r)[i] = q[i]
        /\ Append(q, r)[Len(q) + 1] = r
    <3> HIDE DEF q
    <3>. QED  BY <2>1, Grows
  <2>. QED  BY <1>3, <2>2, Zenon
<1>5. ASSUME NEW q \in Partitions, NEW i \in Nat, i \in 1 .. Len(registry[q])
      PROVE  i \in 1 .. Len(registry'[q]) /\ registry'[q][i] = registry[q][i]
  BY <1>1, <1>2, <1>4, <1>5
<1>6. ASSUME NEW q \in Partitions, NEW i \in Nat, i \in 1 .. Len(registry'[q])
      PROVE  \/ i \in 1 .. Len(registry[q]) /\ registry'[q][i] = registry[q][i]
             \/ q = p /\ registry'[q][i] = r
  <2>1. CASE q = p
    <3>1. i \in 1 .. Len(registry[p]) \/ i = Len(registry[p]) + 1
      BY <1>1, <1>4, <1>6, <2>1
    <3>. QED  BY <1>4, <2>1, <3>1
  <2>2. CASE q # p
    BY <1>2, <1>6, <2>2
  <2>. QED  BY <2>1, <2>2
<1>7. \A q \in Partitions : Len(registry[q]) <= Len(registry'[q])
  BY <1>1, <1>2, <1>4
<1>. QED  BY <1>1, <1>4, <1>5, <1>6, <1>7

LEMMA RegistryInvStep == ScanTypes /\ RegistryInv /\ [Next]_vars => RegistryInv'
<1> SUFFICES ASSUME ScanTypes, RegistryInv, [Next]_vars PROVE RegistryInv'
  OBVIOUS
<1>1. ASSUME NEW s \in Sessions, Register(s) \/ MarkSessionDeleted(s) PROVE RegistryInv'
  <2>1. PICK p \in 1 .. parts, r \in Record :
          /\ Wrote(p, r) /\ r.session = s
          /\ r.kind = "DELETED" => p = 1 /\ r = Tombstone(s)
          /\ step[s] = 0 => r = Header(s)
    BY <1>1, WriterSteps, Zenon DEF Header
  <2>2. p \in Partitions /\ p <= parts
    BY RegistryAssumption DEF ScanTypes, Partitions
  <2>3. parts' = parts /\ step'[s] >= 1 /\ \A t \in Sessions \ {s} : step'[t] = step[t]
    BY <1>1, WriterSteps, Zenon
  <2>4. /\ \A q \in Partitions, i \in Nat : i \in 1 .. Len(registry[q]) =>
              i \in 1 .. Len(registry'[q]) /\ registry'[q][i] = registry[q][i]
        /\ \A q \in Partitions, i \in Nat : i \in 1 .. Len(registry'[q]) =>
              \/ i \in 1 .. Len(registry[q]) /\ registry'[q][i] = registry[q][i]
              \/ q = p /\ registry'[q][i] = r
        /\ Len(registry[p]) + 1 \in 1 .. Len(registry'[p]) /\ registry'[p][Len(registry[p]) + 1] = r
        /\ Len(registry[p]) \in Nat
    BY <2>1, <2>2, WroteRecords, Zenon
  <2>5. ASSUME NEW q \in Partitions, NEW i \in Nat, i \in 1 .. Len(registry'[q])
        PROVE  /\ q <= parts /\ step'[registry'[q][i].session] >= 1
               /\ registry'[q][i].kind = "DELETED" =>
                    q = 1 /\ registry'[q][i] = Tombstone(registry'[q][i].session)
    <3>1. CASE i \in 1 .. Len(registry[q]) /\ registry'[q][i] = registry[q][i]
      <4>1. registry[q][i].session \in Sessions
        <5>1. registry[q] \in Seq(Record)
          BY DEF ScanTypes
        <5>2. registry[q][i] \in Record
          BY <3>1, <5>1
        <5>. QED  BY <5>2 DEF Record
      <4>2. /\ q <= parts /\ step[registry[q][i].session] >= 1
            /\ registry[q][i].kind = "DELETED" => q = 1 /\ registry[q][i] = Tombstone(registry[q][i].session)
        BY <3>1 DEF RegistryInv
      <4>3. step'[registry[q][i].session] >= 1
        BY <2>3, <4>1, <4>2
      <4>. QED  BY <3>1, <4>2, <4>3
    <3>2. CASE q = p /\ registry'[q][i] = r
      BY <2>1, <2>2, <2>3, <3>2
    <3>. QED  BY <2>4, <2>5, <3>1, <3>2, Zenon
  <2>6. ASSUME NEW t \in Sessions, step'[t] >= 1
        PROVE  \E q \in Partitions, i \in Nat : i \in 1 .. Len(registry'[q]) /\ registry'[q][i] = Header(t)
    <3>1. CASE step[t] >= 1
      <4>1. PICK q \in Partitions, i \in Nat : i \in 1 .. Len(registry[q]) /\ registry[q][i] = Header(t)
        BY <3>1 DEF RegistryInv
      <4>2. i \in 1 .. Len(registry'[q]) /\ registry'[q][i] = Header(t)
        BY <2>4, <4>1
      <4>. QED  BY <4>2
    <3>2. CASE ~(step[t] >= 1)
      <4>1. t = s /\ step[s] = 0
        BY <2>3, <2>6, <3>2 DEF ScanTypes
      <4>2. r = Header(t) /\ Len(registry[p]) + 1 \in Nat
        BY <2>1, <2>4, <4>1
      <4>3. Len(registry[p]) + 1 \in 1 .. Len(registry'[p]) /\ registry'[p][Len(registry[p]) + 1] = Header(t)
        BY <2>4, <4>2
      <4>. QED  BY <2>2, <4>2, <4>3
    <3>. QED  BY <3>1, <3>2
  <2>. QED  BY <2>3, <2>5, <2>6 DEF RegistryInv, Partitions
<1>2. CASE UNCHANGED <<parts, registry, step>>
  BY <1>2 DEF RegistryInv, Partitions
<1>3. CASE UNCHANGED vars
  BY <1>2, <1>3, Zenon DEF vars, topicVars
<1>. QED  BY <1>1, <1>2, <1>3, ScanSteps, Zenon DEF Next

LEMMA StartInvStep == ScanTypes /\ RegistryInv /\ StartInv /\ [Next]_vars => StartInv'
<1> SUFFICES ASSUME ScanTypes, RegistryInv, StartInv, [Next]_vars, phase' # "before" PROVE StartInv'
  BY DEF StartInv
<1>0. \A q \in Partitions : Len(registry[q]) \in Nat /\ start[q] \in Nat
  <2>1. \A q \in Partitions : registry[q] \in Seq(Record)
    BY DEF ScanTypes
  <2>. QED  BY <2>1 DEF ScanTypes
<1>1. ASSUME NEW s \in Sessions, Register(s) \/ MarkSessionDeleted(s) PROVE StartInv'
  <2>1. PICK p \in 1 .. parts, r \in Record : Wrote(p, r)
    BY <1>1, WriterSteps, Zenon
  <2>2. p \in Partitions
    BY RegistryAssumption DEF ScanTypes, Partitions
  <2>3. phase # "before" /\ start' = start
    BY <1>1, WriterSteps, Zenon
  <2>4. /\ \A q \in Partitions, i \in Nat : i \in 1 .. Len(registry[q]) => registry'[q][i] = registry[q][i]
        /\ \A q \in Partitions : Len(registry[q]) <= Len(registry'[q])
    BY <2>1, <2>2, WroteRecords, Zenon
  <2>5. \A q \in Partitions : start[q] <= Len(registry[q])
    BY <2>3 DEF StartInv
  <2>6. \A q \in Partitions, i \in Nat : i \in 1 .. start[q] => registry'[q][i] = registry[q][i]
    <3> SUFFICES ASSUME NEW q \in Partitions, NEW i \in Nat, i \in 1 .. start[q]
                 PROVE  registry'[q][i] = registry[q][i]
      OBVIOUS
    <3>1. i \in 1 .. Len(registry[q])
      BY <1>0, <2>5
    <3>. QED  BY <2>4, <3>1
  <2>7. \A q \in Partitions : start[q] <= Len(registry'[q])
    <3>1. \A q \in Partitions : registry'[q] \in Seq(Record)
      BY ScanTypesStep DEF ScanTypes, Partitions
    <3>. QED  BY <1>0, <2>4, <2>5, <3>1, LenProperties
  <2>8. ASSUME NEW q \in Partitions, NEW i \in Nat, i \in 1 .. start[q]
        PROVE  \E q2 \in Partitions, j \in Nat :
                 j \in 1 .. start[q2] /\ registry'[q2][j] = Header(registry'[q][i].session)
    <3>1. PICK q2 \in Partitions, j \in Nat :
            j \in 1 .. start[q2] /\ registry[q2][j] = Header(registry[q][i].session)
      BY <2>3, <2>8 DEF StartInv
    <3>2. registry'[q][i] = registry[q][i] /\ registry'[q2][j] = registry[q2][j]
      BY <2>6, <2>8, <3>1
    <3>. QED  BY <3>1, <3>2
  <2>. QED  BY <2>3, <2>7, <2>8 DEF StartInv, Partitions
<1>2. CASE BeginScan
  <2>1. registry' = registry /\ step' = step /\ \A q \in Partitions : start'[q] = Len(registry[q])
    BY <1>2 DEF BeginScan, topicVars
  <2>2. \A q \in Partitions : start'[q] <= Len(registry[q])
    BY <1>0, <2>1
  <2>3. ASSUME NEW q \in Partitions, NEW i \in Nat, i \in 1 .. start'[q]
        PROVE  \E q2 \in Partitions, j \in Nat :
                 j \in 1 .. start'[q2] /\ registry[q2][j] = Header(registry[q][i].session)
    <3>1. i \in 1 .. Len(registry[q])
      BY <2>1, <2>3
    <3>2. step[registry[q][i].session] >= 1
      BY <3>1 DEF RegistryInv
    <3>3. registry[q][i].session \in Sessions
      <4>1. registry[q] \in Seq(Record)
        BY DEF ScanTypes
      <4>2. registry[q][i] \in Record
        BY <3>1, <4>1
      <4>. QED  BY <4>2 DEF Record
    <3>4. PICK q2 \in Partitions, j \in Nat :
            j \in 1 .. Len(registry[q2]) /\ registry[q2][j] = Header(registry[q][i].session)
      BY <3>2, <3>3 DEF RegistryInv
    <3>. QED  BY <2>1, <3>4
  <2>. QED  BY <2>1, <2>2, <2>3 DEF StartInv, Partitions
<1>3. CASE UNCHANGED <<registry, start>> /\ phase # "before"
  BY <1>3 DEF StartInv, Partitions
<1>4. ASSUME NEW p \in Partitions, ReadRecord(p) \/ PartitionEof(p)
      PROVE  UNCHANGED <<registry, start>> /\ phase # "before"
  BY <1>4, ScanSteps DEF ReadRecord, PartitionEof
<1>5. EndScan \/ ScanTimeout => UNCHANGED <<registry, start>> /\ phase # "before"
  BY ScanSteps DEF EndScan, ScanTimeout
<1>6. UNCHANGED vars => UNCHANGED <<registry, start>> /\ phase # "before"
  BY DEF vars, topicVars, scanVars
<1>. QED  BY <1>1, <1>2, <1>3, <1>4, <1>5, <1>6, Zenon DEF Next

LEMMA ReadInvStep == ScanTypes /\ RegistryInv /\ ReadInv /\ [Next]_vars => ReadInv'
<1> SUFFICES ASSUME ScanTypes, RegistryInv, ReadInv, [Next]_vars PROVE ReadInv'
  OBVIOUS
<1>0. /\ \A q \in Partitions : registry[q] \in Seq(Record) /\ Len(registry[q]) \in Nat /\ pos[q] \in Nat
      /\ 1 \in Partitions
  <2>1. \A q \in Partitions : registry[q] \in Seq(Record)
    BY DEF ScanTypes
  <2>. QED  BY <2>1, RegistryAssumption DEF ScanTypes, Partitions
<1>1. ASSUME NEW s \in Sessions, Register(s) \/ MarkSessionDeleted(s) PROVE ReadInv'
  <2>1. PICK p \in 1 .. parts, r \in Record : Wrote(p, r)
    BY <1>1, WriterSteps, Zenon
  <2>2. p \in Partitions
    BY RegistryAssumption DEF ScanTypes, Partitions
  <2>3. phase # "after" /\ phase' = phase /\ pos' = pos /\ acc' = acc
    BY <1>1, WriterSteps, Zenon
  <2>4. \A q \in Partitions, i \in Nat : i \in 1 .. Len(registry[q]) =>
          i \in 1 .. Len(registry'[q]) /\ registry'[q][i] = registry[q][i]
    BY <2>1, <2>2, WroteRecords, Zenon
  <2>5. ASSUME NEW q \in Partitions, NEW i \in Nat, i \in 1 .. pos[q]
        PROVE  /\ registry'[q][i].kind = "DELETED" => registry'[q][i].session \in acc.deleted
               /\ registry'[q][i].kind = "SESSION" => registry'[q][i].session \in acc.found
    <3>1. i \in 1 .. Len(registry[q])
      BY <1>0, <2>5 DEF ScanTypes
    <3>2. registry'[q][i] = registry[q][i]
      BY <2>4, <3>1
    <3>. QED  BY <2>5, <3>2 DEF ReadInv
  <2>6. ASSUME NEW t \in acc.deleted PROVE Tombstone(t) \in ToSet(registry'[1])
    <3>1. PICK i \in DOMAIN registry[1] : registry[1][i] = Tombstone(t)
      BY DEF ReadInv, ToSet
    <3>2. i \in 1 .. Len(registry[1]) /\ i \in Nat
      BY <1>0
    <3>3. i \in 1 .. Len(registry'[1]) /\ registry'[1][i] = Tombstone(t)
      BY <1>0, <2>4, <3>1, <3>2
    <3>4. registry'[1] \in Seq(Record)
      BY <1>0, ScanTypesStep DEF ScanTypes, Partitions
    <3>5. DOMAIN registry'[1] = 1 .. Len(registry'[1])
      BY <3>4, LenProperties
    <3>. QED  BY <3>3, <3>5 DEF ToSet
  <2>. QED  BY <2>3, <2>5, <2>6 DEF ReadInv, Partitions
<1>2. ASSUME NEW p \in Partitions, ReadRecord(p) PROVE ReadInv'
  <2> DEFINE r == registry[p][pos[p] + 1]
  <2>1. /\ pos[p] < Len(registry[p]) /\ pos' = [pos EXCEPT ![p] = @ + 1] /\ acc' = Parsed(acc, r)
        /\ phase = "scan"
    BY <1>2 DEF ReadRecord
  <2>2. registry' = registry /\ phase' = phase
    BY <1>2, ScanSteps, Zenon
  <2>3. pos[p] + 1 \in 1 .. Len(registry[p])
    BY <1>0, <2>1
  <2>4. r \in Record
    BY <1>0, <2>3
  <2>5. /\ acc'.deleted = IF r.kind = "DELETED" THEN acc.deleted \cup {r.session} ELSE acc.deleted
        /\ acc'.found = IF r.kind \in {"SESSION", "FEED"} THEN acc.found \cup {r.session} ELSE acc.found
    <3>1. /\ Parsed(acc, r).deleted = IF r.kind = "DELETED" THEN acc.deleted \cup {r.session} ELSE acc.deleted
          /\ Parsed(acc, r).found = IF r.kind \in {"SESSION", "FEED"} THEN acc.found \cup {r.session} ELSE acc.found
      <4> HIDE DEF r
      <4>. QED  BY <2>4, ParsedFields DEF ScanTypes
    <3>. QED  BY <2>1, <3>1
  <2>6. ASSUME NEW q \in Partitions, NEW i \in Nat, i \in 1 .. pos'[q]
        PROVE  /\ registry[q][i].kind = "DELETED" => registry[q][i].session \in acc'.deleted
               /\ registry[q][i].kind = "SESSION" => registry[q][i].session \in acc'.found
    <3>1. i \in 1 .. pos[q] \/ (q = p /\ i = pos[p] + 1)
      BY <1>0, <2>1, <2>6 DEF ScanTypes
    <3>2. CASE i \in 1 .. pos[q]
      <4>1. /\ registry[q][i].kind = "DELETED" => registry[q][i].session \in acc.deleted
            /\ registry[q][i].kind = "SESSION" => registry[q][i].session \in acc.found
        BY <3>2 DEF ReadInv
      <4> HIDE DEF r
      <4>. QED  BY <2>5, <4>1
    <3>3. CASE q = p /\ i = pos[p] + 1
      <4>1. registry[q][i] = r
        BY <3>3
      <4> HIDE DEF r
      <4>. QED  BY <2>5, <4>1
    <3>. QED  BY <3>1, <3>2, <3>3
  <2>7. ASSUME NEW t \in acc'.deleted PROVE Tombstone(t) \in ToSet(registry[1])
    <3>1. CASE t \in acc.deleted
      BY <3>1 DEF ReadInv
    <3>2. CASE t \notin acc.deleted
      <4>1. r.kind = "DELETED" /\ t = r.session
        <5> HIDE DEF r
        <5>. QED  BY <2>5, <2>7, <3>2
      <4>2. p = 1 /\ r = Tombstone(t)
        BY <1>0, <2>3, <4>1 DEF RegistryInv
      <4>3. DOMAIN registry[1] = 1 .. Len(registry[1])
        BY <1>0, LenProperties
      <4>. QED  BY <2>3, <4>2, <4>3 DEF ToSet
    <3>. QED  BY <3>1, <3>2
  <2>. QED  BY <2>1, <2>2, <2>6, <2>7 DEF ReadInv, Partitions
<1>3. CASE UNCHANGED <<registry, pos, acc>> /\ phase' # "after"
  BY <1>3 DEF ReadInv, Partitions
<1>4. ASSUME BeginScan \/ \E p \in Partitions : PartitionEof(p)
      PROVE  UNCHANGED <<registry, pos, acc>> /\ phase' # "after"
  <2>1. CASE BeginScan
    BY <2>1, ScanSteps DEF BeginScan
  <2>2. ASSUME NEW p \in Partitions, PartitionEof(p)
        PROVE  UNCHANGED <<registry, pos, acc>> /\ phase' # "after"
    BY <2>2, ScanSteps DEF PartitionEof
  <2>. QED  BY <1>4, <2>1, <2>2
<1>5. CASE EndScan \/ ScanTimeout
  <2>1. UNCHANGED <<registry, pos, acc>> /\ result' = SessionsOf(acc)
    BY <1>5 DEF EndScan, ScanTimeout, Return, topicVars
  <2>2. result'.sessions = acc.found \ acc.deleted
    BY <2>1 DEF SessionsOf, Surviving
  <2>. QED  BY <2>1, <2>2 DEF ReadInv, Partitions
<1>6. CASE UNCHANGED vars
  BY <1>6 DEF ReadInv, vars, topicVars, scanVars, Partitions
<1>. QED  BY <1>1, <1>2, <1>3, <1>4, <1>5, <1>6, Zenon DEF Next

LEMMA EofInvStep == ScanTypes /\ StartInv /\ EofInv /\ [Next]_vars => EofInv'
<1> SUFFICES ASSUME ScanTypes, StartInv, EofInv, [Next]_vars PROVE EofInv'
  OBVIOUS
<1>0. /\ nParts \in Nat /\ parts \in Nat /\ nParts <= parts /\ parts <= MaxParts /\ nEof \in Nat
      /\ Partitions = 1 .. MaxParts /\ MaxParts \in Nat
      /\ \A q \in Partitions : Len(registry[q]) \in Nat /\ pos[q] \in Nat /\ start[q] \in Nat /\ eofAt[q] \in Nat
  <2>1. \A q \in Partitions : registry[q] \in Seq(Record)
    BY DEF ScanTypes
  <2>. QED  BY <2>1, RegistryAssumption DEF ScanTypes, Partitions
<1>1. ASSUME NEW s \in Sessions, Register(s) \/ MarkSessionDeleted(s) PROVE EofInv'
  <2>1. PICK p \in 1 .. parts, r \in Record : Wrote(p, r)
    BY <1>1, WriterSteps, Zenon
  <2>2. p \in Partitions
    BY <1>0
  <2>3. UNCHANGED <<parts, phase, nParts, eofAt, nEof, start>>
    BY <1>1, WriterSteps, Zenon
  <2>4. phase # "before" => ~Quiet'
    <3>1. Len(registry[p]) + 1 \in 1 .. Len(registry'[p])
      BY <2>1, <2>2, WroteRecords, Zenon
    <3>2. registry'[p] \in Seq(Record)
      BY <2>2, ScanTypesStep DEF ScanTypes, Partitions
    <3>3. Len(registry'[p]) \in Nat
      BY <3>2, LenProperties
    <3>4. phase # "before" => Len(registry'[p]) # start[p]
      BY <1>0, <2>2, <3>1, <3>3 DEF StartInv
    <3>. QED  BY <2>3, <3>4 DEF Quiet
  <2>5. Ended' = Ended
    BY <2>3 DEF Ended
  <2>. QED  BY <2>3, <2>4, <2>5 DEF EofInv, Partitions
<1>2. CASE BeginScan
  <2>1. UNCHANGED <<eofAt, nEof>> /\ phase = "before" /\ phase' = "scan" /\ nParts' <= parts /\ nParts' \in Nat
    BY <1>0, <1>2, ScanSteps DEF BeginScan, PartitionCount, ScanTypes, Partitions
  <2>2. nEof = 0 /\ \A q \in Partitions : eofAt[q] = 0
    BY <2>1 DEF EofInv
  <2>3. Ended' = {}
    BY <1>0, <2>1, <2>2 DEF Ended
  <2>. QED  BY <2>1, <2>2, <2>3, FS_EmptySet DEF EofInv, Partitions
<1>3. ASSUME NEW p \in Partitions, PartitionEof(p) PROVE EofInv'
  <2>1. /\ phase = "scan" /\ p <= nParts /\ pos[p] = Len(registry[p]) /\ eofAt[p] # pos[p] + 1
        /\ eofAt' = [eofAt EXCEPT ![p] = pos[p] + 1] /\ nEof' = nEof + 1
    BY <1>3 DEF PartitionEof
  <2>2. UNCHANGED <<parts, registry, phase, nParts, start>>
    BY <1>3, ScanSteps, Zenon
  <2>3. \A q \in Partitions : eofAt'[q] = IF q = p THEN pos[p] + 1 ELSE eofAt[q]
    BY <2>1 DEF ScanTypes
  <2>4. p \in 1 .. nParts /\ pos[p] + 1 # 0 /\ pos[p] + 1 >= start[p] + 1
    BY <1>0, <2>1 DEF StartInv
  <2>5. Ended' = Ended \cup {p}
    BY <1>0, <2>2, <2>3, <2>4 DEF Ended
  <2>6. ASSUME Quiet' PROVE nEof' = Cardinality(Ended')
    <3>1. Quiet
      BY <2>2, <2>6 DEF Quiet
    <3>2. pos[p] = start[p]
      BY <1>0, <2>1, <2>4, <3>1 DEF Quiet
    <3>3. eofAt[p] = 0
      BY <1>0, <2>1, <3>2 DEF EofInv, ScanTypes
    <3>4. p \notin Ended
      BY <3>3 DEF Ended
    <3>5. IsFiniteSet(Ended)
      BY <1>0, FS_Interval, FS_Subset DEF Ended
    <3>6. Cardinality(Ended \cup {p}) = Cardinality(Ended) + 1
      BY <3>4, <3>5, FS_AddElement
    <3>. QED  BY <2>1, <2>5, <3>1, <3>6 DEF EofInv
  <2>7. \A q \in Partitions : eofAt'[q] # 0 => q <= nParts /\ eofAt'[q] >= start[q] + 1
    BY <2>1, <2>3, <2>4 DEF EofInv
  <2>8. Ended' # {}
    BY <2>5
  <2>. QED  BY <2>1, <2>2, <2>6, <2>7, <2>8 DEF EofInv, Partitions
<1>4. CASE UNCHANGED <<parts, registry, nParts, eofAt, nEof, start>> /\ (phase = "before" <=> phase' = "before")
  BY <1>4 DEF EofInv, Ended, Quiet, Partitions
<1>5. ASSUME (\E p \in Partitions : ReadRecord(p)) \/ EndScan \/ ScanTimeout \/ UNCHANGED vars
      PROVE  /\ UNCHANGED <<parts, registry, nParts, eofAt, nEof, start>>
             /\ phase = "before" <=> phase' = "before"
  <2>1. ASSUME NEW p \in Partitions, ReadRecord(p)
        PROVE  UNCHANGED <<parts, registry, nParts, eofAt, nEof, start, phase>>
    BY <2>1, ScanSteps
  <2>2. CASE EndScan \/ ScanTimeout
    <3>1. phase = "scan" /\ phase' = "after"
      BY <2>2 DEF EndScan, ScanTimeout, Return
    <3>. QED  BY <2>2, <3>1, ScanSteps
  <2>3. UNCHANGED vars => UNCHANGED <<parts, registry, nParts, eofAt, nEof, start, phase>>
    BY DEF vars, topicVars, scanVars
  <2>. QED  BY <1>5, <2>1, <2>2, <2>3
<1>. QED  BY <1>1, <1>2, <1>3, <1>4, <1>5, Zenon DEF Next

LEMMA OkInvStep == ScanTypes /\ OkInv /\ [Next]_vars => OkInv'
<1> SUFFICES ASSUME ScanTypes, OkInv, [Next]_vars, phase' = "after", ok'
             PROVE  (nEof >= nParts /\ nParts = parts /\ (parts = 1 \/ Quiet))'
  BY DEF OkInv
<1>1. CASE EndScan
  <2>1. UNCHANGED <<parts, registry, nParts, nEof, start>>
    BY <1>1, ScanSteps
  <2>2. AllEof /\ nParts = parts /\ (parts = 1 \/ Quiet)
    BY <1>1 DEF EndScan
  <2>. QED  BY <2>1, <2>2 DEF AllEof, Quiet
<1>2. CASE UNCHANGED vars
  BY <1>2 DEF OkInv, Quiet, vars, topicVars, scanVars
<1>3. ~ScanTimeout
  BY DEF ScanTimeout
<1>4. ASSUME NEW s \in Sessions, Register(s) \/ MarkSessionDeleted(s) PROVE FALSE
  BY <1>4, WriterSteps
<1>5. ASSUME NEW p \in Partitions, ReadRecord(p) \/ PartitionEof(p) PROVE FALSE
  BY <1>5, ScanSteps DEF ReadRecord, PartitionEof
<1>6. ~BeginScan
  BY DEF BeginScan
<1>. QED  BY <1>1, <1>2, <1>3, <1>4, <1>5, <1>6 DEF Next

LEMMA ScanInvInit == Init => ScanInv
<1> SUFFICES ASSUME Init PROVE ScanInv
  OBVIOUS
<1>0. \A q \in Partitions : Len(registry[q]) = 0 /\ pos[q] = 0 /\ eofAt[q] = 0
  BY DEF Init
<1>1. 1 .. 0 = {} /\ phase = "before" /\ nEof = 0 /\ acc.deleted = {}
  BY DEF Init, Nothing
<1>2. \A s \in Sessions : ~(step[s] >= 1)
  BY DEF Init
<1>3. \A q \in Partitions : 1 .. Len(registry[q]) = {} /\ 1 .. pos[q] = {}
  BY <1>0, <1>1
<1>. QED  BY <1>0, <1>1, <1>2, <1>3 DEF ScanInv, RegistryInv, StartInv, ReadInv, EofInv, OkInv

-----------------------------------------------------------------------------
(* What the scan returns.                                                  *)

LEMMA ScanInvariant == Spec => [](ScanTypes /\ ScanInv)
<1>1. Init => ScanTypes /\ ScanInv
  BY ScanTypesInit, ScanInvInit
<1>2. (ScanTypes /\ ScanInv) /\ [Next]_vars => (ScanTypes /\ ScanInv)'
  BY ScanTypesStep, RegistryInvStep, StartInvStep, ReadInvStep, EofInvStep, OkInvStep DEF ScanInv
<1>. QED  BY <1>1, <1>2, PTL DEF Spec

\* the records that were there when the scan began
LEMMA BeforeIs ==
  ASSUME ScanTypes, StartInv, phase # "before", NEW r \in Before
  PROVE  \E p \in 1 .. parts, i \in Nat : i \in 1 .. start[p] /\ registry[p][i] = r
<1>1. PICK p \in 1 .. parts : r \in ToSet(SubSeq(registry[p], 1, start[p]))
  BY DEF Before
<1>2. p \in Partitions
  BY RegistryAssumption DEF ScanTypes, Partitions
<1>3. registry[p] \in Seq(Record) /\ Len(registry[p]) \in Nat /\ start[p] \in Nat /\ start[p] <= Len(registry[p])
  <2>1. registry[p] \in Seq(Record)
    BY <1>2 DEF ScanTypes
  <2>. QED  BY <1>2, <2>1, LenProperties DEF ScanTypes, StartInv
<1> DEFINE q == registry[p]
           n == start[p]
<1>4. PICK i \in DOMAIN SubSeq(q, 1, n) : SubSeq(q, 1, n)[i] = r
  BY <1>1, Zenon DEF ToSet
<1> HIDE DEF q, n
<1>5. q \in Seq(Record) /\ Len(q) \in Nat /\ n \in Nat /\ n <= Len(q)
  BY <1>3 DEF q, n
<1>6. i \in 1 .. n /\ i \in Nat /\ SubSeq(q, 1, n)[i] = q[i]
  BY <1>4, <1>5
<1>. QED  BY <1>4, <1>6 DEF q, n

\* Once a scan that met no deadline is over, every partition was read to where
\* it ended when the scan began.
LEMMA AllRead ==
  ASSUME ScanTypes, ScanInv, phase = "after", ok, NEW p \in 1 .. parts
  PROVE  p \in Partitions /\ pos[p] \in Nat /\ start[p] \in Nat /\ pos[p] >= start[p]
<1>1. nEof >= nParts /\ nParts = parts /\ (parts = 1 \/ Quiet)
  BY DEF ScanInv, OkInv
<1>2. parts \in Nat /\ parts >= 1 /\ nEof \in Nat /\ p \in Partitions
  BY RegistryAssumption DEF ScanTypes, Partitions
<1>3. pos[p] \in Nat /\ start[p] \in Nat /\ eofAt[p] \in Nat /\ eofAt[p] <= pos[p] + 1
  BY <1>2 DEF ScanTypes
<1>4. p \in Ended
  <2>1. CASE parts = 1
    <3>1. Ended # {} /\ Ended \subseteq {1} /\ p = 1
      BY <1>1, <1>2, <2>1 DEF ScanInv, EofInv, Ended
    <3>. QED  BY <3>1
  <2>2. CASE Quiet
    <3>1. nEof = Cardinality(Ended)
      BY <2>2 DEF ScanInv, EofInv
    <3>2. IsFiniteSet(1 .. parts) /\ Cardinality(1 .. parts) = parts
      BY <1>2, FS_Interval
    <3>3. Ended \subseteq 1 .. parts
      BY <1>1 DEF Ended
    <3>4. Ended = 1 .. parts
      <4>1. Cardinality(Ended) <= Cardinality(1 .. parts)
            /\ (Cardinality(Ended) = Cardinality(1 .. parts) => Ended = 1 .. parts)
        BY <3>2, <3>3, FS_Subset
      <4>. QED  BY <1>1, <1>2, <3>1, <3>2, <4>1
    <3>. QED  BY <3>4
  <2>. QED  BY <1>1, <2>1, <2>2
<1>5. eofAt[p] >= start[p] + 1
  BY <1>2, <1>4 DEF ScanInv, EofInv, Ended
<1>. QED  BY <1>2, <1>3, <1>5

\* A scan of the registry that met no deadline, of one partition or of a topic
\* that did not grow, has read what was there when it began, returns every
\* session that had written anything and is not deleted, and none that was
\* deleted: for any sessions, feeds, partitions and number of writes during the
\* scan. It rests on the registry itself (a session's first record is its
\* header), on the end of partition events being at or after the ends found at
\* the beginning, and, with several partitions, on a partition that does not
\* grow giving one of them (DiscoverSessions, Kv8Consumer.cpp).
THEOREM ScanIsExact == Spec => []ScanExact
<1>1. ScanTypes /\ ScanInv => ScanExact
  <2> SUFFICES ASSUME ScanTypes, ScanInv, phase = "after", ok
               PROVE  /\ \A p \in 1 .. parts : pos[p] >= start[p]
                      /\ \A s \in Sessions :
                           /\ Tombstone(s) \in Before => s \notin result.sessions
                           /\ (\E r \in Before : r.session = s) /\ Tombstone(s) \notin ToSet(registry[1])
                                => s \in result.sessions
    BY DEF ScanExact
  <2>1. \A p \in 1 .. parts : p \in Partitions /\ pos[p] \in Nat /\ start[p] \in Nat /\ pos[p] >= start[p]
    BY AllRead
  <2>2. result.sessions = acc.found \ acc.deleted
    BY DEF ScanInv, ReadInv
  <2>3. ASSUME NEW r \in Before
        PROVE  \E p \in Partitions, i \in Nat : i \in 1 .. start[p] /\ i \in 1 .. pos[p] /\ registry[p][i] = r
    <3>1. PICK p \in 1 .. parts, i \in Nat : i \in 1 .. start[p] /\ registry[p][i] = r
      BY BeforeIs DEF ScanInv
    <3>2. i \in 1 .. pos[p]
      BY <2>1, <3>1
    <3>. QED  BY <2>1, <3>1, <3>2
  <2>4. ASSUME NEW s \in Sessions, Tombstone(s) \in Before PROVE s \notin result.sessions
    <3>1. PICK p \in Partitions, i \in Nat : i \in 1 .. pos[p] /\ registry[p][i] = Tombstone(s)
      BY <2>3, <2>4
    <3>2. Tombstone(s).kind = "DELETED" /\ Tombstone(s).session = s
      BY DEF Tombstone, Rec
    <3>3. s \in acc.deleted
      BY <3>1, <3>2 DEF ScanInv, ReadInv
    <3>. QED  BY <2>2, <3>3
  <2>5. ASSUME NEW s \in Sessions, NEW r \in Before, r.session = s, Tombstone(s) \notin ToSet(registry[1])
        PROVE  s \in result.sessions
    <3>1. PICK p \in Partitions, i \in Nat : i \in 1 .. start[p] /\ registry[p][i] = r
      BY <2>3
    <3>2. PICK q \in Partitions, j \in Nat : j \in 1 .. start[q] /\ registry[q][j] = Header(s)
      BY <2>5, <3>1 DEF ScanInv, StartInv
    <3>3. q \in 1 .. parts
      <4>1. start[q] <= Len(registry[q]) /\ registry[q] \in Seq(Record) /\ start[q] \in Nat
        BY DEF ScanInv, StartInv, ScanTypes
      <4>2. Len(registry[q]) \in Nat
        BY <4>1, LenProperties
      <4>3. j \in 1 .. Len(registry[q])
        BY <3>2, <4>1, <4>2
      <4>4. q <= parts
        BY <4>3 DEF ScanInv, RegistryInv
      <4>. QED  BY <4>4, RegistryAssumption DEF Partitions, ScanTypes
    <3>4. j \in 1 .. pos[q]
      BY <2>1, <3>2, <3>3
    <3>5. Header(s).kind = "SESSION" /\ Header(s).session = s
      BY DEF Header, Rec
    <3>6. s \in acc.found
      BY <3>2, <3>4, <3>5 DEF ScanInv, ReadInv
    <3>7. s \notin acc.deleted
      BY <2>5 DEF ScanInv, ReadInv
    <3>. QED  BY <2>2, <3>6, <3>7
  <2>. QED  BY <2>1, <2>4, <2>5
<1>. QED  BY <1>1, ScanInvariant, PTL

-----------------------------------------------------------------------------
(* Induction over the numbers, and what a fold of a sequence computes.      *)

Below == {p \in Nat \X Nat : p[1] < p[2]}

LEMMA BelowWF == IsWellFoundedOn(Below, Nat)
  BY NatLessThanWellFounded DEF OpToRel, Below

\* Induction over the naturals, for a set.
LEMMA NatSetInduction ==
  ASSUME NEW S, S \subseteq Nat, 0 \in S, \A n \in S : n + 1 \in S
  PROVE  S = Nat
<1> SUFFICES ASSUME Nat \ S # {} PROVE FALSE
  OBVIOUS
<1>1. \E x \in Nat \ S : \A y \in Nat \ S : ~ (<<y, x>> \in Below)
  BY BelowWF, WFMin
<1>2. PICK x \in Nat \ S : \A y \in Nat \ S : ~ (<<y, x>> \in Below)
  BY <1>1
<1>3. x # 0 /\ x - 1 \in Nat /\ <<x - 1, x>> \in Below
  BY DEF Below
<1>4. x - 1 \in S /\ (x - 1) + 1 = x
  BY <1>2, <1>3
<1>. QED  BY <1>4

Top(s) == CHOOSE x \in s : \A y \in s : x >= y

LEMMA TopIs == ASSUME NEW S, NEW m \in S, S \subseteq Nat, \A x \in S : x <= m PROVE Top(S) = m
<1>1. \A y \in S : m >= y
  BY SMT
<1>2. Top(S) \in S /\ \A y \in S : Top(S) >= y
  BY <1>1, Zenon DEF Top
<1>3. Top(S) >= m /\ Top(S) <= m /\ Top(S) \in Nat /\ m \in Nat
  BY <1>2
<1>. QED  BY <1>3

LEMMA TopInterval ==
  ASSUME NEW n \in Nat, NEW s \in SUBSET (1 .. n), s # {}
  PROVE  Top(s) \in s /\ \A x \in s : x <= Top(s)
<1> DEFINE N == {k \in Nat : \A t \in SUBSET (1 .. k) : t # {} => \E m \in t : \A x \in t : x <= m}
<1>1. 0 \in N
  <2>1. 1 .. 0 = {}
    OBVIOUS
  <2>. QED  BY <2>1
<1>2. ASSUME NEW k \in N PROVE k + 1 \in N
  <2> SUFFICES ASSUME NEW t \in SUBSET (1 .. k + 1), t # {} PROVE \E m \in t : \A x \in t : x <= m
    OBVIOUS
  <2>1. CASE k + 1 \in t
    <3>1. \A x \in t : x <= k + 1
      OBVIOUS
    <3>. QED  BY <2>1, <3>1
  <2>2. CASE k + 1 \notin t
    <3>1. t \in SUBSET (1 .. k)
      BY <2>2
    <3>. QED  BY <3>1
  <2>. QED  BY <2>1, <2>2
<1>3. N = Nat
  <2> HIDE DEF N
  <2>1. N \subseteq Nat
    BY DEF N
  <2>. QED  BY <1>1, <1>2, <2>1, NatSetInduction
<1>4. n \in N
  <2> HIDE DEF N
  <2>. QED  BY <1>3
<1>5. PICK m \in s : \A x \in s : x <= m
  BY <1>4
<1>6. s \subseteq Nat
  OBVIOUS
<1>7. Top(s) = m
  BY <1>5, <1>6, TopIs
<1>. QED  BY <1>5, <1>7

\* A value for every subset of 1 .. n, from that for the subset without its
\* largest number: what the folds of the community modules iterate.
Iterates(g, T, F, b, n) ==
  /\ g \in [SUBSET (1 .. n) -> T]
  /\ \A s \in SUBSET (1 .. n) : g[s] = IF s = {} THEN b ELSE F[<<g[s \ {Top(s)}], Top(s)>>]

LEMMA IterationExists ==
  ASSUME NEW T, NEW b \in T, NEW m \in Nat, NEW F \in [T \X (1 .. m) -> T]
  PROVE  \E g : Iterates(g, T, F, b, m)
<1> DEFINE N == {n \in Nat : n <= m => \E g : Iterates(g, T, F, b, n)}
<1>1. 0 \in N
  <2> DEFINE z == [s \in SUBSET (1 .. 0) |-> b]
  <2>1. 1 .. 0 = {}
    OBVIOUS
  <2>2. \A s \in SUBSET (1 .. 0) : s = {} /\ z[s] = b
    BY <2>1
  <2>3. z \in [SUBSET (1 .. 0) -> T]
    OBVIOUS
  <2> HIDE DEF z
  <2>4. Iterates(z, T, F, b, 0)
    BY <2>2, <2>3 DEF Iterates
  <2>. QED  BY <2>4
<1>2. ASSUME NEW n \in N PROVE n + 1 \in N
  <2> SUFFICES ASSUME n + 1 <= m PROVE \E g : Iterates(g, T, F, b, n + 1)
    OBVIOUS
  <2>0. n \in Nat /\ n <= m /\ n + 1 \in 1 .. m
    OBVIOUS
  <2>1. PICK g : Iterates(g, T, F, b, n)
    BY <2>0
  <2>2. /\ g \in [SUBSET (1 .. n) -> T]
        /\ \A s \in SUBSET (1 .. n) : g[s] = IF s = {} THEN b ELSE F[<<g[s \ {Top(s)}], Top(s)>>]
    BY <2>1 DEF Iterates
  <2> DEFINE h == [s \in SUBSET (1 .. n + 1) |-> IF n + 1 \in s THEN F[<<g[s \ {n + 1}], n + 1>>] ELSE g[s]]
  <2>3. ASSUME NEW s \in SUBSET (1 .. n + 1)
        PROVE  h[s] \in T /\ h[s] = IF s = {} THEN b ELSE F[<<h[s \ {Top(s)}], Top(s)>>]
    <3>1. CASE n + 1 \in s
      <4>1. Top(s) = n + 1
        <5>1. s \subseteq Nat /\ \A x \in s : x <= n + 1
          BY <2>0
        <5>. QED  BY <3>1, <5>1, TopIs, Zenon
      <4>2. s \ {n + 1} \in SUBSET (1 .. n) /\ s \ {n + 1} \in SUBSET (1 .. n + 1) /\ n + 1 \notin s \ {n + 1}
        BY <2>0
      <4>3. h[s \ {n + 1}] = g[s \ {n + 1}] /\ g[s \ {n + 1}] \in T
        BY <2>2, <4>2
      <4>4. h[s] = F[<<g[s \ {n + 1}], n + 1>>]
        BY <3>1
      <4>5. F[<<g[s \ {n + 1}], n + 1>>] \in T
        <5>1. <<g[s \ {n + 1}], n + 1>> \in T \X (1 .. m)
          BY <2>0, <4>3, Zenon
        <5>. QED  BY <5>1
      <4> HIDE DEF h
      <4>. QED  BY <3>1, <4>1, <4>3, <4>4, <4>5
    <3>2. CASE n + 1 \notin s
      <4>0. s \in SUBSET (1 .. n)
        BY <2>0, <3>2
      <4>1. /\ s \ {Top(s)} \in SUBSET (1 .. n)
            /\ s \ {Top(s)} \in SUBSET (1 .. n + 1) /\ n + 1 \notin s \ {Top(s)}
        BY <3>2, <4>0
      <4>2. h[s] = g[s] /\ h[s \ {Top(s)}] = g[s \ {Top(s)}] /\ g[s] \in T
        BY <2>2, <3>2, <4>0, <4>1
      <4> HIDE DEF h
      <4>. QED  BY <2>2, <4>0, <4>2
    <3>. QED  BY <3>1, <3>2
  <2>4. h = [s \in SUBSET (1 .. n + 1) |-> h[s]]
    OBVIOUS
  <2> HIDE DEF h
  <2>5. h \in [SUBSET (1 .. n + 1) -> T]
    BY <2>3, <2>4
  <2>6. Iterates(h, T, F, b, n + 1)
    BY <2>3, <2>5 DEF Iterates
  <2>. QED  BY <2>6
<1>3. N = Nat
  <2> HIDE DEF N
  <2>1. N \subseteq Nat
    BY DEF N
  <2>. QED  BY <1>1, <1>2, <2>1, NatSetInduction
<1>4. m \in N
  <2> HIDE DEF N
  <2>. QED  BY <1>3
<1>. QED  BY <1>4

\* The same, where the step is known to be F only from a value of T; and the
\* values for 1 .. 0, 1 .. 1, ... one after the other.
Iterating(it, T, F, b, n) ==
  /\ it[{}] = b
  /\ \A s \in SUBSET (1 .. n) : s # {} /\ it[s \ {Top(s)}] \in T => it[s] = F[<<it[s \ {Top(s)}], Top(s)>>]

History(it, T, F, b, n) ==
  \E h \in [0 .. n -> T] :
    h[0] = b /\ h[n] = it[1 .. n] /\ \A i \in 1 .. n : h[i] = F[<<h[i - 1], i>>]

LEMMA IterationHistory ==
  ASSUME NEW T, NEW b \in T, NEW n \in Nat, NEW F \in [T \X (1 .. n) -> T], NEW it, Iterating(it, T, F, b, n)
  PROVE  History(it, T, F, b, n)
<1>0. /\ it[{}] = b
      /\ \A s \in SUBSET (1 .. n) : s # {} /\ it[s \ {Top(s)}] \in T => it[s] = F[<<it[s \ {Top(s)}], Top(s)>>]
  BY DEF Iterating
<1> DEFINE h == [i \in 0 .. n |-> it[1 .. i]]
<1>1. h[0] = b
  <2>1. 1 .. 0 = {} /\ 0 \in 0 .. n
    OBVIOUS
  <2>. QED  BY <1>0, <2>1
<1>2. ASSUME NEW i \in 1 .. n, h[i - 1] \in T PROVE h[i] = F[<<h[i - 1], i>>] /\ h[i] \in T
  <2>1. Top(1 .. i) = i
    <3>1. i \in 1 .. i /\ 1 .. i \subseteq Nat /\ \A x \in 1 .. i : x <= i
      OBVIOUS
    <3>. QED  BY <3>1, TopIs, Zenon
  <2>2. (1 .. i) \ {i} = 1 .. (i - 1)
    OBVIOUS
  <2>3. 1 .. i \in SUBSET (1 .. n) /\ 1 .. i # {}
    <3>1. \A x \in 1 .. i : x \in 1 .. n
      OBVIOUS
    <3>2. i \in 1 .. i
      OBVIOUS
    <3>. QED  BY <3>1, <3>2
  <2>4. h[i] = it[1 .. i] /\ h[i - 1] = it[1 .. (i - 1)]
    OBVIOUS
  <2>5. h[i] = F[<<h[i - 1], i>>]
    <3> HIDE DEF h
    <3>. QED  BY <1>0, <1>2, <2>1, <2>2, <2>3, <2>4, Zenon
  <2>6. <<h[i - 1], i>> \in T \X (1 .. n)
    <3> HIDE DEF h
    <3>. QED  BY <1>2, Zenon
  <2> HIDE DEF h
  <2>. QED  BY <2>5, <2>6
<1>3. h[n] = it[1 .. n] /\ h = [i \in 0 .. n |-> h[i]]
  OBVIOUS
<1> HIDE DEF h
<1>4. \A i \in 0 .. n : h[i] \in T
  <2> DEFINE N == {i \in Nat : i <= n => h[i] \in T}
  <2>1. 0 \in N
    BY <1>1
  <2>2. ASSUME NEW i \in N PROVE i + 1 \in N
    <3> SUFFICES ASSUME i + 1 <= n PROVE h[i + 1] \in T
      OBVIOUS
    <3>1. i + 1 \in 1 .. n /\ (i + 1) - 1 = i /\ i <= n
      OBVIOUS
    <3>2. h[(i + 1) - 1] \in T
      BY <3>1
    <3>. QED  BY <1>2, <3>1, <3>2
  <2>3. N = Nat
    <3> HIDE DEF N
    <3>1. N \subseteq Nat
      BY DEF N
    <3>. QED  BY <2>1, <2>2, <3>1, NatSetInduction
  <2>. QED  BY <2>3
<1>5. h \in [0 .. n -> T]
  BY <1>3, <1>4
<1>6. \A i \in 1 .. n : h[i] = F[<<h[i - 1], i>>]
  <2>1. \A i \in 1 .. n : i - 1 \in 0 .. n
    OBVIOUS
  <2>. QED  BY <1>2, <1>4, <2>1
<1>. QED  BY <1>1, <1>3, <1>5, <1>6 DEF History

-----------------------------------------------------------------------------
(* What the schemas of a feed are made of.                                 *)

\* the schemas a session registers
Own(s) == ToSet(Feed[s])
FeedSchemas == UNION {Own(s) : s \in Sessions}

LEMMA OwnIs ==
  ASSUME NEW s \in Sessions
  PROVE  /\ Len(Feed[s]) \in Nat /\ Len(Feed[s]) >= 1 /\ Last(Feed[s]) = Feed[s][Len(Feed[s])]
         /\ \A i \in 1 .. Len(Feed[s]) : Feed[s][i] \in Own(s)
         /\ \A h \in Own(s) : \E i \in 1 .. Len(Feed[s]) : Feed[s][i] = h
         /\ Last(Feed[s]) \in Own(s) /\ Own(s) \subseteq Schemas
         /\ \A i \in 1 .. Len(Feed[s]) : \A n \in Embeds[Feed[s][i]] :
              \E j \in 1 .. Len(Feed[s]) : j < i /\ TypeName[Feed[s][j]] = n
         /\ \A h \in Own(s) : \A n \in Embeds[h] : \E y \in Own(s) : TypeName[y] = n
         /\ \A g, h \in Own(s) : TypeName[g] = TypeName[h] => g = h
<1> DEFINE q == Feed[s]
<1>1. q \in Seq(Schemas) /\ q # <<>>
  BY RegistryAssumption
<1>2. \A i \in 1 .. Len(q) : \A n \in Embeds[q[i]] : \E j \in 1 .. i - 1 : TypeName[q[j]] = n
  BY RegistryAssumption
<1>3. \A g, h \in ToSet(q) : TypeName[g] = TypeName[h] => g = h
  BY RegistryAssumption
<1>4. Len(q) \in Nat /\ Len(q) >= 1 /\ DOMAIN q = 1 .. Len(q) /\ \A i \in 1 .. Len(q) : q[i] \in Schemas
  <2> HIDE DEF q
  <2>. QED  BY <1>1
<1>5. Last(q) = q[Len(q)]
  BY DEF Last
<1>6. /\ \A i \in 1 .. Len(q) : q[i] \in ToSet(q)
      /\ \A h \in ToSet(q) : \E i \in 1 .. Len(q) : q[i] = h
  BY <1>4, Zenon DEF ToSet
<1>7. Last(q) \in ToSet(q) /\ ToSet(q) \subseteq Schemas
  <2>1. Len(q) \in 1 .. Len(q)
    BY <1>4
  <2>. QED  BY <1>4, <1>5, <1>6, <2>1
<1>8. \A i \in 1 .. Len(q) : \A n \in Embeds[q[i]] : \E j \in 1 .. Len(q) : j < i /\ TypeName[q[j]] = n
  <2> HIDE DEF q
  <2>1. \A i \in 1 .. Len(q) : \A j \in 1 .. i - 1 : j \in 1 .. Len(q) /\ j < i
    BY <1>4
  <2>. QED  BY <1>2, <2>1
<1>9. ASSUME NEW h \in ToSet(q), NEW n \in Embeds[h] PROVE \E y \in ToSet(q) : TypeName[y] = n
  <2>1. PICK i \in 1 .. Len(q) : q[i] = h
    BY <1>6
  <2>2. n \in Embeds[q[i]]
    BY <2>1
  <2>3. PICK j \in 1 .. Len(q) : TypeName[q[j]] = n
    BY <1>8, <2>2
  <2>. QED  BY <1>6, <2>3
<1>. QED  BY <1>3, <1>4, <1>5, <1>6, <1>7, <1>8, <1>9 DEF Own

LEMMA EmbedsKnown ==
  ASSUME NEW h \in FeedSchemas
  PROVE  h \in Schemas /\ TypeName[h] \in TypeNames /\ Embeds[h] \subseteq TypeNames
<1>1. PICK s \in Sessions : h \in Own(s)
  BY DEF FeedSchemas
<1>2. h \in Schemas
  BY <1>1, OwnIs
<1>4. ASSUME NEW n \in Embeds[h] PROVE n \in TypeNames
  <2>1. PICK y \in Own(s) : TypeName[y] = n
    BY <1>1, OwnIs
  <2>2. y \in Schemas
    BY OwnIs
  <2>. QED  BY <2>1, <2>2 DEF TypeNames
<1>. QED  BY <1>2, <1>4 DEF TypeNames

\* A schema is made of itself and of what the schemas it embeds are made of.
EmbeddedIn(s, x) == {y \in Own(s) : TypeName[y] \in Embeds[x]}

LEMMA MadeOfIs ==
  ASSUME NEW s \in Sessions, NEW x \in Own(s)
  PROVE  MadeOf(s, x) = {x} \cup UNION {MadeOf(s, y) : y \in EmbeddedIn(s, x)}
<1> DEFINE O == Own(s)
           C(S) == \A g \in S : \A h \in O : TypeName[h] \in Embeds[g] => h \in S
           All == {x} \cup UNION {MadeOf(s, y) : y \in EmbeddedIn(s, x)}
<1>1. \A y : MadeOf(s, y) = {h \in O : \A S \in SUBSET O : y \in S /\ C(S) => h \in S}
  BY DEF MadeOf, EmbedClosed, Own
<1>2. All \subseteq MadeOf(s, x)
  <2>1. x \in MadeOf(s, x)
    BY <1>1
  <2>2. ASSUME NEW y \in EmbeddedIn(s, x), NEW h \in MadeOf(s, y) PROVE h \in MadeOf(s, x)
    <3>1. ASSUME NEW S \in SUBSET O, x \in S, C(S) PROVE h \in S
      <4>1. y \in S
        BY <3>1 DEF EmbeddedIn
      <4>. QED  BY <1>1, <2>2, <3>1, <4>1
    <3>2. h \in O
      BY <1>1, <2>2
    <3>. QED  BY <1>1, <3>1, <3>2
  <2>. QED  BY <2>1, <2>2
<1>3. MadeOf(s, x) \subseteq All
  <2>1. All \in SUBSET O
    BY <1>1
  <2>2. ASSUME NEW g \in All, NEW h \in O, TypeName[h] \in Embeds[g] PROVE h \in All
    <3>1. CASE g = x
      <4>1. h \in EmbeddedIn(s, x)
        BY <2>2, <3>1 DEF EmbeddedIn
      <4>2. h \in MadeOf(s, h)
        BY <1>1
      <4>. QED  BY <4>1, <4>2
    <3>2. ASSUME NEW y \in EmbeddedIn(s, x), g \in MadeOf(s, y) PROVE h \in All
      <4>1. ASSUME NEW S \in SUBSET O, y \in S, C(S) PROVE h \in S
        <5>1. g \in S
          BY <1>1, <3>2, <4>1
        <5>. QED  BY <2>2, <4>1, <5>1
      <4>2. h \in MadeOf(s, y)
        BY <1>1, <4>1
      <4>. QED  BY <4>2
    <3>. QED  BY <3>1, <3>2
  <2>3. C(All) /\ x \in All
    BY <2>2
  <2>. QED
    <3> HIDE DEF All
    <3>. QED  BY <1>1, <2>1, <2>3
<1>. QED  BY <1>2, <1>3

-----------------------------------------------------------------------------
(* Resolving the schemas. A state is that of the fixed point: the layouts  *)
(* and the types that are known.                                           *)

NumHashes == Len(HashOrder)

LEMMA HashesAre == NumHashes \in Nat /\ DOMAIN HashOrder = 1 .. NumHashes /\ \A i \in 1 .. NumHashes : HashOrder[i] \in Schemas
<1>1. HashOrder \in Seq(Schemas)
  BY RegistryAssumption
<1>. QED  BY <1>1, LenProperties DEF NumHashes

Attempt(cache, st, h) == IF h \in cache THEN TryResolve(st, h) ELSE st

Preserves(cache, T) == \A st \in T, h \in Schemas : Attempt(cache, st, h) \in T

\* What a pass computes, one schema after the other.
LEMMA PassHistory ==
  ASSUME NEW T, NEW cache, NEW st \in T, Preserves(cache, T)
  PROVE  \E g \in [0 .. NumHashes -> T] :
           /\ g[0] = st /\ g[NumHashes] = Pass(cache, st)
           /\ \A i \in 1 .. NumHashes : g[i] = Attempt(cache, g[i - 1], HashOrder[i])
<1> DEFINE n == NumHashes
           F == [x \in T \X (1 .. n) |-> Attempt(cache, x[1], HashOrder[x[2]])]
           Eqn(g) == g = [s \in SUBSET (1 .. n) |->
                            IF s = {} THEN st ELSE Attempt(cache, g[s \ {Max(s)}], HashOrder[Max(s)])]
           it == CHOOSE g : Eqn(g)
<1>1. n \in Nat /\ DOMAIN HashOrder = 1 .. n /\ \A i \in 1 .. n : HashOrder[i] \in Schemas
  BY HashesAre
<1>2. Pass(cache, st) = it[1 .. n]
  BY <1>1 DEF Pass, FoldLeft, MapThenFoldSet, Attempt
<1>3. \A s : Max(s) = Top(s)
  BY DEF Max, Top
<1>4. F \in [T \X (1 .. n) -> T] /\ \A s \in T, i \in 1 .. n : F[<<s, i>>] = Attempt(cache, s, HashOrder[i])
  <2>1. \A s \in T, i \in 1 .. n : Attempt(cache, s, HashOrder[i]) \in T
    <3> HIDE DEF n
    <3>. QED  BY <1>1 DEF Preserves
  <2> HIDE DEF n
  <2>2. \A x \in T \X (1 .. n) : x[1] \in T /\ x[2] \in 1 .. n
    OBVIOUS
  <2>3. F \in [T \X (1 .. n) -> T]
    BY <2>1, <2>2
  <2>4. ASSUME NEW s \in T, NEW i \in 1 .. n PROVE F[<<s, i>>] = Attempt(cache, s, HashOrder[i])
    <3>1. <<s, i>> \in T \X (1 .. n) /\ <<s, i>>[1] = s /\ <<s, i>>[2] = i
      OBVIOUS
    <3>. QED  BY <3>1
  <2>. QED  BY <2>3, <2>4
<1>5. \A s \in SUBSET (1 .. n) : s # {} => Top(s) \in 1 .. n
  <2> HIDE DEF n
  <2>. QED  BY <1>1, TopInterval
<1>6. Eqn(it)
  <2>1. PICK g : Iterates(g, T, F, st, n)
    <3> HIDE DEF F, n
    <3>. QED  BY <1>1, <1>4, IterationExists
  <2>2. /\ g \in [SUBSET (1 .. n) -> T]
        /\ \A s \in SUBSET (1 .. n) : g[s] = IF s = {} THEN st ELSE F[<<g[s \ {Top(s)}], Top(s)>>]
    BY <2>1 DEF Iterates
  <2>3. ASSUME NEW s \in SUBSET (1 .. n)
        PROVE  g[s] = IF s = {} THEN st ELSE Attempt(cache, g[s \ {Max(s)}], HashOrder[Max(s)])
    <3>1. CASE s = {}
      BY <2>2, <3>1
    <3>2. CASE s # {}
      <4>1. Top(s) \in 1 .. n /\ s \ {Top(s)} \in SUBSET (1 .. n) /\ Max(s) = Top(s)
        BY <1>3, <1>5, <3>2
      <4>2. g[s \ {Top(s)}] \in T
        BY <2>2, <4>1
      <4>3. F[<<g[s \ {Top(s)}], Top(s)>>] = Attempt(cache, g[s \ {Top(s)}], HashOrder[Top(s)])
        <5> HIDE DEF F
        <5>. QED  BY <1>4, <4>1, <4>2
      <4> HIDE DEF F
      <4>. QED  BY <2>2, <3>2, <4>1, <4>3
    <3>. QED  BY <3>1, <3>2
  <2>4. g = [s \in SUBSET (1 .. n) |-> g[s]]
    BY <2>2
  <2>5. Eqn(g)
    BY <2>3, <2>4
  <2>. QED  BY <2>5
<1>7. it[{}] = st
  <2>1. {} \in SUBSET (1 .. n)
    OBVIOUS
  <2> HIDE DEF it, n
  <2>. QED  BY <1>6, <2>1
<1>8. ASSUME NEW s \in SUBSET (1 .. n), s # {}, it[s \ {Top(s)}] \in T
      PROVE  it[s] = F[<<it[s \ {Top(s)}], Top(s)>>]
  <2>1. Top(s) \in 1 .. n /\ Max(s) = Top(s)
    BY <1>3, <1>5, <1>8
  <2>2. it[s] = Attempt(cache, it[s \ {Max(s)}], HashOrder[Max(s)])
    <3> HIDE DEF it, n
    <3>. QED  BY <1>6, <1>8
  <2> HIDE DEF it, F, n
  <2>. QED  BY <1>4, <1>8, <2>1, <2>2
<1>9. PICK g \in [0 .. n -> T] : g[0] = st /\ g[n] = it[1 .. n] /\ \A i \in 1 .. n : g[i] = F[<<g[i - 1], i>>]
  <2>1. n \in Nat /\ F \in [T \X (1 .. n) -> T]
    BY <1>1, <1>4
  <2> HIDE DEF it, F, n
  <2>2. Iterating(it, T, F, st, n)
    BY <1>7, <1>8 DEF Iterating
  <2>3. History(it, T, F, st, n)
    BY <2>1, <2>2, IterationHistory, Zenon
  <2>. QED  BY <2>3 DEF History
<1>10. ASSUME NEW i \in 1 .. n PROVE g[i] = Attempt(cache, g[i - 1], HashOrder[i])
  <2>1. g[i - 1] \in T
    <3> HIDE DEF it, F, n
    <3>1. i - 1 \in 0 .. n
      BY <1>1
    <3>. QED  BY <3>1
  <2> HIDE DEF it, F, n
  <2>. QED  BY <1>4, <1>9, <2>1
<1> HIDE DEF it, F
<1>. QED  BY <1>2, <1>9, <1>10

LEMMA PassType ==
  ASSUME NEW T, NEW cache, NEW st \in T, Preserves(cache, T)
  PROVE  Pass(cache, st) \in T
<1>1. PICK g \in [0 .. NumHashes -> T] :
        /\ g[0] = st /\ g[NumHashes] = Pass(cache, st)
        /\ \A i \in 1 .. NumHashes : g[i] = Attempt(cache, g[i - 1], HashOrder[i])
  BY PassHistory
<1>2. NumHashes \in 0 .. NumHashes
  BY HashesAre
<1>. QED  BY <1>1, <1>2

\* What the passes compute, one after the other.
LEMMA PassesHistory ==
  ASSUME NEW T, NEW cache, Unresolved \in T, Preserves(cache, T)
  PROVE  \E g \in [0 .. NumHashes -> T] :
           /\ g[0] = Unresolved /\ ResolvedSchemas(cache) = g[NumHashes].layout
           /\ \A i \in 1 .. NumHashes : g[i] = Pass(cache, g[i - 1])
<1> DEFINE n == NumHashes
           F == [x \in T \X (1 .. n) |-> Pass(cache, x[1])]
           Eqn(g) == g = [s \in SUBSET (1 .. n) |->
                            IF s = {} THEN Unresolved ELSE Pass(cache, g[s \ {Max(s)}])]
           it == CHOOSE g : Eqn(g)
<1>1. n \in Nat /\ DOMAIN HashOrder = 1 .. n /\ \A i \in 1 .. n : HashOrder[i] \in Schemas
  BY HashesAre
<1>2. ResolvedSchemas(cache) = it[1 .. n].layout
  BY <1>1 DEF ResolvedSchemas, FoldLeft, MapThenFoldSet
<1>3. \A s : Max(s) = Top(s)
  BY DEF Max, Top
<1>4. F \in [T \X (1 .. n) -> T] /\ \A s \in T, i \in 1 .. n : F[<<s, i>>] = Pass(cache, s)
  <2>1. \A s \in T, i \in 1 .. n : Pass(cache, s) \in T
    BY PassType
  <2> HIDE DEF n
  <2>2. \A x \in T \X (1 .. n) : x[1] \in T /\ x[2] \in 1 .. n
    OBVIOUS
  <2>3. F \in [T \X (1 .. n) -> T]
    BY <2>1, <2>2
  <2>4. ASSUME NEW s \in T, NEW i \in 1 .. n PROVE F[<<s, i>>] = Pass(cache, s)
    <3>1. <<s, i>> \in T \X (1 .. n) /\ <<s, i>>[1] = s /\ <<s, i>>[2] = i
      OBVIOUS
    <3>. QED  BY <3>1
  <2>. QED  BY <2>3, <2>4
<1>5. \A s \in SUBSET (1 .. n) : s # {} => Top(s) \in 1 .. n
  <2> HIDE DEF n
  <2>. QED  BY <1>1, TopInterval
<1>6. Eqn(it)
  <2>1. PICK g : Iterates(g, T, F, Unresolved, n)
    <3> HIDE DEF F, n
    <3>. QED  BY <1>1, <1>4, IterationExists
  <2>2. /\ g \in [SUBSET (1 .. n) -> T]
        /\ \A s \in SUBSET (1 .. n) : g[s] = IF s = {} THEN Unresolved ELSE F[<<g[s \ {Top(s)}], Top(s)>>]
    BY <2>1 DEF Iterates
  <2>3. ASSUME NEW s \in SUBSET (1 .. n)
        PROVE  g[s] = IF s = {} THEN Unresolved ELSE Pass(cache, g[s \ {Max(s)}])
    <3>1. CASE s = {}
      BY <2>2, <3>1
    <3>2. CASE s # {}
      <4>1. Top(s) \in 1 .. n /\ s \ {Top(s)} \in SUBSET (1 .. n) /\ Max(s) = Top(s)
        BY <1>3, <1>5, <3>2
      <4>2. g[s \ {Top(s)}] \in T
        BY <2>2, <4>1
      <4>3. F[<<g[s \ {Top(s)}], Top(s)>>] = Pass(cache, g[s \ {Top(s)}])
        <5> HIDE DEF F
        <5>. QED  BY <1>4, <4>1, <4>2
      <4> HIDE DEF F
      <4>. QED  BY <2>2, <3>2, <4>1, <4>3
    <3>. QED  BY <3>1, <3>2
  <2>4. g = [s \in SUBSET (1 .. n) |-> g[s]]
    BY <2>2
  <2>5. Eqn(g)
    BY <2>3, <2>4
  <2>. QED  BY <2>5
<1>7. it[{}] = Unresolved
  <2>1. {} \in SUBSET (1 .. n)
    OBVIOUS
  <2> HIDE DEF it, n
  <2>. QED  BY <1>6, <2>1
<1>8. ASSUME NEW s \in SUBSET (1 .. n), s # {}, it[s \ {Top(s)}] \in T
      PROVE  it[s] = F[<<it[s \ {Top(s)}], Top(s)>>]
  <2>1. Top(s) \in 1 .. n /\ Max(s) = Top(s)
    BY <1>3, <1>5, <1>8
  <2>2. it[s] = Pass(cache, it[s \ {Max(s)}])
    <3> HIDE DEF it, n
    <3>. QED  BY <1>6, <1>8
  <2> HIDE DEF it, F, n
  <2>. QED  BY <1>4, <1>8, <2>1, <2>2
<1>9. PICK g \in [0 .. n -> T] : g[0] = Unresolved /\ g[n] = it[1 .. n] /\ \A i \in 1 .. n : g[i] = F[<<g[i - 1], i>>]
  <2>1. n \in Nat /\ F \in [T \X (1 .. n) -> T]
    BY <1>1, <1>4
  <2> HIDE DEF it, F, n
  <2>2. Iterating(it, T, F, Unresolved, n)
    BY <1>7, <1>8 DEF Iterating
  <2>3. History(it, T, F, Unresolved, n)
    BY <2>1, <2>2, IterationHistory, Zenon
  <2>. QED  BY <2>3 DEF History
<1>10. ASSUME NEW i \in 1 .. n PROVE g[i] = Pass(cache, g[i - 1])
  <2>1. g[i - 1] \in T
    <3> HIDE DEF it, F, n
    <3>1. i - 1 \in 0 .. n
      BY <1>1
    <3>. QED  BY <3>1
  <2> HIDE DEF it, F, n
  <2>. QED  BY <1>4, <1>9, <2>1
<1> HIDE DEF it, F
<1>. QED  BY <1>2, <1>9, <1>10

States == [layout : [Schemas -> SUBSET Schemas], known : [TypeNames -> SUBSET Schemas]]

Resolves(st, h) == st.layout[h] = {} /\ \A n \in Embeds[h] : st.known[n] # {}
Flat(st, h) == {h} \cup UNION {st.known[n] : n \in Embeds[h]}

LEMMA StateFields ==
  ASSUME NEW st \in States
  PROVE  st.layout \in [Schemas -> SUBSET Schemas] /\ st.known \in [TypeNames -> SUBSET Schemas]
  BY DEF States

LEMMA Tried ==
  ASSUME NEW st \in States, NEW h \in FeedSchemas
  PROVE  /\ TryResolve(st, h) \in States
         /\ \A x \in Schemas : TryResolve(st, h).layout[x] =
              IF Resolves(st, h) /\ x = h THEN Flat(st, h) ELSE st.layout[x]
         /\ \A n \in TypeNames : TryResolve(st, h).known[n] =
              IF Resolves(st, h) /\ n = TypeName[h] THEN Flat(st, h) ELSE st.known[n]
<1>0. h \in Schemas /\ TypeName[h] \in TypeNames /\ Embeds[h] \subseteq TypeNames
  BY EmbedsKnown
<1>1. CASE ~Resolves(st, h)
  <2>1. TryResolve(st, h) = st
    BY <1>1 DEF TryResolve, Resolves
  <2>. QED  BY <1>1, <2>1
<1>2. CASE Resolves(st, h)
  <2> DEFINE flat == Flat(st, h)
             l == [st.layout EXCEPT ![h] = flat]
             k == [st.known EXCEPT ![TypeName[h]] = flat]
  <2>1. TryResolve(st, h) = [layout |-> l, known |-> k]
    BY <1>2, Zenon DEF TryResolve, Resolves, Flat
  <2>2. flat \in SUBSET Schemas
    <3>1. \A n \in Embeds[h] : st.known[n] \in SUBSET Schemas
      BY <1>0, StateFields
    <3>. QED  BY <1>0, <3>1 DEF Flat
  <2> HIDE DEF flat
  <2>3. /\ l \in [Schemas -> SUBSET Schemas] /\ k \in [TypeNames -> SUBSET Schemas]
        /\ \A x \in Schemas : l[x] = IF x = h THEN flat ELSE st.layout[x]
        /\ \A n \in TypeNames : k[n] = IF n = TypeName[h] THEN flat ELSE st.known[n]
    BY <1>0, <2>2, StateFields
  <2> HIDE DEF l, k
  <2>4. TryResolve(st, h).layout = l /\ TryResolve(st, h).known = k /\ TryResolve(st, h) \in States
    BY <2>1, <2>3 DEF States
  <2>. QED  BY <1>2, <2>3, <2>4 DEF flat
<1>. QED  BY <1>1, <1>2

LEMMA UnresolvedIs ==
  /\ Unresolved \in States
  /\ \A x \in Schemas : Unresolved.layout[x] = {}
  /\ \A n \in TypeNames : Unresolved.known[n] = {}
<1> DEFINE l == [h \in Schemas |-> {}]
           k == [n \in TypeNames |-> {}]
<1>1. /\ l \in [Schemas -> SUBSET Schemas] /\ k \in [TypeNames -> SUBSET Schemas]
      /\ \A x \in Schemas : l[x] = {}
      /\ \A n \in TypeNames : k[n] = {}
  OBVIOUS
<1>2. Unresolved = [layout |-> l, known |-> k]
  BY DEF Unresolved
<1> HIDE DEF l, k
<1>. QED  BY <1>1, <1>2 DEF States

\* Every type of a feed that is resolved has the layout of the session, as long
\* as no other version of one of them was read.
AsWritten(s) ==
  {st \in States : \A x \in Own(s) :
     st.layout[x] \in {{}, MadeOf(s, x)} /\ st.known[TypeName[x]] \in {{}, MadeOf(s, x)}}

LEMMA AsWrittenKept ==
  ASSUME NEW s \in Sessions, NEW cache \in SUBSET FeedSchemas,
         \A h \in cache : \A x \in Own(s) : TypeName[h] = TypeName[x] => h = x
  PROVE  Preserves(cache, AsWritten(s))
<1> SUFFICES ASSUME NEW st \in AsWritten(s), NEW h \in Schemas PROVE Attempt(cache, st, h) \in AsWritten(s)
  BY DEF Preserves
<1>1. CASE h \notin cache
  BY <1>1 DEF Attempt
<1>2. CASE h \in cache
  <2> DEFINE new == TryResolve(st, h)
  <2>1. Attempt(cache, st, h) = new /\ h \in FeedSchemas /\ st \in States
    BY <1>2 DEF Attempt, AsWritten
  <2>2. /\ new \in States
        /\ \A x \in Schemas : new.layout[x] = IF Resolves(st, h) /\ x = h THEN Flat(st, h) ELSE st.layout[x]
        /\ \A n \in TypeNames : new.known[n] = IF Resolves(st, h) /\ n = TypeName[h] THEN Flat(st, h) ELSE st.known[n]
    BY <2>1, Tried
  <2> HIDE DEF new
  <2>3. Own(s) \subseteq Schemas /\ \A x \in Own(s) : TypeName[x] \in TypeNames
    BY OwnIs DEF TypeNames
  <2>4. ASSUME h \in Own(s), Resolves(st, h) PROVE Flat(st, h) = MadeOf(s, h)
    <3>2. \A n \in Embeds[h] : \E y \in Own(s) : TypeName[y] = n
      BY <2>4, OwnIs
    <3>3. \A y \in Own(s) : TypeName[y] \in Embeds[h] => st.known[TypeName[y]] = MadeOf(s, y)
      BY <2>4 DEF Resolves, AsWritten
    <3>4. UNION {st.known[n] : n \in Embeds[h]} = UNION {MadeOf(s, y) : y \in EmbeddedIn(s, h)}
      <4>1. ASSUME NEW n \in Embeds[h], NEW z \in st.known[n]
            PROVE  \E y \in EmbeddedIn(s, h) : z \in MadeOf(s, y)
        <5>1. PICK y \in Own(s) : TypeName[y] = n
          BY <3>2
        <5>2. z \in MadeOf(s, y) /\ y \in EmbeddedIn(s, h)
          BY <3>3, <4>1, <5>1 DEF EmbeddedIn
        <5>. QED  BY <5>2
      <4>2. ASSUME NEW y \in EmbeddedIn(s, h), NEW z \in MadeOf(s, y)
            PROVE  \E n \in Embeds[h] : z \in st.known[n]
        BY <3>3, <4>2 DEF EmbeddedIn
      <4>. QED  BY <4>1, <4>2
    <3>. QED  BY <2>4, <3>4, MadeOfIs DEF Flat
  <2>5. ASSUME NEW x \in Own(s)
        PROVE  new.layout[x] \in {{}, MadeOf(s, x)} /\ new.known[TypeName[x]] \in {{}, MadeOf(s, x)}
    <3>1. st.layout[x] \in {{}, MadeOf(s, x)} /\ st.known[TypeName[x]] \in {{}, MadeOf(s, x)}
      BY DEF AsWritten
    <3>2. TypeName[h] = TypeName[x] => h = x
      BY <1>2
    <3>. QED  BY <2>2, <2>3, <2>4, <3>1, <3>2
  <2>. QED  BY <2>1, <2>2, <2>5 DEF AsWritten
<1>. QED  BY <1>1, <1>2

LEMMA ResolvedAsWritten ==
  ASSUME NEW s \in Sessions, NEW cache \in SUBSET FeedSchemas,
         \A h \in cache : \A x \in Own(s) : TypeName[h] = TypeName[x] => h = x
  PROVE  ResolvedSchemas(cache)[Last(Feed[s])] \in {{}, WriterLayout(s)}
<1>1. Unresolved \in AsWritten(s)
  <2>1. \A x \in Own(s) : x \in Schemas /\ TypeName[x] \in TypeNames
    BY OwnIs DEF TypeNames
  <2>. QED  BY <2>1, UnresolvedIs DEF AsWritten
<1>2. Preserves(cache, AsWritten(s))
  BY AsWrittenKept
<1>3. PICK g \in [0 .. NumHashes -> AsWritten(s)] :
        /\ g[0] = Unresolved /\ ResolvedSchemas(cache) = g[NumHashes].layout
        /\ \A i \in 1 .. NumHashes : g[i] = Pass(cache, g[i - 1])
  BY <1>1, <1>2, PassesHistory
<1>4. g[NumHashes] \in AsWritten(s)
  BY HashesAre
<1>. QED  BY <1>3, <1>4, OwnIs DEF AsWritten, WriterLayout

\* A schema that is resolved has made its name known.
Named == {st \in States : \A x \in FeedSchemas : st.layout[x] # {} => st.known[TypeName[x]] # {}}

More(old, new) ==
  /\ \A x \in Schemas : old.layout[x] # {} => new.layout[x] # {}
  /\ \A n \in TypeNames : old.known[n] # {} => new.known[n] # {}

LEMMA AttemptMore ==
  ASSUME NEW cache \in SUBSET FeedSchemas, NEW st \in Named, NEW h \in Schemas
  PROVE  /\ Attempt(cache, st, h) \in Named /\ More(st, Attempt(cache, st, h))
         /\ h \in cache /\ (\A n \in Embeds[h] : st.known[n] # {}) => Attempt(cache, st, h).layout[h] # {}
<1>1. CASE h \notin cache
  BY <1>1 DEF Attempt, More
<1>2. CASE h \in cache
  <2> DEFINE new == TryResolve(st, h)
  <2>1. Attempt(cache, st, h) = new /\ h \in FeedSchemas /\ st \in States
    BY <1>2 DEF Attempt, Named
  <2>2. /\ new \in States
        /\ \A x \in Schemas : new.layout[x] = IF Resolves(st, h) /\ x = h THEN Flat(st, h) ELSE st.layout[x]
        /\ \A n \in TypeNames : new.known[n] = IF Resolves(st, h) /\ n = TypeName[h] THEN Flat(st, h) ELSE st.known[n]
    BY <2>1, Tried
  <2> HIDE DEF new
  <2>3. Flat(st, h) # {}
    BY DEF Flat
  <2>4. More(st, new)
    BY <2>2, <2>3 DEF More
  <2>5. ASSUME NEW x \in FeedSchemas, new.layout[x] # {} PROVE new.known[TypeName[x]] # {}
    <3>1. x \in Schemas /\ TypeName[x] \in TypeNames
      BY EmbedsKnown
    <3>2. CASE Resolves(st, h) /\ x = h
      BY <2>2, <2>3, <3>1, <3>2
    <3>3. CASE ~(Resolves(st, h) /\ x = h)
      <4>1. st.known[TypeName[x]] # {}
        BY <2>2, <2>5, <3>1, <3>3 DEF Named
      <4>. QED  BY <2>4, <3>1, <4>1 DEF More
    <3>. QED  BY <3>2, <3>3
  <2>6. (\A n \in Embeds[h] : st.known[n] # {}) => new.layout[h] # {}
    BY <2>2, <2>3 DEF Resolves
  <2>. QED  BY <2>1, <2>2, <2>4, <2>5, <2>6 DEF Named
<1>. QED  BY <1>1, <1>2

LEMMA NamedKept == ASSUME NEW cache \in SUBSET FeedSchemas PROVE Preserves(cache, Named)
  BY AttemptMore DEF Preserves

LEMMA MoreTransitive ==
  ASSUME NEW a, NEW b, NEW c, More(a, b), More(b, c) PROVE More(a, c)
  BY DEF More

\* A pass undoes nothing, and resolves a schema whose embedded types are known.
LEMMA PassMore ==
  ASSUME NEW cache \in SUBSET FeedSchemas, NEW st \in Named
  PROVE  /\ Pass(cache, st) \in Named /\ More(st, Pass(cache, st))
         /\ \A h \in cache : (\A n \in Embeds[h] : st.known[n] # {}) => Pass(cache, st).layout[h] # {}
<1>1. PICK g \in [0 .. NumHashes -> Named] :
        /\ g[0] = st /\ g[NumHashes] = Pass(cache, st)
        /\ \A i \in 1 .. NumHashes : g[i] = Attempt(cache, g[i - 1], HashOrder[i])
  <2>1. Preserves(cache, Named)
    BY NamedKept
  <2>. QED  BY <2>1, PassHistory
<1>2. NumHashes \in Nat /\ \A i \in 1 .. NumHashes : HashOrder[i] \in Schemas
  BY HashesAre
<1>3. ASSUME NEW i \in 1 .. NumHashes
      PROVE  /\ g[i - 1] \in Named /\ g[i] \in Named /\ More(g[i - 1], g[i])
             /\ HashOrder[i] \in cache /\ (\A n \in Embeds[HashOrder[i]] : g[i - 1].known[n] # {})
                  => g[i].layout[HashOrder[i]] # {}
  <2>1. i - 1 \in 0 .. NumHashes /\ i \in 0 .. NumHashes
    BY <1>2
  <2>2. g[i - 1] \in Named /\ g[i] \in Named /\ g[i] = Attempt(cache, g[i - 1], HashOrder[i])
    BY <1>1, <2>1
  <2>. QED  BY <1>2, <2>2, AttemptMore
<1>4. ASSUME NEW i \in 0 .. NumHashes PROVE \A j \in Nat : i <= j /\ j <= NumHashes => More(g[i], g[j])
  <2> DEFINE N == {j \in Nat : i <= j /\ j <= NumHashes => More(g[i], g[j])}
  <2>0. \A a : More(a, a)
    BY DEF More
  <2>1. 0 \in N
    BY <2>0
  <2>2. ASSUME NEW j \in N PROVE j + 1 \in N
    <3> SUFFICES ASSUME i <= j + 1, j + 1 <= NumHashes PROVE More(g[i], g[j + 1])
      OBVIOUS
    <3>1. CASE i = j + 1
      BY <2>0, <3>1
    <3>2. CASE i # j + 1
      <4>1. i <= j /\ j <= NumHashes /\ j + 1 \in 1 .. NumHashes /\ (j + 1) - 1 = j
        BY <1>2, <3>2
      <4>2. More(g[i], g[j]) /\ More(g[j], g[j + 1])
        BY <1>3, <4>1
      <4>. QED  BY <4>2, MoreTransitive
    <3>. QED  BY <3>1, <3>2
  <2>3. N = Nat
    <3> HIDE DEF N
    <3>1. N \subseteq Nat
      BY DEF N
    <3>. QED  BY <2>1, <2>2, <3>1, NatSetInduction
  <2>. QED  BY <2>3
<1>5. ASSUME NEW i \in 0 .. NumHashes PROVE More(st, g[i]) /\ More(g[i], Pass(cache, st))
  <2>1. More(g[0], g[i]) /\ More(g[i], g[NumHashes])
    BY <1>2, <1>4
  <2>. QED  BY <1>1, <2>1
<1>6. ASSUME NEW h \in cache, \A n \in Embeds[h] : st.known[n] # {} PROVE Pass(cache, st).layout[h] # {}
  <2>0. h \in Schemas /\ Embeds[h] \subseteq TypeNames
    BY EmbedsKnown
  <2>1. PICK i \in 1 .. NumHashes : HashOrder[i] = h
    BY <2>0, HashesAre, RegistryAssumption, Zenon DEF ToSet
  <2>2. i - 1 \in 0 .. NumHashes /\ i \in 0 .. NumHashes
    BY <1>2
  <2>3. \A n \in Embeds[h] : g[i - 1].known[n] # {}
    BY <1>5, <1>6, <2>0, <2>2 DEF More
  <2>4. g[i].layout[h] # {}
    BY <1>3, <2>1, <2>3
  <2>. QED  BY <1>5, <2>0, <2>2, <2>4 DEF More
<1>7. More(st, Pass(cache, st)) /\ Pass(cache, st) \in Named
  <2>1. NumHashes \in 0 .. NumHashes
    BY <1>2
  <2>. QED  BY <1>1, <1>5, <2>1
<1>. QED  BY <1>6, <1>7

\* The schemas are in the order; there are no more of them than passes.
LEMMA SchemasFinite == IsFiniteSet(Schemas) /\ Cardinality(Schemas) \in Nat /\ Cardinality(Schemas) <= NumHashes
<1>1. NumHashes \in Nat /\ DOMAIN HashOrder = 1 .. NumHashes /\ HashOrder \in Seq(Schemas)
  BY HashesAre, RegistryAssumption
<1>2. \A h \in Schemas : \E i \in 1 .. NumHashes : HashOrder[i] = h
  BY <1>1, RegistryAssumption, Zenon DEF ToSet
<1>3. HashOrder \in [1 .. NumHashes -> Schemas]
  <2>1. HashOrder = [i \in 1 .. NumHashes |-> HashOrder[i]]
    BY <1>1
  <2>. QED  BY <2>1, HashesAre
<1>4. HashOrder \in Surjection(1 .. NumHashes, Schemas)
  BY <1>2, <1>3, Zenon DEF Surjection
<1>5. IsFiniteSet(1 .. NumHashes) /\ Cardinality(1 .. NumHashes) = NumHashes
  BY <1>1, FS_Interval
<1>6. IsFiniteSet(Schemas) /\ Cardinality(Schemas) <= NumHashes
  BY <1>4, <1>5, FS_Surjection
<1>. QED  BY <1>6, FS_CardinalityType

\* With all schemas of a feed read, in whatever order their hashes are, its own
\* is resolved.
LEMMA FeedResolved ==
  ASSUME NEW s \in Sessions, NEW cache \in SUBSET FeedSchemas, Own(s) \subseteq cache
  PROVE  ResolvedSchemas(cache)[Last(Feed[s])] # {}
<1>1. Unresolved \in Named
  <2>1. \A x \in FeedSchemas : x \in Schemas
    BY EmbedsKnown
  <2>. QED  BY <2>1, UnresolvedIs DEF Named
<1>2. PICK g \in [0 .. NumHashes -> Named] :
        /\ g[0] = Unresolved /\ ResolvedSchemas(cache) = g[NumHashes].layout
        /\ \A i \in 1 .. NumHashes : g[i] = Pass(cache, g[i - 1])
  <2>1. Preserves(cache, Named)
    BY NamedKept
  <2>. QED  BY <1>1, <2>1, PassesHistory
<1> DEFINE R(i) == {h \in Schemas : g[i].layout[h] # {}}
           last == Last(Feed[s])
<1>3. NumHashes \in Nat /\ IsFiniteSet(Schemas) /\ Cardinality(Schemas) \in Nat /\ Cardinality(Schemas) <= NumHashes
  BY HashesAre, SchemasFinite
<1>4. \A i : IsFiniteSet(R(i)) /\ Cardinality(R(i)) \in Nat /\ Cardinality(R(i)) <= Cardinality(Schemas)
             /\ (Cardinality(R(i)) = Cardinality(Schemas) => R(i) = Schemas)
  <2>1. \A i : R(i) \in SUBSET Schemas
    OBVIOUS
  <2> HIDE DEF R
  <2>. QED  BY <1>3, <2>1, FS_Subset, FS_CardinalityType
<1>5. ASSUME NEW i \in Nat, i + 1 <= NumHashes
      PROVE  /\ g[i] \in Named /\ g[i + 1] = Pass(cache, g[i]) /\ More(g[i], g[i + 1])
             /\ \A h \in cache : (\A n \in Embeds[h] : g[i].known[n] # {}) => g[i + 1].layout[h] # {}
  <2>1. i \in 0 .. NumHashes /\ i + 1 \in 1 .. NumHashes /\ (i + 1) - 1 = i
    BY <1>3, <1>5
  <2>2. g[i] \in Named /\ g[i + 1] = Pass(cache, g[i])
    BY <1>2, <2>1
  <2>. QED  BY <2>2, PassMore
<1>6. ASSUME NEW i \in Nat, i + 1 <= NumHashes, g[i].layout[last] = {}
      PROVE  Cardinality(R(i + 1)) >= Cardinality(R(i)) + 1
  <2>1. PICK k \in 1 .. Len(Feed[s]) :
          g[i].layout[Feed[s][k]] = {} /\ \A j \in 1 .. Len(Feed[s]) : j < k => g[i].layout[Feed[s][j]] # {}
    <3> DEFINE L == Len(Feed[s])
               N == {m \in Nat : \A j \in 1 .. L : j <= m => g[i].layout[Feed[s][j]] # {}}
    <3>0. L \in Nat /\ L >= 1 /\ last = Feed[s][L]
      BY OwnIs
    <3> SUFFICES ASSUME \A k \in 1 .. L : g[i].layout[Feed[s][k]] # {} \/ \E j \in 1 .. L : j < k /\ g[i].layout[Feed[s][j]] = {}
                 PROVE  FALSE
      OBVIOUS
    <3> HIDE DEF L
    <3>1. 0 \in N
      OBVIOUS
    <3>2. ASSUME NEW m \in N PROVE m + 1 \in N
      <4> SUFFICES ASSUME NEW j \in 1 .. L, j <= m + 1 PROVE g[i].layout[Feed[s][j]] # {}
        OBVIOUS
      <4>1. CASE j <= m
        BY <4>1
      <4>2. CASE j = m + 1
        BY <4>2
      <4>. QED  BY <3>0, <4>1, <4>2
    <3>3. N = Nat
      <4> HIDE DEF N
      <4>1. N \subseteq Nat
        BY DEF N
      <4>. QED  BY <3>1, <3>2, <4>1, NatSetInduction
    <3>4. \A m \in Nat : \A j \in 1 .. L : j <= m => g[i].layout[Feed[s][j]] # {}
      BY <3>3
    <3>5. L \in Nat /\ L \in 1 .. L /\ L <= L
      BY <3>0
    <3>6. g[i].layout[Feed[s][L]] # {}
      BY <3>4, <3>5
    <3>. QED  BY <1>6, <3>0, <3>6
  <2> DEFINE h == Feed[s][k]
  <2>2. h \in Own(s) /\ h \in cache /\ h \in Schemas
    BY OwnIs
  <2>3. \A n \in Embeds[h] : g[i].known[n] # {}
    <3> SUFFICES ASSUME NEW n \in Embeds[h] PROVE g[i].known[n] # {}
      OBVIOUS
    <3>0. \A i2 \in 1 .. Len(Feed[s]) : \A n2 \in Embeds[Feed[s][i2]] :
            \E j \in 1 .. Len(Feed[s]) : j < i2 /\ TypeName[Feed[s][j]] = n2
      BY OwnIs
    <3>1. PICK j \in 1 .. Len(Feed[s]) : j < k /\ TypeName[Feed[s][j]] = n
      BY <3>0
    <3>2. g[i].layout[Feed[s][j]] # {} /\ Feed[s][j] \in FeedSchemas /\ g[i] \in Named
      BY <1>5, <1>6, <2>1, <3>1, OwnIs DEF FeedSchemas
    <3>. QED  BY <3>1, <3>2 DEF Named
  <2>4. g[i + 1].layout[h] # {} /\ g[i].layout[h] = {} /\ More(g[i], g[i + 1])
    BY <1>5, <1>6, <2>1, <2>2, <2>3
  <2>5. R(i) \in SUBSET R(i + 1) /\ R(i) # R(i + 1)
    BY <2>2, <2>4 DEF More
  <2> HIDE DEF R
  <2>6. Cardinality(R(i)) <= Cardinality(R(i + 1)) /\ Cardinality(R(i)) # Cardinality(R(i + 1))
    BY <1>4, <2>5, FS_Subset
  <2>7. Cardinality(R(i)) \in Nat /\ Cardinality(R(i + 1)) \in Nat
    BY <1>4
  <2>. QED  BY <2>6, <2>7
<1>7. \A i \in Nat : i <= NumHashes => g[i].layout[last] # {} \/ Cardinality(R(i)) >= i
  <2> DEFINE N == {i \in Nat : i <= NumHashes => g[i].layout[last] # {} \/ Cardinality(R(i)) >= i}
  <2>1. 0 \in N
    <3>1. Cardinality(R(0)) \in Nat
      BY <1>4
    <3>. QED  BY <3>1
  <2>2. ASSUME NEW i \in N PROVE i + 1 \in N
    <3> SUFFICES ASSUME i + 1 <= NumHashes PROVE g[i + 1].layout[last] # {} \/ Cardinality(R(i + 1)) >= i + 1
      OBVIOUS
    <3>1. CASE g[i].layout[last] # {}
      <4>1. last \in Schemas
        BY OwnIs
      <4>. QED  BY <1>5, <3>1, <4>1 DEF More
    <3>2. CASE g[i].layout[last] = {}
      <4>0. i \in Nat /\ i <= NumHashes /\ (i <= NumHashes => g[i].layout[last] # {} \/ Cardinality(R(i)) >= i)
        BY <1>3
      <4>1. Cardinality(R(i + 1)) >= Cardinality(R(i)) + 1 /\ Cardinality(R(i)) >= i
        <5> HIDE DEF R, last
        <5>. QED  BY <1>6, <3>2, <4>0
      <4>2. Cardinality(R(i)) \in Nat /\ Cardinality(R(i + 1)) \in Nat
        BY <1>4
      <4> HIDE DEF R
      <4>. QED  BY <4>1, <4>2
    <3>. QED  BY <3>1, <3>2
  <2>3. N = Nat
    <3> HIDE DEF N
    <3>1. N \subseteq Nat
      BY DEF N
    <3>. QED  BY <2>1, <2>2, <3>1, NatSetInduction
  <2>. QED  BY <2>3
<1>8. g[NumHashes].layout[last] # {}
  <2> SUFFICES ASSUME g[NumHashes].layout[last] = {} PROVE FALSE
    OBVIOUS
  <2>1. Cardinality(R(NumHashes)) >= NumHashes
    <3> HIDE DEF R, last
    <3>. QED  BY <1>3, <1>7
  <2>2. R(NumHashes) = Schemas
    <3>1. Cardinality(R(NumHashes)) \in Nat /\ Cardinality(R(NumHashes)) <= Cardinality(Schemas)
          /\ (Cardinality(R(NumHashes)) = Cardinality(Schemas) => R(NumHashes) = Schemas)
      BY <1>4
    <3> HIDE DEF R
    <3>. QED  BY <1>3, <2>1, <3>1
  <2>3. last \in Schemas
    BY OwnIs
  <2>. QED  BY <2>2, <2>3
<1>. QED  BY <1>2, <1>8

-----------------------------------------------------------------------------
(* What the registry and the scan hold of a feed.                          *)

\* What a session registers is in the registry, with its own schemas; in a
\* topic of one partition they come before the feed.
FeedRecords ==
  /\ \A p \in Partitions, i \in Nat : i \in 1 .. Len(registry[p]) =>
       /\ registry[p][i].kind = "SCHEMA" => registry[p][i].schema \in Own(registry[p][i].session)
       /\ registry[p][i].kind = "FEED" =>
            /\ registry[p][i].schema = Last(Feed[registry[p][i].session])
            /\ parts = 1 => (\A h \in Own(registry[p][i].session) :
                 \E j \in Nat : j \in 1 .. i - 1 /\ registry[p][j] = Rec("SCHEMA", registry[p][i].session, h))
  /\ parts = 1 => \A s \in Sessions, k \in Nat : (k \in 1 .. Len(Feed[s]) /\ step[s] >= k + 1) =>
       \E j \in Nat : j \in 1 .. Len(registry[1]) /\ registry[1][j] = Rec("SCHEMA", s, Feed[s][k])

\* What the scan has made of them.
FeedsRead ==
  /\ acc.cache \in SUBSET FeedSchemas
  /\ \A p \in Partitions, i \in Nat : i \in 1 .. pos[p] /\ registry[p][i].kind = "SCHEMA" =>
       registry[p][i].schema \in acc.cache
  /\ \A f \in acc.feeds :
       /\ f.session \in Sessions /\ f.schema = Last(Feed[f.session])
       /\ parts = 1 => f.json /\ Own(f.session) \subseteq acc.cache
  /\ phase = "after" => result = SessionsOf(acc)

FeedInv == FeedRecords /\ FeedsRead

LEMMA FeedInvInit == Init => FeedInv
<1> SUFFICES ASSUME Init PROVE FeedInv
  OBVIOUS
<1>1. \A q \in Partitions : Len(registry[q]) = 0 /\ pos[q] = 0
  BY DEF Init
<1>2. 1 .. 0 = {} /\ phase = "before" /\ acc.cache = {} /\ acc.feeds = {}
  BY DEF Init, Nothing
<1>3. \A s \in Sessions, k \in Nat : k \in 1 .. Len(Feed[s]) => ~(step[s] >= k + 1)
  BY DEF Init
<1>4. \A q \in Partitions : 1 .. Len(registry[q]) = {} /\ 1 .. pos[q] = {}
  BY <1>1, <1>2
<1>. QED  BY <1>2, <1>3, <1>4 DEF FeedInv, FeedRecords, FeedsRead

\* the record a session writes next
LEMMA NextRecord ==
  ASSUME ScanTypes, NEW s \in Sessions, Register(s) \/ MarkSessionDeleted(s)
  PROVE  \E p \in 1 .. parts, r \in Record :
           /\ Wrote(p, r) /\ r.session = s /\ p \in Partitions
           /\ r.kind \notin {"SCHEMA", "FEED"} => step'[s] = step[s] \/ (step[s] = 0 /\ step'[s] = 1)
           /\ r.kind = "SCHEMA" => \E k \in 1 .. Len(Feed[s]) :
                step[s] = k /\ step'[s] = k + 1 /\ r = Rec("SCHEMA", s, Feed[s][k])
           /\ r.kind = "FEED" => step[s] = Len(Feed[s]) + 1 /\ r.schema = Last(Feed[s]) /\ step'[s] = step[s] + 1
<1>1. PICK p \in 1 .. parts, r \in Record :
        /\ Wrote(p, r) /\ r.session = s
        /\ r.kind = "DELETED" => step'[s] = step[s]
        /\ r.kind # "DELETED" => step'[s] = step[s] + 1 /\ step[s] + 1 \in 1 .. Len(Program(s))
                                 /\ r = Program(s)[step[s] + 1]
  <2>1. \E p \in 1 .. parts, r \in Record :
              /\ Wrote(p, r) /\ r.session = s
              /\ r.kind = "DELETED" => p = 1 /\ r = Tombstone(s)
              /\ r.kind = "DELETED" => step[s] >= 1 /\ step'[s] = step[s]
              /\ r.kind # "DELETED" => step'[s] = step[s] + 1 /\ step[s] + 1 \in 1 .. Len(Program(s))
                                       /\ r = Program(s)[step[s] + 1]
              /\ step[s] = 0 => r = Rec("SESSION", s, NoSchema)
    BY WriterSteps, Zenon
  <2>. QED  BY <2>1, Zenon
<1>2. p \in Partitions /\ step[s] \in Nat
  BY RegistryAssumption DEF ScanTypes, Partitions
<1>3. CASE r.kind = "DELETED"
  BY <1>1, <1>2, <1>3
<1>4. CASE r.kind # "DELETED"
  <2> DEFINE n == step[s] + 1
             L == Len(Feed[s])
  <2>1. n \in 1 .. L + 2 /\ r = Program(s)[n] /\ step'[s] = n /\ L \in Nat
    BY <1>1, <1>4, ProgramRecords
  <2>2. /\ n = 1 => Program(s)[n] = Rec("SESSION", s, NoSchema)
        /\ n # 1 /\ n <= L + 1 => Program(s)[n] = Rec("SCHEMA", s, Feed[s][n - 1])
        /\ n = L + 2 => Program(s)[n] = Rec("FEED", s, Last(Feed[s]))
    BY <2>1, ProgramRecords
  <2>3. CASE n = 1
    <3>1. r.kind = "SESSION"
      BY <2>1, <2>2, <2>3 DEF Rec
    <3>2. step[s] = 0 /\ step'[s] = 1
      BY <1>2, <2>1, <2>3
    <3>. QED  BY <1>1, <1>2, <3>1, <3>2
  <2>4. CASE n # 1 /\ n <= L + 1
    <3>1. r.kind = "SCHEMA" /\ r = Rec("SCHEMA", s, Feed[s][n - 1])
      BY <2>1, <2>2, <2>4 DEF Rec
    <3>2. n - 1 \in 1 .. L /\ step[s] = n - 1 /\ step'[s] = (n - 1) + 1
      BY <1>2, <2>1, <2>4
    <3> HIDE DEF n, L
    <3>3. \E k \in 1 .. L : step[s] = k /\ step'[s] = k + 1 /\ r = Rec("SCHEMA", s, Feed[s][k])
      BY <3>1, <3>2
    <3>. QED  BY <1>1, <1>2, <3>1, <3>3 DEF L
  <2>5. CASE n = L + 2
    <3>1. r.kind = "FEED" /\ r.schema = Last(Feed[s])
      BY <2>1, <2>2, <2>5 DEF Rec
    <3>2. step[s] = L + 1 /\ step'[s] = step[s] + 1
      BY <1>2, <2>1, <2>5
    <3>. QED  BY <1>1, <1>2, <3>1, <3>2
  <2>. QED  BY <2>1, <2>3, <2>4, <2>5
<1>. QED  BY <1>3, <1>4

LEMMA RecordIs ==
  ASSUME ScanTypes, NEW p \in Partitions, NEW i \in 1 .. Len(registry[p])
  PROVE  registry[p][i] \in Record /\ registry[p][i].session \in Sessions
<1>1. registry[p] \in Seq(Record)
  BY DEF ScanTypes
<1>2. registry[p][i] \in Record
  BY <1>1
<1>. QED  BY <1>2 DEF Record

LEMMA FeedRecordsStep == ScanTypes /\ FeedRecords /\ [Next]_vars => FeedRecords'
<1> SUFFICES ASSUME ScanTypes, FeedRecords, [Next]_vars PROVE FeedRecords'
  OBVIOUS
<1>1. ASSUME NEW s \in Sessions, Register(s) \/ MarkSessionDeleted(s) PROVE FeedRecords'
  <2>1. PICK p \in 1 .. parts, r \in Record :
           /\ Wrote(p, r) /\ r.session = s /\ p \in Partitions
           /\ r.kind \notin {"SCHEMA", "FEED"} => step'[s] = step[s] \/ (step[s] = 0 /\ step'[s] = 1)
           /\ r.kind = "SCHEMA" => \E k \in 1 .. Len(Feed[s]) :
                step[s] = k /\ step'[s] = k + 1 /\ r = Rec("SCHEMA", s, Feed[s][k])
           /\ r.kind = "FEED" => step[s] = Len(Feed[s]) + 1 /\ r.schema = Last(Feed[s]) /\ step'[s] = step[s] + 1
    BY <1>1, NextRecord
  <2>2. parts' = parts /\ \A t \in Sessions \ {s} : step'[t] = step[t]
    BY <1>1, WriterSteps, Zenon
  <2>3. /\ \A q \in Partitions, i \in Nat : i \in 1 .. Len(registry[q]) =>
              i \in 1 .. Len(registry'[q]) /\ registry'[q][i] = registry[q][i]
        /\ \A q \in Partitions, i \in Nat : i \in 1 .. Len(registry'[q]) =>
              \/ i \in 1 .. Len(registry[q]) /\ registry'[q][i] = registry[q][i]
              \/ q = p /\ registry'[q][i] = r
        /\ Len(registry[p]) + 1 \in 1 .. Len(registry'[p]) /\ registry'[p][Len(registry[p]) + 1] = r
        /\ \A q \in Partitions : Len(registry[q]) \in Nat
    BY <2>1, WroteRecords, Zenon
  <2>4. parts \in Nat /\ (parts = 1 => p = 1) /\ 1 \in Partitions /\ step[s] \in Nat
    BY RegistryAssumption DEF ScanTypes, Partitions
  <2>5. ASSUME parts = 1, NEW t \in Sessions, NEW k \in Nat, k \in 1 .. Len(Feed[t]), step'[t] >= k + 1
        PROVE  \E j \in Nat : j \in 1 .. Len(registry'[1]) /\ registry'[1][j] = Rec("SCHEMA", t, Feed[t][k])
    <3>1. CASE step[t] >= k + 1
      <4>1. PICK j \in Nat : j \in 1 .. Len(registry[1]) /\ registry[1][j] = Rec("SCHEMA", t, Feed[t][k])
        BY <2>5, <3>1 DEF FeedRecords
      <4>. QED  BY <2>3, <2>4, <4>1
    <3>2. CASE ~(step[t] >= k + 1)
      <4>1. t = s
        BY <2>2, <2>5, <3>2
      <4>2. r.kind = "SCHEMA" /\ r = Rec("SCHEMA", s, Feed[s][k])
        <5>0. Len(Feed[s]) \in Nat /\ k >= 1 /\ k <= Len(Feed[s]) /\ step'[s] >= k + 1 /\ ~(step[s] >= k + 1)
          BY <2>5, <3>2, <4>1, OwnIs
        <5>1. CASE r.kind \notin {"SCHEMA", "FEED"}
          BY <2>1, <2>4, <5>0, <5>1
        <5>2. CASE r.kind = "SCHEMA"
          <6>1. PICK k2 \in 1 .. Len(Feed[s]) : step[s] = k2 /\ step'[s] = k2 + 1 /\ r = Rec("SCHEMA", s, Feed[s][k2])
            BY <2>1, <5>2
          <6>2. k2 = k
            BY <5>0, <6>1
          <6>. QED  BY <5>2, <6>1, <6>2
        <5>3. CASE r.kind = "FEED"
          BY <2>1, <5>0, <5>3
        <5>. QED  BY <5>1, <5>2, <5>3
      <4>3. Len(registry[1]) + 1 \in Nat /\ Len(registry[1]) + 1 \in 1 .. Len(registry'[1])
            /\ registry'[1][Len(registry[1]) + 1] = Rec("SCHEMA", t, Feed[t][k])
        BY <2>3, <2>4, <2>5, <4>1, <4>2
      <4>. QED  BY <4>3
    <3>. QED  BY <3>1, <3>2
  <2>6. ASSUME NEW q \in Partitions, NEW i \in Nat, i \in 1 .. Len(registry'[q])
        PROVE  /\ registry'[q][i].kind = "SCHEMA" => registry'[q][i].schema \in Own(registry'[q][i].session)
               /\ registry'[q][i].kind = "FEED" =>
                    /\ registry'[q][i].schema = Last(Feed[registry'[q][i].session])
                    /\ parts = 1 => \A h \in Own(registry'[q][i].session) :
                         \E j \in Nat : j \in 1 .. i - 1 /\ registry'[q][j] = Rec("SCHEMA", registry'[q][i].session, h)
    <3>1. CASE i \in 1 .. Len(registry[q]) /\ registry'[q][i] = registry[q][i]
      <4>1. /\ registry[q][i].kind = "SCHEMA" => registry[q][i].schema \in Own(registry[q][i].session)
            /\ registry[q][i].kind = "FEED" =>
                 /\ registry[q][i].schema = Last(Feed[registry[q][i].session])
                 /\ parts = 1 => \A h \in Own(registry[q][i].session) :
                      \E j \in Nat : j \in 1 .. i - 1 /\ registry[q][j] = Rec("SCHEMA", registry[q][i].session, h)
        BY <3>1 DEF FeedRecords
      <4>2. \A j \in Nat : j \in 1 .. i - 1 => registry'[q][j] = registry[q][j]
        <5>1. \A j \in Nat : j \in 1 .. i - 1 => j \in 1 .. Len(registry[q])
          BY <2>3, <3>1
        <5>. QED  BY <2>3, <5>1
      <4>3. \A h : (\E j \in Nat : j \in 1 .. i - 1 /\ registry[q][j] = h)
                     => \E j \in Nat : j \in 1 .. i - 1 /\ registry'[q][j] = h
        BY <4>2
      <4>. QED  BY <3>1, <4>1, <4>3
    <3>2. CASE q = p /\ registry'[q][i] = r /\ i \notin 1 .. Len(registry[q])
      <4>1. r.kind = "SCHEMA" => r.schema \in Own(s)
        <5> SUFFICES ASSUME r.kind = "SCHEMA" PROVE r.schema \in Own(s)
          OBVIOUS
        <5>1. PICK k \in 1 .. Len(Feed[s]) : r = Rec("SCHEMA", s, Feed[s][k])
          BY <2>1
        <5>2. r.schema = Feed[s][k]
          BY <5>1 DEF Rec
        <5>. QED  BY <5>2, OwnIs
      <4>2. ASSUME r.kind = "FEED", parts = 1, NEW h \in Own(s)
            PROVE  \E j \in Nat : j \in 1 .. i - 1 /\ registry'[q][j] = Rec("SCHEMA", s, h)
        <5>1. PICK k \in 1 .. Len(Feed[s]) : Feed[s][k] = h
          BY OwnIs
        <5>2. k \in Nat /\ step[s] >= k + 1
          BY <2>1, <2>4, <4>2, OwnIs
        <5>3. PICK j \in Nat : j \in 1 .. Len(registry[1]) /\ registry[1][j] = Rec("SCHEMA", s, Feed[s][k])
          BY <4>2, <5>2 DEF FeedRecords
        <5>4. q = 1 /\ Len(registry[q]) \in Nat /\ j \in 1 .. i - 1 /\ registry'[q][j] = registry[q][j]
          <6>1. q = 1
            BY <2>4, <3>2, <4>2
          <6>. QED  BY <2>3, <3>2, <5>3, <6>1, <2>6
        <5>. QED  BY <5>1, <5>3, <5>4
      <4>. QED  BY <2>1, <3>2, <4>1, <4>2
    <3>. QED  BY <2>3, <2>6, <3>1, <3>2, Zenon
  <2>. QED  BY <2>2, <2>5, <2>6 DEF FeedRecords, Partitions
<1>2. CASE UNCHANGED <<parts, registry, step>>
  BY <1>2 DEF FeedRecords, Partitions
<1>3. CASE UNCHANGED vars
  BY <1>2, <1>3, Zenon DEF vars, topicVars
<1>. QED  BY <1>1, <1>2, <1>3, ScanSteps, Zenon DEF Next

LEMMA FeedsReadStep == ScanTypes /\ FeedRecords /\ FeedsRead /\ [Next]_vars => FeedsRead'
<1> SUFFICES ASSUME ScanTypes, FeedRecords, FeedsRead, [Next]_vars PROVE FeedsRead'
  OBVIOUS
<1>0. /\ \A q \in Partitions : registry[q] \in Seq(Record) /\ Len(registry[q]) \in Nat /\ pos[q] \in Nat
      /\ 1 \in Partitions /\ parts \in Nat /\ nParts \in Nat /\ nParts <= parts
  <2>1. \A q \in Partitions : registry[q] \in Seq(Record)
    BY DEF ScanTypes
  <2>. QED  BY <2>1, RegistryAssumption DEF ScanTypes, Partitions
<1>1. ASSUME NEW s \in Sessions, Register(s) \/ MarkSessionDeleted(s) PROVE FeedsRead'
  <2>1. PICK p \in 1 .. parts, r \in Record : Wrote(p, r)
    BY <1>1, WriterSteps, Zenon
  <2>2. p \in Partitions
    BY RegistryAssumption DEF ScanTypes, Partitions
  <2>3. phase # "after" /\ phase' = phase /\ pos' = pos /\ acc' = acc /\ parts' = parts
    BY <1>1, WriterSteps, Zenon
  <2>4. \A q \in Partitions, i \in Nat : i \in 1 .. Len(registry[q]) => registry'[q][i] = registry[q][i]
    BY <2>1, <2>2, WroteRecords, Zenon
  <2>5. ASSUME NEW q \in Partitions, NEW i \in Nat, i \in 1 .. pos[q], registry'[q][i].kind = "SCHEMA"
        PROVE  registry'[q][i].schema \in acc.cache
    <3>1. i \in 1 .. Len(registry[q])
      BY <1>0, <2>5 DEF ScanTypes
    <3>2. registry'[q][i] = registry[q][i]
      BY <2>4, <3>1
    <3>. QED  BY <2>5, <3>2 DEF FeedsRead
  <2>. QED  BY <2>3, <2>5 DEF FeedsRead, Partitions
<1>2. ASSUME NEW p \in Partitions, ReadRecord(p) PROVE FeedsRead'
  <2> DEFINE n == pos[p] + 1
             r == registry[p][n]
  <2>1. /\ pos[p] < Len(registry[p]) /\ pos' = [pos EXCEPT ![p] = @ + 1] /\ acc' = Parsed(acc, r)
        /\ phase = "scan" /\ p <= nParts
    BY <1>2 DEF ReadRecord
  <2>2. registry' = registry /\ phase' = phase /\ parts' = parts
    BY <1>2, ScanSteps, Zenon
  <2>3. n \in 1 .. Len(registry[p]) /\ n \in Nat /\ n - 1 = pos[p]
    BY <1>0, <2>1
  <2>4. r \in Record /\ r.session \in Sessions
    BY <2>3, RecordIs
  <2>5. /\ acc'.cache = IF r.kind = "SCHEMA" THEN acc.cache \cup {r.schema} ELSE acc.cache
        /\ acc'.feeds = IF r.kind # "FEED" THEN acc.feeds
                        ELSE acc.feeds \cup {[session |-> r.session, schema |-> r.schema,
                                              json |-> r.schema \in acc.cache]}
    <3>1. /\ Parsed(acc, r).cache = IF r.kind = "SCHEMA" THEN acc.cache \cup {r.schema} ELSE acc.cache
          /\ Parsed(acc, r).feeds = IF r.kind # "FEED" THEN acc.feeds
                        ELSE acc.feeds \cup {[session |-> r.session, schema |-> r.schema,
                                              json |-> r.schema \in acc.cache]}
      <4> HIDE DEF r
      <4>. QED  BY <2>4, ParsedFields DEF ScanTypes
    <3>. QED  BY <2>1, <3>1
  <2>6. /\ r.kind = "SCHEMA" => r.schema \in Own(r.session)
        /\ r.kind = "FEED" =>
             /\ r.schema = Last(Feed[r.session])
             /\ parts = 1 => (\A h \in Own(r.session) :
                  \E j \in Nat : j \in 1 .. n - 1 /\ registry[p][j] = Rec("SCHEMA", r.session, h))
    BY <2>3 DEF FeedRecords
  <2> HIDE DEF n, r
  <2>7. acc'.cache \in SUBSET FeedSchemas /\ acc.cache \subseteq acc'.cache
    <3>1. r.kind = "SCHEMA" => r.schema \in FeedSchemas
      BY <2>4, <2>6 DEF FeedSchemas
    <3>. QED  BY <2>5, <3>1 DEF FeedsRead
  <2>8. ASSUME NEW q \in Partitions, NEW i \in Nat, i \in 1 .. pos'[q], registry[q][i].kind = "SCHEMA"
        PROVE  registry[q][i].schema \in acc'.cache
    <3>1. i \in 1 .. pos[q] \/ (q = p /\ i = n)
      BY <1>0, <2>1, <2>8 DEF ScanTypes, n
    <3>2. CASE i \in 1 .. pos[q]
      BY <2>7, <2>8, <3>2 DEF FeedsRead
    <3>3. CASE q = p /\ i = n
      <4>1. registry[q][i] = r
        BY <3>3 DEF r
      <4>. QED  BY <2>5, <2>8, <4>1
    <3>. QED  BY <3>1, <3>2, <3>3
  <2>9. ASSUME NEW f \in acc'.feeds
        PROVE  /\ f.session \in Sessions /\ f.schema = Last(Feed[f.session])
               /\ parts = 1 => f.json /\ Own(f.session) \subseteq acc'.cache
    <3>1. CASE f \in acc.feeds
      BY <2>7, <3>1 DEF FeedsRead
    <3>2. CASE f \notin acc.feeds
      <4>1. /\ r.kind = "FEED"
            /\ f = [session |-> r.session, schema |-> r.schema, json |-> r.schema \in acc.cache]
        BY <2>5, <2>9, <3>2
      <4>2. f.session = r.session /\ f.schema = r.schema /\ f.json = (r.schema \in acc.cache)
        BY <4>1
      <4>3. ASSUME parts = 1 PROVE Own(r.session) \subseteq acc.cache
        <5> SUFFICES ASSUME NEW h \in Own(r.session) PROVE h \in acc.cache
          OBVIOUS
        <5>1. PICK j \in Nat : j \in 1 .. n - 1 /\ registry[p][j] = Rec("SCHEMA", r.session, h)
          BY <2>6, <4>1, <4>3
        <5>2. j \in 1 .. pos[p] /\ registry[p][j].kind = "SCHEMA" /\ registry[p][j].schema = h
          BY <2>3, <5>1 DEF Rec
        <5>. QED  BY <5>2 DEF FeedsRead
      <4>4. Last(Feed[r.session]) \in Own(r.session)
        BY <2>4, OwnIs
      <4>. QED  BY <2>4, <2>6, <2>7, <4>1, <4>2, <4>3, <4>4
    <3>. QED  BY <3>1, <3>2
  <2>. QED  BY <2>1, <2>2, <2>7, <2>8, <2>9 DEF FeedsRead, Partitions
<1>3. CASE UNCHANGED <<registry, pos, acc, parts>> /\ phase' # "after"
  BY <1>3 DEF FeedsRead, Partitions
<1>4. ASSUME BeginScan \/ \E p \in Partitions : PartitionEof(p)
      PROVE  UNCHANGED <<registry, pos, acc, parts>> /\ phase' # "after"
  <2>1. CASE BeginScan
    BY <2>1, ScanSteps DEF BeginScan
  <2>2. ASSUME NEW p \in Partitions, PartitionEof(p)
        PROVE  UNCHANGED <<registry, pos, acc, parts>> /\ phase' # "after"
    BY <2>2, ScanSteps DEF PartitionEof
  <2>. QED  BY <1>4, <2>1, <2>2
<1>5. CASE EndScan \/ ScanTimeout
  <2>1. UNCHANGED <<registry, pos, acc, parts>> /\ result' = SessionsOf(acc)
    BY <1>5 DEF EndScan, ScanTimeout, Return, topicVars
  <2>2. result' = SessionsOf(acc)'
    BY <2>1 DEF SessionsOf, Surviving
  <2>. QED  BY <2>1, <2>2 DEF FeedsRead, Partitions
<1>6. CASE UNCHANGED vars
  <2>1. UNCHANGED <<registry, pos, acc, parts, result, phase>>
    BY <1>6 DEF vars, topicVars, scanVars
  <2>2. SessionsOf(acc)' = SessionsOf(acc)
    BY <2>1 DEF SessionsOf, Surviving
  <2>. QED  BY <2>1, <2>2 DEF FeedsRead, Partitions
<1>. QED  BY <1>1, <1>2, <1>3, <1>4, <1>5, <1>6, Zenon DEF Next

LEMMA FeedInvariant == Spec => [](ScanTypes /\ FeedInv)
<1>1. Init => ScanTypes /\ FeedInv
  BY ScanTypesInit, FeedInvInit
<1>2. (ScanTypes /\ FeedInv) /\ [Next]_vars => (ScanTypes /\ FeedInv)'
  BY ScanTypesStep, FeedRecordsStep, FeedsReadStep DEF FeedInv
<1>. QED  BY <1>1, <1>2, PTL DEF Spec

\* what a call returns for a feed it has read
LEMMA FieldsAre ==
  ASSUME ScanTypes, FeedInv, phase = "after"
  PROVE  /\ result.sessions = Surviving(acc)
         /\ \A f \in result.fields : \E g \in acc.feeds :
              /\ f.session = g.session /\ f.layout = ResolvedSchemas(acc.cache)[g.schema]
              /\ ResolvedSchemas(acc.cache)[g.schema] # {}
         /\ \A g \in acc.feeds : g.session \in Surviving(acc) /\ g.json /\ ResolvedSchemas(acc.cache)[g.schema] # {} =>
              \E f \in result.fields : f.session = g.session
<1> DEFINE lay == ResolvedSchemas(acc.cache)
           left == Surviving(acc)
           meta(g) == [session |-> g.session, schema |-> g.schema, layout |-> lay[g.schema]]
<1>1. result = [sessions |-> left,
                fields |-> {meta(g) : g \in {e \in acc.feeds : e.session \in left /\ e.json /\ lay[e.schema] # {}}}]
  BY Zenon DEF FeedInv, FeedsRead, SessionsOf
<1> HIDE DEF lay, left
<1>2. result.sessions = left
      /\ result.fields = {meta(g) : g \in {e \in acc.feeds : e.session \in left /\ e.json /\ lay[e.schema] # {}}}
  BY <1>1
<1>3. \A g : meta(g).session = g.session /\ meta(g).layout = lay[g.schema]
  OBVIOUS
<1> HIDE DEF meta
<1>. QED  BY <1>2, <1>3 DEF lay, left

\* A session whose feed a scan of one partition has read is returned with the
\* fields of the feed, deadline or not, and whatever a scan returns of a feed has
\* the layout its session writes with, unless another version of one of its types
\* was read: for any schemas, however deep they are nested, any order of their
\* hashes and any interleaving of the sessions (ParseRegistryRecord, ParseUdtSchema
\* and the fixed point of DiscoverSessions). It rests on a session registering what
\* it embeds before its feed, and on each pass resolving one more schema as long as
\* the feed is not.
THEOREM FeedsAreDecoded == Spec => []FeedsDecoded
<1>1. ScanTypes /\ FeedInv => FeedsDecoded
  <2> SUFFICES ASSUME ScanTypes, FeedInv, phase = "after"
               PROVE  /\ parts = 1 =>
                           \A f \in acc.feeds : f.session \in result.sessions => FieldsOf(f.session) # {}
                      /\ \A s \in Sessions : OneVersion(s) => \A f \in FieldsOf(s) : f.layout = WriterLayout(s)
    BY DEF FeedsDecoded
  <2>1. /\ acc.cache \in SUBSET FeedSchemas
        /\ \A g \in acc.feeds : /\ g.session \in Sessions /\ g.schema = Last(Feed[g.session])
                                /\ parts = 1 => g.json /\ Own(g.session) \subseteq acc.cache
    BY DEF FeedInv, FeedsRead
  <2>2. ASSUME parts = 1, NEW f \in acc.feeds, f.session \in result.sessions PROVE FieldsOf(f.session) # {}
    <3>1. ResolvedSchemas(acc.cache)[f.schema] # {}
      BY <2>1, <2>2, FeedResolved
    <3>2. \E v \in result.fields : v.session = f.session
      BY <2>1, <2>2, <3>1, FieldsAre
    <3>. QED  BY <3>2 DEF FieldsOf
  <2>3. ASSUME NEW s \in Sessions, OneVersion(s), NEW f \in FieldsOf(s) PROVE f.layout = WriterLayout(s)
    <3>1. f \in result.fields /\ f.session = s
      BY DEF FieldsOf
    <3>2. PICK g \in acc.feeds :
            /\ f.session = g.session /\ f.layout = ResolvedSchemas(acc.cache)[g.schema]
            /\ ResolvedSchemas(acc.cache)[g.schema] # {}
      BY <3>1, FieldsAre
    <3>3. \A h \in acc.cache : \A x \in Own(s) : TypeName[h] = TypeName[x] => h = x
      <4> SUFFICES ASSUME NEW h \in acc.cache, NEW x \in Own(s), TypeName[h] = TypeName[x] PROVE h = x
        OBVIOUS
      <4>1. PICK i \in 1 .. Len(Feed[s]) : Feed[s][i] = x
        BY OwnIs
      <4>. QED  BY <2>3, <4>1 DEF OneVersion
    <3>4. ResolvedSchemas(acc.cache)[Last(Feed[s])] \in {{}, WriterLayout(s)}
      BY <2>1, <3>3, ResolvedAsWritten
    <3>5. g.schema = Last(Feed[s])
      BY <2>1, <3>1, <3>2
    <3>. QED  BY <3>2, <3>4, <3>5
  <2>. QED  BY <2>2, <2>3
<1>. QED  BY <1>1, FeedInvariant, PTL

-----------------------------------------------------------------------------
(* The annotations. In the following q is a sequence of records, n an      *)
(* offset in it; the state of a window is its store and what is pending.   *)

Entry == [ver : Nat, deleted : BOOLEAN]
Note  == [kind : {"ann", "del"}, id : Notes!Ids, ver : Nat \ {0}]

NoteTypes ==
  /\ clock \in 0 .. MaxClock /\ writes \in Nat /\ open \subseteq Windows
  /\ store \in [Windows -> [Notes!Ids -> Entry]]
  /\ nextSeq \in [Windows -> Nat \ {0}]
  /\ editing \in [Windows -> Notes!Ids \cup {Notes!NoId}]
  /\ pend \in [Windows -> Seq(Note)] /\ outq \in [Windows -> Seq(Note)] /\ topic \in Seq(Note)
  /\ live \in [Windows -> Nat] /\ replay \in [Windows -> Nat]
  /\ \A w \in Windows : live[w] <= Len(topic) /\ replay[w] <= Len(topic)
  /\ gone \subseteq 1 .. Len(topic)

\* record n of q is a change, or a delete marker, of annotation id
Ann(q, n, id) == n \in DOMAIN q /\ q[n].kind = "ann" /\ q[n].id = id
Del(q, n, id) == n \in DOMAIN q /\ q[n].kind = "del" /\ q[n].id = id

HasAnn(q, id) == \E n \in Nat : Ann(q, n, id)

\* What becomes of an annotation that is e in the store once the records of q
\* are drained: it is there if it was, or if one of them changes it; it is
\* deleted if it was, or if one of them deletes it where it is there; its
\* version is that of the last change.
There(e, q, id) == e # Notes!Absent \/ HasAnn(q, id)
Dead(e, q, id) ==
  e.deleted \/ \E n \in Nat : Del(q, n, id) /\ (e # Notes!Absent \/ \E k \in Nat : k < n /\ Ann(q, k, id))
HasVer(e, q, id, v) ==
  \/ ~HasAnn(q, id) /\ e.ver = v
  \/ \E n \in Nat : Ann(q, n, id) /\ q[n].ver = v /\ \A k \in Nat : k > n => ~Ann(q, k, id)

\* A window deletes what it has, so a marker has a change of its annotation
\* before it in the topic, or waiting before it in the same window.
AnnFirst ==
  /\ \A id \in Notes!Ids, d \in Nat : Del(topic, d, id) => \E a \in Nat : a < d /\ Ann(topic, a, id)
  /\ \A w \in Windows, id \in Notes!Ids :
       /\ store[w][id] # Notes!Absent => HasAnn(topic, id) \/ HasAnn(outq[w], id)
       /\ HasAnn(pend[w], id) => HasAnn(topic, id)
       /\ \A d \in Nat : Del(outq[w], d, id) =>
            HasAnn(topic, id) \/ \E a \in Nat : a < d /\ Ann(outq[w], a, id)

\* Compaction leaves the last record of an annotation.
GoneInv ==
  \A o \in gone : \E n \in Nat : n > o /\ n \in DOMAIN topic /\ topic[n].id = topic[o].id

\* The records the live consumer of a window has been given (the first live[w]
\* of the topic, without those that are gone). A change makes the annotation
\* known.
AnnSeen ==
  \A w \in Windows, id \in Notes!Ids, a \in Nat :
    a <= live[w] /\ Ann(topic, a, id) /\ a \notin gone => There(store[w][id], pend[w], id)

\* A marker deletes the annotation, unless every change before it is gone; then
\* the annotation is unknown, or changed since.
DelSeen ==
  \A w \in Windows, id \in Notes!Ids, d \in Nat :
    d <= live[w] /\ Del(topic, d, id) /\ d \notin gone =>
      \/ Dead(store[w][id], pend[w], id)
      \/ /\ \A a \in Nat : a < d /\ Ann(topic, a, id) => a \in gone
         /\ \/ ~There(store[w][id], pend[w], id)
            \/ \E a \in Nat : a > d /\ Ann(topic, a, id)
            \/ HasAnn(outq[w], id)

\* The last change, if it came after the end of the replay and the window has
\* none of its own on the way, is the version the window shows.
VerSeen ==
  \A w \in Windows \ replaying, id \in Notes!Ids, o \in Nat :
    /\ replay[w] < o /\ o <= live[w] /\ o \notin gone
    /\ Ann(topic, o, id) /\ \A n \in Nat : n > o => ~Ann(topic, n, id)
    /\ ~HasAnn(outq[w], id)
    => HasVer(store[w][id], pend[w], id, topic[o].ver)

NoteInv == AnnFirst /\ GoneInv /\ AnnSeen /\ DelSeen /\ VerSeen

-----------------------------------------------------------------------------
(* What draining the pending records makes of a store.                     *)

OneNote(s, rec) == [s EXCEPT ![rec.id] = Notes!Applied(@, rec)]
Drained(s0, q) == Notes!FoldLeft(LAMBDA s, rec : [s EXCEPT ![rec.id] = Notes!Applied(@, rec)], s0, q)

LEMMA OneNoteType ==
  ASSUME NEW s \in [Notes!Ids -> Entry], NEW r \in Note
  PROVE  /\ OneNote(s, r) \in [Notes!Ids -> Entry]
         /\ OneNote(s, r)[r.id] = Notes!Applied(s[r.id], r)
         /\ \A id \in Notes!Ids \ {r.id} : OneNote(s, r)[id] = s[id]
<1>1. r.id \in Notes!Ids /\ r.ver \in Nat /\ s[r.id] \in Entry
  BY DEF Note
<1>2. Notes!Applied(s[r.id], r) \in Entry
  BY <1>1 DEF Notes!Applied, Entry, Notes!Absent
<1>. QED  BY <1>1, <1>2 DEF OneNote

LEMMA DrainHistory ==
  ASSUME NEW s0 \in [Notes!Ids -> Entry], NEW q \in Seq(Note)
  PROVE  \E h \in [0 .. Len(q) -> [Notes!Ids -> Entry]] :
           /\ h[0] = s0 /\ h[Len(q)] = Drained(s0, q)
           /\ \A i \in 1 .. Len(q) : h[i] = OneNote(h[i - 1], q[i])
<1> DEFINE T == [Notes!Ids -> Entry]
           n == Len(q)
           F == [x \in T \X (1 .. n) |-> OneNote(x[1], q[x[2]])]
           Eqn(g) == g = [s \in SUBSET (1 .. n) |->
                            IF s = {} THEN s0 ELSE OneNote(g[s \ {Notes!Max(s)}], q[Notes!Max(s)])]
           it == CHOOSE g : Eqn(g)
<1>1. n \in Nat /\ DOMAIN q = 1 .. n /\ \A i \in 1 .. n : q[i] \in Note
  BY LenProperties
<1>2. Drained(s0, q) = it[1 .. n]
  BY <1>1 DEF Drained, Notes!FoldLeft, Notes!MapThenFoldSet, OneNote
<1>3. \A s : Notes!Max(s) = Top(s)
  BY DEF Notes!Max, Top
<1>4. F \in [T \X (1 .. n) -> T] /\ \A s \in T, i \in 1 .. n : F[<<s, i>>] = OneNote(s, q[i])
  <2>1. \A s \in T, i \in 1 .. n : OneNote(s, q[i]) \in T
    <3> HIDE DEF n
    <3>. QED  BY <1>1, OneNoteType
  <2> HIDE DEF T, n
  <2>2. \A x \in T \X (1 .. n) : x[1] \in T /\ x[2] \in 1 .. n
    OBVIOUS
  <2>3. F \in [T \X (1 .. n) -> T]
    BY <2>1, <2>2
  <2>4. ASSUME NEW s \in T, NEW i \in 1 .. n PROVE F[<<s, i>>] = OneNote(s, q[i])
    <3>1. <<s, i>> \in T \X (1 .. n) /\ <<s, i>>[1] = s /\ <<s, i>>[2] = i
      OBVIOUS
    <3>. QED  BY <3>1
  <2>. QED  BY <2>3, <2>4
<1>5. \A s \in SUBSET (1 .. n) : s # {} => Top(s) \in 1 .. n
  <2> HIDE DEF n
  <2>. QED  BY <1>1, TopInterval
<1>6. Eqn(it)
  <2>1. PICK g : Iterates(g, T, F, s0, n)
    <3> HIDE DEF F, n
    <3>. QED  BY <1>1, <1>4, IterationExists
  <2>2. /\ g \in [SUBSET (1 .. n) -> T]
        /\ \A s \in SUBSET (1 .. n) : g[s] = IF s = {} THEN s0 ELSE F[<<g[s \ {Top(s)}], Top(s)>>]
    BY <2>1 DEF Iterates
  <2>3. ASSUME NEW s \in SUBSET (1 .. n)
        PROVE  g[s] = IF s = {} THEN s0 ELSE OneNote(g[s \ {Notes!Max(s)}], q[Notes!Max(s)])
    <3>1. CASE s = {}
      BY <2>2, <3>1
    <3>2. CASE s # {}
      <4>1. Top(s) \in 1 .. n /\ s \ {Top(s)} \in SUBSET (1 .. n) /\ Notes!Max(s) = Top(s)
        BY <1>3, <1>5, <3>2
      <4>2. g[s \ {Top(s)}] \in T
        BY <2>2, <4>1
      <4>3. F[<<g[s \ {Top(s)}], Top(s)>>] = OneNote(g[s \ {Top(s)}], q[Top(s)])
        <5> HIDE DEF F, T
        <5>. QED  BY <1>4, <4>1, <4>2
      <4> HIDE DEF F, T
      <4>. QED  BY <2>2, <3>2, <4>1, <4>3
    <3>. QED  BY <3>1, <3>2
  <2>4. g = [s \in SUBSET (1 .. n) |-> g[s]]
    BY <2>2
  <2>5. Eqn(g)
    BY <2>3, <2>4
  <2>. QED  BY <2>5
<1>7. it[{}] = s0
  <2>1. {} \in SUBSET (1 .. n)
    OBVIOUS
  <2> HIDE DEF it, n
  <2>. QED  BY <1>6, <2>1
<1>8. ASSUME NEW s \in SUBSET (1 .. n), s # {}, it[s \ {Top(s)}] \in T
      PROVE  it[s] = F[<<it[s \ {Top(s)}], Top(s)>>]
  <2>1. Top(s) \in 1 .. n /\ Notes!Max(s) = Top(s)
    BY <1>3, <1>5, <1>8
  <2>2. it[s] = OneNote(it[s \ {Notes!Max(s)}], q[Notes!Max(s)])
    <3> HIDE DEF it, n
    <3>. QED  BY <1>6, <1>8
  <2> HIDE DEF it, F, n, T
  <2>. QED  BY <1>4, <1>8, <2>1, <2>2
<1>9. PICK g \in [0 .. n -> T] : g[0] = s0 /\ g[n] = it[1 .. n] /\ \A i \in 1 .. n : g[i] = F[<<g[i - 1], i>>]
  <2>1. n \in Nat /\ F \in [T \X (1 .. n) -> T]
    BY <1>1, <1>4
  <2> HIDE DEF it, F, n
  <2>2. Iterating(it, T, F, s0, n)
    BY <1>7, <1>8 DEF Iterating
  <2>3. History(it, T, F, s0, n)
    BY <2>1, <2>2, IterationHistory, Zenon
  <2>. QED  BY <2>3 DEF History
<1>10. ASSUME NEW i \in 1 .. n PROVE g[i] = OneNote(g[i - 1], q[i])
  <2>1. g[i - 1] \in T
    <3> HIDE DEF it, F, n, T
    <3>1. i - 1 \in 0 .. n
      BY <1>1
    <3>. QED  BY <3>1
  <2> HIDE DEF it, F, n, T
  <2>. QED  BY <1>4, <1>9, <2>1
<1> HIDE DEF it, F
<1>. QED  BY <1>2, <1>9, <1>10

\* What one record does to the entry of an annotation.
LEMMA OneNoteFacts ==
  ASSUME NEW s \in [Notes!Ids -> Entry], NEW r \in Note, NEW id \in Notes!Ids
  PROVE  LET e  == s[id]
             e1 == OneNote(s, r)[id]
         IN  /\ id # r.id => e1 = e
             /\ id = r.id /\ r.kind = "ann" => e1 # Notes!Absent /\ e1.deleted = e.deleted /\ e1.ver = r.ver
             /\ id = r.id /\ r.kind = "del" /\ e = Notes!Absent => e1 = Notes!Absent
             /\ id = r.id /\ r.kind = "del" /\ e # Notes!Absent => e1 # Notes!Absent /\ e1.deleted /\ e1.ver = e.ver
<1> DEFINE e == s[id]
<1>1. e \in Entry /\ r.ver \in Nat \ {0} /\ r.kind \in {"ann", "del"} /\ r.id \in Notes!Ids
  BY DEF Note
<1>2. OneNote(s, r)[id] = IF id = r.id THEN Notes!Applied(e, r) ELSE e
  BY OneNoteType
<1>3. CASE id = r.id /\ r.kind = "ann"
  <2>1. Notes!Applied(e, r) = [e EXCEPT !.ver = r.ver]
    BY <1>3 DEF Notes!Applied
  <2> HIDE DEF e
  <2>2. Notes!Applied(e, r).ver = r.ver /\ Notes!Applied(e, r).deleted = e.deleted
    BY <1>1, <2>1 DEF Entry
  <2>3. Notes!Applied(e, r) # Notes!Absent
    BY <1>1, <2>2 DEF Notes!Absent
  <2>. QED  BY <1>2, <1>3, <2>2, <2>3 DEF e
<1>4. CASE id = r.id /\ r.kind = "del"
  <2>1. e = Notes!Absent => Notes!Applied(e, r) = Notes!Absent
    BY <1>4 DEF Notes!Applied
  <2>2. e # Notes!Absent => Notes!Applied(e, r) = [e EXCEPT !.deleted = TRUE]
    BY <1>4 DEF Notes!Applied
  <2> HIDE DEF e
  <2>3. e # Notes!Absent => Notes!Applied(e, r).deleted /\ Notes!Applied(e, r).ver = e.ver
    BY <1>1, <2>2 DEF Entry
  <2>4. e # Notes!Absent => Notes!Applied(e, r) # Notes!Absent
    BY <2>3 DEF Notes!Absent
  <2>. QED  BY <1>2, <1>4, <2>1, <2>3, <2>4 DEF e
<1>5. CASE id # r.id
  BY <1>2, <1>5
<1>. QED  BY <1>1, <1>3, <1>4, <1>5

\* What draining makes of an entry.
LEMMA DrainResult ==
  ASSUME NEW s0 \in [Notes!Ids -> Entry], NEW q \in Seq(Note), NEW id \in Notes!Ids
  PROVE  /\ Drained(s0, q) \in [Notes!Ids -> Entry]
         /\ Drained(s0, q)[id] # Notes!Absent <=> There(s0[id], q, id)
         /\ Dead(s0[id], q, id) => Drained(s0, q)[id].deleted
         /\ \A v : HasVer(s0[id], q, id, v) => Drained(s0, q)[id].ver = v
<1>1. PICK h \in [0 .. Len(q) -> [Notes!Ids -> Entry]] :
        /\ h[0] = s0 /\ h[Len(q)] = Drained(s0, q)
        /\ \A i \in 1 .. Len(q) : h[i] = OneNote(h[i - 1], q[i])
  BY DrainHistory
<1>2. Len(q) \in Nat /\ DOMAIN q = 1 .. Len(q) /\ \A i \in 1 .. Len(q) : q[i] \in Note
  BY LenProperties
<1> DEFINE e == s0[id]
           n == Len(q)
           Holds(i) ==
             /\ h[i][id] # Notes!Absent <=> e # Notes!Absent \/ \E k \in Nat : k <= i /\ Ann(q, k, id)
             /\ e.deleted => h[i][id].deleted
             /\ \A d \in Nat : d <= i /\ Del(q, d, id) /\ (e # Notes!Absent \/ \E k \in Nat : k < d /\ Ann(q, k, id))
                                 => h[i][id].deleted
             /\ (\A k \in Nat : k <= i => ~Ann(q, k, id)) => h[i][id].ver = e.ver
             /\ \A a \in Nat : a <= i /\ Ann(q, a, id) /\ (\A k \in Nat : k > a /\ k <= i => ~Ann(q, k, id))
                                 => h[i][id].ver = q[a].ver
           N == {i \in Nat : i <= n => Holds(i)}
<1>3. 0 \in N
  <2>1. \A k \in Nat : k <= 0 => ~Ann(q, k, id) /\ ~Del(q, k, id)
    BY <1>2 DEF Ann, Del
  <2>2. h[0][id] = e
    BY <1>1
  <2> HIDE DEF e, n
  <2>3. Holds(0)
    BY <2>1, <2>2
  <2> HIDE DEF Holds
  <2>. QED  BY <2>3
<1>4. ASSUME NEW i \in N PROVE i + 1 \in N
  <2> SUFFICES ASSUME i + 1 <= n PROVE Holds(i + 1)
    BY DEF N
  <2>0. n \in Nat /\ i \in Nat /\ i <= n /\ i + 1 \in 1 .. n /\ (i + 1) - 1 = i /\ i \in 0 .. n
    BY <1>2
  <2>1. Holds(i)
    <3> HIDE DEF Holds, n
    <3>. QED  BY <2>0
  <2>2. h[i] \in [Notes!Ids -> Entry] /\ q[i + 1] \in Note /\ h[i + 1] = OneNote(h[i], q[i + 1])
    <3>1. h[i] \in [Notes!Ids -> Entry]
      BY <1>1, <2>0
    <3>2. q[i + 1] \in Note /\ h[i + 1] = OneNote(h[i], q[i + 1])
      BY <1>1, <1>2, <2>0
    <3>. QED  BY <3>1, <3>2
  <2> DEFINE f  == h[i][id]
             f1 == h[i + 1][id]
             r  == q[i + 1]
  <2>3. /\ id # r.id => f1 = f
        /\ id = r.id /\ r.kind = "ann" => f1 # Notes!Absent /\ f1.deleted = f.deleted /\ f1.ver = r.ver
        /\ id = r.id /\ r.kind = "del" /\ f = Notes!Absent => f1 = Notes!Absent
        /\ id = r.id /\ r.kind = "del" /\ f # Notes!Absent => f1 # Notes!Absent /\ f1.deleted /\ f1.ver = f.ver
    BY <2>2, OneNoteFacts
  <2>4. /\ Ann(q, i + 1, id) <=> r.kind = "ann" /\ r.id = id
        /\ Del(q, i + 1, id) <=> r.kind = "del" /\ r.id = id
        /\ r.kind \in {"ann", "del"}
    BY <1>2, <2>0, <2>2 DEF Ann, Del, Note
  <2>5. \A k \in Nat : k <= i + 1 => k <= i \/ k = i + 1
    BY <2>0
  <2>6. f = Notes!Absent => f.deleted = FALSE
    BY DEF Notes!Absent
  <2> DEFINE A == \E k \in Nat : k <= i /\ Ann(q, k, id)
  <2>7. f # Notes!Absent <=> e # Notes!Absent \/ A
    BY <2>1
  <2>8. f1 # Notes!Absent <=> e # Notes!Absent \/ \E k \in Nat : k <= i + 1 /\ Ann(q, k, id)
    <3>1. (\E k \in Nat : k <= i + 1 /\ Ann(q, k, id)) <=> A \/ Ann(q, i + 1, id)
      BY <2>0, <2>5
    <3> HIDE DEF f, f1, r, e, A
    <3>. QED  BY <2>3, <2>4, <2>7, <3>1
  <2>9. f.deleted => f1.deleted
    <3> HIDE DEF f, f1, r
    <3>. QED  BY <2>3, <2>4, <2>6
  <2>10. ASSUME NEW d \in Nat, d <= i + 1, Del(q, d, id),
                e # Notes!Absent \/ \E k \in Nat : k < d /\ Ann(q, k, id)
         PROVE  f1.deleted
    <3>1. CASE d <= i
      <4>1. f.deleted
        BY <2>1, <2>10, <3>1
      <4>. QED  BY <2>9, <4>1
    <3>2. CASE d = i + 1
      <4>1. e # Notes!Absent \/ A
        BY <2>0, <2>10, <3>2
      <4>2. r.kind = "del" /\ r.id = id
        BY <2>4, <2>10, <3>2
      <4> HIDE DEF f, f1, r, e, A
      <4>. QED  BY <2>3, <2>7, <4>1, <4>2
    <3>. QED  BY <2>5, <2>10, <3>1, <3>2
  <2>11. ~Ann(q, i + 1, id) => f1.ver = f.ver
    <3> HIDE DEF f, f1, r
    <3>. QED  BY <2>3, <2>4
  <2>12. ASSUME \A k \in Nat : k <= i + 1 => ~Ann(q, k, id) PROVE f1.ver = e.ver
    <3>1. f.ver = e.ver /\ ~Ann(q, i + 1, id)
      BY <2>0, <2>1, <2>12
    <3>. QED  BY <2>11, <3>1
  <2>13. ASSUME NEW a \in Nat, a <= i + 1, Ann(q, a, id), \A k \in Nat : k > a /\ k <= i + 1 => ~Ann(q, k, id)
         PROVE  f1.ver = q[a].ver
    <3>1. CASE a <= i
      <4>1. f.ver = q[a].ver
        BY <2>0, <2>1, <2>13, <3>1
      <4>2. ~Ann(q, i + 1, id)
        BY <2>0, <2>13, <3>1
      <4>. QED  BY <2>11, <4>1, <4>2
    <3>2. CASE a = i + 1
      BY <2>3, <2>4, <2>13, <3>2
    <3>. QED  BY <2>5, <2>13, <3>1, <3>2
  <2>14. e.deleted => f1.deleted
    BY <2>1, <2>9
  <2>. QED  BY <2>8, <2>10, <2>12, <2>13, <2>14
<1>5. N = Nat
  <2> HIDE DEF N
  <2>1. N \subseteq Nat
    BY DEF N
  <2>. QED  BY <1>3, <1>4, <2>1, NatSetInduction
<1>6. Holds(n)
  <2> HIDE DEF Holds, n
  <2>1. n \in Nat
    BY <1>2 DEF n
  <2>. QED  BY <1>5, <2>1
<1>7. \A k \in Nat : Ann(q, k, id) \/ Del(q, k, id) => k <= n
  BY <1>2 DEF Ann, Del
<1>8. h[n] \in [Notes!Ids -> Entry] /\ h[n] = Drained(s0, q)
  BY <1>1, <1>2
<1> HIDE DEF n, e
<1>9. h[n][id] # Notes!Absent <=> There(e, q, id)
  BY <1>6, <1>7 DEF There, HasAnn
<1>10. Dead(e, q, id) => h[n][id].deleted
  BY <1>6, <1>7 DEF Dead
<1>11. ASSUME NEW v, HasVer(e, q, id, v) PROVE h[n][id].ver = v
  BY <1>6, <1>7, <1>11 DEF HasVer, HasAnn
<1>. QED  BY <1>8, <1>9, <1>10, <1>11 DEF e

-----------------------------------------------------------------------------
(* The types of the annotations.                                           *)

LEMMA NoteTypesInit == Notes!Init => NoteTypes
<1> SUFFICES ASSUME Notes!Init PROVE NoteTypes
  OBVIOUS
<1>1. <<>> \in Seq(Note) /\ Len(<<>>) = 0
  OBVIOUS
<1>2. Notes!Absent \in Entry
  BY DEF Notes!Absent, Entry
<1>3. 0 \in 0 .. MaxClock
  BY NotesAssumption
<1>4. store \in [Windows -> [Notes!Ids -> Entry]]
  BY <1>2 DEF Notes!Init
<1>5. /\ pend \in [Windows -> Seq(Note)] /\ outq \in [Windows -> Seq(Note)] /\ topic \in Seq(Note)
      /\ live \in [Windows -> Nat] /\ replay \in [Windows -> Nat]
      /\ nextSeq \in [Windows -> Nat \ {0}] /\ editing \in [Windows -> Notes!Ids \cup {Notes!NoId}]
  BY <1>1 DEF Notes!Init
<1>6. \A w \in Windows : live[w] <= Len(topic) /\ replay[w] <= Len(topic)
  BY <1>1 DEF Notes!Init
<1>. QED  BY <1>3, <1>4, <1>5, <1>6 DEF NoteTypes, Notes!Init

LEMMA NoteAppend ==
  ASSUME NEW q \in Seq(Note), NEW r \in Note
  PROVE  /\ Append(q, r) \in Seq(Note) /\ Len(q) \in Nat /\ Len(Append(q, r)) = Len(q) + 1
         /\ DOMAIN q = 1 .. Len(q) /\ DOMAIN Append(q, r) = 1 .. Len(q) + 1
         /\ \A i \in 1 .. Len(q) : Append(q, r)[i] = q[i]
         /\ Append(q, r)[Len(q) + 1] = r
<1> HIDE DEF Note
<1>. QED  OBVIOUS

LEMMA NoteTail ==
  ASSUME NEW q \in Seq(Note), q # <<>>
  PROVE  /\ Tail(q) \in Seq(Note) /\ Len(q) \in Nat \ {0} /\ Len(Tail(q)) = Len(q) - 1
         /\ DOMAIN q = 1 .. Len(q) /\ DOMAIN Tail(q) = 1 .. Len(q) - 1
         /\ \A i \in 1 .. Len(q) - 1 : Tail(q)[i] = q[i + 1]
         /\ Head(q) = q[1] /\ Head(q) \in Note
<1> HIDE DEF Note
<1>. QED  OBVIOUS

\* The records a window publishes.
Written(w, kind, id) == outq' = [outq EXCEPT ![w] = Append(@, [kind |-> kind, id |-> id, ver |-> writes + 1])]

\* What the steps leave alone of what the invariants speak of.
LEMMA NoteFrames ==
  /\ Notes!Tick \/ (\E w \in Windows, id \in Notes!Ids : Notes!OpenEditor(w, id)) =>
       UNCHANGED <<store, pend, outq, topic, live, replay, replaying, gone, open, nextSeq, writes>>
  /\ \A o : Notes!Compact(o) =>
       UNCHANGED <<store, pend, outq, topic, live, replay, replaying, clock, open, nextSeq, editing, writes>>
  /\ \A w \in Windows : Notes!OpenWindow(w) \/ Notes!Reinit(w) =>
       UNCHANGED <<store, pend, outq, topic, gone, clock, nextSeq, editing, writes>>
  /\ \A w \in Windows : Notes!CloseWindow(w) =>
       UNCHANGED <<outq, topic, gone, replaying, clock, writes>>
  /\ \A w \in Windows : Notes!Add(w) \/ Notes!SaveEdit(w) \/ (\E id \in Notes!Ids : Notes!Delete(w, id)) =>
       UNCHANGED <<pend, topic, gone, live, replay, replaying, clock, open>>
  /\ \A w \in Windows : Notes!Deliver(w) =>
       UNCHANGED <<store, pend, live, replay, replaying, gone, clock, open, nextSeq, editing, writes>>
  /\ \A w \in Windows : Notes!Assign(w) =>
       UNCHANGED <<store, pend, outq, topic, replay, replaying, gone, clock, open, nextSeq, editing, writes>>
  /\ \A w \in Windows : Notes!LivePush(w) =>
       UNCHANGED <<store, outq, topic, replay, replaying, gone, clock, open, nextSeq, editing, writes>>
  /\ \A w \in Windows : Notes!ReplayPush(w) =>
       UNCHANGED <<store, outq, topic, live, replaying, gone, clock, open, nextSeq, editing, writes>>
  /\ \A w \in Windows : Notes!ReplayEnd(w) =>
       UNCHANGED <<store, pend, outq, topic, live, gone, clock, open, nextSeq, editing, writes>>
  /\ \A w \in Windows : Notes!DrainPending(w) =>
       UNCHANGED <<outq, topic, live, replay, replaying, gone, clock, open, nextSeq, editing, writes>>
  /\ UNCHANGED Notes!vars =>
       UNCHANGED <<store, pend, outq, topic, live, replay, replaying, gone, clock, open, nextSeq, editing, writes>>
<1> USE DEF Notes!windowVars, Notes!readerVars, Notes!topicVars, Notes!boundVars
<1>1. Notes!Tick \/ (\E w \in Windows, id \in Notes!Ids : Notes!OpenEditor(w, id)) =>
        UNCHANGED <<store, pend, outq, topic, live, replay, replaying, gone, open, nextSeq, writes>>
  BY DEF Notes!Tick, Notes!OpenEditor
<1>2. \A o : Notes!Compact(o) =>
        UNCHANGED <<store, pend, outq, topic, live, replay, replaying, clock, open, nextSeq, editing, writes>>
  BY DEF Notes!Compact
<1>3. \A w \in Windows : Notes!OpenWindow(w) \/ Notes!Reinit(w) =>
        UNCHANGED <<store, pend, outq, topic, gone, clock, nextSeq, editing, writes>>
  BY DEF Notes!OpenWindow, Notes!Reinit
<1>4. \A w \in Windows : Notes!CloseWindow(w) => UNCHANGED <<outq, topic, gone, replaying, clock, writes>>
  BY DEF Notes!CloseWindow
<1>5. \A w \in Windows : Notes!Add(w) \/ Notes!SaveEdit(w) \/ (\E id \in Notes!Ids : Notes!Delete(w, id)) =>
        UNCHANGED <<pend, topic, gone, live, replay, replaying, clock, open>>
  BY DEF Notes!Add, Notes!SaveEdit, Notes!Delete
<1>6. \A w \in Windows : Notes!Deliver(w) =>
        UNCHANGED <<store, pend, live, replay, replaying, gone, clock, open, nextSeq, editing, writes>>
  BY DEF Notes!Deliver
<1>7. \A w \in Windows : Notes!Assign(w) =>
        UNCHANGED <<store, pend, outq, topic, replay, replaying, gone, clock, open, nextSeq, editing, writes>>
  BY DEF Notes!Assign
<1>8. \A w \in Windows : Notes!LivePush(w) =>
        UNCHANGED <<store, outq, topic, replay, replaying, gone, clock, open, nextSeq, editing, writes>>
  BY DEF Notes!LivePush
<1>9. \A w \in Windows : Notes!ReplayPush(w) =>
        UNCHANGED <<store, outq, topic, live, replaying, gone, clock, open, nextSeq, editing, writes>>
  BY DEF Notes!ReplayPush
<1>10. \A w \in Windows : Notes!ReplayEnd(w) =>
         UNCHANGED <<store, pend, outq, topic, live, gone, clock, open, nextSeq, editing, writes>>
  BY DEF Notes!ReplayEnd
<1>11. \A w \in Windows : Notes!DrainPending(w) =>
         UNCHANGED <<outq, topic, live, replay, replaying, gone, clock, open, nextSeq, editing, writes>>
  BY DEF Notes!DrainPending
<1>12. UNCHANGED Notes!vars =>
         UNCHANGED <<store, pend, outq, topic, live, replay, replaying, gone, clock, open, nextSeq, editing, writes>>
  BY DEF Notes!vars
<1>. QED  BY <1>1, <1>2, <1>3, <1>4, <1>5, <1>6, <1>7, <1>8, <1>9, <1>10, <1>11, <1>12, Zenon

\* What a change of its own does to the store of a window: the entry is there
\* afterwards, a deleted one stays deleted, and a delete keeps the version.
Wrote1(w, kind, id) ==
  /\ store' \in [Windows -> [Notes!Ids -> Entry]]
  /\ \A v \in Windows, j \in Notes!Ids : v # w \/ j # id => store'[v][j] = store[v][j]
  /\ store'[w][id] # Notes!Absent
  /\ store[w][id].deleted => store'[w][id].deleted
  /\ kind = "del" => /\ store[w][id] # Notes!Absent /\ store'[w][id].deleted
                     /\ store'[w][id].ver = store[w][id].ver

LEMMA Writing ==
  ASSUME NoteTypes, NEW w \in Windows,
         Notes!Add(w) \/ Notes!SaveEdit(w) \/ (\E id \in Notes!Ids : Notes!Delete(w, id))
  PROVE  /\ writes' = writes + 1
         /\ \E id \in Notes!Ids, kind \in {"ann", "del"} : Written(w, kind, id) /\ Wrote1(w, kind, id)
<1>0. /\ writes \in Nat /\ store \in [Windows -> [Notes!Ids -> Entry]]
      /\ \A id \in Notes!Ids : store[w][id] \in Entry
  BY DEF NoteTypes
<1>1. CASE Notes!Add(w)
  <2> DEFINE id == <<clock, nextSeq[w]>>
             e  == [ver |-> writes + 1, deleted |-> FALSE]
  <2>1. id \in Notes!Ids
    <3>1. MaxAdds \in Nat /\ nextSeq[w] \in Nat \ {0} /\ nextSeq[w] <= MaxAdds /\ clock \in 0 .. MaxClock
      BY <1>1, NotesAssumption DEF NoteTypes, Notes!Add
    <3>. QED  BY <3>1 DEF Notes!Ids
  <2>2. /\ store[w][id] = Notes!Absent /\ store' = [store EXCEPT ![w][id] = e]
        /\ Written(w, "ann", id) /\ writes' = writes + 1
    BY <1>1, Zenon DEF Notes!Add, Notes!NewId, Notes!Publish, Written
  <2>3. e \in Entry /\ e # Notes!Absent
    BY <1>0 DEF Entry, Notes!Absent
  <2>4. Notes!Absent.deleted = FALSE
    BY DEF Notes!Absent
  <2> HIDE DEF id, e
  <2>5. Wrote1(w, "ann", id)
    BY <1>0, <2>1, <2>2, <2>3, <2>4 DEF Wrote1
  <2>. QED  BY <2>1, <2>2, <2>5
<1>2. CASE Notes!SaveEdit(w)
  <2> DEFINE id == editing[w]
  <2>1. /\ id # Notes!NoId /\ store[w][id] # Notes!Absent
        /\ store' = [store EXCEPT ![w][id].ver = writes + 1]
        /\ Written(w, "ann", id) /\ writes' = writes + 1
    BY <1>2, Zenon DEF Notes!SaveEdit, Notes!Publish, Written
  <2>2. id \in Notes!Ids
    BY <2>1 DEF NoteTypes
  <2> DEFINE e == [store[w][id] EXCEPT !.ver = writes + 1]
  <2>3. e \in Entry /\ e.ver = writes + 1 /\ e.deleted = store[w][id].deleted /\ e # Notes!Absent
    <3> HIDE DEF id
    <3>1. e \in Entry /\ e.ver = writes + 1 /\ e.deleted = store[w][id].deleted
      BY <1>0, <2>2 DEF Entry
    <3>. QED  BY <1>0, <3>1 DEF Notes!Absent
  <2> HIDE DEF id
  <2>4. store' = [store EXCEPT ![w] = [@ EXCEPT ![id] = e]]
    BY <2>1
  <2> HIDE DEF e
  <2>5. Wrote1(w, "ann", id)
    BY <1>0, <2>2, <2>3, <2>4 DEF Wrote1
  <2>. QED  BY <2>1, <2>2, <2>5
<1>3. ASSUME NEW id \in Notes!Ids, Notes!Delete(w, id) PROVE Written(w, "del", id) /\ Wrote1(w, "del", id) /\ writes' = writes + 1
  <2>1. /\ store[w][id] # Notes!Absent
        /\ store' = [store EXCEPT ![w][id].deleted = TRUE]
        /\ Written(w, "del", id) /\ writes' = writes + 1
    BY <1>3, Zenon DEF Notes!Delete, Notes!Offered, Notes!Publish, Written
  <2> DEFINE e == [store[w][id] EXCEPT !.deleted = TRUE]
  <2>3. e \in Entry /\ e.ver = store[w][id].ver /\ e.deleted /\ e # Notes!Absent
    <3>1. e \in Entry /\ e.ver = store[w][id].ver /\ e.deleted
      BY <1>0 DEF Entry
    <3>. QED  BY <1>0, <3>1 DEF Notes!Absent
  <2>4. store' = [store EXCEPT ![w] = [@ EXCEPT ![id] = e]]
    BY <2>1
  <2> HIDE DEF e
  <2>5. store'[w][id] = e /\ store' \in [Windows -> [Notes!Ids -> Entry]]
    BY <1>0, <2>3, <2>4
  <2>6. \A v \in Windows, j \in Notes!Ids : v # w \/ j # id => store'[v][j] = store[v][j]
    BY <1>0, <2>4
  <2>7. Wrote1(w, "del", id)
    BY <2>1, <2>3, <2>5, <2>6 DEF Wrote1
  <2>. QED  BY <2>1, <2>7
<1>. QED  BY <1>1, <1>2, <1>3

\* The entries of a window after it has drained what was pending.
LEMMA Draining ==
  ASSUME NoteTypes, NEW w \in Windows, Notes!DrainPending(w)
  PROVE  /\ store' \in [Windows -> [Notes!Ids -> Entry]] /\ pend' = [pend EXCEPT ![w] = <<>>]
         /\ \A v \in Windows \ {w} : store'[v] = store[v]
         /\ \A id \in Notes!Ids :
              /\ store'[w][id] # Notes!Absent <=> There(store[w][id], pend[w], id)
              /\ Dead(store[w][id], pend[w], id) => store'[w][id].deleted
              /\ \A v : HasVer(store[w][id], pend[w], id, v) => store'[w][id].ver = v
<1>1. store \in [Windows -> [Notes!Ids -> Entry]] /\ store[w] \in [Notes!Ids -> Entry] /\ pend[w] \in Seq(Note)
  BY DEF NoteTypes
<1>2. store' = [store EXCEPT ![w] = Drained(store[w], pend[w])] /\ pend' = [pend EXCEPT ![w] = <<>>]
  BY DEF Notes!DrainPending, Drained
<1>3. Len(pend[w]) \in 0 .. Len(pend[w])
  BY <1>1, LenProperties
<1>4. Drained(store[w], pend[w]) \in [Notes!Ids -> Entry]
  BY <1>1, <1>3, DrainHistory
<1>5. store'[w] = Drained(store[w], pend[w]) /\ store' \in [Windows -> [Notes!Ids -> Entry]]
  BY <1>1, <1>2, <1>4
<1>. QED  BY <1>1, <1>2, <1>5, DrainResult

LEMMA NoteTypesStep == NoteTypes /\ [Notes!Next]_(Notes!vars) => NoteTypes'
<1> SUFFICES ASSUME NoteTypes, [Notes!Next]_(Notes!vars) PROVE NoteTypes'
  OBVIOUS
<1>0. /\ Len(topic) \in Nat /\ topic \in Seq(Note) /\ DOMAIN topic = 1 .. Len(topic)
      /\ \A i \in 1 .. Len(topic) : topic[i] \in Note
      /\ \A w \in Windows : pend[w] \in Seq(Note) /\ outq[w] \in Seq(Note) /\ live[w] \in Nat /\ replay[w] \in Nat
  BY LenProperties DEF NoteTypes
<1>1. CASE Notes!Tick
  <2>1. clock' \in 0 .. MaxClock
    BY <1>1, NotesAssumption DEF Notes!Tick, NoteTypes
  <2>2. editing' = editing
    BY <1>1 DEF Notes!Tick, Notes!windowVars
  <2>. QED  BY <1>1, <2>1, <2>2, NoteFrames DEF NoteTypes
<1>2. ASSUME NEW o \in 1 .. Len(topic), Notes!Compact(o) PROVE NoteTypes'
  <2>1. gone' = gone \cup {o}
    BY <1>2 DEF Notes!Compact
  <2>. QED  BY <1>2, <2>1, NoteFrames DEF NoteTypes
<1>3. ASSUME NEW w \in Windows, Notes!OpenWindow(w) \/ Notes!Reinit(w) PROVE NoteTypes'
  <2>1. /\ live' = [live EXCEPT ![w] = 0] /\ replay' = [replay EXCEPT ![w] = 0]
        /\ open' = open \cup {w} \/ open' = open
    BY <1>3 DEF Notes!OpenWindow, Notes!Reinit, Notes!StartReaders, Notes!windowVars
  <2>2. /\ live' \in [Windows -> Nat] /\ replay' \in [Windows -> Nat]
        /\ \A v \in Windows : live'[v] <= Len(topic) /\ replay'[v] <= Len(topic)
    BY <1>0, <2>1 DEF NoteTypes
  <2>. QED  BY <1>3, <2>1, <2>2, NoteFrames DEF NoteTypes
<1>4. ASSUME NEW w \in Windows, Notes!CloseWindow(w) PROVE NoteTypes'
  <2>1. /\ live' = [live EXCEPT ![w] = 0] /\ replay' = [replay EXCEPT ![w] = 0]
        /\ open' = open \ {w} /\ store' = [store EXCEPT ![w] = [id \in Notes!Ids |-> Notes!Absent]]
        /\ nextSeq' = [nextSeq EXCEPT ![w] = 1] /\ editing' = [editing EXCEPT ![w] = Notes!NoId]
        /\ pend' = [pend EXCEPT ![w] = <<>>]
    BY <1>4 DEF Notes!CloseWindow
  <2>2. /\ live' \in [Windows -> Nat] /\ replay' \in [Windows -> Nat]
        /\ \A v \in Windows : live'[v] <= Len(topic) /\ replay'[v] <= Len(topic)
    BY <1>0, <2>1 DEF NoteTypes
  <2>3. [id \in Notes!Ids |-> Notes!Absent] \in [Notes!Ids -> Entry] /\ <<>> \in Seq(Note)
    BY DEF Notes!Absent, Entry
  <2>4. store' \in [Windows -> [Notes!Ids -> Entry]] /\ pend' \in [Windows -> Seq(Note)]
    BY <2>1, <2>3 DEF NoteTypes
  <2>5. nextSeq' \in [Windows -> Nat \ {0}] /\ editing' \in [Windows -> Notes!Ids \cup {Notes!NoId}]
    BY <2>1 DEF NoteTypes
  <2>. QED  BY <1>4, <2>1, <2>2, <2>4, <2>5, NoteFrames DEF NoteTypes
<1>5. ASSUME NEW w \in Windows,
             Notes!Add(w) \/ Notes!SaveEdit(w) \/ (\E id \in Notes!Ids : Notes!Delete(w, id))
      PROVE  NoteTypes'
  <2>1. PICK id \in Notes!Ids, kind \in {"ann", "del"} : Written(w, kind, id) /\ Wrote1(w, kind, id)
    BY <1>5, Writing
  <2>2. writes' = writes + 1 /\ writes \in Nat
    BY <1>5, Writing DEF NoteTypes
  <2> DEFINE r == [kind |-> kind, id |-> id, ver |-> writes + 1]
  <2>3. r \in Note
    BY <2>2 DEF Note
  <2>4. Append(outq[w], r) \in Seq(Note)
    BY <1>0, <2>3, NoteAppend
  <2>5. outq' \in [Windows -> Seq(Note)]
    <3> HIDE DEF Note
    <3>. QED  BY <2>1, <2>4 DEF NoteTypes, Written
  <2>6. nextSeq' \in [Windows -> Nat \ {0}] /\ editing' \in [Windows -> Notes!Ids \cup {Notes!NoId}]
    <3>1. CASE Notes!Add(w)
      <4>1. nextSeq' = [nextSeq EXCEPT ![w] = @ + 1] /\ editing' = editing
        BY <3>1 DEF Notes!Add
      <4>. QED  BY <4>1 DEF NoteTypes
    <3>2. CASE Notes!SaveEdit(w)
      <4>1. nextSeq' = nextSeq /\ editing' = [editing EXCEPT ![w] = Notes!NoId]
        BY <3>2 DEF Notes!SaveEdit
      <4>. QED  BY <4>1 DEF NoteTypes
    <3>3. CASE \E j \in Notes!Ids : Notes!Delete(w, j)
      <4>1. nextSeq' = nextSeq /\ editing' = editing
        BY <3>3 DEF Notes!Delete
      <4>. QED  BY <4>1 DEF NoteTypes
    <3>. QED  BY <1>5, <3>1, <3>2, <3>3
  <2>7. store' \in [Windows -> [Notes!Ids -> Entry]]
    BY <2>1 DEF Wrote1
  <2>8. UNCHANGED <<pend, topic, gone, live, replay, clock, open>>
    BY <1>5, NoteFrames
  <2>9. writes' \in Nat
    BY <2>2
  <2>. QED  BY <2>5, <2>6, <2>7, <2>8, <2>9 DEF NoteTypes
<1>6. ASSUME NEW w \in Windows, NEW id \in Notes!Ids, Notes!OpenEditor(w, id) PROVE NoteTypes'
  <2>1. editing' = [editing EXCEPT ![w] = id] /\ clock' = clock
    BY <1>6 DEF Notes!OpenEditor
  <2>. QED  BY <1>6, <2>1, NoteFrames DEF NoteTypes
<1>7. ASSUME NEW w \in Windows, Notes!Deliver(w) PROVE NoteTypes'
  <2>1. /\ outq[w] # <<>> /\ outq' = [outq EXCEPT ![w] = Tail(@)] /\ topic' = Append(topic, Head(outq[w]))
    BY <1>7 DEF Notes!Deliver
  <2>2. Tail(outq[w]) \in Seq(Note) /\ Head(outq[w]) \in Note
    BY <1>0, <2>1, NoteTail
  <2>3. topic' \in Seq(Note) /\ Len(topic') = Len(topic) + 1
    BY <1>0, <2>1, <2>2, NoteAppend
  <2>4. outq' \in [Windows -> Seq(Note)]
    BY <2>1, <2>2 DEF NoteTypes
  <2>5. gone \subseteq 1 .. Len(topic')
    BY <1>0, <2>3 DEF NoteTypes
  <2>6. \A v \in Windows : live[v] <= Len(topic') /\ replay[v] <= Len(topic')
    BY <1>0, <2>3 DEF NoteTypes
  <2>. QED  BY <1>7, <2>3, <2>4, <2>5, <2>6, NoteFrames DEF NoteTypes
<1>8. ASSUME NEW w \in Windows, Notes!Assign(w) PROVE NoteTypes'
  <2>1. live' = [live EXCEPT ![w] = 0]
    BY <1>8 DEF Notes!Assign
  <2>2. live' \in [Windows -> Nat] /\ \A v \in Windows : live'[v] <= Len(topic)
    BY <1>0, <2>1 DEF NoteTypes
  <2>. QED  BY <1>8, <2>2, NoteFrames DEF NoteTypes
<1>9. ASSUME NEW w \in Windows, NEW o \in Nat, o < Len(topic), Notes!PushFromKafka(w, o)
      PROVE  pend' \in [Windows -> Seq(Note)]
  <2>1. topic[o + 1] \in Note
    BY <1>0, <1>9
  <2>2. Append(pend[w], topic[o + 1]) \in Seq(Note)
    BY <1>0, <2>1, NoteAppend
  <2>. QED  BY <1>9, <2>2 DEF Notes!PushFromKafka, NoteTypes
<1>10. ASSUME NEW w \in Windows, Notes!LivePush(w) PROVE NoteTypes'
  <2>1. live[w] < Len(topic) /\ Notes!PushFromKafka(w, live[w]) /\ live' = [live EXCEPT ![w] = @ + 1]
    BY <1>10 DEF Notes!LivePush
  <2>2. pend' \in [Windows -> Seq(Note)]
    BY <1>0, <1>9, <2>1
  <2>3. live' \in [Windows -> Nat] /\ \A v \in Windows : live'[v] <= Len(topic)
    BY <1>0, <2>1 DEF NoteTypes
  <2>. QED  BY <1>10, <2>2, <2>3, NoteFrames DEF NoteTypes
<1>11. ASSUME NEW w \in Windows, Notes!ReplayPush(w) PROVE NoteTypes'
  <2>1. replay[w] < Len(topic) /\ Notes!PushFromKafka(w, replay[w]) /\ replay' = [replay EXCEPT ![w] = @ + 1]
    BY <1>11 DEF Notes!ReplayPush
  <2>2. pend' \in [Windows -> Seq(Note)]
    BY <1>0, <1>9, <2>1
  <2>3. replay' \in [Windows -> Nat] /\ \A v \in Windows : replay'[v] <= Len(topic)
    BY <1>0, <2>1 DEF NoteTypes
  <2>. QED  BY <1>11, <2>2, <2>3, NoteFrames DEF NoteTypes
<1>12. ASSUME NEW w \in Windows, Notes!ReplayEnd(w) PROVE NoteTypes'
  <2>1. replay' = [replay EXCEPT ![w] = Len(topic)]
    BY <1>12 DEF Notes!ReplayEnd
  <2>2. replay' \in [Windows -> Nat] /\ \A v \in Windows : replay'[v] <= Len(topic)
    BY <1>0, <2>1 DEF NoteTypes
  <2>. QED  BY <1>12, <2>2, NoteFrames DEF NoteTypes
<1>13. ASSUME NEW w \in Windows, Notes!DrainPending(w) PROVE NoteTypes'
  <2>1. store' \in [Windows -> [Notes!Ids -> Entry]] /\ pend' = [pend EXCEPT ![w] = <<>>]
    BY <1>13, Draining
  <2>2. pend' \in [Windows -> Seq(Note)]
    <3>1. <<>> \in Seq(Note)
      OBVIOUS
    <3>. QED  BY <2>1, <3>1 DEF NoteTypes
  <2>. QED  BY <1>13, <2>1, <2>2, NoteFrames DEF NoteTypes
<1>14. CASE UNCHANGED Notes!vars
  BY <1>14, NoteFrames DEF NoteTypes
<1>. QED  BY <1>1, <1>2, <1>3, <1>4, <1>5, <1>6, <1>7, <1>8, <1>10, <1>11, <1>12, <1>13, <1>14, Zenon DEF Notes!Next

-----------------------------------------------------------------------------
(* Sequences of records, as the invariants see them.                       *)

IsAnn(r, id) == r.kind = "ann" /\ r.id = id
IsDel(r, id) == r.kind = "del" /\ r.id = id

LEMMA AppendedNote ==
  ASSUME NEW q \in Seq(Note), NEW r \in Note, NEW id
  PROVE  /\ \A n \in Nat : Ann(Append(q, r), n, id) <=> Ann(q, n, id) \/ (n = Len(q) + 1 /\ IsAnn(r, id))
         /\ \A n \in Nat : Del(Append(q, r), n, id) <=> Del(q, n, id) \/ (n = Len(q) + 1 /\ IsDel(r, id))
         /\ \A n \in Nat : Ann(q, n, id) \/ Del(q, n, id) => n <= Len(q) /\ Append(q, r)[n] = q[n]
         /\ HasAnn(Append(q, r), id) <=> HasAnn(q, id) \/ IsAnn(r, id)
<1> DEFINE q1 == Append(q, r)
<1>1. /\ Len(q) \in Nat /\ DOMAIN q = 1 .. Len(q) /\ DOMAIN q1 = 1 .. Len(q) + 1
      /\ \A i \in 1 .. Len(q) : q1[i] = q[i]
      /\ q1[Len(q) + 1] = r
  BY NoteAppend
<1> HIDE DEF q1
<1>2. \A n \in Nat : Ann(q1, n, id) <=> Ann(q, n, id) \/ (n = Len(q) + 1 /\ IsAnn(r, id))
  BY <1>1 DEF Ann, IsAnn
<1>3. \A n \in Nat : Del(q1, n, id) <=> Del(q, n, id) \/ (n = Len(q) + 1 /\ IsDel(r, id))
  BY <1>1 DEF Del, IsDel
<1>4. \A n \in Nat : Ann(q, n, id) \/ Del(q, n, id) => n <= Len(q) /\ q1[n] = q[n]
  BY <1>1 DEF Del, Ann
<1>5. HasAnn(q1, id) <=> HasAnn(q, id) \/ IsAnn(r, id)
  <2>1. Len(q) + 1 \in Nat
    BY <1>1
  <2>. QED  BY <1>2, <2>1 DEF HasAnn
<1>. QED  BY <1>2, <1>3, <1>4, <1>5 DEF q1

LEMMA DeliveredNote ==
  ASSUME NEW q \in Seq(Note), q # <<>>, NEW id
  PROVE  /\ \A n \in Nat : Ann(Tail(q), n, id) <=> n # 0 /\ Ann(q, n + 1, id)
         /\ \A n \in Nat : Del(Tail(q), n, id) <=> n # 0 /\ Del(q, n + 1, id)
         /\ Ann(q, 1, id) <=> IsAnn(Head(q), id)
         /\ Del(q, 1, id) <=> IsDel(Head(q), id)
         /\ ~Ann(q, 0, id)
         /\ HasAnn(q, id) <=> HasAnn(Tail(q), id) \/ IsAnn(Head(q), id)
<1> DEFINE t == Tail(q)
           h == Head(q)
<1>1. /\ Len(q) \in Nat \ {0} /\ DOMAIN q = 1 .. Len(q) /\ DOMAIN t = 1 .. Len(q) - 1
      /\ \A i \in 1 .. Len(q) - 1 : t[i] = q[i + 1]
      /\ h = q[1]
  BY NoteTail
<1> HIDE DEF t, h
<1>2. \A n \in Nat : Ann(t, n, id) <=> n # 0 /\ Ann(q, n + 1, id)
  BY <1>1 DEF Ann
<1>3. \A n \in Nat : Del(t, n, id) <=> n # 0 /\ Del(q, n + 1, id)
  BY <1>1 DEF Del
<1>4. (Ann(q, 1, id) <=> IsAnn(h, id)) /\ (Del(q, 1, id) <=> IsDel(h, id)) /\ ~Ann(q, 0, id)
  BY <1>1 DEF Ann, Del, IsAnn, IsDel
<1>5. HasAnn(q, id) <=> HasAnn(t, id) \/ IsAnn(h, id)
  <2>1. ASSUME HasAnn(q, id), ~IsAnn(h, id) PROVE HasAnn(t, id)
    <3>1. PICK n \in Nat : Ann(q, n, id)
      BY <2>1 DEF HasAnn
    <3>2. n # 0 /\ n # 1
      BY <1>4, <2>1, <3>1
    <3>3. n - 1 \in Nat /\ n - 1 # 0 /\ (n - 1) + 1 = n
      BY <3>2
    <3>. QED  BY <1>2, <3>1, <3>3 DEF HasAnn
  <2>2. HasAnn(t, id) => HasAnn(q, id)
    BY <1>2 DEF HasAnn
  <2>3. IsAnn(h, id) => HasAnn(q, id)
    BY <1>4 DEF HasAnn
  <2>. QED  BY <2>1, <2>2, <2>3
<1>. QED  BY <1>2, <1>3, <1>4, <1>5 DEF t, h

\* A window with nothing pending, and a window that is given one more record.
LEMMA NothingPending ==
  ASSUME NEW e, NEW id
  PROVE  /\ ~HasAnn(<<>>, id) /\ (There(e, <<>>, id) <=> e # Notes!Absent) /\ (e.deleted => Dead(e, <<>>, id)) /\ (Dead(e, <<>>, id) => e.deleted)
         /\ \A v : HasVer(e, <<>>, id, v) <=> e.ver = v
<1>1. \A n \in Nat : ~Ann(<<>>, n, id) /\ ~Del(<<>>, n, id)
  BY DEF Ann, Del
<1>. QED  BY <1>1 DEF HasAnn, There, Dead, HasVer

LEMMA OneMorePending ==
  ASSUME NEW e, NEW q \in Seq(Note), NEW r \in Note, NEW id
  PROVE  /\ There(e, Append(q, r), id) <=> There(e, q, id) \/ IsAnn(r, id)
         /\ Dead(e, q, id) => Dead(e, Append(q, r), id)
         /\ There(e, q, id) /\ IsDel(r, id) => Dead(e, Append(q, r), id)
         /\ \A v : HasVer(e, q, id, v) /\ ~IsAnn(r, id) => HasVer(e, Append(q, r), id, v)
         /\ IsAnn(r, id) => HasVer(e, Append(q, r), id, r.ver)
<1> DEFINE q1 == Append(q, r)
<1>1. /\ \A n \in Nat : Ann(q1, n, id) <=> Ann(q, n, id) \/ (n = Len(q) + 1 /\ IsAnn(r, id))
      /\ \A n \in Nat : Del(q1, n, id) <=> Del(q, n, id) \/ (n = Len(q) + 1 /\ IsDel(r, id))
      /\ \A n \in Nat : Ann(q, n, id) \/ Del(q, n, id) => n <= Len(q) /\ q1[n] = q[n]
      /\ HasAnn(q1, id) <=> HasAnn(q, id) \/ IsAnn(r, id)
  BY AppendedNote
<1>2. Len(q) \in Nat /\ Len(q) + 1 \in Nat /\ q1[Len(q) + 1] = r
  BY NoteAppend
<1> HIDE DEF q1
<1>3. There(e, q1, id) <=> There(e, q, id) \/ IsAnn(r, id)
  BY <1>1 DEF There
<1>4. Dead(e, q, id) => Dead(e, q1, id)
  BY <1>1 DEF Dead
<1>5. There(e, q, id) /\ IsDel(r, id) => Dead(e, q1, id)
  <2> SUFFICES ASSUME There(e, q, id), IsDel(r, id) PROVE Dead(e, q1, id)
    OBVIOUS
  <2>1. Del(q1, Len(q) + 1, id)
    BY <1>1, <1>2
  <2>2. e # Notes!Absent \/ \E k \in Nat : k < Len(q) + 1 /\ Ann(q1, k, id)
    <3>1. CASE HasAnn(q, id)
      <4>1. PICK k \in Nat : Ann(q, k, id)
        BY <3>1 DEF HasAnn
      <4>2. k < Len(q) + 1 /\ Ann(q1, k, id)
        BY <1>1, <1>2, <4>1
      <4>. QED  BY <4>2
    <3>. QED  BY <3>1 DEF There
  <2>. QED  BY <1>2, <2>1, <2>2 DEF Dead
<1>6. ASSUME NEW v, HasVer(e, q, id, v), ~IsAnn(r, id) PROVE HasVer(e, q1, id, v)
  BY <1>1, <1>6 DEF HasVer
<1>7. IsAnn(r, id) => HasVer(e, q1, id, r.ver)
  <2> SUFFICES ASSUME IsAnn(r, id) PROVE HasVer(e, q1, id, r.ver)
    OBVIOUS
  <2>1. Ann(q1, Len(q) + 1, id) /\ q1[Len(q) + 1].ver = r.ver
    BY <1>1, <1>2
  <2>2. \A k \in Nat : k > Len(q) + 1 => ~Ann(q1, k, id)
    BY <1>1, <1>2
  <2>. QED  BY <1>2, <2>1, <2>2 DEF HasVer
<1>. QED  BY <1>3, <1>4, <1>5, <1>6, <1>7 DEF q1

\* A window that has changed an annotation itself.
LEMMA OwnChange ==
  ASSUME NEW e, NEW e1, NEW q, NEW id, e1 # Notes!Absent, e.deleted => e1.deleted
  PROVE  /\ There(e1, q, id)
         /\ Dead(e, q, id) => Dead(e1, q, id)
         /\ \A v : e1.ver = e.ver /\ HasVer(e, q, id, v) => HasVer(e1, q, id, v)
  BY DEF There, Dead, HasVer

-----------------------------------------------------------------------------
(* What one step does to what the invariants compare.                      *)

\* The topic only grows, and so does what compaction has removed; a live
\* consumer goes on by one record or starts again.
LEMMA TopicSteps ==
  ASSUME NoteTypes, [Notes!Next]_(Notes!vars)
  PROVE  /\ \A id : \A n \in Nat : (Ann(topic, n, id) => Ann(topic', n, id)) /\ (Del(topic, n, id) => Del(topic', n, id))
         /\ \A id : \A n \in Nat : n <= Len(topic) =>
              (Ann(topic', n, id) => Ann(topic, n, id)) /\ (Del(topic', n, id) => Del(topic, n, id))
         /\ \A n \in DOMAIN topic : n \in DOMAIN topic' /\ topic'[n] = topic[n]
         /\ gone \subseteq gone'
         /\ \A w \in Windows : live'[w] <= live[w] \/ (Notes!LivePush(w) /\ live'[w] = live[w] + 1)
         /\ \A w \in Windows, id \in Notes!Ids : HasAnn(outq[w], id) =>
              HasAnn(outq'[w], id) \/ \E n \in Nat : n > Len(topic) /\ Ann(topic', n, id)
<1>0. /\ Len(topic) \in Nat /\ topic \in Seq(Note) /\ DOMAIN topic = 1 .. Len(topic)
      /\ \A w \in Windows : live[w] \in Nat /\ outq[w] \in Seq(Note)
  BY LenProperties DEF NoteTypes
<1> DEFINE SameTopic == topic' = topic
           Goal1 == /\ \A id : \A n \in Nat : (Ann(topic, n, id) => Ann(topic', n, id)) /\ (Del(topic, n, id) => Del(topic', n, id))
                    /\ \A id : \A n \in Nat : n <= Len(topic) =>
                         (Ann(topic', n, id) => Ann(topic, n, id)) /\ (Del(topic', n, id) => Del(topic, n, id))
                    /\ \A n \in DOMAIN topic : n \in DOMAIN topic' /\ topic'[n] = topic[n]
           Goal2(w) == live'[w] <= live[w] \/ (Notes!LivePush(w) /\ live'[w] = live[w] + 1)
           Goal3(w, id) == HasAnn(outq[w], id) =>
                             HasAnn(outq'[w], id) \/ \E n \in Nat : n > Len(topic) /\ Ann(topic', n, id)
<1>1. SameTopic => Goal1
  OBVIOUS
<1>2. live' = live => \A w \in Windows : Goal2(w)
  BY <1>0
<1>3. outq' = outq => \A w \in Windows, id \in Notes!Ids : Goal3(w, id)
  OBVIOUS
<1> DEFINE Goal == Goal1 /\ gone \subseteq gone' /\ (\A w \in Windows : Goal2(w)) /\ (\A w \in Windows, id \in Notes!Ids : Goal3(w, id))
<1>4. ASSUME UNCHANGED <<topic, gone, live, outq>> PROVE Goal
  <2> HIDE DEF Goal1, Goal2, Goal3
  <2>. QED  BY <1>1, <1>2, <1>3, <1>4
<1>5. ASSUME NEW o \in 1 .. Len(topic), Notes!Compact(o) PROVE Goal
  <2>1. gone' = gone \cup {o} /\ UNCHANGED <<topic, live, outq>>
    BY <1>5, NoteFrames DEF Notes!Compact
  <2> HIDE DEF Goal1, Goal2, Goal3
  <2>. QED  BY <1>1, <1>2, <1>3, <2>1
<1>6. ASSUME NEW w \in Windows, Notes!OpenWindow(w) \/ Notes!Reinit(w) \/ Notes!CloseWindow(w) \/ Notes!Assign(w)
      PROVE  Goal
  <2>1. UNCHANGED <<topic, gone, outq>>
    BY <1>6, NoteFrames
  <2>2. live' = [live EXCEPT ![w] = 0]
    BY <1>6 DEF Notes!OpenWindow, Notes!Reinit, Notes!CloseWindow, Notes!Assign, Notes!StartReaders
  <2>3. \A v \in Windows : Goal2(v)
    BY <1>0, <2>2 DEF NoteTypes
  <2> HIDE DEF Goal1, Goal2, Goal3
  <2>. QED  BY <1>1, <1>3, <2>1, <2>3
<1>7. ASSUME NEW w \in Windows,
             Notes!Add(w) \/ Notes!SaveEdit(w) \/ (\E id \in Notes!Ids : Notes!Delete(w, id))
      PROVE  Goal
  <2>1. UNCHANGED <<topic, gone, live>>
    BY <1>7, NoteFrames
  <2>2. PICK j \in Notes!Ids, kind \in {"ann", "del"} : Written(w, kind, j)
    BY <1>7, Writing
  <2> DEFINE r == [kind |-> kind, id |-> j, ver |-> writes + 1]
  <2>3. outq' = [outq EXCEPT ![w] = Append(@, r)] /\ r \in Note
    BY <2>2 DEF Written, NoteTypes, Note
  <2> HIDE DEF r
  <2>4. ASSUME NEW v \in Windows, NEW id \in Notes!Ids, HasAnn(outq[v], id) PROVE HasAnn(outq'[v], id)
    <3>1. CASE v = w
      <4>1. outq'[v] = Append(outq[v], r)
        BY <2>3, <3>1 DEF NoteTypes
      <4>. QED  BY <1>0, <2>3, <2>4, <4>1, AppendedNote
    <3>2. CASE v # w
      BY <2>3, <2>4, <3>2 DEF NoteTypes
    <3>. QED  BY <3>1, <3>2
  <2>5. \A v \in Windows, id \in Notes!Ids : Goal3(v, id)
    BY <2>4
  <2> HIDE DEF Goal1, Goal2, Goal3
  <2>. QED  BY <1>1, <1>2, <2>1, <2>5
<1>8. ASSUME NEW w \in Windows, Notes!Deliver(w) PROVE Goal
  <2>1. /\ outq[w] # <<>> /\ outq' = [outq EXCEPT ![w] = Tail(@)] /\ topic' = Append(topic, Head(outq[w]))
    BY <1>8 DEF Notes!Deliver
  <2>2. UNCHANGED <<gone, live>>
    BY <1>8, NoteFrames
  <2>3. Head(outq[w]) \in Note
    BY <1>0, <2>1, NoteTail
  <2> DEFINE r == Head(outq[w])
  <2>4. /\ \A id : \A n \in Nat : Ann(topic', n, id) <=> Ann(topic, n, id) \/ (n = Len(topic) + 1 /\ IsAnn(r, id))
        /\ \A id : \A n \in Nat : Del(topic', n, id) <=> Del(topic, n, id) \/ (n = Len(topic) + 1 /\ IsDel(r, id))
    <3>1. ASSUME NEW id, NEW n \in Nat
          PROVE  /\ Ann(topic', n, id) <=> Ann(topic, n, id) \/ (n = Len(topic) + 1 /\ IsAnn(r, id))
                 /\ Del(topic', n, id) <=> Del(topic, n, id) \/ (n = Len(topic) + 1 /\ IsDel(r, id))
      <4> HIDE DEF r
      <4>. QED  BY <1>0, <2>1, <2>3, AppendedNote DEF r
    <3>. QED  BY <3>1
  <2>5. \A n \in DOMAIN topic : n \in DOMAIN topic' /\ topic'[n] = topic[n]
    <3> HIDE DEF r
    <3>1. /\ DOMAIN topic' = 1 .. Len(topic) + 1
          /\ \A i \in 1 .. Len(topic) : topic'[i] = topic[i]
      BY <1>0, <2>1, <2>3, NoteAppend
    <3>. QED  BY <1>0, <3>1
  <2>6. Goal1
    <3> HIDE DEF r
    <3>. QED  BY <1>0, <2>4, <2>5
  <2>7. ASSUME NEW v \in Windows, NEW id \in Notes!Ids, HasAnn(outq[v], id)
        PROVE  HasAnn(outq'[v], id) \/ \E n \in Nat : n > Len(topic) /\ Ann(topic', n, id)
    <3>1. CASE v # w
      BY <2>1, <2>7, <3>1 DEF NoteTypes
    <3>2. CASE v = w
      <4>1. outq'[v] = Tail(outq[v]) /\ r = Head(outq[v])
        BY <2>1, <3>2 DEF NoteTypes
      <4>2. HasAnn(outq'[v], id) \/ IsAnn(r, id)
        BY <1>0, <2>1, <2>7, <3>2, <4>1, DeliveredNote
      <4>3. IsAnn(r, id) => Ann(topic', Len(topic) + 1, id) /\ Len(topic) + 1 \in Nat /\ Len(topic) + 1 > Len(topic)
        <5> HIDE DEF r
        <5>. QED  BY <1>0, <2>4
      <4>. QED  BY <4>2, <4>3
    <3>. QED  BY <3>1, <3>2
  <2>8. \A v \in Windows, id \in Notes!Ids : Goal3(v, id)
    BY <2>7
  <2> HIDE DEF Goal1, Goal2, Goal3
  <2>. QED  BY <1>2, <2>2, <2>6, <2>8
<1>9. ASSUME NEW w \in Windows, Notes!LivePush(w) PROVE Goal
  <2>1. live' = [live EXCEPT ![w] = @ + 1]
    BY <1>9 DEF Notes!LivePush
  <2>2. \A v \in Windows : Goal2(v)
    BY <1>0, <1>9, <2>1 DEF NoteTypes
  <2>3. UNCHANGED <<topic, outq, gone>>
    BY <1>9, NoteFrames
  <2> HIDE DEF Goal1, Goal2, Goal3
  <2>. QED  BY <1>1, <1>3, <2>2, <2>3
<1>10. ASSUME \/ Notes!Tick \/ \E w \in Windows : \/ \E id \in Notes!Ids : Notes!OpenEditor(w, id)
                                                  \/ Notes!ReplayPush(w) \/ Notes!ReplayEnd(w) \/ Notes!DrainPending(w)
              \/ UNCHANGED Notes!vars
       PROVE  UNCHANGED <<topic, gone, live, outq>>
  BY <1>10, NoteFrames
<1>11. Goal
  <2> HIDE DEF Goal
  <2>. QED  BY <1>4, <1>5, <1>6, <1>7, <1>8, <1>9, <1>10, Zenon DEF Notes!Next
<1>. QED  BY <1>11

\* What a reader pushes: the record after its offset, unless that is gone.
LEMMA Pushing ==
  ASSUME NoteTypes, NEW w \in Windows, NEW o \in Nat, o < Len(topic), Notes!PushFromKafka(w, o)
  PROVE  /\ o + 1 \in gone => pend' = pend
         /\ o + 1 \notin gone => pend'[w] = Append(pend[w], topic[o + 1])
         /\ \A v \in Windows \ {w} : pend'[v] = pend[v]
         /\ topic[o + 1] \in Note /\ pend[w] \in Seq(Note) /\ o + 1 \in DOMAIN topic
         /\ \A id : (IsAnn(topic[o + 1], id) <=> Ann(topic, o + 1, id)) /\ (IsDel(topic[o + 1], id) <=> Del(topic, o + 1, id))
<1>1. Len(topic) \in Nat /\ topic \in Seq(Note) /\ DOMAIN topic = 1 .. Len(topic) /\ pend[w] \in Seq(Note)
  BY LenProperties DEF NoteTypes
<1>2. o + 1 \in DOMAIN topic
  BY <1>1
<1>3. topic[o + 1] \in Note
  BY <1>1, <1>2
<1>. QED  BY <1>1, <1>2, <1>3 DEF Notes!PushFromKafka, NoteTypes, IsAnn, IsDel, Ann, Del

\* A window that is not closed keeps what it has, the pending records
\* included: an annotation stays there, and stays deleted. A new one comes from
\* a record that is not gone, or is its own and on its way.
Kept(w, id) ==
  /\ There(store[w][id], pend[w], id) => There(store'[w][id], pend'[w], id)
  /\ Dead(store[w][id], pend[w], id) => Dead(store'[w][id], pend'[w], id)
  /\ There(store'[w][id], pend'[w], id) =>
       \/ There(store[w][id], pend[w], id)
       \/ \E a \in Nat : Ann(topic, a, id) /\ a \notin gone
       \/ HasAnn(outq'[w], id)
  /\ store[w][id].deleted => store'[w][id].deleted

LEMMA NoteKept ==
  ASSUME NoteTypes, [Notes!Next]_(Notes!vars), NEW w \in Windows, ~Notes!CloseWindow(w), NEW id \in Notes!Ids
  PROVE  Kept(w, id)
<1>0. pend[w] \in Seq(Note) /\ outq[w] \in Seq(Note)
  BY DEF NoteTypes
<1>1. CASE store'[w] = store[w] /\ pend'[w] = pend[w]
  BY <1>1 DEF Kept
<1>2. ASSUME NEW v \in Windows, Notes!CloseWindow(v) PROVE store'[w] = store[w] /\ pend'[w] = pend[w]
  <2>1. store' = [store EXCEPT ![v] = [j \in Notes!Ids |-> Notes!Absent]] /\ pend' = [pend EXCEPT ![v] = <<>>]
    BY <1>2 DEF Notes!CloseWindow
  <2>2. v # w
    BY <1>2
  <2>. QED  BY <2>1, <2>2 DEF NoteTypes
<1>3. ASSUME NEW v \in Windows,
             Notes!Add(v) \/ Notes!SaveEdit(v) \/ (\E j \in Notes!Ids : Notes!Delete(v, j))
      PROVE  Kept(w, id)
  <2>1. pend' = pend
    BY <1>3, NoteFrames
  <2>2. PICK j \in Notes!Ids, kind \in {"ann", "del"} : Written(v, kind, j) /\ Wrote1(v, kind, j)
    BY <1>3, Writing
  <2>3. CASE v # w \/ j # id
    <3>1. store'[w][id] = store[w][id]
      BY <2>2, <2>3 DEF Wrote1
    <3>. QED  BY <2>1, <3>1 DEF Kept
  <2>4. CASE v = w /\ j = id
    <3>1. store'[w][id] # Notes!Absent /\ (store[w][id].deleted => store'[w][id].deleted)
      BY <2>2, <2>4 DEF Wrote1
    <3>2. There(store'[w][id], pend[w], id) /\ (Dead(store[w][id], pend[w], id) => Dead(store'[w][id], pend[w], id))
      BY <3>1, OwnChange
    <3>3. kind = "del" => There(store[w][id], pend[w], id)
      BY <2>2, <2>4 DEF Wrote1, There
    <3>4. kind = "ann" => HasAnn(outq'[w], id)
      <4> SUFFICES ASSUME kind = "ann" PROVE HasAnn(outq'[w], id)
        OBVIOUS
      <4> DEFINE r == [kind |-> kind, id |-> id, ver |-> writes + 1]
      <4>1. outq' = [outq EXCEPT ![w] = Append(@, r)] /\ r \in Note /\ IsAnn(r, id)
        BY <2>2, <2>4 DEF Written, NoteTypes, Note, IsAnn
      <4> HIDE DEF r
      <4>2. outq'[w] = Append(outq[w], r)
        BY <4>1 DEF NoteTypes
      <4>. QED  BY <1>0, <4>1, <4>2, AppendedNote
    <3>. QED  BY <2>1, <2>2, <3>1, <3>2, <3>3, <3>4 DEF Kept
  <2>. QED  BY <2>3, <2>4
<1>4. ASSUME NEW v \in Windows, NEW o \in Nat, o < Len(topic), Notes!PushFromKafka(v, o), UNCHANGED <<store, topic, gone>>
      PROVE  Kept(w, id)
  <2>1. CASE v # w \/ o + 1 \in gone
    <3>1. pend'[w] = pend[w]
      BY <1>4, <2>1, Pushing
    <3>. QED  BY <1>1, <1>4, <3>1
  <2>2. CASE v = w /\ o + 1 \notin gone
    <3> DEFINE r == topic[o + 1]
    <3>1. pend'[w] = Append(pend[w], r) /\ r \in Note /\ (IsAnn(r, id) <=> Ann(topic, o + 1, id))
      BY <1>4, <2>2, Pushing
    <3> HIDE DEF r
    <3>2. \A e : /\ There(e, Append(pend[w], r), id) <=> There(e, pend[w], id) \/ IsAnn(r, id)
                 /\ Dead(e, pend[w], id) => Dead(e, Append(pend[w], r), id)
      BY <1>0, <3>1, OneMorePending
    <3>3. o + 1 \in Nat
      OBVIOUS
    <3>. QED  BY <1>4, <2>2, <3>1, <3>2, <3>3 DEF Kept
  <2>. QED  BY <2>1, <2>2
<1>5. ASSUME NEW v \in Windows, Notes!LivePush(v) \/ Notes!ReplayPush(v) PROVE Kept(w, id)
  <2>1. UNCHANGED <<store, topic, gone>>
    BY <1>5, NoteFrames
  <2>2. CASE Notes!LivePush(v)
    <3>1. live[v] \in Nat /\ live[v] < Len(topic) /\ Notes!PushFromKafka(v, live[v])
      BY <2>2 DEF Notes!LivePush, NoteTypes
    <3>. QED  BY <1>4, <2>1, <3>1
  <2>3. CASE Notes!ReplayPush(v)
    <3>1. replay[v] \in Nat /\ replay[v] < Len(topic) /\ Notes!PushFromKafka(v, replay[v])
      BY <2>3 DEF Notes!ReplayPush, NoteTypes
    <3>. QED  BY <1>4, <2>1, <3>1
  <2>. QED  BY <1>5, <2>2, <2>3
<1>6. ASSUME NEW v \in Windows, Notes!DrainPending(v) PROVE Kept(w, id)
  <2>1. CASE v # w
    <3>1. store'[w] = store[w] /\ pend'[w] = pend[w]
      BY <1>6, <2>1, Draining DEF NoteTypes
    <3>. QED  BY <1>1, <3>1
  <2>2. CASE v = w
    <3>1. pend'[w] = <<>>
      BY <1>6, <2>2, Draining DEF NoteTypes
    <3>2. /\ store'[w][id] # Notes!Absent <=> There(store[w][id], pend[w], id)
          /\ Dead(store[w][id], pend[w], id) => store'[w][id].deleted
      BY <1>6, <2>2, Draining
    <3>3. store[w][id].deleted => Dead(store[w][id], pend[w], id)
      BY DEF Dead
    <3>. QED  BY <3>1, <3>2, <3>3, NothingPending DEF Kept
  <2>. QED  BY <2>1, <2>2
<1>7. ASSUME \/ Notes!Tick \/ \E v \in Windows : \/ \E j \in Notes!Ids : Notes!OpenEditor(v, j)
                                                 \/ Notes!OpenWindow(v) \/ Notes!Reinit(v) \/ Notes!Deliver(v)
                                                 \/ Notes!Assign(v) \/ Notes!ReplayEnd(v)
             \/ (\E o \in 1 .. Len(topic) : Notes!Compact(o)) \/ UNCHANGED Notes!vars
      PROVE  store'[w] = store[w] /\ pend'[w] = pend[w]
  BY <1>7, NoteFrames
<1>. QED  BY <1>1, <1>2, <1>3, <1>5, <1>6, <1>7, Zenon DEF Notes!Next

-----------------------------------------------------------------------------
(* The invariants of the annotations.                                      *)

LEMMA NoteInvInit == Notes!Init => NoteInv
<1> SUFFICES ASSUME Notes!Init PROVE NoteInv
  OBVIOUS
<1>1. \A id : ~HasAnn(<<>>, id) /\ \A n \in Nat : ~Ann(<<>>, n, id) /\ ~Del(<<>>, n, id)
  BY DEF HasAnn, Ann, Del
<1>2. topic = <<>> /\ gone = {} /\ \A w \in Windows : pend[w] = <<>> /\ outq[w] = <<>> /\ live[w] = 0
  BY DEF Notes!Init
<1>3. \A w \in Windows, id \in Notes!Ids : store[w][id] = Notes!Absent
  BY DEF Notes!Init
<1>4. AnnFirst
  BY <1>1, <1>2, <1>3 DEF AnnFirst
<1>5. GoneInv
  BY <1>2 DEF GoneInv
<1>6. AnnSeen /\ DelSeen /\ VerSeen
  BY <1>1, <1>2 DEF AnnSeen, DelSeen, VerSeen
<1>. QED  BY <1>4, <1>5, <1>6 DEF NoteInv

LEMMA GoneInvStep == NoteTypes /\ GoneInv /\ [Notes!Next]_(Notes!vars) => GoneInv'
<1> SUFFICES ASSUME NoteTypes, GoneInv, [Notes!Next]_(Notes!vars), NEW o \in gone'
             PROVE  \E n \in Nat : n > o /\ n \in DOMAIN topic' /\ topic'[n].id = topic'[o].id
  BY DEF GoneInv
<1>0. /\ Len(topic) \in Nat /\ topic \in Seq(Note) /\ DOMAIN topic = 1 .. Len(topic)
      /\ \A n \in DOMAIN topic : n \in DOMAIN topic' /\ topic'[n] = topic[n]
  BY LenProperties, TopicSteps DEF NoteTypes
<1>1. o \in DOMAIN topic /\ \E n \in Nat : n > o /\ n \in DOMAIN topic /\ topic[n].id = topic[o].id
  <2>1. CASE o \in gone
    BY <1>0, <2>1 DEF GoneInv, NoteTypes
  <2>2. ASSUME NEW c \in 1 .. Len(topic), Notes!Compact(c), o \notin gone
        PROVE  o \in DOMAIN topic /\ \E n \in Nat : n > o /\ n \in DOMAIN topic /\ topic[n].id = topic[o].id
    <3>1. o = c
      BY <2>2 DEF Notes!Compact
    <3>2. PICK n \in o + 1 .. Len(topic) : topic[n].id = topic[o].id
      BY <2>2, <3>1 DEF Notes!Compact
    <3>3. n \in Nat /\ n > o /\ n \in DOMAIN topic
      BY <1>0, <3>1, <3>2
    <3>. QED  BY <1>0, <3>1, <3>2, <3>3
  <2>3. ASSUME ~\E c \in 1 .. Len(topic) : Notes!Compact(c) PROVE gone' = gone
    BY <2>3, NoteFrames, Zenon DEF Notes!Next
  <2>. QED  BY <2>1, <2>2, <2>3
<1>. QED  BY <1>0, <1>1

LEMMA AnnSeenStep == NoteTypes /\ AnnSeen /\ [Notes!Next]_(Notes!vars) => AnnSeen'
<1> SUFFICES ASSUME NoteTypes, AnnSeen, [Notes!Next]_(Notes!vars),
                    NEW w \in Windows, NEW id \in Notes!Ids, NEW a \in Nat,
                    a <= live'[w], Ann(topic', a, id), a \notin gone'
             PROVE  There(store'[w][id], pend'[w], id)
  BY DEF AnnSeen
<1>0. /\ live[w] \in Nat /\ live[w] <= Len(topic) /\ Len(topic) \in Nat /\ topic' \in Seq(Note)
      /\ pend[w] \in Seq(Note) /\ live'[w] \in Nat
  BY LenProperties, NoteTypesStep DEF NoteTypes
<1>1. ~Notes!CloseWindow(w)
  <2> SUFFICES ASSUME Notes!CloseWindow(w) PROVE FALSE
    OBVIOUS
  <2>1. live'[w] = 0
    BY DEF Notes!CloseWindow, NoteTypes
  <2>2. a \in 1 .. Len(topic')
    BY <1>0, LenProperties DEF Ann
  <2>. QED  BY <2>1, <2>2
<1>2. CASE a <= live[w]
  <2>1. Ann(topic, a, id) /\ a \notin gone
    BY <1>0, <1>2, TopicSteps
  <2>2. There(store[w][id], pend[w], id)
    BY <1>2, <2>1 DEF AnnSeen
  <2>. QED  BY <1>1, <2>2, NoteKept DEF Kept
<1>3. CASE ~(a <= live[w])
  <2>1. Notes!LivePush(w) /\ a = live[w] + 1
    BY <1>0, <1>3, TopicSteps
  <2>2. live[w] < Len(topic) /\ Notes!PushFromKafka(w, live[w]) /\ UNCHANGED <<store, topic, gone>>
    BY <2>1, NoteFrames DEF Notes!LivePush
  <2>3. pend'[w] = Append(pend[w], topic[a]) /\ topic[a] \in Note /\ IsAnn(topic[a], id)
    BY <1>0, <2>1, <2>2, Pushing
  <2>. QED  BY <1>0, <2>2, <2>3, OneMorePending
<1>. QED  BY <1>2, <1>3

LEMMA DelSeenStep == NoteTypes /\ AnnSeen /\ DelSeen /\ [Notes!Next]_(Notes!vars) => DelSeen'
<1> SUFFICES ASSUME NoteTypes, AnnSeen, DelSeen, [Notes!Next]_(Notes!vars),
                    NEW w \in Windows, NEW id \in Notes!Ids, NEW d \in Nat,
                    d <= live'[w], Del(topic', d, id), d \notin gone', ~Dead(store'[w][id], pend'[w], id)
             PROVE  /\ \A a \in Nat : a < d /\ Ann(topic', a, id) => a \in gone'
                    /\ \/ ~There(store'[w][id], pend'[w], id)
                       \/ \E a \in Nat : a > d /\ Ann(topic', a, id)
                       \/ HasAnn(outq'[w], id)
  BY DEF DelSeen
<1>0. /\ live[w] \in Nat /\ live[w] <= Len(topic) /\ Len(topic) \in Nat /\ topic' \in Seq(Note)
      /\ pend[w] \in Seq(Note) /\ live'[w] \in Nat
  BY LenProperties, NoteTypesStep DEF NoteTypes
<1>1. ~Notes!CloseWindow(w)
  <2> SUFFICES ASSUME Notes!CloseWindow(w) PROVE FALSE
    OBVIOUS
  <2>1. live'[w] = 0
    BY DEF Notes!CloseWindow, NoteTypes
  <2>2. d \in 1 .. Len(topic')
    BY <1>0, LenProperties DEF Del
  <2>. QED  BY <2>1, <2>2
<1>2. CASE d <= live[w]
  <2>1. Del(topic, d, id) /\ d \notin gone
    BY <1>0, <1>2, TopicSteps
  <2>2. ~Dead(store[w][id], pend[w], id)
    BY <1>1, NoteKept DEF Kept
  <2>3. /\ \A a \in Nat : a < d /\ Ann(topic, a, id) => a \in gone
        /\ \/ ~There(store[w][id], pend[w], id)
           \/ \E a \in Nat : a > d /\ Ann(topic, a, id)
           \/ HasAnn(outq[w], id)
    BY <1>2, <2>1, <2>2 DEF DelSeen
  <2>4. \A a \in Nat : a < d /\ Ann(topic', a, id) => a \in gone'
    BY <1>0, <1>2, <2>3, TopicSteps
  <2>5. CASE \E a \in Nat : a > d /\ Ann(topic, a, id)
    BY <2>4, <2>5, TopicSteps
  <2>6. CASE HasAnn(outq[w], id)
    <3>1. CASE HasAnn(outq'[w], id)
      BY <2>4, <3>1
    <3>2. CASE ~HasAnn(outq'[w], id)
      <4>1. PICK n \in Nat : n > Len(topic) /\ Ann(topic', n, id)
        BY <2>6, <3>2, TopicSteps
      <4>2. n > d
        BY <1>0, <1>2, <4>1
      <4>. QED  BY <2>4, <4>1, <4>2
    <3>. QED  BY <3>1, <3>2
  <2>7. CASE ~There(store[w][id], pend[w], id)
    <3>1. CASE \E a \in Nat : Ann(topic, a, id) /\ a \notin gone
      <4>1. PICK a \in Nat : Ann(topic, a, id) /\ a \notin gone
        BY <3>1
      <4>2. ~(a < d) /\ a # d
        BY <2>1, <2>3, <4>1 DEF Ann, Del
      <4>3. a > d /\ Ann(topic', a, id)
        BY <4>1, <4>2, TopicSteps
      <4>. QED  BY <2>4, <4>3
    <3>2. CASE ~\E a \in Nat : Ann(topic, a, id) /\ a \notin gone
      BY <1>1, <2>4, <2>7, <3>2, NoteKept DEF Kept
    <3>. QED  BY <3>1, <3>2
  <2>. QED  BY <2>3, <2>5, <2>6, <2>7
<1>3. CASE ~(d <= live[w])
  <2>1. Notes!LivePush(w) /\ d = live[w] + 1
    BY <1>0, <1>3, TopicSteps
  <2>2. live[w] < Len(topic) /\ Notes!PushFromKafka(w, live[w]) /\ UNCHANGED <<store, topic, gone>>
    BY <2>1, NoteFrames DEF Notes!LivePush
  <2>3. pend'[w] = Append(pend[w], topic[d]) /\ topic[d] \in Note /\ IsDel(topic[d], id)
    BY <1>0, <2>1, <2>2, Pushing
  <2>4. ~There(store[w][id], pend[w], id)
    BY <1>0, <2>2, <2>3, OneMorePending
  <2>5. ~IsAnn(topic[d], id)
    BY <2>3 DEF IsAnn, IsDel
  <2>6. ~There(store'[w][id], pend'[w], id)
    BY <1>0, <2>2, <2>3, <2>4, <2>5, OneMorePending
  <2>7. ASSUME NEW a \in Nat, a < d, Ann(topic, a, id) PROVE a \in gone
    <3>1. a <= live[w]
      BY <1>0, <2>1, <2>7
    <3>. QED  BY <2>4, <2>7, <3>1 DEF AnnSeen
  <2>. QED  BY <2>2, <2>6, <2>7
<1>. QED  BY <1>2, <1>3

LEMMA VerSeenStep == NoteTypes /\ VerSeen /\ [Notes!Next]_(Notes!vars) => VerSeen'
<1> SUFFICES ASSUME NoteTypes, VerSeen, [Notes!Next]_(Notes!vars),
                    NEW w \in Windows, w \notin replaying', NEW id \in Notes!Ids, NEW o \in Nat,
                    replay'[w] < o, o <= live'[w], o \notin gone',
                    Ann(topic', o, id), \A n \in Nat : n > o => ~Ann(topic', n, id),
                    ~HasAnn(outq'[w], id)
             PROVE  HasVer(store'[w][id], pend'[w], id, topic'[o].ver)
  BY DEF VerSeen
<1>0. /\ live[w] \in Nat /\ live[w] <= Len(topic) /\ Len(topic) \in Nat /\ topic \in Seq(Note)
      /\ pend[w] \in Seq(Note) /\ outq[w] \in Seq(Note) /\ replay'[w] \in Nat /\ live' \in [Windows -> Nat]
      /\ DOMAIN topic = 1 .. Len(topic)
  BY LenProperties, NoteTypesStep DEF NoteTypes
<1>1. ~Notes!CloseWindow(w) /\ ~Notes!OpenWindow(w) /\ ~Notes!Reinit(w) /\ ~Notes!Assign(w)
  <2>1. live'[w] # 0
    BY <1>0
  <2>2. Notes!CloseWindow(w) \/ Notes!OpenWindow(w) \/ Notes!Reinit(w) \/ Notes!Assign(w) => live'[w] = 0
    BY DEF Notes!CloseWindow, Notes!OpenWindow, Notes!Reinit, Notes!Assign, Notes!StartReaders, NoteTypes
  <2>. QED  BY <2>1, <2>2
<1>2. ~Notes!ReplayEnd(w)
  <2> SUFFICES ASSUME Notes!ReplayEnd(w) PROVE FALSE
    OBVIOUS
  <2>1. replay'[w] = Len(topic) /\ live' = live
    BY NoteFrames DEF Notes!ReplayEnd, NoteTypes
  <2>. QED  BY <1>0, <2>1
<1>3. w \notin replaying /\ replay'[w] = replay[w]
  <2>1. ASSUME NEW v \in Windows, Notes!OpenWindow(v) \/ Notes!Reinit(v)
        PROVE  w \notin replaying /\ replay'[w] = replay[w]
    <3>1. v # w /\ replay' = [replay EXCEPT ![v] = 0] /\ replaying' = replaying \cup {v}
      BY <1>1, <2>1 DEF Notes!OpenWindow, Notes!Reinit, Notes!StartReaders
    <3>. QED  BY <3>1 DEF NoteTypes
  <2>2. ASSUME NEW v \in Windows, Notes!CloseWindow(v) PROVE w \notin replaying /\ replay'[w] = replay[w]
    <3>1. v # w /\ replay' = [replay EXCEPT ![v] = 0] /\ replaying' = replaying
      BY <1>1, <2>2, NoteFrames DEF Notes!CloseWindow
    <3>. QED  BY <3>1 DEF NoteTypes
  <2>3. ASSUME NEW v \in Windows, Notes!ReplayEnd(v) PROVE w \notin replaying /\ replay'[w] = replay[w]
    <3>1. v # w /\ replay' = [replay EXCEPT ![v] = Len(topic)] /\ replaying' = replaying \ {v}
      BY <1>2, <2>3 DEF Notes!ReplayEnd
    <3>. QED  BY <3>1 DEF NoteTypes
  <2>4. ASSUME NEW v \in Windows, Notes!ReplayPush(v) PROVE w \notin replaying /\ replay'[w] = replay[w]
    <3>1. v \in replaying /\ replay' = [replay EXCEPT ![v] = @ + 1] /\ replaying' = replaying
      BY <2>4, NoteFrames DEF Notes!ReplayPush
    <3>. QED  BY <3>1 DEF NoteTypes
  <2>5. ASSUME \/ Notes!Tick \/ (\E c \in 1 .. Len(topic) : Notes!Compact(c)) \/ UNCHANGED Notes!vars
               \/ \E v \in Windows :
                    \/ Notes!Add(v) \/ Notes!SaveEdit(v) \/ \E j \in Notes!Ids : Notes!OpenEditor(v, j) \/ Notes!Delete(v, j)
                    \/ Notes!Deliver(v) \/ Notes!Assign(v) \/ Notes!LivePush(v) \/ Notes!DrainPending(v)
        PROVE  replaying' = replaying /\ replay' = replay
    BY <2>5, NoteFrames
  <2>. QED  BY <2>1, <2>2, <2>3, <2>4, <2>5, Zenon DEF Notes!Next
<1>4. CASE o <= live[w]
  <2>1. /\ o <= Len(topic) /\ Ann(topic, o, id) /\ o \notin gone /\ topic'[o] = topic[o]
        /\ \A n \in Nat : n > o => ~Ann(topic, n, id)
    <3>1. o <= Len(topic)
      BY <1>0, <1>4
    <3>2. Ann(topic, o, id) /\ o \notin gone /\ \A n \in Nat : n > o => ~Ann(topic, n, id)
      BY <3>1, TopicSteps
    <3>. QED  BY <3>1, <3>2, TopicSteps DEF Ann
  <2>2. ~HasAnn(outq[w], id)
    <3> SUFFICES ASSUME HasAnn(outq[w], id) PROVE FALSE
      OBVIOUS
    <3>1. PICK n \in Nat : n > Len(topic) /\ Ann(topic', n, id)
      BY TopicSteps
    <3>2. n > o
      BY <1>0, <2>1, <3>1
    <3>. QED  BY <3>1, <3>2
  <2> DEFINE v0 == topic[o].ver
  <2>3. HasVer(store[w][id], pend[w], id, v0)
    BY <1>3, <1>4, <2>1, <2>2 DEF VerSeen
  <2> SUFFICES HasVer(store'[w][id], pend'[w], id, v0)
    BY <2>1
  <2> HIDE DEF v0
  <2>4. CASE store'[w] = store[w] /\ pend'[w] = pend[w]
    BY <2>3, <2>4
  <2>5. ASSUME NEW v \in Windows,
               Notes!Add(v) \/ Notes!SaveEdit(v) \/ (\E j \in Notes!Ids : Notes!Delete(v, j))
        PROVE  HasVer(store'[w][id], pend'[w], id, v0)
    <3>1. pend' = pend
      BY <2>5, NoteFrames
    <3>2. PICK j \in Notes!Ids, kind \in {"ann", "del"} : Written(v, kind, j) /\ Wrote1(v, kind, j)
      BY <2>5, Writing
    <3>3. CASE v # w \/ j # id
      <4>1. store'[w][id] = store[w][id]
        BY <3>2, <3>3 DEF Wrote1
      <4>. QED  BY <2>3, <3>1, <4>1
    <3>4. CASE v = w /\ j = id /\ kind = "del"
      <4>1. /\ store'[w][id] # Notes!Absent /\ (store[w][id].deleted => store'[w][id].deleted)
            /\ store'[w][id].ver = store[w][id].ver
        BY <3>2, <3>4 DEF Wrote1
      <4>. QED  BY <2>3, <3>1, <4>1, OwnChange
    <3>5. CASE v = w /\ j = id /\ kind = "ann"
      <4> DEFINE r == [kind |-> kind, id |-> id, ver |-> writes + 1]
      <4>1. outq' = [outq EXCEPT ![w] = Append(@, r)] /\ r \in Note /\ IsAnn(r, id)
        BY <3>2, <3>5 DEF Written, NoteTypes, Note, IsAnn
      <4> HIDE DEF r
      <4>2. outq'[w] = Append(outq[w], r)
        BY <4>1 DEF NoteTypes
      <4>3. HasAnn(outq'[w], id)
        BY <1>0, <4>1, <4>2, AppendedNote
      <4>. QED  BY <4>3
    <3>. QED  BY <3>2, <3>3, <3>4, <3>5
  <2>6. ASSUME NEW v \in Windows, Notes!LivePush(v) PROVE HasVer(store'[w][id], pend'[w], id, v0)
    <3>0. live[v] \in Nat /\ live[v] < Len(topic) /\ Notes!PushFromKafka(v, live[v]) /\ store' = store
      BY <2>6, NoteFrames DEF Notes!LivePush, NoteTypes
    <3>1. CASE v # w \/ live[v] + 1 \in gone
      <4>1. pend'[w] = pend[w]
        BY <3>0, <3>1, Pushing
      <4>. QED  BY <2>3, <3>0, <4>1
    <3>2. CASE v = w /\ live[v] + 1 \notin gone
      <4> DEFINE r == topic[live[w] + 1]
      <4>1. pend'[w] = Append(pend[w], r) /\ r \in Note /\ (IsAnn(r, id) <=> Ann(topic, live[w] + 1, id))
        BY <3>0, <3>2, Pushing
      <4>2. live[w] + 1 \in Nat /\ live[w] + 1 > o
        BY <1>0, <1>4
      <4>3. ~IsAnn(r, id)
        BY <2>1, <4>1, <4>2
      <4> HIDE DEF r
      <4>. QED  BY <1>0, <2>3, <3>0, <4>1, <4>3, OneMorePending
    <3>. QED  BY <3>1, <3>2
  <2>7. ASSUME NEW v \in Windows, Notes!ReplayPush(v) PROVE store'[w] = store[w] /\ pend'[w] = pend[w]
    <3>1. v \in replaying /\ replay[v] \in Nat /\ replay[v] < Len(topic) /\ Notes!PushFromKafka(v, replay[v]) /\ store' = store
      BY <2>7, NoteFrames DEF Notes!ReplayPush, NoteTypes
    <3>2. v # w
      BY <1>3, <3>1
    <3>. QED  BY <3>1, <3>2, Pushing
  <2>8. ASSUME NEW v \in Windows, Notes!DrainPending(v) PROVE HasVer(store'[w][id], pend'[w], id, v0)
    <3>1. CASE v # w
      <4>1. store'[w] = store[w] /\ pend'[w] = pend[w]
        BY <2>8, <3>1, Draining DEF NoteTypes
      <4>. QED  BY <2>3, <4>1
    <3>2. CASE v = w
      <4>1. pend'[w] = <<>>
        BY <2>8, <3>2, Draining DEF NoteTypes
      <4>2. store'[w][id].ver = v0
        BY <2>3, <2>8, <3>2, Draining
      <4>3. HasVer(store'[w][id], <<>>, id, v0)
        <5>1. ~HasAnn(<<>>, id)
          BY NothingPending
        <5>. QED  BY <4>2, <5>1 DEF HasVer
      <4>. QED  BY <4>1, <4>3
    <3>. QED  BY <3>1, <3>2
  <2>9. ASSUME NEW v \in Windows, Notes!CloseWindow(v) PROVE store'[w] = store[w] /\ pend'[w] = pend[w]
    <3>1. store' = [store EXCEPT ![v] = [j \in Notes!Ids |-> Notes!Absent]] /\ pend' = [pend EXCEPT ![v] = <<>>]
      BY <2>9 DEF Notes!CloseWindow
    <3>2. v # w
      BY <1>1, <2>9
    <3>. QED  BY <3>1, <3>2 DEF NoteTypes
  <2>10. ASSUME \/ Notes!Tick \/ \E v \in Windows : \/ \E j \in Notes!Ids : Notes!OpenEditor(v, j)
                                                   \/ Notes!OpenWindow(v) \/ Notes!Reinit(v) \/ Notes!Deliver(v)
                                                   \/ Notes!Assign(v) \/ Notes!ReplayEnd(v)
                \/ (\E c \in 1 .. Len(topic) : Notes!Compact(c)) \/ UNCHANGED Notes!vars
         PROVE  store'[w] = store[w] /\ pend'[w] = pend[w]
    BY <2>10, NoteFrames
  <2>. QED  BY <2>4, <2>5, <2>6, <2>7, <2>8, <2>9, <2>10, Zenon DEF Notes!Next
<1>5. CASE ~(o <= live[w])
  <2>1. Notes!LivePush(w) /\ o = live[w] + 1
    BY <1>0, <1>5, TopicSteps
  <2>2. live[w] < Len(topic) /\ Notes!PushFromKafka(w, live[w]) /\ UNCHANGED <<store, topic, gone>>
    BY <2>1, NoteFrames DEF Notes!LivePush
  <2>3. pend'[w] = Append(pend[w], topic[o]) /\ topic[o] \in Note /\ IsAnn(topic[o], id)
    BY <1>0, <2>1, <2>2, Pushing
  <2>. QED  BY <1>0, <2>2, <2>3, OneMorePending
<1>. QED  BY <1>4, <1>5

LEMMA AnnFirstStep == NoteTypes /\ AnnFirst /\ [Notes!Next]_(Notes!vars) => AnnFirst'
<1> SUFFICES ASSUME NoteTypes, AnnFirst, [Notes!Next]_(Notes!vars) PROVE AnnFirst'
  OBVIOUS
<1>0. /\ Len(topic) \in Nat /\ topic \in Seq(Note)
      /\ \A w \in Windows : pend[w] \in Seq(Note) /\ outq[w] \in Seq(Note)
  BY LenProperties DEF NoteTypes
<1>1. \A id \in Notes!Ids : HasAnn(topic, id) => HasAnn(topic', id)
  BY TopicSteps DEF HasAnn
<1>2. ASSUME NEW w \in Windows, Notes!Deliver(w) PROVE AnnFirst'
  <2> DEFINE r == Head(outq[w])
  <2>1. /\ outq[w] # <<>> /\ outq' = [outq EXCEPT ![w] = Tail(@)] /\ topic' = Append(topic, r)
        /\ UNCHANGED <<store, pend>>
    BY <1>2, NoteFrames DEF Notes!Deliver
  <2>2. r \in Note /\ outq'[w] = Tail(outq[w]) /\ \A v \in Windows \ {w} : outq'[v] = outq[v]
    BY <1>0, <2>1, NoteTail DEF NoteTypes
  <2>3. ASSUME NEW id \in Notes!Ids
        PROVE  /\ \A n \in Nat : Ann(topic', n, id) <=> Ann(topic, n, id) \/ (n = Len(topic) + 1 /\ IsAnn(r, id))
               /\ \A n \in Nat : Del(topic', n, id) <=> Del(topic, n, id) \/ (n = Len(topic) + 1 /\ IsDel(r, id))
               /\ \A n \in Nat : Ann(topic, n, id) => n <= Len(topic)
               /\ HasAnn(topic', id) <=> HasAnn(topic, id) \/ IsAnn(r, id)
    <3> HIDE DEF r
    <3>. QED  BY <1>0, <2>1, <2>2, AppendedNote
  <2>4. ASSUME NEW id \in Notes!Ids
        PROVE  /\ \A n \in Nat : Ann(outq'[w], n, id) <=> n # 0 /\ Ann(outq[w], n + 1, id)
               /\ \A n \in Nat : Del(outq'[w], n, id) <=> n # 0 /\ Del(outq[w], n + 1, id)
               /\ Ann(outq[w], 1, id) <=> IsAnn(r, id)
               /\ Del(outq[w], 1, id) <=> IsDel(r, id)
               /\ ~Ann(outq[w], 0, id)
               /\ HasAnn(outq[w], id) <=> HasAnn(outq'[w], id) \/ IsAnn(r, id)
    BY <1>0, <2>1, <2>2, DeliveredNote
  <2> HIDE DEF r
  <2>5. ASSUME NEW id \in Notes!Ids, NEW d \in Nat, Del(topic', d, id)
        PROVE  \E a \in Nat : a < d /\ Ann(topic', a, id)
    <3>1. CASE Del(topic, d, id)
      BY <2>3, <3>1 DEF AnnFirst
    <3>2. CASE d = Len(topic) + 1 /\ IsDel(r, id)
      <4>1. Del(outq[w], 1, id)
        BY <2>4, <3>2
      <4>2. HasAnn(topic, id) \/ \E a \in Nat : a < 1 /\ Ann(outq[w], a, id)
        BY <4>1 DEF AnnFirst
      <4>3. HasAnn(topic, id)
        <5>1. \A a \in Nat : a < 1 => a = 0
          OBVIOUS
        <5>. QED  BY <2>4, <4>2, <5>1
      <4>4. PICK a \in Nat : Ann(topic, a, id)
        BY <4>3 DEF HasAnn
      <4>5. a < d /\ Ann(topic', a, id)
        BY <1>0, <2>3, <3>2, <4>4
      <4>. QED  BY <4>5
    <3>. QED  BY <2>3, <2>5, <3>1, <3>2
  <2>6. ASSUME NEW v \in Windows, NEW id \in Notes!Ids, store[v][id] # Notes!Absent
        PROVE  HasAnn(topic', id) \/ HasAnn(outq'[v], id)
    <3>1. HasAnn(topic, id) \/ HasAnn(outq[v], id)
      BY <2>6 DEF AnnFirst
    <3>2. CASE v = w
      BY <2>3, <2>4, <3>1, <3>2
    <3>3. CASE v # w
      BY <2>2, <2>3, <3>1, <3>3
    <3>. QED  BY <3>2, <3>3
  <2>7. ASSUME NEW v \in Windows, NEW id \in Notes!Ids, NEW d \in Nat, Del(outq'[v], d, id)
        PROVE  HasAnn(topic', id) \/ \E a \in Nat : a < d /\ Ann(outq'[v], a, id)
    <3>1. CASE v = w
      <4>1. d # 0 /\ Del(outq[w], d + 1, id) /\ d + 1 \in Nat
        BY <2>4, <2>7, <3>1
      <4>2. HasAnn(topic, id) \/ \E a \in Nat : a < d + 1 /\ Ann(outq[w], a, id)
        BY <4>1 DEF AnnFirst
      <4>3. CASE HasAnn(topic, id)
        BY <2>3, <4>3
      <4>4. CASE \E a \in Nat : a < d + 1 /\ Ann(outq[w], a, id)
        <5>1. PICK a \in Nat : a < d + 1 /\ Ann(outq[w], a, id)
          BY <4>4
        <5>2. CASE a = 1
          BY <2>3, <2>4, <5>1, <5>2
        <5>3. CASE a # 1
          <6>1. a # 0
            BY <2>4, <5>1
          <6>2. a - 1 \in Nat /\ a - 1 # 0 /\ (a - 1) + 1 = a /\ a - 1 < d
            BY <5>1, <5>3, <6>1
          <6>. QED  BY <2>4, <3>1, <5>1, <6>2
        <5>. QED  BY <5>2, <5>3
      <4>. QED  BY <4>2, <4>3, <4>4
    <3>2. CASE v # w
      BY <1>1, <2>2, <2>7, <3>2 DEF AnnFirst
    <3>. QED  BY <3>1, <3>2
  <2>8. \A v \in Windows, id \in Notes!Ids : HasAnn(pend[v], id) => HasAnn(topic', id)
    BY <1>1 DEF AnnFirst
  <2>. QED  BY <2>1, <2>5, <2>6, <2>7, <2>8 DEF AnnFirst
<1>3. ASSUME NEW w \in Windows,
             Notes!Add(w) \/ Notes!SaveEdit(w) \/ (\E j \in Notes!Ids : Notes!Delete(w, j))
      PROVE  AnnFirst'
  <2>1. PICK j \in Notes!Ids, kind \in {"ann", "del"} : Written(w, kind, j) /\ Wrote1(w, kind, j)
    BY <1>3, Writing
  <2> DEFINE r == [kind |-> kind, id |-> j, ver |-> writes + 1]
  <2>2. outq' = [outq EXCEPT ![w] = Append(@, r)] /\ r \in Note /\ r.kind = kind /\ r.id = j
    BY <2>1 DEF Written, NoteTypes, Note
  <2>3. UNCHANGED <<topic, pend>>
    BY <1>3, NoteFrames
  <2> HIDE DEF r
  <2>4. outq'[w] = Append(outq[w], r) /\ \A v \in Windows \ {w} : outq'[v] = outq[v]
    BY <2>2 DEF NoteTypes
  <2>5. ASSUME NEW id \in Notes!Ids
        PROVE  /\ \A n \in Nat : Ann(outq'[w], n, id) <=> Ann(outq[w], n, id) \/ (n = Len(outq[w]) + 1 /\ IsAnn(r, id))
               /\ \A n \in Nat : Del(outq'[w], n, id) <=> Del(outq[w], n, id) \/ (n = Len(outq[w]) + 1 /\ IsDel(r, id))
               /\ \A n \in Nat : Ann(outq[w], n, id) => n <= Len(outq[w])
               /\ HasAnn(outq'[w], id) <=> HasAnn(outq[w], id) \/ IsAnn(r, id)
    <3> DEFINE q == outq[w]
    <3>1. q \in Seq(Note) /\ outq'[w] = Append(q, r)
      BY <1>0, <2>4
    <3> HIDE DEF q
    <3>2. /\ \A n \in Nat : Ann(outq'[w], n, id) <=> Ann(q, n, id) \/ (n = Len(q) + 1 /\ IsAnn(r, id))
          /\ \A n \in Nat : Del(outq'[w], n, id) <=> Del(q, n, id) \/ (n = Len(q) + 1 /\ IsDel(r, id))
          /\ \A n \in Nat : Ann(q, n, id) => n <= Len(q)
          /\ HasAnn(outq'[w], id) <=> HasAnn(q, id) \/ IsAnn(r, id)
      <4> DEFINE q1 == Append(q, r)
      <4>1. /\ \A n \in Nat : Ann(q1, n, id) <=> Ann(q, n, id) \/ (n = Len(q) + 1 /\ IsAnn(r, id))
            /\ \A n \in Nat : Del(q1, n, id) <=> Del(q, n, id) \/ (n = Len(q) + 1 /\ IsDel(r, id))
            /\ \A n \in Nat : Ann(q, n, id) => n <= Len(q)
            /\ HasAnn(q1, id) <=> HasAnn(q, id) \/ IsAnn(r, id)
        <5>1. r \in Note
          BY <2>2
        <5>. QED  BY <3>1, <5>1, AppendedNote
      <4>2. outq'[w] = q1
        BY <3>1
      <4> HIDE DEF q1
      <4>. QED  BY <4>1, <4>2
    <3>. QED  BY <3>2 DEF q
  <2>6. ASSUME NEW v \in Windows, NEW id \in Notes!Ids, store'[v][id] # Notes!Absent
        PROVE  HasAnn(topic, id) \/ HasAnn(outq'[v], id)
    <3>1. CASE v # w \/ id # j \/ kind = "del"
      <4>1. store[v][id] # Notes!Absent
        BY <2>1, <2>6, <3>1 DEF Wrote1
      <4>2. HasAnn(topic, id) \/ HasAnn(outq[v], id)
        BY <4>1 DEF AnnFirst
      <4>. QED  BY <2>4, <2>5, <4>2
    <3>2. CASE v = w /\ id = j /\ kind = "ann"
      BY <2>2, <2>5, <3>2 DEF IsAnn
    <3>. QED  BY <3>1, <3>2
  <2>7. ASSUME NEW v \in Windows, NEW id \in Notes!Ids, NEW d \in Nat, Del(outq'[v], d, id)
        PROVE  HasAnn(topic, id) \/ \E a \in Nat : a < d /\ Ann(outq'[v], a, id)
    <3>1. CASE Del(outq[v], d, id)
      <4>1. HasAnn(topic, id) \/ \E a \in Nat : a < d /\ Ann(outq[v], a, id)
        BY <3>1 DEF AnnFirst
      <4>. QED  BY <2>4, <2>5, <4>1
    <3>2. CASE ~Del(outq[v], d, id)
      <4>1. v = w /\ d = Len(outq[w]) + 1 /\ id = j /\ kind = "del"
        BY <2>2, <2>4, <2>5, <2>7, <3>2 DEF IsDel
      <4>2. store[w][id] # Notes!Absent
        BY <2>1, <4>1 DEF Wrote1
      <4>3. HasAnn(topic, id) \/ HasAnn(outq[w], id)
        BY <4>2 DEF AnnFirst
      <4>4. HasAnn(outq[w], id) => \E a \in Nat : a < d /\ Ann(outq'[v], a, id)
        <5> SUFFICES ASSUME HasAnn(outq[w], id) PROVE \E a \in Nat : a < d /\ Ann(outq'[v], a, id)
          OBVIOUS
        <5>1. PICK a \in Nat : Ann(outq[w], a, id)
          BY DEF HasAnn
        <5>2. Len(outq[w]) \in Nat
          BY <1>0, LenProperties
        <5>3. a < d /\ Ann(outq'[v], a, id)
          BY <2>5, <4>1, <5>1, <5>2
        <5>. QED  BY <5>3
      <4>. QED  BY <4>3, <4>4
    <3>. QED  BY <3>1, <3>2
  <2>. QED  BY <2>3, <2>6, <2>7 DEF AnnFirst
<1>4. ASSUME NEW w \in Windows, NEW o \in Nat, o < Len(topic), Notes!PushFromKafka(w, o),
             UNCHANGED <<store, topic, outq>>
      PROVE  AnnFirst'
  <2>1. ASSUME NEW v \in Windows, NEW id \in Notes!Ids, HasAnn(pend'[v], id) PROVE HasAnn(topic, id)
    <3>1. CASE pend'[v] = pend[v]
      BY <2>1, <3>1 DEF AnnFirst
    <3>2. CASE pend'[v] # pend[v]
      <4>1. v = w /\ pend'[w] = Append(pend[w], topic[o + 1]) /\ topic[o + 1] \in Note
            /\ (IsAnn(topic[o + 1], id) <=> Ann(topic, o + 1, id))
        BY <1>4, <3>2, Pushing
      <4>2. HasAnn(pend[w], id) \/ IsAnn(topic[o + 1], id)
        BY <1>0, <2>1, <4>1, AppendedNote
      <4>3. o + 1 \in Nat
        OBVIOUS
      <4>. QED  BY <4>1, <4>2, <4>3 DEF AnnFirst, HasAnn
    <3>. QED  BY <3>1, <3>2
  <2>. QED  BY <1>4, <2>1 DEF AnnFirst
<1>5. ASSUME NEW w \in Windows, Notes!LivePush(w) \/ Notes!ReplayPush(w) PROVE AnnFirst'
  <2>1. UNCHANGED <<store, topic, outq>>
    BY <1>5, NoteFrames
  <2>2. CASE Notes!LivePush(w)
    <3>1. live[w] \in Nat /\ live[w] < Len(topic) /\ Notes!PushFromKafka(w, live[w])
      BY <2>2 DEF Notes!LivePush, NoteTypes
    <3>. QED  BY <1>4, <2>1, <3>1
  <2>3. CASE Notes!ReplayPush(w)
    <3>1. replay[w] \in Nat /\ replay[w] < Len(topic) /\ Notes!PushFromKafka(w, replay[w])
      BY <2>3 DEF Notes!ReplayPush, NoteTypes
    <3>. QED  BY <1>4, <2>1, <3>1
  <2>. QED  BY <1>5, <2>2, <2>3
<1>6. ASSUME NEW w \in Windows, Notes!DrainPending(w) PROVE AnnFirst'
  <2>1. UNCHANGED <<topic, outq>>
    BY <1>6, NoteFrames
  <2>2. /\ pend' = [pend EXCEPT ![w] = <<>>] /\ \A v \in Windows \ {w} : store'[v] = store[v]
        /\ \A id \in Notes!Ids : store'[w][id] # Notes!Absent <=> There(store[w][id], pend[w], id)
    BY <1>6, Draining
  <2>3. \A v \in Windows, id \in Notes!Ids : HasAnn(pend'[v], id) => HasAnn(topic, id)
    <3>1. \A id : ~HasAnn(<<>>, id)
      BY NothingPending
    <3>. QED  BY <2>2, <3>1 DEF AnnFirst, NoteTypes
  <2>4. \A v \in Windows, id \in Notes!Ids :
          store'[v][id] # Notes!Absent => HasAnn(topic, id) \/ HasAnn(outq[v], id)
    BY <2>2 DEF AnnFirst, There
  <2>. QED  BY <2>1, <2>3, <2>4 DEF AnnFirst
<1>7. ASSUME NEW w \in Windows, Notes!CloseWindow(w) PROVE AnnFirst'
  <2>1. /\ store' = [store EXCEPT ![w] = [j \in Notes!Ids |-> Notes!Absent]] /\ pend' = [pend EXCEPT ![w] = <<>>]
        /\ UNCHANGED <<topic, outq>>
    BY <1>7, NoteFrames DEF Notes!CloseWindow
  <2>2. \A v \in Windows, id \in Notes!Ids : HasAnn(pend'[v], id) => HasAnn(topic, id)
    <3>1. \A id : ~HasAnn(<<>>, id)
      BY NothingPending
    <3>. QED  BY <2>1, <3>1 DEF AnnFirst, NoteTypes
  <2>3. \A v \in Windows, id \in Notes!Ids : store'[v][id] # Notes!Absent => store[v][id] # Notes!Absent
    BY <2>1 DEF NoteTypes
  <2>. QED  BY <2>1, <2>2, <2>3 DEF AnnFirst
<1>8. ASSUME \/ Notes!Tick \/ \E v \in Windows : \/ \E j \in Notes!Ids : Notes!OpenEditor(v, j)
                                                 \/ Notes!OpenWindow(v) \/ Notes!Reinit(v)
                                                 \/ Notes!Assign(v) \/ Notes!ReplayEnd(v)
             \/ (\E o \in 1 .. Len(topic) : Notes!Compact(o)) \/ UNCHANGED Notes!vars
      PROVE  UNCHANGED <<store, pend, outq, topic>>
  BY <1>8, NoteFrames
<1>9. UNCHANGED <<store, pend, outq, topic>> => AnnFirst'
  BY DEF AnnFirst
<1>. QED  BY <1>2, <1>3, <1>5, <1>6, <1>7, <1>8, <1>9, Zenon DEF Notes!Next

LEMMA NoteInvariant == Notes!Spec => [](NoteTypes /\ NoteInv)
<1>1. Notes!Init => NoteTypes /\ NoteInv
  BY NoteTypesInit, NoteInvInit
<1>2. (NoteTypes /\ NoteInv) /\ [Notes!Next]_(Notes!vars) => (NoteTypes /\ NoteInv)'
  BY NoteTypesStep, AnnFirstStep, GoneInvStep, AnnSeenStep, DelSeenStep, VerSeenStep DEF NoteInv
<1>. QED  BY <1>1, <1>2, PTL DEF Notes!Spec

-----------------------------------------------------------------------------
(* What the windows show.                                                  *)

\* Whatever the live consumer and the replay thread of a window push in
\* whatever order, and whatever is edited or deleted meanwhile, an annotation
\* that a window has as deleted stays deleted there until the window closes: for
\* any windows, annotations and records, with or without compaction
\* (AnnotationStore::DrainPending).
THEOREM DeletedForGood == Notes!Spec => DeletedStays
<1>1. ASSUME NoteTypes, [Notes!Next]_(Notes!vars), NEW w \in open \cap open', NEW id \in Notes!Ids,
             store[w][id].deleted
      PROVE  store'[w][id].deleted
  <2>1. w \in Windows
    BY <1>1 DEF NoteTypes
  <2>2. ~Notes!CloseWindow(w)
    BY DEF Notes!CloseWindow
  <2>. QED  BY <1>1, <2>1, <2>2, NoteKept DEF Kept
<1>2. NoteTypes /\ [Notes!Next]_(Notes!vars) =>
        [\A w \in open \cap open', id \in Notes!Ids : store[w][id].deleted => store'[w][id].deleted]_(Notes!vars)
  BY <1>1
<1>. QED  BY <1>2, NoteInvariant, PTL DEF Notes!Spec, DeletedStays, Notes!DeletedStays

\* A window whose live consumer has read the topic to its end and that has
\* drained what it was given shows no annotation that any window has deleted
\* (compaction may have taken a marker that is not the last record of its
\* annotation), and shows the last change of every annotation that came after
\* its replay: for any windows, annotations and records. It rests on the marker
\* of an annotation following a change of it in every queue, on a window knowing
\* what it was given, and on compaction leaving the last record.
THEOREM ChangesReachWindows == Notes!Spec => []ChangesKnown
<1>1. NoteTypes /\ NoteInv => ChangesKnown
  <2> SUFFICES ASSUME NoteTypes, NoteInv, NEW w \in Windows, Notes!Settled(w), owner = w
               PROVE  /\ Notes!Knows(w, Notes!DeletedIds)
                      /\ \A id \in Notes!Ids : \A o \in Notes!LastRecord(id) :
                           o > replay[w] /\ o \notin gone => store[w][id].ver = topic[o].ver
    BY DEF ChangesKnown, Notes!ChangesKnown
  <2>0. /\ w \notin replaying /\ pend[w] = <<>> /\ live[w] = Len(topic)
        /\ \A v \in Windows : outq[v] = <<>>
        /\ Len(topic) \in Nat /\ DOMAIN topic = 1 .. Len(topic)
        /\ \A n \in 1 .. Len(topic) : topic[n].kind \in {"ann", "del"} /\ topic[n].id \in Notes!Ids
    <3>1. topic \in Seq(Note)
      BY DEF NoteTypes
    <3>2. \A n \in 1 .. Len(topic) : topic[n] \in Note
      BY <3>1
    <3>. QED  BY <3>1, <3>2, LenProperties DEF Notes!Settled, Note
  <2>1. AnnFirst /\ GoneInv /\ AnnSeen /\ DelSeen /\ VerSeen
    BY DEF NoteInv
  <2>2. ASSUME NEW id \in Notes!Ids, NEW d \in Nat, Del(topic, d, id), d \notin gone,
               \/ \A n \in DOMAIN topic : topic[n].id = id => n \notin gone
               \/ \A n \in DOMAIN topic : n > d => topic[n].id # id
        PROVE  store[w][id] = Notes!Absent \/ store[w][id].deleted
    <3>1. d <= live[w]
      BY <2>0, <2>2 DEF Del
    <3>2. \/ Dead(store[w][id], pend[w], id)
          \/ /\ \A a \in Nat : a < d /\ Ann(topic, a, id) => a \in gone
             /\ \/ ~There(store[w][id], pend[w], id)
                \/ \E a \in Nat : a > d /\ Ann(topic, a, id)
                \/ HasAnn(outq[w], id)
      BY <2>1, <2>2, <3>1 DEF DelSeen
    <3>3. PICK a \in Nat : a < d /\ Ann(topic, a, id)
      BY <2>1, <2>2 DEF AnnFirst
    <3>4. Dead(store[w][id], pend[w], id) => store[w][id].deleted
      BY <2>0, NothingPending
    <3>5. ~HasAnn(outq[w], id)
      BY <2>0, NothingPending
    <3>6. ~There(store[w][id], pend[w], id) => store[w][id] = Notes!Absent
      BY DEF There
    <3>7. CASE \A n \in DOMAIN topic : topic[n].id = id => n \notin gone
      BY <3>2, <3>3, <3>4, <3>7 DEF Ann
    <3>8. CASE \A n \in DOMAIN topic : n > d => topic[n].id # id
      BY <3>2, <3>4, <3>5, <3>6, <3>8 DEF Ann
    <3>. QED  BY <2>2, <3>7, <3>8
  <2>3. ASSUME NEW id \in Notes!DeletedIds PROVE store[w][id] = Notes!Absent \/ store[w][id].deleted
    <3>1. /\ id \in Notes!Published("del")
          /\ \/ Notes!OffsetsOf(id) \cap gone = {}
             \/ topic[Notes!Max(Notes!OffsetsOf(id))].kind = "del"
      BY DEF Notes!DeletedIds
    <3>2. PICK n \in DOMAIN topic : topic[n].kind = "del" /\ topic[n].id = id
      <4>1. PICK rec \in {r \in Notes!ToSet(topic) \cup UNION {Notes!ToSet(outq[v]) : v \in Windows} : r.kind = "del"} :
              rec.id = id
        BY <3>1 DEF Notes!Published
      <4>2. \A v \in Windows : Notes!ToSet(outq[v]) = {}
        <5>1. \A v \in Windows : outq[v] = <<>>
          BY <2>0
        <5>2. Notes!ToSet(<<>>) = {}
          BY DEF Notes!ToSet
        <5>. QED  BY <5>1, <5>2
      <4>3. rec \in Notes!ToSet(topic)
        BY <4>1, <4>2
      <4>. QED  BY <4>1, <4>3 DEF Notes!ToSet
    <3>3. id \in Notes!Ids /\ n \in Nat
      BY <2>0, <3>2
    <3>4. CASE Notes!OffsetsOf(id) \cap gone = {}
      <4>1. \A m \in DOMAIN topic : topic[m].id = id => m \notin gone
        BY <2>0, <3>4 DEF Notes!OffsetsOf
      <4>2. Del(topic, n, id) /\ n \notin gone
        BY <3>2, <4>1 DEF Del
      <4>. QED  BY <2>2, <3>3, <4>1, <4>2
    <3>5. CASE topic[Notes!Max(Notes!OffsetsOf(id))].kind = "del"
      <4> DEFINE S == Notes!OffsetsOf(id)
                 m == Notes!Max(S)
      <4>1. S \in SUBSET (1 .. Len(topic)) /\ n \in S
        BY <2>0, <3>2 DEF Notes!OffsetsOf
      <4>2. m = Top(S)
        BY DEF Notes!Max, Top
      <4>3. m \in S /\ \A x \in S : x <= m
        <5> HIDE DEF S, m
        <5>. QED  BY <2>0, <4>1, <4>2, TopInterval
      <4>4. m \in Nat /\ m \in DOMAIN topic /\ topic[m].id = id
        BY <2>0, <4>3 DEF Notes!OffsetsOf
      <4>5. \A x \in DOMAIN topic : x > m => topic[x].id # id
        <5>1. \A x \in DOMAIN topic : topic[x].id = id => x \in S
          BY <2>0 DEF Notes!OffsetsOf
        <5> HIDE DEF S, m
        <5>. QED  BY <2>0, <4>3, <4>4, <5>1
      <4>6. m \notin gone
        <5> SUFFICES ASSUME m \in gone PROVE FALSE
          OBVIOUS
        <5>1. PICK x \in Nat : x > m /\ x \in DOMAIN topic /\ topic[x].id = topic[m].id
          BY <2>1 DEF GoneInv
        <5>. QED  BY <4>4, <4>5, <5>1
      <4>7. Del(topic, m, id)
        BY <3>5, <4>4 DEF Del
      <4> HIDE DEF m
      <4>. QED  BY <2>2, <3>3, <4>4, <4>5, <4>6, <4>7
    <3>. QED  BY <3>1, <3>4, <3>5
  <2>4. ASSUME NEW id \in Notes!Ids, NEW o \in Notes!LastRecord(id), o > replay[w], o \notin gone
        PROVE  store[w][id].ver = topic[o].ver
    <3>1. /\ o \in 1 .. Len(topic) /\ topic[o].kind = "ann" /\ topic[o].id = id
          /\ \A n \in o + 1 .. Len(topic) : topic[n].kind = "ann" => topic[n].id # id
      BY DEF Notes!LastRecord
    <3>2. Ann(topic, o, id) /\ \A n \in Nat : n > o => ~Ann(topic, n, id)
      BY <2>0, <3>1 DEF Ann
    <3>3. o \in Nat /\ o <= live[w] /\ replay[w] < o /\ ~HasAnn(outq[w], id)
      <4>1. ~HasAnn(outq[w], id)
        BY <2>0, NothingPending
      <4>. QED  BY <2>0, <2>4, <3>1, <4>1 DEF NoteTypes
    <3>4. HasVer(store[w][id], pend[w], id, topic[o].ver)
      BY <2>0, <2>1, <2>4, <3>2, <3>3 DEF VerSeen
    <3>5. ~HasAnn(<<>>, id)
      BY NothingPending
    <3>6. \A n \in Nat : ~Ann(<<>>, n, id)
      BY <3>5 DEF HasAnn
    <3>. QED  BY <2>0, <3>4, <3>6 DEF HasVer
  <2>. QED  BY <2>3, <2>4 DEF Notes!Knows
<1>. QED  BY <1>1, NoteInvariant, PTL

=============================================================================
