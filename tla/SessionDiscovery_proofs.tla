------------------------ MODULE SessionDiscovery_proofs ------------------------
(***************************************************************************)
(* Proofs about the session discovery of kv8scope: with every event        *)
(* handled and the thread between two cycles, the session list shows what  *)
(* the manager knows.                                                      *)
(***************************************************************************)
EXTENDS SessionDiscovery, FiniteSetTheorems, SequenceTheorems, WellFoundedInduction, TLAPS

-----------------------------------------------------------------------------
(* Induction over the numbers, and what a fold of a sequence computes.     *)

Below == {p \in Nat \X Nat : p[1] < p[2]}

LEMMA BelowWF == IsWellFoundedOn(Below, Nat)
  BY NatLessThanWellFounded DEF OpToRel, Below

\* Induction over the naturals, for a set.
LEMMA NatSetInduction ==
  ASSUME NEW S, S \subseteq Nat, 0 \in S, \A n \in S : n + 1 \in S
  PROVE  S = Nat
<1> SUFFICES ASSUME Nat \ S # {} PROVE FALSE
  OBVIOUS
<1>1. \E x \in Nat \ S : \A y \in Nat \ S : ~ (<<y, x>> \in Below)
  BY BelowWF, WFMin
<1>2. PICK x \in Nat \ S : \A y \in Nat \ S : ~ (<<y, x>> \in Below)
  BY <1>1
<1>3. x # 0 /\ x - 1 \in Nat /\ <<x - 1, x>> \in Below
  BY DEF Below
<1>4. x - 1 \in S /\ (x - 1) + 1 = x
  BY <1>2, <1>3
<1>. QED  BY <1>4

Top(s) == CHOOSE x \in s : \A y \in s : x >= y

LEMMA TopIs == ASSUME NEW S, NEW m \in S, S \subseteq Nat, \A x \in S : x <= m PROVE Top(S) = m
<1>1. \A y \in S : m >= y
  BY SMT
<1>2. Top(S) \in S /\ \A y \in S : Top(S) >= y
  BY <1>1, Zenon DEF Top
<1>3. Top(S) >= m /\ Top(S) <= m /\ Top(S) \in Nat /\ m \in Nat
  BY <1>2
<1>. QED  BY <1>3

LEMMA TopInterval ==
  ASSUME NEW n \in Nat, NEW s \in SUBSET (1 .. n), s # {}
  PROVE  Top(s) \in s /\ \A x \in s : x <= Top(s)
<1> DEFINE Good == {k \in Nat : \A t \in SUBSET (1 .. k) : t # {} => \E m \in t : \A x \in t : x <= m}
<1>1. 0 \in Good
  <2>1. 1 .. 0 = {}
    OBVIOUS
  <2>. QED  BY <2>1
<1>2. ASSUME NEW k \in Good PROVE k + 1 \in Good
  <2> SUFFICES ASSUME NEW t \in SUBSET (1 .. k + 1), t # {} PROVE \E m \in t : \A x \in t : x <= m
    OBVIOUS
  <2>1. CASE k + 1 \in t
    <3>1. \A x \in t : x <= k + 1
      OBVIOUS
    <3>. QED  BY <2>1, <3>1
  <2>2. CASE k + 1 \notin t
    <3>1. t \in SUBSET (1 .. k)
      BY <2>2
    <3>. QED  BY <3>1
  <2>. QED  BY <2>1, <2>2
<1>3. Good = Nat
  <2> HIDE DEF Good
  <2>1. Good \subseteq Nat
    BY DEF Good
  <2>. QED  BY <1>1, <1>2, <2>1, NatSetInduction
<1>4. n \in Good
  <2> HIDE DEF Good
  <2>. QED  BY <1>3
<1>5. PICK m \in s : \A x \in s : x <= m
  BY <1>4
<1>6. s \subseteq Nat
  OBVIOUS
<1>7. Top(s) = m
  BY <1>5, <1>6, TopIs
<1>. QED  BY <1>5, <1>7

\* A value for every subset of 1 .. n, from that for the subset without its
\* largest number: what the folds of the community modules iterate.
Iterates(g, T, F, b, n) ==
  /\ g \in [SUBSET (1 .. n) -> T]
  /\ \A s \in SUBSET (1 .. n) : g[s] = IF s = {} THEN b ELSE F[<<g[s \ {Top(s)}], Top(s)>>]

LEMMA IterationExists ==
  ASSUME NEW T, NEW b \in T, NEW m \in Nat, NEW F \in [T \X (1 .. m) -> T]
  PROVE  \E g : Iterates(g, T, F, b, m)
<1> DEFINE Good == {n \in Nat : n <= m => \E g : Iterates(g, T, F, b, n)}
<1>1. 0 \in Good
  <2> DEFINE z == [s \in SUBSET (1 .. 0) |-> b]
  <2>1. 1 .. 0 = {}
    OBVIOUS
  <2>2. \A s \in SUBSET (1 .. 0) : s = {} /\ z[s] = b
    BY <2>1
  <2>3. z \in [SUBSET (1 .. 0) -> T]
    OBVIOUS
  <2> HIDE DEF z
  <2>4. Iterates(z, T, F, b, 0)
    BY <2>2, <2>3 DEF Iterates
  <2>. QED  BY <2>4
<1>2. ASSUME NEW n \in Good PROVE n + 1 \in Good
  <2> SUFFICES ASSUME n + 1 <= m PROVE \E g : Iterates(g, T, F, b, n + 1)
    OBVIOUS
  <2>0. n \in Nat /\ n <= m /\ n + 1 \in 1 .. m
    OBVIOUS
  <2>1. PICK g : Iterates(g, T, F, b, n)
    BY <2>0
  <2>2. /\ g \in [SUBSET (1 .. n) -> T]
        /\ \A s \in SUBSET (1 .. n) : g[s] = IF s = {} THEN b ELSE F[<<g[s \ {Top(s)}], Top(s)>>]
    BY <2>1 DEF Iterates
  <2> DEFINE h == [s \in SUBSET (1 .. n + 1) |-> IF n + 1 \in s THEN F[<<g[s \ {n + 1}], n + 1>>] ELSE g[s]]
  <2>3. ASSUME NEW s \in SUBSET (1 .. n + 1)
        PROVE  h[s] \in T /\ h[s] = IF s = {} THEN b ELSE F[<<h[s \ {Top(s)}], Top(s)>>]
    <3>1. CASE n + 1 \in s
      <4>1. Top(s) = n + 1
        <5>1. s \subseteq Nat /\ \A x \in s : x <= n + 1
          BY <2>0
        <5>. QED  BY <3>1, <5>1, TopIs, Zenon
      <4>2. s \ {n + 1} \in SUBSET (1 .. n) /\ s \ {n + 1} \in SUBSET (1 .. n + 1) /\ n + 1 \notin s \ {n + 1}
        BY <2>0
      <4>3. h[s \ {n + 1}] = g[s \ {n + 1}] /\ g[s \ {n + 1}] \in T
        BY <2>2, <4>2
      <4>4. h[s] = F[<<g[s \ {n + 1}], n + 1>>]
        BY <3>1
      <4>5. F[<<g[s \ {n + 1}], n + 1>>] \in T
        <5>1. <<g[s \ {n + 1}], n + 1>> \in T \X (1 .. m)
          BY <2>0, <4>3, Zenon
        <5>. QED  BY <5>1
      <4> HIDE DEF h
      <4>. QED  BY <3>1, <4>1, <4>3, <4>4, <4>5
    <3>2. CASE n + 1 \notin s
      <4>0. s \in SUBSET (1 .. n)
        BY <2>0, <3>2
      <4>1. /\ s \ {Top(s)} \in SUBSET (1 .. n)
            /\ s \ {Top(s)} \in SUBSET (1 .. n + 1) /\ n + 1 \notin s \ {Top(s)}
        BY <3>2, <4>0
      <4>2. h[s] = g[s] /\ h[s \ {Top(s)}] = g[s \ {Top(s)}] /\ g[s] \in T
        BY <2>2, <3>2, <4>0, <4>1
      <4> HIDE DEF h
      <4>. QED  BY <2>2, <4>0, <4>2
    <3>. QED  BY <3>1, <3>2
  <2>4. h = [s \in SUBSET (1 .. n + 1) |-> h[s]]
    OBVIOUS
  <2> HIDE DEF h
  <2>5. h \in [SUBSET (1 .. n + 1) -> T]
    BY <2>3, <2>4
  <2>6. Iterates(h, T, F, b, n + 1)
    BY <2>3, <2>5 DEF Iterates
  <2>. QED  BY <2>6
<1>3. Good = Nat
  <2> HIDE DEF Good
  <2>1. Good \subseteq Nat
    BY DEF Good
  <2>. QED  BY <1>1, <1>2, <2>1, NatSetInduction
<1>4. m \in Good
  <2> HIDE DEF Good
  <2>. QED  BY <1>3
<1>. QED  BY <1>4

\* The values of such an iteration for 1 .. i are a history of the fold: each comes from the one
\* before it and the next item. The function need only be known where the values are of their type.
Keeps(F, T, n) == \A t \in T, i \in 1 .. n : F[<<t, i>>] \in T
Unfolds(g, F, b, n) ==
  \A s \in SUBSET (1 .. n) : g[s] = IF s = {} THEN b ELSE F[<<g[s \ {Top(s)}], Top(s)>>]
History(h, F, b, n) == h[0] = b /\ \A i \in 1 .. n : h[i] = F[<<h[i - 1], i>>]

Iteration(T, b, n, F, g) == b \in T /\ n \in Nat /\ Keeps(F, T, n) /\ Unfolds(g, F, b, n)

LEMMA IterationHistory ==
  ASSUME NEW T, NEW b, NEW n, NEW F, NEW g, Iteration(T, b, n, F, g)
  PROVE  \E h \in [0 .. n -> T] : History(h, F, b, n) /\ h[n] = g[1 .. n]
<1>00. b \in T /\ n \in Nat /\ Keeps(F, T, n) /\ Unfolds(g, F, b, n)
  BY Zenon DEF Iteration
<1>0. /\ \A t \in T, i \in 1 .. n : F[<<t, i>>] \in T
      /\ \A s \in SUBSET (1 .. n) : g[s] = IF s = {} THEN b ELSE F[<<g[s \ {Top(s)}], Top(s)>>]
  BY <1>00, Zenon DEF Keeps, Unfolds
<1> DEFINE h == [i \in 0 .. n |-> g[1 .. i]]
<1>1. h[0] = b
  <2>1. 1 .. 0 = {} /\ 1 .. 0 \in SUBSET (1 .. n)
    OBVIOUS
  <2>2. g[1 .. 0] = b
    BY <1>0, <2>1
  <2>3. 0 \in 0 .. n
    BY <1>00
  <2>. QED  BY <2>2, <2>3
<1>2. ASSUME NEW i \in 1 .. n PROVE h[i] = F[<<h[i - 1], i>>]
  <2>1. Top(1 .. i) = i
    <3>1. i \in 1 .. i /\ 1 .. i \subseteq Nat /\ \A x \in 1 .. i : x <= i
      BY <1>00
    <3>. QED  BY <3>1, TopIs, Zenon
  <2>2. (1 .. i) \ {i} = 1 .. (i - 1)
    BY <1>00
  <2>3. 1 .. i \in SUBSET (1 .. n) /\ 1 .. i # {}
    <3>1. \A x \in 1 .. i : x \in 1 .. n
      BY <1>00
    <3>2. i \in 1 .. i
      BY <1>00
    <3>. QED  BY <3>1, <3>2
  <2>4. g[1 .. i] = F[<<g[(1 .. i) \ {Top(1 .. i)}], Top(1 .. i)>>]
    BY <1>0, <2>3, Zenon
  <2>5. h[i] = g[1 .. i] /\ h[i - 1] = g[1 .. (i - 1)]
    BY <1>00
  <2>. QED  BY <2>1, <2>2, <2>4, <2>5, Zenon
<1>3. h[n] = g[1 .. n] /\ h = [i \in 0 .. n |-> h[i]]
  BY <1>00
<1> HIDE DEF h
<1> DEFINE S == {i \in Nat : i <= n => h[i] \in T}
<1>4. 0 \in S
  BY <1>00, <1>1
<1>5. ASSUME NEW i \in S PROVE i + 1 \in S
  <2> SUFFICES ASSUME i + 1 <= n PROVE h[i + 1] \in T
    OBVIOUS
  <2>1. i + 1 \in 1 .. n /\ (i + 1) - 1 = i /\ i <= n
    BY <1>00
  <2>. QED  BY <1>0, <1>2, <2>1
<1>6. S = Nat
  <2> HIDE DEF S
  <2>1. S \subseteq Nat
    BY DEF S
  <2>. QED  BY <1>4, <1>5, <2>1, NatSetInduction
<1>7. \A i \in 0 .. n : h[i] \in T
  BY <1>00, <1>6
<1>8. h \in [0 .. n -> T]
  BY <1>3, <1>7
<1>. QED  BY <1>1, <1>2, <1>3, <1>8 DEF History

-----------------------------------------------------------------------------
(* Types.                                                                  *)

Fields == 0 .. MaxFields
Shown  == Liveness \cup {"Unknown"}

\* the maps of the manager and of the registry
Maps(V) == UNION {[S -> V] : S \in SUBSET Sessions}

RowKinds  == {"Appeared", "Disappeared"}
Announced == [type : {"Connected"}, session : {""}, value : {0}]
Changed   == [type : RowKinds \cup {"MetaUpdated"}, session : Sessions, value : Fields]
Probed    == [type : {"StatusChanged"}, session : Sessions, value : Liveness]
Events    == Announced \cup Changed \cup Probed

MapTypes ==
  /\ registry \in Maps(Fields) /\ current \in Maps(Fields) /\ known \in Maps(Fields)
  /\ prevCount \in Maps(Fields) /\ pendingMeta \in Maps(Fields)
  /\ prevLiveness \in Maps(Liveness) /\ window \in Maps(Entry)
  /\ expired \subseteq DOMAIN pendingMeta /\ DOMAIN pendingMeta \subseteq DOMAIN prevCount

FiniteMaps ==
  IsFiniteSet(DOMAIN registry) /\ IsFiniteSet(DOMAIN current) /\ IsFiniteSet(DOMAIN known)

OtherTypes ==
  /\ deleted \subseteq Sessions /\ probed \subseteq DOMAIN current /\ (at # "probe" => probed = {})
  /\ at \in {"list", "scan", "diff", "probe", "sleep", "stopped"} /\ main \in {"run", "join"}
  /\ everConnected \in BOOLEAN /\ connected \in BOOLEAN
  /\ panel \in [Sessions -> Seq(Entry)] /\ removed \subseteq Sessions
  /\ events \in Seq(Events) /\ outbox \in Seq(Events)

DiscoveryTypes == MapTypes /\ FiniteMaps /\ OtherTypes

LEMMA MapIs ==
  ASSUME NEW V, NEW m \in Maps(V)
  PROVE  DOMAIN m \in SUBSET Sessions /\ m \in [DOMAIN m -> V] /\ \A s \in DOMAIN m : m[s] \in V
  BY DEF Maps

LEMMA IsMap ==
  ASSUME NEW V, NEW S \in SUBSET Sessions, NEW m \in [S -> V]
  PROVE  m \in Maps(V)
  BY Zenon DEF Maps

LEMMA EmptyMap == ASSUME NEW V PROVE Empty \in Maps(V) /\ DOMAIN Empty = {}
<1>1. Empty \in [{} -> V] /\ {} \in SUBSET Sessions
  BY DEF Empty
<1>. QED  BY <1>1, IsMap

LEMMA PutMap ==
  ASSUME NEW V, NEW m \in Maps(V), NEW s \in Sessions, NEW v \in V
  PROVE  /\ Put(m, s, v) \in Maps(V) /\ DOMAIN Put(m, s, v) = DOMAIN m \cup {s}
         /\ Put(m, s, v)[s] = v
         /\ \A t \in DOMAIN m : t # s => Put(m, s, v)[t] = m[t]
<1>1. DOMAIN m \cup {s} \in SUBSET Sessions /\ \A t \in DOMAIN m : m[t] \in V
  BY MapIs
<1>2. Put(m, s, v) \in [DOMAIN m \cup {s} -> V]
  BY <1>1 DEF Put
<1>3. /\ DOMAIN Put(m, s, v) = DOMAIN m \cup {s} /\ Put(m, s, v)[s] = v
      /\ \A t \in DOMAIN m : t # s => Put(m, s, v)[t] = m[t]
  BY DEF Put
<1>. QED  BY <1>1, <1>2, <1>3, IsMap

LEMMA RestrictMap ==
  ASSUME NEW V, NEW m \in Maps(V), NEW S \in SUBSET (DOMAIN m)
  PROVE  /\ Restrict(m, S) \in Maps(V) /\ DOMAIN Restrict(m, S) = S
         /\ \A t \in S : Restrict(m, S)[t] = m[t]
<1>1. S \in SUBSET Sessions /\ \A t \in S : m[t] \in V
  BY MapIs
<1>2. Restrict(m, S) \in [S -> V] /\ DOMAIN Restrict(m, S) = S /\ \A t \in S : Restrict(m, S)[t] = m[t]
  BY <1>1 DEF Restrict
<1>. QED  BY <1>1, <1>2, IsMap

LEMMA StillThereMap ==
  ASSUME NEW V, NEW m \in Maps(V)
  PROVE  /\ StillThere(m) \in Maps(V) /\ DOMAIN StillThere(m) = DOMAIN m \cap DOMAIN current
         /\ \A t \in DOMAIN m \cap DOMAIN current : StillThere(m)[t] = m[t]
  BY RestrictMap DEF StillThere

\* The events of a set of sessions, in some order: one for each.
LEMMA EventsForIs ==
  ASSUME NEW type, NEW S, IsFiniteSet(S), NEW m
  PROVE  LET q == EventsFor(type, S, m)
             T == {Event(type, s, m[s]) : s \in S}
         IN  /\ q \in Seq(T) /\ Len(q) \in Nat
             /\ \A s \in S : \E i \in 1 .. Len(q) : q[i] = Event(type, s, m[s])
             /\ \A i \in 1 .. Len(q) : \E s \in S : q[i] = Event(type, s, m[s])
             /\ \A i, j \in 1 .. Len(q) : q[i] = q[j] => i = j
<1> DEFINE T == {Event(type, s, m[s]) : s \in S}
           f == [s \in S |-> Event(type, s, m[s])]
           q == EventsFor(type, S, m)
<1>1. f \in Surjection(S, T)
  <2>1. f \in [S -> T] /\ \A t \in T : \E s \in S : f[s] = t
    OBVIOUS
  <2>. QED  BY <2>1, Zenon DEF Surjection
<1>2. IsFiniteSet(T)
  BY <1>1, FS_Surjection
<1>3. Cardinality(T) \in Nat /\ ExistsBijection(1 .. Cardinality(T), T)
  BY <1>2, FS_CardinalityType
<1>4. q = CHOOSE g \in [1 .. Cardinality(T) -> T] : IsInjective(g)
  BY DEF EventsFor, SetToSeq
<1> HIDE DEF T, f, q
<1>5. PICK g \in [1 .. Cardinality(T) -> T] : (\A i, j \in 1 .. Cardinality(T) : g[i] = g[j] => i = j)
                                               /\ \A t \in T : \E i \in 1 .. Cardinality(T) : g[i] = t
  <2>1. PICK g : g \in Bijection(1 .. Cardinality(T), T)
    BY <1>3 DEF ExistsBijection
  <2>2. g \in [1 .. Cardinality(T) -> T] /\ (\A i, j \in 1 .. Cardinality(T) : g[i] = g[j] => i = j)
        /\ \A t \in T : \E i \in 1 .. Cardinality(T) : g[i] = t
    <3>1. g \in Injection(1 .. Cardinality(T), T) /\ g \in Surjection(1 .. Cardinality(T), T)
      BY <2>1 DEF Bijection
    <3>2. g \in [1 .. Cardinality(T) -> T] /\ \A i, j \in 1 .. Cardinality(T) : g[i] = g[j] => i = j
      BY <3>1 DEF Injection, IsInjective
    <3>3. \A t \in T : \E i \in 1 .. Cardinality(T) : g[i] = t
      BY <3>1, Zenon DEF Surjection
    <3>. QED  BY <3>2, <3>3
  <2>. QED  BY <2>2
<1>6. IsInjective(g)
  BY <1>5 DEF IsInjective
<1>7. q \in [1 .. Cardinality(T) -> T] /\ IsInjective(q)
  BY <1>4, <1>6
<1>8. q \in Seq(T) /\ Len(q) = Cardinality(T)
  BY <1>3, <1>7
<1>9. \A i, j \in 1 .. Len(q) : q[i] = q[j] => i = j
  BY <1>7, <1>8 DEF IsInjective
<1>10. q \in Surjection(1 .. Cardinality(T), T)
  <2>1. q \in Injection(1 .. Cardinality(T), T)
    BY <1>7, <1>8, <1>9 DEF Injection
  <2>2. IsFiniteSet(1 .. Cardinality(T)) /\ Cardinality(1 .. Cardinality(T)) = Cardinality(T)
    BY <1>3, FS_Interval
  <2>. QED  BY <1>2, <2>1, <2>2, FS_Injection
<1>11. \A t \in T : \E i \in 1 .. Len(q) : q[i] = t
  BY <1>8, <1>10, Zenon DEF Surjection
<1>12. \A s \in S : Event(type, s, m[s]) \in T
  BY DEF T
<1>13. \A i \in 1 .. Len(q) : \E s \in S : q[i] = Event(type, s, m[s])
  <2>1. \A i \in 1 .. Len(q) : q[i] \in T
    BY <1>7, <1>8
  <2>. QED  BY <2>1 DEF T
<1>. QED  BY <1>3, <1>8, <1>9, <1>11, <1>12, <1>13 DEF q, T

-----------------------------------------------------------------------------
(* One event, and a frame.                                                 *)

Screen ==
  [panel : [Sessions -> Seq(Entry)], window : Maps(Entry), connected : BOOLEAN, removed : SUBSET Sessions]

LEMMA FieldsSet ==
  ASSUME NEW rows \in Seq(Entry), NEW v \in Fields
  PROVE  /\ SetFirst(rows, "fields", v) \in Seq(Entry) /\ Len(SetFirst(rows, "fields", v)) = Len(rows)
         /\ rows # <<>> => SetFirst(rows, "fields", v)[1].live = rows[1].live
<1>1. CASE rows = <<>>
  BY <1>1 DEF SetFirst
<1>2. CASE rows # <<>>
  <2> DEFINE first == [rows[1] EXCEPT !.fields = v]
  <2>1. Head(rows) = rows[1] /\ rows[1] \in Entry /\ Tail(rows) \in Seq(Entry) /\ Len(rows) \in Nat \ {0}
        /\ Len(Tail(rows)) = Len(rows) - 1
    BY <1>2
  <2>2. first \in Entry /\ first.live = rows[1].live
    BY <2>1 DEF Entry, Fields
  <2>3. SetFirst(rows, "fields", v) = <<first>> \o Tail(rows)
    BY <1>2, <2>1 DEF SetFirst
  <2> HIDE DEF first
  <2>4. <<first>> \in Seq(Entry) /\ Len(<<first>>) = 1 /\ <<first>>[1] = first
    BY <2>2
  <2>5. /\ <<first>> \o Tail(rows) \in Seq(Entry) /\ Len(<<first>> \o Tail(rows)) = Len(rows)
        /\ (<<first>> \o Tail(rows))[1] = first
    BY <2>1, <2>4, ConcatProperties
  <2>. QED  BY <2>2, <2>3, <2>5
<1>. QED  BY <1>1, <1>2

LEMMA LiveSet ==
  ASSUME NEW rows \in Seq(Entry), NEW v \in Liveness
  PROVE  /\ SetFirst(rows, "live", v) \in Seq(Entry) /\ Len(SetFirst(rows, "live", v)) = Len(rows)
         /\ rows # <<>> => SetFirst(rows, "live", v)[1].live = v
<1>1. CASE rows = <<>>
  BY <1>1 DEF SetFirst
<1>2. CASE rows # <<>>
  <2> DEFINE first == [rows[1] EXCEPT !.live = v]
  <2>1. Head(rows) = rows[1] /\ rows[1] \in Entry /\ Tail(rows) \in Seq(Entry) /\ Len(rows) \in Nat \ {0}
        /\ Len(Tail(rows)) = Len(rows) - 1
    BY <1>2
  <2>2. first \in Entry /\ first.live = v
    BY <2>1 DEF Entry
  <2>3. SetFirst(rows, "live", v) = <<first>> \o Tail(rows)
    BY <1>2, <2>1 DEF SetFirst
  <2> HIDE DEF first
  <2>4. <<first>> \in Seq(Entry) /\ Len(<<first>>) = 1 /\ <<first>>[1] = first
    BY <2>2
  <2>5. /\ <<first>> \o Tail(rows) \in Seq(Entry) /\ Len(<<first>> \o Tail(rows)) = Len(rows)
        /\ (<<first>> \o Tail(rows))[1] = first
    BY <2>1, <2>4, ConcatProperties
  <2>. QED  BY <2>2, <2>3, <2>5
<1>. QED  BY <1>1, <1>2

LEMMA RowAdded ==
  ASSUME NEW rows \in Seq(Entry), NEW v \in Fields
  PROVE  /\ AddSession(rows, v) \in Seq(Entry) /\ Len(AddSession(rows, v)) = Len(rows) + 1
  BY DEF AddSession, Entry, Fields

LEMMA WindowTold ==
  ASSUME NEW w \in Maps(Entry), NEW s \in Sessions
  PROVE  /\ \A v \in Fields : TellWindow(w, s, "fields", v) \in Maps(Entry)
         /\ \A v \in Liveness : TellWindow(w, s, "live", v) \in Maps(Entry)
<1>1. ASSUME NEW v \in Fields PROVE TellWindow(w, s, "fields", v) \in Maps(Entry)
  <2>1. CASE s \notin DOMAIN w
    BY <2>1 DEF TellWindow
  <2>2. CASE s \in DOMAIN w
    <3>1. w[s] \in Entry
      BY <2>2, MapIs
    <3> DEFINE new == [w[s] EXCEPT !.fields = v]
    <3>2. new \in Entry
      BY <3>1 DEF Entry, Fields
    <3>3. TellWindow(w, s, "fields", v) = Put(w, s, new)
      BY <2>2 DEF TellWindow
    <3> HIDE DEF new
    <3>4. Put(w, s, new) \in Maps(Entry)
      BY <3>2, PutMap
    <3>. QED  BY <3>3, <3>4
  <2>. QED  BY <2>1, <2>2
<1>2. ASSUME NEW v \in Liveness PROVE TellWindow(w, s, "live", v) \in Maps(Entry)
  <2>1. CASE s \notin DOMAIN w
    BY <2>1 DEF TellWindow
  <2>2. CASE s \in DOMAIN w
    <3>1. w[s] \in Entry
      BY <2>2, MapIs
    <3> DEFINE new == [w[s] EXCEPT !.live = v]
    <3>2. new \in Entry
      BY <3>1 DEF Entry
    <3>3. TellWindow(w, s, "live", v) = Put(w, s, new)
      BY <2>2 DEF TellWindow
    <3> HIDE DEF new
    <3>4. Put(w, s, new) \in Maps(Entry)
      BY <3>2, PutMap
    <3>. QED  BY <3>3, <3>4
  <2>. QED  BY <2>1, <2>2
<1>. QED  BY <1>1, <1>2

\* What an event does to the rows of a session.
RowsAfter(rows, e, s) ==
  IF e.session # s \/ e.type = "Connected" THEN rows
  ELSE CASE e.type = "Appeared" -> AddSession(rows, e.value)
         [] e.type = "Disappeared" -> <<>>
         [] e.type = "MetaUpdated" -> SetFirst(rows, "fields", e.value)
         [] OTHER -> SetFirst(rows, "live", e.value)

LEMMA EventIs ==
  ASSUME NEW e \in Events
  PROVE  /\ e.type \in RowKinds \cup {"Connected", "MetaUpdated", "StatusChanged"}
         /\ e.type # "Connected" => e.session \in Sessions
         /\ e.type \in RowKinds \cup {"MetaUpdated"} => e.value \in Fields
         /\ e.type = "StatusChanged" => e.value \in Liveness
  BY DEF Events, Announced, Changed, Probed, RowKinds

LEMMA HandleIs ==
  ASSUME NEW u \in Screen, NEW e \in Events
  PROVE  LET v == Handle(u, e)
         IN  /\ v \in Screen
             /\ v.connected = (u.connected \/ e.type = "Connected")
             /\ v.removed = IF e.type = "Appeared" THEN u.removed \ {e.session} ELSE u.removed
             /\ \A s \in Sessions : v.panel[s] = RowsAfter(u.panel[s], e, s)
<1> DEFINE x == e.session  v == Handle(u, e)
<1>1. /\ u.panel \in [Sessions -> Seq(Entry)] /\ u.window \in Maps(Entry) /\ u.connected \in BOOLEAN
      /\ u.removed \in SUBSET Sessions
  BY DEF Screen
<1>2. CASE e.type = "Connected"
  <2>1. v = [u EXCEPT !.connected = TRUE]
    BY <1>2 DEF Handle
  <2>2. v \in Screen /\ v.connected = TRUE /\ v.removed = u.removed /\ v.panel = u.panel
    BY <2>1 DEF Screen
  <2>. QED  BY <1>2, <2>2 DEF RowsAfter
<1>3. CASE e.type = "Appeared"
  <2>1. x \in Sessions /\ e.value \in Fields
    BY <1>3, EventIs DEF RowKinds
  <2>2. AddSession(u.panel[x], e.value) \in Seq(Entry)
    BY <1>1, <2>1, RowAdded
  <2>3. v = [u EXCEPT !.panel = [u.panel EXCEPT ![x] = AddSession(u.panel[x], e.value)], !.removed = u.removed \ {x}]
    BY <1>3 DEF Handle
  <2>4. [u.panel EXCEPT ![x] = AddSession(u.panel[x], e.value)] \in [Sessions -> Seq(Entry)]
        /\ u.removed \ {x} \in SUBSET Sessions
    BY <1>1, <2>1, <2>2
  <2>5. /\ v \in Screen /\ v.connected = u.connected /\ v.removed = u.removed \ {x}
        /\ v.panel = [u.panel EXCEPT ![x] = AddSession(u.panel[x], e.value)]
    BY <2>3, <2>4 DEF Screen
  <2>6. \A s \in Sessions : v.panel[s] = RowsAfter(u.panel[s], e, s)
    BY <1>1, <1>3, <2>1, <2>5 DEF RowsAfter
  <2>. QED  BY <1>1, <1>3, <2>5, <2>6
<1>4. CASE e.type = "Disappeared"
  <2>1. x \in Sessions
    BY <1>4, EventIs DEF RowKinds
  <2>3. v = [u EXCEPT !.panel = [u.panel EXCEPT ![x] = <<>>]]
    BY <1>4 DEF Handle
  <2>4. [u.panel EXCEPT ![x] = <<>>] \in [Sessions -> Seq(Entry)]
    BY <1>1, <2>1
  <2>5. /\ v \in Screen /\ v.connected = u.connected /\ v.removed = u.removed
        /\ v.panel = [u.panel EXCEPT ![x] = <<>>]
    BY <2>3, <2>4 DEF Screen
  <2>6. \A s \in Sessions : v.panel[s] = RowsAfter(u.panel[s], e, s)
    BY <1>1, <1>4, <2>1, <2>5 DEF RowsAfter
  <2>. QED  BY <1>1, <1>4, <2>5, <2>6
<1>5. CASE e.type = "MetaUpdated"
  <2>1. x \in Sessions /\ e.value \in Fields
    BY <1>5, EventIs
  <2>2. SetFirst(u.panel[x], "fields", e.value) \in Seq(Entry)
        /\ TellWindow(u.window, x, "fields", e.value) \in Maps(Entry)
    BY <1>1, <2>1, FieldsSet, WindowTold
  <2>3. v = [u EXCEPT !.panel = [u.panel EXCEPT ![x] = SetFirst(u.panel[x], "fields", e.value)],
                      !.window = TellWindow(u.window, x, "fields", e.value)]
    BY <1>5 DEF Handle
  <2>4. [u.panel EXCEPT ![x] = SetFirst(u.panel[x], "fields", e.value)] \in [Sessions -> Seq(Entry)]
    BY <1>1, <2>1, <2>2
  <2>5. /\ v \in Screen /\ v.connected = u.connected /\ v.removed = u.removed
        /\ v.panel = [u.panel EXCEPT ![x] = SetFirst(u.panel[x], "fields", e.value)]
    BY <2>2, <2>3, <2>4 DEF Screen
  <2>6. \A s \in Sessions : v.panel[s] = RowsAfter(u.panel[s], e, s)
    BY <1>1, <1>5, <2>1, <2>5 DEF RowsAfter
  <2>. QED  BY <1>1, <1>5, <2>5, <2>6
<1>6. CASE e.type = "StatusChanged"
  <2>1. x \in Sessions /\ e.value \in Liveness
    BY <1>6, EventIs
  <2>2. SetFirst(u.panel[x], "live", e.value) \in Seq(Entry)
        /\ TellWindow(u.window, x, "live", e.value) \in Maps(Entry)
    BY <1>1, <2>1, LiveSet, WindowTold
  <2>3. v = [u EXCEPT !.panel = [u.panel EXCEPT ![x] = SetFirst(u.panel[x], "live", e.value)],
                      !.window = TellWindow(u.window, x, "live", e.value)]
    BY <1>6 DEF Handle
  <2>4. [u.panel EXCEPT ![x] = SetFirst(u.panel[x], "live", e.value)] \in [Sessions -> Seq(Entry)]
    BY <1>1, <2>1, <2>2
  <2>5. /\ v \in Screen /\ v.connected = u.connected /\ v.removed = u.removed
        /\ v.panel = [u.panel EXCEPT ![x] = SetFirst(u.panel[x], "live", e.value)]
    BY <2>2, <2>3, <2>4 DEF Screen
  <2>6. \A s \in Sessions : v.panel[s] = RowsAfter(u.panel[s], e, s)
    BY <1>1, <1>6, <2>1, <2>5 DEF RowsAfter
  <2>. QED  BY <1>1, <1>6, <2>5, <2>6
<1>. QED  BY <1>2, <1>3, <1>4, <1>5, <1>6, EventIs DEF RowKinds

LEMMA HandleHistory ==
  ASSUME NEW start \in Screen, NEW q \in Seq(Events)
  PROVE  \E h \in [0 .. Len(q) -> Screen] :
           /\ h[0] = start /\ h[Len(q)] = FoldLeft(Handle, start, q)
           /\ \A i \in 1 .. Len(q) : h[i] = Handle(h[i - 1], q[i])
<1> DEFINE n == Len(q)
           F == [p \in Screen \X (1 .. n) |-> Handle(p[1], q[p[2]])]
           Eqn(g) == g = [s \in SUBSET (1 .. n) |->
                            IF s = {} THEN start ELSE Handle(g[s \ {Max(s)}], q[Max(s)])]
           it == CHOOSE g : Eqn(g)
           V == Screen \cup {it[s] : s \in SUBSET (1 .. n)}
           G == [p \in V \X (1 .. n) |-> Handle(p[1], q[p[2]])]
<1>1. n \in Nat /\ DOMAIN q = 1 .. n /\ \A i \in 1 .. n : q[i] \in Events
  BY LenProperties
<1>2. FoldLeft(Handle, start, q) = it[1 .. n]
  BY <1>1 DEF FoldLeft, MapThenFoldSet
<1>3. \A s : Max(s) = Top(s)
  BY DEF Max, Top
<1>4. start \in Screen /\ \A c \in Screen, i \in 1 .. n : Handle(c, q[i]) \in Screen
  <2> HIDE DEF n
  <2>. QED  BY <1>1, HandleIs
<1> HIDE DEF n
<1>5. \A s \in SUBSET (1 .. n) : s # {} => Top(s) \in 1 .. n /\ s \ {Top(s)} \in SUBSET (1 .. n)
  BY <1>1, TopInterval
<1>6. F \in [Screen \X (1 .. n) -> Screen] /\ \A c \in Screen, i \in 1 .. n : F[<<c, i>>] = Handle(c, q[i])
  <2>1. ASSUME NEW p \in Screen \X (1 .. n) PROVE Handle(p[1], q[p[2]]) \in Screen
    <3>1. p[1] \in Screen /\ p[2] \in 1 .. n
      OBVIOUS
    <3>. QED  BY <1>4, <3>1
  <2>2. ASSUME NEW c \in Screen, NEW i \in 1 .. n PROVE F[<<c, i>>] = Handle(c, q[i])
    <3>1. <<c, i>> \in Screen \X (1 .. n) /\ <<c, i>>[1] = c /\ <<c, i>>[2] = i
      OBVIOUS
    <3>. QED  BY <3>1, Zenon
  <2>. QED  BY <2>1, <2>2, Zenon
<1>7. \E g : Eqn(g)
  <2>1. PICK g : Iterates(g, Screen, F, start, n)
    <3> HIDE DEF F
    <3>. QED  BY <1>1, <1>4, <1>6, IterationExists
  <2>2. /\ g \in [SUBSET (1 .. n) -> Screen]
        /\ \A s \in SUBSET (1 .. n) : g[s] = IF s = {} THEN start ELSE F[<<g[s \ {Top(s)}], Top(s)>>]
    BY <2>1, Zenon DEF Iterates
  <2>3. ASSUME NEW s \in SUBSET (1 .. n)
        PROVE  g[s] = IF s = {} THEN start ELSE Handle(g[s \ {Max(s)}], q[Max(s)])
    <3>1. CASE s = {}
      BY <2>2, <3>1, Zenon
    <3>2. CASE s # {}
      <4>1. Top(s) \in 1 .. n /\ g[s \ {Top(s)}] \in Screen
        <5> HIDE DEF F
        <5>. QED  BY <1>5, <2>2, <3>2
      <4>2. F[<<g[s \ {Top(s)}], Top(s)>>] = Handle(g[s \ {Top(s)}], q[Top(s)])
        BY <1>6, <4>1, Zenon
      <4>. QED  BY <1>3, <2>2, <3>2, <4>2, Zenon
    <3>. QED  BY <3>1, <3>2, Zenon
  <2>4. g = [s \in SUBSET (1 .. n) |-> g[s]]
    BY <2>2, Zenon
  <2>5. Eqn(g)
    BY <2>3, <2>4, Zenon
  <2>. QED  BY <2>5, Zenon
<1>8. Eqn(it)
  BY <1>7, Zenon
<1> HIDE DEF it
<1>9. \A c \in V, i \in 1 .. n : G[<<c, i>>] = Handle(c, q[i])
  <2>1. ASSUME NEW c \in V, NEW i \in 1 .. n PROVE G[<<c, i>>] = Handle(c, q[i])
    <3> HIDE DEF V
    <3>1. <<c, i>> \in V \X (1 .. n) /\ <<c, i>>[1] = c /\ <<c, i>>[2] = i
      OBVIOUS
    <3>. QED  BY <3>1, Zenon
  <2>. QED  BY <2>1
<1>10. \A s \in SUBSET (1 .. n) : it[s] = IF s = {} THEN start ELSE G[<<it[s \ {Top(s)}], Top(s)>>]
  <2> SUFFICES ASSUME NEW s \in SUBSET (1 .. n)
               PROVE  it[s] = IF s = {} THEN start ELSE G[<<it[s \ {Top(s)}], Top(s)>>]
    OBVIOUS
  <2>1. it[s] = IF s = {} THEN start ELSE Handle(it[s \ {Top(s)}], q[Top(s)])
    BY <1>3, <1>8, Zenon
  <2>2. CASE s # {}
    <3>1. Top(s) \in 1 .. n /\ it[s \ {Top(s)}] \in V
      BY <1>5, <2>2, Zenon
    <3> HIDE DEF V, G
    <3>. QED  BY <1>9, <2>1, <2>2, <3>1, Zenon
  <2>. QED  BY <2>1, <2>2, Zenon
<1>11. \A c \in Screen, i \in 1 .. n : G[<<c, i>>] = Handle(c, q[i]) /\ G[<<c, i>>] \in Screen
  BY <1>4, <1>9, Zenon
<1> HIDE DEF V, G
<1>12. PICK h \in [0 .. n -> Screen] : History(h, G, start, n) /\ h[n] = it[1 .. n]
  <2>1. Keeps(G, Screen, n) /\ Unfolds(it, G, start, n)
    BY <1>10, <1>11, Zenon DEF Keeps, Unfolds
  <2>2. start \in Screen /\ n \in Nat
    BY <1>1, <1>4, Zenon
  <2>3. Iteration(Screen, start, n, G, it)
    BY <2>1, <2>2, Zenon DEF Iteration
  <2>. QED  BY <2>3, IterationHistory
<1>13. ASSUME NEW i \in 1 .. n PROVE h[i] = Handle(h[i - 1], q[i])
  <2>1. i - 1 \in 0 .. n /\ h[i - 1] \in Screen
    BY <1>1
  <2>. QED  BY <1>11, <1>12, <2>1, Zenon DEF History
<1>. QED  BY <1>2, <1>12, <1>13, Zenon DEF n, History

LEMMA FrameIs ==
  ASSUME DiscoveryTypes, Frame
  PROVE  \E h \in [0 .. Len(events) -> Screen] :
           /\ h[0] = [panel |-> panel, window |-> window, connected |-> connected, removed |-> removed]
           /\ h[Len(events)].panel = panel' /\ h[Len(events)].connected = connected'
           /\ h[Len(events)].removed = removed' /\ h[Len(events)].window = window'
           /\ \A i \in 1 .. Len(events) : h[i] = Handle(h[i - 1], events[i])
<1> DEFINE start == [panel |-> panel, window |-> window, connected |-> connected, removed |-> removed]
<1>1. start \in Screen /\ events \in Seq(Events)
  BY DEF DiscoveryTypes, MapTypes, OtherTypes, Screen
<1>2. /\ panel' = FoldLeft(Handle, start, events).panel /\ window' = FoldLeft(Handle, start, events).window
      /\ connected' = FoldLeft(Handle, start, events).connected
      /\ removed' = FoldLeft(Handle, start, events).removed
  BY Zenon DEF Frame
<1> HIDE DEF start
<1>3. PICK h \in [0 .. Len(events) -> Screen] :
        /\ h[0] = start /\ h[Len(events)] = FoldLeft(Handle, start, events)
        /\ \A i \in 1 .. Len(events) : h[i] = Handle(h[i - 1], events[i])
  BY <1>1, HandleHistory
<1>. QED  BY <1>2, <1>3, Zenon DEF start

LEMMA Finite == \A S, T : IsFiniteSet(S) /\ T \subseteq S => IsFiniteSet(T)
  BY FS_Subset

LEMMA DiffIs ==
  ASSUME DiscoveryTypes, Diff
  PROVE  /\ outbox' = EventsFor("Appeared", DOMAIN current \ DOMAIN known, current)
                      \o EventsFor("Disappeared", DOMAIN known \ DOMAIN current, known)
                      \o EventsFor("MetaUpdated", Settled, pendingMeta)
         /\ EventsFor("Appeared", DOMAIN current \ DOMAIN known, current) \in Seq(Events)
         /\ EventsFor("Disappeared", DOMAIN known \ DOMAIN current, known) \in Seq(Events)
         /\ EventsFor("MetaUpdated", Settled, pendingMeta) \in Seq(Events)
         /\ IsFiniteSet(DOMAIN current \ DOMAIN known) /\ IsFiniteSet(DOMAIN known \ DOMAIN current)
         /\ IsFiniteSet(Settled)
<1> USE DEF DiscoveryTypes
<1>1. IsFiniteSet(DOMAIN current) /\ IsFiniteSet(DOMAIN known) /\ Settled \subseteq DOMAIN current
  BY DEF FiniteMaps, Settled, Both
<1>2. /\ IsFiniteSet(DOMAIN current \ DOMAIN known) /\ IsFiniteSet(DOMAIN known \ DOMAIN current)
      /\ IsFiniteSet(Settled)
  BY <1>1, Finite
<1>3. /\ \A s \in DOMAIN current : s \in Sessions /\ current[s] \in Fields
      /\ \A s \in DOMAIN known : s \in Sessions /\ known[s] \in Fields
      /\ \A s \in Settled : s \in Sessions /\ pendingMeta[s] \in Fields
  <2>1. Settled \subseteq DOMAIN pendingMeta
    BY DEF Settled, MapTypes
  <2>. QED  BY <2>1, MapIs DEF MapTypes
<1>4. ASSUME NEW type \in RowKinds \cup {"MetaUpdated"}, NEW s \in Sessions, NEW v \in Fields
      PROVE  Event(type, s, v) \in Events
  BY DEF Event, Events, Changed
<1>5. EventsFor("Appeared", DOMAIN current \ DOMAIN known, current) \in Seq(Events)
  <2> DEFINE S == DOMAIN current \ DOMAIN known
             T == {Event("Appeared", s, current[s]) : s \in S}
  <2>1. IsFiniteSet(S) /\ T \subseteq Events
    BY <1>2, <1>3, <1>4 DEF RowKinds
  <2>2. EventsFor("Appeared", S, current) \in Seq(T)
    <3> HIDE DEF S
    <3>. QED  BY <2>1, EventsForIs
  <2> HIDE DEF T
  <2>. QED  BY <2>1, <2>2, SeqMonotonic
<1>6. EventsFor("Disappeared", DOMAIN known \ DOMAIN current, known) \in Seq(Events)
  <2> DEFINE S == DOMAIN known \ DOMAIN current
             T == {Event("Disappeared", s, known[s]) : s \in S}
  <2>1. IsFiniteSet(S) /\ T \subseteq Events
    BY <1>2, <1>3, <1>4 DEF RowKinds
  <2>2. EventsFor("Disappeared", S, known) \in Seq(T)
    <3> HIDE DEF S
    <3>. QED  BY <2>1, EventsForIs
  <2> HIDE DEF T
  <2>. QED  BY <2>1, <2>2, SeqMonotonic
<1>7. EventsFor("MetaUpdated", Settled, pendingMeta) \in Seq(Events)
  <2> DEFINE S == Settled
             T == {Event("MetaUpdated", s, pendingMeta[s]) : s \in S}
  <2>1. IsFiniteSet(S) /\ T \subseteq Events
    BY <1>2, <1>3, <1>4 DEF RowKinds
  <2>2. EventsFor("MetaUpdated", S, pendingMeta) \in Seq(T)
    <3> HIDE DEF S
    <3>. QED  BY <2>1, EventsForIs
  <2> HIDE DEF T
  <2>. QED  BY <2>1, <2>2, SeqMonotonic
<1>. QED  BY <1>2, <1>5, <1>6, <1>7 DEF Diff

LEMMA TypesKept == DiscoveryTypes /\ [Next]_vars => DiscoveryTypes'
<1> SUFFICES ASSUME DiscoveryTypes, [Next]_vars PROVE DiscoveryTypes'
  OBVIOUS
<1> USE DEF DiscoveryTypes
<1> USE DiscoveryAssumption
<1>0. 0 \in Fields /\ \A v \in Fields : v < MaxFields => v + 1 \in Fields
  BY DEF Fields
<1>a. /\ registry \in Maps(Fields) /\ current \in Maps(Fields) /\ known \in Maps(Fields)
      /\ prevCount \in Maps(Fields) /\ pendingMeta \in Maps(Fields)
      /\ prevLiveness \in Maps(Liveness) /\ window \in Maps(Entry)
  BY DEF MapTypes
<1>b. Empty \in Maps(Fields) /\ Empty \in Maps(Liveness) /\ Empty \in Maps(Entry) /\ DOMAIN Empty = {}
  BY EmptyMap
<1>c. IsFiniteSet(DOMAIN Empty)
  BY <1>b, FS_EmptySet
<1>1. ASSUME NEW s \in Sessions, Appear(s) PROVE DiscoveryTypes'
  <2>1. registry' \in Maps(Fields) /\ DOMAIN registry' = DOMAIN registry \cup {s}
    BY <1>0, <1>a, <1>1, PutMap DEF Appear
  <2>2. MapTypes'
    BY <1>1, <2>1 DEF Appear, MapTypes, cycle, tracked, ui
  <2>3. FiniteMaps'
    BY <1>1, <2>1, FS_AddElement DEF Appear, FiniteMaps, cycle, tracked, ui
  <2>4. OtherTypes'
    BY <1>1 DEF Appear, OtherTypes, cycle, tracked, ui
  <2>. QED  BY <2>2, <2>3, <2>4
<1>2. ASSUME NEW s \in Sessions, RegisterField(s) PROVE DiscoveryTypes'
  <2>0. s \in DOMAIN registry /\ registry[s] \in Fields /\ registry[s] < MaxFields
    BY <1>a, <1>2, MapIs DEF RegisterField
  <2>1. registry' \in Maps(Fields) /\ DOMAIN registry' = DOMAIN registry \cup {s}
    <3> DEFINE n == registry[s] + 1
    <3>1. n \in Fields
      BY <1>0, <2>0
    <3>2. registry' = Put(registry, s, n)
      BY <1>2 DEF RegisterField
    <3> HIDE DEF n
    <3>. QED  BY <1>a, <3>1, <3>2, PutMap
  <2>2. MapTypes'
    BY <1>2, <2>1 DEF RegisterField, MapTypes, cycle, tracked, ui
  <2>3. FiniteMaps'
    BY <1>2, <2>1, FS_AddElement DEF RegisterField, FiniteMaps, cycle, tracked, ui
  <2>4. OtherTypes'
    BY <1>2 DEF RegisterField, OtherTypes, cycle, tracked, ui
  <2>. QED  BY <2>2, <2>3, <2>4
<1>3. ASSUME NEW s \in Sessions, Delete(s) PROVE DiscoveryTypes'
  <2>1. [panel EXCEPT ![s] = <<>>] \in [Sessions -> Seq(Entry)]
    BY DEF OtherTypes
  <2>2. MapTypes' /\ FiniteMaps'
    BY <1>3 DEF Delete, MapTypes, FiniteMaps, cycle, tracked, ui
  <2>3. OtherTypes'
    BY <1>3, <2>1 DEF Delete, OtherTypes, cycle, tracked, ui
  <2>. QED  BY <2>2, <2>3
<1>4. CASE DeleteChannel
  <2>1. registry' \in Maps(Fields) /\ IsFiniteSet(DOMAIN registry')
    BY <1>4, <1>a, <1>b, <1>c DEF DeleteChannel, FiniteMaps
  <2>2. MapTypes' /\ FiniteMaps'
    BY <1>4, <2>1 DEF DeleteChannel, MapTypes, FiniteMaps, cycle, tracked, ui
  <2>3. [s \in Sessions |-> <<>>] \in [Sessions -> Seq(Entry)]
    OBVIOUS
  <2>4. OtherTypes'
    BY <1>4, <2>3 DEF DeleteChannel, OtherTypes, cycle, tracked, ui
  <2>. QED  BY <2>2, <2>4
<1>5. CASE List \/ ListFails
  <2>1. current' \in Maps(Fields) /\ IsFiniteSet(DOMAIN current')
    BY <1>5, <1>a, <1>b, <1>c DEF List, ListFails, cycle, FiniteMaps
  <2>2. MapTypes' /\ FiniteMaps'
    BY <1>5, <2>1 DEF List, ListFails, MapTypes, FiniteMaps, broker, cycle, ui
  <2>3. Event("Connected", "", 0) \in Events
    BY DEF Event, Events, Announced
  <2>4. events' \in Seq(Events)
    <3>1. events \in Seq(Events)
      BY DEF OtherTypes
    <3>2. \A e \in Events : Append(events, e) \in Seq(Events)
      BY <3>1
    <3>. QED  BY <1>5, <2>3, <3>1, <3>2, Zenon DEF List, ListFails
  <2>5. OtherTypes'
    <3>1. /\ at' \in {"scan", "diff"} /\ everConnected' = TRUE /\ probed = {}
          /\ UNCHANGED <<deleted, probed, main, connected, panel, removed, outbox>>
      BY <1>5 DEF List, ListFails, broker, cycle, ui, OtherTypes
    <3>2. everConnected' \in BOOLEAN
      BY <3>1, Zenon
    <3>. QED  BY <2>4, <3>1, <3>2 DEF OtherTypes
  <2>. QED  BY <2>2, <2>5
<1>6. CASE Scan \/ PartialScan
  <2>1. current' \in Maps(Fields) /\ IsFiniteSet(DOMAIN current')
    <3>1. CASE Scan
      <4>1. DOMAIN registry \ deleted \in SUBSET DOMAIN registry
        OBVIOUS
      <4>2. current' \in Maps(Fields) /\ DOMAIN current' = DOMAIN registry \ deleted
        BY <1>a, <3>1, <4>1, RestrictMap DEF Scan
      <4>. QED  BY <4>2, Finite DEF FiniteMaps
    <3>2. CASE PartialScan
      <4>1. PICK S \in SUBSET DOMAIN registry : current' \in [S -> Fields]
        BY <3>2 DEF PartialScan, Fields
      <4>2. S \in SUBSET Sessions /\ DOMAIN current' = S
        BY <1>a, <4>1, MapIs
      <4>. QED  BY <4>1, <4>2, IsMap, Finite DEF FiniteMaps
    <3>. QED  BY <1>6, <3>1, <3>2
  <2>2. MapTypes' /\ FiniteMaps'
    BY <1>6, <2>1 DEF Scan, PartialScan, MapTypes, FiniteMaps, broker, tracked, ui
  <2>3. OtherTypes'
    BY <1>6 DEF Scan, PartialScan, OtherTypes, broker, tracked, ui
  <2>. QED  BY <2>2, <2>3
<1>7. CASE Diff
  <2>1. outbox' \in Seq(Events)
    <3>1. \A q, r \in Seq(Events) : q \o r \in Seq(Events)
      BY ConcatProperties
    <3>. QED  BY <1>7, <3>1, DiffIs
  <2>2. Both \subseteq DOMAIN current /\ Grown \subseteq Both /\ Settled \subseteq Both
    BY DEF Both, Grown, Settled
  <2>3. \A s \in DOMAIN current : s \in Sessions /\ current[s] \in Fields
    BY <1>a, MapIs
  <2> DEFINE counts == [s \in DOMAIN prevCount \cup Both |->
                          IF s \in Grown \/ s \notin DOMAIN prevCount THEN current[s] ELSE prevCount[s]]
             left == (DOMAIN pendingMeta \ Fired(Settled)) \cup Grown
             grown == [s \in left |-> IF s \in Grown THEN LastGrowth(s) ELSE pendingMeta[s]]
  <2>4. counts \in Maps(Fields) /\ DOMAIN counts = DOMAIN prevCount \cup Both
    <3>1. \A s \in DOMAIN prevCount : s \in Sessions /\ prevCount[s] \in Fields
      BY <1>a, MapIs
    <3>2. DOMAIN prevCount \cup Both \in SUBSET Sessions
      BY <2>2, <2>3, <3>1
    <3>3. counts \in [DOMAIN prevCount \cup Both -> Fields]
      BY <2>2, <2>3, <3>1
    <3> HIDE DEF counts
    <3>. QED  BY <3>2, <3>3, IsMap
  <2>5. grown \in Maps(Fields) /\ DOMAIN grown = left /\ left \subseteq DOMAIN prevCount \cup Both
    <3>1. \A s \in DOMAIN pendingMeta : s \in Sessions /\ pendingMeta[s] \in Fields /\ s \in DOMAIN prevCount
      BY <1>a, MapIs DEF MapTypes
    <3>2. left \in SUBSET Sessions /\ left \subseteq DOMAIN prevCount \cup Both
          /\ \A s \in left : s \in Grown \/ s \in DOMAIN pendingMeta
      BY <2>2, <2>3, <3>1
    <3>3. grown \in [left -> Fields]
      <4> HIDE DEF left
      <4>. QED  BY <2>2, <2>3, <3>1, <3>2 DEF LastGrowth
    <3> HIDE DEF grown, left
    <3>. QED  BY <3>2, <3>3, IsMap
  <2>6. /\ prevCount' = StillThere(counts) /\ pendingMeta' = StillThere(grown)
        /\ expired' = (expired \cap left \cap DOMAIN current) \ Grown
        /\ UNCHANGED <<broker, stopRequested, current, known, prevLiveness, everConnected, events, ui>>
        /\ at' = "probe" /\ probed' = {}
    BY <1>7, Zenon DEF Diff
  <2> HIDE DEF counts, left, grown
  <2>7. /\ prevCount' \in Maps(Fields) /\ DOMAIN prevCount' = (DOMAIN prevCount \cup Both) \cap DOMAIN current
        /\ pendingMeta' \in Maps(Fields) /\ DOMAIN pendingMeta' = left \cap DOMAIN current
    BY <2>4, <2>5, <2>6, StillThereMap
  <2>8. MapTypes'
    BY <2>5, <2>6, <2>7 DEF MapTypes, broker, ui
  <2>9. FiniteMaps' /\ OtherTypes'
    BY <2>1, <2>6 DEF FiniteMaps, OtherTypes, broker, ui
  <2>. QED  BY <2>8, <2>9
<1>8. CASE PushEvent
  <2>1. Head(outbox) \in Events /\ Tail(outbox) \in Seq(Events) /\ events \in Seq(Events)
    BY <1>8 DEF PushEvent, OtherTypes
  <2>2. events' \in Seq(Events) /\ outbox' \in Seq(Events)
    BY <1>8, <2>1 DEF PushEvent
  <2>3. MapTypes' /\ FiniteMaps'
    BY <1>8 DEF PushEvent, MapTypes, FiniteMaps, broker, tracked, ui
  <2>4. OtherTypes'
    BY <1>8, <2>2 DEF PushEvent, OtherTypes, broker, tracked, ui
  <2>. QED  BY <2>3, <2>4
<1>9. ASSUME NEW s \in Sessions, Probe(s) PROVE DiscoveryTypes'
  <2>1. PICK l \in Liveness : /\ prevLiveness' = Put(prevLiveness, s, l)
                              /\ outbox' = <<>> \/ outbox' = <<Event("StatusChanged", s, l)>>
    BY <1>9 DEF Probe
  <2>2. prevLiveness' \in Maps(Liveness)
    BY <1>a, <2>1, PutMap
  <2>3. Event("StatusChanged", s, l) \in Events
    BY DEF Event, Events, Probed
  <2>4. outbox' \in Seq(Events)
    <3>1. \A e \in Events : <<e>> \in Seq(Events)
      OBVIOUS
    <3>. QED  BY <2>1, <2>3, <3>1, EmptySeq, Zenon
  <2>5. MapTypes' /\ FiniteMaps'
    BY <1>9, <2>2 DEF Probe, MapTypes, FiniteMaps, broker, ui
  <2>6. OtherTypes'
    BY <1>9, <2>4 DEF Probe, OtherTypes, broker, ui
  <2>. QED  BY <2>5, <2>6
<1>10. CASE EndCycle
  <2>1. prevLiveness' \in Maps(Liveness)
    BY <1>a, <1>10, StillThereMap DEF EndCycle
  <2>2. MapTypes' /\ FiniteMaps'
    BY <1>10, <1>b, <1>c, <2>1 DEF EndCycle, MapTypes, FiniteMaps, broker, ui
  <2>3. OtherTypes'
    BY <1>10 DEF EndCycle, OtherTypes, broker, ui
  <2>. QED  BY <2>2, <2>3
<1>11. CASE Wake
  <2>1. MapTypes' /\ FiniteMaps'
    BY <1>11 DEF Wake, MapTypes, FiniteMaps, broker, cycle, tracked, ui
  <2>2. OtherTypes'
    BY <1>11 DEF Wake, OtherTypes, broker, cycle, tracked, ui
  <2>. QED  BY <2>1, <2>2
<1>12. ASSUME NEW s \in Sessions, Expire(s) PROVE DiscoveryTypes'
  <2>1. MapTypes' /\ FiniteMaps'
    BY <1>12 DEF Expire, MapTypes, FiniteMaps, broker, cycle, ui
  <2>2. OtherTypes'
    BY <1>12 DEF Expire, OtherTypes, broker, cycle, ui
  <2>. QED  BY <2>1, <2>2
<1>13. CASE Frame
  <2>1. PICK h \in [0 .. Len(events) -> Screen] :
           /\ h[Len(events)].panel = panel' /\ h[Len(events)].connected = connected'
           /\ h[Len(events)].removed = removed' /\ h[Len(events)].window = window'
    BY <1>13, FrameIs
  <2>2. h[Len(events)] \in Screen
    BY DEF OtherTypes
  <2>3. panel' \in [Sessions -> Seq(Entry)] /\ window' \in Maps(Entry) /\ removed' \in SUBSET Sessions
        /\ connected' \in BOOLEAN
    BY <2>1, <2>2 DEF Screen
  <2>4. MapTypes' /\ FiniteMaps'
    BY <1>13, <2>3 DEF Frame, MapTypes, FiniteMaps, broker, cycle, tracked
  <2>5. OtherTypes'
    BY <1>13, <2>3 DEF Frame, OtherTypes, broker, cycle, tracked
  <2>. QED  BY <2>4, <2>5
<1>14. ASSUME NEW s \in Sessions, Open(s) \/ CloseWindow(s) PROVE DiscoveryTypes'
  <2>1. window' \in Maps(Entry)
    <3>1. CASE Open(s)
      <4>1. Head(panel[s]) \in Entry
        BY <3>1 DEF Open, OtherTypes
      <4>. QED  BY <1>a, <3>1, <4>1, PutMap DEF Open, OpenRequest
    <3>2. CASE CloseWindow(s)
      <4>1. DOMAIN window \ {s} \in SUBSET DOMAIN window
        OBVIOUS
      <4>. QED  BY <1>a, <3>2, <4>1, RestrictMap DEF CloseWindow
    <3>. QED  BY <1>14, <3>1, <3>2
  <2>2. MapTypes' /\ FiniteMaps'
    BY <1>14, <2>1 DEF Open, CloseWindow, MapTypes, FiniteMaps, broker, cycle, tracked
  <2>3. OtherTypes'
    BY <1>14 DEF Open, CloseWindow, OtherTypes, broker, cycle, tracked
  <2>. QED  BY <2>2, <2>3
<1>15. CASE Accept
  <2>1. [s \in Sessions |-> <<>>] \in [Sessions -> Seq(Entry)]
    OBVIOUS
  <2>2. MapTypes' /\ FiniteMaps'
    BY <1>15, <1>b DEF Accept, MapTypes, FiniteMaps, broker, cycle, tracked
  <2>3. connected' \in BOOLEAN
    BY <1>15, Zenon DEF Accept
  <2>4. OtherTypes'
    BY <1>15, <2>1, <2>3 DEF Accept, OtherTypes, broker, cycle, tracked
  <2>. QED  BY <2>2, <2>4
<1>16. CASE Restarted
  <2>1. everConnected' \in BOOLEAN
    BY <1>16, Zenon DEF Restarted
  <2>2. MapTypes' /\ FiniteMaps'
    BY <1>16, <1>b, <1>c DEF Restarted, MapTypes, FiniteMaps, broker, cycle
  <2>3. OtherTypes'
    BY <1>16, <2>1 DEF Restarted, OtherTypes, broker, cycle
  <2>. QED  BY <2>2, <2>3
<1>17. CASE UNCHANGED vars
  BY <1>17 DEF vars, broker, cycle, tracked, ui, MapTypes, FiniteMaps, OtherTypes
<1>. QED  BY <1>1, <1>2, <1>3, <1>4, <1>5, <1>6, <1>7, <1>8, <1>9, <1>10, <1>11, <1>12, <1>13, <1>14, <1>15,
             <1>16, <1>17, Zenon DEF Next, Worker

-----------------------------------------------------------------------------
(* What the events on their way make of the row of a session.              *)

\* positions of the events of q after k that add or remove the row of s, and that tell its state
Rows(q, k, s) == {i \in k + 1 .. Len(q) : q[i].type \in RowKinds /\ q[i].session = s}
Told(q, k, s) == {i \in k + 1 .. Len(q) : q[i].type = "StatusChanged" /\ q[i].session = s}

LastOf(S, i) == i \in S /\ \A j \in S : j <= i
Before(S, i, j) == i \in S /\ i < j /\ \A x \in S : x < j => x <= i

\* A row is added where there is none.
Appearing(rows, q, R) ==
  \A j \in R : q[j].type = "Appeared" =>
    /\ (\A i \in R : i >= j) => rows = <<>>
    /\ \A i \in R : Before(R, i, j) => q[i].type = "Disappeared"

\* In the end there is a row if the session is there, unless it was deleted from the list and has not
\* come back since.
RowEnds(rows, gone, q, R, there) ==
  /\ Len(rows) <= 1
  /\ R = {} => Len(rows) = IF there /\ ~ gone THEN 1 ELSE 0
  /\ \A i \in R : LastOf(R, i) => (q[i].type = "Appeared" <=> there)

\* The last state told of a session is l, and it is told after the row was added.
LiveEnds(rows, q, R, T, l) ==
  /\ \A m \in T : LastOf(T, m) => q[m].value = l
  /\ \A i \in R : LastOf(R, i) => \E m \in T : m > i
  /\ R = {} /\ T = {} /\ rows # <<>> => rows[1].live = l

LEMMA RowsOtherwise ==
  ASSUME NEW rows \in Seq(Entry), NEW e \in Events, NEW s \in Sessions, ~ (e.session = s /\ e.type \in RowKinds)
  PROVE  /\ RowsAfter(rows, e, s) \in Seq(Entry) /\ Len(RowsAfter(rows, e, s)) = Len(rows)
         /\ rows # <<>> /\ ~ (e.type = "StatusChanged" /\ e.session = s) =>
              RowsAfter(rows, e, s)[1].live = rows[1].live
         /\ rows # <<>> /\ e.type = "StatusChanged" /\ e.session = s => RowsAfter(rows, e, s)[1].live = e.value
<1>1. CASE e.session # s \/ e.type = "Connected"
  <2>1. RowsAfter(rows, e, s) = rows
    BY <1>1 DEF RowsAfter
  <2>. QED  BY <1>1, <2>1
<1>2. CASE e.session = s /\ e.type = "MetaUpdated"
  <2>1. RowsAfter(rows, e, s) = SetFirst(rows, "fields", e.value) /\ e.value \in Fields
    BY <1>2, EventIs DEF RowsAfter
  <2>. QED  BY <1>2, <2>1, FieldsSet
<1>3. CASE e.session = s /\ e.type = "StatusChanged"
  <2>1. RowsAfter(rows, e, s) = SetFirst(rows, "live", e.value) /\ e.value \in Liveness
    BY <1>3, EventIs DEF RowsAfter
  <2>. QED  BY <1>3, <2>1, LiveSet
<1>. QED  BY <1>1, <1>2, <1>3, EventIs

\* The events of q after k leave at most the one row of s that is due, and tell its state in the end.
RowDue(rows, gone, q, k, s, there) ==
  Appearing(rows, q, Rows(q, k, s)) /\ RowEnds(rows, gone, q, Rows(q, k, s), there)
StateDue(rows, q, k, s, l) == LiveEnds(rows, q, Rows(q, k, s), Told(q, k, s), l)

\* The next event is handled.
LEMMA EventTaken ==
  ASSUME NEW rows \in Seq(Entry), NEW gone \in BOOLEAN, NEW there \in BOOLEAN, NEW s \in Sessions,
         NEW q \in Seq(Events), NEW k \in Nat, k < Len(q), RowDue(rows, gone, q, k, s, there),
         NEW stays \in BOOLEAN, stays = (gone /\ ~ (q[k + 1].type = "Appeared" /\ q[k + 1].session = s))
  PROVE  RowDue(RowsAfter(rows, q[k + 1], s), stays, q, k + 1, s, there)
<1> DEFINE m == k + 1
           e == q[m]
           R == Rows(q, k, s)
           after == RowsAfter(rows, e, s)
           S == R \ {m}
<1>0. /\ m \in Nat /\ e \in Events /\ R \subseteq Nat /\ \A i \in R : m <= i /\ q[i].type \in RowKinds
      /\ m \in R <=> (e.type \in RowKinds /\ e.session = s)
      /\ Appearing(rows, q, R) /\ RowEnds(rows, gone, q, R, there)
      /\ Rows(q, m, s) = S /\ stays = (gone /\ ~ (e.type = "Appeared" /\ e.session = s))
  <2>1. m \in 1 .. Len(q)
    OBVIOUS
  <2>2. m \in Nat /\ e \in Events /\ stays = (gone /\ ~ (e.type = "Appeared" /\ e.session = s))
    BY <2>1
  <2>3. /\ R \subseteq Nat /\ \A i \in R : m <= i /\ q[i].type \in RowKinds
        /\ m \in R <=> (e.type \in RowKinds /\ e.session = s)
        /\ Rows(q, m, s) = S
    BY <2>1 DEF Rows
  <2>. QED  BY <2>2, <2>3, Zenon DEF RowDue
<1> HIDE DEF m, R
<1> USE <1>0
<1>1. \A i \in S : LastOf(S, i) => LastOf(R, i)
  BY DEF LastOf
<1>2. \A i, j \in S : Before(S, i, j) => Before(R, i, j)
  BY DEF Before
<1>3. \A j \in S : m \in R /\ (\A i \in S : i >= j) => Before(R, m, j)
  BY DEF Before
<1>4. m \in R /\ S = {} => LastOf(R, m)
  BY DEF LastOf
<1>5. CASE m \in R /\ e.type = "Appeared"
  <2>1. rows = <<>> /\ e.session = s
    BY <1>5 DEF Appearing
  <2>2. after = AddSession(rows, e.value) /\ e.value \in Fields
    BY <1>5, <2>1, EventIs DEF RowsAfter, RowKinds
  <2>3. Len(after) = 1
    <3>1. <<>> \in Seq(Entry) /\ Len(<<>>) = 0
      OBVIOUS
    <3>2. Len(AddSession(<<>>, e.value)) = Len(<<>>) + 1
      BY <2>2, <3>1, RowAdded
    <3>. QED  BY <2>1, <2>2, <3>1, <3>2
  <2> HIDE DEF after, S
  <2>4. \A j \in S : q[j].type = "Appeared" => ~ (\A i \in S : i >= j)
    <3> SUFFICES ASSUME NEW j \in S, q[j].type = "Appeared", \A i \in S : i >= j PROVE FALSE
      OBVIOUS
    <3>1. Before(R, m, j)
      BY <1>3, <1>5
    <3>2. q[m].type = "Disappeared"
      BY <1>5, <3>1 DEF Appearing, S
    <3>. QED  BY <1>5, <3>2 DEF e
  <2>5. Appearing(after, q, S)
    BY <1>2, <2>4 DEF Appearing, S
  <2>6. S = {} => there
    BY <1>4, <1>5 DEF RowEnds, e
  <2>7. RowEnds(after, FALSE, q, S, there)
    <3>1. \A i \in S : LastOf(S, i) => (q[i].type = "Appeared" <=> there)
      BY <1>1 DEF RowEnds, S
    <3>. QED  BY <2>3, <2>6, <3>1 DEF RowEnds
  <2>8. stays = FALSE
    BY <1>5, <2>1, Zenon
  <2>. QED  BY <2>5, <2>7, <2>8, Zenon DEF RowDue, after, S, m, e
<1>6. CASE m \in R /\ e.type # "Appeared"
  <2>1. e.type = "Disappeared" /\ e.session = s
    BY <1>6 DEF RowKinds
  <2>2. after = <<>> /\ Len(after) = 0
    BY <2>1 DEF RowsAfter
  <2> HIDE DEF after, S
  <2>3. Appearing(after, q, S)
    BY <1>2, <2>2 DEF Appearing, S
  <2>4. S = {} => ~ there
    BY <1>4, <1>6 DEF RowEnds, e
  <2>5. RowEnds(after, gone, q, S, there)
    <3>1. \A i \in S : LastOf(S, i) => (q[i].type = "Appeared" <=> there)
      BY <1>1 DEF RowEnds, S
    <3>. QED  BY <2>2, <2>4, <3>1 DEF RowEnds
  <2>6. stays = gone
    BY <1>6, Zenon
  <2>. QED  BY <2>3, <2>5, <2>6, Zenon DEF RowDue, after, S, m, e
<1>7. CASE m \notin R
  <2>1. S = R
    BY <1>7
  <2>2. after \in Seq(Entry) /\ Len(after) = Len(rows)
    BY <1>7, RowsOtherwise
  <2>3. ~ (e.type = "Appeared" /\ e.session = s)
    BY <1>7 DEF RowKinds
  <2>4. rows = <<>> => after = <<>>
    BY <2>2
  <2> HIDE DEF after, S
  <2>5. Appearing(after, q, S)
    BY <2>1, <2>4, Zenon DEF Appearing
  <2>6. RowEnds(after, gone, q, S, there)
    BY <2>1, <2>2, Zenon DEF RowEnds
  <2>7. stays = gone
    BY <2>3, Zenon
  <2>. QED  BY <2>5, <2>6, <2>7, Zenon DEF RowDue, after, S, m, e
<1>. QED  BY <1>5, <1>6, <1>7

LEMMA StateTaken ==
  ASSUME NEW rows \in Seq(Entry), NEW s \in Sessions, NEW l, NEW q \in Seq(Events), NEW k \in Nat, k < Len(q),
         StateDue(rows, q, k, s, l)
  PROVE  StateDue(RowsAfter(rows, q[k + 1], s), q, k + 1, s, l)
<1> DEFINE m == k + 1
           R == Rows(q, k, s)
           T == Told(q, k, s)
           after == RowsAfter(rows, q[m], s)
           S == R \ {m}
           U == T \ {m}
<1>0. /\ m \in Nat /\ q[m] \in Events /\ R \subseteq Nat /\ T \subseteq Nat /\ \A i \in R \cup T : m <= i
      /\ m \in R <=> (q[m].type \in RowKinds /\ q[m].session = s)
      /\ m \in T <=> (q[m].type = "StatusChanged" /\ q[m].session = s)
      /\ LiveEnds(rows, q, R, T, l) /\ Rows(q, m, s) = S /\ Told(q, m, s) = U
  <2>1. m \in 1 .. Len(q)
    OBVIOUS
  <2>2. m \in Nat /\ q[m] \in Events
    BY <2>1
  <2>3. /\ R \subseteq Nat /\ T \subseteq Nat /\ \A i \in R \cup T : m <= i
        /\ m \in R <=> (q[m].type \in RowKinds /\ q[m].session = s)
        /\ m \in T <=> (q[m].type = "StatusChanged" /\ q[m].session = s)
        /\ Rows(q, m, s) = S /\ Told(q, m, s) = U
    BY <2>1 DEF Rows, Told
  <2>. QED  BY <2>2, <2>3, Zenon DEF StateDue
<1> HIDE DEF m, R, T
<1> USE <1>0
<1>1. \A i \in U : LastOf(U, i) => LastOf(T, i)
  BY DEF LastOf
<1>2. \A i \in S : LastOf(S, i) => LastOf(R, i)
  BY DEF LastOf
<1>3. \A i \in S : LastOf(S, i) => \E n \in U : n > i
  <2> SUFFICES ASSUME NEW i \in S, LastOf(S, i) PROVE \E n \in U : n > i
    OBVIOUS
  <2>1. PICK n \in T : n > i
    BY <1>2 DEF LiveEnds
  <2>. QED  BY <2>1
<1>4. S = {} /\ U = {} /\ after # <<>> => after[1].live = l
  <2> SUFFICES ASSUME S = {}, U = {}, after # <<>> PROVE after[1].live = l
    OBVIOUS
  <2>1. m \notin R
    <3> SUFFICES ASSUME m \in R PROVE FALSE
      OBVIOUS
    <3>1. LastOf(R, m)
      BY DEF LastOf
    <3>2. PICK n \in T : n > m
      BY <3>1 DEF LiveEnds
    <3>. QED  BY <3>2
  <2>2. R = {} /\ Len(after) = Len(rows) /\ after \in Seq(Entry)
    BY <2>1, RowsOtherwise
  <2>3. rows # <<>>
    BY <2>2
  <2>4. CASE m \in T
    <3>1. LastOf(T, m)
      BY <2>4 DEF LastOf
    <3>2. q[m].value = l
      BY <2>4, <3>1 DEF LiveEnds
    <3>. QED  BY <2>1, <2>3, <2>4, <3>2, RowsOtherwise
  <2>5. CASE m \notin T
    <3>1. rows[1].live = l
      BY <2>2, <2>3, <2>5 DEF LiveEnds
    <3>. QED  BY <2>1, <2>3, <2>5, <3>1, RowsOtherwise
  <2>. QED  BY <2>4, <2>5
<1> HIDE DEF after, S, U
<1>5. \A i \in U : LastOf(U, i) => q[i].value = l
  BY <1>1 DEF LiveEnds, U
<1>6. LiveEnds(after, q, S, U, l)
  BY <1>3, <1>4, <1>5 DEF LiveEnds
<1>. QED  BY <1>6, Zenon DEF StateDue, after, m

LEMMA EventHandled ==
  ASSUME NEW u \in Screen, NEW q \in Seq(Events), NEW k \in Nat, k < Len(q),
         NEW s \in Sessions, NEW there \in BOOLEAN, NEW l,
         RowDue(u.panel[s], s \in u.removed, q, k, s, there)
  PROVE  LET v == Handle(u, q[k + 1])
         IN  /\ RowDue(v.panel[s], s \in v.removed, q, k + 1, s, there)
             /\ StateDue(u.panel[s], q, k, s, l) => StateDue(v.panel[s], q, k + 1, s, l)
<1> DEFINE e == q[k + 1]
           v == Handle(u, e)
           rows == u.panel[s]
           gone == s \in u.removed
           stays == s \in v.removed
<1>1. e \in Events /\ rows \in Seq(Entry) /\ gone \in BOOLEAN /\ stays \in BOOLEAN
  BY DEF Screen
<1>2. v.panel[s] = RowsAfter(rows, e, s) /\ v.removed = IF e.type = "Appeared" THEN u.removed \ {e.session} ELSE u.removed
  <2> HIDE DEF e
  <2>. QED  BY <1>1, HandleIs
<1>3. stays = (gone /\ ~ (q[k + 1].type = "Appeared" /\ q[k + 1].session = s))
  BY <1>2
<1>4. RowDue(rows, gone, q, k, s, there)
  OBVIOUS
<1> HIDE DEF rows, gone, v, stays
<1>5. RowDue(RowsAfter(rows, q[k + 1], s), stays, q, k + 1, s, there)
  BY <1>1, <1>3, <1>4, EventTaken
<1>6. StateDue(rows, q, k, s, l) => StateDue(RowsAfter(rows, q[k + 1], s), q, k + 1, s, l)
  BY <1>1, StateTaken
<1>7. RowDue(v.panel[s], s \in v.removed, q, k + 1, s, there)
  BY <1>2, <1>5, Zenon DEF stays
<1>8. StateDue(u.panel[s], q, k, s, l) => StateDue(v.panel[s], q, k + 1, s, l)
  BY <1>2, <1>6, Zenon DEF rows
<1>. QED  BY <1>7, <1>8 DEF v

\* A frame handles the first n events of those on their way.
LEMMA FrameTakes ==
  ASSUME NEW q \in Seq(Events), NEW n \in Nat, n <= Len(q), NEW h \in [0 .. n -> Screen],
         \A i \in 1 .. n : h[i] = Handle(h[i - 1], q[i]),
         NEW s \in Sessions, NEW there \in BOOLEAN, NEW l,
         RowDue(h[0].panel[s], s \in h[0].removed, q, 0, s, there)
  PROVE  /\ RowDue(h[n].panel[s], s \in h[n].removed, q, n, s, there)
         /\ StateDue(h[0].panel[s], q, 0, s, l) => StateDue(h[n].panel[s], q, n, s, l)
<1> DEFINE Good == {k \in Nat : k <= n =>
                      /\ RowDue(h[k].panel[s], s \in h[k].removed, q, k, s, there)
                      /\ StateDue(h[0].panel[s], q, 0, s, l) => StateDue(h[k].panel[s], q, k, s, l)}
<1>1. 0 \in Good
  OBVIOUS
<1>2. ASSUME NEW k \in Good PROVE k + 1 \in Good
  <2> SUFFICES ASSUME k + 1 <= n
               PROVE  /\ RowDue(h[k + 1].panel[s], s \in h[k + 1].removed, q, k + 1, s, there)
                      /\ StateDue(h[0].panel[s], q, 0, s, l) => StateDue(h[k + 1].panel[s], q, k + 1, s, l)
    OBVIOUS
  <2> DEFINE u == h[k]
  <2>1. k \in Nat /\ k <= n /\ k < Len(q) /\ k \in 0 .. n /\ k + 1 \in 1 .. n /\ (k + 1) - 1 = k
    OBVIOUS
  <2>2. u \in Screen /\ RowDue(u.panel[s], s \in u.removed, q, k, s, there)
        /\ (StateDue(h[0].panel[s], q, 0, s, l) => StateDue(u.panel[s], q, k, s, l))
    BY <2>1
  <2>3. h[k + 1] = Handle(u, q[k + 1])
    BY <2>1
  <2> HIDE DEF u, Good
  <2>4. /\ RowDue(Handle(u, q[k + 1]).panel[s], s \in Handle(u, q[k + 1]).removed, q, k + 1, s, there)
        /\ StateDue(u.panel[s], q, k, s, l) => StateDue(Handle(u, q[k + 1]).panel[s], q, k + 1, s, l)
    BY <2>1, <2>2, EventHandled
  <2>. QED  BY <2>2, <2>3, <2>4, Zenon
<1>3. Good = Nat
  <2> HIDE DEF Good
  <2>1. Good \subseteq Nat
    BY DEF Good
  <2>. QED  BY <1>1, <1>2, <2>1, NatSetInduction
<1>. QED  BY <1>3

\* The same events at other positions.
LEMMA Moved ==
  ASSUME NEW rows, NEW gone \in BOOLEAN, NEW there \in BOOLEAN, NEW s, NEW l, NEW q, NEW r, NEW k \in Nat, NEW n \in Nat,
         Len(q) \in Nat, Len(r) \in Nat, Len(q) = Len(r) + n, k >= n, \A i \in 1 .. Len(r) : r[i] = q[i + n]
  PROVE  /\ RowDue(rows, gone, q, k, s, there) => RowDue(rows, gone, r, k - n, s, there)
         /\ StateDue(rows, q, k, s, l) => StateDue(rows, r, k - n, s, l)
<1> DEFINE R == Rows(q, k, s)
           T == Told(q, k, s)
           S == Rows(r, k - n, s)
           U == Told(r, k - n, s)
<1>1. /\ R \subseteq Nat /\ T \subseteq Nat /\ S \subseteq Nat /\ U \subseteq Nat
      /\ \A i \in R \cup T : i >= n /\ i - n \in Nat /\ (i - n) + n = i
  BY DEF Rows, Told
<1>2. /\ \A i \in Nat : (i \in S <=> i + n \in R) /\ (i \in U <=> i + n \in T)
      /\ \A i \in S \cup U : r[i] = q[i + n]
  BY DEF Rows, Told
<1> HIDE DEF R, T, S, U
<1>3. \A i \in R : i - n \in S /\ i - n \in Nat
  BY <1>1, <1>2
<1>4. \A i \in T : i - n \in U /\ i - n \in Nat
  BY <1>1, <1>2
<1>5. R = {} <=> S = {}
  BY <1>1, <1>2, <1>3
<1>6. T = {} <=> U = {}
  BY <1>1, <1>2, <1>4
<1>7. \A i \in S : LastOf(S, i) => LastOf(R, i + n)
  <2> SUFFICES ASSUME NEW i \in S, LastOf(S, i), NEW j \in R PROVE j <= i + n
    BY <1>1, <1>2 DEF LastOf
  <2>. QED  BY <1>1, <1>2, <1>3 DEF LastOf
<1>8. \A i \in U : LastOf(U, i) => LastOf(T, i + n)
  <2> SUFFICES ASSUME NEW i \in U, LastOf(U, i), NEW j \in T PROVE j <= i + n
    BY <1>1, <1>2 DEF LastOf
  <2>. QED  BY <1>1, <1>2, <1>4 DEF LastOf
<1>9. \A i, j \in S : Before(S, i, j) => Before(R, i + n, j + n)
  <2> SUFFICES ASSUME NEW i \in S, NEW j \in S, Before(S, i, j)
               PROVE  i + n \in R /\ i + n < j + n /\ \A x \in R : x < j + n => x <= i + n
    BY DEF Before
  <2> SUFFICES ASSUME NEW x \in R, x < j + n PROVE x <= i + n
    <3>1. i + n \in R /\ i < j /\ i \in Nat /\ j \in Nat
      BY <1>1, <1>2 DEF Before
    <3>. QED  BY <3>1
  <2>1. x - n \in S /\ x - n < j /\ x \in Nat
    BY <1>1, <1>3
  <2>2. x - n <= i
    BY <2>1 DEF Before
  <2>. QED  BY <1>1, <1>2, <2>1, <2>2 DEF Before
<1>10. Appearing(rows, q, R) => Appearing(rows, r, S)
  <2> SUFFICES ASSUME Appearing(rows, q, R), NEW j \in S, r[j].type = "Appeared"
               PROVE  /\ (\A i \in S : i >= j) => rows = <<>>
                      /\ \A i \in S : Before(S, i, j) => r[i].type = "Disappeared"
    BY DEF Appearing
  <2>1. j + n \in R /\ q[j + n].type = "Appeared"
    BY <1>1, <1>2
  <2>2. (\A i \in S : i >= j) => \A i \in R : i >= j + n
    BY <1>1, <1>3
  <2>3. ASSUME NEW i \in S, Before(S, i, j) PROVE r[i].type = "Disappeared"
    <3>1. Before(R, i + n, j + n) /\ i + n \in R /\ r[i] = q[i + n]
      BY <1>1, <1>2, <1>9, <2>3
    <3>. QED  BY <2>1, <3>1 DEF Appearing
  <2>. QED  BY <2>1, <2>2, <2>3 DEF Appearing
<1>11. RowEnds(rows, gone, q, R, there) => RowEnds(rows, gone, r, S, there)
  <2> SUFFICES ASSUME RowEnds(rows, gone, q, R, there), NEW i \in S, LastOf(S, i)
               PROVE  r[i].type = "Appeared" <=> there
    BY <1>5, Zenon DEF RowEnds
  <2>1. LastOf(R, i + n) /\ i + n \in R /\ r[i] = q[i + n]
    BY <1>1, <1>2, <1>7
  <2>. QED  BY <2>1 DEF RowEnds
<1>12. LiveEnds(rows, q, R, T, l) => LiveEnds(rows, r, S, U, l)
  <2> SUFFICES ASSUME LiveEnds(rows, q, R, T, l) PROVE LiveEnds(rows, r, S, U, l)
    OBVIOUS
  <2>1. ASSUME NEW m \in U, LastOf(U, m) PROVE r[m].value = l
    <3>1. LastOf(T, m + n) /\ m + n \in T /\ r[m] = q[m + n]
      BY <1>1, <1>2, <1>8, <2>1
    <3>. QED  BY <3>1 DEF LiveEnds
  <2>2. ASSUME NEW i \in S, LastOf(S, i) PROVE \E m \in U : m > i
    <3>1. LastOf(R, i + n) /\ i + n \in R
      BY <1>1, <1>2, <1>7, <2>2
    <3>2. PICK m \in T : m > i + n
      BY <3>1 DEF LiveEnds
    <3>3. m - n \in U /\ m - n > i
      BY <1>1, <1>4, <3>2
    <3>. QED  BY <3>3
  <2>3. S = {} /\ U = {} /\ rows # <<>> => rows[1].live = l
    BY <1>5, <1>6 DEF LiveEnds
  <2>. QED  BY <2>1, <2>2, <2>3 DEF LiveEnds
<1>. QED  BY <1>10, <1>11, <1>12, Zenon DEF RowDue, StateDue, R, T, S, U

\* Events that say nothing of s are added to those on their way.
LEMMA Irrelevant ==
  ASSUME NEW rows, NEW gone \in BOOLEAN, NEW there \in BOOLEAN, NEW s, NEW l, NEW q, NEW r,
         Len(q) \in Nat, Len(r) \in Nat, Len(q) <= Len(r), \A i \in 1 .. Len(q) : r[i] = q[i],
         \A i \in Len(q) + 1 .. Len(r) : ~ (r[i].type \in RowKinds /\ r[i].session = s)
  PROVE  /\ RowDue(rows, gone, q, 0, s, there) => RowDue(rows, gone, r, 0, s, there)
         /\ (\A i \in Len(q) + 1 .. Len(r) : ~ (r[i].type = "StatusChanged" /\ r[i].session = s)) =>
              (StateDue(rows, q, 0, s, l) => StateDue(rows, r, 0, s, l))
<1> DEFINE R == Rows(q, 0, s)
           T == Told(q, 0, s)
<1>1. /\ Rows(r, 0, s) = R /\ \A i \in R : r[i] = q[i] /\ i \in Nat
  BY DEF Rows
<1>2. (\A i \in Len(q) + 1 .. Len(r) : ~ (r[i].type = "StatusChanged" /\ r[i].session = s)) =>
        Told(r, 0, s) = T /\ \A i \in T : r[i] = q[i]
  BY DEF Told
<1> HIDE DEF R, T
<1>3. Appearing(rows, q, R) => Appearing(rows, r, R)
  <2>1. \A i, j \in R : Before(R, i, j) => i \in R
    OBVIOUS
  <2>. QED  BY <1>1 DEF Appearing
<1>4. RowEnds(rows, gone, q, R, there) => RowEnds(rows, gone, r, R, there)
  BY <1>1, Zenon DEF RowEnds
<1>5. (\A i \in T : r[i] = q[i]) => (LiveEnds(rows, q, R, T, l) => LiveEnds(rows, r, R, T, l))
  BY Zenon DEF LiveEnds
<1>. QED  BY <1>1, <1>2, <1>3, <1>4, <1>5, Zenon DEF RowDue, StateDue, R, T

\* Of those added after q, the one at p adds or removes the row of s.
OneMore(r, q, s, p) ==
  /\ Len(q) \in Nat /\ Len(r) \in Nat /\ Len(q) <= Len(r) /\ \A i \in 1 .. Len(q) : r[i] = q[i]
  /\ p \in Len(q) + 1 .. Len(r) /\ r[p].type \in RowKinds /\ r[p].session = s
  /\ \A i \in Len(q) + 1 .. Len(r) : r[i].type \in RowKinds /\ r[i].session = s => i = p

\* ... and the session comes or goes with it.
Turns(rows, gone, q, r, s, p, there, now) ==
  /\ rows \in Seq(Entry) /\ gone \in BOOLEAN /\ there \in BOOLEAN /\ now \in BOOLEAN
  /\ OneMore(r, q, s, p) /\ RowDue(rows, gone, q, 0, s, there)
  /\ now = (r[p].type = "Appeared") /\ now # there

LEMMA RowComes ==
  ASSUME NEW rows, NEW gone, NEW q, NEW r, NEW s, NEW p, NEW there, NEW now, Turns(rows, gone, q, r, s, p, there, now)
  PROVE  RowDue(rows, gone, r, 0, s, now)
<1> DEFINE R == Rows(q, 0, s)
           S == Rows(r, 0, s)
<1>0. /\ rows \in Seq(Entry) /\ gone \in BOOLEAN /\ there \in BOOLEAN /\ now \in BOOLEAN
      /\ OneMore(r, q, s, p) /\ RowDue(rows, gone, q, 0, s, there)
      /\ now = (r[p].type = "Appeared") /\ now # there
  BY Zenon DEF Turns
<1> USE <1>0
<1>1. /\ S = R \cup {p} /\ p \in Nat /\ p \notin R
      /\ \A i \in R : r[i] = q[i] /\ i \in Nat /\ i < p /\ q[i].type \in RowKinds
      /\ r[p].type \in RowKinds
  BY DEF Rows, OneMore
<1>2. Appearing(rows, q, R) /\ RowEnds(rows, gone, q, R, there)
  BY DEF RowDue
<1> HIDE DEF R, S
<1>3. ASSUME NEW j \in S, r[j].type = "Appeared"
      PROVE  /\ (\A i \in S : i >= j) => rows = <<>>
             /\ \A i \in S : Before(S, i, j) => r[i].type = "Disappeared"
  <2>1. CASE j \in R
    <3>1. (\A i \in S : i >= j) => rows = <<>>
      BY <1>1, <1>2, <1>3, <2>1 DEF Appearing
    <3>2. \A i \in S : Before(S, i, j) => Before(R, i, j)
      BY <1>1, <2>1 DEF Before
    <3>3. \A i \in S : Before(S, i, j) => i \in R
      BY <1>1, <3>2 DEF Before
    <3>. QED  BY <1>1, <1>2, <1>3, <2>1, <3>1, <3>2, <3>3 DEF Appearing
  <2>2. CASE j = p
    <3>1. there = FALSE
      BY <1>3, <2>2
    <3>2. (\A i \in S : i >= j) => rows = <<>>
      <4> SUFFICES ASSUME \A i \in S : i >= j PROVE rows = <<>>
        OBVIOUS
      <4>1. R = {}
        BY <1>1, <2>2
      <4>2. Len(rows) = 0
        BY <1>2, <3>1, <4>1 DEF RowEnds
      <4>. QED  BY <4>2
    <3>3. ASSUME NEW i \in S, Before(S, i, j) PROVE r[i].type = "Disappeared"
      <4>1. i \in R /\ \A x \in R : x <= i
        BY <1>1, <2>2, <3>3 DEF Before
      <4>2. ~ (q[i].type = "Appeared")
        BY <1>2, <3>1, <4>1 DEF RowEnds, LastOf
      <4>. QED  BY <1>1, <4>1, <4>2 DEF RowKinds
    <3>. QED  BY <3>2, <3>3
  <2>. QED  BY <1>1, <2>1, <2>2
<1>4. Appearing(rows, r, S)
  BY <1>3 DEF Appearing
<1>5. RowEnds(rows, gone, r, S, now)
  <2>1. S # {} /\ Len(rows) <= 1
    BY <1>1, <1>2 DEF RowEnds
  <2>2. \A i \in S : LastOf(S, i) => i = p
    BY <1>1 DEF LastOf
  <2>. QED  BY <2>1, <2>2 DEF RowEnds
<1>. QED  BY <1>4, <1>5, Zenon DEF RowDue, S

\* The last of them tells that the state is l.
LEMMA StateComes ==
  ASSUME NEW rows, NEW s, NEW l, NEW r, Len(r) \in Nat \ {0},
         r[Len(r)].type = "StatusChanged", r[Len(r)].session = s, r[Len(r)].value = l
  PROVE  StateDue(rows, r, 0, s, l)
<1> DEFINE R == Rows(r, 0, s)
           T == Told(r, 0, s)
           n == Len(r)
<1>1. n \in T /\ \A i \in T : i \in Nat /\ i <= n
  BY DEF Told
<1>2. \A i \in R : i \in Nat /\ i < n
  BY DEF Rows, RowKinds
<1> HIDE DEF R, T
<1>3. \A m \in T : LastOf(T, m) => m = n
  BY <1>1 DEF LastOf
<1>4. LiveEnds(rows, r, R, T, l)
  BY <1>1, <1>2, <1>3 DEF LiveEnds
<1>. QED  BY <1>4 DEF StateDue, R, T

LEMMA Joined ==
  ASSUME NEW S, NEW q \in Seq(S), NEW r \in Seq(S)
  PROVE  /\ q \o r \in Seq(S) /\ Len(q) \in Nat /\ Len(r) \in Nat /\ Len(q \o r) = Len(q) + Len(r)
         /\ \A i \in 1 .. Len(q) : (q \o r)[i] = q[i]
         /\ \A i \in Len(q) + 1 .. Len(q) + Len(r) : i - Len(q) \in 1 .. Len(r) /\ (q \o r)[i] = r[i - Len(q)]
<1>1. Len(q) \in Nat /\ Len(r) \in Nat
  OBVIOUS
<1>2. /\ q \o r \in Seq(S) /\ Len(q \o r) = Len(q) + Len(r)
      /\ \A i \in 1 .. Len(q) + Len(r) : (q \o r)[i] = IF i <= Len(q) THEN q[i] ELSE r[i - Len(q)]
  BY ConcatProperties
<1>3. ASSUME NEW i \in 1 .. Len(q) PROVE (q \o r)[i] = q[i]
  <2>1. i \in 1 .. Len(q) + Len(r) /\ i <= Len(q)
    BY <1>1
  <2>. QED  BY <1>2, <2>1, Zenon
<1>4. ASSUME NEW i \in Len(q) + 1 .. Len(q) + Len(r)
      PROVE  i - Len(q) \in 1 .. Len(r) /\ (q \o r)[i] = r[i - Len(q)]
  <2>1. i \in 1 .. Len(q) + Len(r) /\ ~ (i <= Len(q)) /\ i - Len(q) \in 1 .. Len(r)
    BY <1>1
  <2>. QED  BY <1>2, <2>1, Zenon
<1>. QED  BY <1>1, <1>2, <1>3, <1>4

\* A cycle announces each session that has come or gone, once.
LEMMA DiffAnnounces ==
  ASSUME DiscoveryTypes, Diff
  PROVE  /\ outbox' \in Seq(Events) /\ \A i \in 1 .. Len(outbox') : outbox'[i].type \in RowKinds \cup {"MetaUpdated"}
         /\ \A i \in 1 .. Len(outbox') : outbox'[i].type \in RowKinds =>
              IF outbox'[i].type = "Appeared" THEN outbox'[i].session \in DOMAIN current \ DOMAIN known
              ELSE outbox'[i].session \in DOMAIN known \ DOMAIN current
         /\ \A s \in (DOMAIN current \ DOMAIN known) \cup (DOMAIN known \ DOMAIN current) :
              \E p \in 1 .. Len(outbox') :
                /\ outbox'[p].type \in RowKinds /\ outbox'[p].session = s
                /\ \A i \in 1 .. Len(outbox') : outbox'[i].type \in RowKinds /\ outbox'[i].session = s => i = p
<1> DEFINE new == DOMAIN current \ DOMAIN known
           old == DOMAIN known \ DOMAIN current
           A == EventsFor("Appeared", new, current)
           D == EventsFor("Disappeared", old, known)
           M == EventsFor("MetaUpdated", Settled, pendingMeta)
           b == outbox'
<1>1. /\ b = A \o D \o M /\ A \in Seq(Events) /\ D \in Seq(Events) /\ M \in Seq(Events)
      /\ IsFiniteSet(new) /\ IsFiniteSet(old) /\ IsFiniteSet(Settled)
  BY DiffIs
<1> HIDE DEF new, old, b
<1>2. /\ \A s \in new : \E i \in 1 .. Len(A) : A[i] = Event("Appeared", s, current[s])
      /\ \A i \in 1 .. Len(A) : \E s \in new : A[i] = Event("Appeared", s, current[s])
      /\ \A i, j \in 1 .. Len(A) : A[i] = A[j] => i = j
  BY <1>1, EventsForIs
<1>3. /\ \A s \in old : \E i \in 1 .. Len(D) : D[i] = Event("Disappeared", s, known[s])
      /\ \A i \in 1 .. Len(D) : \E s \in old : D[i] = Event("Disappeared", s, known[s])
      /\ \A i, j \in 1 .. Len(D) : D[i] = D[j] => i = j
  BY <1>1, EventsForIs
<1>4. \A i \in 1 .. Len(M) : \E s \in Settled : M[i] = Event("MetaUpdated", s, pendingMeta[s])
  BY <1>1, EventsForIs
<1> HIDE DEF A, D, M
<1>5. PICK a \in Nat, d \in Nat, m \in Nat : Len(A) = a /\ Len(D) = d /\ Len(M) = m
  BY <1>1
<1>6. /\ b \in Seq(Events) /\ Len(b) = a + d + m
      /\ \A i \in 1 .. a : b[i] = A[i]
      /\ \A i \in a + 1 .. a + d : b[i] = D[i - a]
      /\ \A i \in a + d + 1 .. a + d + m : b[i] = M[i - (a + d)]
  <2> DEFINE C == A \o D
  <2>1. /\ C \in Seq(Events) /\ Len(C) = a + d
        /\ \A i \in 1 .. a : C[i] = A[i]
        /\ \A i \in a + 1 .. a + d : C[i] = D[i - a]
    BY <1>1, <1>5, Joined, Zenon
  <2>2. b = C \o M
    BY <1>1
  <2> HIDE DEF C
  <2>3. /\ b \in Seq(Events) /\ Len(b) = a + d + m
        /\ \A i \in 1 .. a + d : b[i] = C[i]
        /\ \A i \in a + d + 1 .. a + d + m : b[i] = M[i - (a + d)]
    <3>1. /\ C \o M \in Seq(Events) /\ Len(C \o M) = Len(C) + Len(M)
          /\ \A i \in 1 .. Len(C) : (C \o M)[i] = C[i]
          /\ \A i \in Len(C) + 1 .. Len(C) + Len(M) : (C \o M)[i] = M[i - Len(C)]
      BY <1>1, <2>1, Joined
    <3>. QED  BY <1>5, <2>1, <2>2, <3>1, Zenon
  <2>4. (\A i \in 1 .. a : i \in 1 .. a + d) /\ (\A i \in a + 1 .. a + d : i \in 1 .. a + d)
    OBVIOUS
  <2>. QED  BY <2>1, <2>3, <2>4
<1>7. \A i \in 1 .. a : b[i].type = "Appeared" /\ b[i].session \in new /\ b[i] = Event("Appeared", b[i].session, current[b[i].session])
  BY <1>2, <1>5, <1>6 DEF Event
<1>8. \A i \in a + 1 .. a + d :
        b[i].type = "Disappeared" /\ b[i].session \in old /\ b[i] = Event("Disappeared", b[i].session, known[b[i].session])
  <2> SUFFICES ASSUME NEW i \in a + 1 .. a + d
               PROVE  /\ b[i].type = "Disappeared" /\ b[i].session \in old
                      /\ b[i] = Event("Disappeared", b[i].session, known[b[i].session])
    OBVIOUS
  <2>1. i - a \in 1 .. d /\ b[i] = D[i - a]
    BY <1>6
  <2>2. PICK s \in old : b[i] = Event("Disappeared", s, known[s])
    BY <1>3, <1>5, <2>1
  <2>. QED  BY <2>2 DEF Event
<1>9. \A i \in a + d + 1 .. a + d + m : b[i].type = "MetaUpdated"
  <2> SUFFICES ASSUME NEW i \in a + d + 1 .. a + d + m PROVE b[i].type = "MetaUpdated"
    OBVIOUS
  <2>1. i - (a + d) \in 1 .. m /\ b[i] = M[i - (a + d)]
    BY <1>6
  <2>2. PICK s \in Settled : b[i] = Event("MetaUpdated", s, pendingMeta[s])
    BY <1>4, <1>5, <2>1
  <2>. QED  BY <2>2 DEF Event
<1>10. \A i \in 1 .. Len(b) : i \in 1 .. a \/ i \in a + 1 .. a + d \/ i \in a + d + 1 .. a + d + m
  BY <1>6
<1>11. ASSUME NEW i \in 1 .. Len(b)
       PROVE  /\ b[i].type \in RowKinds \cup {"MetaUpdated"}
              /\ b[i].type \in RowKinds => IF b[i].type = "Appeared" THEN b[i].session \in new ELSE b[i].session \in old
  BY <1>7, <1>8, <1>9, <1>10 DEF RowKinds
<1>12. new \cap old = {}
  BY DEF new, old
<1>13. ASSUME NEW s \in new
       PROVE  \E p \in 1 .. Len(b) : /\ b[p].type \in RowKinds /\ b[p].session = s
                                     /\ \A i \in 1 .. Len(b) : b[i].type \in RowKinds /\ b[i].session = s => i = p
  <2>1. PICK p \in 1 .. a : A[p] = Event("Appeared", s, current[s])
    BY <1>2, <1>5
  <2>2. p \in 1 .. Len(b) /\ b[p] = A[p] /\ b[p].type \in RowKinds /\ b[p].session = s
    BY <1>6, <2>1 DEF Event, RowKinds
  <2>3. ASSUME NEW i \in 1 .. Len(b), b[i].type \in RowKinds, b[i].session = s PROVE i = p
    <3>1. i \in 1 .. a
      BY <1>8, <1>9, <1>10, <1>12, <2>3 DEF RowKinds
    <3>2. A[i] = A[p]
      BY <1>6, <1>7, <2>1, <2>3, <3>1
    <3>. QED  BY <1>2, <1>5, <3>1, <3>2
  <2>. QED  BY <2>2, <2>3
<1>14. ASSUME NEW s \in old
       PROVE  \E p \in 1 .. Len(b) : /\ b[p].type \in RowKinds /\ b[p].session = s
                                     /\ \A i \in 1 .. Len(b) : b[i].type \in RowKinds /\ b[i].session = s => i = p
  <2>1. PICK x \in 1 .. d : D[x] = Event("Disappeared", s, known[s])
    BY <1>3, <1>5
  <2> DEFINE p == x + a
  <2>2. p \in a + 1 .. a + d /\ p - a = x /\ p \in 1 .. Len(b)
    BY <1>6
  <2>3. b[p] = D[x] /\ b[p].type \in RowKinds /\ b[p].session = s
    BY <1>6, <2>1, <2>2 DEF Event, RowKinds
  <2>4. ASSUME NEW i \in 1 .. Len(b), b[i].type \in RowKinds, b[i].session = s PROVE i = p
    <3>1. i \in a + 1 .. a + d
      BY <1>7, <1>9, <1>10, <1>12, <2>4 DEF RowKinds
    <3>2. D[i - a] = D[x] /\ i - a \in 1 .. d
      BY <1>6, <1>8, <2>1, <2>4, <3>1
    <3>. QED  BY <1>3, <1>5, <3>1, <3>2
  <2>. QED  BY <2>2, <2>3, <2>4
<1>. QED  BY <1>6, <1>11, <1>13, <1>14 DEF b, new, old

-----------------------------------------------------------------------------
(* The list follows the manager.                                           *)

\* what the manager knows, or will know at the end of the cycle
Present == IF at = "probe" THEN DOMAIN current ELSE DOMAIN known

\* the events no frame has handled
Awaiting == events \o outbox

\* Events are pushed before a cycle ends, and a state is kept of each known session.
Cycle ==
  /\ at # "probe" => outbox = <<>> /\ DOMAIN prevLiveness = DOMAIN known
  /\ at = "probe" => DOMAIN prevLiveness = DOMAIN known \cup probed

\* Nothing is shown while the manager stops.
Clean ==
  main = "join" => connected = FALSE /\ removed = {} /\ \A s \in Sessions : panel[s] = <<>>

\* What no frame has handled yet brings the list to what the manager knows.
Coming ==
  main = "run" =>
    /\ everConnected = (connected \/ \E i \in 1 .. Len(Awaiting) : Awaiting[i].type = "Connected")
    /\ \A s \in Sessions : RowDue(panel[s], s \in removed, Awaiting, 0, s, s \in Present)
    /\ \A s \in Present \cap DOMAIN prevLiveness : StateDue(panel[s], Awaiting, 0, s, prevLiveness[s])

DiscoveryInv == DiscoveryTypes /\ Cycle /\ Clean /\ Coming

LEMMA NothingDue ==
  ASSUME NEW s
  PROVE  /\ Rows(<<>>, 0, s) = {} /\ Told(<<>>, 0, s) = {}
         /\ \A there \in BOOLEAN, gone \in BOOLEAN : RowDue(<<>>, gone, <<>>, 0, s, there) <=> (there => gone)
<1>1. 0 + 1 .. Len(<<>>) = {} /\ Len(<<>>) = 0
  OBVIOUS
<1>2. Rows(<<>>, 0, s) = {} /\ Told(<<>>, 0, s) = {}
  BY <1>1 DEF Rows, Told
<1>. QED  BY <1>1, <1>2 DEF RowDue, Appearing, RowEnds

LEMMA Mirrors == DiscoveryInv => PanelMirrors
<1> SUFFICES ASSUME DiscoveryInv, main = "run", at = "sleep", events = <<>> PROVE
      /\ connected = everConnected
      /\ \A s \in Sessions :
           Len(panel[s]) = (IF s \in DOMAIN known \ removed THEN 1 ELSE 0)
           /\ (s \in DOMAIN known \ removed => panel[s][1].live = prevLiveness[s])
  BY DEF PanelMirrors
<1>1. outbox = <<>> /\ Awaiting = <<>> /\ Present = DOMAIN known /\ DOMAIN prevLiveness = DOMAIN known
  BY DEF DiscoveryInv, Cycle, Awaiting, Present
<1>2. connected = everConnected
  <2>1. Len(Awaiting) = 0
    BY <1>1
  <2>2. ~ \E i \in 1 .. Len(Awaiting) : Awaiting[i].type = "Connected"
    BY <2>1
  <2>3. connected \in BOOLEAN /\ everConnected = (connected \/ \E i \in 1 .. Len(Awaiting) : Awaiting[i].type = "Connected")
    BY Zenon DEF DiscoveryInv, DiscoveryTypes, OtherTypes, Coming
  <2>. QED  BY <2>2, <2>3, Zenon
<1>3. ASSUME NEW s \in Sessions
      PROVE  /\ Len(panel[s]) = (IF s \in DOMAIN known \ removed THEN 1 ELSE 0)
             /\ (s \in DOMAIN known \ removed => panel[s][1].live = prevLiveness[s])
  <2> DEFINE rows == panel[s]
             gone == s \in removed
             there == s \in Present
  <2>1. rows \in Seq(Entry)
    BY DEF DiscoveryInv, DiscoveryTypes, OtherTypes
  <2>2. RowDue(rows, gone, <<>>, 0, s, there)
    BY <1>1, Zenon DEF DiscoveryInv, Coming
  <2>3. there => StateDue(rows, <<>>, 0, s, prevLiveness[s])
    BY <1>1, Zenon DEF DiscoveryInv, Coming
  <2> HIDE DEF rows
  <2>4. Len(rows) = IF there /\ ~ gone THEN 1 ELSE 0
    BY <2>2, NothingDue DEF RowDue, RowEnds
  <2>5. there /\ ~ gone => rows[1].live = prevLiveness[s]
    <3>1. there /\ ~ gone => rows # <<>>
      BY <2>1, <2>4
    <3>. QED  BY <2>3, <3>1, NothingDue, Zenon DEF StateDue, LiveEnds
  <2>. QED  BY <1>1, <2>4, <2>5 DEF rows
<1>. QED  BY <1>2, <1>3

LEMMA DiscoveryStarts == Init => DiscoveryInv
<1> SUFFICES ASSUME Init PROVE DiscoveryInv
  OBVIOUS
<1>1. Empty \in Maps(Fields) /\ Empty \in Maps(Liveness) /\ Empty \in Maps(Entry) /\ DOMAIN Empty = {}
  BY EmptyMap
<1>2. IsFiniteSet({})
  BY FS_EmptySet
<1>3. DiscoveryTypes
  <2>1. MapTypes
    BY <1>1 DEF Init, MapTypes
  <2>2. FiniteMaps
    BY <1>1, <1>2 DEF Init, FiniteMaps
  <2>3. everConnected \in BOOLEAN /\ connected \in BOOLEAN
    BY Zenon DEF Init
  <2>4. panel \in [Sessions -> Seq(Entry)] /\ removed \subseteq Sessions
    BY DEF Init
  <2>5. events \in Seq(Events) /\ outbox \in Seq(Events)
    BY DEF Init
  <2>6. /\ deleted \subseteq Sessions /\ probed \subseteq DOMAIN current /\ (at # "probe" => probed = {})
        /\ at \in {"list", "scan", "diff", "probe", "sleep", "stopped"} /\ main \in {"run", "join"}
    BY <1>1 DEF Init
  <2>7. OtherTypes
    BY <2>3, <2>4, <2>5, <2>6 DEF OtherTypes
  <2>. QED  BY <2>1, <2>2, <2>7 DEF DiscoveryTypes
<1>4. Cycle /\ Clean
  BY DEF Init, Cycle, Clean
<1>5. Awaiting = <<>> /\ Len(Awaiting) = 0 /\ Present = {}
  BY <1>1 DEF Init, Awaiting, Present
<1>6. ASSUME NEW s \in Sessions PROVE RowDue(panel[s], s \in removed, Awaiting, 0, s, s \in Present)
  <2> DEFINE gone == s \in removed
             there == s \in Present
  <2>1. panel[s] = <<>> /\ there = FALSE /\ gone \in BOOLEAN
    BY <1>5 DEF Init
  <2> HIDE DEF gone, there
  <2>2. RowDue(<<>>, gone, <<>>, 0, s, there)
    BY <2>1, NothingDue
  <2>. QED  BY <1>5, <2>1, <2>2, Zenon DEF gone, there
<1>7. everConnected = (connected \/ \E i \in 1 .. Len(Awaiting) : Awaiting[i].type = "Connected")
  <2>1. ~ \E i \in 1 .. Len(Awaiting) : Awaiting[i].type = "Connected"
    BY <1>5
  <2>. QED  BY <2>1, Zenon DEF Init
<1>. QED  BY <1>3, <1>4, <1>5, <1>6, <1>7 DEF DiscoveryInv, Coming

LEMMA CycleKept == DiscoveryTypes /\ Cycle /\ [Next]_vars => Cycle'
<1> SUFFICES ASSUME DiscoveryTypes, Cycle, [Next]_vars PROVE Cycle'
  OBVIOUS
<1> USE DEF Cycle
<1>a. /\ current \in Maps(Fields) /\ known \in Maps(Fields) /\ prevLiveness \in Maps(Liveness)
      /\ probed \subseteq DOMAIN current /\ (at # "probe" => probed = {})
  BY DEF DiscoveryTypes, MapTypes, OtherTypes
<1>b. DOMAIN Empty = {}
  BY EmptyMap
<1>1. CASE List \/ ListFails \/ Scan \/ PartialScan \/ Wake
  BY <1>1 DEF List, ListFails, Scan, PartialScan, Wake, broker, cycle, tracked, ui
<1>2. CASE Diff
  BY <1>2 DEF Diff, broker, ui
<1>3. CASE PushEvent
  BY <1>3 DEF PushEvent, broker, tracked, ui
<1>4. ASSUME NEW s \in Sessions, Probe(s) PROVE Cycle'
  <2>1. PICK l \in Liveness : prevLiveness' = Put(prevLiveness, s, l)
    BY <1>4 DEF Probe
  <2>2. DOMAIN prevLiveness' = DOMAIN prevLiveness \cup {s}
    BY <1>a, <2>1, PutMap
  <2>. QED  BY <1>4, <2>2 DEF Probe, broker, ui
<1>5. CASE EndCycle
  <2>1. DOMAIN prevLiveness' = DOMAIN prevLiveness \cap DOMAIN current
    BY <1>a, <1>5, StillThereMap DEF EndCycle
  <2>. QED  BY <1>5, <2>1 DEF EndCycle
<1>6. CASE Restarted
  BY <1>6, <1>b DEF Restarted, cycle
<1>7. CASE Frame \/ Accept \/ DeleteChannel \/ UNCHANGED vars
  BY <1>7 DEF Frame, Accept, DeleteChannel, vars, broker, cycle, tracked, ui
<1>8. ASSUME NEW s \in Sessions,
             Appear(s) \/ RegisterField(s) \/ Delete(s) \/ Expire(s) \/ Open(s) \/ CloseWindow(s)
      PROVE  Cycle'
  BY <1>8 DEF Appear, RegisterField, Delete, Expire, Open, CloseWindow, broker, cycle, tracked, ui
<1>. QED  BY <1>1, <1>2, <1>3, <1>4, <1>5, <1>6, <1>7, <1>8, Zenon DEF Next, Worker

LEMMA CleanKept == DiscoveryTypes /\ Clean /\ [Next]_vars => Clean'
<1> SUFFICES ASSUME DiscoveryTypes, Clean, [Next]_vars PROVE Clean'
  OBVIOUS
<1>1. CASE Worker
  <2>1. UNCHANGED <<main, connected, removed, panel>>
    BY <1>1 DEF Worker, List, ListFails, Scan, PartialScan, Diff, PushEvent, Probe, EndCycle, Wake, ui
  <2>. QED  BY <2>1 DEF Clean
<1>2. CASE Accept
  BY <1>2 DEF Accept, Clean
<1>3. CASE Restarted
  BY <1>3 DEF Restarted, Clean
<1>4. CASE Frame \/ DeleteChannel
  BY <1>4 DEF Frame, DeleteChannel, Clean
<1>5. ASSUME NEW s \in Sessions,
             Appear(s) \/ RegisterField(s) \/ Delete(s) \/ Expire(s) \/ Open(s) \/ CloseWindow(s)
      PROVE  Clean'
  <2>1. CASE Appear(s) \/ RegisterField(s) \/ Expire(s)
    BY <2>1 DEF Appear, RegisterField, Expire, Clean, ui
  <2>2. CASE Delete(s) \/ Open(s) \/ CloseWindow(s)
    BY <2>2 DEF Delete, Open, CloseWindow, Clean
  <2>. QED  BY <1>5, <2>1, <2>2
<1>6. CASE UNCHANGED vars
  BY <1>6 DEF vars, ui, Clean
<1>. QED  BY <1>1, <1>2, <1>3, <1>4, <1>5, <1>6, Zenon DEF Next

LEMMA AwaitingIs ==
  ASSUME DiscoveryTypes
  PROVE  Awaiting \in Seq(Events) /\ Len(Awaiting) \in Nat /\ Len(Awaiting) = Len(events) + Len(outbox)
         /\ Len(events) \in Nat /\ Len(outbox) \in Nat
<1>1. events \in Seq(Events) /\ outbox \in Seq(Events)
  BY DEF DiscoveryTypes, OtherTypes
<1>. QED  BY <1>1, Joined DEF Awaiting

\* A step that leaves alone what is awaited and what is shown.
LEMMA ComingSame ==
  ASSUME Coming, main = "run", Awaiting' = Awaiting, Present' = Present, prevLiveness' = prevLiveness,
         UNCHANGED <<everConnected, connected, removed, panel>>
  PROVE  Coming'
<1>1. UNCHANGED <<everConnected, connected>> /\ removed' = removed /\ panel' = panel
  OBVIOUS
<1>2. everConnected' = (connected' \/ \E i \in 1 .. Len(Awaiting') : Awaiting'[i].type = "Connected")
  <2> DEFINE told(q) == \E i \in 1 .. Len(q) : q[i].type = "Connected"
  <2>1. everConnected = (connected \/ told(Awaiting))
    BY Zenon DEF Coming
  <2> HIDE DEF told
  <2>2. everConnected' = (connected' \/ told(Awaiting'))
    BY <1>1, <2>1
  <2>. QED  BY <2>2 DEF told
<1>3. \A s \in Sessions : RowDue(panel'[s], s \in removed', Awaiting', 0, s, s \in Present')
  BY <1>1, Zenon DEF Coming
<1>4. \A s \in Present' \cap DOMAIN prevLiveness' : StateDue(panel'[s], Awaiting', 0, s, prevLiveness'[s])
  BY <1>1, Zenon DEF Coming
<1>. QED  BY <1>2, <1>3, <1>4, Zenon DEF Coming

\* An event that does not add or remove a row is queued.
LEMMA ComingMore ==
  ASSUME DiscoveryTypes, Coming, main = "run", NEW e \in Events, e.type \notin RowKinds, Awaiting' = Append(Awaiting, e),
         Present' = Present, UNCHANGED <<connected, removed, panel>>
  PROVE  /\ \A s \in Sessions : RowDue(panel'[s], s \in removed', Awaiting', 0, s, s \in Present')
         /\ \A s \in Sessions, l \in Liveness :
              (e.type # "StatusChanged" \/ e.session # s) /\ StateDue(panel[s], Awaiting, 0, s, l) =>
                StateDue(panel'[s], Awaiting', 0, s, l)
         /\ \A s \in Sessions : e.type = "StatusChanged" /\ e.session = s => StateDue(panel'[s], Awaiting', 0, s, e.value)
         /\ (\E i \in 1 .. Len(Awaiting') : Awaiting'[i].type = "Connected") <=>
              (e.type = "Connected" \/ \E i \in 1 .. Len(Awaiting) : Awaiting[i].type = "Connected")
<1> DEFINE q == Awaiting
           r == Awaiting'
<1>1. q \in Seq(Events) /\ Len(q) \in Nat
  BY AwaitingIs
<1>2. r = Append(q, e)
  OBVIOUS
<1>3. panel' = panel /\ removed' = removed
  OBVIOUS
<1> HIDE DEF q, r
<1>4. /\ Len(r) = Len(q) + 1 /\ Len(r) \in Nat \ {0} /\ Len(q) <= Len(r) /\ r[Len(r)] = e
      /\ \A i \in 1 .. Len(q) : r[i] = q[i]
      /\ \A i \in Len(q) + 1 .. Len(r) : i = Len(r) /\ r[i] = e
  BY <1>1, <1>2
<1>5. ASSUME NEW s \in Sessions PROVE RowDue(panel[s], s \in removed, r, 0, s, s \in Present)
  <2> DEFINE rows == panel[s]
             gone == s \in removed
             there == s \in Present
  <2>0. RowDue(rows, gone, q, 0, s, there)
    BY Zenon DEF Coming, q
  <2>1. RowDue(rows, gone, q, 0, s, there) /\ gone \in BOOLEAN /\ there \in BOOLEAN
    BY <2>0
  <2>2. \A i \in Len(q) + 1 .. Len(r) : ~ (r[i].type \in RowKinds /\ r[i].session = s)
    BY <1>4
  <2> HIDE DEF rows, gone, there
  <2>3. RowDue(rows, gone, r, 0, s, there)
    BY <1>1, <1>4, <2>1, <2>2, Irrelevant
  <2>. QED  BY <2>3, Zenon DEF rows, gone, there
<1>6. ASSUME NEW s \in Sessions, NEW l \in Liveness, e.type # "StatusChanged" \/ e.session # s, StateDue(panel[s], q, 0, s, l)
      PROVE  StateDue(panel[s], r, 0, s, l)
  <2> DEFINE rows == panel[s]
  <2>1. \A i \in Len(q) + 1 .. Len(r) : ~ (r[i].type = "StatusChanged" /\ r[i].session = s)
    BY <1>4, <1>6
  <2>2. \A i \in Len(q) + 1 .. Len(r) : ~ (r[i].type \in RowKinds /\ r[i].session = s)
    BY <1>4
  <2>3. StateDue(rows, q, 0, s, l)
    BY <1>6
  <2> HIDE DEF rows
  <2>4. StateDue(rows, r, 0, s, l)
    BY <1>1, <1>4, <2>1, <2>2, <2>3, Irrelevant
  <2>. QED  BY <2>4, Zenon DEF rows
<1>7. ASSUME NEW s \in Sessions, e.type = "StatusChanged", e.session = s PROVE StateDue(panel[s], r, 0, s, e.value)
  BY <1>4, <1>7, StateComes
<1>8. (\E i \in 1 .. Len(r) : r[i].type = "Connected") <=> (e.type = "Connected" \/ \E i \in 1 .. Len(q) : q[i].type = "Connected")
  <2>1. \A i \in 1 .. Len(r) : i \in 1 .. Len(q) \/ i = Len(r)
    BY <1>1, <1>4
  <2>2. \A i \in 1 .. Len(q) : i \in 1 .. Len(r)
    BY <1>1, <1>4
  <2>3. Len(r) \in 1 .. Len(r)
    BY <1>4
  <2>. QED  BY <1>4, <2>1, <2>2, <2>3, Zenon
<1>. QED  BY <1>3, <1>5, <1>6, <1>7, <1>8, Zenon DEF q, r

\* What a frame learns of the connection.
LEMMA FrameConnects ==
  ASSUME NEW q \in Seq(Events), NEW n \in Nat, n <= Len(q), NEW h \in [0 .. n -> Screen],
         \A i \in 1 .. n : h[i] = Handle(h[i - 1], q[i])
  PROVE  h[n].connected <=> (h[0].connected \/ \E i \in 1 .. n : q[i].type = "Connected")
<1> DEFINE Good == {k \in Nat : k <= n =>
                      (h[k].connected <=> (h[0].connected \/ \E i \in 1 .. k : q[i].type = "Connected"))}
<1>1. 0 \in Good
  <2>1. 1 .. 0 = {}
    OBVIOUS
  <2>. QED  BY <2>1
<1>2. ASSUME NEW k \in Good PROVE k + 1 \in Good
  <2> SUFFICES ASSUME k + 1 <= n
               PROVE  h[k + 1].connected <=> (h[0].connected \/ \E i \in 1 .. k + 1 : q[i].type = "Connected")
    OBVIOUS
  <2> DEFINE u == h[k]
             e == q[k + 1]
  <2>1. k \in Nat /\ k <= n /\ k \in 0 .. n /\ k + 1 \in 1 .. n /\ k + 1 \in 1 .. Len(q) /\ (k + 1) - 1 = k
    OBVIOUS
  <2>2. u \in Screen /\ e \in Events /\ h[k + 1] = Handle(u, e)
        /\ (u.connected <=> (h[0].connected \/ \E i \in 1 .. k : q[i].type = "Connected"))
    BY <2>1
  <2>3. \A i \in 1 .. k + 1 : i \in 1 .. k \/ i = k + 1
    BY <2>1
  <2>4. (\A i \in 1 .. k : i \in 1 .. k + 1) /\ k + 1 \in 1 .. k + 1
    BY <2>1
  <2> HIDE DEF u, Good
  <2>5. Handle(u, e).connected = (u.connected \/ e.type = "Connected")
    <3> HIDE DEF e
    <3>. QED  BY <2>2, HandleIs
  <2>. QED  BY <2>2, <2>3, <2>4, <2>5
<1>3. Good = Nat
  <2> HIDE DEF Good
  <2>1. Good \subseteq Nat
    BY DEF Good
  <2>. QED  BY <1>1, <1>2, <2>1, NatSetInduction
<1>. QED  BY <1>3

LEMMA ComingFrame ==
  ASSUME DiscoveryTypes, Coming, Frame
  PROVE  Coming'
<1> DEFINE q == Awaiting
           n == Len(events)
           r == outbox
<1>1. main = "run" /\ main' = "run" /\ UNCHANGED <<at, current, known, outbox, prevLiveness, everConnected>>
  BY DEF Frame, cycle, tracked
<1>2. Present' = Present
  BY <1>1 DEF Present
<1>3. Awaiting' = outbox
  BY <1>1 DEF Frame, Awaiting, DiscoveryTypes, OtherTypes
<1>4. PICK h \in [0 .. n -> Screen] :
        /\ h[0] = [panel |-> panel, window |-> window, connected |-> connected, removed |-> removed]
        /\ h[n].panel = panel' /\ h[n].connected = connected' /\ h[n].removed = removed'
        /\ \A i \in 1 .. n : h[i] = Handle(h[i - 1], events[i])
  BY FrameIs
<1>5. h[0].panel = panel /\ h[0].connected = connected /\ h[0].removed = removed
  BY <1>4
<1>6. /\ q \in Seq(Events) /\ n \in Nat /\ Len(r) \in Nat /\ Len(q) = n + Len(r) /\ r \in Seq(Events)
      /\ \A i \in 1 .. n : q[i] = events[i]
      /\ \A i \in n + 1 .. n + Len(r) : i - n \in 1 .. Len(r) /\ q[i] = r[i - n]
  <2>1. events \in Seq(Events) /\ outbox \in Seq(Events)
    BY DEF DiscoveryTypes, OtherTypes
  <2>. QED  BY <2>1, Joined DEF Awaiting
<1>7. \A i \in 1 .. n : h[i] = Handle(h[i - 1], q[i])
  BY <1>4, <1>6
<1>8. \A i \in 1 .. Len(r) : i + n \in n + 1 .. n + Len(r) /\ (i + n) - n = i
  <2> HIDE DEF r, n
  <2>. QED  BY <1>6
<1>9. \A i \in 1 .. Len(r) : r[i] = q[i + n]
  BY <1>6, <1>8
<1>10. main = "run" => everConnected = (connected \/ \E i \in 1 .. Len(q) : q[i].type = "Connected")
  BY DEF Coming
<1>11. \A s \in Sessions : RowDue(panel[s], s \in removed, q, 0, s, s \in Present)
  BY <1>1, Zenon DEF Coming
<1>12. \A s \in Present \cap DOMAIN prevLiveness : StateDue(panel[s], q, 0, s, prevLiveness[s])
  BY <1>1, Zenon DEF Coming
<1> HIDE DEF q, n, r
<1>13. n <= Len(q) /\ Len(q) \in Nat /\ n >= n /\ n - n = 0 /\ Len(q) = Len(r) + n
  BY <1>6
<1>14. ASSUME NEW s \in Sessions, NEW l
       PROVE  /\ RowDue(panel'[s], s \in removed', r, 0, s, s \in Present)
              /\ StateDue(panel[s], q, 0, s, l) => StateDue(panel'[s], r, 0, s, l)
  <2> DEFINE there == s \in Present
             rows == h[n].panel[s]
             gone == s \in h[n].removed
  <2>1. RowDue(h[0].panel[s], s \in h[0].removed, q, 0, s, there) /\ there \in BOOLEAN
    <3>1. RowDue(panel[s], s \in removed, q, 0, s, there)
      BY <1>11, Zenon
    <3>. QED  BY <1>5, <3>1
  <2> HIDE DEF there
  <2>2. /\ RowDue(h[n].panel[s], s \in h[n].removed, q, n, s, there)
        /\ StateDue(h[0].panel[s], q, 0, s, l) => StateDue(h[n].panel[s], q, n, s, l)
    BY <1>6, <1>7, <1>13, <2>1, FrameTakes
  <2>3. RowDue(rows, gone, q, n, s, there) /\ gone \in BOOLEAN
        /\ (StateDue(h[0].panel[s], q, 0, s, l) => StateDue(rows, q, n, s, l))
    BY <2>2
  <2> HIDE DEF rows, gone
  <2>4. /\ RowDue(rows, gone, q, n, s, there) => RowDue(rows, gone, r, n - n, s, there)
        /\ StateDue(rows, q, n, s, l) => StateDue(rows, r, n - n, s, l)
    BY <1>6, <1>9, <1>13, <2>1, <2>3, Moved
  <2>5. RowDue(rows, gone, r, 0, s, there) /\ (StateDue(panel[s], q, 0, s, l) => StateDue(rows, r, 0, s, l))
    BY <1>5, <1>13, <2>3, <2>4
  <2>. QED  BY <1>4, <2>5, Zenon DEF rows, gone, there
<1>15. everConnected = (connected' \/ \E i \in 1 .. Len(r) : r[i].type = "Connected")
  <2>1. h[n].connected <=> (h[0].connected \/ \E i \in 1 .. n : q[i].type = "Connected")
    BY <1>6, <1>7, <1>13, FrameConnects
  <2>2. (\E i \in 1 .. Len(q) : q[i].type = "Connected") <=>
          ((\E i \in 1 .. n : q[i].type = "Connected") \/ \E i \in 1 .. Len(r) : r[i].type = "Connected")
    <3>1. \A i \in 1 .. Len(q) : i \in 1 .. n \/ i \in n + 1 .. n + Len(r)
      BY <1>6
    <3>2. (\A i \in 1 .. n : i \in 1 .. Len(q)) /\ \A i \in 1 .. Len(r) : i + n \in 1 .. Len(q)
      BY <1>6
    <3>. QED  BY <1>6, <1>9, <3>1, <3>2, Zenon
  <2>3. everConnected \in BOOLEAN /\ connected \in BOOLEAN /\ h[n] \in Screen
    BY <1>6 DEF DiscoveryTypes, OtherTypes
  <2>4. connected' \in BOOLEAN
    BY <1>4, <2>3 DEF Screen
  <2>5. connected' <=> (connected \/ \E i \in 1 .. n : q[i].type = "Connected")
    BY <1>4, <1>5, <2>1, Zenon
  <2>. QED  BY <1>1, <1>10, <2>2, <2>3, <2>4, <2>5, Zenon
<1>16. everConnected' = (connected' \/ \E i \in 1 .. Len(Awaiting') : Awaiting'[i].type = "Connected")
  <2>1. Awaiting' = r /\ everConnected' = everConnected
    BY <1>1, <1>3 DEF r
  <2>. QED  BY <1>15, <2>1
<1>17. \A s \in Sessions : RowDue(panel'[s], s \in removed', Awaiting', 0, s, s \in Present')
  BY <1>2, <1>3, <1>14, Zenon DEF r
<1>18. \A s \in Present' \cap DOMAIN prevLiveness' : StateDue(panel'[s], Awaiting', 0, s, prevLiveness'[s])
  <2> SUFFICES ASSUME NEW s \in Present \cap DOMAIN prevLiveness PROVE StateDue(panel'[s], r, 0, s, prevLiveness[s])
    BY <1>1, <1>2, <1>3 DEF r
  <2>1. s \in Sessions
    BY MapIs DEF DiscoveryTypes, MapTypes
  <2>2. StateDue(panel[s], q, 0, s, prevLiveness[s])
    BY <1>12
  <2>. QED  BY <1>14, <2>1, <2>2
<1>. QED  BY <1>16, <1>17, <1>18, Zenon DEF Coming

LEMMA ComingDiff ==
  ASSUME DiscoveryTypes, Cycle, Coming, Diff, main = "run"
  PROVE  Coming'
<1> DEFINE q == Awaiting
           r == Awaiting'
           b == outbox'
<1>1. /\ at = "diff" /\ at' = "probe" /\ UNCHANGED <<current, known, prevLiveness, everConnected, events>>
      /\ UNCHANGED <<connected, panel, removed>>
  BY DEF Diff, ui
<1>2. /\ Present = DOMAIN known /\ Present' = DOMAIN current /\ DOMAIN prevLiveness = DOMAIN known
      /\ outbox = <<>>
  BY <1>1 DEF Present, Cycle
<1>3. /\ b \in Seq(Events) /\ \A i \in 1 .. Len(b) : b[i].type \in RowKinds \cup {"MetaUpdated"}
      /\ \A i \in 1 .. Len(b) : b[i].type \in RowKinds =>
           IF b[i].type = "Appeared" THEN b[i].session \in DOMAIN current \ DOMAIN known
           ELSE b[i].session \in DOMAIN known \ DOMAIN current
      /\ \A s \in (DOMAIN current \ DOMAIN known) \cup (DOMAIN known \ DOMAIN current) :
           \E p \in 1 .. Len(b) :
             /\ b[p].type \in RowKinds /\ b[p].session = s
             /\ \A i \in 1 .. Len(b) : b[i].type \in RowKinds /\ b[i].session = s => i = p
  BY DiffAnnounces
<1>4. events \in Seq(Events) /\ q = events /\ r = events \o b
  BY <1>1, <1>2 DEF Awaiting, DiscoveryTypes, OtherTypes
<1>5. main = "run" => everConnected = (connected \/ \E i \in 1 .. Len(q) : q[i].type = "Connected")
  BY DEF Coming
<1>6. \A s \in Sessions : RowDue(panel[s], s \in removed, q, 0, s, s \in DOMAIN known)
  BY <1>2, Zenon DEF Coming
<1>7. \A s \in DOMAIN known : StateDue(panel[s], q, 0, s, prevLiveness[s])
  BY <1>2 DEF Coming
<1> HIDE DEF q, r, b
<1>8. /\ Len(q) \in Nat /\ Len(b) \in Nat /\ Len(r) \in Nat /\ Len(r) = Len(q) + Len(b) /\ Len(q) <= Len(r)
      /\ \A i \in 1 .. Len(q) : r[i] = q[i]
      /\ \A i \in Len(q) + 1 .. Len(r) : i - Len(q) \in 1 .. Len(b) /\ r[i] = b[i - Len(q)]
  <2>1. /\ Len(q) \in Nat /\ Len(b) \in Nat /\ Len(r) = Len(q) + Len(b)
        /\ \A i \in 1 .. Len(q) : r[i] = q[i]
        /\ \A i \in Len(q) + 1 .. Len(q) + Len(b) : i - Len(q) \in 1 .. Len(b) /\ r[i] = b[i - Len(q)]
    BY <1>3, <1>4, Joined
  <2>. QED  BY <2>1
<1>9. \A i \in Len(q) + 1 .. Len(r) : r[i].type \in RowKinds \cup {"MetaUpdated"}
  BY <1>3, <1>8
<1>10. ASSUME NEW s, s \notin (DOMAIN current \ DOMAIN known) \cup (DOMAIN known \ DOMAIN current)
       PROVE  \A i \in Len(q) + 1 .. Len(r) : ~ (r[i].type \in RowKinds /\ r[i].session = s)
  BY <1>3, <1>8, <1>10
<1>11. ASSUME NEW s \in Sessions PROVE RowDue(panel[s], s \in removed, r, 0, s, s \in DOMAIN current)
  <2> DEFINE rows == panel[s]
             gone == s \in removed
             there == s \in DOMAIN known
             now == s \in DOMAIN current
  <2>0. RowDue(rows, gone, q, 0, s, there)
    BY <1>6, Zenon
  <2>1. /\ rows \in Seq(Entry) /\ gone \in BOOLEAN /\ there \in BOOLEAN /\ now \in BOOLEAN
        /\ (now = there \/ now = ~ there)
        /\ now = there <=> s \notin (DOMAIN current \ DOMAIN known) \cup (DOMAIN known \ DOMAIN current)
    BY DEF DiscoveryTypes, OtherTypes
  <2>2. CASE now = there
    <3>1. \A i \in Len(q) + 1 .. Len(r) : ~ (r[i].type \in RowKinds /\ r[i].session = s)
      BY <1>10, <2>1, <2>2
    <3> HIDE DEF rows, gone, there, now
    <3>2. RowDue(rows, gone, r, 0, s, there)
      BY <1>8, <2>0, <2>1, <3>1, Irrelevant
    <3>. QED  BY <2>2, <3>2, Zenon DEF rows, gone, now
  <2>3. CASE now # there
    <3>1. PICK x \in 1 .. Len(b) : /\ b[x].type \in RowKinds /\ b[x].session = s
                                   /\ \A i \in 1 .. Len(b) : b[i].type \in RowKinds /\ b[i].session = s => i = x
      BY <1>3, <2>1, <2>3
    <3> DEFINE p == x + Len(q)
    <3>2. p \in Len(q) + 1 .. Len(r) /\ p - Len(q) = x /\ r[p] = b[x]
      BY <1>8
    <3>3. \A i \in Len(q) + 1 .. Len(r) : r[i].type \in RowKinds /\ r[i].session = s => i = p
      <4> SUFFICES ASSUME NEW i \in Len(q) + 1 .. Len(r), r[i].type \in RowKinds, r[i].session = s PROVE i = p
        OBVIOUS
      <4>1. i - Len(q) \in 1 .. Len(b) /\ r[i] = b[i - Len(q)]
        BY <1>8
      <4>2. i - Len(q) = x
        BY <3>1, <4>1
      <4>. QED  BY <1>8, <4>2
    <3>4. b[x].type = "Appeared" <=> ~ there
      <4>1. IF b[x].type = "Appeared" THEN s \in DOMAIN current \ DOMAIN known ELSE s \in DOMAIN known \ DOMAIN current
        BY <1>3, <3>1
      <4>. QED  BY <4>1
    <3>5. now = ~ there
      BY <2>1, <2>3
    <3> HIDE DEF rows, gone, there, now, p
    <3>6. now = (r[p].type = "Appeared") /\ now # there /\ OneMore(r, q, s, p)
      BY <1>8, <2>1, <3>1, <3>2, <3>3, <3>4, <3>5 DEF OneMore
    <3>7. Turns(rows, gone, q, r, s, p, there, now)
      BY <2>0, <2>1, <3>6, Zenon DEF Turns
    <3>8. RowDue(rows, gone, r, 0, s, now)
      BY <3>7, RowComes, Zenon
    <3>. QED  BY <3>8, Zenon DEF rows, gone, now
  <2>. QED  BY <2>2, <2>3
<1>12. ASSUME NEW s \in DOMAIN current \cap DOMAIN known PROVE StateDue(panel[s], r, 0, s, prevLiveness[s])
  <2> DEFINE rows == panel[s]
             l == prevLiveness[s]
  <2>1. StateDue(rows, q, 0, s, l)
    BY <1>7
  <2>2. \A i \in Len(q) + 1 .. Len(r) : ~ (r[i].type \in RowKinds /\ r[i].session = s)
    BY <1>10
  <2>3. \A i \in Len(q) + 1 .. Len(r) : ~ (r[i].type = "StatusChanged" /\ r[i].session = s)
    BY <1>9 DEF RowKinds
  <2> HIDE DEF rows, l
  <2>4. StateDue(rows, r, 0, s, l)
    BY <1>8, <2>1, <2>2, <2>3, Irrelevant
  <2>. QED  BY <2>4 DEF rows, l
<1>13. everConnected = (connected \/ \E i \in 1 .. Len(r) : r[i].type = "Connected")
  <2>1. (\E i \in 1 .. Len(r) : r[i].type = "Connected") <=> \E i \in 1 .. Len(q) : q[i].type = "Connected"
    <3>1. \A i \in 1 .. Len(r) : i \in 1 .. Len(q) \/ i \in Len(q) + 1 .. Len(r)
      BY <1>8
    <3>2. \A i \in 1 .. Len(q) : i \in 1 .. Len(r)
      BY <1>8
    <3>. QED  BY <1>8, <1>9, <3>1, <3>2 DEF RowKinds
  <2>2. everConnected \in BOOLEAN
    BY DEF DiscoveryTypes, OtherTypes
  <2>. QED  BY <1>5, <2>1, <2>2, Zenon
<1>14. everConnected' = everConnected /\ connected' = connected /\ panel' = panel /\ removed' = removed
       /\ prevLiveness' = prevLiveness /\ r = Awaiting'
  BY <1>1 DEF r
<1>15. everConnected' = (connected' \/ \E i \in 1 .. Len(Awaiting') : Awaiting'[i].type = "Connected")
  BY <1>13, <1>14
<1>16. \A s \in Sessions : RowDue(panel'[s], s \in removed', Awaiting', 0, s, s \in Present')
  BY <1>2, <1>11, <1>14, Zenon
<1>17. \A s \in Present' \cap DOMAIN prevLiveness' : StateDue(panel'[s], Awaiting', 0, s, prevLiveness'[s])
  BY <1>2, <1>12, <1>14
<1>. QED  BY <1>15, <1>16, <1>17, Zenon DEF Coming

LEMMA ComingList ==
  ASSUME DiscoveryTypes, Cycle, Coming, List \/ ListFails, main = "run"
  PROVE  Coming'
<1> DEFINE e == Event("Connected", "", 0)
<1>1. /\ at = "list" /\ at' # "probe" /\ everConnected' = TRUE
      /\ events' = IF everConnected THEN events ELSE Append(events, e)
      /\ UNCHANGED <<known, prevLiveness, outbox, connected, panel, removed>>
  BY DEF List, ListFails, cycle, ui
<1>2. Present' = Present /\ outbox = <<>>
  BY <1>1 DEF Present, Cycle
<1>3. events \in Seq(Events) /\ Awaiting = events /\ everConnected \in BOOLEAN
  BY <1>2 DEF Awaiting, DiscoveryTypes, OtherTypes
<1>4. e \in Events /\ e.type = "Connected" /\ e.type \notin RowKinds
  BY DEF Event, Events, Announced, RowKinds
<1> HIDE DEF e
<1>5. CASE everConnected
  <2>1. events' = events /\ everConnected' = everConnected
    BY <1>1, <1>3, <1>5, Zenon
  <2>2. Awaiting' = Awaiting
    BY <1>1, <2>1 DEF Awaiting
  <2>. QED  BY <1>1, <1>2, <2>1, <2>2, ComingSame
<1>6. CASE ~ everConnected
  <2>1. events' \in Seq(Events) /\ events' = Append(events, e)
    BY <1>1, <1>3, <1>4, <1>6
  <2>2. Awaiting' = events' \o <<>>
    BY <1>1, <1>2 DEF Awaiting
  <2>3. Awaiting' = Append(Awaiting, e)
    BY <1>3, <2>1, <2>2
  <2>4. /\ \A s \in Sessions : RowDue(panel'[s], s \in removed', Awaiting', 0, s, s \in Present')
        /\ \A s \in Sessions, l \in Liveness :
             (e.type # "StatusChanged" \/ e.session # s) /\ StateDue(panel[s], Awaiting, 0, s, l) =>
               StateDue(panel'[s], Awaiting', 0, s, l)
        /\ \E i \in 1 .. Len(Awaiting') : Awaiting'[i].type = "Connected"
    BY <1>1, <1>2, <1>4, <2>3, ComingMore
  <2>5. everConnected' = (connected' \/ \E i \in 1 .. Len(Awaiting') : Awaiting'[i].type = "Connected")
    BY <1>1, <2>4, Zenon
  <2>6. \A s \in Present' \cap DOMAIN prevLiveness' : StateDue(panel'[s], Awaiting', 0, s, prevLiveness'[s])
    <3> SUFFICES ASSUME NEW s \in Present \cap DOMAIN prevLiveness PROVE StateDue(panel'[s], Awaiting', 0, s, prevLiveness[s])
      BY <1>1, <1>2
    <3>1. s \in Sessions /\ prevLiveness[s] \in Liveness
      BY MapIs DEF DiscoveryTypes, MapTypes
    <3>2. StateDue(panel[s], Awaiting, 0, s, prevLiveness[s])
      BY DEF Coming
    <3>. QED  BY <1>4, <2>4, <3>1, <3>2
  <2>. QED  BY <2>4, <2>5, <2>6, Zenon DEF Coming
<1>. QED  BY <1>5, <1>6

LEMMA Pushed ==
  ASSUME NEW S, NEW q \in Seq(S), NEW r \in Seq(S), r # <<>>
  PROVE  Append(q, Head(r)) \o Tail(r) = q \o r
<1> DEFINE a == Append(q, Head(r))
           t == Tail(r)
           left == a \o t
           right == q \o r
<1>1. /\ a \in Seq(S) /\ Len(a) = Len(q) + 1 /\ a[Len(q) + 1] = r[1] /\ \A i \in 1 .. Len(q) : a[i] = q[i]
      /\ t \in Seq(S) /\ Len(t) = Len(r) - 1 /\ \A i \in 1 .. Len(r) - 1 : t[i] = r[i + 1]
      /\ Len(r) \in Nat \ {0} /\ Len(q) \in Nat
  OBVIOUS
<1> HIDE DEF a, t
<1>2. /\ left \in Seq(S) /\ Len(left) = Len(a) + Len(t)
      /\ \A i \in 1 .. Len(a) : left[i] = a[i]
      /\ \A i \in Len(a) + 1 .. Len(a) + Len(t) : i - Len(a) \in 1 .. Len(t) /\ left[i] = t[i - Len(a)]
  <2>1. a \in Seq(S) /\ t \in Seq(S) /\ left = a \o t
    BY <1>1
  <2> HIDE DEF left
  <2>. QED  BY <2>1, Joined
<1>3. /\ right \in Seq(S) /\ Len(right) = Len(q) + Len(r)
      /\ \A i \in 1 .. Len(q) : right[i] = q[i]
      /\ \A i \in Len(q) + 1 .. Len(q) + Len(r) : i - Len(q) \in 1 .. Len(r) /\ right[i] = r[i - Len(q)]
  BY Joined, Zenon
<1> HIDE DEF left, right
<1>4. PICK m \in Nat, n \in Nat : Len(q) = m /\ Len(r) = n + 1
  BY <1>1
<1>5. ASSUME NEW i \in 1 .. m + n + 1 PROVE left[i] = right[i]
  <2>1. CASE i <= m
    BY <1>1, <1>2, <1>3, <1>4, <2>1
  <2>2. CASE i = m + 1
    <3>1. i \in 1 .. Len(a) /\ i \in Len(q) + 1 .. Len(q) + Len(r) /\ i - m = 1
      BY <1>1, <1>4, <2>2
    <3>2. right[i] = r[1]
      BY <1>3, <1>4, <3>1
    <3>. QED  BY <1>1, <1>2, <1>4, <2>2, <3>1, <3>2
  <2>3. CASE i > m + 1
    <3>1. /\ i \in Len(a) + 1 .. Len(a) + Len(t) /\ i \in Len(q) + 1 .. Len(q) + Len(r)
          /\ i - (m + 1) \in 1 .. Len(r) - 1 /\ (i - (m + 1)) + 1 = i - m /\ Len(a) = m + 1
      BY <1>1, <1>4, <2>3
    <3>2. left[i] = t[i - (m + 1)] /\ right[i] = r[i - m]
      BY <1>2, <1>3, <1>4, <3>1
    <3>. QED  BY <1>1, <3>1, <3>2
  <2>. QED  BY <2>1, <2>2, <2>3
<1>6. Len(left) = m + n + 1 /\ Len(right) = m + n + 1
  BY <1>1, <1>2, <1>3, <1>4
<1>7. left = right
  BY <1>2, <1>3, <1>5, <1>6, SeqEqual
<1>. QED  BY <1>7 DEF left, right, a, t

LEMMA ComingProbe ==
  ASSUME DiscoveryTypes, Cycle, Coming, NEW x \in Sessions, Probe(x), main = "run"
  PROVE  Coming'
<1>1. PICK l \in Liveness :
        /\ prevLiveness' = Put(prevLiveness, x, l)
        /\ outbox' = IF x \in DOMAIN prevLiveness /\ prevLiveness[x] = l THEN <<>> ELSE <<Event("StatusChanged", x, l)>>
  BY DEF Probe
<1>2. /\ at = "probe" /\ at' = "probe" /\ outbox = <<>>
      /\ UNCHANGED <<current, known, everConnected, events, connected, panel, removed>>
  BY DEF Probe, ui
<1>3. Present' = Present
  BY <1>2 DEF Present
<1>4. events \in Seq(Events) /\ Awaiting = events /\ Awaiting' = events \o outbox' /\ prevLiveness \in Maps(Liveness)
      /\ everConnected \in BOOLEAN
  BY <1>2 DEF Awaiting, DiscoveryTypes, OtherTypes, MapTypes
<1>5. /\ DOMAIN prevLiveness' = DOMAIN prevLiveness \cup {x} /\ prevLiveness'[x] = l
      /\ \A s \in DOMAIN prevLiveness : s # x => prevLiveness'[s] = prevLiveness[s]
  <2> DEFINE p == Put(prevLiveness, x, l)
  <2>1. /\ DOMAIN p = DOMAIN prevLiveness \cup {x} /\ p[x] = l
        /\ \A s \in DOMAIN prevLiveness : s # x => p[s] = prevLiveness[s]
    BY DEF Put
  <2>2. prevLiveness' = p
    BY <1>1
  <2> HIDE DEF p
  <2>. QED  BY <2>1, <2>2
<1>6. \A s \in DOMAIN prevLiveness : s \in Sessions /\ prevLiveness[s] \in Liveness
  BY <1>4, MapIs
<1>7. \A s \in Present \cap DOMAIN prevLiveness : StateDue(panel[s], Awaiting, 0, s, prevLiveness[s])
  BY DEF Coming
<1>8. CASE x \in DOMAIN prevLiveness /\ prevLiveness[x] = l
  <2>1. Awaiting' = Awaiting
    BY <1>1, <1>4, <1>8
  <2>2. /\ DOMAIN prevLiveness' = DOMAIN prevLiveness /\ \A s \in DOMAIN prevLiveness : prevLiveness'[s] = prevLiveness[s]
    BY <1>5, <1>8
  <2>3. prevLiveness' \in [DOMAIN prevLiveness -> Liveness] /\ prevLiveness \in [DOMAIN prevLiveness -> Liveness]
    <3>1. prevLiveness' \in Maps(Liveness)
      BY <1>1, <1>4, PutMap
    <3>. QED  BY <1>4, <2>2, <3>1, MapIs
  <2>4. prevLiveness' = prevLiveness
    BY <2>2, <2>3
  <2>. QED  BY <1>2, <1>3, <2>1, <2>4, ComingSame
<1>9. CASE ~ (x \in DOMAIN prevLiveness /\ prevLiveness[x] = l)
  <2> DEFINE e == Event("StatusChanged", x, l)
  <2>1. e \in Events /\ e.type = "StatusChanged" /\ e.session = x /\ e.value = l /\ e.type \notin RowKinds
    BY DEF Event, Events, Probed, RowKinds
  <2>2. outbox' = <<e>>
    BY <1>1, <1>9
  <2> HIDE DEF e
  <2>3. Awaiting' = Append(Awaiting, e)
    BY <1>4, <2>1, <2>2
  <2>4. UNCHANGED <<connected, removed, panel>>
    BY <1>2
  <2>5. /\ \A s \in Sessions : RowDue(panel'[s], s \in removed', Awaiting', 0, s, s \in Present')
        /\ \A s \in Sessions, v \in Liveness :
             (e.type # "StatusChanged" \/ e.session # s) /\ StateDue(panel[s], Awaiting, 0, s, v) =>
               StateDue(panel'[s], Awaiting', 0, s, v)
        /\ \A s \in Sessions : e.type = "StatusChanged" /\ e.session = s => StateDue(panel'[s], Awaiting', 0, s, e.value)
        /\ (\E i \in 1 .. Len(Awaiting') : Awaiting'[i].type = "Connected") <=>
             (e.type = "Connected" \/ \E i \in 1 .. Len(Awaiting) : Awaiting[i].type = "Connected")
    BY <1>3, <2>1, <2>3, <2>4, ComingMore
  <2>6. everConnected' = (connected' \/ \E i \in 1 .. Len(Awaiting') : Awaiting'[i].type = "Connected")
    <3>1. e.type # "Connected"
      BY <2>1
    <3>2. everConnected = (connected \/ \E i \in 1 .. Len(Awaiting) : Awaiting[i].type = "Connected")
      BY Zenon DEF Coming
    <3>3. everConnected' = everConnected /\ connected' = connected
      BY <1>2
    <3>. QED  BY <1>4, <2>5, <3>1, <3>2, <3>3, Zenon
  <2>7. ASSUME NEW s \in Present \cap DOMAIN prevLiveness' PROVE StateDue(panel'[s], Awaiting', 0, s, prevLiveness'[s])
    <3>1. CASE s = x
      BY <1>5, <2>1, <2>5, <3>1
    <3>2. CASE s # x
      <4>1. s \in DOMAIN prevLiveness /\ prevLiveness'[s] = prevLiveness[s] /\ s \in Sessions /\ prevLiveness[s] \in Liveness
        BY <1>5, <1>6, <3>2
      <4>. QED  BY <1>7, <2>1, <2>5, <3>2, <4>1
    <3>. QED  BY <3>1, <3>2
  <2>. QED  BY <1>3, <2>5, <2>6, <2>7 DEF Coming
<1>. QED  BY <1>8, <1>9

LEMMA ComingEndCycle ==
  ASSUME DiscoveryTypes, Cycle, Coming, EndCycle, main = "run"
  PROVE  Coming'
<1>1. /\ at = "probe" /\ at' = "sleep" /\ known' = current /\ prevLiveness' = StillThere(prevLiveness)
      /\ UNCHANGED <<outbox, events, everConnected, connected, panel, removed>>
  BY DEF EndCycle, ui
<1>2. Present' = Present /\ Awaiting' = Awaiting
  BY <1>1 DEF Present, Awaiting
<1>3. /\ DOMAIN prevLiveness' = DOMAIN prevLiveness \cap DOMAIN current
      /\ \A s \in DOMAIN prevLiveness' : prevLiveness'[s] = prevLiveness[s]
  BY <1>1, StillThereMap DEF DiscoveryTypes, MapTypes
<1>4. panel' = panel /\ removed' = removed /\ everConnected' = everConnected /\ connected' = connected
  BY <1>1
<1>5. everConnected' = (connected' \/ \E i \in 1 .. Len(Awaiting') : Awaiting'[i].type = "Connected")
  <2> DEFINE told(q) == \E i \in 1 .. Len(q) : q[i].type = "Connected"
  <2>1. everConnected = (connected \/ told(Awaiting))
    BY Zenon DEF Coming
  <2> HIDE DEF told
  <2>2. everConnected' = (connected' \/ told(Awaiting'))
    BY <1>2, <1>4, <2>1
  <2>. QED  BY <2>2 DEF told
<1>6. \A s \in Sessions : RowDue(panel'[s], s \in removed', Awaiting', 0, s, s \in Present')
  BY <1>2, <1>4, Zenon DEF Coming
<1>7. \A s \in Present' \cap DOMAIN prevLiveness' : StateDue(panel'[s], Awaiting', 0, s, prevLiveness'[s])
  <2> SUFFICES ASSUME NEW s \in Present \cap DOMAIN prevLiveness' PROVE StateDue(panel[s], Awaiting, 0, s, prevLiveness[s])
    BY <1>2, <1>3, <1>4
  <2>. QED  BY <1>3 DEF Coming
<1>. QED  BY <1>5, <1>6, <1>7, Zenon DEF Coming

\* The user takes a row out of the list.
LEMMA RowGone ==
  ASSUME NEW rows, NEW gone \in BOOLEAN, NEW there \in BOOLEAN, NEW q, NEW s
  PROVE  /\ RowDue(rows, gone, q, 0, s, there) => RowDue(<<>>, TRUE, q, 0, s, there)
         /\ \A l : StateDue(rows, q, 0, s, l) => StateDue(<<>>, q, 0, s, l)
<1> DEFINE R == Rows(q, 0, s)
           T == Told(q, 0, s)
<1>1. Len(<<>>) = 0
  OBVIOUS
<1> HIDE DEF R, T
<1>2. Appearing(rows, q, R) => Appearing(<<>>, q, R)
  BY DEF Appearing
<1>3. RowEnds(rows, gone, q, R, there) => RowEnds(<<>>, TRUE, q, R, there)
  BY <1>1 DEF RowEnds
<1>4. \A l : LiveEnds(rows, q, R, T, l) => LiveEnds(<<>>, q, R, T, l)
  BY DEF LiveEnds
<1>. QED  BY <1>2, <1>3, <1>4 DEF RowDue, StateDue, R, T

LEMMA ComingDeleted ==
  ASSUME DiscoveryTypes, Coming, main = "run",
         UNCHANGED <<at, current, known, prevLiveness, everConnected, events, outbox, connected>>,
         \A s \in Sessions : \/ panel'[s] = panel[s] /\ (s \in removed' <=> s \in removed)
                             \/ panel'[s] = <<>> /\ s \in removed'
  PROVE  Coming'
<1>1. Present' = Present /\ Awaiting' = Awaiting
  BY DEF Present, Awaiting
<1>2. everConnected' = everConnected /\ connected' = connected /\ prevLiveness' = prevLiveness
  OBVIOUS
<1>3. everConnected' = (connected' \/ \E i \in 1 .. Len(Awaiting') : Awaiting'[i].type = "Connected")
  <2> DEFINE told(q) == \E i \in 1 .. Len(q) : q[i].type = "Connected"
  <2>1. everConnected = (connected \/ told(Awaiting))
    BY Zenon DEF Coming
  <2> HIDE DEF told
  <2>2. everConnected' = (connected' \/ told(Awaiting'))
    BY <1>1, <1>2, <2>1
  <2>. QED  BY <2>2 DEF told
<1>4. ASSUME NEW s \in Sessions PROVE RowDue(panel'[s], s \in removed', Awaiting, 0, s, s \in Present)
  <2>1. RowDue(panel[s], s \in removed, Awaiting, 0, s, s \in Present)
    BY Zenon DEF Coming
  <2>2. CASE panel'[s] = panel[s] /\ (s \in removed' <=> s \in removed)
    <3>1. (s \in removed') = (s \in removed)
      BY <2>2
    <3>. QED  BY <2>1, <2>2, <3>1
  <2>3. CASE panel'[s] = <<>> /\ s \in removed'
    <3> DEFINE rows == panel[s]
               gone == s \in removed
               there == s \in Present
    <3>1. RowDue(rows, gone, Awaiting, 0, s, there) /\ gone \in BOOLEAN /\ there \in BOOLEAN
      BY <2>1
    <3> HIDE DEF rows, gone, there
    <3>2. RowDue(<<>>, TRUE, Awaiting, 0, s, there)
      BY <3>1, RowGone
    <3>3. (s \in removed') = TRUE
      BY <2>3
    <3>. QED  BY <2>3, <3>2, <3>3, Zenon DEF there
  <2>. QED  BY <2>2, <2>3
<1>5. ASSUME NEW s \in Present \cap DOMAIN prevLiveness PROVE StateDue(panel'[s], Awaiting, 0, s, prevLiveness[s])
  <2>1. StateDue(panel[s], Awaiting, 0, s, prevLiveness[s]) /\ s \in Sessions
    BY MapIs DEF Coming, DiscoveryTypes, MapTypes
  <2>2. CASE panel'[s] = panel[s]
    BY <2>1, <2>2
  <2>3. CASE panel'[s] = <<>>
    BY <2>1, <2>3, RowGone
  <2>. QED  BY <2>1, <2>2, <2>3
<1>. QED  BY <1>1, <1>2, <1>3, <1>4, <1>5 DEF Coming

LEMMA ComingKept == DiscoveryInv /\ [Next]_vars => Coming'
<1> SUFFICES ASSUME DiscoveryInv, [Next]_vars PROVE Coming'
  OBVIOUS
<1>0. DiscoveryTypes /\ Cycle /\ Clean /\ Coming
  BY DEF DiscoveryInv
<1>1. CASE main' # "run"
  BY <1>1 DEF Coming
<1>2. CASE Worker /\ main = "run"
  <2>1. CASE List \/ ListFails
    BY <1>0, <1>2, <2>1, ComingList
  <2>2. CASE Scan \/ PartialScan \/ Wake
    <3>1. at # "probe" /\ at' # "probe" /\ UNCHANGED <<known, prevLiveness, everConnected, events, outbox, connected, panel, removed>>
      BY <2>2 DEF Scan, PartialScan, Wake, broker, cycle, tracked, ui
    <3>2. Present' = Present /\ Awaiting' = Awaiting
      BY <3>1 DEF Present, Awaiting
    <3>. QED  BY <1>0, <1>2, <3>1, <3>2, ComingSame
  <2>3. CASE Diff
    BY <1>0, <1>2, <2>3, ComingDiff
  <2>4. CASE PushEvent
    <3>1. /\ outbox # <<>> /\ events' = Append(events, Head(outbox)) /\ outbox' = Tail(outbox)
          /\ UNCHANGED <<at, current, known, prevLiveness, everConnected, connected, panel, removed>>
      BY <2>4 DEF PushEvent, broker, tracked, ui
    <3>2. events \in Seq(Events) /\ outbox \in Seq(Events)
      BY <1>0 DEF DiscoveryTypes, OtherTypes
    <3>3. Awaiting' = Awaiting
      BY <3>1, <3>2, Pushed DEF Awaiting
    <3>4. Present' = Present
      BY <3>1 DEF Present
    <3>. QED  BY <1>0, <1>2, <3>1, <3>3, <3>4, ComingSame
  <2>5. CASE \E s \in Sessions : Probe(s)
    BY <1>0, <1>2, <2>5, ComingProbe
  <2>6. CASE EndCycle
    BY <1>0, <1>2, <2>6, ComingEndCycle
  <2>. QED  BY <1>2, <2>1, <2>2, <2>3, <2>4, <2>5, <2>6, Zenon DEF Worker
<1>3. CASE Worker /\ main # "run"
  <2>1. main' = main
    BY <1>3 DEF Worker, List, ListFails, Scan, PartialScan, Diff, PushEvent, Probe, EndCycle, Wake, ui
  <2>. QED  BY <1>1, <1>3, <2>1
<1>4. CASE Frame
  BY <1>0, <1>4, ComingFrame
<1>5. CASE Accept
  BY <1>1, <1>5 DEF Accept
<1>6. CASE Restarted
  <2>1. main = "join" /\ at = "stopped" /\ at' = "list" /\ known' = Empty /\ prevLiveness' = Empty /\ everConnected' = FALSE
        /\ events' = <<>> /\ UNCHANGED <<outbox, panel, connected, removed>>
    BY <1>6 DEF Restarted, cycle
  <2>2. Awaiting' = <<>> \o <<>>
    BY <1>0, <2>1 DEF Awaiting, Cycle
  <2>3. Awaiting' = <<>> /\ Len(<<>>) = 0
    BY <2>2
  <2>4. Present' = {} /\ DOMAIN prevLiveness' = {}
    BY <2>1, EmptyMap DEF Present
  <2>5. everConnected' = (connected' \/ \E i \in 1 .. Len(Awaiting') : Awaiting'[i].type = "Connected")
    <3>1. everConnected' = FALSE /\ connected' = FALSE
      BY <1>0, <2>1 DEF Clean
    <3>2. ~ \E i \in 1 .. Len(Awaiting') : Awaiting'[i].type = "Connected"
      BY <2>3
    <3>. QED  BY <3>1, <3>2, Zenon
  <2>6. ASSUME NEW s \in Sessions PROVE RowDue(panel'[s], s \in removed', Awaiting', 0, s, s \in Present')
    <3>1. panel'[s] = <<>> /\ (s \in removed') = FALSE /\ (s \in Present') = FALSE
      BY <1>0, <2>1, <2>4 DEF Clean
    <3>2. RowDue(<<>>, FALSE, <<>>, 0, s, FALSE)
      BY NothingDue
    <3>. QED  BY <2>3, <3>1, <3>2, Zenon
  <2>. QED  BY <2>4, <2>5, <2>6 DEF Coming
<1>7. CASE DeleteChannel
  <2>1. main = "run" /\ panel' = [s \in Sessions |-> <<>>] /\ removed' = removed \cup {s \in Sessions : panel[s] # <<>>}
        /\ UNCHANGED <<at, current, known, prevLiveness, everConnected, events, outbox, connected>>
    BY <1>7 DEF DeleteChannel, cycle, tracked
  <2>2. \A s \in Sessions : \/ panel'[s] = panel[s] /\ (s \in removed' <=> s \in removed)
                            \/ panel'[s] = <<>> /\ s \in removed'
    BY <2>1
  <2>. QED  BY <1>0, <2>1, <2>2, ComingDeleted
<1>8. ASSUME NEW x \in Sessions, Delete(x) PROVE Coming'
  <2>1. main = "run" /\ panel' = [panel EXCEPT ![x] = <<>>] /\ removed' = removed \cup {x}
        /\ UNCHANGED <<at, current, known, prevLiveness, everConnected, events, outbox, connected>>
    BY <1>8 DEF Delete, cycle, tracked
  <2>2. \A s \in Sessions : \/ panel'[s] = panel[s] /\ (s \in removed' <=> s \in removed)
                            \/ panel'[s] = <<>> /\ s \in removed'
    BY <1>0, <2>1 DEF DiscoveryTypes, OtherTypes
  <2>. QED  BY <1>0, <2>1, <2>2, ComingDeleted
<1>9. ASSUME NEW s \in Sessions, Appear(s) \/ RegisterField(s) \/ Expire(s) \/ Open(s) \/ CloseWindow(s) PROVE Coming'
  <2>1. UNCHANGED <<at, current, known, prevLiveness, everConnected, events, outbox, main, connected, panel, removed>>
    <3>1. CASE Appear(s) \/ RegisterField(s)
      BY <3>1 DEF Appear, RegisterField, cycle, tracked, ui
    <3>2. CASE Expire(s)
      BY <3>2 DEF Expire, broker, cycle, ui
    <3>3. CASE Open(s) \/ CloseWindow(s)
      BY <3>3 DEF Open, CloseWindow, broker, cycle, tracked
    <3>. QED  BY <1>9, <3>1, <3>2, <3>3
  <2>2. Present' = Present /\ Awaiting' = Awaiting
    BY <2>1 DEF Present, Awaiting
  <2>. QED  BY <1>0, <1>1, <2>1, <2>2, ComingSame
<1>10. CASE UNCHANGED vars
  <2>1. UNCHANGED <<at, current, known, prevLiveness, everConnected, events, outbox, main, connected, panel, removed>>
    BY <1>10 DEF vars, cycle, tracked, ui
  <2>2. Present' = Present /\ Awaiting' = Awaiting
    BY <2>1 DEF Present, Awaiting
  <2>. QED  BY <1>0, <1>1, <2>1, <2>2, ComingSame
<1>. QED  BY <1>2, <1>3, <1>4, <1>5, <1>6, <1>7, <1>8, <1>9, <1>10, Zenon DEF Next

LEMMA DiscoveryInvariant == Spec => []DiscoveryInv
<1>1. Init => DiscoveryInv
  BY DiscoveryStarts
<1>2. DiscoveryInv /\ [Next]_vars => DiscoveryInv'
  BY TypesKept, CycleKept, CleanKept, ComingKept DEF DiscoveryInv
<1>. QED  BY <1>1, <1>2, PTL DEF Spec

-----------------------------------------------------------------------------
(* The theorems.                                                           *)

\* The manager keeps its maps together while its thread, the broker and the render thread take turns:
\* every session whose fields wait for a deadline (m_pendingMeta) has its last count
\* (m_prevVirtualFieldCount), only sessions of the scan are probed, and what the list and the windows
\* show is always an entry with a number of fields and a state that can be.
THEOREM DiscoveryIsTyped == Spec => []TypeOK
<1>1. DiscoveryInv => TypeOK
  <2> SUFFICES ASSUME DiscoveryInv PROVE TypeOK
    OBVIOUS
  <2> USE DEF DiscoveryInv, DiscoveryTypes
  <2>1. DOMAIN registry \subseteq Sessions
    BY MapIs DEF MapTypes
  <2>2. \A m \in {current, known, prevCount, pendingMeta} : DOMAIN m \subseteq Sessions /\ \A s \in DOMAIN m : m[s] \in 0 .. MaxFields
    BY MapIs DEF MapTypes, Fields
  <2>3. \A s \in DOMAIN window : window[s] \in Entry
    BY MapIs DEF MapTypes
  <2>4. \A s \in Sessions : panel[s] \in Seq(Entry)
    BY DEF OtherTypes
  <2>5. expired \subseteq DOMAIN pendingMeta /\ DOMAIN pendingMeta \subseteq DOMAIN prevCount
    BY DEF MapTypes
  <2>. QED  BY <2>1, <2>2, <2>3, <2>4, <2>5, Zenon DEF TypeOK, OtherTypes
<1>. QED  BY <1>1, DiscoveryInvariant, PTL

\* Whatever scans ended early, listings failed, sessions came and went, and however the cycles of the
\* manager's thread fell between the frames of the render thread, the deletions of the user and the
\* restarts: once every event is handled and the thread is between two cycles, the list has one row
\* for each known session that was not deleted from it, and none for others, with the state of its
\* last probe, and the connection is shown as it is (PollSessionEvents, RunOnePollCycle, Restart).
THEOREM ListMirrorsManager == Spec => []PanelMirrors
  BY DiscoveryInvariant, Mirrors, PTL

=============================================================================
