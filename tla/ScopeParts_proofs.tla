--------------------------- MODULE ScopeParts_proofs ---------------------------
(***************************************************************************)
(* Proofs about the parts of MCScopeParts: the store of log records and    *)
(* the trace logs that feed it, the time window of the graphs, the first   *)
(* calls of the facade, and the counter list with its panels; for any      *)
(* threads, channels, counters, entries, panels and numbers of inputs.     *)
(***************************************************************************)
EXTENDS MCScopeParts, FiniteSetTheorems, WellFoundedInduction, TLAPS

-----------------------------------------------------------------------------
(* The store of log records and the trace logs.                            *)

\* What DrainPending merges: the old entries, resolved anew, and the new ones.
Known == sites \cup ToSet(pendingSites)
Old   == IF pendingSites = <<>> THEN entries ELSE ReResolve(entries, Known)
New   == [i \in DOMAIN pendingEntries |-> ResolveSiteForEntry(pendingEntries[i], Known)]

\* Types of what is merged: the old entries keep their places, numbers and
\* timestamps, and the new ones follow.
LEMMA MergeType ==
  ASSUME StoreTypeOK
  PROVE  /\ Known \in SUBSET Sites
         /\ Old \in Seq(Entry) /\ Len(Old) = Len(entries)
         /\ New \in Seq(Entry) /\ Len(New) = Len(pendingEntries)
         /\ Old \o New \in Seq(Entry)
         /\ \A i \in DOMAIN entries : Old[i].num = entries[i].num /\ Old[i].ts = entries[i].ts
         /\ \A i \in DOMAIN pendingEntries : New[i].num = pendingEntries[i].num
<1>1. Known \in SUBSET Sites
  <2>1. \A i \in DOMAIN pendingSites : pendingSites[i] \in Sites
    BY DEF StoreTypeOK
  <2> QED
    BY <2>1 DEF StoreTypeOK, Known, ToSet
<1>2. /\ entries \in Seq(Entry) /\ DOMAIN entries = 1 .. Len(entries) /\ Len(entries) \in Nat
      /\ \A i \in DOMAIN entries : entries[i] \in Entry
      /\ pendingEntries \in Seq(Record) /\ DOMAIN pendingEntries = 1 .. Len(pendingEntries)
      /\ Len(pendingEntries) \in Nat
      /\ \A i \in DOMAIN pendingEntries : pendingEntries[i] \in Record
  BY DEF StoreTypeOK
<1>3. /\ ReResolve(entries, Known) \in Seq(Entry)
      /\ Len(ReResolve(entries, Known)) = Len(entries)
      /\ \A i \in DOMAIN entries : /\ ReResolve(entries, Known)[i].num = entries[i].num
                                   /\ ReResolve(entries, Known)[i].ts = entries[i].ts
  BY <1>2 DEF ReResolve, ResolveSiteForEntry, Entry
<1>4. /\ Old \in Seq(Entry) /\ Len(Old) = Len(entries)
      /\ \A i \in DOMAIN entries : Old[i].num = entries[i].num /\ Old[i].ts = entries[i].ts
  BY <1>2, <1>3 DEF Old
<1>5. /\ New \in Seq(Entry) /\ Len(New) = Len(pendingEntries)
      /\ \A i \in DOMAIN pendingEntries : New[i].num = pendingEntries[i].num
  BY <1>2 DEF New, ResolveSiteForEntry, Entry, Record
<1> QED
  BY <1>1, <1>4, <1>5

\* A step that drains ends with the merged entries, as they are or sorted.
LEMMA DrainResult ==
  ASSUME StoreTypeOK, DrainPending
  PROVE  /\ sites' = Known /\ pendingEntries' = <<>> /\ pendingSites' = <<>>
         /\ \/ entries' = Old \o New /\ InOrder(Old \o New, Len(entries) + 1)
            \/ entries' \in Sortings(Old \o New)
BY DEF DrainPending, Known, Old, New, SortNotNeeded

\* A sorting has the length, the members and the order it should have.
LEMMA SortingIsSorted ==
  ASSUME NEW es \in Seq(Entry), NEW t \in Sortings(es)
  PROVE  /\ t \in Seq(Entry) /\ Len(t) = Len(es) /\ InOrder(t, 1)
         /\ \A i \in DOMAIN t : \E j \in DOMAIN es : t[i] = es[j]
         /\ \A j \in DOMAIN es : \E i \in DOMAIN t : t[i] = es[j]
<1>1. /\ t \in [DOMAIN es -> ToSet(es)] /\ InOrder(t, 1) /\ ToSet(t) = ToSet(es)
  BY DEF Sortings
<1>2. /\ DOMAIN es = 1 .. Len(es) /\ Len(es) \in Nat /\ ToSet(es) \subseteq Entry
  BY DEF ToSet
<1>3. t \in Seq(Entry) /\ Len(t) = Len(es)
  BY <1>1, <1>2
<1> QED
  BY <1>1, <1>2, <1>3 DEF ToSet

-----------------------------------------------------------------------------

\* The store keeps its types.
THEOREM StoreTypeCorrect == StoreSpec => []StoreTypeOK
<1>1. StoreInit => StoreTypeOK
  BY DEF StoreInit, StoreTypeOK
<1>2. StoreTypeOK /\ [StoreNext]_storeVars => StoreTypeOK'
  <2> SUFFICES ASSUME StoreTypeOK, [StoreNext]_storeVars PROVE StoreTypeOK'
    OBVIOUS
  <2>1. ASSUME NEW known \in SUBSET Sites, SeedLogSites(known) PROVE StoreTypeOK'
    BY <2>1 DEF SeedLogSites, StoreTypeOK
  <2>2. ASSUME NEW ts \in Stamps, NEW s \in Sites, PushLogRecord(ts, s) PROVE StoreTypeOK'
    BY <2>2 DEF PushLogRecord, StoreTypeOK, Record
  <2>3. ASSUME NEW s \in Sites, PushLogSite(s) PROVE StoreTypeOK'
    BY <2>3 DEF PushLogSite, StoreTypeOK
  <2>4. CASE DrainPending
    <3>1. entries' \in Seq(Entry)
      BY <2>4, DrainResult, MergeType, SortingIsSorted
    <3>2. pushed' = pushed
      BY <2>4 DEF DrainPending
    <3>3. sites' \in SUBSET Sites
      BY <2>4, DrainResult, MergeType
    <3>4. pendingEntries' \in Seq(Record) /\ pendingSites' \in Seq(Sites)
      BY <2>4, DrainResult
    <3> QED
      BY <3>1, <3>2, <3>3, <3>4 DEF StoreTypeOK
  <2>5. CASE UNCHANGED storeVars
    BY <2>5 DEF storeVars, StoreTypeOK
  <2> QED
    BY <2>1, <2>2, <2>3, <2>4, <2>5 DEF StoreNext
<1> QED
  BY <1>1, <1>2, PTL DEF StoreSpec

\* The entries are always sorted by time: comparing only the new entries, from
\* the last old one on, is enough to know when the sort can be spared.
THEOREM EntriesTimeSorted == StoreSpec => []TimeSorted
<1>1. StoreInit => TimeSorted
  BY DEF StoreInit, TimeSorted, InOrder
<1>2. StoreTypeOK /\ TimeSorted /\ [StoreNext]_storeVars => TimeSorted'
  <2> SUFFICES ASSUME StoreTypeOK, TimeSorted, [StoreNext]_storeVars PROVE TimeSorted'
    OBVIOUS
  <2>1. CASE DrainPending
    <3>1. CASE entries' \in Sortings(Old \o New)
      BY <3>1, MergeType, SortingIsSorted DEF TimeSorted
    <3>2. CASE entries' = Old \o New /\ InOrder(Old \o New, Len(entries) + 1)
      <4> DEFINE all == Old \o New
      <4>1. /\ all \in Seq(Entry) /\ Len(all) \in Nat /\ Len(entries) \in Nat /\ DOMAIN entries = 1 .. Len(entries)
            /\ \A i \in 1 .. Len(entries) : all[i] = Old[i]
        BY MergeType DEF StoreTypeOK
      <4>2. ASSUME NEW i \in 1 .. Len(all), i > 1 PROVE all[i - 1].ts <= all[i].ts
        <5>1. CASE i <= Len(entries)
          <6>1. i \in 1 .. Len(entries)
            BY <4>1, <4>2, <5>1
          <6>2. entries[i - 1].ts <= entries[i].ts
            BY <4>2, <6>1 DEF TimeSorted, InOrder
          <6>3. all[i - 1].ts = entries[i - 1].ts /\ all[i].ts = entries[i].ts
            BY <4>1, <4>2, <5>1, MergeType
          <6> QED
            BY <6>2, <6>3
        <5>2. CASE i > Len(entries)
          <6>1. InOrder(all, Len(entries) + 1)
            BY <3>2
          <6> HIDE DEF all
          <6>2. i \in Len(entries) + 1 .. Len(all)
            BY <4>1, <4>2, <5>2
          <6> QED
            BY <4>2, <6>1, <6>2 DEF InOrder
        <5>3. i <= Len(entries) \/ i > Len(entries)
          <6> HIDE DEF all
          <6> QED
            BY <4>1, <4>2
        <5> QED
          BY <5>1, <5>2, <5>3
      <4> QED
        BY <3>2, <4>2 DEF TimeSorted, InOrder
    <3> QED
      BY <2>1, <3>1, <3>2, DrainResult
  <2>2. CASE entries' = entries
    BY <2>2 DEF TimeSorted
  <2> QED
    BY <2>1, <2>2 DEF StoreNext, SeedLogSites, PushLogRecord, PushLogSite, storeVars
<1> QED
  BY <1>1, <1>2, StoreTypeCorrect, PTL DEF StoreSpec

\* An entry shows a placeholder exactly while its site is unknown.
THEOREM PlaceholdersExact == StoreSpec => []PlaceholderMeansUnknown
<1>1. StoreInit => PlaceholderMeansUnknown
  BY DEF StoreInit, PlaceholderMeansUnknown
<1>2. StoreTypeOK /\ PlaceholderMeansUnknown /\ [StoreNext]_storeVars => PlaceholderMeansUnknown'
  <2> SUFFICES ASSUME StoreTypeOK, PlaceholderMeansUnknown, [StoreNext]_storeVars
               PROVE  PlaceholderMeansUnknown'
    OBVIOUS
  <2>1. CASE DrainPending
    <3>1. \A i \in DOMAIN Old : Old[i].resolved <=> Old[i].site \in Known
      <4>1. /\ \A i \in DOMAIN entries : entries[i] \in Entry
            /\ \A i \in DOMAIN entries : entries[i].resolved <=> entries[i].site \in sites
        BY DEF StoreTypeOK, PlaceholderMeansUnknown
      <4>2. CASE pendingSites = <<>>
        BY <4>1, <4>2 DEF Old, Known, ToSet
      <4>3. CASE pendingSites # <<>>
        BY <4>1, <4>3 DEF Old, Known, ReResolve, ResolveSiteForEntry
      <4> QED
        BY <4>2, <4>3
    <3>2. \A i \in DOMAIN New : New[i].resolved <=> New[i].site \in Known
      BY DEF New, ResolveSiteForEntry
    <3>3. \A i \in DOMAIN (Old \o New) : (Old \o New)[i].resolved <=> (Old \o New)[i].site \in Known
      BY <3>1, <3>2, MergeType
    <3>4. \A i \in DOMAIN entries' : \E j \in DOMAIN (Old \o New) : entries'[i] = (Old \o New)[j]
      BY <2>1, DrainResult, MergeType, SortingIsSorted
    <3> QED
      BY <2>1, <3>3, <3>4, DrainResult DEF PlaceholderMeansUnknown
  <2>2. CASE entries' = entries /\ sites' = sites
    BY <2>2 DEF PlaceholderMeansUnknown
  <2>3. ASSUME NEW known \in SUBSET Sites, SeedLogSites(known) PROVE PlaceholderMeansUnknown'
    BY <2>3 DEF SeedLogSites, PlaceholderMeansUnknown
  <2> QED
    BY <2>1, <2>2, <2>3 DEF StoreNext, PushLogRecord, PushLogSite, storeVars
<1> QED
  BY <1>1, <1>2, StoreTypeCorrect, PTL DEF StoreSpec

\* Every record pushed is shown or pending, once, through every drain and every order the sort
\* may choose among records of one time.
THEOREM EntriesOnce == StoreSpec => []EveryRecordOnce
<1>1. StoreInit => EveryRecordOnce
  BY DEF StoreInit, EveryRecordOnce
<1>2. StoreTypeOK /\ EveryRecordOnce /\ [StoreNext]_storeVars => EveryRecordOnce'
  <2> SUFFICES ASSUME StoreTypeOK, EveryRecordOnce, [StoreNext]_storeVars PROVE EveryRecordOnce'
    OBVIOUS
  <2> DEFINE Nums(es) == {es[i].num : i \in DOMAIN es}
  <2>0. /\ Nums(entries) \cup Nums(pendingEntries) = 1 .. pushed
        /\ Len(entries) + Len(pendingEntries) = pushed
        /\ pushed \in Nat /\ pendingEntries \in Seq(Record)
        /\ Len(entries) \in Nat /\ Len(pendingEntries) \in Nat
    BY DEF EveryRecordOnce, StoreTypeOK
  <2>1. CASE DrainPending
    <3> DEFINE all == Old \o New
    <3>1. Nums(all) = Nums(entries) \cup Nums(pendingEntries) /\ Len(all) = Len(entries) + Len(pendingEntries)
      <4>1. /\ Old \in Seq(Entry) /\ DOMAIN Old = DOMAIN entries /\ Len(Old) = Len(entries)
            /\ New \in Seq(Entry) /\ DOMAIN New = DOMAIN pendingEntries /\ Len(New) = Len(pendingEntries)
            /\ \A i \in DOMAIN entries : Old[i].num = entries[i].num
            /\ \A i \in DOMAIN pendingEntries : New[i].num = pendingEntries[i].num
        BY MergeType DEF StoreTypeOK
      <4>2. Nums(Old) = Nums(entries) /\ Nums(New) = Nums(pendingEntries)
        BY <4>1
      <4>3. ASSUME NEW i \in DOMAIN Old PROVE i \in DOMAIN all /\ all[i] = Old[i]
        BY <4>1
      <4>4. ASSUME NEW i \in DOMAIN New PROVE Len(Old) + i \in DOMAIN all /\ all[Len(Old) + i] = New[i]
        BY <4>1
      <4>5. ASSUME NEW i \in DOMAIN all
            PROVE  (\E j \in DOMAIN Old : all[i] = Old[j]) \/ (\E j \in DOMAIN New : all[i] = New[j])
        <5>1. CASE i <= Len(Old)
          BY <4>1, <5>1
        <5>2. CASE i > Len(Old)
          <6>1. i - Len(Old) \in DOMAIN New /\ all[i] = New[i - Len(Old)]
            BY <4>1, <5>2
          <6>. QED  BY <6>1
        <5>. QED  BY <4>1, <5>1, <5>2
      <4>6. Nums(all) = Nums(Old) \cup Nums(New)
        <5> HIDE DEF all
        <5>1. Nums(all) \subseteq Nums(Old) \cup Nums(New)
          BY <4>5
        <5>2. Nums(Old) \subseteq Nums(all)
          BY <4>3
        <5>3. Nums(New) \subseteq Nums(all)
          BY <4>4
        <5>. QED  BY <5>1, <5>2, <5>3
      <4>7. Len(all) = Len(entries) + Len(pendingEntries)
        BY <4>1
      <4> HIDE DEF all
      <4>. QED  BY <4>2, <4>6, <4>7
    <3>2. all \in Seq(Entry)
      BY MergeType
    <3> HIDE DEF all
    <3>3. Nums(entries') = Nums(all) /\ Len(entries') = Len(all)
      <4>1. entries' = all \/ entries' \in Sortings(all)
        BY <2>1, DrainResult DEF all
      <4>2. CASE entries' = all
        BY <4>2
      <4>3. CASE entries' \in Sortings(all)
        <5>1. /\ Len(entries') = Len(all)
              /\ \A i \in DOMAIN entries' : \E j \in DOMAIN all : entries'[i] = all[j]
              /\ \A j \in DOMAIN all : \E i \in DOMAIN entries' : entries'[i] = all[j]
          BY <3>2, <4>3, SortingIsSorted
        <5>. QED  BY <5>1
      <4>. QED  BY <4>1, <4>2, <4>3
    <3>4. pendingEntries' = <<>> /\ pushed' = pushed
      BY <2>1 DEF DrainPending
    <3>5. Nums(pendingEntries') = {} /\ Len(pendingEntries') = 0
      BY <3>4
    <3>6. Nums(entries') \cup Nums(pendingEntries') = 1 .. pushed'
      BY <2>0, <3>1, <3>3, <3>4, <3>5, Zenon
    <3>7. Len(entries') + Len(pendingEntries') = pushed'
      BY <2>0, <3>1, <3>3, <3>4, <3>5
    <3>. QED  BY <3>6, <3>7, Zenon DEF EveryRecordOnce
  <2>2. ASSUME NEW ts \in Stamps, NEW s \in Sites, PushLogRecord(ts, s) PROVE EveryRecordOnce'
    <3> DEFINE new == [num |-> pushed + 1, ts |-> ts, site |-> s]
    <3>1. pushed' = pushed + 1 /\ entries' = entries /\ pendingEntries' = Append(pendingEntries, new)
      BY <2>2 DEF PushLogRecord
    <3>2. new \in Record /\ new.num = pushed + 1
      BY <2>0 DEF Record
    <3> HIDE DEF new
    <3>3. /\ Len(pendingEntries') = Len(pendingEntries) + 1
          /\ DOMAIN pendingEntries' = 1 .. Len(pendingEntries) + 1
          /\ DOMAIN pendingEntries = 1 .. Len(pendingEntries)
          /\ \A i \in DOMAIN pendingEntries : pendingEntries'[i] = pendingEntries[i]
          /\ pendingEntries'[Len(pendingEntries) + 1] = new
      BY <2>0, <3>1, <3>2
    <3>4. Nums(pendingEntries') = Nums(pendingEntries) \cup {pushed + 1}
      BY <2>0, <3>2, <3>3
    <3>5. 1 .. pushed + 1 = 1 .. pushed \cup {pushed + 1}
      BY <2>0
    <3>6. Nums(entries') \cup Nums(pendingEntries') = 1 .. pushed'
      BY <2>0, <3>1, <3>4, <3>5, Zenon
    <3>7. Len(entries') + Len(pendingEntries') = pushed'
      BY <2>0, <3>1, <3>3
    <3>. QED  BY <3>6, <3>7, Zenon DEF EveryRecordOnce
  <2>3. CASE UNCHANGED <<entries, pendingEntries, pushed>>
    BY <2>3 DEF EveryRecordOnce
  <2>. QED
    BY <2>1, <2>2, <2>3 DEF StoreNext, SeedLogSites, PushLogSite, storeVars
<1> QED
  BY <1>1, <1>2, StoreTypeCorrect, PTL DEF StoreSpec

-----------------------------------------------------------------------------
(* TraceLog: the process, its topics and the window that reads them.       *)

LEMMA ToSetAppend ==
  ASSUME NEW S, NEW q \in Seq(S), NEW x \in S
  PROVE  /\ Append(q, x) \in Seq(S) /\ ToSet(Append(q, x)) = ToSet(q) \cup {x}
<1>1. /\ Append(q, x) \in Seq(S) /\ Len(Append(q, x)) = Len(q) + 1 /\ Len(q) \in Nat
      /\ DOMAIN q = 1 .. Len(q) /\ DOMAIN Append(q, x) = 1 .. Len(q) + 1
      /\ \A i \in 1 .. Len(q) : Append(q, x)[i] = q[i]
      /\ Append(q, x)[Len(q) + 1] = x
  OBVIOUS
<1>2. Len(q) + 1 \in DOMAIN Append(q, x) /\ \A i \in DOMAIN q : i \in DOMAIN Append(q, x)
  BY <1>1
<1>3. \A i \in DOMAIN Append(q, x) : i \in DOMAIN q \/ i = Len(q) + 1
  BY <1>1
<1>. QED  BY <1>1, <1>2, <1>3 DEF ToSet

\* A delivery moves the head of the outbound queue to the end of the topic.
LEMMA MoveHead ==
  ASSUME NEW S, NEW q \in Seq(S), NEW topic \in Seq(S), q # <<>>
  PROVE  /\ Append(topic, Head(q)) \in Seq(S) /\ Tail(q) \in Seq(S) /\ Head(q) \in S
         /\ Append(topic, Head(q)) \o Tail(q) = topic \o q
<1>1. /\ Append(topic, Head(q)) \in Seq(S) /\ Tail(q) \in Seq(S) /\ Head(q) \in S
      /\ Len(Tail(q)) = Len(q) - 1 /\ Len(q) \in Nat \ {0} /\ Len(topic) \in Nat
      /\ Head(q) = q[1]
      /\ \A i \in 1 .. Len(q) - 1 : Tail(q)[i] = q[i + 1]
  OBVIOUS
<1> DEFINE a == Append(topic, Head(q))
<1>2. /\ a \in Seq(S) /\ Len(a) = Len(topic) + 1
      /\ \A i \in 1 .. Len(topic) : a[i] = topic[i]
      /\ a[Len(topic) + 1] = q[1]
  BY <1>1
<1> DEFINE l == a \o Tail(q)
           r == topic \o q
<1>3. l \in Seq(S) /\ r \in Seq(S) /\ Len(l) = Len(topic) + Len(q) /\ Len(r) = Len(topic) + Len(q)
  BY <1>1, <1>2
<1>4. ASSUME NEW i \in 1 .. Len(topic) + Len(q) PROVE l[i] = r[i]
  <2>1. CASE i <= Len(topic)
    BY <1>1, <1>2, <2>1
  <2>2. CASE i = Len(topic) + 1
    BY <1>1, <1>2, <2>2
  <2>3. CASE i > Len(topic) + 1
    <3>1. l[i] = Tail(q)[i - (Len(topic) + 1)]
      BY <1>1, <1>2, <2>3
    <3>2. r[i] = q[i - Len(topic)]
      BY <1>1, <2>3
    <3>3. /\ i - (Len(topic) + 1) \in 1 .. Len(q) - 1
          /\ (i - (Len(topic) + 1)) + 1 = i - Len(topic)
      BY <1>1, <2>3
    <3>. QED  BY <1>1, <3>1, <3>2, <3>3
  <2>. QED  BY <1>1, <2>1, <2>2, <2>3
<1>5. l = r
  <2> HIDE DEF l, r, a
  <2>. QED  BY <1>3, <1>4
<1>. QED  BY <1>1, <1>5

SomeSite  == CHOOSE s \in Sites : TRUE
LogRecord == [site : Sites, ts : Stamps]

\* The types of the process and its topics, those of logQ and logLog included. A thread that
\* has never called names no site (TypeOK would need one to exist).
LogTypes ==
  /\ clock \in Stamps /\ seen \subseteq Sites /\ cache \subseteq Sites
  /\ pc \in [Threads -> {"idle", "register", "announce", "cache", "log", "produce"}]
  /\ fr \in [Threads -> [site : Sites \cup {SomeSite}, ts : Stamps]]
  /\ \A t \in Threads : pc[t] # "idle" => fr[t].site \in Sites
  /\ regQ \in Seq(Sites) /\ regLog \in Seq(Sites)
  /\ logQ \in Seq(LogRecord) /\ logLog \in Seq(LogRecord)
  /\ regPos \in 0 .. Len(regLog) /\ logPos \in 0 .. Len(logLog)

LEMMA LogInit == Init => LogTypes
  BY DEF Init, LogTypes, SomeSite

LEMMA LogStep == LogTypes /\ [Next]_vars => LogTypes'
<1> SUFFICES ASSUME LogTypes, [Next]_vars PROVE LogTypes'
  OBVIOUS
<1> USE DEF LogTypes, processVars, topicVars, readerVars, Goto
<1>1. CASE Tick
  BY <1>1 DEF Tick
<1>2. ASSUME NEW t \in Threads, NEW s \in Sites, CallSite(t, s) PROVE LogTypes'
  <2>1. fr' \in [Threads -> [site : Sites \cup {SomeSite}, ts : Stamps]] /\ fr'[t].site = s
    BY <1>2 DEF CallSite
  <2>. QED  BY <1>2, <2>1 DEF CallSite
<1>3. ASSUME NEW t \in Threads, RegisterLogSite(t) PROVE LogTypes'
  BY <1>3 DEF RegisterLogSite
<1>4. ASSUME NEW t \in Threads, AnnounceSite(t) PROVE LogTypes'
  BY <1>4 DEF AnnounceSite
<1>5. ASSUME NEW t \in Threads, CacheSite(t) PROVE LogTypes'
  BY <1>5 DEF CacheSite
<1>6. ASSUME NEW t \in Threads, StampRecord(t) PROVE LogTypes'
  <2>1. fr' \in [Threads -> [site : Sites \cup {SomeSite}, ts : Stamps]] /\ \A u \in Threads : fr'[u].site = fr[u].site
    BY <1>6 DEF StampRecord, WallNs
  <2>. QED  BY <1>6, <2>1 DEF StampRecord
<1>7. ASSUME NEW t \in Threads, ProduceRecord(t) PROVE LogTypes'
  <2>1. fr[t] \in LogRecord
    BY <1>7 DEF ProduceRecord, LogRecord
  <2>. QED  BY <1>7, <2>1 DEF ProduceRecord
<1>8. CASE DeliverSite
  <2>1. /\ Append(regLog, Head(regQ)) \in Seq(Sites) /\ Tail(regQ) \in Seq(Sites)
        /\ Len(Append(regLog, Head(regQ))) = Len(regLog) + 1
    BY <1>8, MoveHead DEF DeliverSite
  <2>. QED  BY <1>8, <2>1 DEF DeliverSite
<1>9. CASE DeliverRecord
  <2>1. /\ Append(logLog, Head(logQ)) \in Seq(LogRecord)
        /\ Tail(logQ) \in Seq(LogRecord)
        /\ Len(Append(logLog, Head(logQ))) = Len(logLog) + 1
    BY <1>9, MoveHead DEF DeliverRecord
  <2>. QED  BY <1>9, <2>1 DEF DeliverRecord
<1>10. CASE OpenScope
  BY <1>10 DEF OpenScope
<1>11. CASE ConsumeSite
  BY <1>11 DEF ConsumeSite
<1>12. CASE ConsumeRecord
  BY <1>12 DEF ConsumeRecord
<1>13. CASE RenderFrame
  BY <1>13 DEF RenderFrame
<1>14. CASE UNCHANGED vars
  BY <1>14 DEF vars
<1>. QED  BY <1>1, <1>2, <1>3, <1>4, <1>5, <1>6, <1>7, <1>8, <1>9, <1>10, <1>11, <1>12, <1>13, <1>14
           DEF Next, Step

\* Every step of the trace log is one of the store, or does not touch it.
LEMMA StoreSteps == LogTypes /\ [Next]_vars => [StoreNext]_storeVars
<1> SUFFICES ASSUME LogTypes, [Next]_vars PROVE [StoreNext]_storeVars
  OBVIOUS
<1>1. CASE OpenScope
  <2>1. PICK n \in 0 .. Len(regLog) : SeedLogSites(ToSet(SubSeq(regLog, 1, n)))
    BY <1>1 DEF OpenScope
  <2>2. SubSeq(regLog, 1, n) \in Seq(Sites)
    BY DEF LogTypes
  <2>3. ToSet(SubSeq(regLog, 1, n)) \in SUBSET Sites
    BY <2>2 DEF ToSet
  <2>. QED  BY <2>1, <2>3 DEF StoreNext
<1>2. CASE ConsumeSite
  <2>1. regLog[regPos + 1] \in Sites
    BY <1>2 DEF ConsumeSite, LogTypes
  <2>. QED  BY <1>2, <2>1 DEF ConsumeSite, StoreNext
<1>3. CASE ConsumeRecord
  <2>0. logLog[logPos + 1] \in LogRecord
    BY <1>3 DEF ConsumeRecord, LogTypes
  <2>1. logLog[logPos + 1].ts \in Stamps /\ logLog[logPos + 1].site \in Sites
    BY <2>0 DEF LogRecord
  <2>. QED  BY <1>3, <2>1 DEF ConsumeRecord, StoreNext
<1>4. CASE RenderFrame
  BY <1>4 DEF RenderFrame, StoreNext
<1>5. CASE UNCHANGED storeVars
  BY <1>5
<1>. QED
  BY <1>1, <1>2, <1>3, <1>4, <1>5
     DEF Next, Step, Tick, CallSite, RegisterLogSite, AnnounceSite, CacheSite, StampRecord, ProduceRecord,
         DeliverSite, DeliverRecord, vars

\* The trace log uses the store as LogStore says it may be used, so that what is proved of the
\* store holds in it too.
THEOREM TraceLogUsesStore == Spec => StoreSpec
<1>1. Init => StoreInit
  BY DEF Init
<1>. QED  BY <1>1, LogInit, LogStep, StoreSteps, PTL DEF Spec, StoreSpec

-----------------------------------------------------------------------------
(* A descriptor is written once: of the threads that race for a call site  *)
(* only the one that has put it into the seen set is about to announce it. *)

Written == regLog \o regQ

OnceInv ==
  /\ IsInjective(Written)
  /\ ToSet(Written) \subseteq seen
  /\ \A t \in Threads : pc[t] = "announce" => fr[t].site \in seen \ ToSet(Written)
  /\ \A t, u \in Threads : pc[t] = "announce" /\ pc[u] = "announce" /\ fr[t].site = fr[u].site => t = u

LEMMA AppendNew ==
  ASSUME NEW S, NEW q \in Seq(S), NEW x \in S, IsInjective(q), x \notin ToSet(q)
  PROVE  IsInjective(Append(q, x))
<1>1. /\ DOMAIN Append(q, x) = 1 .. Len(q) + 1 /\ DOMAIN q = 1 .. Len(q) /\ Len(q) \in Nat
      /\ \A i \in 1 .. Len(q) : Append(q, x)[i] = q[i]
      /\ Append(q, x)[Len(q) + 1] = x
  OBVIOUS
<1>2. \A i \in 1 .. Len(q) : q[i] # x
  BY <1>1 DEF ToSet
<1>3. ASSUME NEW a \in 1 .. Len(q) + 1, NEW b \in 1 .. Len(q) + 1, Append(q, x)[a] = Append(q, x)[b]
      PROVE  a = b
  <2>1. CASE a \in 1 .. Len(q) /\ b \in 1 .. Len(q)
    BY <1>1, <1>3, <2>1 DEF IsInjective
  <2>2. CASE a = Len(q) + 1 \/ b = Len(q) + 1
    BY <1>1, <1>2, <1>3, <2>2
  <2>. QED  BY <1>1, <2>1, <2>2
<1>. QED  BY <1>1, <1>3 DEF IsInjective

\* what the outbound queue and the topic become
LEMMA WrittenStep ==
  ASSUME LogTypes, [Next]_vars
  PROVE  \/ UNCHANGED <<regLog, regQ>> \/ DeliverSite
         \/ \E t \in Threads : AnnounceSite(t)
BY DEF Next, Step, Tick, CallSite, RegisterLogSite, CacheSite, StampRecord, ProduceRecord, DeliverRecord,
       OpenScope, ConsumeSite, ConsumeRecord, RenderFrame, vars, topicVars

LEMMA WrittenType == LogTypes => Written \in Seq(Sites) /\ DOMAIN Written = 1 .. Len(Written)
  BY DEF LogTypes, Written

LEMMA AnnounceWritten ==
  ASSUME LogTypes, NEW t \in Threads, AnnounceSite(t), Room
  PROVE  Written' = Append(Written, fr[t].site)
<1>1. regQ' = Append(regQ, fr[t].site) /\ regLog' = regLog /\ fr[t].site \in Sites
  BY DEF AnnounceSite, LogTypes
<1>2. PICK x \in Sites : x = fr[t].site
  BY <1>1
<1>3. regLog \o Append(regQ, x) = Append(regLog \o regQ, x)
  BY DEF LogTypes
<1>. QED  BY <1>1, <1>2, <1>3 DEF Written

LEMMA OnceInit == Init => OnceInv
  BY DEF Init, OnceInv, Written, IsInjective, ToSet

LEMMA OnceStep == LogTypes /\ OnceInv /\ [Next]_vars => OnceInv'
<1> SUFFICES ASSUME LogTypes, OnceInv, [Next]_vars PROVE OnceInv'
  OBVIOUS
<1> USE DEF processVars, topicVars, Goto
<1>1. ASSUME NEW t \in Threads, RegisterLogSite(t) PROVE OnceInv'
  <2>1. Written' = Written
    BY <1>1 DEF RegisterLogSite, Written
  <2>. QED  BY <1>1, <2>1 DEF RegisterLogSite, NewSite, OnceInv, LogTypes
<1>2. ASSUME NEW t \in Threads, AnnounceSite(t) PROVE OnceInv'
  <2>1. CASE Room
    <3>1. Written' = Append(Written, fr[t].site) /\ fr[t].site \in Sites
      BY <1>2, <2>1, AnnounceWritten DEF AnnounceSite, LogTypes
    <3>2. fr[t].site \in seen \ ToSet(Written) /\ Written \in Seq(Sites)
      BY <1>2, WrittenType DEF AnnounceSite, OnceInv
    <3>3. IsInjective(Written') /\ ToSet(Written') = ToSet(Written) \cup {fr[t].site}
      BY <3>1, <3>2, AppendNew, ToSetAppend DEF OnceInv
    <3>. QED  BY <1>2, <3>2, <3>3 DEF AnnounceSite, OnceInv, LogTypes
  <2>2. CASE ~Room
    <3>1. Written' = Written
      BY <1>2, <2>2 DEF AnnounceSite, Written
    <3>. QED  BY <1>2, <3>1 DEF AnnounceSite, OnceInv, LogTypes
  <2>. QED  BY <2>1, <2>2
<1>3. CASE DeliverSite
  <2>1. Written' = Written
    BY <1>3, MoveHead DEF DeliverSite, Written, LogTypes
  <2>. QED  BY <1>3, <2>1 DEF DeliverSite, OnceInv
<1>4. ASSUME NEW t \in Threads, NEW s \in Sites, CallSite(t, s) PROVE OnceInv'
  <2>1. Written' = Written
    BY <1>4 DEF CallSite, Written
  <2>2. /\ pc'[t] # "announce"
        /\ \A u \in Threads : u # t => pc'[u] = pc[u] /\ fr'[u] = fr[u]
    BY <1>4 DEF CallSite, LogTypes
  <2>. QED  BY <1>4, <2>1, <2>2 DEF CallSite, OnceInv
<1>5. ASSUME NEW t \in Threads, CacheSite(t) PROVE OnceInv'
  <2>1. Written' = Written
    BY <1>5 DEF CacheSite, Written
  <2>. QED  BY <1>5, <2>1 DEF CacheSite, OnceInv, LogTypes
<1>6. ASSUME NEW t \in Threads, StampRecord(t) PROVE OnceInv'
  <2>1. Written' = Written
    BY <1>6 DEF StampRecord, Written
  <2>2. /\ pc'[t] # "announce"
        /\ \A u \in Threads : u # t => pc'[u] = pc[u] /\ fr'[u] = fr[u]
    BY <1>6 DEF StampRecord, LogTypes
  <2>. QED  BY <1>6, <2>1, <2>2 DEF StampRecord, OnceInv
<1>7. ASSUME NEW t \in Threads, ProduceRecord(t) PROVE OnceInv'
  <2>1. Written' = Written
    BY <1>7 DEF ProduceRecord, Written
  <2>. QED  BY <1>7, <2>1 DEF ProduceRecord, OnceInv, LogTypes
<1>8. CASE UNCHANGED <<regLog, regQ, seen, pc, fr>>
  BY <1>8 DEF OnceInv, Written
<1>. QED
  BY <1>1, <1>2, <1>3, <1>4, <1>5, <1>6, <1>7, <1>8
     DEF Next, Step, Tick, DeliverRecord, OpenScope, ConsumeSite, ConsumeRecord, RenderFrame, vars

-----------------------------------------------------------------------------
(* No placeholder is left: the site of every record on its way has been    *)
(* seen, a seen site is written unless a thread is about to write it, and  *)
(* what the window has read it knows.                                      *)

\* no descriptor meets a full queue: the runtime would never write it again
DescriptorsFit == \A t \in Threads : pc[t] = "announce" => Room

Past == {"announce", "cache", "log", "produce"}

SeenInv ==
  /\ cache \subseteq seen
  /\ \A t \in Threads : pc[t] \in Past => fr[t].site \in seen
  /\ \A i \in DOMAIN logQ : logQ[i].site \in seen
  /\ \A i \in DOMAIN logLog : logLog[i].site \in seen
  /\ \A i \in DOMAIN entries : entries[i].site \in seen
  /\ \A i \in DOMAIN pendingEntries : pendingEntries[i].site \in seen

KnownInv ==
  /\ \A s \in seen : s \in ToSet(Written) \/ \E t \in Threads : pc[t] = "announce" /\ fr[t].site = s
  /\ \A i \in 1 .. regPos : regLog[i] \in Known

LEMMA CompleteInit == Init => SeenInv /\ KnownInv
  BY DEF Init, StoreInit, SeenInv, KnownInv, Past

\* a drain invents no site
LEMMA DrainSites ==
  ASSUME StoreTypeOK, DrainPending, NEW i \in DOMAIN entries'
  PROVE  \/ \E j \in DOMAIN entries : entries'[i].site = entries[j].site
         \/ \E j \in DOMAIN pendingEntries : entries'[i].site = pendingEntries[j].site
<1>1. PICK k \in DOMAIN (Old \o New) : entries'[i] = (Old \o New)[k]
  BY DrainResult, MergeType, SortingIsSorted
<1>2. \A j \in DOMAIN entries : Old[j].site = entries[j].site
  BY DEF Old, ReResolve, ResolveSiteForEntry
<1>3. \A j \in DOMAIN pendingEntries : New[j].site = pendingEntries[j].site
  BY DEF New, ResolveSiteForEntry
<1>4. (\E j \in DOMAIN Old : (Old \o New)[k] = Old[j]) \/ (\E j \in DOMAIN New : (Old \o New)[k] = New[j])
  <2>1. Old \in Seq(Entry) /\ New \in Seq(Entry)
    BY MergeType
  <2>2. CASE k <= Len(Old)
    BY <2>1, <2>2
  <2>3. CASE k > Len(Old)
    <3>1. k - Len(Old) \in DOMAIN New /\ (Old \o New)[k] = New[k - Len(Old)]
      BY <2>1, <2>3
    <3>. QED  BY <3>1
  <2>. QED  BY <2>1, <2>2, <2>3
<1>5. DOMAIN Old = DOMAIN entries /\ DOMAIN New = DOMAIN pendingEntries
  BY MergeType DEF StoreTypeOK
<1>. QED  BY <1>1, <1>2, <1>3, <1>4, <1>5

LEMMA SeenStep == LogTypes /\ StoreTypeOK /\ SeenInv /\ [Next]_vars => SeenInv'
<1> SUFFICES ASSUME LogTypes, StoreTypeOK, SeenInv, [Next]_vars PROVE SeenInv'
  OBVIOUS
<1> USE DEF processVars, topicVars, readerVars, storeVars, Goto, Past
<1>1. ASSUME NEW t \in Threads, RegisterLogSite(t) PROVE SeenInv'
  BY <1>1 DEF RegisterLogSite, SeenInv, LogTypes
<1>2. ASSUME NEW t \in Threads, AnnounceSite(t) PROVE SeenInv'
  BY <1>2 DEF AnnounceSite, SeenInv, LogTypes
<1>3. ASSUME NEW t \in Threads, CacheSite(t) PROVE SeenInv'
  BY <1>3 DEF CacheSite, SeenInv, LogTypes
<1>4. ASSUME NEW t \in Threads, NEW s \in Sites, CallSite(t, s) PROVE SeenInv'
  <2>1. \A u \in Threads : pc'[u] \in Past => fr'[u].site \in seen
    BY <1>4 DEF CallSite, SeenInv, LogTypes
  <2>. QED  BY <1>4, <2>1 DEF CallSite, SeenInv
<1>5. ASSUME NEW t \in Threads, StampRecord(t) PROVE SeenInv'
  <2>1. \A u \in Threads : fr'[u].site = fr[u].site
    BY <1>5 DEF StampRecord, LogTypes
  <2>2. \A u \in Threads : pc'[u] \in Past => pc[u] \in Past
    BY <1>5 DEF StampRecord, LogTypes
  <2>. QED  BY <1>5, <2>1, <2>2 DEF StampRecord, SeenInv
<1>6. ASSUME NEW t \in Threads, ProduceRecord(t) PROVE SeenInv'
  <2>1. \A i \in DOMAIN logQ' : logQ'[i].site \in seen
    <3>1. CASE logQ' = logQ
      BY <3>1 DEF SeenInv
    <3>2. CASE logQ' = Append(logQ, fr[t])
      <4>1. fr[t].site \in seen /\ logQ \in Seq(LogRecord) /\ fr[t] \in LogRecord
        BY <1>6 DEF ProduceRecord, SeenInv, LogTypes, LogRecord
      <4>2. \A i \in DOMAIN logQ' : (i \in DOMAIN logQ /\ logQ'[i] = logQ[i]) \/ logQ'[i] = fr[t]
        BY <3>2, <4>1
      <4>. QED  BY <4>1, <4>2 DEF SeenInv
    <3>. QED  BY <1>6, <3>1, <3>2 DEF ProduceRecord
  <2>2. \A u \in Threads : pc'[u] \in Past => pc[u] \in Past
    BY <1>6 DEF ProduceRecord, LogTypes
  <2>. QED  BY <1>6, <2>1, <2>2 DEF ProduceRecord, SeenInv
<1>7. CASE DeliverRecord
  <2>1. logQ \in Seq(LogRecord) /\ logLog \in Seq(LogRecord) /\ logQ # <<>>
    BY <1>7 DEF DeliverRecord, LogTypes
  <2>2. /\ logQ' = Tail(logQ) /\ logLog' = Append(logLog, logQ[1]) /\ 1 \in DOMAIN logQ /\ logQ[1] \in LogRecord
    BY <1>7, <2>1 DEF DeliverRecord
  <2>3. \A i \in DOMAIN logQ' : i + 1 \in DOMAIN logQ /\ logQ'[i] = logQ[i + 1]
    BY <2>1, <2>2
  <2>4. \A i \in DOMAIN logLog' : (i \in DOMAIN logLog /\ logLog'[i] = logLog[i]) \/ logLog'[i] = logQ[1]
    BY <2>1, <2>2
  <2>. QED  BY <1>7, <2>2, <2>3, <2>4 DEF DeliverRecord, SeenInv
<1>8. CASE ConsumeRecord
  <2>1. logPos + 1 \in DOMAIN logLog
    BY <1>8 DEF ConsumeRecord, LogTypes
  <2> DEFINE new == [num |-> pushed + 1, ts |-> logLog[logPos + 1].ts, site |-> logLog[logPos + 1].site]
  <2>2. pendingEntries' = Append(pendingEntries, new) /\ new.site \in seen
    BY <1>8, <2>1 DEF ConsumeRecord, PushLogRecord, SeenInv
  <2>3. new \in Record
    <3>1. logLog[logPos + 1] \in LogRecord
      BY <2>1 DEF LogTypes
    <3>. QED  BY <3>1 DEF Record, LogRecord, StoreTypeOK
  <2> HIDE DEF new
  <2>4. \A i \in DOMAIN pendingEntries' :
          (i \in DOMAIN pendingEntries /\ pendingEntries'[i] = pendingEntries[i]) \/ pendingEntries'[i] = new
    BY <2>2, <2>3 DEF StoreTypeOK
  <2>. QED  BY <1>8, <2>2, <2>4 DEF ConsumeRecord, PushLogRecord, SeenInv
<1>9. CASE RenderFrame
  <2>1. \A i \in DOMAIN entries' : entries'[i].site \in seen
    BY <1>9, DrainSites DEF RenderFrame, SeenInv
  <2>2. pendingEntries' = <<>>
    BY <1>9 DEF RenderFrame, DrainPending
  <2>. QED  BY <1>9, <2>1, <2>2 DEF RenderFrame, SeenInv
<1>10. CASE UNCHANGED <<cache, seen, pc, fr, logQ, logLog, entries, pendingEntries>>
  BY <1>10 DEF SeenInv
<1>. QED
  BY <1>1, <1>2, <1>3, <1>4, <1>5, <1>6, <1>7, <1>8, <1>9, <1>10
     DEF Next, Step, Tick, DeliverSite, OpenScope, SeedLogSites, ConsumeSite, PushLogSite, vars

LEMMA KnownStep == LogTypes /\ StoreTypeOK /\ KnownInv /\ DescriptorsFit /\ [Next]_vars => KnownInv'
<1> SUFFICES ASSUME LogTypes, StoreTypeOK, KnownInv, DescriptorsFit, [Next]_vars PROVE KnownInv'
  OBVIOUS
<1> USE DEF processVars, topicVars, readerVars, storeVars, Goto
<1> DEFINE Announcing(s) == \E t \in Threads : pc[t] = "announce" /\ fr[t].site = s
<1>a. ASSUME UNCHANGED <<regLog, regPos, sites, pendingSites>>
      PROVE  \A i \in 1 .. regPos' : regLog'[i] \in Known'
  BY <1>a DEF KnownInv, Known
<1>b. ASSUME NEW t \in Threads, pc[t] # "announce", UNCHANGED <<regLog, regQ, seen>>,
             \A u \in Threads : u # t => pc'[u] = pc[u] /\ fr'[u] = fr[u]
      PROVE  \A s \in seen' : s \in ToSet(Written') \/ Announcing(s)'
  BY <1>b DEF KnownInv, Written
<1>1. ASSUME NEW t \in Threads, RegisterLogSite(t) PROVE KnownInv'
  <2>1. /\ UNCHANGED <<regLog, regQ, regPos, sites, pendingSites, fr>> /\ seen' = seen \cup {fr[t].site}
        /\ pc[t] = "register" /\ \A u \in Threads : u # t => pc'[u] = pc[u]
        /\ fr[t].site \notin seen => pc'[t] = "announce"
    BY <1>1 DEF RegisterLogSite, NewSite, LogTypes
  <2>2. \A s \in seen' : s \in ToSet(Written') \/ Announcing(s)'
    BY <2>1 DEF KnownInv, Written
  <2>. QED  BY <1>a, <2>1, <2>2 DEF KnownInv
<1>2. ASSUME NEW t \in Threads, AnnounceSite(t) PROVE KnownInv'
  <2>1. /\ UNCHANGED <<regLog, regPos, sites, pendingSites, fr, seen>>
        /\ \A u \in Threads : u # t => pc'[u] = pc[u]
        /\ fr[t].site \in Sites
    BY <1>2 DEF AnnounceSite, LogTypes
  <2>2. Written' = Append(Written, fr[t].site)
    BY <1>2, AnnounceWritten DEF AnnounceSite, DescriptorsFit
  <2>3. ToSet(Written') = ToSet(Written) \cup {fr[t].site}
    BY <2>1, <2>2, WrittenType, ToSetAppend
  <2>4. \A s \in seen' : s \in ToSet(Written') \/ Announcing(s)'
    BY <2>1, <2>3 DEF KnownInv
  <2>. QED  BY <1>a, <2>1, <2>4 DEF KnownInv
<1>3. CASE DeliverSite
  <2>1. Written' = Written /\ UNCHANGED <<seen, pc, fr, regPos, sites, pendingSites>>
    BY <1>3, MoveHead DEF DeliverSite, Written, LogTypes
  <2>2. \A i \in 1 .. regPos : regLog'[i] = regLog[i]
    <3>1. regLog' = Append(regLog, Head(regQ)) /\ Head(regQ) \in Sites
      BY <1>3, MoveHead DEF DeliverSite, LogTypes
    <3>. QED  BY <3>1 DEF LogTypes
  <2>. QED  BY <2>1, <2>2 DEF KnownInv, Known
<1>4. ASSUME NEW t \in Threads, (\E s \in Sites : CallSite(t, s)) \/ CacheSite(t) \/ StampRecord(t) \/ ProduceRecord(t)
      PROVE  KnownInv'
  <2>1. pc[t] # "announce" /\ UNCHANGED <<regLog, regQ, seen, regPos, sites, pendingSites>>
    BY <1>4 DEF CallSite, CacheSite, StampRecord, ProduceRecord
  <2>2. \A u \in Threads : u # t => pc'[u] = pc[u] /\ fr'[u] = fr[u]
    BY <1>4 DEF CallSite, CacheSite, StampRecord, ProduceRecord, LogTypes
  <2>. QED  BY <1>a, <1>b, <2>1, <2>2 DEF KnownInv
<1>5. CASE ConsumeSite
  <2>1. regPos' = regPos + 1 /\ UNCHANGED <<seen, pc, fr, regLog, regQ, sites>> /\ regLog[regPos + 1] \in Sites
    BY <1>5 DEF ConsumeSite, PushLogSite, LogTypes
  <2>2. ToSet(pendingSites') = ToSet(pendingSites) \cup {regLog[regPos + 1]}
    BY <1>5, <2>1, ToSetAppend DEF ConsumeSite, PushLogSite, StoreTypeOK
  <2>3. \A i \in 1 .. regPos' : regLog'[i] \in Known'
    BY <2>1, <2>2 DEF KnownInv, Known, LogTypes
  <2>. QED  BY <2>1, <2>3 DEF KnownInv, Written
<1>6. CASE RenderFrame
  <2>1. Known' = Known
    BY <1>6, DrainResult DEF RenderFrame, Known, ToSet
  <2>. QED  BY <1>6, <2>1 DEF RenderFrame, KnownInv, Written
<1>7. CASE OpenScope
  <2>1. Known = {}
    BY <1>7 DEF OpenScope, SeedLogSites, Known, ToSet
  <2>2. UNCHANGED <<regPos, regLog, regQ, seen, pc, fr>>
    BY <1>7 DEF OpenScope
  <2>. QED  BY <2>1, <2>2 DEF KnownInv, Written
<1>8. CASE UNCHANGED <<seen, pc, fr, regLog, regQ, regPos, sites, pendingSites>>
  BY <1>8 DEF KnownInv, Written, Known
<1>. QED
  BY <1>1, <1>2, <1>3, <1>4, <1>5, <1>6, <1>7, <1>8
     DEF Next, Step, Tick, DeliverRecord, ConsumeRecord, PushLogRecord, vars

\* However the first calls of a call site race, its descriptor is written at most once, and what
\* the window has been given it shows or holds, once.
THEOREM DescriptorsOnce == Spec => [](IsInjective(regLog \o regQ) /\ EveryRecordOnce)
<1>1. OnceInv => IsInjective(regLog \o regQ)
  BY DEF OnceInv, Written
<1>. QED  BY <1>1, LogInit, LogStep, OnceInit, OnceStep, TraceLogUsesStore, EntriesOnce, PTL DEF Spec

\* A record that overtakes the descriptor of its call site is not left with a placeholder, unless
\* the outbound queue has refused a descriptor.
THEOREM NoPlaceholderLeft == Spec /\ []DescriptorsFit => []LogComplete
<1>1. ASSUME LogTypes, StoreTypeOK, SeenInv, KnownInv, PlaceholderMeansUnknown, Settled
      PROVE  \A i \in DOMAIN entries : entries[i].resolved
  <2> SUFFICES ASSUME NEW i \in DOMAIN entries PROVE entries[i].resolved
    OBVIOUS
  <2>1. entries[i].site \in seen
    BY <1>1 DEF SeenInv
  <2>2. Written = regLog
    BY <1>1 DEF Settled, Written, LogTypes
  <2>3. entries[i].site \in ToSet(regLog)
    BY <1>1, <2>1, <2>2 DEF KnownInv, Settled
  <2>4. entries[i].site \in Known
    BY <1>1, <2>3 DEF KnownInv, Settled, LogTypes, ToSet
  <2>5. Known = sites
    BY <1>1 DEF Known, Settled, ToSet
  <2>. QED  BY <1>1, <2>4, <2>5 DEF PlaceholderMeansUnknown
<1>2. LogTypes /\ StoreTypeOK /\ SeenInv /\ KnownInv /\ PlaceholderMeansUnknown
        => (Settled => \A i \in DOMAIN entries : entries[i].resolved)
  BY <1>1
<1>3. Spec => []StoreTypeOK /\ []PlaceholderMeansUnknown /\ [](IsInjective(regLog \o regQ) /\ EveryRecordOnce)
  BY TraceLogUsesStore, StoreTypeCorrect, PlaceholdersExact, DescriptorsOnce, PTL
<1>4. IsInjective(regLog \o regQ) /\ EveryRecordOnce /\ (Settled => \A i \in DOMAIN entries : entries[i].resolved)
        => LogComplete
  BY DEF LogComplete
<1>. QED  BY <1>2, <1>3, <1>4, LogInit, LogStep, CompleteInit, SeenStep, KnownStep, PTL DEF Spec

-----------------------------------------------------------------------------
(* The time window. A frame takes the window through the stages of Render; *)
(* each stage keeps what is stated of the window here, and a navigation is *)
(* asked for in the frame that stops the live view.                        *)

Stamped == {Entries[i].ts : i \in View!Logged}

\* the place that was asked for is in the middle, or the view that was made is there
Shows(win) ==
  IF Len(win.asked) = 1 THEN win.view[1] + win.view[2] = 2 * win.asked[1] ELSE win.view = win.asked

Coherent(win) ==
  /\ win \in View!Types
  /\ win.click \in {0} \cup Stamped /\ win.selected \in {0} \cup Stamped
  /\ win.nav.on => win.asked = <<win.nav.target>>
  /\ win.placed /\ ~win.nav.on /\ win.asked # <<>> => Shows(win)

\* a navigation does not wait in a live view, but for one without graphs
Unhurried(win) == ~ (win.nav.on /\ win.live /\ win.panels # 0)

\* within a frame, unless the live view is about to be stopped for it
Driven(win) == Unhurried(win) \/ win.requested

GoodInput(in) ==
  /\ in.value \in Int
  /\ in.kind = "panels" => in.value \in Nat
  /\ in.kind \in {"marker", "row"} => in.value \in View!Logged
  /\ View!Wheel(in) => w.panels # 0

ViewTypes ==
  /\ latest \in Int /\ online \in BOOLEAN /\ viewInputs \in Nat

ViewInv == ViewTypes /\ Coherent(w) /\ Unhurried(w)

\* What a click on a row leaves until something else is done.
RowStays(win) ==
  win.row # 0 /\ ~win.sync /\ win.panels # 0 =>
    /\ win.open /\ win.placed /\ ~win.live /\ win.click = 0
    /\ win.selected = win.row /\ (win.resolve => win.resolved = win.row)
    /\ IF win.nav.on THEN win.nav.target = win.row
       ELSE win.view[1] + win.view[2] = 2 * win.row /\ win.view[1] <= win.row

LEMMA MemberOf ==
  ASSUME NEW S, NEW s \in Seq(S)
  PROVE  \A i \in DOMAIN s : s[i] \in S
OBVIOUS

LEMMA LoggedTypes ==
  /\ View!Logged \subseteq DOMAIN Entries /\ View!Logged \subseteq Nat
  /\ \A i \in View!Logged : Entries[i].ts \in Nat \ {0} /\ Entries[i].warn \in BOOLEAN
  /\ Stamped \subseteq Nat \ {0}
<1>0. Entries \in Seq([ts : Nat \ {0}, warn : BOOLEAN])
  BY ViewAssumption, Zenon
<1>1. View!Logged \subseteq DOMAIN Entries /\ View!Logged \subseteq Nat
  BY <1>0 DEF View!Logged
<1>2. \A i \in DOMAIN Entries : Entries[i] \in [ts : Nat \ {0}, warn : BOOLEAN]
  BY <1>0, MemberOf, Zenon
<1>3. \A i \in View!Logged : Entries[i].ts \in Nat \ {0} /\ Entries[i].warn \in BOOLEAN
  BY <1>1, <1>2
<1> QED
  BY <1>1, <1>3 DEF Stamped

LEMMA ConstantTypes ==
  /\ Window \in Nat /\ MaxLive \in Nat /\ MinLive \in Nat /\ MinSpan \in Nat /\ PerNeighbour \in Nat
  /\ MinResolve \in Nat /\ Lonely \in Nat /\ WarnHide \in Nat /\ Late \in Nat /\ MaxViewInputs \in Nat
BY ViewAssumption

\* Minimum and maximum of two.
LEMMA TwoBounds ==
  ASSUME NEW a \in Int, NEW b \in Int
  PROVE  /\ View!Min({a, b}) = (IF a <= b THEN a ELSE b)
         /\ View!Max({a, b}) = (IF a <= b THEN b ELSE a)
BY DEF View!Min, View!Max

LEMMA InputsGood ==
  ASSUME latest \in Int, NEW in \in View!Inputs \cup {View!Idle}
  PROVE  GoodInput(in)
<1>1. CASE in \in {View!Input("zoomIn", at) : at \in 0 .. 2} \cup {View!Input("zoomOut", 1)}
                 \cup {View!Input("drag", by) : by \in {-4, 4}} \cup {View!Input("marker", i) : i \in View!Logged}
  <2>1. w.panels # 0 \/ in.kind \notin {"zoomIn", "zoomOut"}
    BY <1>1 DEF View!Inputs, View!Idle, View!Input
  <2> QED
    BY <1>1, <2>1, LoggedTypes DEF View!Input, GoodInput, View!Wheel
<1> QED
  BY <1>1, LoggedTypes DEF View!Inputs, View!Idle, View!Input, GoodInput, View!Wheel

\* A navigation keeps the window coherent and is asked for.
LEMMA Navigates ==
  ASSUME NEW win, Coherent(win), NEW x \in Int, NEW span \in Nat
  PROVE  /\ Coherent(View!NavigateToWithSpan(win, x, span))
         /\ Driven(View!NavigateToWithSpan(win, x, span))
<1> DEFINE new == View!NavigateToWithSpan(win, x, span)
<1>1. /\ new.nav = [on |-> TRUE, target |-> x, span |-> span] /\ new.requested = TRUE /\ new.asked = <<x>>
      /\ new.selected = win.selected /\ new.click = win.click
  BY DEF Coherent, View!NavigateToWithSpan, View!Types
<1>2. [on |-> TRUE, target |-> x, span |-> span] \in [on : BOOLEAN, target : Int, span : Nat] /\ <<x>> \in Seq(Int)
  OBVIOUS
<1>3. new \in View!Types
  BY <1>2 DEF Coherent, View!NavigateToWithSpan, View!Types
<1> HIDE DEF new
<1>4. new.nav.on /\ new.nav.target = x
  BY <1>1
<1>5. new.click \in {0} \cup Stamped /\ new.selected \in {0} \cup Stamped
  BY <1>1 DEF Coherent
<1>6. Coherent(new)
  BY <1>1, <1>3, <1>4, <1>5, Zenon DEF Coherent
<1>7. Driven(new)
  BY <1>1 DEF Driven, Unhurried
<1> QED
  BY <1>6, <1>7 DEF new

LEMMA NavigatesPlainly ==
  ASSUME NEW win, Coherent(win), NEW x \in Int
  PROVE  Coherent(View!NavigateTo(win, x)) /\ Driven(View!NavigateTo(win, x))
BY Navigates DEF View!NavigateTo

\* The view that a wheel makes, and the one that brings a place into the middle.
LEMMA Zoomed ==
  ASSUME NEW view \in Int \X Int, NEW in, in.value \in Int
  PROVE  View!ZoomX(view, in) \in Int \X Int
<1>1. \A a, b \in Int : View!Max({a, b}) \in Int
  BY TwoBounds
<1> DEFINE range == View!Max({View!Width(view), MinSpan})
<1>2. range \in Int
  BY <1>1, ConstantTypes DEF View!Width
<1> HIDE DEF range
<1>3. View!Scaled(range, in) \in Int
  BY <1>2 DEF View!Scaled
<1> DEFINE new == View!Max({View!Scaled(range, in), MinSpan})
<1>4. new \in Int
  BY <1>1, <1>3, ConstantTypes
<1> HIDE DEF new
<1>5. (in.value * new) \div 2 \in Int /\ (in.value * range) \div 2 \in Int
  <2>1. in.value * new \in Int /\ in.value * range \in Int
    BY <1>2, <1>4
  <2> QED
    BY <2>1
<1>6. View!ZoomX(view, in) = <<(view[1] + (in.value * range) \div 2) - (in.value * new) \div 2,
                               ((view[1] + (in.value * range) \div 2) - (in.value * new) \div 2) + new>>
  BY DEF View!ZoomX, range, new
<1> QED
  BY <1>4, <1>5, <1>6

LEMMA IntoTheMiddle ==
  ASSUME NEW win \in View!Types
  PROVE  /\ View!Centred(win) \in Int \X Int
         /\ View!Centred(win)[1] + View!Centred(win)[2] = 2 * win.nav.target
         /\ View!Centred(win)[1] <= win.nav.target
<1> DEFINE span == IF win.nav.span > 0 THEN win.nav.span ELSE View!Width(win.view)
           half == IF span \div 2 > 0 THEN span \div 2 ELSE MaxLive \div 2
<1>1. span \in Int /\ win.nav.target \in Int
  BY DEF View!Types, View!Width
<1>2. View!Centred(win) = <<win.nav.target - half, win.nav.target + half>>
  BY DEF View!Centred
<1> HIDE DEF span
<1>3. half \in Nat
  BY <1>1, ConstantTypes
<1> HIDE DEF half
<1> QED
  BY <1>1, <1>2, <1>3

\* A stage that leaves the view and the navigation alone, and may select a record.
LEMMA SelectsOnly ==
  ASSUME NEW win, NEW new \in View!Types, Coherent(win), Driven(win),
         new.click \in {0} \cup Stamped, new.selected \in {0} \cup Stamped,
         new.nav = win.nav, new.asked = win.asked, new.placed = win.placed, new.view = win.view,
         new.requested = win.requested, new.panels = win.panels, new.live => win.live
  PROVE  Coherent(new) /\ Driven(new)
BY Zenon DEF Coherent, Driven, Unhurried, Shows

LEMMA MarkerStage ==
  ASSUME NEW win, NEW in, GoodInput(in), Coherent(win), Driven(win)
  PROVE  Coherent(View!Marker(win, in)) /\ Driven(View!Marker(win, in))
<1> DEFINE e == Entries[in.value]
           new == [win EXCEPT !.click = e.ts]
<1>1. CASE View!Marker(win, in) = win
  BY <1>1
<1>2. CASE View!Marker(win, in) # win
  <2>1. in.kind = "marker" /\ View!Marker(win, in) = View!NavigateTo(new, e.ts)
    BY <1>2 DEF View!Marker
  <2>2. e.ts \in Nat /\ e.ts \in Stamped
    BY <2>1, LoggedTypes DEF GoodInput, Stamped
  <2> HIDE DEF e
  <2>3. new \in View!Types /\ new.click = e.ts
    BY <2>2 DEF Coherent, View!Types
  <2>4. /\ new.selected = win.selected /\ new.nav = win.nav /\ new.asked = win.asked
        /\ new.placed = win.placed /\ new.view = win.view
        /\ new.requested = win.requested /\ new.panels = win.panels /\ new.live = win.live
    BY DEF Coherent, View!Types
  <2> HIDE DEF new
  <2>5. Coherent(new)
    <3>1. win.selected \in {0} \cup Stamped
      BY DEF Coherent
    <3> QED
      BY <2>2, <2>3, <2>4, <3>1, SelectsOnly
  <2> QED
    BY <2>1, <2>2, <2>5, NavigatesPlainly
<1> QED
  BY <1>1, <1>2

\* The live view may stop at any stage.
LEMMA Stopped ==
  ASSUME NEW win, Coherent(win), Driven(win), NEW live \in BOOLEAN, live => win.live
  PROVE  Coherent([win EXCEPT !.live = live]) /\ Driven([win EXCEPT !.live = live])
<1> DEFINE new == [win EXCEPT !.live = live]
<1>1. new \in View!Types /\ new.live = live
  BY DEF Coherent, View!Types
<1>2. /\ new.selected = win.selected /\ new.click = win.click /\ new.nav = win.nav /\ new.asked = win.asked
      /\ new.placed = win.placed /\ new.view = win.view
      /\ new.requested = win.requested /\ new.panels = win.panels
  BY DEF Coherent, View!Types
<1> HIDE DEF new
<1>3. win.selected \in {0} \cup Stamped /\ win.click \in {0} \cup Stamped
  BY DEF Coherent
<1> QED
  BY <1>1, <1>2, <1>3, SelectsOnly DEF new

LEMMA StripStage ==
  ASSUME NEW win, NEW in, GoodInput(in), Coherent(win), Driven(win)
  PROVE  Coherent(View!Strip(win, in)) /\ Driven(View!Strip(win, in))
BY Stopped, NavigatesPlainly DEF View!Strip, GoodInput

\* the annotation panel comes last, and stops the live view itself
LEMMA NotesStage ==
  ASSUME NEW win, NEW in, GoodInput(in), Coherent(win), Unhurried(win)
  PROVE  Coherent(View!Notes(win, in)) /\ Unhurried(View!Notes(win, in))
<1>1. CASE in.kind # "note"
  BY <1>1 DEF View!Notes
<1>2. CASE in.kind = "note"
  <2> DEFINE still == [win EXCEPT !.live = FALSE]
  <2>1. Coherent(still)
    BY Stopped DEF Driven
  <2>2. still.live = FALSE
    BY DEF Coherent, View!Types
  <2> HIDE DEF still
  <2>3. View!Notes(win, in) = View!NavigateTo(still, in.value)
    BY <1>2 DEF View!Notes, still
  <2>4. Coherent(View!NavigateTo(still, in.value))
    BY <2>1, NavigatesPlainly DEF GoodInput
  <2>5. View!NavigateTo(still, in.value).live = FALSE
    BY <2>1, <2>2 DEF View!NavigateTo, View!NavigateToWithSpan, Coherent, View!Types
  <2> QED
    BY <2>3, <2>4, <2>5 DEF Unhurried
<1> QED
  BY <1>1, <1>2

LEMMA TakeClickStage ==
  ASSUME NEW win, Coherent(win), Driven(win)
  PROVE  Coherent(View!TakeClick(win)) /\ Driven(View!TakeClick(win))
<1> DEFINE new == [win EXCEPT !.selected = win.click, !.click = 0]
<1>1. new \in View!Types /\ new.selected = win.click /\ new.click = 0
  BY DEF Coherent, View!Types
<1>2. /\ new.nav = win.nav /\ new.asked = win.asked
      /\ new.placed = win.placed /\ new.view = win.view /\ new.live = win.live
      /\ new.requested = win.requested /\ new.panels = win.panels
  BY DEF Coherent, View!Types
<1>3. View!TakeClick(win) \in {win, new}
  BY DEF View!TakeClick, View!Nobody
<1> HIDE DEF new
<1>4. win.click \in {0} \cup Stamped
  BY DEF Coherent
<1>5. Coherent(new) /\ Driven(new)
  BY <1>1, <1>2, <1>4, SelectsOnly
<1> QED
  BY <1>3, <1>5

LEMMA Opposite ==
  ASSUME NEW b
  PROVE  (~b) \in BOOLEAN
OBVIOUS

LEMMA CheckboxStage ==
  ASSUME NEW win, NEW in, Coherent(win), Driven(win)
  PROVE  Coherent(View!Checkboxes(win, in)) /\ Driven(View!Checkboxes(win, in))
<1> DEFINE new == View!Checkboxes(win, in)
<1>1. new \in View!Types
  <2>1. ASSUME NEW b \in BOOLEAN PROVE [win EXCEPT !.resolve = b] \in View!Types
    BY DEF Coherent, View!Types
  <2>2. ASSUME NEW b \in BOOLEAN PROVE [win EXCEPT !.sync = b, !.lastMax = 0] \in View!Types
    <3> DEFINE once == [win EXCEPT !.sync = b]
    <3>1. once \in View!Types
      BY DEF Coherent, View!Types
    <3>2. [win EXCEPT !.sync = b, !.lastMax = 0] = [once EXCEPT !.lastMax = 0]
      BY DEF Coherent, View!Types
    <3> HIDE DEF once
    <3>3. ASSUME NEW o \in View!Types, NEW x \in Int PROVE [o EXCEPT !.lastMax = x] \in View!Types
      BY DEF View!Types
    <3> QED
      BY <3>1, <3>2, <3>3
  <2>3. (~win.resolve) \in BOOLEAN /\ (~win.sync) \in BOOLEAN /\ win \in View!Types
    BY Opposite DEF Coherent
  <2>4. new \in {win, [win EXCEPT !.resolve = ~win.resolve], [win EXCEPT !.sync = ~win.sync, !.lastMax = 0]}
    BY DEF View!Checkboxes
  <2> QED
    BY <2>1, <2>2, <2>3, <2>4, Zenon
<1>2. /\ new.selected = win.selected /\ new.click = win.click /\ new.nav = win.nav /\ new.asked = win.asked
      /\ new.placed = win.placed /\ new.view = win.view /\ new.live = win.live
      /\ new.requested = win.requested /\ new.panels = win.panels
  BY DEF Coherent, View!Types, View!Checkboxes
<1> HIDE DEF new
<1>3. win.selected \in {0} \cup Stamped /\ win.click \in {0} \cup Stamped
  BY DEF Coherent
<1> QED
  BY <1>1, <1>2, <1>3, SelectsOnly DEF new

LEMMA DeselectStage ==
  ASSUME NEW win, Coherent(win), Driven(win)
  PROVE  Coherent(View!Deselect(win)) /\ Driven(View!Deselect(win))
<1> DEFINE new == View!Deselect(win)
<1>1. new \in View!Types
  BY DEF Coherent, View!Types, View!Deselect, View!Nobody
<1>2. /\ new.selected \in {0, win.selected} /\ new.click = win.click /\ new.nav = win.nav /\ new.asked = win.asked
      /\ new.placed = win.placed /\ new.view = win.view /\ new.live = win.live
      /\ new.requested = win.requested /\ new.panels = win.panels
  BY DEF Coherent, View!Types, View!Deselect, View!Nobody
<1> HIDE DEF new
<1>3. win.selected \in {0} \cup Stamped /\ win.click \in {0} \cup Stamped
  BY DEF Coherent
<1> QED
  BY <1>1, <1>2, <1>3, SelectsOnly DEF new

\* A set of naturals has a minimum, and one that is bounded a maximum.
Below == {ss \in Nat \X Nat : ss[1] < ss[2]}

LEMMA BelowWF == IsWellFoundedOn(Below, Nat)
BY NatLessThanWellFounded DEF OpToRel, Below

LEMMA Least ==
  ASSUME NEW S, S \subseteq Nat, S # {}
  PROVE  \E x \in S : \A y \in S : x <= y
<1>1. PICK x \in S : \A y \in S : ~ (<<y, x>> \in Below)
  BY BelowWF, WFMin
<1>2. \A y \in S : y \in Nat /\ x \in Nat /\ <<y, x>> \in Nat \X Nat
  OBVIOUS
<1>3. \A y \in S : ~ (y < x)
  BY <1>1, <1>2 DEF Below
<1> QED
  BY <1>2, <1>3

LEMMA LeastOf ==
  ASSUME NEW S, S \subseteq Nat, S # {}
  PROVE  View!Min(S) \in S /\ \A y \in S : View!Min(S) <= y
<1>1. \E x \in S : \A y \in S : x <= y
  BY Least
<1> QED
  BY <1>1, Zenon DEF View!Min

LEMMA GreatestOf ==
  ASSUME NEW S, S \subseteq Nat, S # {}, NEW top \in Int, \A x \in S : x <= top
  PROVE  View!Max(S) \in S
<1> DEFINE T == {n \in Nat : \E x \in S : n = top - x}
<1>1. T # {}
  <2>1. PICK x \in S : TRUE
    OBVIOUS
  <2>2. top - x \in Nat
    BY <2>1
  <2> QED
    BY <2>2
<1>2. PICK n \in T : \A y \in T : n <= y
  BY <1>1, Least, Zenon
<1>3. PICK x \in S : n = top - x
  BY <1>2
<1>4. \A y \in S : top - y \in T
  OBVIOUS
<1> HIDE DEF T
<1>5. \A y \in S : x >= y
  BY <1>2, <1>3, <1>4
<1> QED
  BY <1>5, Zenon DEF View!Max

LEMMA SyncStage ==
  ASSUME latest \in Int, NEW win, Coherent(win), Driven(win)
  PROVE  Coherent(View!Sync(win)) /\ Driven(View!Sync(win))
<1> DEFINE right == IF win.view[2] > 0 THEN win.view[2] ELSE View!NoData
           shown  == {Entries[i].ts : i \in {j \in View!Logged : View!InView(win, Entries[j].ts)}}
           last  == IF shown = {} THEN win.selected ELSE View!Max(shown)
           new   == [win EXCEPT !.lastMax = right, !.selected = last]
<1>1. View!Sync(win) \in {win, new}
  BY DEF View!Sync, Coherent, View!Types
<1>2. right \in Int
  BY DEF Coherent, View!Types, View!NoData
<1>3. last \in {0} \cup Stamped
  <2>1. CASE shown = {}
    BY <2>1 DEF Coherent
  <2>2. CASE shown # {}
    <3>1. shown \subseteq Stamped /\ shown \subseteq Nat
      BY LoggedTypes DEF Stamped
    <3>2. \A x \in shown : x <= latest
      BY DEF View!Logged
    <3> HIDE DEF shown
    <3>3. View!Max(shown) \in shown
      BY <2>2, <3>1, <3>2, GreatestOf
    <3> QED
      BY <2>2, <3>1, <3>3
  <2> QED
    BY <2>1, <2>2
<1> HIDE DEF right, last
<1>4. last \in Nat
  BY <1>3, LoggedTypes
<1>5. new \in View!Types /\ new.selected = last
  BY <1>2, <1>4 DEF Coherent, View!Types
<1>6. /\ new.click = win.click /\ new.nav = win.nav /\ new.asked = win.asked
      /\ new.placed = win.placed /\ new.view = win.view /\ new.live = win.live
      /\ new.requested = win.requested /\ new.panels = win.panels
  BY DEF Coherent, View!Types
<1> HIDE DEF new
<1>7. win.click \in {0} \cup Stamped
  BY DEF Coherent
<1>8. Coherent(new) /\ Driven(new)
  BY <1>3, <1>5, <1>6, <1>7, SelectsOnly
<1> QED
  BY <1>1, <1>8

\* The span that resolves a record is a number, whatever its neighbours.
LEMMA AutoResolveNavigates ==
  ASSUME NEW win, win \in View!Types, NEW i \in View!Logged
  PROVE  \/ View!AutoResolveSelection(win, i) = win
         \/ \E span \in Nat :
              View!AutoResolveSelection(win, i) = View!NavigateToWithSpan(win, Entries[i].ts, span)
<1> DEFINE near == {View!Distance(Entries[i].ts, Entries[j].ts) : j \in {k \in View!Logged : k # i /\ Entries[k].warn}}
           span == IF near = {} THEN Lonely ELSE View!Max({MinResolve, View!Min(near) * PerNeighbour})
           width == View!Width(win.view)
<1>1. near \subseteq Nat
  BY LoggedTypes DEF View!Distance
<1>2. span \in Nat
  <2>1. CASE near = {}
    BY <2>1, ConstantTypes
  <2>2. CASE near # {}
    <3>1. View!Min(near) \in Nat
      BY <1>1, <2>2, LeastOf
    <3> HIDE DEF near
    <3>2. View!Min(near) * PerNeighbour \in Nat
      BY <3>1, ConstantTypes
    <3> DEFINE far == View!Min(near) * PerNeighbour
    <3>3. span = View!Max({MinResolve, far})
      BY <2>2 DEF near
    <3> HIDE DEF far, span
    <3>4. View!Max({MinResolve, far}) \in Nat
      <4>1. far \in Nat /\ MinResolve \in Nat
        BY <3>2, ConstantTypes DEF far
      <4>2. \A a, b \in Nat : View!Max({a, b}) \in Nat
        BY TwoBounds
      <4> QED
        BY <4>1, <4>2, Zenon
    <3> QED
      BY <3>3, <3>4
  <2> QED
    BY <2>1, <2>2
<1>3. \/ View!AutoResolveSelection(win, i) = win
      \/ /\ width > 0
         /\ View!AutoResolveSelection(win, i)
              = View!NavigateToWithSpan(win, Entries[i].ts, View!Min({span, width}))
  BY DEF View!AutoResolveSelection
<1>4. width \in Int
  BY DEF View!Types, View!Width
<1> HIDE DEF span, width
<1>5. width > 0 => View!Min({span, width}) \in Nat
  BY <1>2, <1>4, TwoBounds
<1> QED
  BY <1>3, <1>5

LEMMA ResolvesOnly ==
  ASSUME NEW win, Coherent(win), Driven(win), NEW ts \in Nat
  PROVE  Coherent([win EXCEPT !.resolved = ts]) /\ Driven([win EXCEPT !.resolved = ts])
<1> DEFINE new == [win EXCEPT !.resolved = ts]
<1>1. new \in View!Types
  BY DEF Coherent, View!Types
<1>2. /\ new.selected = win.selected /\ new.click = win.click /\ new.nav = win.nav /\ new.asked = win.asked
      /\ new.placed = win.placed /\ new.view = win.view /\ new.live = win.live
      /\ new.requested = win.requested /\ new.panels = win.panels
  BY DEF Coherent, View!Types
<1> HIDE DEF new
<1>3. win.selected \in {0} \cup Stamped /\ win.click \in {0} \cup Stamped
  BY DEF Coherent
<1> QED
  BY <1>1, <1>2, <1>3, SelectsOnly DEF new

LEMMA ResolveStage ==
  ASSUME NEW win, Coherent(win), Driven(win)
  PROVE  Coherent(View!Resolve(win)) /\ Driven(View!Resolve(win))
<1> DEFINE At(ts) == [win EXCEPT !.resolved = ts]
<1>1. \A ts \in Nat : Coherent(At(ts)) /\ Driven(At(ts))
  BY ResolvesOnly
<1>2. CASE win.resolve /\ win.selected \notin {View!Nobody, win.resolved}
  <2>1. PICK j \in View!Logged : Entries[j].ts = win.selected
    BY <1>2 DEF Coherent, Stamped, View!Nobody
  <2> DEFINE i == CHOOSE k \in View!Logged : Entries[k].ts = win.selected
  <2>2. i \in View!Logged
    BY <2>1
  <2>3. View!Resolve(win) = View!AutoResolveSelection(At(win.selected), i)
    BY <1>2 DEF View!Resolve
  <2>4. Coherent(At(win.selected)) /\ Driven(At(win.selected))
    BY <1>1, <2>1, LoggedTypes
  <2> HIDE DEF At, i
  <2>5. At(win.selected) \in View!Types /\ Entries[i].ts \in Int
    BY <2>2, <2>4, LoggedTypes DEF Coherent
  <2> QED
    BY <2>2, <2>3, <2>4, <2>5, AutoResolveNavigates, Navigates
<1>3. CASE ~(win.resolve /\ win.selected \notin {View!Nobody, win.resolved})
  <2>1. View!Resolve(win) \in {At(0), win}
    BY <1>3 DEF View!Resolve, View!Nobody
  <2> QED
    BY <1>1, <2>1
<1> QED
  BY <1>2, <1>3

LEMMA ClickRowStage ==
  ASSUME NEW win, NEW in, GoodInput(in), Coherent(win), Driven(win)
  PROVE  Coherent(View!ClickRow(win, in)) /\ Driven(View!ClickRow(win, in))
<1>1. CASE in.kind # "row"
  BY <1>1 DEF View!ClickRow
<1>2. CASE in.kind = "row"
  <2> DEFINE ts == Entries[in.value].ts
             marked == [win EXCEPT !.selected = ts]
             new == View!NavigateTo(marked, ts)
             tight == View!AutoResolveSelection(new, in.value)
  <2>1. in.value \in View!Logged /\ ts \in Nat /\ ts \in Stamped
    BY <1>2, LoggedTypes DEF GoodInput, Stamped
  <2>2. View!ClickRow(win, in) = IF win.resolve THEN [tight EXCEPT !.resolved = ts] ELSE new
    BY <1>2, Zenon DEF View!ClickRow
  <2> HIDE DEF ts
  <2>3. marked \in View!Types /\ marked.selected = ts
    BY <2>1 DEF Coherent, View!Types
  <2>4. /\ marked.click = win.click /\ marked.nav = win.nav /\ marked.asked = win.asked
        /\ marked.placed = win.placed /\ marked.view = win.view /\ marked.live = win.live
        /\ marked.requested = win.requested /\ marked.panels = win.panels
    BY DEF Coherent, View!Types
  <2>5. win.click \in {0} \cup Stamped
    BY DEF Coherent
  <2> HIDE DEF marked
  <2>6. Coherent(marked) /\ Driven(marked)
    BY <2>1, <2>3, <2>4, <2>5, SelectsOnly
  <2>7. Coherent(new) /\ Driven(new)
    BY <2>1, <2>6, NavigatesPlainly
  <2>8. Coherent(tight) /\ Driven(tight)
    <3> HIDE DEF new
    <3>1. new \in View!Types
      BY <2>7 DEF Coherent
    <3>2. Entries[in.value].ts \in Int
      BY <2>1, LoggedTypes
    <3> QED
      BY <2>1, <2>7, <3>1, <3>2, AutoResolveNavigates, Navigates
  <2> HIDE DEF tight
  <2>9. Coherent([tight EXCEPT !.resolved = ts]) /\ Driven([tight EXCEPT !.resolved = ts])
    BY <2>1, <2>8, ResolvesOnly
  <2> QED
    BY <2>2, <2>7, <2>9
<1> QED
  BY <1>1, <1>2

LEMMA PanelStage ==
  ASSUME latest \in Int, NEW win, NEW in, GoodInput(in), Coherent(win), Driven(win)
  PROVE  Coherent(View!LogPanel(win, in)) /\ Driven(View!LogPanel(win, in))
BY TakeClickStage, ResolveStage, CheckboxStage, DeselectStage, SyncStage, ClickRowStage DEF View!LogPanel

\* Whoever navigates stops the live view.
LEMMA ConsumeStage ==
  ASSUME NEW win, Coherent(win), Driven(win)
  PROVE  /\ Coherent(View!ConsumeNavRequested(win)) /\ Unhurried(View!ConsumeNavRequested(win))
<1> DEFINE new == View!ConsumeNavRequested(win)
           live == win.live /\ ~win.requested
<1>1. live \in BOOLEAN /\ (live => win.live) /\ (live => ~win.requested)
  OBVIOUS
<1>2. new = [win EXCEPT !.live = live, !.requested = FALSE] /\ win \in View!Types
  BY DEF View!ConsumeNavRequested, Coherent
<1> HIDE DEF live, new
<1>3. new \in View!Types
  BY <1>1, <1>2 DEF View!Types
<1>4. /\ new.live = live /\ new.requested = FALSE
      /\ new.selected = win.selected /\ new.click = win.click /\ new.nav = win.nav /\ new.asked = win.asked
      /\ new.placed = win.placed /\ new.view = win.view /\ new.panels = win.panels
  BY <1>1, <1>2 DEF View!Types
<1>5. Coherent(new)
  BY <1>3, <1>4, Zenon DEF Coherent, Shows
<1>6. Unhurried(new)
  BY <1>1, <1>4, Zenon DEF Driven, Unhurried
<1> QED
  BY <1>4, <1>5, <1>6 DEF new

LEMMA ClickedStage ==
  ASSUME NEW win, NEW in, GoodInput(in), Coherent(win), Unhurried(win)
  PROVE  /\ Coherent(View!Clicked(win, in)) /\ Unhurried(View!Clicked(win, in))
<1> DEFINE new == View!Clicked(win, in)
           row == IF in.kind = "row" /\ win.open /\ win.placed THEN Entries[in.value].ts
                  ELSE IF in = View!Idle THEN win.row ELSE 0
<1>1. win \in View!Types
  BY DEF Coherent
<1>2. row \in Nat
  BY <1>1, LoggedTypes DEF GoodInput, View!Types
<1>3. new = [win EXCEPT !.row = row]
  BY <1>1 DEF View!Clicked, View!Nobody, View!Types
<1> HIDE DEF row, new
<1>4. new \in View!Types
  BY <1>1, <1>2, <1>3 DEF View!Types
<1>5. /\ new.live = win.live /\ new.requested = win.requested
      /\ new.selected = win.selected /\ new.click = win.click /\ new.nav = win.nav /\ new.asked = win.asked
      /\ new.placed = win.placed /\ new.view = win.view /\ new.panels = win.panels
  BY <1>1, <1>2, <1>3 DEF View!Types
<1>6. win.selected \in {0} \cup Stamped /\ win.click \in {0} \cup Stamped
  BY DEF Coherent
<1>7. Coherent(new) /\ Unhurried(new)
  BY <1>4, <1>5, <1>6, SelectsOnly DEF Driven, Unhurried
<1> QED
  BY <1>5, <1>7 DEF new

LEMMA ToolbarStage ==
  ASSUME NEW win, NEW in, GoodInput(in), Coherent(win)
  PROVE  /\ Coherent(View!Toolbar(win, in))
         /\ View!Wheel(in) => View!Toolbar(win, in) = win
<1> DEFINE new == View!Toolbar(win, in)
<1>1. win \in View!Types
  BY DEF Coherent
<1>2. new \in {win, [win EXCEPT !.live = TRUE], [win EXCEPT !.live = FALSE], [win EXCEPT !.open = ~win.open]}
  BY DEF View!Toolbar
<1>3. /\ [win EXCEPT !.live = TRUE] \in View!Types /\ [win EXCEPT !.live = FALSE] \in View!Types
  BY <1>1 DEF View!Types
<1>4. ASSUME NEW b \in BOOLEAN PROVE [win EXCEPT !.open = b] \in View!Types
  BY <1>1, <1>4 DEF View!Types
<1>5. new \in View!Types
  BY <1>1, <1>2, <1>3, <1>4, Opposite
<1>6. /\ new.selected = win.selected /\ new.click = win.click /\ new.nav = win.nav /\ new.asked = win.asked
      /\ new.placed = win.placed /\ new.view = win.view
  BY <1>1, <1>2 DEF View!Types
<1>7. View!Wheel(in) => new = win
  BY DEF View!Toolbar, View!Wheel
<1> HIDE DEF new
<1>8. Coherent(new)
  BY <1>5, <1>6, Zenon DEF Coherent, Shows
<1> QED
  BY <1>7, <1>8 DEF new

LEMMA LiveSpanType ==
  ASSUME NEW win \in View!Types, NEW in
  PROVE  View!LiveSpan(win, in) \in Int
<1> DEFINE span == IF win.span = 0 THEN Window ELSE win.span
<1>1. span \in Int
  BY ConstantTypes DEF View!Types
<1> HIDE DEF span
<1>2. View!Scaled(span, in) \in Int
  BY <1>1 DEF View!Scaled
<1>3. /\ \A a, b \in Int : View!Min({a, b}) \in Int
      /\ \A a, b \in Int : View!Max({a, b}) \in Int
      /\ MaxLive \in Int /\ MinLive \in Int
  BY TwoBounds, ConstantTypes
<1>4. View!Max({MinLive, View!Min({MaxLive, View!Scaled(span, in)})}) \in Int
  BY <1>2, <1>3, Zenon
<1>5. View!LiveSpan(win, in) \in {span, View!Max({MinLive, View!Min({MaxLive, View!Scaled(span, in)})})}
  BY DEF View!LiveSpan, span
<1> QED
  BY <1>1, <1>4, <1>5

\* What Render makes of the view, by what forces it.
FreeOf(win, n, in) ==
  View!Forced(win, n, in) = View!NoView /\ ~(win.live /\ View!HasData) /\ (win.placed \/ ~View!HasData)

ViewOf(win, n, in, reset) ==
  LET forced == View!Forced(win, n, in)
      free   == FreeOf(win, n, in)
  IN  CASE forced # View!NoView -> forced
        [] forced = View!NoView /\ win.live /\ View!HasData -> <<latest - View!LiveSpan(win, in), latest>>
        [] free /\ in.kind = "drag" -> <<win.view[1] + in.value, win.view[2] + in.value>>
        [] free /\ n # win.panels /\ reset -> <<0, 2>>
        [] free /\ in.kind # "drag" /\ ~(n # win.panels /\ reset) -> win.view
        [] OTHER -> View!InitialView

AskedOf(win, n, in, reset) ==
  LET forced == View!Forced(win, n, in)
      free   == FreeOf(win, n, in)
  IN  IF win.live THEN <<>>
      ELSE IF win.asked = <<>> \/ (View!Wheel(in) /\ ~win.nav.on) \/ (free /\ in.kind = "drag")
              \/ (forced = View!NoView /\ ~free)
           THEN ViewOf(win, n, in, reset) ELSE win.asked

LEMMA ViewType ==
  ASSUME latest \in Int, NEW win \in View!Types, NEW in, GoodInput(in), NEW n, NEW reset
  PROVE  ViewOf(win, n, in, reset) \in Int \X Int
<1>1. win.view \in Int \X Int /\ in.value \in Int
  BY DEF View!Types, GoodInput
<1>2. View!Forced(win, n, in) \in {View!NoView} \cup (Int \X Int)
  BY <1>1, Zoomed, IntoTheMiddle DEF View!Forced
<1>3. View!LiveSpan(win, in) \in Int
  BY LiveSpanType
<1>4. View!InitialView \in Int \X Int
  <2>1. \A a, b \in Int : View!Min({a, b}) \in Int
    BY TwoBounds
  <2>2. View!Min({latest, Window}) \in Int /\ Window \in Int
    BY <2>1, ConstantTypes
  <2> QED
    BY <2>2 DEF View!InitialView
<1> DEFINE forced == View!Forced(win, n, in)
           span == View!LiveSpan(win, in)
           first == View!InitialView
<1> HIDE DEF forced, span, first
<1>5. ViewOf(win, n, in, reset) \in {forced, <<latest - span, latest>>,
         <<win.view[1] + in.value, win.view[2] + in.value>>, <<0, 2>>, win.view, first}
      /\ (ViewOf(win, n, in, reset) = forced => forced # View!NoView \/ forced \in Int \X Int)
  BY <1>1, <1>3, <1>4 DEF ViewOf, View!NoView, forced, span, first
<1>6. latest - span \in Int /\ win.view[1] + in.value \in Int /\ win.view[2] + in.value \in Int
  BY <1>1, <1>3 DEF span
<1>7. forced # View!NoView => forced \in Int \X Int
  BY <1>2 DEF forced
<1> QED
  BY <1>1, <1>4, <1>5, <1>6, <1>7 DEF first

LEMMA PairNotEmpty ==
  ASSUME NEW p \in Int \X Int
  PROVE  p # View!NoView
<1>1. Len(p) = 2 /\ Len(<<>>) = 0
  OBVIOUS
<1> QED
  BY <1>1 DEF View!NoView

LEMMA PairIsSequence ==
  ASSUME NEW p \in Int \X Int
  PROVE  p \in Seq(Int)
<1>1. p = <<p[1], p[2]>> /\ p[1] \in Int /\ p[2] \in Int
  OBVIOUS
<1>2. \A a, b \in Int : <<a, b>> \in Seq(Int)
  OBVIOUS
<1> QED
  BY <1>1, <1>2, Zenon

LEMMA ForcedView ==
  ASSUME NEW win, NEW n, NEW in, NEW reset, View!Forced(win, n, in) # View!NoView
  PROVE  ViewOf(win, n, in, reset) = View!Forced(win, n, in)
BY DEF ViewOf, FreeOf

\* The view is what was asked for last, or a place that was is in its middle.
LEMMA ViewShows ==
  ASSUME latest \in Int, NEW win, Coherent(win), NEW in, GoodInput(in), NEW n, NEW reset,
         ~(View!Wheel(in) /\ win.nav.on),
         win.placed \/ (View!Forced(win, n, in) = View!NoView /\ View!HasData),
         AskedOf(win, n, in, reset) # <<>>
  PROVE  IF Len(AskedOf(win, n, in, reset)) = 1
         THEN ViewOf(win, n, in, reset)[1] + ViewOf(win, n, in, reset)[2] = 2 * AskedOf(win, n, in, reset)[1]
         ELSE ViewOf(win, n, in, reset) = AskedOf(win, n, in, reset)
<1> DEFINE forced == View!Forced(win, n, in)
           view == ViewOf(win, n, in, reset)
           asked == AskedOf(win, n, in, reset)
<1>0. win \in View!Types /\ view \in Int \X Int
  BY ViewType DEF Coherent
<1>1. CASE asked = view
  BY <1>0, <1>1
<1>2. CASE asked # view
  <2>1. /\ ~win.live /\ asked = win.asked /\ win.asked # <<>> /\ ~View!Wheel(in)
        /\ ~(FreeOf(win, n, in) /\ in.kind = "drag")
        /\ (forced # View!NoView \/ FreeOf(win, n, in))
    BY <1>2 DEF AskedOf
  <2>2. CASE win.nav.on
    <3>1. forced = View!Centred(win)
      BY <2>1, <2>2 DEF View!Forced
    <3>2. View!Centred(win) \in Int \X Int /\ View!Centred(win)[1] + View!Centred(win)[2] = 2 * win.nav.target
      BY <1>0, IntoTheMiddle
    <3>3. view = View!Centred(win)
      <4>1. View!Centred(win) # View!NoView
        BY <3>2, PairNotEmpty
      <4> QED
        BY <3>1, <4>1, ForcedView
    <3>4. asked = <<win.nav.target>>
      BY <2>1, <2>2 DEF Coherent
    <3> QED
      BY <3>2, <3>3, <3>4
  <2>3. CASE ~win.nav.on
    <3>1. win.placed /\ view = win.view
      <4>1. CASE View!Kept(win, n)
        <5>1. forced = win.view /\ win.placed
          BY <2>1, <2>3, <4>1 DEF View!Forced, View!Kept
        <5>2. win.view # View!NoView
          BY <1>0, PairNotEmpty DEF View!Types
        <5> QED
          BY <5>1, <5>2, ForcedView
      <4>2. CASE ~View!Kept(win, n)
        <5>1. forced = View!NoView /\ FreeOf(win, n, in)
          BY <2>1, <2>3, <4>2 DEF View!Forced
        <5>2. win.placed
          BY <5>1 DEF FreeOf
        <5>3. n = win.panels
          BY <2>1, <4>2, <5>2 DEF View!Kept
        <5> QED
          BY <2>1, <5>1, <5>2, <5>3 DEF ViewOf
      <4> QED
        BY <4>1, <4>2
    <3>2. Shows(win)
      BY <2>1, <2>3, <3>1 DEF Coherent
    <3> QED
      BY <2>1, <3>1, <3>2 DEF Shows
  <2> QED
    BY <2>2, <2>3
<1> QED
  BY <1>1, <1>2

\* The window after Render, before its markers are looked at.
DrawnOf(win, n, in, reset) ==
  [win EXCEPT !.panels = n, !.view = ViewOf(win, n, in, reset),
     !.span = IF win.live /\ (View!Wheel(in) \/ View!HasData) THEN View!LiveSpan(win, in) ELSE @,
     !.placed = @ \/ (View!Forced(win, n, in) = View!NoView /\ View!HasData),
     !.nav = IF View!Wheel(in) THEN @ ELSE [@ EXCEPT !.on = FALSE, !.span = 0],
     !.live = @ /\ in.kind # "drag",
     !.asked = AskedOf(win, n, in, reset)]

PanelsOf(win, in) == IF in.kind = "panels" THEN in.value ELSE win.panels

LEMMA RenderedIs ==
  ASSUME NEW win \in View!Types, NEW in, NEW reset
  PROVE  View!Rendered(win, in, reset)
           = IF PanelsOf(win, in) = 0 THEN [win EXCEPT !.panels = 0]
             ELSE View!Marker(DrawnOf(win, PanelsOf(win, in), in, reset), in)
BY Zenon DEF View!Rendered, DrawnOf, ViewOf, AskedOf, FreeOf, PanelsOf

LEMMA DrawnFields ==
  ASSUME latest \in Int, NEW win \in View!Types, NEW in, GoodInput(in), NEW n \in Nat, NEW reset
  PROVE  /\ DrawnOf(win, n, in, reset) \in View!Types
         /\ LET new == DrawnOf(win, n, in, reset)
            IN  /\ new.panels = n /\ new.view = ViewOf(win, n, in, reset)
                /\ new.placed <=> (win.placed \/ (View!Forced(win, n, in) = View!NoView /\ View!HasData))
                /\ new.nav.on <=> (win.nav.on /\ View!Wheel(in))
                /\ new.nav.target = win.nav.target
                /\ new.live <=> (win.live /\ in.kind # "drag")
                /\ new.asked = AskedOf(win, n, in, reset)
                /\ new.requested = win.requested /\ new.click = win.click /\ new.selected = win.selected
                /\ new.open = win.open /\ new.sync = win.sync /\ new.resolve = win.resolve
                /\ new.resolved = win.resolved /\ new.row = win.row
<1> DEFINE view == ViewOf(win, n, in, reset)
           asked == AskedOf(win, n, in, reset)
           span == IF win.live /\ (View!Wheel(in) \/ View!HasData) THEN View!LiveSpan(win, in) ELSE win.span
           placed == win.placed \/ (View!Forced(win, n, in) = View!NoView /\ View!HasData)
           nav == IF View!Wheel(in) THEN win.nav ELSE [win.nav EXCEPT !.on = FALSE, !.span = 0]
           live == win.live /\ in.kind # "drag"
           new == DrawnOf(win, n, in, reset)
<1>1. view \in Int \X Int
  BY ViewType
<1>2. asked \in Seq(Int)
  <2>1. <<>> \in Seq(Int) /\ win.asked \in Seq(Int) /\ view \in Seq(Int)
    BY <1>1, PairIsSequence DEF View!Types
  <2> QED
    BY <2>1 DEF AskedOf
<1>3. span \in Int
  BY LiveSpanType DEF View!Types
<1>4. /\ nav \in [on : BOOLEAN, target : Int, span : Nat] /\ nav.target = win.nav.target
      /\ (nav.on <=> (win.nav.on /\ View!Wheel(in)))
  <2>1. win.nav \in [on : BOOLEAN, target : Int, span : Nat]
    BY DEF View!Types
  <2> DEFINE m == win.nav
  <2> HIDE DEF m
  <2>2. m \in [on : BOOLEAN, target : Int, span : Nat]
    BY <2>1 DEF m
  <2>3. LET o == [m EXCEPT !.on = FALSE, !.span = 0]
        IN  o \in [on : BOOLEAN, target : Int, span : Nat] /\ o.target = m.target /\ o.on = FALSE
    BY <2>2
  <2> QED
    BY <2>2, <2>3 DEF m
<1>5. placed \in BOOLEAN /\ live \in BOOLEAN
  BY Zenon
<1>6. new = [win EXCEPT !.panels = n, !.view = view, !.span = span, !.placed = placed, !.nav = nav,
                        !.live = live, !.asked = asked]
  BY DEF DrawnOf, View!Types
<1>7. (new.placed <=> placed) /\ (new.live <=> live)
  BY DEF DrawnOf, View!Types
<1> HIDE DEF view, asked, span, placed, nav, live, new
<1>8. new \in View!Types
  BY <1>1, <1>2, <1>3, <1>4, <1>5, <1>6 DEF View!Types
<1>9. /\ new.panels = n /\ new.view = view /\ new.nav = nav /\ new.asked = asked
      /\ new.requested = win.requested /\ new.click = win.click /\ new.selected = win.selected
      /\ new.open = win.open /\ new.sync = win.sync /\ new.resolve = win.resolve
      /\ new.resolved = win.resolved /\ new.row = win.row
  BY <1>6 DEF View!Types
<1> QED
  BY <1>4, <1>7, <1>8, <1>9, Zenon DEF new, view, asked, placed, live

LEMMA RenderedStage ==
  ASSUME latest \in Int, NEW win, NEW in, NEW reset, GoodInput(in), Coherent(win),
         View!Wheel(in) => Unhurried(win) /\ win.panels # 0
  PROVE  Coherent(View!Rendered(win, in, reset)) /\ Driven(View!Rendered(win, in, reset))
<1> DEFINE n == PanelsOf(win, in)
           new == DrawnOf(win, n, in, reset)
           view == ViewOf(win, n, in, reset)
           asked == AskedOf(win, n, in, reset)
<1>1. win \in View!Types /\ n \in Nat
  BY DEF Coherent, View!Types, PanelsOf, GoodInput
<1>2. CASE n = 0
  <2> DEFINE none == [win EXCEPT !.panels = 0]
  <2>1. none \in View!Types /\ none.panels = 0
    BY <1>1 DEF View!Types
  <2>2. /\ none.selected = win.selected /\ none.click = win.click /\ none.nav = win.nav /\ none.asked = win.asked
        /\ none.placed = win.placed /\ none.view = win.view
    BY <1>1 DEF View!Types
  <2> HIDE DEF none
  <2>3. Coherent(none)
    BY <2>1, <2>2, Zenon DEF Coherent, Shows
  <2>4. Driven(none)
    BY <2>1 DEF Driven, Unhurried
  <2> QED
    BY <1>1, <1>2, <2>3, <2>4, RenderedIs DEF none
<1>3. CASE n # 0
  <2>1. /\ new \in View!Types
        /\ new.panels = n /\ new.view = view
        /\ new.placed <=> (win.placed \/ (View!Forced(win, n, in) = View!NoView /\ View!HasData))
        /\ new.nav.on <=> (win.nav.on /\ View!Wheel(in))
        /\ new.nav.target = win.nav.target
        /\ new.live <=> (win.live /\ in.kind # "drag")
        /\ new.asked = asked
        /\ new.requested = win.requested /\ new.click = win.click /\ new.selected = win.selected
    BY <1>1, DrawnFields
  <2> HIDE DEF new
  <2>2. win.click \in {0} \cup Stamped /\ win.selected \in {0} \cup Stamped
    BY DEF Coherent
  <2>3. new.nav.on => ~win.live /\ new.asked = <<new.nav.target>>
    <3> SUFFICES ASSUME new.nav.on PROVE ~win.live /\ new.asked = <<new.nav.target>>
      OBVIOUS
    <3>1. win.nav.on /\ View!Wheel(in) /\ win.asked = <<win.nav.target>> /\ ~win.live
      BY <2>1 DEF Coherent, Unhurried
    <3>2. /\ View!Forced(win, n, in) # View!NoView /\ in.kind # "drag" /\ win.asked # <<>>
      <4>1. View!Forced(win, n, in) = View!ZoomX(win.view, in)
        BY <3>1 DEF View!Forced
      <4>2. View!ZoomX(win.view, in) \in Int \X Int
        BY <1>1, Zoomed DEF GoodInput, View!Types
      <4> QED
        BY <3>1, <4>1, <4>2, PairNotEmpty DEF View!Wheel
    <3>3. asked = win.asked
      BY <3>1, <3>2 DEF AskedOf
    <3> QED
      BY <2>1, <3>1, <3>3
  <2>4. new.placed /\ ~new.nav.on /\ new.asked # <<>> => Shows(new)
    BY <2>1, ViewShows DEF Shows
  <2>5. Coherent(new)
    BY <2>1, <2>2, <2>3, <2>4, Zenon DEF Coherent
  <2>6. Driven(new)
    BY <2>1, <2>3 DEF Driven, Unhurried
  <2>7. View!Rendered(win, in, reset) = View!Marker(new, in)
    BY <1>1, <1>3, RenderedIs DEF new
  <2> QED
    BY <2>5, <2>6, <2>7, MarkerStage
<1> QED
  BY <1>2, <1>3

LEMMA FrameKeeps ==
  ASSUME ViewInv, NEW in \in View!Inputs \cup {View!Idle}, View!Frame(in)
  PROVE  Coherent(w') /\ Unhurried(w')
<1> PICK reset \in BOOLEAN :
      w' = View!Clicked(View!Notes(View!ConsumeNavRequested(View!LogPanel(
             View!Strip(View!Rendered(View!Toolbar(w, in), in, reset), in), in)), in), in)
  BY DEF View!Frame
<1> DEFINE bar == View!Toolbar(w, in)
           drawn == View!Rendered(bar, in, reset)
           strip == View!Strip(drawn, in)
           panel == View!LogPanel(strip, in)
           taken == View!ConsumeNavRequested(panel)
           noted == View!Notes(taken, in)
<1>1. GoodInput(in) /\ latest \in Int /\ Coherent(w) /\ Unhurried(w)
  BY InputsGood DEF ViewInv, ViewTypes
<1>2. Coherent(bar) /\ (View!Wheel(in) => Unhurried(bar) /\ bar.panels # 0)
  BY <1>1, ToolbarStage DEF GoodInput
<1> HIDE DEF bar
<1>3. Coherent(drawn) /\ Driven(drawn)
  BY <1>1, <1>2, RenderedStage
<1> HIDE DEF drawn
<1>4. Coherent(strip) /\ Driven(strip)
  BY <1>1, <1>3, StripStage
<1> HIDE DEF strip
<1>5. Coherent(panel) /\ Driven(panel)
  BY <1>1, <1>4, PanelStage
<1> HIDE DEF panel
<1>6. Coherent(taken) /\ Unhurried(taken)
  BY <1>5, ConsumeStage
<1> HIDE DEF taken
<1>7. Coherent(noted) /\ Unhurried(noted)
  BY <1>1, <1>6, NotesStage
<1> HIDE DEF noted
<1> QED
  BY <1>1, <1>7, ClickedStage DEF noted, taken, panel, strip, drawn, bar

(***************************************************************************)
(* A row that was clicked: what the stages of a frame do not touch, and    *)
(* what an idle frame does to it.                                          *)
(***************************************************************************)
Alike(win, new) ==
  /\ new.open = win.open /\ new.placed = win.placed /\ new.panels = win.panels
  /\ new.sync = win.sync /\ new.row = win.row

\* the rest that a navigation keeps, and what it asks for
NavigatedTo(win, new, x) ==
  /\ new \in View!Types
  /\ Alike(win, new) /\ new.click = win.click /\ new.selected = win.selected
  /\ new.resolve = win.resolve /\ new.resolved = win.resolved
  /\ new.nav.on = TRUE /\ new.nav.target = x /\ new.requested = TRUE

LEMMA NavigatesAlike ==
  ASSUME NEW win \in View!Types, NEW x \in Int, NEW span \in Nat
  PROVE  NavigatedTo(win, View!NavigateToWithSpan(win, x, span), x)
<1> DEFINE new == View!NavigateToWithSpan(win, x, span)
           nav == [on |-> TRUE, target |-> x, span |-> span]
<1>1. /\ Alike(win, new) /\ new.click = win.click /\ new.selected = win.selected
      /\ new.resolve = win.resolve /\ new.resolved = win.resolved /\ new.requested = TRUE
      /\ new.nav = nav
  BY DEF View!NavigateToWithSpan, View!Types, Alike
<1>2. nav.on = TRUE /\ nav.target = x
  OBVIOUS
<1>3. nav \in [on : BOOLEAN, target : Int, span : Nat] /\ <<x>> \in Seq(Int)
  OBVIOUS
<1>4. new = [win EXCEPT !.nav = nav, !.requested = TRUE, !.asked = <<x>>]
  BY DEF View!NavigateToWithSpan
<1> HIDE DEF nav
<1>5. new \in View!Types
  BY <1>3, <1>4 DEF View!Types
<1> HIDE DEF new
<1>6. NavigatedTo(win, new, x)
  BY <1>1, <1>2, <1>5, Zenon DEF NavigatedTo
<1> QED
  BY <1>6 DEF new

LEMMA AutoResolveAlike ==
  ASSUME NEW win \in View!Types, NEW i \in View!Logged
  PROVE  \/ View!AutoResolveSelection(win, i) = win
         \/ NavigatedTo(win, View!AutoResolveSelection(win, i), Entries[i].ts)
<1>1. Entries[i].ts \in Int
  BY LoggedTypes
<1>2. ASSUME NEW span \in Nat, View!AutoResolveSelection(win, i) = View!NavigateToWithSpan(win, Entries[i].ts, span)
      PROVE  NavigatedTo(win, View!AutoResolveSelection(win, i), Entries[i].ts)
  <2>1. NavigatedTo(win, View!NavigateToWithSpan(win, Entries[i].ts, span), Entries[i].ts)
    BY <1>1, NavigatesAlike
  <2> QED
    BY <1>2, <2>1, Zenon
<1> QED
  BY <1>2, AutoResolveNavigates

LEMMA TakeClickAlike ==
  ASSUME NEW win \in View!Types
  PROVE  Alike(win, View!TakeClick(win)) /\ View!TakeClick(win).click = 0
BY DEF View!TakeClick, View!Types, View!Nobody, Alike

LEMMA ResolveAlike ==
  ASSUME NEW win, Coherent(win)
  PROVE  Alike(win, View!Resolve(win)) /\ View!Resolve(win).click = win.click
<1> DEFINE At(ts) == [win EXCEPT !.resolved = ts]
<1>1. \A ts \in Nat : At(ts) \in View!Types /\ Alike(win, At(ts)) /\ At(ts).click = win.click
  BY DEF Coherent, View!Types, Alike
<1>2. CASE win.resolve /\ win.selected \notin {View!Nobody, win.resolved}
  <2>1. PICK j \in View!Logged : Entries[j].ts = win.selected
    BY <1>2 DEF Coherent, Stamped, View!Nobody
  <2> DEFINE i == CHOOSE k \in View!Logged : Entries[k].ts = win.selected
  <2>2. i \in View!Logged
    BY <2>1
  <2>3. View!Resolve(win) = View!AutoResolveSelection(At(win.selected), i)
    BY <1>2 DEF View!Resolve
  <2>4. win.selected \in Nat
    BY DEF Coherent, View!Types
  <2> HIDE DEF i
  <2> DEFINE at == At(win.selected)
             new == View!AutoResolveSelection(at, i)
  <2>5. at \in View!Types /\ Alike(win, at) /\ at.click = win.click
    BY <1>1, <2>4
  <2> HIDE DEF at
  <2>6. new = at \/ NavigatedTo(at, new, Entries[i].ts)
    BY <2>2, <2>5, AutoResolveAlike
  <2>7. View!Resolve(win) = new
    BY <2>3 DEF at
  <2> HIDE DEF new
  <2> QED
    BY <2>5, <2>6, <2>7, Zenon DEF Alike, NavigatedTo
<1>3. CASE ~(win.resolve /\ win.selected \notin {View!Nobody, win.resolved})
  <2>1. View!Resolve(win) \in {At(0), win}
    BY <1>3 DEF View!Resolve, View!Nobody
  <2>2. Alike(win, win) /\ Alike(win, At(0)) /\ At(0).click = win.click
    BY <1>1 DEF Alike
  <2> HIDE DEF At
  <2> QED
    BY <2>1, <2>2
<1> QED
  BY <1>2, <1>3

LEMMA DeselectAlike ==
  ASSUME NEW win \in View!Types
  PROVE  Alike(win, View!Deselect(win)) /\ View!Deselect(win).click = win.click
BY DEF View!Deselect, View!Types, View!Nobody, Alike

LEMMA SyncAlike ==
  ASSUME NEW win \in View!Types
  PROVE  Alike(win, View!Sync(win)) /\ View!Sync(win).click = win.click
<1> DEFINE right == IF win.view[2] > 0 THEN win.view[2] ELSE View!NoData
           shown  == {Entries[i].ts : i \in {j \in View!Logged : View!InView(win, Entries[j].ts)}}
           last  == IF shown = {} THEN win.selected ELSE View!Max(shown)
           new   == [win EXCEPT !.lastMax = right, !.selected = last]
<1>1. View!Sync(win) \in {win, new}
  BY DEF View!Sync, View!Types
<1> HIDE DEF right, last
<1>2. Alike(win, new) /\ new.click = win.click
  BY DEF View!Types, Alike
<1> QED
  BY <1>1, <1>2 DEF Alike

\* a click selects the row and navigates to it
LEMMA RowSelected ==
  ASSUME NEW win \in View!Types, NEW in, GoodInput(in), in.kind = "row"
  PROVE  LET new == View!ClickRow(win, in)
             ts  == Entries[in.value].ts
         IN  /\ Alike(win, new) /\ new.click = win.click /\ new.selected = ts
             /\ new.resolve = win.resolve /\ (win.resolve => new.resolved = ts)
             /\ new.nav.on = TRUE /\ new.nav.target = ts /\ new.requested = TRUE
<1> DEFINE ts == Entries[in.value].ts
           marked == [win EXCEPT !.selected = ts]
           new == View!NavigateTo(marked, ts)
           tight == View!AutoResolveSelection(new, in.value)
           done == [tight EXCEPT !.resolved = ts]
<1>1. in.value \in View!Logged /\ ts \in Nat
  BY LoggedTypes DEF GoodInput
<1>2. View!ClickRow(win, in) = IF win.resolve THEN done ELSE new
  BY Zenon DEF View!ClickRow
<1>3. /\ marked \in View!Types /\ Alike(win, marked) /\ marked.click = win.click /\ marked.selected = ts
      /\ marked.resolve = win.resolve
  BY <1>1 DEF View!Types, Alike
<1>4. Entries[in.value].ts = ts
  OBVIOUS
<1> HIDE DEF ts, marked
<1>5. NavigatedTo(marked, new, ts)
  <2>1. 0 \in Nat /\ ts \in Int
    BY <1>1
  <2> QED
    BY <1>3, <2>1, NavigatesAlike DEF View!NavigateTo
<1> HIDE DEF new
<1>6. /\ Alike(win, new) /\ new.click = win.click /\ new.selected = ts /\ new.resolve = win.resolve
      /\ new.nav.on = TRUE /\ new.nav.target = ts /\ new.requested = TRUE
  BY <1>3, <1>5, Zenon DEF NavigatedTo, Alike
<1>7. CASE ~win.resolve
  BY <1>2, <1>3, <1>6, <1>7 DEF ts
<1>8. CASE win.resolve
  <2>1. tight = new \/ NavigatedTo(new, tight, ts)
    <3>1. new \in View!Types
      BY <1>5 DEF NavigatedTo
    <3> QED
      BY <1>1, <1>4, <3>1, AutoResolveAlike
  <2> HIDE DEF tight
  <2>2. /\ tight \in View!Types /\ Alike(new, tight) /\ tight.click = new.click /\ tight.selected = new.selected
        /\ tight.resolve = new.resolve /\ tight.nav.on = TRUE /\ tight.nav.target = ts /\ tight.requested = TRUE
    BY <1>5, <2>1, Zenon DEF NavigatedTo, Alike
  <2>3. /\ Alike(tight, done) /\ done.click = tight.click /\ done.selected = tight.selected
        /\ done.resolve = tight.resolve /\ done.nav = tight.nav /\ done.requested = tight.requested
        /\ done.resolved = ts
    BY <1>1, <2>2 DEF View!Types, Alike
  <2> HIDE DEF done
  <2> QED
    BY <1>2, <1>6, <1>8, <2>2, <2>3, Zenon DEF Alike, ts
<1> QED
  BY <1>7, <1>8

\* what the log panel keeps of the window, whatever is done in it but the Sync checkbox
LEMMA PanelAlike ==
  ASSUME latest \in Int, NEW win, NEW in, GoodInput(in), Coherent(win), Driven(win), in.kind # "sync"
  PROVE  LET new == View!LogPanel(win, in)
             ts  == Entries[in.value].ts
         IN  /\ Alike(win, new)
             /\ win.open /\ in.kind = "row" =>
                  /\ new.click = 0 /\ new.selected = ts /\ (new.resolve => new.resolved = ts)
                  /\ new.nav.on = TRUE /\ new.nav.target = ts /\ new.requested = TRUE
<1> DEFINE a == View!TakeClick(win)
           b == View!Resolve(a)
           c == View!Checkboxes(b, in)
           d == View!Deselect(c)
           e == View!Sync(d)
           f == View!ClickRow(e, in)
<1>1. View!LogPanel(win, in) = IF ~win.open THEN win ELSE f
  BY Zenon DEF View!LogPanel
<1>2. Coherent(a) /\ Driven(a) /\ Alike(win, a) /\ a.click = 0
  BY TakeClickStage, TakeClickAlike DEF Coherent
<1> HIDE DEF a
<1>3. Coherent(b) /\ Driven(b) /\ Alike(a, b) /\ b.click = a.click
  BY <1>2, ResolveStage, ResolveAlike
<1> HIDE DEF b
<1>4. Coherent(c) /\ Driven(c) /\ Alike(b, c) /\ (in.kind = "row" => c.click = b.click)
  <2>1. Coherent(c) /\ Driven(c)
    BY <1>3, CheckboxStage
  <2>2. c \in {b, [b EXCEPT !.resolve = ~b.resolve]} /\ (in.kind = "row" => c = b)
    BY DEF View!Checkboxes
  <2> QED
    BY <1>3, <2>1, <2>2 DEF Coherent, View!Types, Alike
<1> HIDE DEF c
<1>5. Coherent(d) /\ Driven(d) /\ Alike(c, d) /\ d.click = c.click
  BY <1>4, DeselectStage, DeselectAlike DEF Coherent
<1> HIDE DEF d
<1>6. Coherent(e) /\ Driven(e) /\ Alike(d, e) /\ e.click = d.click
  BY <1>5, SyncStage, SyncAlike DEF Coherent
<1> HIDE DEF e
<1>7. /\ Alike(e, f)
      /\ in.kind = "row" =>
           /\ f.click = e.click /\ f.selected = Entries[in.value].ts
           /\ f.resolve => f.resolved = Entries[in.value].ts
           /\ f.nav.on = TRUE /\ f.nav.target = Entries[in.value].ts /\ f.requested = TRUE
  <2>1. CASE in.kind = "row"
    <3>1. e \in View!Types
      BY <1>6 DEF Coherent
    <3> QED
      BY <2>1, <3>1, RowSelected
  <2>2. CASE in.kind # "row"
    BY <2>2 DEF View!ClickRow, Alike
  <2> QED
    BY <2>1, <2>2
<1> HIDE DEF f
<1>8. Alike(win, f)
  BY <1>2, <1>3, <1>4, <1>5, <1>6, <1>7, Zenon DEF Alike
<1>9. CASE win.open
  BY <1>1, <1>2, <1>3, <1>4, <1>5, <1>6, <1>7, <1>8, <1>9
<1>10. CASE ~win.open
  BY <1>1, <1>10 DEF Alike
<1> QED
  BY <1>9, <1>10

\* A frame without input leaves a row that was clicked selected, and it is in the middle.
RowShown(win) ==
  /\ win.row # 0 /\ ~win.sync /\ win.panels # 0
  /\ win.open /\ win.placed /\ ~win.live /\ win.click = 0
  /\ win.selected = win.row /\ (win.resolve => win.resolved = win.row)
  /\ ~win.nav.on /\ win.view[1] + win.view[2] = 2 * win.row /\ win.view[1] <= win.row

LEMMA IdleDrawn ==
  ASSUME latest \in Int, NEW win \in View!Types, NEW reset, RowStays(win),
         win.row # 0, ~win.sync, win.panels # 0
  PROVE  LET new == DrawnOf(win, win.panels, View!Idle, reset)
         IN  new \in View!Types /\ RowShown(new) /\ new.row = win.row
<1> DEFINE in == View!Idle
           n == win.panels
           new == DrawnOf(win, n, in, reset)
           view == ViewOf(win, n, in, reset)
<1>1. in.kind = "none" /\ in.value = 0 /\ GoodInput(in) /\ ~View!Wheel(in) /\ n \in Nat
  BY DEF View!Idle, View!Input, GoodInput, View!Wheel, View!Types
<1> HIDE DEF in, n
<1>2. /\ new \in View!Types
      /\ new.panels = n /\ new.view = view
      /\ new.placed <=> (win.placed \/ (View!Forced(win, n, in) = View!NoView /\ View!HasData))
      /\ new.nav.on <=> (win.nav.on /\ View!Wheel(in))
      /\ new.live <=> (win.live /\ in.kind # "drag")
      /\ new.click = win.click /\ new.selected = win.selected
      /\ new.open = win.open /\ new.sync = win.sync /\ new.resolve = win.resolve
      /\ new.resolved = win.resolved /\ new.row = win.row
  BY <1>1, DrawnFields
<1> HIDE DEF new
<1>3. /\ win.open /\ win.placed /\ ~win.live /\ win.click = 0
      /\ win.selected = win.row /\ (win.resolve => win.resolved = win.row)
      /\ win.nav.on => win.nav.target = win.row
      /\ ~win.nav.on => win.view[1] + win.view[2] = 2 * win.row /\ win.view[1] <= win.row
  BY DEF RowStays
<1>4. view[1] + view[2] = 2 * win.row /\ view[1] <= win.row
  <2>1. CASE win.nav.on
    <3>1. View!Forced(win, n, in) = View!Centred(win)
      BY <1>1, <2>1 DEF View!Forced
    <3>2. /\ View!Centred(win) \in Int \X Int
          /\ View!Centred(win)[1] + View!Centred(win)[2] = 2 * win.nav.target
          /\ View!Centred(win)[1] <= win.nav.target
      BY IntoTheMiddle
    <3>3. view = View!Centred(win)
      BY <3>1, <3>2, PairNotEmpty, ForcedView
    <3> QED
      BY <1>3, <2>1, <3>2, <3>3
  <2>2. CASE ~win.nav.on
    <3>1. View!Forced(win, n, in) = View!NoView
      BY <1>1, <2>2 DEF View!Forced, View!Kept, n
    <3>2. FreeOf(win, n, in)
      BY <1>3, <3>1 DEF FreeOf
    <3>3. view = win.view
      BY <1>1, <1>3, <3>1, <3>2 DEF ViewOf, n
    <3> QED
      BY <1>3, <2>2, <3>3
  <2> QED
    BY <2>1, <2>2
<1> HIDE DEF view
<1>5. RowShown(new) /\ new.row = win.row
  BY <1>1, <1>2, <1>3, <1>4 DEF RowShown, n
<1> QED
  BY <1>2, <1>5 DEF new, n, in

LEMMA IdlePanel ==
  ASSUME NEW win \in View!Types, RowShown(win)
  PROVE  View!LogPanel(win, View!Idle) = win
<1>1. View!Idle.kind = "none"
  BY DEF View!Idle, View!Input
<1>2. View!TakeClick(win) = win
  BY DEF View!TakeClick, View!Nobody, RowShown
<1>3. View!Resolve(win) = win
  BY DEF View!Resolve, View!Nobody, RowShown
<1>4. View!Checkboxes(win, View!Idle) = win
  BY <1>1 DEF View!Checkboxes
<1>5. View!Deselect(win) = win
  <2>1. View!InView(win, win.selected)
    BY DEF View!InView, RowShown, View!Types
  <2> QED
    BY <2>1 DEF View!Deselect
<1>6. View!Sync(win) = win
  BY DEF View!Sync, RowShown
<1>7. View!ClickRow(win, View!Idle) = win
  BY <1>1 DEF View!ClickRow
<1> QED
  BY <1>2, <1>3, <1>4, <1>5, <1>6, <1>7 DEF View!LogPanel

LEMMA IdleFrame ==
  ASSUME ViewInv, RowStays(w), View!Frame(View!Idle)
  PROVE  RowStays(w')
<1> DEFINE in == View!Idle
<1>1. PICK reset \in BOOLEAN :
      w' = View!Clicked(View!Notes(View!ConsumeNavRequested(View!LogPanel(
             View!Strip(View!Rendered(View!Toolbar(w, in), in, reset), in), in)), in), in)
  BY DEF View!Frame
<1>2. in.kind = "none" /\ GoodInput(in) /\ ~View!Wheel(in)
  BY DEF View!Idle, View!Input, GoodInput, View!Wheel
<1>3. latest \in Int /\ Coherent(w) /\ Unhurried(w) /\ w \in View!Types /\ w.panels \in Nat
  BY DEF ViewInv, ViewTypes, Coherent, View!Types
<1> DEFINE drawn == View!Rendered(w, in, reset)
           panel == View!LogPanel(drawn, in)
           taken == View!ConsumeNavRequested(panel)
<1>4. w' = [taken EXCEPT !.row = taken.row]
  <2>1. View!Toolbar(w, in) = w /\ View!Strip(drawn, in) = drawn /\ View!Notes(taken, in) = taken
    BY <1>2 DEF View!Toolbar, View!Strip, View!Notes
  <2>2. View!Clicked(taken, in) = [taken EXCEPT !.row = taken.row]
    BY <1>2 DEF View!Clicked
  <2> QED
    BY <1>1, <2>1, <2>2, Zenon
<1>5. drawn = IF w.panels = 0 THEN [w EXCEPT !.panels = 0] ELSE DrawnOf(w, w.panels, in, reset)
  <2>1. PanelsOf(w, in) = w.panels
    BY <1>2 DEF PanelsOf
  <2>2. \A win : View!Marker(win, in) = win
    BY <1>2 DEF View!Marker
  <2> QED
    BY <1>3, <2>1, <2>2, RenderedIs
<1>6. Coherent(drawn) /\ Driven(drawn)
  BY <1>2, <1>3, RenderedStage
<1>7. Coherent(panel) /\ Driven(panel) /\ Alike(drawn, panel)
  BY <1>2, <1>3, <1>6, PanelStage, PanelAlike
<1>8. drawn.panels = w.panels /\ drawn.sync = w.sync /\ drawn.row = w.row
  <2>1. CASE w.panels = 0
    BY <1>3, <1>5, <2>1 DEF View!Types
  <2>2. CASE w.panels # 0
    BY <1>2, <1>3, <1>5, <2>2, DrawnFields
  <2> QED
    BY <2>1, <2>2
<1> HIDE DEF panel
<1>9. /\ taken.panels = panel.panels /\ taken.sync = panel.sync /\ taken.row = panel.row
      /\ taken.open = panel.open /\ taken.placed = panel.placed /\ taken.click = panel.click
      /\ taken.selected = panel.selected /\ taken.resolve = panel.resolve /\ taken.resolved = panel.resolved
      /\ taken.nav = panel.nav /\ taken.view = panel.view /\ (taken.live => panel.live)
      /\ taken \in View!Types
  BY <1>7 DEF View!ConsumeNavRequested, Coherent, View!Types
<1> HIDE DEF taken
<1>10. /\ w'.panels = taken.panels /\ w'.sync = taken.sync /\ w'.row = taken.row
       /\ w'.open = taken.open /\ w'.placed = taken.placed /\ w'.click = taken.click
       /\ w'.selected = taken.selected /\ w'.resolve = taken.resolve /\ w'.resolved = taken.resolved
       /\ w'.nav = taken.nav /\ w'.view = taken.view /\ w'.live = taken.live
  BY <1>4, <1>9 DEF View!Types
<1>11. CASE w.row # 0 /\ ~w.sync /\ w.panels # 0
  <2>1. drawn \in View!Types /\ RowShown(drawn) /\ drawn.row = w.row
    BY <1>3, <1>5, <1>11, IdleDrawn
  <2> HIDE DEF drawn
  <2>2. panel = drawn
    BY <2>1, IdlePanel DEF panel
  <2> QED
    BY <1>9, <1>10, <2>1, <2>2 DEF RowShown, RowStays
<1>12. CASE ~(w.row # 0 /\ ~w.sync /\ w.panels # 0)
  BY <1>7, <1>8, <1>9, <1>10, <1>12 DEF RowStays, Alike
<1> QED
  BY <1>11, <1>12

\* Anything that is done forgets the row, but for a click on one.
LEMMA BusyFrame ==
  ASSUME ViewInv, NEW in \in View!Inputs, in # View!Idle, View!Frame(in)
  PROVE  RowStays(w')
<1>1. PICK reset \in BOOLEAN :
      w' = View!Clicked(View!Notes(View!ConsumeNavRequested(View!LogPanel(
             View!Strip(View!Rendered(View!Toolbar(w, in), in, reset), in), in)), in), in)
  BY DEF View!Frame
<1> DEFINE bar == View!Toolbar(w, in)
           drawn == View!Rendered(bar, in, reset)
           strip == View!Strip(drawn, in)
           panel == View!LogPanel(strip, in)
           taken == View!ConsumeNavRequested(panel)
           noted == View!Notes(taken, in)
           ts == Entries[in.value].ts
<1>2. GoodInput(in) /\ latest \in Int /\ Coherent(w) /\ Unhurried(w)
  BY InputsGood DEF ViewInv, ViewTypes
<1>3. Coherent(bar) /\ (View!Wheel(in) => Unhurried(bar) /\ bar.panels # 0)
  BY <1>2, ToolbarStage DEF GoodInput
<1> HIDE DEF bar
<1>4. Coherent(drawn) /\ Driven(drawn)
  BY <1>2, <1>3, RenderedStage
<1> HIDE DEF drawn
<1>5. Coherent(strip) /\ Driven(strip)
  BY <1>2, <1>4, StripStage
<1> HIDE DEF strip
<1>6. /\ Coherent(panel) /\ Driven(panel)
      /\ in.kind = "row" /\ strip.open =>
           /\ panel.click = 0 /\ panel.selected = ts /\ (panel.resolve => panel.resolved = ts)
           /\ panel.nav.on = TRUE /\ panel.nav.target = ts /\ panel.requested = TRUE
      /\ in.kind = "row" => panel.open = strip.open
  BY <1>2, <1>5, PanelStage, PanelAlike DEF Alike
<1> HIDE DEF panel
<1>7. Coherent(noted)
  BY <1>2, <1>6, ConsumeStage, NotesStage
<1>8. w' = View!Clicked(noted, in)
  BY <1>1, Zenon DEF noted, taken, panel, strip, drawn, bar
<1>9. CASE ~(in.kind = "row" /\ noted.open /\ noted.placed)
  <2>1. w' = [noted EXCEPT !.row = 0]
    BY <1>8, <1>9 DEF View!Clicked, View!Nobody
  <2> HIDE DEF noted
  <2>2. w'.row = 0
    BY <1>7, <2>1 DEF Coherent, View!Types
  <2> QED
    BY <2>2 DEF RowStays
<1>10. CASE in.kind = "row" /\ noted.open /\ noted.placed
  <2>1. noted = taken /\ w' = [taken EXCEPT !.row = ts]
    BY <1>8, <1>10 DEF View!Notes, View!Clicked
  <2>2. /\ taken.open = panel.open /\ taken.click = panel.click
        /\ taken.selected = panel.selected /\ taken.resolve = panel.resolve /\ taken.resolved = panel.resolved
        /\ taken.nav = panel.nav /\ (panel.requested => ~taken.live)
    BY <1>6 DEF View!ConsumeNavRequested, Coherent, View!Types
  <2>3. taken \in View!Types
    BY <1>7, <2>1 DEF Coherent
  <2>4. taken.open /\ taken.placed
    BY <1>10, <2>1
  <2> HIDE DEF taken, noted
  <2>5. ts \in Nat
    BY <1>2, <1>10, LoggedTypes DEF GoodInput
  <2> HIDE DEF ts
  <2>6. /\ w'.open = taken.open /\ w'.placed = taken.placed /\ w'.click = taken.click
        /\ w'.selected = taken.selected /\ w'.resolve = taken.resolve /\ w'.resolved = taken.resolved
        /\ w'.nav = taken.nav /\ w'.live = taken.live /\ w'.row = ts
    BY <2>1, <2>3, <2>5 DEF View!Types
  <2> QED
    BY <1>6, <1>10, <2>2, <2>4, <2>6 DEF RowStays
<1> QED
  BY <1>9, <1>10


LEMMA ViewInit == PartsInit => ViewInv /\ RowStays(w)
<1> SUFFICES ASSUME PartsInit PROVE ViewInv /\ RowStays(w)
  OBVIOUS
<1>1. View!Init
  BY DEF PartsInit
<1>2. /\ w.nav.on = FALSE /\ w.asked = <<>> /\ w.row = 0 /\ w.click = 0 /\ w.selected = 0
  BY <1>1 DEF View!Init, View!Nobody
<1>3. w \in View!Types
  <2>1. [on |-> FALSE, target |-> 0, span |-> 0] \in [on : BOOLEAN, target : Int, span : Nat]
        /\ <<>> \in Seq(Int) /\ <<0, 2>> \in Int \X Int
    OBVIOUS
  <2> QED
    BY <1>1, <2>1 DEF View!Init, View!Types, View!Nobody
<1>4. ViewTypes
  BY <1>1 DEF View!Init, View!NoData, ViewTypes
<1> QED
  BY <1>2, <1>3, <1>4, Zenon DEF ViewInv, Coherent, Unhurried, RowStays

\* more records are known as time goes by
LEMMA MoreStamped ==
  ASSUME latest \in Int, latest' \in Int, latest <= latest'
  PROVE  Stamped \subseteq Stamped'
<1>1. \A i \in DOMAIN Entries : Entries[i].ts \in Int
  <2>1. Entries \in Seq([ts : Nat \ {0}, warn : BOOLEAN])
    BY ViewAssumption, Zenon
  <2>2. \A i \in DOMAIN Entries : Entries[i] \in [ts : Nat \ {0}, warn : BOOLEAN]
    BY <2>1, MemberOf, Zenon
  <2> QED
    BY <2>2
<1>2. View!Logged \subseteq View!Logged'
  BY <1>1 DEF View!Logged
<1> QED
  BY <1>2 DEF Stamped

LEMMA ViewStep ==
  ASSUME ViewInv, RowStays(w), View!Next
  PROVE  ViewInv' /\ RowStays(w)'
<1>0. latest \in Int /\ online \in BOOLEAN /\ viewInputs \in Nat /\ Coherent(w) /\ Unhurried(w) /\ w \in View!Types
  BY DEF ViewInv, ViewTypes, Coherent
<1>1. CASE View!Arrive
  <2>1. latest' = View!Min({latest + 5, Late}) /\ latest < Late /\ UNCHANGED <<online, w, viewInputs>>
    BY <1>1 DEF View!Arrive
  <2>2. latest' \in Int /\ latest <= latest'
    <3> DEFINE far == latest + 5
    <3>1. far \in Int /\ Late \in Int /\ latest <= far
      BY <1>0, ConstantTypes
    <3> HIDE DEF far
    <3>2. View!Min({far, Late}) \in {far, Late}
      BY <3>1, TwoBounds
    <3>3. latest' = View!Min({far, Late})
      BY <2>1 DEF far
    <3>4. latest' = far \/ latest' = Late
      BY <3>2, <3>3, Zenon
    <3> QED
      BY <1>0, <2>1, <3>1, <3>4
  <2>3. Stamped \subseteq Stamped'
    BY <1>0, <2>2, MoreStamped
  <2> QED
    BY <1>0, <2>1, <2>2, <2>3 DEF ViewInv, ViewTypes, Coherent, Unhurried, Shows, RowStays
<1>2. CASE View!SetLiveness
  <2> DEFINE still == [w EXCEPT !.live = FALSE]
  <2>1. w' \in {w, still} /\ latest' = latest /\ online' = ~online /\ viewInputs' = viewInputs + 1
    BY <1>2 DEF View!SetLiveness
  <2>2. Coherent(still)
    BY <1>0, Stopped DEF Driven
  <2>3. /\ still.live = FALSE /\ still.row = w.row /\ still.sync = w.sync /\ still.panels = w.panels
        /\ still.open = w.open /\ still.placed = w.placed /\ still.click = w.click
        /\ still.selected = w.selected /\ still.resolve = w.resolve /\ still.resolved = w.resolved
        /\ still.nav = w.nav /\ still.view = w.view
    BY <1>0 DEF View!Types
  <2> HIDE DEF still
  <2>4. Unhurried(still) /\ RowStays(still)
    BY <2>3 DEF Unhurried, RowStays
  <2>5. Coherent(w') /\ Unhurried(w') /\ RowStays(w')
    BY <1>0, <2>1, <2>2, <2>4
  <2>6. Stamped' = Stamped
    BY <2>1 DEF Stamped, View!Logged
  <2>7. ViewTypes'
    BY <1>0, <2>1, Opposite DEF ViewTypes
  <2>8. Coherent(w)' /\ Unhurried(w)' /\ RowStays(w)'
    BY <2>5, <2>6 DEF Coherent, Unhurried, Shows, RowStays
  <2> QED
    BY <2>7, <2>8 DEF ViewInv
<1>3. ASSUME NEW in \in View!Inputs \cup {View!Idle}, View!Frame(in), latest' = latest, online' = online,
             viewInputs' \in Nat
      PROVE  ViewInv' /\ RowStays(w)'
  <2>1. Coherent(w') /\ Unhurried(w')
    BY <1>3, FrameKeeps
  <2>2. RowStays(w')
    BY <1>3, IdleFrame, BusyFrame
  <2>3. Stamped' = Stamped
    BY <1>3 DEF Stamped, View!Logged
  <2>4. Coherent(w)' /\ Unhurried(w)' /\ RowStays(w)'
    BY <2>1, <2>2, <2>3 DEF Coherent, Unhurried, Shows, RowStays
  <2> QED
    BY <1>0, <1>3, <2>4 DEF ViewInv, ViewTypes
<1>4. CASE View!Frame(View!Idle) /\ UNCHANGED <<latest, online, viewInputs>>
  BY <1>0, <1>3, <1>4
<1>5. ASSUME NEW in \in View!Inputs, viewInputs' = viewInputs + 1, View!Frame(in), UNCHANGED <<latest, online>>
      PROVE  ViewInv' /\ RowStays(w)'
  BY <1>0, <1>3, <1>5
<1> QED
  BY <1>1, <1>2, <1>4, <1>5 DEF View!Next

LEMMA ViewPart ==
  ViewInv /\ RowStays(w) /\ [PartsNext]_<<part, vars, listVars, viewVars, firstVars>> => ViewInv' /\ RowStays(w)'
<1> SUFFICES ASSUME ViewInv, RowStays(w), [PartsNext]_<<part, vars, listVars, viewVars, firstVars>>
             PROVE  ViewInv' /\ RowStays(w)'
  OBVIOUS
<1>1. CASE View!Next
  BY <1>1, ViewStep
<1>2. CASE UNCHANGED viewVars
  <2>1. latest' = latest /\ online' = online /\ w' = w /\ viewInputs' = viewInputs
    BY <1>2 DEF viewVars
  <2>2. Stamped' = Stamped
    BY <2>1 DEF Stamped, View!Logged
  <2> QED
    BY <2>1, <2>2 DEF ViewInv, ViewTypes, Coherent, Unhurried, Shows, RowStays
<1> QED
  BY <1>1, <1>2, Zenon DEF PartsNext

\* Once the live view is off, the window shows what was last asked for
\* (WaveformView::ViewAsAsked), for any log and any configuration: the place or
\* the view that a strip, marker, row, note, wheel or drag asked for is kept by
\* every stage of every later frame.
THEOREM ViewIsKept == PartsSpec => []ViewAsAsked
<1>1. ViewInv => ViewAsAsked
  BY Zenon DEF ViewInv, Coherent, Shows, ViewAsAsked, View!ViewAsAsked
<1>2. ViewInv /\ RowStays(w) /\ [PartsNext]_<<part, vars, listVars, viewVars, firstVars>> => ViewInv' /\ RowStays(w)'
  BY ViewPart
<1>3. PartsInit => ViewInv /\ RowStays(w)
  BY ViewInit
<1> QED
  BY <1>1, <1>2, <1>3, PTL DEF PartsSpec

\* A row of the trace log that was clicked is still selected and in the middle
\* of the graphs, or about to be, however many frames go by
\* (WaveformView::RowClickSeen); while Sync is off.
THEOREM RowStaysSeen == PartsSpec => []RowClickSeen
<1>1. ViewInv /\ RowStays(w) => RowClickSeen
  BY DEF ViewInv, Coherent, RowStays, RowClickSeen, View!RowClickSeen, View!Nobody, View!Types
<1>2. ViewInv /\ RowStays(w) /\ [PartsNext]_<<part, vars, listVars, viewVars, firstVars>> => ViewInv' /\ RowStays(w)'
  BY ViewPart
<1>3. PartsInit => ViewInv /\ RowStays(w)
  BY ViewInit
<1> QED
  BY <1>1, <1>2, <1>3, PTL DEF PartsSpec

-----------------------------------------------------------------------------
(* The first calls of the facade.                                          *)

Origins == {"default", "args", "env", "given"}

Session == [brokers : Origins, user : Origins]

FirstTypes ==
  /\ lib \in {"absent", "old", "full"} /\ vtable \in {"none", "old", "full"} /\ init \in {"new", "done"}
  /\ config \in [First!Settings -> Origins] /\ given \in BOOLEAN /\ early \in BOOLEAN
  /\ chOnce \in [Channels -> First!Once] /\ handle \in [Channels -> {NoHandle} \cup Session]
  /\ regOnce \in [FacadeCounters -> First!Once] /\ cached \in [FacadeCounters -> {NoHandle} \cup Session]
  /\ site \in {"none", "sentinel", "hash"}
  /\ place \in [Threads -> {"idle", "configure", "counter", "register", "channel", "fn", "open", "open_user",
                            "newsite", "body"}]
  /\ call \in [Threads -> [op : {"none", "add", "enable", "log", "flush"}, obj : FacadeCounters \cup {"none"}]]
  /\ got \in [Threads -> Origins] /\ passed \in [Threads -> BOOLEAN] /\ failures \in Nat

LEMMA FacadeNames ==
  /\ IsFiniteSet(Channels) /\ IsFiniteSet(FacadeCounters) /\ Channels \cap FacadeCounters = {}
  /\ DefaultChannel \in Channels /\ ChannelOf \in [FacadeCounters -> Channels] /\ Feeds \subseteq FacadeCounters
  /\ "new" \notin Threads /\ "done" \notin Threads
  /\ NoHandle \notin Session
BY FacadeAssumption DEF Session, Origins

LEMMA ChanType ==
  ASSUME FirstTypes, NEW t \in Threads
  PROVE  First!Chan(t) \in Channels
BY FacadeNames DEF First!Chan, FirstTypes

LEMMA FirstTypesStep ==
  ASSUME FirstTypes, First!Next
  PROVE  FirstTypes'
<1>1. ASSUME NEW t \in Threads, NEW op \in {"add", "enable", "log", "flush"},
             NEW c \in FacadeCounters \cup {"none"}, First!Call(t, op, c)
      PROVE  FirstTypes'
  BY <1>1 DEF First!Call, First!Goto, FirstTypes, First!procVars, First!confVars, First!onceVars
<1>2. ASSUME NEW t \in Threads, First!ConfigureBrokers(t) PROVE FirstTypes'
  BY <1>2 DEF First!ConfigureBrokers, First!Goto, FirstTypes, First!procVars, First!onceVars, First!Settings, Origins
<1>3. ASSUME NEW t \in Threads, First!ConfigureUser(t) PROVE FirstTypes'
  <2>1. early' \in BOOLEAN
    BY <1>3 DEF First!ConfigureUser
  <2>2. config' \in [First!Settings -> Origins]
    BY <1>3 DEF First!ConfigureUser, FirstTypes, First!Settings, Origins
  <2> QED
    BY <1>3, <2>1, <2>2 DEF First!ConfigureUser, First!Goto, FirstTypes, First!procVars, First!onceVars
<1>4. ASSUME NEW t \in Threads, First!InitOnce(t) PROVE FirstTypes'
  <2>1. config' \in [First!Settings -> Origins]
    BY <1>4 DEF First!InitOnce, First!Resolved, FirstTypes, Origins
  <2> QED
    BY <1>4, <2>1 DEF First!InitOnce, First!Goto, FirstTypes, First!procVars
<1>5. ASSUME NEW t \in Threads, First!Fn(t) PROVE FirstTypes'
  BY <1>5 DEF First!Fn, First!Goto, FirstTypes, First!procVars, First!confVars, First!onceVars
<1>6. ASSUME NEW t \in Threads, First!NoRuntime(t) PROVE FirstTypes'
  BY <1>6 DEF First!NoRuntime, First!Goto, FirstTypes, First!procVars, First!confVars, First!Once
<1>7. ASSUME NEW t \in Threads, First!Unsupported(t) PROVE FirstTypes'
  BY <1>7 DEF First!Unsupported, First!Return, First!Goto, FirstTypes, First!procVars, First!confVars, First!onceVars
<1>8. ASSUME NEW t \in Threads, First!Handle(t) PROVE FirstTypes'
  BY <1>8, ChanType DEF First!Handle, First!Goto, First!AfterHandle, FirstTypes, First!procVars, First!confVars, First!Once
<1>9. ASSUME NEW t \in Threads, First!ReadBrokers(t) PROVE FirstTypes'
  BY <1>9 DEF First!ReadBrokers, First!Goto, FirstTypes, First!procVars, First!confVars, First!onceVars, First!Settings
<1>10. ASSUME NEW t \in Threads, First!OpenSession(t) PROVE FirstTypes'
  <2>1. [brokers |-> got[t], user |-> config["user"]] \in Session
    BY DEF FirstTypes, First!Settings, Session
  <2>2. handle' \in [Channels -> {NoHandle} \cup Session] /\ failures' \in Nat
    BY <1>10, <2>1 DEF First!OpenSession, FirstTypes
  <2>3. got' \in [Threads -> Origins]
    BY <1>10 DEF First!OpenSession, FirstTypes, Origins
  <2> QED
    BY <1>10, <2>2, <2>3 DEF First!OpenSession, First!Goto, FirstTypes, First!confVars, First!Once
<1>11. ASSUME NEW t \in Threads, First!EnsureRegistered(t) PROVE FirstTypes'
  BY <1>11 DEF First!EnsureRegistered, First!Goto, FirstTypes, First!procVars, First!confVars, First!Once
<1>12. ASSUME NEW t \in Threads, First!Register(t) PROVE FirstTypes'
  <2>1. handle[First!Chan(t)] \in {NoHandle} \cup Session
    BY ChanType DEF FirstTypes
  <2>2. cached' \in [FacadeCounters -> {NoHandle} \cup Session] /\ failures' \in Nat
    BY <1>12, <2>1 DEF First!Register, FirstTypes
  <2> QED
    BY <1>12, <2>2 DEF First!Register, First!Goto, FirstTypes, First!confVars, First!Once
<1>13. ASSUME NEW t \in Threads, First!RegisterLogSite(t) PROVE FirstTypes'
  BY <1>13 DEF First!RegisterLogSite, First!Goto, FirstTypes, First!procVars, First!confVars, First!onceVars
<1>14. ASSUME NEW t \in Threads, First!Body(t) PROVE FirstTypes'
  <2>1. First!Usable(call[t].obj, call[t].op) \in BOOLEAN
    BY DEF First!Usable
  <2> QED
    BY <1>14, <2>1 DEF First!Body, First!Return, First!Goto, FirstTypes, First!procVars, First!confVars, First!onceVars
<1> QED
  BY <1>1, <1>2, <1>3, <1>4, <1>5, <1>6, <1>7, <1>8, <1>9, <1>10, <1>11, <1>12, <1>13, <1>14, Zenon
  DEF First!Next, First!Step

\* Who holds which flag, by the place of a thread, and what a flag that is done has left.
Opening == {"fn", "open", "open_user"}

Placed(t) ==
  LET at == place[t]  c == call[t].obj IN
  /\ at \notin {"idle", "configure"} => call[t].op # "none"
  /\ call[t].op # "none" => (c \in FacadeCounters <=> call[t].op \in {"add", "enable"})
  /\ at \in {"counter", "register"} => c \in FacadeCounters
  /\ at = "newsite" => c \notin FacadeCounters
  /\ at \in {"channel", "register"} \cup Opening /\ c \in FacadeCounters => regOnce[c] = t
  /\ at = "fn" /\ c \in FacadeCounters => chOnce[First!Chan(t)] = t
  /\ at \in {"open", "open_user"} => chOnce[First!Chan(t)] = t /\ init = "done" /\ vtable # "none"
  /\ at \in {"register", "newsite"} => chOnce[First!Chan(t)] = "done"
  /\ at = "body" => IF c \in FacadeCounters THEN regOnce[c] = "done" ELSE chOnce[First!Chan(t)] = "done"

Flags ==
  /\ init = "new" => vtable = "none"
  /\ init = "done" => vtable = IF lib \in {"old", "full"} THEN lib ELSE "none"
  /\ \A t \in Threads : Placed(t)
  /\ \A ch \in Channels : chOnce[ch] = "done" => init = "done"
  /\ \A ch \in Channels : chOnce[ch] # "done" => handle[ch] = NoHandle
  /\ \A ch \in Channels, t \in Threads : chOnce[ch] = t => First!Chan(t) = ch /\ place[t] \in Opening
  /\ \A c \in FacadeCounters, t \in Threads :
       regOnce[c] = t => call[t].obj = c /\ place[t] \in {"channel", "register"} \cup Opening
  /\ \A c \in FacadeCounters : regOnce[c] = "done" => chOnce[ChannelOf[c]] = "done"
  /\ \A c \in FacadeCounters : cached[c] # NoHandle => regOnce[c] = "done" /\ cached[c] = handle[ChannelOf[c]]

LEMMA FlagsStep ==
  ASSUME FirstTypes, Flags, First!Next
  PROVE  Flags'
<1>0. \A t \in Threads : First!Chan(t) \in Channels
  BY ChanType
<1>1. ASSUME NEW t \in Threads, NEW op \in {"add", "enable", "log", "flush"},
             NEW c \in FacadeCounters \cup {"none"}, First!Call(t, op, c)
      PROVE  Flags'
  BY <1>0, <1>1, FacadeNames DEF First!Call, First!Goto, FirstTypes, Flags, Placed, Opening, First!Chan, First!procVars, First!confVars, First!onceVars
<1>2. ASSUME NEW t \in Threads, First!ConfigureBrokers(t) PROVE Flags'
  BY <1>2 DEF First!ConfigureBrokers, First!Goto, FirstTypes, Flags, Placed, Opening, First!Chan, First!procVars, First!onceVars
<1>3. ASSUME NEW t \in Threads, First!ConfigureUser(t) PROVE Flags'
  BY <1>3 DEF First!ConfigureUser, First!Goto, FirstTypes, Flags, Placed, Opening, First!Chan, First!procVars, First!onceVars
<1>4. ASSUME NEW t \in Threads, First!InitOnce(t) PROVE Flags'
  BY <1>4 DEF First!InitOnce, First!Goto, FirstTypes, Flags, Placed, Opening, First!Chan, First!procVars
<1>5. ASSUME NEW t \in Threads, First!Fn(t) PROVE Flags'
  BY <1>5, FacadeNames DEF First!Fn, First!Goto, FirstTypes, Flags, Placed, Opening, First!Chan, First!procVars, First!confVars, First!onceVars
<1>6. ASSUME NEW t \in Threads, First!NoRuntime(t) PROVE Flags'
  BY <1>0, <1>6, FacadeNames DEF First!NoRuntime, First!Goto, FirstTypes, Flags, Placed, Opening, First!Chan, First!procVars, First!confVars
<1>7. ASSUME NEW t \in Threads, First!Unsupported(t) PROVE Flags'
  BY <1>7, FacadeNames DEF First!Unsupported, First!Return, First!Goto, FirstTypes, Flags, Placed, Opening, First!Chan, First!procVars, First!confVars, First!onceVars
<1>8. ASSUME NEW t \in Threads, First!Handle(t) PROVE Flags'
  BY <1>0, <1>8, FacadeNames DEF First!Handle, First!Goto, First!AfterHandle, FirstTypes, Flags, Placed, Opening, First!Chan, First!procVars, First!confVars
<1>9. ASSUME NEW t \in Threads, First!ReadBrokers(t) PROVE Flags'
  BY <1>9 DEF First!ReadBrokers, First!Goto, FirstTypes, Flags, Placed, Opening, First!Chan, First!procVars, First!confVars, First!onceVars
<1>10. ASSUME NEW t \in Threads, First!OpenSession(t) PROVE Flags'
  BY <1>0, <1>10, FacadeNames DEF First!OpenSession, First!Goto, FirstTypes, Flags, Placed, Opening, First!Chan, First!confVars
<1>11. ASSUME NEW t \in Threads, First!EnsureRegistered(t) PROVE Flags'
  BY <1>11, FacadeNames DEF First!EnsureRegistered, First!Goto, FirstTypes, Flags, Placed, Opening, First!Chan, First!procVars, First!confVars
<1>12. ASSUME NEW t \in Threads, First!Register(t) PROVE Flags'
  BY <1>0, <1>12, FacadeNames DEF First!Register, First!Goto, FirstTypes, Flags, Placed, Opening, First!Chan, First!confVars
<1>13. ASSUME NEW t \in Threads, First!RegisterLogSite(t) PROVE Flags'
  BY <1>13 DEF First!RegisterLogSite, First!Goto, FirstTypes, Flags, Placed, Opening, First!Chan, First!procVars, First!confVars, First!onceVars
<1>14. ASSUME NEW t \in Threads, First!Body(t) PROVE Flags'
  BY <1>14 DEF First!Body, First!Return, First!Goto, FirstTypes, Flags, Placed, Opening, First!Chan, First!procVars, First!confVars, First!onceVars
<1> QED
  BY <1>1, <1>2, <1>3, <1>4, <1>5, <1>6, <1>7, <1>8, <1>9, <1>10, <1>11, <1>12, <1>13, <1>14, Zenon
  DEF First!Next, First!Step

\* The calls that are over: what the runtime was given, or why it was not.
Answered(t) ==
  LET c == call[t].obj  op == call[t].op IN
  place[t] \in {"idle", "configure"} /\ op # "none" =>
    /\ init = "done"
    /\ ~First!Supported(op) => ~passed[t]
    /\ First!Supported(op) /\ c \in FacadeCounters =>
         regOnce[c] = "done" /\ (passed[t] <=> cached[c] # NoHandle)
    /\ First!Supported(op) /\ c \notin FacadeCounters =>
         chOnce[DefaultChannel] = "done" /\ (passed[t] <=> handle[DefaultChannel] # NoHandle)

Answers == \A t \in Threads : Answered(t)

\* the benign 1 of a call site
Sites1 ==
  site = "sentinel" => lib # "full" \/ (chOnce[DefaultChannel] = "done" /\ handle[DefaultChannel] = NoHandle)

LEMMA AnswersStep ==
  ASSUME FirstTypes, Flags, Answers, First!Next
  PROVE  Answers'
<1>0. \A t \in Threads : First!Chan(t) \in Channels
  BY ChanType
<1>1. ASSUME NEW t \in Threads, NEW op \in {"add", "enable", "log", "flush"},
             NEW c \in FacadeCounters \cup {"none"}, First!Call(t, op, c)
      PROVE  Answers'
  BY <1>0, <1>1, FacadeNames
  DEF First!Call, First!Goto, FirstTypes, Flags, Placed, Opening, Answers, Answered, First!Chan, First!Supported, First!procVars, First!confVars, First!onceVars
<1>2. ASSUME NEW t \in Threads, First!ConfigureBrokers(t) PROVE Answers'
  BY <1>0, <1>2, FacadeNames
  DEF First!ConfigureBrokers, First!Goto, FirstTypes, Flags, Placed, Opening, Answers, Answered, First!Chan, First!Supported, First!procVars, First!onceVars
<1>3. ASSUME NEW t \in Threads, First!ConfigureUser(t) PROVE Answers'
  BY <1>0, <1>3, FacadeNames
  DEF First!ConfigureUser, First!Goto, FirstTypes, Flags, Placed, Opening, Answers, Answered, First!Chan, First!Supported, First!procVars, First!onceVars
<1>4. ASSUME NEW t \in Threads, First!InitOnce(t) PROVE Answers'
  BY <1>0, <1>4, FacadeNames
  DEF First!InitOnce, First!Goto, FirstTypes, Flags, Placed, Opening, Answers, Answered, First!Chan, First!Supported, First!procVars
<1>5. ASSUME NEW t \in Threads, First!Fn(t) PROVE Answers'
  BY <1>0, <1>5, FacadeNames
  DEF First!Fn, First!Goto, FirstTypes, Flags, Placed, Opening, Answers, Answered, First!Chan, First!Supported, First!procVars, First!confVars, First!onceVars
<1>6. ASSUME NEW t \in Threads, First!NoRuntime(t) PROVE Answers'
  BY <1>0, <1>6, FacadeNames
  DEF First!NoRuntime, First!Goto, FirstTypes, Flags, Placed, Opening, Answers, Answered, First!Chan, First!Supported, First!procVars, First!confVars
<1>7. ASSUME NEW t \in Threads, First!Unsupported(t) PROVE Answers'
  BY <1>0, <1>7, FacadeNames
  DEF First!Unsupported, First!Goto, First!Return, FirstTypes, Flags, Placed, Opening, Answers, Answered, First!Chan, First!Supported, First!procVars, First!confVars, First!onceVars
<1>8. ASSUME NEW t \in Threads, First!Handle(t) PROVE Answers'
  BY <1>0, <1>8, FacadeNames
  DEF First!Handle, First!Goto, First!AfterHandle, FirstTypes, Flags, Placed, Opening, Answers, Answered, First!Chan, First!Supported, First!procVars, First!confVars
<1>9. ASSUME NEW t \in Threads, First!ReadBrokers(t) PROVE Answers'
  BY <1>0, <1>9, FacadeNames
  DEF First!ReadBrokers, First!Goto, FirstTypes, Flags, Placed, Opening, Answers, Answered, First!Chan, First!Supported, First!procVars, First!confVars, First!onceVars
<1>10. ASSUME NEW t \in Threads, First!OpenSession(t) PROVE Answers'
  BY <1>0, <1>10, FacadeNames
  DEF First!OpenSession, First!Goto, FirstTypes, Flags, Placed, Opening, Answers, Answered, First!Chan, First!Supported, First!confVars
<1>11. ASSUME NEW t \in Threads, First!EnsureRegistered(t) PROVE Answers'
  BY <1>0, <1>11, FacadeNames
  DEF First!EnsureRegistered, First!Goto, FirstTypes, Flags, Placed, Opening, Answers, Answered, First!Chan, First!Supported, First!procVars, First!confVars
<1>12. ASSUME NEW t \in Threads, First!Register(t) PROVE Answers'
  BY <1>0, <1>12, FacadeNames
  DEF First!Register, First!Goto, FirstTypes, Flags, Placed, Opening, Answers, Answered, First!Chan, First!Supported, First!confVars
<1>13. ASSUME NEW t \in Threads, First!RegisterLogSite(t) PROVE Answers'
  BY <1>0, <1>13, FacadeNames
  DEF First!RegisterLogSite, First!Goto, FirstTypes, Flags, Placed, Opening, Answers, Answered, First!Chan, First!Supported, First!procVars, First!confVars, First!onceVars
<1>14. ASSUME NEW t \in Threads, First!Body(t) PROVE Answers'
  <2> DEFINE c == call[t].obj
             op == call[t].op
             usable == First!Usable(c, op)
  <2>1. /\ place[t] = "body" /\ place' = [place EXCEPT ![t] = "idle"] /\ passed' = [passed EXCEPT ![t] = usable]
        /\ UNCHANGED <<call, init, vtable, chOnce, handle, regOnce, cached>>
    BY <1>14 DEF First!Body, First!Return, First!Goto, First!onceVars
  <2>2. usable \in BOOLEAN /\ (usable <=> First!Supported(op) /\ (IF c \in FacadeCounters THEN cached[c] ELSE handle[DefaultChannel]) # NoHandle)
    BY Zenon DEF First!Usable
  <2>3. /\ op # "none" /\ init = "done"
        /\ c \in FacadeCounters => regOnce[c] = "done"
        /\ c \notin FacadeCounters => chOnce[DefaultChannel] = "done"
    BY <1>0, <2>1, FacadeNames DEF Flags, Placed, First!Chan, FirstTypes
  <2> HIDE DEF usable
  <2>4. (passed'[t] <=> usable) /\ \A u \in Threads : u # t => passed'[u] = passed[u] /\ place'[u] = place[u]
    BY <2>1, <2>2 DEF FirstTypes
  <2>5. ASSUME NEW u \in Threads PROVE Answered(u)'
    <3>1. CASE u = t
      BY <2>1, <2>2, <2>3, <2>4, <3>1 DEF Answered, First!Supported
    <3>2. CASE u # t
      BY <2>1, <2>4, <3>2 DEF Answers, Answered, First!Supported
    <3> QED
      BY <3>1, <3>2
  <2> QED
    BY <2>5 DEF Answers
<1> QED
  BY <1>1, <1>2, <1>3, <1>4, <1>5, <1>6, <1>7, <1>8, <1>9, <1>10, <1>11, <1>12, <1>13, <1>14, Zenon
  DEF First!Next, First!Step

LEMMA SitesStep ==
  ASSUME FirstTypes, Flags, Sites1, First!Next
  PROVE  Sites1'
<1>0. \A t \in Threads : First!Chan(t) \in Channels
  BY ChanType
<1>1. ASSUME NEW t \in Threads, NEW op \in {"add", "enable", "log", "flush"},
             NEW c \in FacadeCounters \cup {"none"}, First!Call(t, op, c)
      PROVE  Sites1'
  BY <1>0, <1>1, FacadeNames
  DEF First!Call, First!Goto, FirstTypes, Flags, Placed, Opening, Sites1, First!Chan, First!Supported, First!procVars, First!confVars, First!onceVars
<1>2. ASSUME NEW t \in Threads, First!ConfigureBrokers(t) PROVE Sites1'
  BY <1>0, <1>2, FacadeNames
  DEF First!ConfigureBrokers, First!Goto, FirstTypes, Flags, Placed, Opening, Sites1, First!Chan, First!Supported, First!procVars, First!onceVars
<1>3. ASSUME NEW t \in Threads, First!ConfigureUser(t) PROVE Sites1'
  BY <1>0, <1>3, FacadeNames
  DEF First!ConfigureUser, First!Goto, FirstTypes, Flags, Placed, Opening, Sites1, First!Chan, First!Supported, First!procVars, First!onceVars
<1>4. ASSUME NEW t \in Threads, First!InitOnce(t) PROVE Sites1'
  BY <1>0, <1>4, FacadeNames
  DEF First!InitOnce, First!Goto, FirstTypes, Flags, Placed, Opening, Sites1, First!Chan, First!Supported, First!procVars
<1>5. ASSUME NEW t \in Threads, First!Fn(t) PROVE Sites1'
  BY <1>0, <1>5, FacadeNames
  DEF First!Fn, First!Goto, FirstTypes, Flags, Placed, Opening, Sites1, First!Chan, First!Supported, First!procVars, First!confVars, First!onceVars
<1>6. ASSUME NEW t \in Threads, First!NoRuntime(t) PROVE Sites1'
  BY <1>0, <1>6, FacadeNames
  DEF First!NoRuntime, First!Goto, FirstTypes, Flags, Placed, Opening, Sites1, First!Chan, First!Supported, First!procVars, First!confVars
<1>7. ASSUME NEW t \in Threads, First!Unsupported(t) PROVE Sites1'
  BY <1>0, <1>7, FacadeNames
  DEF First!Unsupported, First!Goto, First!Return, FirstTypes, Flags, Placed, Opening, Sites1, First!Chan, First!Supported, First!procVars, First!confVars, First!onceVars
<1>8. ASSUME NEW t \in Threads, First!Handle(t) PROVE Sites1'
  BY <1>0, <1>8, FacadeNames
  DEF First!Handle, First!Goto, First!AfterHandle, FirstTypes, Flags, Placed, Opening, Sites1, First!Chan, First!Supported, First!procVars, First!confVars
<1>9. ASSUME NEW t \in Threads, First!ReadBrokers(t) PROVE Sites1'
  BY <1>0, <1>9, FacadeNames
  DEF First!ReadBrokers, First!Goto, FirstTypes, Flags, Placed, Opening, Sites1, First!Chan, First!Supported, First!procVars, First!confVars, First!onceVars
<1>10. ASSUME NEW t \in Threads, First!OpenSession(t) PROVE Sites1'
  BY <1>0, <1>10, FacadeNames
  DEF First!OpenSession, First!Goto, FirstTypes, Flags, Placed, Opening, Sites1, First!Chan, First!Supported, First!confVars
<1>11. ASSUME NEW t \in Threads, First!EnsureRegistered(t) PROVE Sites1'
  BY <1>0, <1>11, FacadeNames
  DEF First!EnsureRegistered, First!Goto, FirstTypes, Flags, Placed, Opening, Sites1, First!Chan, First!Supported, First!procVars, First!confVars
<1>12. ASSUME NEW t \in Threads, First!Register(t) PROVE Sites1'
  BY <1>0, <1>12, FacadeNames
  DEF First!Register, First!Goto, FirstTypes, Flags, Placed, Opening, Sites1, First!Chan, First!Supported, First!confVars
<1>13. ASSUME NEW t \in Threads, First!RegisterLogSite(t) PROVE Sites1'
  BY <1>0, <1>13, FacadeNames
  DEF First!RegisterLogSite, First!Goto, FirstTypes, Flags, Placed, Opening, Sites1, First!Chan, First!Supported, First!procVars, First!confVars, First!onceVars
<1>14. ASSUME NEW t \in Threads, First!Body(t) PROVE Sites1'
  BY <1>0, <1>14, FacadeNames
  DEF First!Body, First!Goto, First!Return, FirstTypes, Flags, Placed, Opening, Sites1, First!Chan, First!Supported, First!procVars, First!confVars, First!onceVars
<1> QED
  BY <1>1, <1>2, <1>3, <1>4, <1>5, <1>6, <1>7, <1>8, <1>9, <1>10, <1>11, <1>12, <1>13, <1>14, Zenon
  DEF First!Next, First!Step

\* What was resolved, and what a session was opened with.
ResolvedTo(f) == IF f \in env THEN "env" ELSE IF f \in args THEN "args" ELSE "default"

\* Configure was not called, or was too late for the brokers
Unset == ~given /\ config["brokers"] # "given"

ConfigSet ==
  /\ \A t, u \in Threads : place[t] = "configure" /\ place[u] = "configure" => t = u
  /\ given => \A t \in Threads : place[t] # "configure"
  /\ early => given
  /\ init = "new" => config["user"] \in {"default", "given"} /\ config["brokers"] \in {"default", "given"}
  /\ init = "new" /\ ~given => config["user"] = "default"
  /\ \A t \in Threads : place[t] = "configure" /\ init = "new" => config["brokers"] = "given"
  /\ init = "done" /\ Unset => \A f \in First!Settings : config[f] = ResolvedTo(f)

OpenedWith ==
  /\ early => /\ config["brokers"] = "given" /\ config["user"] \in {"given", "default"}
              /\ \A t \in Threads : place[t] = "open_user" => got[t] = "given"
              /\ \A ch \in Channels : handle[ch] # NoHandle =>
                   handle[ch]["brokers"] = "given" /\ handle[ch]["user"] \in {"given", "default"}
  /\ Unset => /\ \A t \in Threads : place[t] = "open_user" => got[t] = ResolvedTo("brokers")
              /\ \A ch \in Channels : handle[ch] # NoHandle =>
                   \A f \in First!Settings : handle[ch][f] = ResolvedTo(f)

LEMMA ConfigStep ==
  ASSUME FirstTypes, Flags, ConfigSet, First!Next
  PROVE  ConfigSet'
<1>0. \A t \in Threads : First!Chan(t) \in Channels
  BY ChanType
<1>1. ASSUME NEW t \in Threads, NEW op \in {"add", "enable", "log", "flush"},
             NEW c \in FacadeCounters \cup {"none"}, First!Call(t, op, c)
      PROVE  ConfigSet'
  BY <1>1, FacadeNames
  DEF First!Call, First!Goto, FirstTypes, ConfigSet, Unset, ResolvedTo, First!Settings, First!Resolved, First!procVars, First!confVars, First!onceVars
<1>2. ASSUME NEW t \in Threads, First!ConfigureBrokers(t) PROVE ConfigSet'
  BY <1>2, FacadeNames
  DEF First!ConfigureBrokers, First!Goto, FirstTypes, ConfigSet, Unset, ResolvedTo, First!Settings, First!Resolved, First!procVars, First!onceVars
<1>3. ASSUME NEW t \in Threads, First!ConfigureUser(t) PROVE ConfigSet'
  BY <1>3, FacadeNames
  DEF First!ConfigureUser, First!Goto, FirstTypes, ConfigSet, Unset, ResolvedTo, First!Settings, First!Resolved, First!procVars, First!onceVars
<1>4. ASSUME NEW t \in Threads, First!InitOnce(t) PROVE ConfigSet'
  BY <1>4, FacadeNames
  DEF First!InitOnce, First!Goto, FirstTypes, ConfigSet, Unset, ResolvedTo, First!Settings, First!Resolved, First!procVars
<1>5. ASSUME NEW t \in Threads, First!Fn(t) PROVE ConfigSet'
  BY <1>5, FacadeNames
  DEF First!Fn, First!Goto, FirstTypes, ConfigSet, Unset, ResolvedTo, First!Settings, First!Resolved, First!procVars, First!confVars, First!onceVars
<1>6. ASSUME NEW t \in Threads, First!NoRuntime(t) PROVE ConfigSet'
  BY <1>6, FacadeNames
  DEF First!NoRuntime, First!Goto, FirstTypes, ConfigSet, Unset, ResolvedTo, First!Settings, First!Resolved, First!procVars, First!confVars
<1>7. ASSUME NEW t \in Threads, First!Unsupported(t) PROVE ConfigSet'
  BY <1>7, FacadeNames
  DEF First!Unsupported, First!Goto, First!Return, FirstTypes, ConfigSet, Unset, ResolvedTo, First!Settings, First!Resolved, First!procVars, First!confVars, First!onceVars
<1>8. ASSUME NEW t \in Threads, First!Handle(t) PROVE ConfigSet'
  BY <1>8, FacadeNames
  DEF First!Handle, First!Goto, First!AfterHandle, FirstTypes, ConfigSet, Unset, ResolvedTo, First!Settings, First!Resolved, First!procVars, First!confVars
<1>9. ASSUME NEW t \in Threads, First!ReadBrokers(t) PROVE ConfigSet'
  BY <1>9, FacadeNames
  DEF First!ReadBrokers, First!Goto, FirstTypes, ConfigSet, Unset, ResolvedTo, First!Settings, First!Resolved, First!procVars, First!confVars, First!onceVars
<1>10. ASSUME NEW t \in Threads, First!OpenSession(t) PROVE ConfigSet'
  BY <1>10, FacadeNames
  DEF First!OpenSession, First!Goto, FirstTypes, ConfigSet, Unset, ResolvedTo, First!Settings, First!Resolved, First!confVars
<1>11. ASSUME NEW t \in Threads, First!EnsureRegistered(t) PROVE ConfigSet'
  BY <1>11, FacadeNames
  DEF First!EnsureRegistered, First!Goto, FirstTypes, ConfigSet, Unset, ResolvedTo, First!Settings, First!Resolved, First!procVars, First!confVars
<1>12. ASSUME NEW t \in Threads, First!Register(t) PROVE ConfigSet'
  BY <1>12, FacadeNames
  DEF First!Register, First!Goto, FirstTypes, ConfigSet, Unset, ResolvedTo, First!Settings, First!Resolved, First!confVars
<1>13. ASSUME NEW t \in Threads, First!RegisterLogSite(t) PROVE ConfigSet'
  BY <1>13, FacadeNames
  DEF First!RegisterLogSite, First!Goto, FirstTypes, ConfigSet, Unset, ResolvedTo, First!Settings, First!Resolved, First!procVars, First!confVars, First!onceVars
<1>14. ASSUME NEW t \in Threads, First!Body(t) PROVE ConfigSet'
  BY <1>14, FacadeNames
  DEF First!Body, First!Goto, First!Return, FirstTypes, ConfigSet, Unset, ResolvedTo, First!Settings, First!Resolved, First!procVars, First!confVars, First!onceVars
<1> QED
  BY <1>1, <1>2, <1>3, <1>4, <1>5, <1>6, <1>7, <1>8, <1>9, <1>10, <1>11, <1>12, <1>13, <1>14, Zenon
  DEF First!Next, First!Step

LEMMA OpenedStep ==
  ASSUME FirstTypes, Flags, ConfigSet, OpenedWith, First!Next
  PROVE  OpenedWith'
<1>0. \A t \in Threads : First!Chan(t) \in Channels
  BY ChanType
<1>1. ASSUME NEW t \in Threads, NEW op \in {"add", "enable", "log", "flush"},
             NEW c \in FacadeCounters \cup {"none"}, First!Call(t, op, c)
      PROVE  OpenedWith'
  BY <1>0, <1>1, FacadeNames
  DEF First!Call, First!Goto, FirstTypes, Flags, Placed, Opening, ConfigSet, OpenedWith, Unset, ResolvedTo, First!Settings, First!Resolved, First!procVars, First!confVars, First!onceVars
<1>2. ASSUME NEW t \in Threads, First!ConfigureBrokers(t) PROVE OpenedWith'
  BY <1>0, <1>2, FacadeNames
  DEF First!ConfigureBrokers, First!Goto, FirstTypes, Flags, Placed, Opening, ConfigSet, OpenedWith, Unset, ResolvedTo, First!Settings, First!Resolved, First!procVars, First!onceVars
<1>3. ASSUME NEW t \in Threads, First!ConfigureUser(t) PROVE OpenedWith'
  BY <1>0, <1>3, FacadeNames
  DEF First!ConfigureUser, First!Goto, FirstTypes, Flags, Placed, Opening, ConfigSet, OpenedWith, Unset, ResolvedTo, First!Settings, First!Resolved, First!procVars, First!onceVars
<1>4. ASSUME NEW t \in Threads, First!InitOnce(t) PROVE OpenedWith'
  BY <1>0, <1>4, FacadeNames
  DEF First!InitOnce, First!Goto, FirstTypes, Flags, Placed, Opening, ConfigSet, OpenedWith, Unset, ResolvedTo, First!Settings, First!Resolved, First!procVars
<1>5. ASSUME NEW t \in Threads, First!Fn(t) PROVE OpenedWith'
  BY <1>0, <1>5, FacadeNames
  DEF First!Fn, First!Goto, FirstTypes, Flags, Placed, Opening, ConfigSet, OpenedWith, Unset, ResolvedTo, First!Settings, First!Resolved, First!procVars, First!confVars, First!onceVars
<1>6. ASSUME NEW t \in Threads, First!NoRuntime(t) PROVE OpenedWith'
  BY <1>0, <1>6, FacadeNames
  DEF First!NoRuntime, First!Goto, FirstTypes, Flags, Placed, Opening, ConfigSet, OpenedWith, Unset, ResolvedTo, First!Settings, First!Resolved, First!procVars, First!confVars
<1>7. ASSUME NEW t \in Threads, First!Unsupported(t) PROVE OpenedWith'
  BY <1>0, <1>7, FacadeNames
  DEF First!Unsupported, First!Goto, First!Return, FirstTypes, Flags, Placed, Opening, ConfigSet, OpenedWith, Unset, ResolvedTo, First!Settings, First!Resolved, First!procVars, First!confVars, First!onceVars
<1>8. ASSUME NEW t \in Threads, First!Handle(t) PROVE OpenedWith'
  BY <1>0, <1>8, FacadeNames
  DEF First!Handle, First!Goto, First!AfterHandle, FirstTypes, Flags, Placed, Opening, ConfigSet, OpenedWith, Unset, ResolvedTo, First!Settings, First!Resolved, First!procVars, First!confVars
<1>9. ASSUME NEW t \in Threads, First!ReadBrokers(t) PROVE OpenedWith'
  BY <1>0, <1>9, FacadeNames
  DEF First!ReadBrokers, First!Goto, FirstTypes, Flags, Placed, Opening, ConfigSet, OpenedWith, Unset, ResolvedTo, First!Settings, First!Resolved, First!procVars, First!confVars, First!onceVars
<1>10. ASSUME NEW t \in Threads, First!OpenSession(t) PROVE OpenedWith'
  BY <1>0, <1>10, FacadeNames
  DEF First!OpenSession, First!Goto, FirstTypes, Flags, Placed, Opening, ConfigSet, OpenedWith, Unset, ResolvedTo, First!Settings, First!Resolved, First!confVars
<1>11. ASSUME NEW t \in Threads, First!EnsureRegistered(t) PROVE OpenedWith'
  BY <1>0, <1>11, FacadeNames
  DEF First!EnsureRegistered, First!Goto, FirstTypes, Flags, Placed, Opening, ConfigSet, OpenedWith, Unset, ResolvedTo, First!Settings, First!Resolved, First!procVars, First!confVars
<1>12. ASSUME NEW t \in Threads, First!Register(t) PROVE OpenedWith'
  BY <1>0, <1>12, FacadeNames
  DEF First!Register, First!Goto, FirstTypes, Flags, Placed, Opening, ConfigSet, OpenedWith, Unset, ResolvedTo, First!Settings, First!Resolved, First!confVars
<1>13. ASSUME NEW t \in Threads, First!RegisterLogSite(t) PROVE OpenedWith'
  BY <1>0, <1>13, FacadeNames
  DEF First!RegisterLogSite, First!Goto, FirstTypes, Flags, Placed, Opening, ConfigSet, OpenedWith, Unset, ResolvedTo, First!Settings, First!Resolved, First!procVars, First!confVars, First!onceVars
<1>14. ASSUME NEW t \in Threads, First!Body(t) PROVE OpenedWith'
  BY <1>0, <1>14, FacadeNames
  DEF First!Body, First!Goto, First!Return, FirstTypes, Flags, Placed, Opening, ConfigSet, OpenedWith, Unset, ResolvedTo, First!Settings, First!Resolved, First!procVars, First!confVars, First!onceVars
<1> QED
  BY <1>1, <1>2, <1>3, <1>4, <1>5, <1>6, <1>7, <1>8, <1>9, <1>10, <1>11, <1>12, <1>13, <1>14, Zenon
  DEF First!Next, First!Step


\* What the runtime refused is counted.
RefusedChannels == {ch \in Channels : chOnce[ch] = "done" /\ vtable # "none" /\ handle[ch] = NoHandle}

RefusedCounters ==
  {c \in FacadeCounters : /\ regOnce[c] = "done" /\ handle[ChannelOf[c]] # NoHandle
                          /\ First!Registers(c) /\ cached[c] = NoHandle}

\* a step refuses nothing, or one more
Refuses ==
  \/ failures' = failures /\ RefusedChannels' = RefusedChannels /\ RefusedCounters' = RefusedCounters
  \/ /\ failures' = failures + 1 /\ RefusedCounters' = RefusedCounters
     /\ \E ch \in Channels \ RefusedChannels : RefusedChannels' = RefusedChannels \cup {ch}
  \/ /\ failures' = failures + 1 /\ RefusedChannels' = RefusedChannels
     /\ \E c \in FacadeCounters \ RefusedCounters : RefusedCounters' = RefusedCounters \cup {c}

LEMMA RefusesOne ==
  ASSUME FirstTypes, Flags, First!Next
  PROVE  Refuses
<1>0. \A t \in Threads : First!Chan(t) \in Channels
  BY ChanType
<1>a. ASSUME failures' = failures, UNCHANGED <<vtable, chOnce, handle, regOnce, cached>> PROVE Refuses
  BY <1>a DEF Refuses, RefusedChannels, RefusedCounters, First!Registers
<1>1. ASSUME NEW t \in Threads, NEW op \in {"add", "enable", "log", "flush"},
             NEW c \in FacadeCounters \cup {"none"}, First!Call(t, op, c)
      PROVE  Refuses
  BY <1>a, <1>1 DEF First!Call, First!Goto, First!procVars, First!confVars, First!onceVars
<1>2. ASSUME NEW t \in Threads, First!ConfigureBrokers(t) PROVE Refuses
  BY <1>a, <1>2 DEF First!ConfigureBrokers, First!Goto, First!procVars, First!onceVars
<1>3. ASSUME NEW t \in Threads, First!ConfigureUser(t) PROVE Refuses
  BY <1>a, <1>3 DEF First!ConfigureUser, First!Goto, First!procVars, First!onceVars
<1>4. ASSUME NEW t \in Threads, First!InitOnce(t) PROVE Refuses
  BY <1>0, <1>4, FacadeNames
  DEF First!InitOnce, First!Goto, First!procVars, FirstTypes, Flags, Placed, Opening, Refuses, RefusedChannels, RefusedCounters, First!Registers, First!Chan
<1>5. ASSUME NEW t \in Threads, First!Fn(t) PROVE Refuses
  BY <1>a, <1>5 DEF First!Fn, First!Goto, First!procVars, First!confVars, First!onceVars
<1>6. ASSUME NEW t \in Threads, First!NoRuntime(t) PROVE Refuses
  BY <1>0, <1>6, FacadeNames
  DEF First!NoRuntime, First!Goto, First!procVars, First!confVars, FirstTypes, Flags, Placed, Opening, Refuses, RefusedChannels, RefusedCounters, First!Registers, First!Chan
<1>7. ASSUME NEW t \in Threads, First!Unsupported(t) PROVE Refuses
  BY <1>a, <1>7 DEF First!Unsupported, First!Goto, First!Return, First!procVars, First!confVars, First!onceVars
<1>8. ASSUME NEW t \in Threads, First!Handle(t) PROVE Refuses
  BY <1>0, <1>8, FacadeNames
  DEF First!Handle, First!Goto, First!procVars, First!confVars, FirstTypes, Flags, Placed, Opening, Refuses, RefusedChannels, RefusedCounters, First!Registers, First!Chan
<1>9. ASSUME NEW t \in Threads, First!ReadBrokers(t) PROVE Refuses
  BY <1>a, <1>9 DEF First!ReadBrokers, First!Goto, First!procVars, First!confVars, First!onceVars
<1>10. ASSUME NEW t \in Threads, First!OpenSession(t) PROVE Refuses
  <2> DEFINE ch == First!Chan(t)
             session == [brokers |-> got[t], user |-> config["user"]]
  <2>1. /\ place[t] = "open_user" /\ chOnce' = [chOnce EXCEPT ![ch] = "done"]
        /\ UNCHANGED <<vtable, regOnce, cached>>
        /\ \/ handle' = [handle EXCEPT ![ch] = session] /\ failures' = failures
           \/ handle' = handle /\ failures' = failures + 1
    BY <1>10 DEF First!OpenSession, First!Goto
  <2>2. ch \in Channels /\ chOnce[ch] = t /\ vtable # "none"
    BY <1>0, <2>1 DEF Flags, Placed
  <2>3. session \in Session /\ session # NoHandle
    <3>1. session \in Session
      BY DEF FirstTypes, First!Settings, Session
    <3> QED
      BY <3>1, FacadeNames
  <2>4. handle[ch] = NoHandle /\ ch \notin RefusedChannels
    BY <2>2, FacadeNames DEF Flags, RefusedChannels
  <2>5. \A c \in FacadeCounters : ChannelOf[c] = ch => regOnce[c] # "done"
    BY <2>2, FacadeNames DEF Flags
  <2> HIDE DEF ch, session
  <2>6. CASE handle' = [handle EXCEPT ![ch] = session] /\ failures' = failures
    <3>1. \A x \in Channels : handle'[x] = (IF x = ch THEN session ELSE handle[x])
                              /\ chOnce'[x] = (IF x = ch THEN "done" ELSE chOnce[x])
      BY <2>1, <2>2, <2>6 DEF FirstTypes
    <3>2. RefusedChannels' = RefusedChannels
      BY <2>1, <2>3, <2>4, <3>1 DEF RefusedChannels
    <3>3. \A c \in FacadeCounters : c \in RefusedCounters' <=> c \in RefusedCounters
      BY <2>1, <2>5, <3>1, FacadeNames DEF RefusedCounters, First!Registers
    <3>4. RefusedCounters' = RefusedCounters
      BY <3>3 DEF RefusedCounters
    <3> QED
      BY <2>6, <3>2, <3>4 DEF Refuses
  <2>7. CASE handle' = handle /\ failures' = failures + 1
    <3>1. \A x \in Channels : chOnce'[x] = (IF x = ch THEN "done" ELSE chOnce[x])
      BY <2>1, <2>2 DEF FirstTypes
    <3>2. RefusedChannels' = RefusedChannels \cup {ch}
      BY <2>1, <2>2, <2>4, <2>7, <3>1 DEF RefusedChannels
    <3>3. RefusedCounters' = RefusedCounters
      BY <2>1, <2>7 DEF RefusedCounters, First!Registers
    <3> QED
      BY <2>2, <2>4, <2>7, <3>2, <3>3 DEF Refuses
  <2> QED
    BY <2>1, <2>6, <2>7
<1>11. ASSUME NEW t \in Threads, First!EnsureRegistered(t) PROVE Refuses
  BY <1>0, <1>11, FacadeNames
  DEF First!EnsureRegistered, First!Goto, First!procVars, First!confVars, FirstTypes, Flags, Placed, Opening, Refuses, RefusedChannels, RefusedCounters, First!Registers, First!Chan
<1>12. ASSUME NEW t \in Threads, First!Register(t) PROVE Refuses
  BY <1>0, <1>12, FacadeNames
  DEF First!Register, First!Goto, First!confVars, FirstTypes, Flags, Placed, Opening, Refuses, RefusedChannels, RefusedCounters, First!Registers, First!Chan
<1>13. ASSUME NEW t \in Threads, First!RegisterLogSite(t) PROVE Refuses
  BY <1>a, <1>13 DEF First!RegisterLogSite, First!Goto, First!procVars, First!confVars, First!onceVars
<1>14. ASSUME NEW t \in Threads, First!Body(t) PROVE Refuses
  BY <1>a, <1>14 DEF First!Body, First!Goto, First!Return, First!procVars, First!confVars, First!onceVars
<1> QED
  BY <1>1, <1>2, <1>3, <1>4, <1>5, <1>6, <1>7, <1>8, <1>9, <1>10, <1>11, <1>12, <1>13, <1>14, Zenon
  DEF First!Next, First!Step

LEMMA SameFacadeCardinality == ASSUME NEW s PROVE First!Cardinality(s) = Cardinality(s)
  BY Zenon DEF First!Cardinality, Cardinality

LEMMA RefusedIs == First!Refused = RefusedChannels \cup RefusedCounters
BY Zenon DEF First!Refused, RefusedChannels, RefusedCounters

LEMMA RefusedFinite ==
  /\ RefusedChannels \subseteq Channels /\ RefusedCounters \subseteq FacadeCounters
  /\ IsFiniteSet(RefusedChannels \cup RefusedCounters)
<1>1. RefusedChannels \subseteq Channels /\ RefusedCounters \subseteq FacadeCounters
  BY DEF RefusedChannels, RefusedCounters
<1>2. IsFiniteSet(RefusedChannels) /\ IsFiniteSet(RefusedCounters)
  BY <1>1, FacadeNames, FS_Subset
<1> QED
  BY <1>1, <1>2, FS_Union

\* failures are counted
CountOK == failures = Cardinality(RefusedChannels \cup RefusedCounters)

LEMMA CountStep ==
  ASSUME FirstTypes, Flags, CountOK, First!Next
  PROVE  CountOK'
<1> DEFINE S == RefusedChannels \cup RefusedCounters
<1>1. Refuses
  BY RefusesOne
<1>2. IsFiniteSet(S) /\ RefusedChannels \subseteq Channels /\ RefusedCounters \subseteq FacadeCounters
  BY RefusedFinite
<1>3. CASE failures' = failures /\ S' = S
  BY <1>3 DEF CountOK
<1>4. ASSUME NEW x, x \notin S, S' = S \cup {x}, failures' = failures + 1
      PROVE  CountOK'
  BY <1>2, <1>4, FS_AddElement DEF CountOK
<1>5. CASE failures' = failures /\ RefusedChannels' = RefusedChannels /\ RefusedCounters' = RefusedCounters
  BY <1>3, <1>5
<1>6. ASSUME failures' = failures + 1, RefusedCounters' = RefusedCounters,
             NEW ch \in Channels \ RefusedChannels, RefusedChannels' = RefusedChannels \cup {ch}
      PROVE  CountOK'
  <2>1. ch \notin S
    BY <1>2, FacadeNames
  <2>2. S' = S \cup {ch}
    BY <1>6
  <2> QED
    BY <1>4, <1>6, <2>1, <2>2
<1>7. ASSUME failures' = failures + 1, RefusedChannels' = RefusedChannels,
             NEW c \in FacadeCounters \ RefusedCounters, RefusedCounters' = RefusedCounters \cup {c}
      PROVE  CountOK'
  <2>1. c \notin S
    BY <1>2, FacadeNames
  <2>2. S' = S \cup {c}
    BY <1>7
  <2> QED
    BY <1>4, <1>7, <2>1, <2>2
<1> QED
  BY <1>1, <1>5, <1>6, <1>7 DEF Refuses

FirstInv == FirstTypes /\ Flags /\ Answers /\ Sites1 /\ ConfigSet /\ OpenedWith /\ CountOK

LEMMA FirstInit == PartsInit => FirstInv
<1> SUFFICES ASSUME PartsInit PROVE FirstInv
  OBVIOUS
<1>1. First!Init
  BY DEF PartsInit
<1>2. FirstTypes
  BY <1>1 DEF First!Init, FirstTypes, First!Once, First!Settings, Origins
<1>3. Flags
  BY <1>1, FacadeNames DEF First!Init, Flags, Placed, Opening
<1>4. Answers
  BY <1>1 DEF First!Init, Answers, Answered
<1>5. Sites1 /\ ConfigSet /\ OpenedWith
  BY <1>1 DEF First!Init, Sites1, ConfigSet, OpenedWith, First!Settings
<1>6. CountOK
  <2>1. RefusedChannels \cup RefusedCounters = {}
    BY <1>1 DEF First!Init, RefusedChannels, RefusedCounters
  <2> QED
    BY <1>1, <2>1, FS_EmptySet DEF CountOK, First!Init
<1> QED
  BY <1>2, <1>3, <1>4, <1>5, <1>6 DEF FirstInv

LEMMA FirstPart ==
  FirstInv /\ [PartsNext]_<<part, vars, listVars, viewVars, firstVars>> => FirstInv'
<1> SUFFICES ASSUME FirstInv, [PartsNext]_<<part, vars, listVars, viewVars, firstVars>> PROVE FirstInv'
  OBVIOUS
<1>1. CASE First!Next
  BY <1>1, FirstTypesStep, FlagsStep, AnswersStep, SitesStep, ConfigStep, OpenedStep, CountStep DEF FirstInv
<1>2. CASE UNCHANGED firstVars
  <2> USE <1>2 DEF firstVars
  <2>1. FirstTypes' /\ Flags'
    BY DEF FirstInv, FirstTypes, Flags, Placed, First!Chan
  <2>2. Answers' /\ Sites1' /\ ConfigSet' /\ OpenedWith'
    BY DEF FirstInv, Answers, Answered, Sites1, ConfigSet, OpenedWith, Unset, ResolvedTo, First!Supported
  <2>3. CountOK'
    BY DEF FirstInv, CountOK, RefusedChannels, RefusedCounters, First!Registers
  <2> QED
    BY <2>1, <2>2, <2>3 DEF FirstInv
<1> QED
  BY <1>1, <1>2, Zenon DEF PartsNext

\* However the first calls race, they settle (Facade::FirstUseSettles): for any
\* threads, channels, counters and settings.
THEOREM FirstCallsSettle == PartsSpec => []FirstUseSettles
<1>1. FirstInv => FirstUseSettles
  <2> SUFFICES ASSUME FirstInv PROVE First!FirstUseSettles
    BY DEF FirstUseSettles
  <2>1. ASSUME NEW t \in Threads, place[t] = "idle", call[t].op # "none"
        PROVE  passed[t] <=> /\ lib = "full" \/ (lib = "old" /\ call[t].op \in {"add", "flush"})
                             /\ IF call[t].obj \in FacadeCounters
                                THEN /\ cached[call[t].obj] # NoHandle
                                     /\ cached[call[t].obj] = handle[ChannelOf[call[t].obj]]
                                ELSE handle[DefaultChannel] # NoHandle
    BY <2>1 DEF FirstInv, FirstTypes, Flags, Answers, Answered, First!Supported
  <2>2. failures = First!Cardinality(First!Refused)
    BY RefusedIs, SameFacadeCardinality DEF FirstInv, CountOK
  <2>3. site = "sentinel" => handle[DefaultChannel] = NoHandle \/ lib # "full"
    BY DEF FirstInv, Sites1
  <2>4. \A ch \in Channels : handle[ch] # NoHandle =>
          /\ early => handle[ch].brokers = "given" /\ handle[ch].user \in {"given", "default"}
          /\ ~given /\ config["brokers"] # "given" =>
               \A f \in First!Settings :
                 handle[ch][f] = IF f \in env THEN "env" ELSE IF f \in args THEN "args" ELSE "default"
    BY DEF FirstInv, OpenedWith, Unset, ResolvedTo
  <2> QED
    BY <2>1, <2>2, <2>3, <2>4, Zenon DEF First!FirstUseSettles
<1> QED
  BY <1>1, FirstInit, FirstPart, PTL DEF PartsSpec

-----------------------------------------------------------------------------
(* The counter list. Sorting first: a finite set can be put in the order   *)
(* of any numbers that its elements have.                                  *)

\* Comes before, where equal ones keep the order of their places.
Earlier(num, at, x, y) == num[x] < num[y] \/ (num[x] = num[y] /\ at[x] < at[y])

LEMMA EarlierIsTotal ==
  ASSUME NEW S, NEW num \in [S -> Int], NEW at \in [S -> Nat],
         \A x, y \in S : at[x] = at[y] => x = y
  PROVE  /\ \A x \in S : ~Earlier(num, at, x, x)
         /\ \A x, y \in S : x # y => Earlier(num, at, x, y) \/ Earlier(num, at, y, x)
         /\ \A x, y, z \in S : Earlier(num, at, x, y) /\ Earlier(num, at, y, z) => Earlier(num, at, x, z)
         /\ \A x, y \in S : Earlier(num, at, x, y) => num[x] <= num[y]
<1>1. \A x \in S : num[x] \in Int /\ at[x] \in Nat
  OBVIOUS
<1> QED
  BY <1>1 DEF Earlier

\* An element has the place of as many as come before it.
LEMMA PlacesFill ==
  ASSUME NEW S, IsFiniteSet(S), NEW num \in [S -> Int], NEW at \in [S -> Nat],
         \A x, y \in S : at[x] = at[y] => x = y
  PROVE  \E place1 \in [S -> 1 .. Cardinality(S)] :
           /\ \A x, y \in S : place1[x] = place1[y] => x = y
           /\ \A x, y \in S : place1[x] < place1[y] => num[x] <= num[y]
<1> DEFINE front(x) == {y \in S : Earlier(num, at, y, x)}
           pl == [x \in S |-> Cardinality(front(x)) + 1]
<1>0. Cardinality(S) \in Nat
  BY FS_CardinalityType
<1>1. ASSUME NEW x \in S
      PROVE  /\ IsFiniteSet(front(x)) /\ Cardinality(front(x)) \in Nat
             /\ Cardinality(front(x)) + 1 <= Cardinality(S)
             /\ x \notin front(x)
  <2>1. front(x) \in SUBSET (S \ {x})
    BY EarlierIsTotal
  <2>2. IsFiniteSet(S \ {x}) /\ Cardinality(S \ {x}) = Cardinality(S) - 1
    BY FS_RemoveElement
  <2>3. IsFiniteSet(front(x)) /\ Cardinality(front(x)) <= Cardinality(S \ {x})
    BY <2>1, <2>2, FS_Subset
  <2>4. Cardinality(front(x)) \in Nat
    BY <2>3, FS_CardinalityType
  <2> QED
    BY <1>0, <2>1, <2>2, <2>3, <2>4
<1>2. ASSUME NEW x \in S, NEW y \in S, Earlier(num, at, x, y)
      PROVE  Cardinality(front(x)) < Cardinality(front(y))
  <2>1. IsFiniteSet(front(x)) /\ Cardinality(front(x)) \in Nat /\ x \notin front(x) /\ IsFiniteSet(front(y))
        /\ Cardinality(front(y)) \in Nat
    BY <1>1
  <2>2. front(x) \cup {x} \in SUBSET front(y)
    BY <1>2, EarlierIsTotal
  <2>3. Cardinality(front(x) \cup {x}) = Cardinality(front(x)) + 1
    BY <2>1, FS_AddElement
  <2>4. Cardinality(front(x) \cup {x}) <= Cardinality(front(y))
    BY <2>1, <2>2, FS_Subset
  <2> QED
    BY <2>1, <2>3, <2>4
<1>3. pl \in [S -> 1 .. Cardinality(S)]
  <2>1. ASSUME NEW x \in S PROVE Cardinality(front(x)) + 1 \in 1 .. Cardinality(S)
    <3>1. Cardinality(front(x)) \in Nat /\ Cardinality(front(x)) + 1 <= Cardinality(S)
      BY <1>1
    <3> QED
      BY <1>0, <3>1
  <2> QED
    BY <2>1, Zenon
<1>4. \A x, y \in S : pl[x] = pl[y] => x = y
  <2> SUFFICES ASSUME NEW x \in S, NEW y \in S, pl[x] = pl[y], x # y PROVE FALSE
    OBVIOUS
  <2>1. Cardinality(front(x)) \in Nat /\ Cardinality(front(y)) \in Nat
    BY <1>1
  <2>2. Cardinality(front(x)) = Cardinality(front(y))
    BY <2>1
  <2>3. CASE Earlier(num, at, x, y)
    <3>1. Cardinality(front(x)) < Cardinality(front(y))
      BY <1>2, <2>3
    <3> QED
      BY <2>1, <2>2, <3>1
  <2>4. CASE Earlier(num, at, y, x)
    <3>1. Cardinality(front(y)) < Cardinality(front(x))
      BY <1>2, <2>4
    <3> QED
      BY <2>1, <2>2, <3>1
  <2> QED
    BY <2>3, <2>4, EarlierIsTotal
<1>5. \A x, y \in S : pl[x] < pl[y] => num[x] <= num[y]
  <2> SUFFICES ASSUME NEW x \in S, NEW y \in S, pl[x] < pl[y] PROVE num[x] <= num[y]
    OBVIOUS
  <2>1. Cardinality(front(x)) \in Nat /\ Cardinality(front(y)) \in Nat
    BY <1>1
  <2>2. Cardinality(front(x)) < Cardinality(front(y))
    BY <2>1
  <2>3. ASSUME Earlier(num, at, y, x) PROVE FALSE
    <3>1. Cardinality(front(y)) < Cardinality(front(x))
      BY <1>2, <2>3
    <3> QED
      BY <2>1, <2>2, <3>1
  <2>4. x # y
    <3> HIDE DEF pl
    <3>1. pl[x] \in Nat /\ pl[y] \in Nat
      BY <1>0, <1>3
    <3>2. pl[x] # pl[y]
      BY <3>1
    <3> QED
      BY <3>2, Zenon
  <2> QED
    BY <2>3, <2>4, EarlierIsTotal
<1> HIDE DEF pl
<1> QED
  BY <1>3, <1>4, <1>5

THEOREM CanBeSorted ==
  ASSUME NEW S, IsFiniteSet(S), NEW num \in [S -> Int]
  PROVE  \E s \in [1 .. Cardinality(S) -> S] :
           /\ \A i, j \in 1 .. Cardinality(S) : i # j => s[i] # s[j]
           /\ \A i, j \in 1 .. Cardinality(S) : i < j => num[s[i]] <= num[s[j]]
<1>0. Cardinality(S) \in Nat /\ ExistsBijection(1 .. Cardinality(S), S)
  BY FS_CardinalityType
<1>1. PICK f \in Bijection(1 .. Cardinality(S), S) : TRUE
  BY <1>0, Zenon DEF ExistsBijection
<1>2. /\ f \in [1 .. Cardinality(S) -> S]
      /\ \A i, j \in 1 .. Cardinality(S) : f[i] = f[j] => i = j
      /\ \A x \in S : \E i \in 1 .. Cardinality(S) : f[i] = x
  BY <1>1 DEF Bijection, Injection, Surjection, IsInjective
<1> DEFINE at == [x \in S |-> CHOOSE i \in 1 .. Cardinality(S) : f[i] = x]
<1>3. \A x \in S : at[x] \in 1 .. Cardinality(S) /\ f[at[x]] = x
  BY <1>2
<1>4. at \in [S -> Nat] /\ \A x, y \in S : at[x] = at[y] => x = y
  <2>1. at \in [S -> Nat]
    BY <1>3, <1>0
  <2>2. \A x, y \in S : at[x] = at[y] => x = y
    BY <1>3, Zenon
  <2> QED
    BY <2>1, <2>2
<1> HIDE DEF at
<1>5. PICK pl \in [S -> 1 .. Cardinality(S)] :
        /\ \A x, y \in S : pl[x] = pl[y] => x = y
        /\ \A x, y \in S : pl[x] < pl[y] => num[x] <= num[y]
  BY <1>4, PlacesFill
<1>6. pl \in Injection(S, 1 .. Cardinality(S))
  BY <1>5 DEF Injection, IsInjective
<1>7. IsFiniteSet(1 .. Cardinality(S)) /\ Cardinality(1 .. Cardinality(S)) = Cardinality(S)
  BY <1>0, FS_Interval
<1>8. pl \in Surjection(S, 1 .. Cardinality(S))
  BY <1>6, <1>7, FS_Injection
<1>9. \A i \in 1 .. Cardinality(S) : \E x \in S : pl[x] = i
  BY <1>8 DEF Surjection
<1> DEFINE s == [i \in 1 .. Cardinality(S) |-> CHOOSE x \in S : pl[x] = i]
<1>10. \A i \in 1 .. Cardinality(S) : s[i] \in S /\ pl[s[i]] = i
  BY <1>9
<1>11. s \in [1 .. Cardinality(S) -> S]
  BY <1>10, Zenon
<1>12. \A i, j \in 1 .. Cardinality(S) : i # j => s[i] # s[j]
  BY <1>10, Zenon
<1>13. \A i, j \in 1 .. Cardinality(S) : i < j => num[s[i]] <= num[s[j]]
  BY <1>5, <1>10
<1> HIDE DEF s
<1> QED
  BY <1>11, <1>12, <1>13

LEMMA ListNames ==
  /\ IsFiniteSet(Counters) /\ FirstKnown \subseteq Counters /\ List!None \notin Counters
  /\ MaxPanels \in Nat /\ MaxPanels >= 1
  /\ \A c \in Counters : Reg[c] \in Nat \X Nat /\ Reg[c] = <<Reg[c][1], Reg[c][2]>>
                         /\ Reg[c][1] \in Nat /\ Reg[c][2] \in Nat /\ Custom[c] \subseteq Nat \X Nat
BY ListAssumption DEF List!None

LEMMA SameCardinality == \A S : List!Cardinality(S) = Cardinality(S)
BY Zenon DEF List!Cardinality, Cardinality

\* What Ascending returns: every element once, in the order of the numbers.
IsSorting(s, S, num) ==
  /\ s \in Seq(S) /\ Len(s) = Cardinality(S) /\ DOMAIN s = 1 .. Cardinality(S)
  /\ \A i, j \in DOMAIN s : s[i] = s[j] => i = j
  /\ \A x \in S : \E i \in DOMAIN s : s[i] = x
  /\ \A i, j \in DOMAIN s : i < j => num[s[i]] <= num[s[j]]

LEMMA AscendingSorts ==
  ASSUME NEW S, IsFiniteSet(S), NEW num \in [S -> Int]
  PROVE  IsSorting(List!Ascending(S, num), S, num)
<1> DEFINE n == Cardinality(S)
           a == List!Ascending(S, num)
<1>0. n \in Nat
  BY FS_CardinalityType
<1> HIDE DEF n
<1>1. List!SetToSeqs(S) = {f \in [1 .. n -> S] : \A i, j \in 1 .. n : i # j => f[i] # f[j]}
  BY SameCardinality, Zenon DEF List!SetToSeqs, n
<1>2. PICK s \in [1 .. n -> S] :
        /\ \A i, j \in 1 .. n : i # j => s[i] # s[j]
        /\ \A i, j \in 1 .. n : i < j => num[s[i]] <= num[s[j]]
  BY CanBeSorted DEF n
<1>3. s \in List!SetToSeqs(S) /\ DOMAIN s = 1 .. n
  BY <1>1, <1>2
<1>4. \E t \in List!SetToSeqs(S) : \A i, j \in DOMAIN t : i < j => num[t[i]] <= num[t[j]]
  BY <1>2, <1>3, Zenon
<1>5. /\ a \in List!SetToSeqs(S)
      /\ \A i, j \in DOMAIN a : i < j => num[a[i]] <= num[a[j]]
  BY <1>4, Zenon DEF List!Ascending
<1> HIDE DEF a
<1>6. a \in [1 .. n -> S] /\ \A i, j \in 1 .. n : i # j => a[i] # a[j]
  BY <1>1, <1>5
<1>7. \A x \in S : \E i \in 1 .. n : a[i] = x
  <2>1. a \in Injection(1 .. n, S)
    BY <1>6 DEF Injection, IsInjective
  <2>2. IsFiniteSet(1 .. n) /\ Cardinality(1 .. n) = n
    BY <1>0, FS_Interval
  <2>3. a \in Surjection(1 .. n, S)
    BY <2>1, <2>2, FS_Injection DEF n
  <2> QED
    BY <2>3 DEF Surjection
<1>8. a \in Seq(S) /\ Len(a) = n /\ DOMAIN a = 1 .. n
  BY <1>0, <1>6
<1> QED
  BY <1>5, <1>6, <1>7, <1>8, Zenon DEF IsSorting, a, n

LEMMA LeastOfTwo ==
  ASSUME NEW a \in Int, NEW b \in Int
  PROVE  List!Min({a, b}) = (IF a <= b THEN a ELSE b) /\ List!Max({a, b}) = (IF a <= b THEN b ELSE a)
BY DEF List!Min, List!Max

\* Where the p-th of n runs begins, less one.
Cut(m, n, p) == (p - 1) * (m \div n) + List!Min({p - 1, m % n})

LEMMA DivisionIs ==
  ASSUME NEW m \in Nat, NEW n \in Nat, n >= 1
  PROVE  m \div n \in Nat /\ m % n \in Nat /\ m % n < n /\ m = n * (m \div n) + (m % n)
OBVIOUS

LEMMA CutIs ==
  ASSUME NEW m \in Nat, NEW n \in Nat, n >= 1, NEW q \in 1 .. n + 1
  PROVE  Cut(m, n, q) = (q - 1) * (m \div n) + (IF q - 1 <= m % n THEN q - 1 ELSE m % n)
<1>1. m % n \in Nat
  BY DivisionIs
<1>2. List!Min({q - 1, m % n}) = (IF q - 1 <= m % n THEN q - 1 ELSE m % n)
  BY <1>1, LeastOfTwo
<1> QED
  BY <1>2, Zenon DEF Cut

LEMMA CutEnds ==
  ASSUME NEW m \in Nat, NEW n \in Nat, n >= 1
  PROVE  Cut(m, n, 1) = 0 /\ Cut(m, n, n + 1) = m
<1>1. PICK b \in Nat : b = m \div n
  BY DivisionIs
<1>2. PICK r \in Nat : r = m % n /\ r < n
  BY DivisionIs
<1>3. m = n * b + r
  BY <1>1, <1>2, DivisionIs
<1>4. 1 \in 1 .. n + 1 /\ n + 1 \in 1 .. n + 1
  OBVIOUS
<1>5. /\ Cut(m, n, 1) = (1 - 1) * b + (IF 1 - 1 <= r THEN 1 - 1 ELSE r)
      /\ Cut(m, n, n + 1) = ((n + 1) - 1) * b + (IF (n + 1) - 1 <= r THEN (n + 1) - 1 ELSE r)
  BY <1>1, <1>2, <1>4, CutIs
<1>6. (n + 1) - 1 = n
  OBVIOUS
<1> QED
  BY <1>2, <1>3, <1>5, <1>6

LEMMA CutNext ==
  ASSUME NEW m \in Nat, NEW n \in Nat, n >= 1, n <= m, NEW p \in 1 .. n
  PROVE  /\ Cut(m, n, p) \in Nat /\ Cut(m, n, p) < Cut(m, n, p + 1) /\ Cut(m, n, p + 1) \in Nat
         /\ Cut(m, n, p + 1) = Cut(m, n, p) + (m \div n) + (IF p <= m % n THEN 1 ELSE 0)
         /\ Cut(m, n, p + 1) <= m
<1>1. PICK b \in Nat : b = m \div n
  BY DivisionIs
<1>2. PICK r \in Nat : r = m % n /\ r < n
  BY DivisionIs
<1>3. m = n * b + r
  BY <1>1, <1>2, DivisionIs
<1>4. b >= 1
  <2>1. ASSUME b = 0 PROVE FALSE
    BY <1>2, <1>3, <2>1
  <2> QED
    BY <2>1
<1>5. PICK x \in Nat : x = (p - 1) * b
  OBVIOUS
<1>6. p * b = x + b
  BY <1>5
<1>7. p \in 1 .. n + 1 /\ p + 1 \in 1 .. n + 1 /\ (p + 1) - 1 = p
  OBVIOUS
<1>8. Cut(m, n, p) = x + (IF p - 1 <= r THEN p - 1 ELSE r)
  BY <1>1, <1>2, <1>5, <1>7, CutIs
<1>9. Cut(m, n, p + 1) = ((p + 1) - 1) * b + (IF (p + 1) - 1 <= r THEN (p + 1) - 1 ELSE r)
  BY <1>1, <1>2, <1>7, CutIs
<1>10. Cut(m, n, p + 1) = x + b + (IF p <= r THEN p ELSE r)
  BY <1>6, <1>7, <1>9
<1>11. x + b <= n * b
  <2>1. PICK d \in Nat : n = p + d
    OBVIOUS
  <2>2. n * b = p * b + d * b /\ d * b >= 0
    BY <2>1
  <2> QED
    BY <1>6, <2>2
<1>12. /\ Cut(m, n, p) \in Nat /\ Cut(m, n, p) < Cut(m, n, p + 1) /\ Cut(m, n, p + 1) \in Nat
       /\ Cut(m, n, p + 1) = Cut(m, n, p) + b + (IF p <= r THEN 1 ELSE 0)
       /\ Cut(m, n, p + 1) <= m
  BY <1>2, <1>3, <1>4, <1>8, <1>10, <1>11
<1> QED
  BY <1>1, <1>2, <1>12

\* Induction over the naturals, for a set.
LEMMA NatSetInduction ==
  ASSUME NEW S, S \subseteq Nat, 0 \in S, \A n \in S : n + 1 \in S
  PROVE  S = Nat
<1> SUFFICES ASSUME Nat \ S # {} PROVE FALSE
  OBVIOUS
<1>1. PICK x \in Nat \ S : \A y \in Nat \ S : x <= y
  BY Least
<1>2. x # 0 /\ x - 1 \in Nat
  OBVIOUS
<1>3. x - 1 \in S /\ (x - 1) + 1 = x
  BY <1>1, <1>2
<1> QED
  BY <1>3

LEMMA PartIs ==
  ASSUME NEW X, NEW s \in Seq(X), NEW a \in Nat, NEW b \in Nat, a <= b, b <= Len(s)
  PROVE  /\ SubSeq(s, a + 1, b) \in Seq(X) /\ Len(SubSeq(s, a + 1, b)) = b - a
         /\ DOMAIN SubSeq(s, a + 1, b) = 1 .. (b - a)
         /\ \A i \in 1 .. (b - a) : SubSeq(s, a + 1, b)[i] = s[a + i]
<1>1. /\ SubSeq(s, a + 1, b) = [i \in 1 .. (b - a) |-> s[a + i]]
      /\ \A i \in 1 .. (b - a) : s[a + i] \in X
  OBVIOUS
<1> QED
  BY <1>1

LEMMA JoinIs ==
  ASSUME NEW X, NEW u \in Seq(X), NEW v \in Seq(X)
  PROVE  /\ u \o v \in Seq(X) /\ Len(u \o v) = Len(u) + Len(v)
         /\ \A i \in 1 .. Len(u) : (u \o v)[i] = u[i]
         /\ \A i \in Len(u) + 1 .. Len(u) + Len(v) : (u \o v)[i] = v[i - Len(u)]
OBVIOUS

LEMMA PartsJoin ==
  ASSUME NEW X, NEW s \in Seq(X), NEW a \in Nat, NEW b \in Nat, a <= b, b <= Len(s)
  PROVE  SubSeq(s, 1, a) \o SubSeq(s, a + 1, b) = SubSeq(s, 1, b)
<1>1. /\ SubSeq(s, 1, a) \in Seq(X) /\ Len(SubSeq(s, 1, a)) = a
      /\ \A i \in 1 .. a : SubSeq(s, 1, a)[i] = s[i]
  OBVIOUS
<1>2. /\ SubSeq(s, 1, b) \in Seq(X) /\ Len(SubSeq(s, 1, b)) = b
      /\ \A i \in 1 .. b : SubSeq(s, 1, b)[i] = s[i]
  OBVIOUS
<1>3. /\ SubSeq(s, a + 1, b) \in Seq(X) /\ Len(SubSeq(s, a + 1, b)) = b - a
      /\ \A i \in 1 .. (b - a) : SubSeq(s, a + 1, b)[i] = s[a + i]
  BY PartIs
<1> DEFINE u == SubSeq(s, 1, a)
           v == SubSeq(s, a + 1, b)
           x == SubSeq(s, 1, b)
<1> HIDE DEF u, v, x
<1>4. /\ u \in Seq(X) /\ Len(u) = a /\ v \in Seq(X) /\ Len(v) = b - a /\ x \in Seq(X) /\ Len(x) = b
      /\ \A i \in 1 .. a : u[i] = s[i]
      /\ \A i \in 1 .. (b - a) : v[i] = s[a + i]
      /\ \A i \in 1 .. b : x[i] = s[i]
  BY <1>1, <1>2, <1>3 DEF u, v, x
<1>5. /\ u \o v \in Seq(X) /\ Len(u \o v) = b
      /\ \A i \in 1 .. a : (u \o v)[i] = u[i]
      /\ \A i \in a + 1 .. b : (u \o v)[i] = v[i - a]
  <2>1. Len(u) = a /\ Len(v) = b - a /\ a + (b - a) = b
    BY <1>4
  <2>2. /\ u \o v \in Seq(X) /\ Len(u \o v) = Len(u) + Len(v)
        /\ \A i \in 1 .. Len(u) : (u \o v)[i] = u[i]
        /\ \A i \in Len(u) + 1 .. Len(u) + Len(v) : (u \o v)[i] = v[i - Len(u)]
    <3>1. u \in Seq(X) /\ v \in Seq(X)
      BY <1>4
    <3> QED
      BY <3>1, JoinIs, Zenon
  <2> QED
    BY <2>1, <2>2, Zenon
<1>6. \A i \in 1 .. b : (u \o v)[i] = x[i]
  <2> SUFFICES ASSUME NEW i \in 1 .. b PROVE (u \o v)[i] = x[i]
    OBVIOUS
  <2>1. CASE i <= a
    BY <1>4, <1>5, <2>1
  <2>2. CASE i > a
    <3>1. (u \o v)[i] = v[i - a]
      <4>1. i \in a + 1 .. b
        BY <2>2
      <4> QED
        BY <1>5, <4>1, Zenon
    <3>2. i - a \in 1 .. (b - a) /\ a + (i - a) = i
      BY <2>2
    <3> QED
      BY <1>4, <3>1, <3>2
  <2>3. i <= a \/ i > a
    OBVIOUS
  <2> QED
    BY <2>1, <2>2, <2>3, Zenon
<1>7. u \o v = x
  BY <1>4, <1>5, <1>6
<1> QED
  BY <1>7 DEF u, v, x

\* Runs that follow one another make up the whole.
Cuts(cut, n, m) ==
  /\ cut \in [1 .. n + 1 -> Nat] /\ cut[1] = 0 /\ cut[n + 1] = m
  /\ \A p \in 1 .. n : cut[p] <= cut[p + 1] /\ cut[p + 1] <= m

AreRuns(q, s, cut, n) ==
  /\ q = [p \in 1 .. n |-> q[p]] /\ Cuts(cut, n, Len(s))
  /\ \A p \in 1 .. n : q[p] = SubSeq(s, cut[p] + 1, cut[p + 1])

LEMMA RunsJoin ==
  ASSUME NEW X, NEW s \in Seq(X), NEW n \in Nat, n >= 1, NEW cut, NEW q, AreRuns(q, s, cut, n)
  PROVE  List!FlattenSeq(q) = s
<1> DEFINE Eqn(g) == g = [i \in 1 .. Len(q) |-> IF i = 1 THEN q[i] ELSE g[i - 1] \o q[i]]
           it == CHOOSE g : Eqn(g)
           h == [i \in 1 .. n |-> SubSeq(s, 1, cut[i + 1])]
<1>0. /\ cut \in [1 .. n + 1 -> Nat] /\ cut[1] = 0 /\ cut[n + 1] = Len(s)
      /\ \A p \in 1 .. n : cut[p] <= cut[p + 1] /\ cut[p + 1] <= Len(s)
      /\ q = [p \in 1 .. n |-> q[p]] /\ \A p \in 1 .. n : q[p] = SubSeq(s, cut[p] + 1, cut[p + 1])
  BY DEF Cuts, AreRuns
<1>1. Len(q) = n /\ DOMAIN q = 1 .. n
  BY <1>0
<1>2. List!FlattenSeq(q) = it[n]
  <2>1. Len(q) # 0
    BY <1>1
  <2>2. List!FlattenSeq(q) = it[Len(q)]
    BY <2>1, Zenon DEF List!FlattenSeq
  <2> QED
    BY <1>1, <2>2, Zenon
<1>3. \A i \in 1 .. n : i + 1 \in 1 .. n + 1 /\ i \in 1 .. n + 1 /\ cut[i] \in Nat /\ cut[i + 1] \in Nat
  BY <1>0
<1>4. \A i \in 1 .. n : SubSeq(s, 1, cut[i]) \o q[i] = SubSeq(s, 1, cut[i + 1])
  BY <1>0, <1>3, PartsJoin
<1>5. q[1] = SubSeq(s, 1, cut[2])
  <2>1. 1 \in 1 .. n /\ cut[1] + 1 = 1 /\ 1 + 1 = 2
    BY <1>0
  <2>2. q[1] = SubSeq(s, cut[1] + 1, cut[1 + 1])
    BY <1>0, <2>1
  <2> QED
    BY <2>1, <2>2
<1>6. Eqn(h)
  <2>1. ASSUME NEW i \in 1 .. n PROVE h[i] = IF i = 1 THEN q[i] ELSE h[i - 1] \o q[i]
    <3>1. CASE i = 1
      <4>1. h[1] = SubSeq(s, 1, cut[1 + 1]) /\ 1 + 1 = 2
        BY <1>3
      <4> QED
        BY <1>5, <3>1, <4>1
    <3>2. CASE i # 1
      <4>1. i - 1 \in 1 .. n /\ (i - 1) + 1 = i
        BY <3>2
      <4>2. h[i - 1] = SubSeq(s, 1, cut[i])
        BY <4>1
      <4> QED
        BY <1>4, <3>2, <4>2
    <3> QED
      BY <3>1, <3>2
  <2>2. h = [i \in 1 .. n |-> h[i]]
    OBVIOUS
  <2> HIDE DEF h
  <2>3. h = [i \in 1 .. n |-> IF i = 1 THEN q[i] ELSE h[i - 1] \o q[i]]
    BY <2>1, <2>2, Zenon
  <2> QED
    BY <1>1, <2>3
<1>7. Eqn(it)
  BY <1>6, Zenon
<1> HIDE DEF it
<1>8. \A i \in 1 .. n : it[i] = IF i = 1 THEN q[i] ELSE it[i - 1] \o q[i]
  BY <1>1, <1>7, Zenon
<1> DEFINE S == {i \in Nat : i + 1 \in 1 .. n => it[i + 1] = SubSeq(s, 1, cut[i + 2])}
<1>9. S = Nat
  <2>1. 0 \in S
    <3>1. 1 \in 1 .. n /\ 0 + 1 = 1 /\ 0 + 2 = 2
      OBVIOUS
    <3>2. it[1] = q[1]
      BY <1>8, <3>1
    <3>3. it[0 + 1] = SubSeq(s, 1, cut[0 + 2])
      BY <1>5, <3>1, <3>2
    <3> QED
      BY <3>3
  <2>2. ASSUME NEW i \in S PROVE i + 1 \in S
    <3> SUFFICES ASSUME (i + 1) + 1 \in 1 .. n PROVE it[(i + 1) + 1] = SubSeq(s, 1, cut[(i + 1) + 2])
      <4>1. i + 1 \in Nat
        OBVIOUS
      <4> QED
        BY <4>1, Zenon
    <3>1. i + 1 \in 1 .. n /\ it[i + 1] = SubSeq(s, 1, cut[i + 2]) /\ i + 2 \in 1 .. n /\ i + 2 # 1
          /\ (i + 2) - 1 = i + 1 /\ (i + 1) + 1 = i + 2 /\ (i + 1) + 2 = (i + 2) + 1
      OBVIOUS
    <3>2. it[i + 2] = it[i + 1] \o q[i + 2]
      BY <1>8, <3>1
    <3>3. SubSeq(s, 1, cut[i + 2]) \o q[i + 2] = SubSeq(s, 1, cut[(i + 2) + 1])
      BY <1>4, <3>1
    <3> QED
      BY <3>1, <3>2, <3>3
  <2> HIDE DEF S
  <2>3. S \subseteq Nat
    BY DEF S
  <2> QED
    BY <2>1, <2>2, <2>3, NatSetInduction
<1>10. it[n] = SubSeq(s, 1, cut[n + 1])
  <2>1. n - 1 \in Nat /\ (n - 1) + 1 = n /\ (n - 1) + 2 = n + 1 /\ n \in 1 .. n
    OBVIOUS
  <2>2. n - 1 \in S
    BY <1>9, <2>1, Zenon
  <2> QED
    BY <2>1, <2>2
<1>11. SubSeq(s, 1, Len(s)) = s
  OBVIOUS
<1> QED
  BY <1>0, <1>2, <1>10, <1>11

LEMMA MembersAre ==
  ASSUME NEW X, NEW order \in Seq(X), NEW n \in Nat, n >= 1, n <= Len(order), NEW p \in 1 .. n
  PROVE  /\ List!Members(order, n, p)
              = SubSeq(order, Cut(Len(order), n, p) + 1, Cut(Len(order), n, p + 1))
         /\ List!Members(order, n, p) \in Seq(X) /\ Len(List!Members(order, n, p)) >= 1
<1> DEFINE m == Len(order)
           a == Cut(m, n, p)
           b == Cut(m, n, p + 1)
<1>1. m \in Nat /\ n <= m
  OBVIOUS
<1> HIDE DEF m
<1>2. /\ a \in Nat /\ b \in Nat /\ a < b /\ b <= m
      /\ b = a + (m \div n) + (IF p <= m % n THEN 1 ELSE 0)
  BY <1>1, CutNext, Zenon
<1>3. List!Members(order, n, p) = SubSeq(order, a + 1, a + (m \div n) + (IF p <= m % n THEN 1 ELSE 0))
  BY Zenon DEF List!Members, Cut, m
<1> HIDE DEF a, b
<1>4. List!Members(order, n, p) = SubSeq(order, a + 1, b)
  BY <1>2, <1>3, Zenon
<1>5. SubSeq(order, a + 1, b) \in Seq(X) /\ Len(SubSeq(order, a + 1, b)) = b - a
  BY <1>2, PartIs DEF m
<1> QED
  BY <1>2, <1>4, <1>5 DEF a, b, m

LEMMA MembersJoin ==
  ASSUME NEW X, NEW order \in Seq(X), NEW n \in Nat, n >= 1, n <= Len(order),
         NEW q, q = [p \in 1 .. n |-> List!Members(order, n, p)]
  PROVE  List!FlattenSeq(q) = order
<1> DEFINE m == Len(order)
           cut == [p \in 1 .. n + 1 |-> Cut(m, n, p)]
<1>1. m \in Nat /\ n <= m
  OBVIOUS
<1> HIDE DEF m
<1>2. /\ Cut(m, n, 1) = 0 /\ Cut(m, n, n + 1) = m
      /\ \A p \in 1 .. n : /\ Cut(m, n, p) \in Nat /\ Cut(m, n, p) < Cut(m, n, p + 1)
                           /\ Cut(m, n, p + 1) \in Nat /\ Cut(m, n, p + 1) <= m
  BY <1>1, CutEnds, CutNext
<1>3. \A p \in 1 .. n : p \in 1 .. n + 1 /\ p + 1 \in 1 .. n + 1
  OBVIOUS
<1>4. 1 \in 1 .. n + 1 /\ n + 1 \in 1 .. n + 1 /\ \A p \in 1 .. n + 1 : p \in 1 .. n \/ p = n + 1
  OBVIOUS
<1>5. cut \in [1 .. n + 1 -> Nat] /\ cut[1] = 0 /\ cut[n + 1] = m
  BY <1>1, <1>2, <1>4
<1>6. \A p \in 1 .. n : cut[p] <= cut[p + 1] /\ cut[p + 1] <= m
  BY <1>2, <1>3
<1>7. \A p \in 1 .. n : List!Members(order, n, p) = SubSeq(order, cut[p] + 1, cut[p + 1])
  BY <1>3, MembersAre, Zenon DEF m
<1>8. q = [p \in 1 .. n |-> q[p]] /\ \A p \in 1 .. n : q[p] = SubSeq(order, cut[p] + 1, cut[p + 1])
  BY <1>7, Zenon
<1> HIDE DEF cut
<1>9. Cuts(cut, n, m)
  BY <1>5, <1>6, Zenon DEF Cuts
<1>10. AreRuns(q, order, cut, n)
  BY <1>8, <1>9, Zenon DEF AreRuns, m
<1> QED
  BY <1>10, RunsJoin, Zenon

-----------------------------------------------------------------------------
(* The counters that are drawn, and their panels.                          *)

Ranges2 == {<<>>} \cup (Nat \X Nat)

Trace == [visible : BOOLEAN, mode : List!Modes, range : Ranges2, marked : BOOLEAN, userTop : Int]

Traces == UNION {[S -> Trace] : S \in SUBSET Counters}

Panel == [keys : Seq(Counters), set : BOOLEAN, lo : Int, hi : Int]

LEMMA TracesAre ==
  ASSUME NEW trace \in Traces
  PROVE  /\ DOMAIN trace \subseteq Counters /\ IsFiniteSet(DOMAIN trace)
         /\ trace \in [DOMAIN trace -> Trace]
         /\ \A c \in DOMAIN trace : trace[c] \in Trace
<1>1. PICK S \in SUBSET Counters : trace \in [S -> Trace]
  BY Zenon DEF Traces
<1>2. IsFiniteSet(S)
  BY ListNames, FS_Subset
<1> QED
  BY <1>1, <1>2

LEMMA TracesIs ==
  ASSUME NEW S \in SUBSET Counters, NEW trace \in [S -> Trace]
  PROVE  trace \in Traces
BY Zenon DEF Traces

LEMMA ScaleIs ==
  ASSUME NEW trace \in Traces, NEW c \in DOMAIN trace
  PROVE  /\ List!Scale(trace, c) \in Nat \X Nat
         /\ List!Scale(trace, c)[1] \in Nat /\ List!Scale(trace, c)[2] \in Nat
         /\ List!Scale(trace, c) = <<List!Scale(trace, c)[1], List!Scale(trace, c)[2]>>
<1>1. c \in Counters /\ trace[c].range \in Ranges2
  BY TracesAre DEF Trace
<1>2. Reg[c] \in Nat \X Nat
  BY <1>1, ListNames
<1>3. List!Scale(trace, c) \in Nat \X Nat
  BY <1>1, <1>2 DEF List!Scale, List!Registered, Ranges2
<1> QED
  BY <1>3

LEMMA SeqWider ==
  ASSUME NEW S, NEW T, S \subseteq T, NEW s \in Seq(S)
  PROVE  s \in Seq(T)
OBVIOUS

LEMMA OrderIs ==
  ASSUME NEW trace \in Traces
  PROVE  /\ IsFiniteSet(List!Visible(trace)) /\ List!Visible(trace) \subseteq DOMAIN trace
         /\ IsSorting(List!Order(trace), List!Visible(trace),
                      [c \in List!Visible(trace) |-> List!Scale(trace, c)[1]])
<1>1. List!Visible(trace) \subseteq DOMAIN trace
  BY DEF List!Visible
<1>2. IsFiniteSet(List!Visible(trace))
  BY <1>1, TracesAre, FS_Subset
<1>3. [c \in List!Visible(trace) |-> List!Scale(trace, c)[1]] \in [List!Visible(trace) -> Int]
  BY <1>1, ScaleIs
<1> DEFINE S == List!Visible(trace)
           num == [c \in S |-> List!Scale(trace, c)[1]]
<1> HIDE DEF S, num
<1>4. IsSorting(List!Ascending(S, num), S, num)
  BY <1>2, <1>3, AscendingSorts DEF S, num
<1> QED
  BY <1>1, <1>2, <1>4 DEF List!Order, S, num

LEMMA ActiveIs ==
  ASSUME NEW trace \in Traces
  PROVE  /\ List!Order(trace) \in Seq(DOMAIN trace) /\ List!Active(trace) \in 0 .. MaxPanels
         /\ List!Active(trace) <= Len(List!Order(trace)) /\ Len(List!Order(trace)) \in Nat
         /\ List!Active(trace) = 0 => List!Order(trace) = <<>>
<1> DEFINE order == List!Order(trace)
           n == Cardinality(List!Visible(trace))
<1>1. order \in Seq(List!Visible(trace)) /\ Len(order) = n /\ n \in Nat
  BY OrderIs, FS_CardinalityType DEF IsSorting
<1>2. order \in Seq(DOMAIN trace)
  <2>1. List!Visible(trace) \subseteq DOMAIN trace
    BY OrderIs
  <2> HIDE DEF order
  <2> QED
    BY <1>1, <2>1, SeqWider
<1>3. List!Active(trace) = List!Min({n, MaxPanels})
  BY SameCardinality, Zenon DEF List!Active
<1> HIDE DEF n, order
<1>4. List!Active(trace) = IF n <= MaxPanels THEN n ELSE MaxPanels
  BY <1>1, <1>3, LeastOfTwo, ListNames
<1>5. n = 0 => order = <<>>
  BY <1>1
<1> QED
  BY <1>1, <1>2, <1>4, <1>5, ListNames DEF order

LEMMA HasEnds ==
  ASSUME NEW S, IsFiniteSet(S), S # {}, NEW num \in [S -> Int]
  PROVE  /\ \E x \in S : \A y \in S : num[x] <= num[y]
         /\ \E x \in S : \A y \in S : num[y] <= num[x]
<1> DEFINE s == List!Ascending(S, num)
           n == Cardinality(S)
<1>1. IsSorting(s, S, num)
  BY AscendingSorts
<1>2. n \in Nat /\ n >= 1
  BY FS_CardinalityType, FS_EmptySet
<1> HIDE DEF s, n
<1>3. /\ s \in Seq(S) /\ Len(s) = n /\ DOMAIN s = 1 .. n
      /\ \A x \in S : \E i \in 1 .. n : s[i] = x
      /\ \A i, j \in 1 .. n : i < j => num[s[i]] <= num[s[j]]
  BY <1>1, Zenon DEF IsSorting, n
<1>4. s[1] \in S /\ s[n] \in S
  BY <1>2, <1>3
<1>5. \A i \in 1 .. n : s[i] \in S /\ num[s[i]] \in Int
  BY <1>2, <1>3
<1>6. \A i \in 1 .. n : num[s[1]] <= num[s[i]] /\ num[s[i]] <= num[s[n]]
  <2> SUFFICES ASSUME NEW i \in 1 .. n PROVE num[s[1]] <= num[s[i]] /\ num[s[i]] <= num[s[n]]
    OBVIOUS
  <2>1. 1 \in 1 .. n /\ n \in 1 .. n
    BY <1>2
  <2>2. i = 1 \/ 1 < i
    BY <1>2
  <2>3. i = n \/ i < n
    BY <1>2
  <2>4. num[s[1]] <= num[s[i]]
    BY <1>3, <1>5, <2>1, <2>2
  <2>5. num[s[i]] <= num[s[n]]
    BY <1>3, <1>5, <2>1, <2>3
  <2> QED
    BY <2>4, <2>5
<1>7. \A y \in S : num[s[1]] <= num[y] /\ num[y] <= num[s[n]]
  BY <1>3, <1>6, Zenon
<1> QED
  BY <1>4, <1>7, Zenon

IsReal(r) == r[1] < r[2]

\* the range of what is drawn covers each of them that has one
Spans(u, trace, keys) ==
  \A c \in List!ToSet(keys) : IsReal(List!Scale(trace, c)) =>
    u # List!Registered /\ u[1] <= List!Scale(trace, c)[1] /\ List!Scale(trace, c)[2] <= u[2]

LEMMA UnionIs ==
  ASSUME NEW trace \in Traces, NEW keys \in Seq(DOMAIN trace)
  PROVE  LET u == List!Union(trace, keys)
         IN  /\ u = List!Registered \/ (u[1] \in Nat /\ u[2] \in Nat /\ u[1] <= u[2])
             /\ Spans(u, trace, keys)
             /\ \A c \in DOMAIN trace : List!ToSet(keys) = {c} /\ IsReal(List!Scale(trace, c)) =>
                  u = List!Scale(trace, c)
<1> DEFINE S == {c \in List!ToSet(keys) : IsReal(List!Scale(trace, c))}
           R == {r \in {List!Scale(trace, c) : c \in List!ToSet(keys)} : r[1] < r[2]}
           bottoms == {r[1] : r \in R}
           tops == {r[2] : r \in R}
           bottom == [c \in S |-> List!Scale(trace, c)[1]]
           top == [c \in S |-> List!Scale(trace, c)[2]]
           u == List!Union(trace, keys)
<1>1. List!ToSet(keys) \subseteq DOMAIN trace
  BY DEF List!ToSet
<1>2. \A c \in S : /\ c \in DOMAIN trace /\ c \in List!ToSet(keys)
                   /\ List!Scale(trace, c)[1] \in Nat /\ List!Scale(trace, c)[2] \in Nat
                   /\ List!Scale(trace, c)[1] < List!Scale(trace, c)[2]
  BY <1>1, ScaleIs DEF IsReal
<1>3. IsFiniteSet(S)
  BY <1>1, TracesAre, FS_Subset
<1>4. bottom \in [S -> Int] /\ top \in [S -> Int]
  BY <1>2
<1>5. u = IF R = {} THEN List!Registered ELSE <<List!Min(bottoms), List!Max(tops)>>
  BY Zenon DEF List!Union
<1>6. R = {List!Scale(trace, c) : c \in S}
  BY DEF IsReal
<1>7. /\ bottoms = {List!Scale(trace, c)[1] : c \in S}
      /\ tops = {List!Scale(trace, c)[2] : c \in S}
  BY <1>6
<1> HIDE DEF R
<1>8. CASE S = {}
  <2>1. u = List!Registered
    BY <1>5, <1>6, <1>8
  <2> QED
    BY <2>1, <1>8, Zenon DEF Spans
<1>9. CASE S # {}
  <2>1. PICK x \in S : \A y \in S : bottom[x] <= bottom[y]
    <3> HIDE DEF bottom, S
    <3> QED
      BY <1>3, <1>4, <1>9, HasEnds
  <2>2. PICK z \in S : \A y \in S : top[y] <= top[z]
    <3> HIDE DEF top, S
    <3> QED
      BY <1>3, <1>4, <1>9, HasEnds
  <2>3. R # {}
    BY <1>6, <1>9
  <2> HIDE DEF S
  <2>4. List!Min(bottoms) \in bottoms /\ \A b \in bottoms : List!Min(bottoms) <= b
    <3>1. List!Scale(trace, x)[1] \in bottoms /\ \A b \in bottoms : List!Scale(trace, x)[1] <= b
      BY <1>7, <2>1
    <3> HIDE DEF bottoms
    <3> QED
      BY <3>1, Zenon DEF List!Min
  <2>5. List!Max(tops) \in tops /\ \A b \in tops : List!Max(tops) >= b
    <3>1. List!Scale(trace, z)[2] \in tops /\ \A b \in tops : List!Scale(trace, z)[2] >= b
      <4>1. \A y \in S : List!Scale(trace, z)[2] >= List!Scale(trace, y)[2]
        BY <1>2, <2>2
      <4> QED
        BY <1>7, <4>1
    <3> HIDE DEF tops
    <3> QED
      BY <3>1, Zenon DEF List!Max
  <2>6. u = <<List!Min(bottoms), List!Max(tops)>> /\ u # List!Registered
    BY <1>5, <2>3 DEF List!Registered
  <2> DEFINE lo == List!Min(bottoms)
             hi == List!Max(tops)
  <2>7. /\ lo \in Nat /\ hi \in Nat
        /\ \A c \in S : lo <= List!Scale(trace, c)[1] /\ List!Scale(trace, c)[2] <= hi
    BY <1>2, <1>7, <2>4, <2>5
  <2> HIDE DEF u, bottoms, tops
  <2>8. u[1] = lo /\ u[2] = hi
    BY <2>6
  <2> HIDE DEF lo, hi
  <2>9. lo <= hi
    BY <1>2, <1>9, <2>7
  <2>10. Spans(u, trace, keys)
    BY <2>6, <2>7, <2>8 DEF Spans, S
  <2>11. ASSUME NEW c \in DOMAIN trace, List!ToSet(keys) = {c}, IsReal(List!Scale(trace, c))
         PROVE  u = List!Scale(trace, c)
    <3>1. S = {c}
      BY <2>11 DEF S
    <3>2. bottoms = {List!Scale(trace, c)[1]} /\ tops = {List!Scale(trace, c)[2]}
      BY <1>7, <3>1 DEF bottoms, tops
    <3>3. lo = List!Scale(trace, c)[1] /\ hi = List!Scale(trace, c)[2]
      BY <2>4, <2>5, <3>2 DEF lo, hi
    <3>4. u = <<lo, hi>>
      BY <2>6 DEF lo, hi
    <3> QED
      BY <3>3, <3>4, ScaleIs
  <2> QED
    BY <2>7, <2>8, <2>9, <2>10, <2>11 DEF u
<1> QED
  BY <1>8, <1>9

\* A range that the user has not changed is the registered one, and the top that comes back
\* for such a counter does not cut it off.
Untouched(trace, T) == \A c \in DOMAIN trace \ T : trace[c].range = List!Registered

Tops(trace, T) ==
  \A c \in DOMAIN trace \ T :
    IsReal(Reg[c]) => trace[c].userTop = List!NoTop \/ trace[c].userTop >= Reg[c][2]

\* The axis of a panel shows all of the range of its first counter, and little more if that
\* one is alone.
Covers(pn, c) ==
  /\ pn.hi >= Reg[c][2]
  /\ Len(pn.keys) = 1 =>
       pn.lo = Reg[c][1] /\ 10 * (pn.hi - List!Margin(Reg[c])) <= 11 * Reg[c][2]

GoodAxis(pn, T) ==
  /\ pn \in Panel
  /\ pn.set => pn.keys # <<>> /\ (Head(pn.keys) \notin T /\ IsReal(Reg[Head(pn.keys)]) =>
                                   Covers(pn, Head(pn.keys)))

Axes(ps, T) == ps \in [1 .. MaxPanels -> Panel] /\ \A p \in 1 .. MaxPanels : GoodAxis(ps[p], T)

LEMMA MarginIs ==
  ASSUME NEW u, u[1] \in Nat, u[2] \in Nat, u[1] <= u[2]
  PROVE  List!Margin(u) \in Nat
<1>1. u[2] - u[1] \in Nat
  OBVIOUS
<1> QED
  BY <1>1 DEF List!Margin

LEMMA HeadIs ==
  ASSUME NEW S, NEW keys \in Seq(S), Len(keys) >= 1
  PROVE  /\ Head(keys) \in S /\ Head(keys) \in List!ToSet(keys) /\ keys # <<>>
         /\ Len(keys) = 1 => List!ToSet(keys) = {Head(keys)}
<1>1. Head(keys) = keys[1] /\ 1 \in DOMAIN keys /\ keys # <<>> /\ DOMAIN keys = 1 .. Len(keys)
  OBVIOUS
<1>2. Len(keys) = 1 => DOMAIN keys = {1}
  BY <1>1
<1> QED
  BY <1>1, <1>2 DEF List!ToSet

LEMMA RebuiltIs ==
  ASSUME NEW trace \in Traces, NEW T, Untouched(trace, T), Tops(trace, T),
         NEW old, GoodAxis(old, T), NEW keys \in Seq(DOMAIN trace), Len(keys) >= 1
  PROVE  /\ GoodAxis(List!Rebuilt(trace, old, keys), T)
         /\ List!Rebuilt(trace, old, keys).keys = keys
         /\ List!Union(trace, keys) # List!Registered <=> List!Rebuilt(trace, old, keys).set
<1> DEFINE u == List!Union(trace, keys)
           c == Head(keys)
           top == trace[c].userTop
           new == List!Rebuilt(trace, old, keys)
<1>1. /\ u = List!Registered \/ (u[1] \in Nat /\ u[2] \in Nat /\ u[1] <= u[2])
      /\ Spans(u, trace, keys)
      /\ \A d \in DOMAIN trace : List!ToSet(keys) = {d} /\ IsReal(List!Scale(trace, d)) =>
           u = List!Scale(trace, d)
  BY UnionIs
<1>2. c \in DOMAIN trace /\ c \in List!ToSet(keys) /\ keys # <<>> /\ (Len(keys) = 1 => List!ToSet(keys) = {c})
  BY HeadIs
<1>3. keys \in Seq(Counters) /\ c \in Counters /\ top \in Int
  BY <1>2, TracesAre, SeqWider DEF Trace
<1>4. /\ Reg[c] = <<Reg[c][1], Reg[c][2]>> /\ Reg[c][1] \in Nat /\ Reg[c][2] \in Nat
  BY <1>3, ListNames
<1>5. old \in Panel
  BY DEF GoodAxis
<1>6. new = CASE u = List!Registered -> [old EXCEPT !.keys = keys, !.set = FALSE]
              [] u # List!Registered /\ ~List!Recomposed(old, keys) -> [old EXCEPT !.keys = keys]
              [] OTHER -> [keys |-> keys, set |-> TRUE, lo |-> u[1],
                           hi |-> (IF List!Fitting(top, u) THEN top ELSE u[2]) + List!Margin(u)]
  BY Zenon DEF List!Rebuilt
<1> HIDE DEF u, c, top, new
<1>7. CASE u = List!Registered
  <2>1. new = [old EXCEPT !.keys = keys, !.set = FALSE]
    BY <1>6, <1>7, Zenon
  <2>2. new \in Panel /\ new.keys = keys /\ new.set = FALSE
    BY <1>3, <1>5, <2>1 DEF Panel
  <2> QED
    BY <1>7, <2>2 DEF GoodAxis, new, u
<1>8. CASE u # List!Registered /\ ~List!Recomposed(old, keys)
  <2>1. new = [old EXCEPT !.keys = keys]
    BY <1>6, <1>8, Zenon
  <2>2. old.set /\ Head(old.keys) = c /\ Len(old.keys) = Len(keys)
    BY <1>8 DEF List!Recomposed, c
  <2>3. new \in Panel /\ new.keys = keys /\ new.set = old.set /\ new.lo = old.lo /\ new.hi = old.hi
    BY <1>3, <1>5, <2>1 DEF Panel
  <2>4. c \notin T /\ IsReal(Reg[c]) => Covers(old, c)
    BY <2>2 DEF GoodAxis
  <2>5. c \notin T /\ IsReal(Reg[c]) => Covers(new, c)
    BY <2>2, <2>3, <2>4, Zenon DEF Covers
  <2>6. GoodAxis(new, T)
    BY <1>2, <2>3, <2>5 DEF GoodAxis, c
  <2> QED
    BY <1>8, <2>2, <2>3, <2>6 DEF new, u
<1>9. CASE u # List!Registered /\ List!Recomposed(old, keys)
  <2>1. new = [keys |-> keys, set |-> TRUE, lo |-> u[1],
               hi |-> (IF List!Fitting(top, u) THEN top ELSE u[2]) + List!Margin(u)]
    BY <1>6, <1>9, Zenon
  <2>2. u[1] \in Nat /\ u[2] \in Nat /\ u[1] <= u[2]
    BY <1>1, <1>9
  <2>3. List!Margin(u) \in Nat
    BY <2>2, MarginIs
  <2> DEFINE hi == (IF List!Fitting(top, u) THEN top ELSE u[2]) + List!Margin(u)
  <2>4. hi \in Int
    BY <1>3, <2>2, <2>3
  <2>5. List!Fitting(top, u) => top > u[1] /\ 10 * top <= 11 * u[2]
    BY DEF List!Fitting
  <2> HIDE DEF hi
  <2>6. new \in Panel /\ new.keys = keys /\ new.set = TRUE /\ new.lo = u[1] /\ new.hi = hi
    BY <1>3, <2>1, <2>2, <2>4 DEF Panel, hi
  <2>7. ASSUME c \notin T, IsReal(Reg[c]) PROVE Covers(new, c)
    <3>1. List!Scale(trace, c) = Reg[c]
      BY <1>2, <2>7 DEF Untouched, List!Scale
    <3>2. Reg[c][2] <= u[2] /\ u[1] <= Reg[c][1]
      BY <1>1, <1>2, <2>7, <3>1 DEF Spans
    <3>3. top = -1 \/ top >= Reg[c][2]
      BY <1>2, <2>7 DEF Tops, List!NoTop, top
    <3>4. hi >= Reg[c][2]
      BY <1>3, <1>4, <2>2, <2>3, <2>5, <3>2, <3>3 DEF hi
    <3>5. ASSUME Len(keys) = 1
          PROVE  u[1] = Reg[c][1] /\ 10 * (hi - List!Margin(Reg[c])) <= 11 * Reg[c][2]
      <4>1. u = Reg[c]
        BY <1>1, <1>2, <2>7, <3>1, <3>5
      <4>2. PICK mg \in Nat : mg = List!Margin(u) /\ mg = List!Margin(Reg[c])
        BY <2>3, <4>1
      <4>3. 10 * (((IF List!Fitting(top, u) THEN top ELSE u[2]) + mg) - mg) <= 11 * u[2]
        BY <1>3, <2>2, <2>5, <4>2
      <4>4. hi = (IF List!Fitting(top, u) THEN top ELSE u[2]) + mg
        BY <4>2, Zenon DEF hi
      <4>5. 10 * (hi - mg) <= 11 * u[2]
        BY <4>3, <4>4, Zenon
      <4> QED
        BY <4>1, <4>2, <4>5, Zenon
    <3> QED
      BY <2>6, <3>4, <3>5 DEF Covers
  <2>8. GoodAxis(new, T)
    BY <1>2, <2>6, <2>7 DEF GoodAxis, c
  <2> QED
    BY <1>9, <2>6, <2>8 DEF new, u
<1> QED
  BY <1>7, <1>8, <1>9

\* The first panels have the visible counters, and an axis where those have a range.
Shows2(trace, ps) ==
  \A p \in 1 .. List!Active(trace) :
    /\ ps[p].keys = List!Members(List!Order(trace), List!Active(trace), p)
    /\ List!Union(trace, ps[p].keys) # List!Registered <=> ps[p].set

\* What holds of the graphs after each frame.
Drawn(trace, ps, T) ==
  trace \in Traces /\ Untouched(trace, T) /\ Tops(trace, T) /\ Axes(ps, T) /\ Shows2(trace, ps)

SameDrawing(trace, other) ==
  /\ DOMAIN other = DOMAIN trace
  /\ \A c \in DOMAIN trace : /\ other[c].visible = trace[c].visible /\ other[c].mode = trace[c].mode
                             /\ other[c].range = trace[c].range /\ other[c].marked = trace[c].marked

LEMMA BuiltIs ==
  ASSUME NEW trace \in Traces, NEW T, Untouched(trace, T), Tops(trace, T), NEW old, Axes(old, T)
  PROVE  /\ Axes(List!BuildPanelAssignment(trace, old), T)
         /\ Shows2(trace, List!BuildPanelAssignment(trace, old))
<1> DEFINE order == List!Order(trace)
           n == List!Active(trace)
           ps == List!BuildPanelAssignment(trace, old)
<1>1. order \in Seq(DOMAIN trace) /\ n \in 0 .. MaxPanels /\ n <= Len(order)
  BY ActiveIs
<1>2. ps = [p \in 1 .. MaxPanels |-> IF p <= n THEN List!Rebuilt(trace, old[p], List!Members(order, n, p))
                                              ELSE old[p]]
  BY Zenon DEF List!BuildPanelAssignment
<1>3. \A p \in 1 .. MaxPanels : GoodAxis(old[p], T)
  BY DEF Axes
<1> HIDE DEF ps, n, order
<1>4. ASSUME NEW p \in 1 .. n
      PROVE  /\ p \in 1 .. MaxPanels /\ GoodAxis(ps[p], T) /\ ps[p].keys = List!Members(order, n, p)
             /\ List!Union(trace, ps[p].keys) # List!Registered <=> ps[p].set
  <2> DEFINE keys == List!Members(order, n, p)
  <2>1. n \in Nat /\ n >= 1 /\ p \in 1 .. MaxPanels /\ p <= n
    BY <1>1, ListNames
  <2>2. keys \in Seq(DOMAIN trace) /\ Len(keys) >= 1
    BY <1>1, <2>1, MembersAre
  <2>3. ps[p] = List!Rebuilt(trace, old[p], keys)
    BY <1>2, <2>1, Zenon
  <2> HIDE DEF keys
  <2>4. /\ GoodAxis(List!Rebuilt(trace, old[p], keys), T) /\ List!Rebuilt(trace, old[p], keys).keys = keys
        /\ List!Union(trace, keys) # List!Registered <=> List!Rebuilt(trace, old[p], keys).set
    BY <1>3, <2>1, <2>2, RebuiltIs
  <2>5. GoodAxis(ps[p], T) /\ ps[p].keys = keys /\ (List!Union(trace, keys) # List!Registered <=> ps[p].set)
    BY <2>3, <2>4, Zenon
  <2>6. List!Union(trace, ps[p].keys) # List!Registered <=> ps[p].set
    BY <2>5, Zenon
  <2> QED
    BY <2>1, <2>5, <2>6 DEF keys
<1>5. ASSUME NEW p \in 1 .. MaxPanels PROVE GoodAxis(ps[p], T)
  <2>1. CASE p <= n
    <3>1. p \in 1 .. n
      BY <1>1, <2>1
    <3> QED
      BY <1>4, <3>1
  <2>2. CASE ~(p <= n)
    <3>1. ps[p] = old[p]
      BY <1>2, <2>2, Zenon
    <3> QED
      BY <1>3, <3>1, Zenon
  <2> QED
    BY <2>1, <2>2
<1>6. ps \in [1 .. MaxPanels -> Panel]
  <2>1. \A p \in 1 .. MaxPanels : ps[p] \in Panel
    BY <1>5, Zenon DEF GoodAxis
  <2>2. ps = [p \in 1 .. MaxPanels |-> ps[p]]
    BY <1>2, Zenon
  <2> QED
    BY <2>1, <2>2, Zenon
<1>7. Axes(ps, T)
  BY <1>5, <1>6, Zenon DEF Axes
<1>8. Shows2(trace, ps)
  BY <1>4, Zenon DEF Shows2, n, order
<1> QED
  BY <1>7, <1>8 DEF ps

LEMMA CapturedIs ==
  ASSUME NEW trace \in Traces, NEW T, Tops(trace, T), NEW ps, Axes(ps, T)
  PROVE  /\ List!Captured(trace, ps) \in [DOMAIN trace -> Trace]
         /\ Tops(List!Captured(trace, ps), T)
         /\ SameDrawing(trace, List!Captured(trace, ps))
<1> DEFINE n == List!Active(trace)
           Leads(p, c) == ps[p].set /\ Head(ps[p].keys) = c
           One(c) == CHOOSE p \in 1 .. n : Leads(p, c)
           new == List!Captured(trace, ps)
<1>1. new = [c \in DOMAIN trace |-> IF \E p \in 1 .. n : Leads(p, c)
                                    THEN [trace[c] EXCEPT !.userTop = ps[One(c)].hi]
                                    ELSE trace[c]]
  BY Zenon DEF List!Captured
<1>2. n \in 0 .. MaxPanels /\ MaxPanels \in Nat
  BY ActiveIs, ListNames
<1>3. \A c \in DOMAIN trace : trace[c] \in Trace /\ c \in Counters
  BY TracesAre
<1> HIDE DEF new, n
<1>4. \A p \in 1 .. n : p \in 1 .. MaxPanels
  BY <1>2
<1>5. ASSUME NEW c \in DOMAIN trace
      PROVE  /\ new[c] \in Trace
             /\ new[c].visible = trace[c].visible /\ new[c].mode = trace[c].mode
             /\ new[c].range = trace[c].range /\ new[c].marked = trace[c].marked
             /\ c \notin T /\ IsReal(Reg[c]) => new[c].userTop = List!NoTop \/ new[c].userTop >= Reg[c][2]
  <2>1. CASE \E p \in 1 .. n : Leads(p, c)
    <3>1. One(c) \in 1 .. n /\ Leads(One(c), c)
      BY <2>1, Zenon
    <3>2. new[c] = [trace[c] EXCEPT !.userTop = ps[One(c)].hi]
      BY <1>1, <2>1, Zenon
    <3> HIDE DEF One
    <3>3. GoodAxis(ps[One(c)], T)
      BY <1>4, <3>1 DEF Axes
    <3>4. ps[One(c)].hi \in Int
      BY <3>3 DEF GoodAxis, Panel
    <3>5. c \notin T /\ IsReal(Reg[c]) => ps[One(c)].hi >= Reg[c][2]
      BY <3>1, <3>3 DEF GoodAxis, Covers
    <3> HIDE DEF Leads
    <3>6. /\ new[c] \in Trace /\ new[c].userTop = ps[One(c)].hi
          /\ new[c].visible = trace[c].visible /\ new[c].mode = trace[c].mode
          /\ new[c].range = trace[c].range /\ new[c].marked = trace[c].marked
      BY <1>3, <3>2, <3>4 DEF Trace
    <3> QED
      BY <3>5, <3>6
  <2>2. CASE ~ \E p \in 1 .. n : Leads(p, c)
    <3>1. new[c] = trace[c]
      BY <1>1, <2>2, Zenon
    <3> QED
      BY <1>3, <3>1 DEF Tops
  <2> QED
    BY <2>1, <2>2
<1>6. new = [c \in DOMAIN trace |-> new[c]] /\ DOMAIN new = DOMAIN trace
  BY <1>1, Zenon
<1>7. new \in [DOMAIN trace -> Trace]
  BY <1>5, <1>6, Zenon
<1>8. Tops(new, T)
  BY <1>5, <1>6 DEF Tops
<1>9. SameDrawing(trace, new)
  BY <1>5, <1>6, Zenon DEF SameDrawing
<1> QED
  BY <1>7, <1>8, <1>9 DEF new

LEMMA SameOrder ==
  ASSUME NEW trace, NEW other, SameDrawing(trace, other)
  PROVE  /\ List!Order(other) = List!Order(trace) /\ List!Active(other) = List!Active(trace)
         /\ \A c \in DOMAIN trace : List!Scale(other, c) = List!Scale(trace, c)
<1>1. \A c \in DOMAIN trace : List!Scale(other, c) = List!Scale(trace, c)
  BY DEF SameDrawing, List!Scale
<1>2. List!Visible(other) = List!Visible(trace) /\ List!Visible(trace) \subseteq DOMAIN trace
  BY DEF SameDrawing, List!Visible
<1>3. [c \in List!Visible(other) |-> List!Scale(other, c)[1]]
        = [c \in List!Visible(trace) |-> List!Scale(trace, c)[1]]
  BY <1>1, <1>2
<1>4. List!Order(other) = List!Order(trace)
  BY <1>2, <1>3, Zenon DEF List!Order
<1>5. List!Active(other) = List!Active(trace)
  BY <1>2, Zenon DEF List!Active
<1> QED
  BY <1>1, <1>4, <1>5

LEMMA SameUnion ==
  ASSUME NEW trace, NEW other, SameDrawing(trace, other), NEW keys \in Seq(DOMAIN trace)
  PROVE  List!Union(other, keys) = List!Union(trace, keys)
<1>1. List!ToSet(keys) \subseteq DOMAIN trace
  BY DEF List!ToSet
<1>2. {List!Scale(other, c) : c \in List!ToSet(keys)} = {List!Scale(trace, c) : c \in List!ToSet(keys)}
  BY <1>1, SameOrder
<1> QED
  BY <1>2, Zenon DEF List!Union

LEMMA SameShown ==
  ASSUME NEW trace \in Traces, NEW other, SameDrawing(trace, other), NEW ps, Shows2(trace, ps)
  PROVE  Shows2(other, ps)
<1>1. List!Order(other) = List!Order(trace) /\ List!Active(other) = List!Active(trace)
  BY SameOrder
<1>2. ASSUME NEW p \in 1 .. List!Active(trace)
      PROVE  List!Union(other, ps[p].keys) = List!Union(trace, ps[p].keys)
  <2>1. List!Members(List!Order(trace), List!Active(trace), p) \in Seq(DOMAIN trace)
    <3>1. /\ List!Order(trace) \in Seq(DOMAIN trace) /\ List!Active(trace) \in Nat
          /\ List!Active(trace) >= 1 /\ List!Active(trace) <= Len(List!Order(trace))
      BY ActiveIs
    <3> QED
      BY <3>1, MembersAre
  <2>2. ps[p].keys \in Seq(DOMAIN trace)
    BY <2>1 DEF Shows2
  <2> QED
    BY <2>2, SameUnion
<1> QED
  BY <1>1, <1>2, Zenon DEF Shows2

LEMMA DrawKeeps ==
  ASSUME NEW trace \in Traces, NEW T, Untouched(trace, T), Tops(trace, T), NEW old, Axes(old, T),
         NEW ps, ps = List!BuildPanelAssignment(trace, old), NEW new, new = List!Captured(trace, ps)
  PROVE  Drawn(new, ps, T) /\ SameDrawing(trace, new)
<1>1. Axes(ps, T) /\ Shows2(trace, ps)
  BY BuiltIs
<1>2. new \in [DOMAIN trace -> Trace] /\ Tops(new, T) /\ SameDrawing(trace, new)
  BY <1>1, CapturedIs
<1>3. new \in Traces
  BY <1>2, TracesAre, TracesIs, Zenon
<1>4. Untouched(new, T)
  BY <1>2 DEF Untouched, SameDrawing
<1>5. Shows2(new, ps)
  BY <1>1, <1>2, SameShown
<1> QED
  BY <1>1, <1>2, <1>3, <1>4, <1>5 DEF Drawn

LEMMA DrawnShowsAll ==
  ASSUME Drawn(traces, panels, touched)
  PROVE  List!PanelsShowAll
<1> DEFINE n == List!Active(traces)
           order == List!Order(traces)
           q == [p \in 1 .. n |-> panels[p].keys]
<1>0. traces \in Traces /\ Untouched(traces, touched) /\ Axes(panels, touched) /\ Shows2(traces, panels)
  BY DEF Drawn
<1>1. /\ order \in Seq(DOMAIN traces) /\ n \in 0 .. MaxPanels /\ n <= Len(order)
      /\ n = 0 => order = <<>>
  BY <1>0, ActiveIs
<1>2. \A p \in 1 .. n : /\ panels[p].keys = List!Members(order, n, p)
                        /\ List!Union(traces, panels[p].keys) # List!Registered <=> panels[p].set
  BY <1>0, Zenon DEF Shows2
<1>3. MaxPanels \in Nat
  BY ListNames
<1> HIDE DEF n, order
<1>4. List!FlattenSeq(q) = order
  <2>1. CASE n = 0
    <3>1. q = [p \in 1 .. 0 |-> panels[p].keys]
      BY <2>1
    <3> DEFINE none == [p \in 1 .. 0 |-> panels[p].keys]
    <3>4. none \in Seq({1}) /\ Len(none) = 0
      OBVIOUS
    <3> HIDE DEF none
    <3>5. none = <<>>
      BY <3>4
    <3>2. q = <<>> /\ Len(q) = 0
      BY <3>1, <3>4, <3>5 DEF none
    <3>3. List!FlattenSeq(q) = q
      BY <3>2, Zenon DEF List!FlattenSeq
    <3> QED
      BY <1>1, <2>1, <3>2, <3>3
  <2>2. CASE n # 0
    <3>1. n \in Nat /\ n >= 1
      BY <1>1, <1>3, <2>2
    <3>2. q = [p \in 1 .. n |-> List!Members(order, n, p)]
      BY <1>2, Zenon
    <3> HIDE DEF q
    <3> QED
      BY <1>1, <3>1, <3>2, MembersJoin
  <2> QED
    BY <2>1, <2>2
<1>5. ASSUME NEW p \in 1 .. n, Len(panels[p].keys) = 1, Head(panels[p].keys) \notin touched,
             Reg[Head(panels[p].keys)][1] < Reg[Head(panels[p].keys)][2]
      PROVE  /\ panels[p].lo = Reg[Head(panels[p].keys)][1]
             /\ panels[p].hi >= Reg[Head(panels[p].keys)][2]
             /\ 10 * (panels[p].hi - List!Margin(Reg[Head(panels[p].keys)])) <= 11 * Reg[Head(panels[p].keys)][2]
  <2> DEFINE keys == panels[p].keys
             c == Head(keys)
  <2>1. n \in Nat /\ n >= 1 /\ p \in 1 .. MaxPanels
    BY <1>1, <1>3
  <2>2. keys \in Seq(DOMAIN traces) /\ Len(keys) >= 1
    <3>1. List!Members(order, n, p) \in Seq(DOMAIN traces) /\ Len(List!Members(order, n, p)) >= 1
      BY <1>1, <2>1, MembersAre
    <3> QED
      BY <1>2, <3>1
  <2> HIDE DEF keys
  <2>3. c \in DOMAIN traces /\ List!ToSet(keys) = {c}
    <3>1. Len(keys) = 1
      BY <1>5 DEF keys
    <3> QED
      BY <2>2, <3>1, HeadIs
  <2> HIDE DEF c
  <2>4. c \notin touched /\ IsReal(Reg[c])
    BY <1>5 DEF c, keys, IsReal
  <2>5. List!Scale(traces, c) = Reg[c]
    BY <1>0, <2>3, <2>4 DEF Untouched, List!Scale
  <2>6. Spans(List!Union(traces, keys), traces, keys)
    BY <1>0, <2>2, UnionIs
  <2>7. List!Union(traces, keys) # List!Registered
    BY <2>3, <2>4, <2>5, <2>6, Zenon DEF Spans
  <2>8. panels[p].set
    BY <1>2, <2>7, Zenon DEF keys
  <2>9. Covers(panels[p], c)
    BY <1>0, <2>1, <2>4, <2>8, Zenon DEF Axes, GoodAxis, c, keys
  <2> QED
    BY <1>5, <2>9 DEF Covers, c, keys
<1> QED
  BY <1>4, <1>5, Zenon DEF List!PanelsShowAll, n, order

-----------------------------------------------------------------------------
(* The rows of the list, and their groups.                                 *)

Row == [visible : BOOLEAN, enabled : BOOLEAN, mode : List!Modes, range : Ranges2, marked : BOOLEAN]

GroupRows == [hash : {Group[c] : c \in Counters}, list : Seq(Counters)]

\* A group for each hash, and in it a row for each of its counters.
Grouped(gs, K) ==
  /\ gs \in Seq(GroupRows)
  /\ {gs[g].hash : g \in DOMAIN gs} = {Group[c] : c \in K}
  /\ \A g, h \in DOMAIN gs : gs[g].hash = gs[h].hash => g = h
  /\ \A g \in DOMAIN gs : /\ List!ToSet(gs[g].list) = {c \in K : Group[c] = gs[g].hash}
                          /\ \A i, j \in DOMAIN gs[g].list : gs[g].list[i] = gs[g].list[j] => i = j

LEMMA ByMinIs ==
  ASSUME NEW S \in SUBSET Counters
  PROVE  /\ List!ByMin(S) \in Seq(Counters) /\ List!ToSet(List!ByMin(S)) = S
         /\ \A i, j \in DOMAIN List!ByMin(S) : List!ByMin(S)[i] = List!ByMin(S)[j] => i = j
         /\ S # {} => List!ByMin(S)[1] \in Counters
<1> DEFINE num == [c \in S |-> Reg[c][1]]
           a == List!ByMin(S)
<1>1. IsFiniteSet(S)
  BY ListNames, FS_Subset
<1>2. num \in [S -> Int]
  BY ListNames
<1>3. a = List!Ascending(S, num)
  BY Zenon DEF List!ByMin
<1> HIDE DEF num, a
<1>4. IsSorting(a, S, num)
  BY <1>1, <1>2, <1>3, AscendingSorts
<1>5. /\ a \in Seq(S) /\ DOMAIN a = 1 .. Cardinality(S)
      /\ \A i, j \in DOMAIN a : a[i] = a[j] => i = j
      /\ \A x \in S : \E i \in DOMAIN a : a[i] = x
  BY <1>4 DEF IsSorting
<1>6. \A i \in DOMAIN a : a[i] \in S
  BY <1>5, MemberOf
<1>7. List!ToSet(a) = S
  BY <1>5, <1>6 DEF List!ToSet
<1>8. S # {} => a[1] \in Counters
  <2>1. Cardinality(S) \in Nat /\ (S # {} => Cardinality(S) >= 1)
    BY <1>1, FS_CardinalityType, FS_EmptySet
  <2> QED
    BY <1>5, <1>6, <2>1
<1>9. a \in Seq(Counters)
  BY <1>5, SeqWider
<1> QED
  BY <1>5, <1>7, <1>8, <1>9 DEF a

LEMMA ByGroupIs ==
  ASSUME NEW K \in SUBSET Counters
  PROVE  Grouped(List!ByGroup(K), K)
<1> DEFINE of(g) == {c \in K : Group[c] = g}
           H == {Group[c] : c \in K}
           rec(g) == [hash |-> g, list |-> List!ByMin(of(g))]
           R == {rec(g) : g \in H}
           num == [r \in R |-> Reg[r.list[1]][1]]
           gs == List!ByGroup(K)
<1>1. gs = List!Ascending(R, num)
  BY Zenon DEF List!ByGroup, List!Sorted
<1>2. ASSUME NEW g \in H
      PROVE  /\ rec(g) \in GroupRows /\ rec(g).hash = g
             /\ List!ToSet(rec(g).list) = of(g) /\ rec(g).list[1] \in Counters
             /\ \A i, j \in DOMAIN rec(g).list : rec(g).list[i] = rec(g).list[j] => i = j
  <2>1. of(g) \in SUBSET Counters /\ of(g) # {} /\ g \in {Group[c] : c \in Counters}
    OBVIOUS
  <2> DEFINE b == List!ByMin(of(g))
  <2> HIDE DEF of
  <2>2. /\ b \in Seq(Counters) /\ List!ToSet(b) = of(g) /\ b[1] \in Counters
        /\ \A i, j \in DOMAIN b : b[i] = b[j] => i = j
    BY <2>1, ByMinIs
  <2> HIDE DEF b
  <2>3. [hash |-> g, list |-> b] \in GroupRows
    BY <2>1, <2>2 DEF GroupRows
  <2> QED
    BY <2>2, <2>3 DEF b
<1>3. \A r \in R : r.hash \in H /\ r = rec(r.hash) /\ r \in GroupRows
  <2> SUFFICES ASSUME NEW r \in R PROVE r.hash \in H /\ r = rec(r.hash) /\ r \in GroupRows
    OBVIOUS
  <2>1. PICK g \in H : r = rec(g)
    OBVIOUS
  <2>2. rec(g) \in GroupRows /\ rec(g).hash = g
    BY <1>2
  <2> HIDE DEF rec
  <2> QED
    BY <2>1, <2>2, Zenon
<1> HIDE DEF rec
<1>4. IsFiniteSet(R)
  <2> DEFINE f == [c \in K |-> rec(Group[c])]
  <2>1. f \in Surjection(K, R)
    <3>1. f \in [K -> R] /\ \A r \in R : \E c \in K : f[c] = r
      OBVIOUS
    <3> HIDE DEF f, R
    <3> QED
      BY <3>1, Zenon DEF Surjection
  <2>2. IsFiniteSet(K)
    BY ListNames, FS_Subset
  <2> HIDE DEF f, R
  <2> QED
    BY <2>1, <2>2, FS_Surjection
<1>5. num \in [R -> Int]
  <2>1. \A r \in R : r.list[1] \in Counters
    BY <1>2
  <2>2. \A r \in R : Reg[r.list[1]][1] \in Int
    BY <2>1, ListNames
  <2> HIDE DEF R
  <2> QED
    BY <2>2
<1> HIDE DEF num, gs
<1>6. IsSorting(gs, R, num)
  <2> HIDE DEF R
  <2> QED
    BY <1>1, <1>4, <1>5, AscendingSorts
<1>7. /\ gs \in Seq(R)
      /\ \A i, j \in DOMAIN gs : gs[i] = gs[j] => i = j
      /\ \A r \in R : \E i \in DOMAIN gs : gs[i] = r
  BY <1>6, Zenon DEF IsSorting
<1>8. \A g \in DOMAIN gs : gs[g] \in R
  <2> HIDE DEF R
  <2> QED
    BY <1>7
<1>9. gs \in Seq(GroupRows)
  <2>1. R \subseteq GroupRows
    BY <1>3, Zenon
  <2> HIDE DEF R
  <2> QED
    BY <1>7, <2>1, SeqWider
<1>10. {gs[g].hash : g \in DOMAIN gs} = H
  <2>1. \A g \in DOMAIN gs : gs[g].hash \in H
    BY <1>3, <1>8, Zenon
  <2>2. ASSUME NEW k \in H PROVE \E g \in DOMAIN gs : gs[g].hash = k
    <3>1. rec(k) \in R
      OBVIOUS
    <3>2. PICK g \in DOMAIN gs : gs[g] = rec(k)
      BY <1>7, <3>1, Zenon
    <3> QED
      BY <1>2, <3>2
  <2> HIDE DEF H, R
  <2> QED
    BY <2>1, <2>2
<1>11. \A g, h \in DOMAIN gs : gs[g].hash = gs[h].hash => g = h
  <2>1. \A g \in DOMAIN gs : gs[g] = rec(gs[g].hash)
    BY <1>3, <1>8, Zenon
  <2> QED
    BY <1>7, <2>1, Zenon
<1>12. \A g \in DOMAIN gs :
         /\ List!ToSet(gs[g].list) = of(gs[g].hash)
         /\ \A i, j \in DOMAIN gs[g].list : gs[g].list[i] = gs[g].list[j] => i = j
  <2> SUFFICES ASSUME NEW g \in DOMAIN gs
               PROVE  /\ List!ToSet(gs[g].list) = of(gs[g].hash)
                      /\ \A i, j \in DOMAIN gs[g].list : gs[g].list[i] = gs[g].list[j] => i = j
    OBVIOUS
  <2>1. gs[g].hash \in H /\ gs[g] = rec(gs[g].hash)
    BY <1>3, <1>8, Zenon
  <2> HIDE DEF of, H
  <2> QED
    BY <1>2, <2>1, Zenon
<1> QED
  BY <1>9, <1>10, <1>11, <1>12, Zenon DEF Grouped, gs

\* The groups do not become fewer.
LEMMA MoreGroups ==
  ASSUME NEW K, NEW L, K \subseteq L, NEW gs, Grouped(gs, K), NEW hs, Grouped(hs, L)
  PROVE  DOMAIN gs \subseteq DOMAIN hs
<1> DEFINE f == [g \in DOMAIN gs |-> CHOOSE h \in DOMAIN hs : hs[h].hash = gs[g].hash]
<1>1. /\ gs \in Seq(GroupRows) /\ hs \in Seq(GroupRows)
      /\ \A g, h \in DOMAIN gs : gs[g].hash = gs[h].hash => g = h
      /\ {gs[g].hash : g \in DOMAIN gs} \subseteq {hs[h].hash : h \in DOMAIN hs}
  BY DEF Grouped
<1>2. \A g \in DOMAIN gs : \E h \in DOMAIN hs : hs[h].hash = gs[g].hash
  BY <1>1
<1>3. \A g \in DOMAIN gs : f[g] \in DOMAIN hs /\ hs[f[g]].hash = gs[g].hash
  BY <1>2
<1>4. f \in Injection(DOMAIN gs, DOMAIN hs)
  <2>1. f \in [DOMAIN gs -> DOMAIN hs]
    BY <1>3, Zenon
  <2>2. \A a, b \in DOMAIN gs : f[a] = f[b] => a = b
    BY <1>1, <1>3, Zenon
  <2>3. DOMAIN f = DOMAIN gs
    OBVIOUS
  <2> HIDE DEF f
  <2> QED
    BY <2>1, <2>2, <2>3, Zenon DEF Injection, IsInjective
<1>5. /\ DOMAIN gs = 1 .. Len(gs) /\ Len(gs) \in Nat /\ DOMAIN hs = 1 .. Len(hs) /\ Len(hs) \in Nat
  BY <1>1
<1>6. /\ IsFiniteSet(DOMAIN hs) /\ Cardinality(DOMAIN hs) = Len(hs)
      /\ Cardinality(DOMAIN gs) = Len(gs)
  <2>1. \A m \in Nat : IsFiniteSet(1 .. m) /\ Cardinality(1 .. m) = m
    BY FS_Interval
  <2> QED
    BY <1>5, <2>1
<1> HIDE DEF f
<1>7. Cardinality(DOMAIN gs) <= Cardinality(DOMAIN hs)
  BY <1>4, <1>6, FS_Injection
<1> QED
  BY <1>5, <1>6, <1>7

\* A menu or a dialog is for a row of a group.
GoodPopup(pp, gs) ==
  /\ pp \in [at : {"closed", "menu", "dialog"}, g : Nat, i : Nat]
  /\ pp.at # "closed" => pp.g \in DOMAIN gs

ListTypes ==
  /\ List!Known \in SUBSET Counters /\ rows \in [List!Known -> Row]
  /\ plotMode \in List!Modes /\ savedMode \in [Counters -> List!Modes \cup {List!None}]
  /\ told \in [Counters -> BOOLEAN] /\ atOpen \subseteq List!Known
  /\ rowMarked \in List!Known \cup {List!None}
  /\ GoodPopup(popup, groups)

\* A row and its graph tell the same.
Agree(c, row, trace, mark, opened, saved) ==
  /\ trace.visible = row.visible /\ trace.range = row.range
  /\ trace.marked = row.marked /\ row.marked = (c = mark)
  /\ c \in opened => trace.mode = row.mode /\ saved[c] \in {List!None, row.mode}

Twins(all, trace, mark, opened, saved) ==
  /\ DOMAIN trace = DOMAIN all
  /\ \A c \in DOMAIN all : Agree(c, all[c], trace[c], mark, opened, saved)

\* The inductive invariant of the list.
ListInv ==
  /\ ListTypes
  /\ Twins(rows, traces, rowMarked, atOpen, savedMode) /\ traceMarked = rowMarked
  /\ Grouped(groups, List!Known)
  /\ Drawn(traces, panels, touched)

LEMMA ListInvShows ==
  ASSUME ListInv
  PROVE  List!PlotFollowsTree /\ List!PanelsShowAll
<1>1. List!PanelsShowAll
  BY DrawnShowsAll DEF ListInv
<1>2. Twins(rows, traces, rowMarked, atOpen, savedMode) /\ traceMarked = rowMarked
      /\ Grouped(groups, List!Known) /\ List!Known = DOMAIN rows
  BY Zenon DEF ListInv, List!Known
<1>3. List!Known = DOMAIN traces
  BY <1>2, Zenon DEF Twins
<1>4. \A c \in List!Known :
        /\ traces[c].visible = rows[c].visible /\ traces[c].range = rows[c].range
        /\ traces[c].marked = rows[c].marked /\ rows[c].marked = (c = rowMarked)
        /\ c \in atOpen => traces[c].mode = rows[c].mode /\ savedMode[c] \in {List!None, rows[c].mode}
  BY <1>2, Zenon DEF Twins, Agree
<1>5. \A g \in DOMAIN groups :
        /\ List!ToSet(groups[g].list) = List!Of(groups[g].hash)
        /\ \A i, j \in DOMAIN groups[g].list : groups[g].list[i] = groups[g].list[j] => i = j
  BY <1>2, Zenon DEF Grouped, List!Of
<1>6. /\ {groups[g].hash : g \in DOMAIN groups} = {Group[c] : c \in List!Known}
      /\ \A g, h \in DOMAIN groups : groups[g].hash = groups[h].hash => g = h
  BY <1>2, Zenon DEF Grouped
<1>7. List!PlotFollowsTree
  BY <1>2, <1>3, <1>4, <1>5, <1>6, Zenon DEF List!PlotFollowsTree
<1> QED
  BY <1>1, <1>7

LEMMA StillTwins ==
  ASSUME NEW all, NEW trace, NEW mark, NEW opened, NEW saved, Twins(all, trace, mark, opened, saved),
         NEW other, SameDrawing(trace, other)
  PROVE  Twins(all, other, mark, opened, saved)
<1>1. DOMAIN other = DOMAIN all
  BY Zenon DEF Twins, SameDrawing
<1>2. ASSUME NEW c \in DOMAIN all PROVE Agree(c, all[c], other[c], mark, opened, saved)
  <2>1. /\ other[c].visible = trace[c].visible /\ other[c].mode = trace[c].mode
        /\ other[c].range = trace[c].range /\ other[c].marked = trace[c].marked
    BY Zenon DEF Twins, SameDrawing
  <2>2. Agree(c, all[c], trace[c], mark, opened, saved)
    BY Zenon DEF Twins
  <2> QED
    BY <2>1, <2>2 DEF Agree
<1> QED
  BY <1>1, <1>2, Zenon DEF Twins

LEMMA AxesLater ==
  ASSUME NEW ps, NEW T, Axes(ps, T), NEW U, T \subseteq U
  PROVE  Axes(ps, U)
<1>1. ASSUME NEW p \in 1 .. MaxPanels PROVE GoodAxis(ps[p], U)
  BY DEF Axes, GoodAxis
<1> QED
  BY <1>1 DEF Axes

\* The rest of a frame leaves what the input made of both sides.
LEMMA FrameStep ==
  ASSUME ListInv, NEW trace, trace \in [DOMAIN rows' -> Trace], List!Draw(trace),
         touched \subseteq touched', Untouched(trace, touched'), Tops(trace, touched'),
         Twins(rows', trace, rowMarked', atOpen', savedMode'), traceMarked' = rowMarked',
         Grouped(groups', List!Known'), ListTypes'
  PROVE  ListInv'
<1>1. DOMAIN rows' \in SUBSET Counters
  BY Zenon DEF ListTypes, List!Known
<1>2. trace \in Traces
  BY <1>1, TracesIs
<1>3. Axes(panels, touched')
  BY AxesLater DEF ListInv, Drawn
<1>4. panels' = List!BuildPanelAssignment(trace, panels) /\ traces' = List!Captured(trace, panels')
  BY Zenon DEF List!Draw
<1>5. Drawn(traces', panels', touched') /\ SameDrawing(trace, traces')
  BY <1>2, <1>3, <1>4, DrawKeeps
<1>6. Twins(rows', traces', rowMarked', atOpen', savedMode')
  BY <1>5, StillTwins
<1> QED
  BY <1>5, <1>6 DEF ListInv

\* What the input leaves of the scales.
LEMMA SameScales ==
  ASSUME ListInv, NEW trace, DOMAIN trace = DOMAIN traces,
         \A c \in DOMAIN traces : trace[c].range = traces[c].range /\ trace[c].userTop = traces[c].userTop
  PROVE  Untouched(trace, touched) /\ Tops(trace, touched)
<1>1. Untouched(traces, touched) /\ Tops(traces, touched)
  BY Zenon DEF ListInv, Drawn
<1> QED
  BY <1>1 DEF Untouched, Tops

LEMMA ListIs ==
  ASSUME ListInv
  PROVE  /\ List!Known = DOMAIN rows /\ List!Known = DOMAIN traces /\ List!Known \subseteq Counters
         /\ \A c \in List!Known : /\ rows[c] \in Row /\ traces[c] \in Trace
                                  /\ Agree(c, rows[c], traces[c], rowMarked, atOpen, savedMode)
         /\ rows \in [List!Known -> Row] /\ traces \in [List!Known -> Trace]
         /\ traceMarked = rowMarked /\ Grouped(groups, List!Known)
<1>1. List!Known = DOMAIN rows /\ List!Known \subseteq Counters /\ rows \in [List!Known -> Row]
  BY Zenon DEF List!Known, ListInv, ListTypes
<1>2. List!Known = DOMAIN traces /\ \A c \in List!Known : Agree(c, rows[c], traces[c], rowMarked, atOpen, savedMode)
  BY <1>1, Zenon DEF ListInv, Twins
<1>3. traces \in [DOMAIN traces -> Trace]
  BY TracesAre DEF ListInv, Drawn
<1> QED
  BY <1>1, <1>2, <1>3 DEF ListInv

LEMMA RowsStay ==
  ASSUME ListInv, rows' \in [List!Known -> Row]
  PROVE  List!Known' = List!Known /\ DOMAIN rows' = List!Known
<1>1. DOMAIN rows' = List!Known
  OBVIOUS
<1> QED
  BY <1>1, Zenon DEF List!Known

LEMMA TypesStay ==
  ASSUME ListInv, rows' \in [List!Known -> Row], groups' = groups, GoodPopup(popup', groups),
         plotMode' \in List!Modes, savedMode' \in [Counters -> List!Modes \cup {List!None}],
         told' \in [Counters -> BOOLEAN], atOpen' = atOpen, rowMarked' \in List!Known \cup {List!None}
  PROVE  ListTypes' /\ Grouped(groups', List!Known')
<1>1. List!Known' = List!Known
  BY RowsStay
<1>2. ListTypes /\ Grouped(groups, List!Known)
  BY Zenon DEF ListInv
<1>3. ListTypes'
  BY <1>1, <1>2, Zenon DEF ListTypes
<1> QED
  BY <1>1, <1>2, <1>3, Zenon

LEMMA OldTypes ==
  ASSUME ListInv
  PROVE  /\ plotMode \in List!Modes /\ savedMode \in [Counters -> List!Modes \cup {List!None}]
         /\ told \in [Counters -> BOOLEAN] /\ GoodPopup(popup, groups)
         /\ rowMarked \in List!Known \cup {List!None}
BY Zenon DEF ListInv, ListTypes

\* An input that writes to both sides, counter by counter.
TableStep(trace) ==
  /\ rows' = [c \in List!Known |-> rows'[c]] /\ trace = [c \in List!Known |-> trace[c]]
  /\ \A c \in List!Known : /\ rows'[c] \in Row /\ trace[c] \in Trace
                           /\ Agree(c, rows'[c], trace[c], rowMarked', atOpen', savedMode')
  /\ List!Draw(trace) /\ groups' = groups /\ GoodPopup(popup', groups)
  /\ plotMode' \in List!Modes /\ savedMode' \in [Counters -> List!Modes \cup {List!None}]
  /\ told' \in [Counters -> BOOLEAN] /\ atOpen' = atOpen /\ traceMarked' = rowMarked'
  /\ rowMarked' \in List!Known \cup {List!None}

LEMMA TableStepKeeps ==
  ASSUME ListInv, NEW trace, TableStep(trace), touched \subseteq touched',
         Untouched(trace, touched'), Tops(trace, touched')
  PROVE  ListInv'
<1>1. rows' \in [List!Known -> Row] /\ trace \in [List!Known -> Trace]
  BY Zenon DEF TableStep
<1>2. DOMAIN rows' = List!Known /\ DOMAIN trace = List!Known
  BY <1>1, RowsStay
<1>3. Twins(rows', trace, rowMarked', atOpen', savedMode')
  BY <1>2, Zenon DEF Twins, TableStep
<1>4. ListTypes' /\ Grouped(groups', List!Known')
  BY <1>1, TypesStay, Zenon DEF TableStep
<1> QED
  BY <1>1, <1>2, <1>3, <1>4, FrameStep, Zenon DEF TableStep

LEMMA TableStepAtScale ==
  ASSUME ListInv, NEW trace, TableStep(trace), touched' = touched,
         \A c \in List!Known : trace[c].range = traces[c].range /\ trace[c].userTop = traces[c].userTop
  PROVE  ListInv'
<1>1. DOMAIN trace = List!Known /\ List!Known = DOMAIN traces
  <2>1. trace = [c \in List!Known |-> trace[c]]
    BY Zenon DEF TableStep
  <2> QED
    BY <2>1, ListIs
<1>2. Untouched(trace, touched) /\ Tops(trace, touched)
  BY <1>1, SameScales
<1> QED
  BY <1>2, TableStepKeeps

\* Each kind of input: first the visible ones.
LEMMA SetVisibleKeeps ==
  ASSUME ListInv, NEW S, NEW v \in BOOLEAN, List!SetVisible(S, v)
  PROVE  ListInv'
<1> DEFINE trace == [c \in List!Known |-> IF c \in S THEN [traces[c] EXCEPT !.visible = v] ELSE traces[c]]
<1>1. /\ rows' = [c \in List!Known |-> IF c \in S THEN [rows[c] EXCEPT !.visible = v] ELSE rows[c]]
      /\ List!Draw(trace)
      /\ groups' = groups /\ rowMarked' = rowMarked /\ popup' = popup /\ traceMarked' = traceMarked
      /\ plotMode' = plotMode /\ savedMode' = savedMode /\ told' = told /\ atOpen' = atOpen
      /\ touched' = touched
  BY DEF List!SetVisible, List!pastVars
<1>2. ASSUME NEW c \in List!Known
      PROVE  /\ rows'[c] \in Row /\ trace[c] \in Trace
             /\ Agree(c, rows'[c], trace[c], rowMarked, atOpen, savedMode)
             /\ trace[c].range = traces[c].range /\ trace[c].userTop = traces[c].userTop
  <2>1. rows[c] \in Row /\ traces[c] \in Trace /\ Agree(c, rows[c], traces[c], rowMarked, atOpen, savedMode)
    BY ListIs
  <2>2. CASE c \in S
    <3>1. rows'[c] = [rows[c] EXCEPT !.visible = v] /\ trace[c] = [traces[c] EXCEPT !.visible = v]
      BY <1>1, <2>2
    <3> HIDE DEF trace
    <3> QED
      BY <2>1, <3>1 DEF Row, Trace, Agree
  <2>3. CASE c \notin S
    <3>1. rows'[c] = rows[c] /\ trace[c] = traces[c]
      BY <1>1, <2>3
    <3> QED
      BY <2>1, <3>1, Zenon
  <2> QED
    BY <2>2, <2>3
<1>3. rows' = [c \in List!Known |-> rows'[c]] /\ trace = [c \in List!Known |-> trace[c]]
  BY <1>1, Zenon
<1> HIDE DEF trace
<1>4. TableStep(trace)
  BY <1>1, <1>2, <1>3, ListIs, OldTypes, Zenon DEF TableStep
<1> QED
  BY <1>1, <1>2, <1>4, TableStepAtScale

LEMMA SetEnabledKeeps ==
  ASSUME ListInv, NEW S, NEW v \in BOOLEAN, List!SetEnabled(S, v), told' \in [Counters -> BOOLEAN],
         popup' = popup
  PROVE  ListInv'
<1>1. /\ rows' = [c \in List!Known |-> IF c \in S THEN [rows[c] EXCEPT !.enabled = v] ELSE rows[c]]
      /\ List!Draw(traces)
      /\ groups' = groups /\ rowMarked' = rowMarked /\ traceMarked' = traceMarked
      /\ plotMode' = plotMode /\ savedMode' = savedMode /\ atOpen' = atOpen /\ touched' = touched
  BY DEF List!SetEnabled
<1>2. ASSUME NEW c \in List!Known
      PROVE  /\ rows'[c] \in Row /\ traces[c] \in Trace
             /\ Agree(c, rows'[c], traces[c], rowMarked, atOpen, savedMode)
  <2>1. rows[c] \in Row /\ traces[c] \in Trace /\ Agree(c, rows[c], traces[c], rowMarked, atOpen, savedMode)
    BY ListIs
  <2>2. CASE c \in S
    <3>1. rows'[c] = [rows[c] EXCEPT !.enabled = v]
      BY <1>1, <2>2
    <3> QED
      BY <2>1, <3>1 DEF Row, Agree
  <2>3. CASE c \notin S
    <3>1. rows'[c] = rows[c]
      BY <1>1, <2>3
    <3> QED
      BY <2>1, <3>1, Zenon
  <2> QED
    BY <2>2, <2>3
<1>3. rows' = [c \in List!Known |-> rows'[c]]
  BY <1>1, Zenon
<1>4. traces = [c \in List!Known |-> traces[c]]
  BY ListIs
<1>5. TableStep(traces)
  BY <1>1, <1>2, <1>3, <1>4, ListIs, OldTypes, Zenon DEF TableStep
<1> QED
  BY <1>1, <1>5, TableStepAtScale

LEMMA MarkKeeps ==
  ASSUME ListInv, NEW c \in List!Known \cup {List!None}, List!Mark(c), GoodPopup(popup', groups)
  PROVE  ListInv'
<1> DEFINE trace == [d \in DOMAIN traces |-> [traces[d] EXCEPT !.marked = (d = c)]]
<1>1. /\ rows' = [d \in DOMAIN rows |-> [rows[d] EXCEPT !.marked = (d = c)]] /\ rowMarked' = c
      /\ List!Draw(trace) /\ traceMarked' = c
      /\ groups' = groups /\ plotMode' = plotMode /\ savedMode' = savedMode /\ told' = told
      /\ atOpen' = atOpen /\ touched' = touched
  BY DEF List!Mark, List!pastVars
<1>2. ASSUME NEW d \in List!Known
      PROVE  /\ rows'[d] \in Row /\ trace[d] \in Trace
             /\ Agree(d, rows'[d], trace[d], c, atOpen, savedMode)
             /\ trace[d].range = traces[d].range /\ trace[d].userTop = traces[d].userTop
  <2>1. /\ rows[d] \in Row /\ traces[d] \in Trace /\ d \in DOMAIN rows /\ d \in DOMAIN traces
        /\ Agree(d, rows[d], traces[d], rowMarked, atOpen, savedMode)
    BY ListIs
  <2>2. PICK b \in BOOLEAN : b = (d = c)
    OBVIOUS
  <2>3. rows'[d] = [rows[d] EXCEPT !.marked = b] /\ trace[d] = [traces[d] EXCEPT !.marked = b]
    BY <1>1, <2>1, <2>2
  <2> HIDE DEF trace
  <2>4. /\ rows'[d] \in Row /\ trace[d] \in Trace /\ rows'[d].marked = b /\ trace[d].marked = b
        /\ trace[d].range = traces[d].range /\ trace[d].userTop = traces[d].userTop
        /\ rows'[d].visible = rows[d].visible /\ rows'[d].range = rows[d].range /\ rows'[d].mode = rows[d].mode
        /\ trace[d].visible = traces[d].visible /\ trace[d].mode = traces[d].mode
    BY <2>1, <2>3 DEF Row, Trace
  <2>5. Agree(d, rows'[d], trace[d], c, atOpen, savedMode)
    BY <2>1, <2>2, <2>4 DEF Agree
  <2> QED
    BY <2>4, <2>5
<1>3. rows' = [d \in List!Known |-> rows'[d]] /\ trace = [d \in List!Known |-> trace[d]]
  <2>1. DOMAIN rows = List!Known /\ DOMAIN traces = List!Known
    BY ListIs
  <2> QED
    BY <1>1, <2>1, Zenon
<1> HIDE DEF trace
<1>4. TableStep(trace)
  BY <1>1, <1>2, <1>3, OldTypes, Zenon DEF TableStep
<1> QED
  BY <1>1, <1>2, <1>4, TableStepAtScale

LEMMA TargetIs ==
  ASSUME ListInv, popup.at # "closed", popup.i \in DOMAIN groups[popup.g].list
  PROVE  List!Target \in List!Known
<1>1. popup.g \in DOMAIN groups /\ Grouped(groups, List!Known)
  BY OldTypes, ListIs DEF GoodPopup
<1>2. List!ToSet(groups[popup.g].list) \subseteq List!Known
  BY <1>1 DEF Grouped
<1> QED
  BY <1>2 DEF List!Target, List!ToSet

LEMMA ClosedIsGood ==
  ASSUME NEW gs
  PROVE  GoodPopup(List!Closed, gs)
BY DEF GoodPopup, List!Closed

LEMMA SetRangeKeeps ==
  ASSUME ListInv, NEW r \in Ranges2, List!Target \in List!Known, List!SetRange(r)
  PROVE  ListInv'
<1> DEFINE t == List!Target
           trace == [traces EXCEPT ![t].range = r]
<1>1. /\ rows' = [rows EXCEPT ![t].range = r] /\ List!Draw(trace) /\ touched' = touched \cup {t}
      /\ popup' = List!Closed
      /\ groups' = groups /\ rowMarked' = rowMarked /\ traceMarked' = traceMarked
      /\ plotMode' = plotMode /\ savedMode' = savedMode /\ told' = told /\ atOpen' = atOpen
  BY DEF List!SetRange
<1>2. t \in List!Known
  OBVIOUS
<1>3. rows \in [List!Known -> Row] /\ traces \in [List!Known -> Trace]
  BY ListIs
<1> HIDE DEF t
<1>4. ASSUME NEW c \in List!Known
      PROVE  /\ rows'[c] \in Row /\ trace[c] \in Trace
             /\ Agree(c, rows'[c], trace[c], rowMarked, atOpen, savedMode)
             /\ trace[c].userTop = traces[c].userTop
             /\ c # t => trace[c].range = traces[c].range
  <2>1. rows[c] \in Row /\ traces[c] \in Trace /\ Agree(c, rows[c], traces[c], rowMarked, atOpen, savedMode)
    BY ListIs
  <2>2. CASE c = t
    <3>1. rows'[c] = [rows[c] EXCEPT !.range = r] /\ trace[c] = [traces[c] EXCEPT !.range = r]
      BY <1>1, <1>3, <2>2
    <3> HIDE DEF trace
    <3> QED
      BY <2>1, <2>2, <3>1 DEF Row, Trace, Agree
  <2>3. CASE c # t
    <3>1. rows'[c] = rows[c] /\ trace[c] = traces[c]
      BY <1>1, <1>3, <2>3
    <3> QED
      BY <2>1, <3>1, Zenon
  <2> QED
    BY <2>2, <2>3
<1>5. DOMAIN trace = List!Known /\ DOMAIN rows' = List!Known
  BY <1>1, <1>3
<1>6. rows' = [c \in List!Known |-> rows'[c]] /\ trace = [c \in List!Known |-> trace[c]]
  BY <1>1, <1>3
<1> HIDE DEF trace
<1>7. TableStep(trace)
  BY <1>1, <1>4, <1>6, ListIs, OldTypes, ClosedIsGood, Zenon DEF TableStep
<1>8. Untouched(traces, touched) /\ Tops(traces, touched) /\ DOMAIN traces = List!Known
  BY ListIs, Zenon DEF ListInv, Drawn
<1>9. Untouched(trace, touched') /\ Tops(trace, touched')
  BY <1>1, <1>4, <1>5, <1>8 DEF Untouched, Tops
<1> QED
  BY <1>1, <1>7, <1>9, TableStepKeeps

LEMMA ChooseModeKeeps ==
  ASSUME ListInv, NEW mode \in List!Modes, List!ChooseMode(mode)
  PROVE  ListInv'
<1> DEFINE t == List!Target
           trace == [traces EXCEPT ![t].mode = mode]
<1>1. /\ rows' = [rows EXCEPT ![t].mode = mode] /\ List!Draw(trace)
      /\ savedMode' = [savedMode EXCEPT ![t] = mode] /\ popup' = popup
      /\ groups' = groups /\ rowMarked' = rowMarked /\ traceMarked' = traceMarked
      /\ plotMode' = plotMode /\ told' = told /\ atOpen' = atOpen /\ touched' = touched
      /\ popup.at # "closed" /\ popup.i \in DOMAIN groups[popup.g].list
  BY DEF List!ChooseMode, List!Choose
<1>2. t \in List!Known /\ List!Known \subseteq Counters
  BY <1>1, TargetIs, ListIs
<1>3. rows \in [List!Known -> Row] /\ traces \in [List!Known -> Trace]
      /\ savedMode \in [Counters -> List!Modes \cup {List!None}]
  BY ListIs, OldTypes
<1> HIDE DEF t
<1>4. ASSUME NEW c \in List!Known
      PROVE  /\ rows'[c] \in Row /\ trace[c] \in Trace
             /\ Agree(c, rows'[c], trace[c], rowMarked, atOpen, savedMode')
             /\ trace[c].userTop = traces[c].userTop /\ trace[c].range = traces[c].range
  <2>1. rows[c] \in Row /\ traces[c] \in Trace /\ Agree(c, rows[c], traces[c], rowMarked, atOpen, savedMode)
    BY ListIs
  <2>2. CASE c = t
    <3>1. rows'[c] = [rows[c] EXCEPT !.mode = mode] /\ trace[c] = [traces[c] EXCEPT !.mode = mode]
      BY <1>1, <1>3, <2>2
    <3>2. savedMode'[c] = mode
      BY <1>1, <1>2, <1>3, <2>2
    <3> HIDE DEF trace
    <3> QED
      BY <2>1, <2>2, <3>1, <3>2 DEF Row, Trace, Agree
  <2>3. CASE c # t
    <3>1. rows'[c] = rows[c] /\ trace[c] = traces[c] /\ savedMode'[c] = savedMode[c]
      BY <1>1, <1>2, <1>3, <2>3
    <3> HIDE DEF trace
    <3> QED
      BY <2>1, <3>1 DEF Agree
  <2> QED
    BY <2>2, <2>3
<1>5. rows' = [c \in List!Known |-> rows'[c]] /\ trace = [c \in List!Known |-> trace[c]]
  BY <1>1, <1>3
<1>6. savedMode' \in [Counters -> List!Modes \cup {List!None}]
  BY <1>1, <1>3
<1> HIDE DEF trace
<1>7. TableStep(trace)
  BY <1>1, <1>4, <1>5, <1>6, ListIs, OldTypes, Zenon DEF TableStep
<1> QED
  BY <1>1, <1>4, <1>7, TableStepAtScale

LEMMA BatchModeKeeps ==
  ASSUME ListInv, NEW mode \in List!Modes, List!BatchSetVizMode(mode)
  PROVE  ListInv'
<1> DEFINE trace == [c \in List!Known |-> [traces[c] EXCEPT !.mode = mode]]
<1>1. /\ rows' = [c \in List!Known |-> [rows[c] EXCEPT !.mode = mode]] /\ List!Draw(trace)
      /\ savedMode' = [c \in Counters |-> IF c \in List!Known THEN mode ELSE savedMode[c]]
      /\ popup' = popup /\ plotMode' = mode
      /\ groups' = groups /\ rowMarked' = rowMarked /\ traceMarked' = traceMarked
      /\ told' = told /\ atOpen' = atOpen /\ touched' = touched
  BY DEF List!BatchSetVizMode
<1>2. List!Known \subseteq Counters /\ savedMode \in [Counters -> List!Modes \cup {List!None}]
  BY ListIs, OldTypes
<1>3. ASSUME NEW c \in List!Known
      PROVE  /\ rows'[c] \in Row /\ trace[c] \in Trace
             /\ Agree(c, rows'[c], trace[c], rowMarked, atOpen, savedMode')
             /\ trace[c].userTop = traces[c].userTop /\ trace[c].range = traces[c].range
  <2>1. rows[c] \in Row /\ traces[c] \in Trace /\ Agree(c, rows[c], traces[c], rowMarked, atOpen, savedMode)
    BY ListIs
  <2>2. /\ rows'[c] = [rows[c] EXCEPT !.mode = mode] /\ trace[c] = [traces[c] EXCEPT !.mode = mode]
        /\ savedMode'[c] = mode
    BY <1>1, <1>2
  <2> HIDE DEF trace
  <2> QED
    BY <2>1, <2>2 DEF Row, Trace, Agree
<1>4. rows' = [c \in List!Known |-> rows'[c]] /\ trace = [c \in List!Known |-> trace[c]]
  BY <1>1, Zenon
<1>5. savedMode' \in [Counters -> List!Modes \cup {List!None}]
  BY <1>1, <1>2
<1> HIDE DEF trace
<1>6. TableStep(trace)
  BY <1>1, <1>3, <1>4, <1>5, ListIs, OldTypes, Zenon DEF TableStep
<1> QED
  BY <1>1, <1>3, <1>6, TableStepAtScale

\* Inputs that write to neither side.
LEMMA SameTables ==
  ASSUME ListInv, List!Draw(traces),
         rows' = rows /\ rowMarked' = rowMarked /\ traceMarked' = traceMarked,
         plotMode' = plotMode /\ savedMode' = savedMode /\ told' = told,
         atOpen' = atOpen /\ touched' = touched,
         Grouped(groups', List!Known), GoodPopup(popup', groups')
  PROVE  ListInv'
<1>1. List!Known' = List!Known
  BY RowsStay, ListIs
<1>2. ListTypes'
  BY <1>1, Zenon DEF ListInv, ListTypes
<1>3. Untouched(traces, touched) /\ Tops(traces, touched)
  BY Zenon DEF ListInv, Drawn
<1>4. Twins(rows', traces, rowMarked', atOpen', savedMode') /\ traceMarked' = rowMarked'
  BY Zenon DEF ListInv
<1>5. traces \in [DOMAIN rows' -> Trace]
  BY ListIs, <1>1
<1> QED
  BY <1>1, <1>2, <1>3, <1>4, <1>5, FrameStep, Zenon

LEMMA SwapKeeps ==
  ASSUME NEW gs, NEW K, Grouped(gs, K), NEW g \in DOMAIN gs, NEW a \in DOMAIN gs[g].list, NEW b \in DOMAIN gs[g].list,
         NEW new, new = [gs EXCEPT ![g].list = [@ EXCEPT ![a] = gs[g].list[b], ![b] = gs[g].list[a]]]
  PROVE  Grouped(new, K)
<1> DEFINE l == gs[g].list
           m == [l EXCEPT ![a] = l[b], ![b] = l[a]]
<1>1. /\ gs \in Seq(GroupRows) /\ gs[g] \in GroupRows /\ \A h \in DOMAIN gs : gs[h] \in GroupRows
  BY DEF Grouped
<1>2. l \in Seq(Counters) /\ a \in DOMAIN l /\ b \in DOMAIN l
  BY <1>1 DEF GroupRows
<1>3. new = [gs EXCEPT ![g] = [gs[g] EXCEPT !.list = m]]
  BY <1>1
<1>4. /\ m \in Seq(Counters) /\ DOMAIN m = DOMAIN l
      /\ \A i \in DOMAIN l : m[i] = IF i = b THEN l[a] ELSE IF i = a THEN l[b] ELSE l[i]
  BY <1>2
<1>5. /\ List!ToSet(l) = {c \in K : Group[c] = gs[g].hash}
      /\ \A i, j \in DOMAIN l : l[i] = l[j] => i = j
  BY DEF Grouped
<1> HIDE DEF l, m
<1>6. List!ToSet(m) = List!ToSet(l)
  <2>1. \A i \in DOMAIN l : m[i] \in List!ToSet(l)
    BY <1>2, <1>4 DEF List!ToSet
  <2>2. ASSUME NEW i \in DOMAIN l PROVE \E j \in DOMAIN m : m[j] = l[i]
    <3>1. m[b] = l[a] /\ (a # b => m[a] = l[b]) /\ (i # a /\ i # b => m[i] = l[i])
      BY <1>2, <1>4
    <3> QED
      BY <1>2, <1>4, <3>1
  <2> QED
    BY <1>4, <2>1, <2>2 DEF List!ToSet
<1>7. \A i, j \in DOMAIN m : m[i] = m[j] => i = j
  BY <1>2, <1>4, <1>5
<1>8. /\ new \in Seq(GroupRows) /\ DOMAIN new = DOMAIN gs
      /\ \A h \in DOMAIN gs : new[h].hash = gs[h].hash /\ (h # g => new[h] = gs[h])
      /\ new[g].list = m
  <2>1. [gs[g] EXCEPT !.list = m] \in GroupRows /\ [gs[g] EXCEPT !.list = m].hash = gs[g].hash
        /\ [gs[g] EXCEPT !.list = m].list = m
    BY <1>1, <1>4 DEF GroupRows
  <2> DEFINE rec == [gs[g] EXCEPT !.list = m]
  <2> HIDE DEF rec
  <2>2. new = [gs EXCEPT ![g] = rec] /\ rec \in GroupRows /\ rec.hash = gs[g].hash /\ rec.list = m
    BY <1>3, <2>1, Zenon DEF rec
  <2>3. new \in Seq(GroupRows) /\ DOMAIN new = DOMAIN gs
    BY <1>1, <2>2
  <2>4. new[g] = rec /\ \A h \in DOMAIN gs : h # g => new[h] = gs[h]
    BY <2>2
  <2>5. \A h \in DOMAIN gs : new[h].hash = gs[h].hash
    BY <2>2, <2>4, Zenon
  <2> QED
    BY <2>2, <2>3, <2>4, <2>5, Zenon
<1>9. {new[h].hash : h \in DOMAIN new} = {gs[h].hash : h \in DOMAIN gs}
  BY <1>8
<1>10. ASSUME NEW h \in DOMAIN new
       PROVE  /\ List!ToSet(new[h].list) = {c \in K : Group[c] = new[h].hash}
              /\ \A i, j \in DOMAIN new[h].list : new[h].list[i] = new[h].list[j] => i = j
  <2>1. CASE h = g
    <3>1. new[h].list = m /\ new[h].hash = gs[g].hash
      BY <1>8, <2>1
    <3>2. {c \in K : Group[c] = new[h].hash} = {c \in K : Group[c] = gs[g].hash}
      BY <3>1
    <3> QED
      BY <1>5, <1>6, <1>7, <3>1, <3>2
  <2>2. CASE h # g
    <3>1. new[h] = gs[h] /\ h \in DOMAIN gs
      BY <1>8, <2>2
    <3>2. {c \in K : Group[c] = new[h].hash} = {c \in K : Group[c] = gs[h].hash}
      BY <3>1
    <3>3. /\ List!ToSet(gs[h].list) = {c \in K : Group[c] = gs[h].hash}
          /\ \A i, j \in DOMAIN gs[h].list : gs[h].list[i] = gs[h].list[j] => i = j
      BY <3>1 DEF Grouped
    <3>4. List!ToSet(new[h].list) = List!ToSet(gs[h].list) /\ new[h].list = gs[h].list
      BY <3>1, Zenon
    <3>5. \A i, j \in DOMAIN new[h].list : new[h].list[i] = new[h].list[j] => i = j
      BY <3>3, <3>4
    <3> QED
      BY <3>2, <3>3, <3>4, <3>5, Zenon
  <2> QED
    BY <2>1, <2>2
<1>11. /\ {gs[h].hash : h \in DOMAIN gs} = {Group[c] : c \in K}
       /\ \A h, k \in DOMAIN gs : gs[h].hash = gs[k].hash => h = k
  BY Zenon DEF Grouped
<1>12. \A h, k \in DOMAIN new : new[h].hash = new[k].hash => h = k
  BY <1>8, <1>11
<1> QED
  BY <1>8, <1>9, <1>10, <1>11, <1>12, Zenon DEF Grouped

LEMMA DropKeeps ==
  ASSUME ListInv, NEW g \in DOMAIN groups, NEW from, NEW to, List!Drop(g, from, to)
  PROVE  ListInv'
<1>1. /\ from \in DOMAIN groups[g].list /\ to \in DOMAIN groups[g].list
      /\ groups' = [groups EXCEPT ![g].list = [@ EXCEPT ![from] = groups[g].list[to], ![to] = groups[g].list[from]]]
      /\ List!Draw(traces)
      /\ rows' = rows /\ rowMarked' = rowMarked /\ popup' = popup /\ traceMarked' = traceMarked
      /\ plotMode' = plotMode /\ savedMode' = savedMode /\ told' = told /\ atOpen' = atOpen
      /\ touched' = touched
  BY DEF List!Drop, List!pastVars
<1>2. Grouped(groups', List!Known)
  BY <1>1, ListIs, SwapKeeps, Zenon
<1>3. DOMAIN groups' = DOMAIN groups
  BY <1>1
<1>4. GoodPopup(popup', groups')
  BY <1>1, <1>3, OldTypes DEF GoodPopup
<1> QED
  BY <1>1, <1>2, <1>4, SameTables, Zenon

\* The menu alone.
LEMMA PopupKeeps ==
  ASSUME ListInv, List!Draw(traces), GoodPopup(popup', groups),
         UNCHANGED <<groups, rows, rowMarked, traceMarked, plotMode, List!pastVars>>
  PROVE  ListInv'
<1>1. /\ groups' = groups /\ rows' = rows /\ rowMarked' = rowMarked /\ traceMarked' = traceMarked
      /\ plotMode' = plotMode /\ savedMode' = savedMode /\ told' = told /\ atOpen' = atOpen
      /\ touched' = touched
  BY DEF List!pastVars
<1> QED
  BY <1>1, SameTables, ListIs, Zenon

LEMMA AddKeeps ==
  ASSUME ListInv, NEW meta \in SUBSET Counters, List!Known \subseteq meta, List!AddCounters(meta)
  PROVE  ListInv'
<1> DEFINE K == List!Known
           trace == [c \in meta |-> IF c \in K THEN traces[c] ELSE List!NewTrace(plotMode)]
<1>1. /\ rows' = [c \in meta |-> IF c \in meta \ K THEN List!NewRow ELSE rows[c]]
      /\ List!Draw(trace) /\ groups' = List!ByGroup(meta)
      /\ rowMarked' = rowMarked /\ popup' = popup /\ traceMarked' = traceMarked
      /\ plotMode' = plotMode /\ savedMode' = savedMode /\ told' = told /\ atOpen' = atOpen
      /\ touched' = touched
  BY DEF List!AddCounters, List!pastVars, List!Unknown
<1>2. List!Known' = meta /\ DOMAIN rows' = meta
  <2>1. DOMAIN rows' = meta
    BY <1>1
  <2> QED
    BY <2>1, Zenon DEF List!Known
<1>3. /\ K = DOMAIN rows /\ K = DOMAIN traces /\ K \subseteq Counters
      /\ rowMarked \in K \cup {List!None} /\ atOpen \subseteq K /\ List!None \notin Counters
  BY ListIs, ListNames, OldTypes, Zenon DEF ListInv, ListTypes
<1>4. List!NewRow \in Row /\ List!NewTrace(plotMode) \in Trace
      /\ List!NewTrace(plotMode).range = List!Registered /\ List!NewTrace(plotMode).userTop = List!NoTop
      /\ List!NewTrace(plotMode).visible = List!NewRow.visible /\ List!NewRow.range = List!Registered
      /\ List!NewTrace(plotMode).marked = FALSE /\ List!NewRow.marked = FALSE
  BY OldTypes DEF List!NewRow, List!NewTrace, Row, Trace, List!Modes, Ranges2, List!Registered, List!NoTop
<1> HIDE DEF K
<1>5. ASSUME NEW c \in meta
      PROVE  /\ rows'[c] \in Row /\ trace[c] \in Trace
             /\ Agree(c, rows'[c], trace[c], rowMarked, atOpen, savedMode)
             /\ IF c \in K
                THEN trace[c].range = traces[c].range /\ trace[c].userTop = traces[c].userTop
                ELSE trace[c].range = List!Registered /\ trace[c].userTop = List!NoTop
  <2>1. CASE c \in K
    <3>1. rows'[c] = rows[c] /\ trace[c] = traces[c]
      BY <1>1, <2>1
    <3>2. rows[c] \in Row /\ traces[c] \in Trace /\ Agree(c, rows[c], traces[c], rowMarked, atOpen, savedMode)
      BY <2>1, ListIs DEF K
    <3> HIDE DEF trace
    <3> QED
      BY <2>1, <3>1, <3>2, Zenon
  <2>2. CASE c \notin K
    <3>1. rows'[c] = List!NewRow /\ trace[c] = List!NewTrace(plotMode)
      BY <1>1, <2>2
    <3>2. c # rowMarked /\ c \notin atOpen
      BY <1>3, <2>2
    <3> HIDE DEF trace
    <3> QED
      BY <1>4, <2>2, <3>1, <3>2 DEF Agree
  <2> QED
    BY <2>1, <2>2
<1>6. trace \in [meta -> Trace] /\ rows' \in [meta -> Row] /\ DOMAIN trace = meta
  <2>1. trace = [c \in meta |-> trace[c]] /\ rows' = [c \in meta |-> rows'[c]] /\ DOMAIN trace = meta
    BY <1>1
  <2> HIDE DEF trace
  <2> QED
    BY <1>5, <2>1, Zenon
<1> HIDE DEF trace
<1>7. Untouched(traces, touched) /\ Tops(traces, touched)
  BY Zenon DEF ListInv, Drawn
<1>8. Untouched(trace, touched) /\ Tops(trace, touched)
  BY <1>3, <1>5, <1>6, <1>7 DEF Untouched, Tops
<1>9. Twins(rows', trace, rowMarked', atOpen', savedMode')
  BY <1>1, <1>2, <1>5, <1>6, Zenon DEF Twins
<1>10. Grouped(groups', meta) /\ Grouped(groups, K)
  BY <1>1, ByGroupIs, ListIs, Zenon DEF K
<1>11. GoodPopup(popup', groups')
  <2>1. DOMAIN groups \subseteq DOMAIN groups'
    BY <1>10, MoreGroups DEF K
  <2> QED
    BY <1>1, <2>1, OldTypes DEF GoodPopup
<1>12. ListTypes'
  <2>1. /\ plotMode \in List!Modes /\ savedMode \in [Counters -> List!Modes \cup {List!None}]
        /\ told \in [Counters -> BOOLEAN]
    BY OldTypes
  <2>2. atOpen \subseteq meta /\ rowMarked \in meta \cup {List!None}
    BY <1>3 DEF K
  <2> QED
    BY <1>1, <1>2, <1>6, <1>11, <2>1, <2>2, Zenon DEF ListTypes
<1> QED
  BY <1>1, <1>2, <1>6, <1>8, <1>9, <1>10, <1>12, FrameStep, ListIs, Zenon DEF ListInv

-----------------------------------------------------------------------------
(* The window opens.                                                       *)

LEMMA OpenIs ==
  ASSUME NEW K \in SUBSET Counters, NEW saved \in [Counters -> List!Modes \cup {List!None}]
  PROVE  /\ List!TracesAtOpen(K, saved) \in Traces /\ DOMAIN List!TracesAtOpen(K, saved) = K
         /\ Untouched(List!TracesAtOpen(K, saved), {}) /\ Tops(List!TracesAtOpen(K, saved), {})
         /\ \A c \in K : /\ List!RowsAtOpen(K, saved)[c] \in Row
                         /\ Agree(c, List!RowsAtOpen(K, saved)[c], List!TracesAtOpen(K, saved)[c],
                                  List!None, K, saved)
         /\ DOMAIN List!RowsAtOpen(K, saved) = K
<1> DEFINE mode(c) == List!ModeAtOpen(c, saved)
           new == List!TracesAtOpen(K, saved)
           all == List!RowsAtOpen(K, saved)
<1>1. new = [c \in K |-> List!NewTrace(mode(c))] /\ all = [c \in K |-> [List!NewRow EXCEPT !.mode = mode(c)]]
  BY Zenon DEF List!TracesAtOpen, List!RowsAtOpen
<1>2. DOMAIN new = K /\ DOMAIN all = K
  BY <1>1
<1>3. ASSUME NEW c \in K
      PROVE  /\ new[c] \in Trace /\ new[c].range = List!Registered /\ new[c].userTop = List!NoTop
             /\ all[c] \in Row /\ Agree(c, all[c], new[c], List!None, K, saved)
  <2>1. new[c] = List!NewTrace(mode(c)) /\ all[c] = [List!NewRow EXCEPT !.mode = mode(c)]
    BY <1>1
  <2>2. c \in Counters /\ c # List!None
    BY ListNames
  <2>3. mode(c) \in List!Modes /\ saved[c] \in {List!None, mode(c)}
    BY <2>2 DEF List!ModeAtOpen, List!Modes
  <2> HIDE DEF mode, new, all
  <2>4. /\ new[c] \in Trace /\ new[c].range = List!Registered /\ new[c].userTop = List!NoTop
        /\ new[c].visible = TRUE /\ new[c].marked = FALSE /\ new[c].mode = mode(c)
    BY <2>1, <2>3 DEF List!NewTrace, Trace, Ranges2, List!Registered, List!NoTop
  <2>5. /\ all[c] \in Row /\ all[c].visible = TRUE /\ all[c].marked = FALSE /\ all[c].mode = mode(c)
        /\ all[c].range = List!Registered
    BY <2>1, <2>3 DEF List!NewRow, Row, Ranges2, List!Registered
  <2>6. Agree(c, all[c], new[c], List!None, K, saved)
    BY <2>2, <2>3, <2>4, <2>5 DEF Agree
  <2> QED
    BY <2>4, <2>5, <2>6
<1> HIDE DEF new, all
<1>4. new \in [K -> Trace]
  <2>1. new = [c \in K |-> new[c]]
    BY <1>1, Zenon
  <2> QED
    BY <1>3, <2>1, Zenon
<1>5. new \in Traces
  BY <1>4, TracesIs
<1>6. Untouched(new, {}) /\ Tops(new, {})
  BY <1>2, <1>3 DEF Untouched, Tops
<1> QED
  BY <1>2, <1>3, <1>5, <1>6, Zenon DEF new, all

LEMMA OpenDraws ==
  ASSUME NEW K \in SUBSET Counters, NEW saved \in [Counters -> List!Modes \cup {List!None}],
         NEW ps, ps = List!PanelsAtOpen(K, saved),
         NEW new, new = List!Captured(List!TracesAtOpen(K, saved), ps)
  PROVE  Drawn(new, ps, {}) /\ SameDrawing(List!TracesAtOpen(K, saved), new)
<1> DEFINE trace == List!TracesAtOpen(K, saved)
           old == [p \in 1 .. MaxPanels |-> List!NoPanel]
<1>1. trace \in Traces /\ Untouched(trace, {}) /\ Tops(trace, {})
  BY OpenIs
<1>2. ps = List!BuildPanelAssignment(trace, old)
  BY Zenon DEF List!PanelsAtOpen
<1>3. Axes(old, {})
  <2>1. List!NoPanel \in Panel /\ List!NoPanel.set = FALSE
    BY DEF List!NoPanel, Panel
  <2>2. old \in [1 .. MaxPanels -> Panel] /\ \A p \in 1 .. MaxPanels : old[p] = List!NoPanel
    BY <2>1
  <2> HIDE DEF old
  <2> QED
    BY <2>1, <2>2 DEF Axes, GoodAxis
<1> HIDE DEF trace, old
<1>4. new = List!Captured(trace, ps)
  BY DEF trace
<1> QED
  BY <1>1, <1>2, <1>3, <1>4, DrawKeeps DEF trace

LEMMA ReopenKeeps ==
  ASSUME ListInv, List!Reopen
  PROVE  ListInv'
<1> DEFINE K == List!Known
           trace == List!TracesAtOpen(K, savedMode)
           all == List!RowsAtOpen(K, savedMode)
<1>1. /\ groups' = List!ByGroup(K) /\ rows' = [c \in K |-> [all[c] EXCEPT !.enabled = told[c]]]
      /\ rowMarked' = List!None /\ popup' = List!Closed
      /\ panels' = List!PanelsAtOpen(K, savedMode) /\ traces' = List!Captured(trace, panels')
      /\ traceMarked' = List!None /\ plotMode' = "range" /\ atOpen' = K /\ touched' = {}
      /\ savedMode' = savedMode /\ told' = told
  BY DEF List!Reopen
<1>2. /\ K \in SUBSET Counters /\ savedMode \in [Counters -> List!Modes \cup {List!None}]
      /\ told \in [Counters -> BOOLEAN]
  BY ListIs, OldTypes
<1>3. /\ DOMAIN trace = K
      /\ \A c \in K : all[c] \in Row /\ Agree(c, all[c], trace[c], List!None, K, savedMode)
  BY <1>2, OpenIs
<1>4. Drawn(traces', panels', {}) /\ SameDrawing(trace, traces')
  BY <1>1, <1>2, OpenDraws
<1>5. List!Known' = K /\ DOMAIN rows' = K
  <2>1. DOMAIN rows' = K
    BY <1>1
  <2> QED
    BY <2>1, Zenon DEF List!Known
<1> HIDE DEF K, trace, all
<1>6. ASSUME NEW c \in K PROVE rows'[c] \in Row /\ Agree(c, rows'[c], trace[c], List!None, K, savedMode)
  <2>1. rows'[c] = [all[c] EXCEPT !.enabled = told[c]] /\ told[c] \in BOOLEAN
    BY <1>1, <1>2
  <2>2. all[c] \in Row /\ Agree(c, all[c], trace[c], List!None, K, savedMode)
    BY <1>3
  <2> QED
    BY <2>1, <2>2 DEF Row, Agree
<1>7. rows' \in [K -> Row]
  <2>1. rows' = [c \in K |-> rows'[c]]
    BY <1>1, Zenon
  <2> QED
    BY <1>6, <2>1, Zenon
<1>8. Twins(rows', trace, rowMarked', atOpen', savedMode')
  BY <1>1, <1>3, <1>5, <1>6, Zenon DEF Twins
<1>9. Twins(rows', traces', rowMarked', atOpen', savedMode')
  BY <1>4, <1>8, StillTwins
<1>10. Grouped(groups', K)
  BY <1>1, <1>2, ByGroupIs, Zenon
<1>11. ListTypes'
  <2>1. "range" \in List!Modes /\ GoodPopup(popup', groups')
    BY <1>1, ClosedIsGood DEF List!Modes
  <2>2. K \subseteq K /\ List!None \in K \cup {List!None}
    OBVIOUS
  <2> QED
    BY <1>1, <1>2, <1>5, <1>7, <2>1, <2>2, Zenon DEF ListTypes
<1> QED
  BY <1>1, <1>4, <1>5, <1>9, <1>10, <1>11, Zenon DEF ListInv

LEMMA ListStarts ==
  ASSUME List!Init
  PROVE  ListInv
<1> DEFINE K == FirstKnown
           trace == List!TracesAtOpen(K, savedMode)
<1>1. /\ savedMode = [c \in Counters |-> List!None] /\ told = [c \in Counters |-> TRUE]
      /\ groups = List!ByGroup(K) /\ rows = List!RowsAtOpen(K, savedMode)
      /\ rowMarked = List!None /\ popup = List!Closed
      /\ panels = List!PanelsAtOpen(K, savedMode) /\ traces = List!Captured(trace, panels)
      /\ traceMarked = List!None /\ plotMode = "range" /\ atOpen = K /\ touched = {}
  BY DEF List!Init
<1>2. /\ K \in SUBSET Counters /\ savedMode \in [Counters -> List!Modes \cup {List!None}]
      /\ told \in [Counters -> BOOLEAN]
  BY <1>1, ListNames
<1>3. /\ DOMAIN trace = K /\ DOMAIN rows = K
      /\ \A c \in K : rows[c] \in Row /\ Agree(c, rows[c], trace[c], List!None, K, savedMode)
  BY <1>1, <1>2, OpenIs
<1>4. Drawn(traces, panels, {}) /\ SameDrawing(trace, traces)
  BY <1>1, <1>2, OpenDraws
<1>5. List!Known = K
  BY <1>3, Zenon DEF List!Known
<1>6. rows \in [K -> Row]
  <2>1. rows = [c \in K |-> rows[c]]
    BY <1>1 DEF List!RowsAtOpen
  <2> HIDE DEF K
  <2> QED
    BY <1>3, <2>1, Zenon
<1> HIDE DEF K, trace
<1>8. Twins(rows, trace, rowMarked, atOpen, savedMode)
  BY <1>1, <1>3, Zenon DEF Twins
<1>9. Twins(rows, traces, rowMarked, atOpen, savedMode)
  BY <1>4, <1>8, StillTwins
<1>10. Grouped(groups, K)
  BY <1>1, <1>2, ByGroupIs, Zenon
<1>11. ListTypes
  <2>1. "range" \in List!Modes /\ GoodPopup(popup, groups)
    BY <1>1, ClosedIsGood DEF List!Modes
  <2>2. K \subseteq K /\ List!None \in K \cup {List!None}
    OBVIOUS
  <2> QED
    BY <1>1, <1>2, <1>5, <1>6, <2>1, <2>2, Zenon DEF ListTypes
<1> QED
  BY <1>1, <1>4, <1>5, <1>9, <1>10, <1>11, Zenon DEF ListInv

LEMMA GreatestOfTwo ==
  ASSUME NEW a \in Int, NEW b \in Int
  PROVE  List!Max({a, b}) \in Int
BY LeastOfTwo

LEMMA ZoomKeeps ==
  ASSUME ListInv, NEW p \in 1 .. MaxPanels, NEW num \in Nat, NEW den \in {4, 5}, List!ZoomY(p, num, den)
  PROVE  ListInv'
<1> DEFINE keys == panels[p].keys
           c == Head(keys)
           u == List!Union(traces, keys)
           top == List!Max({panels[p].hi, u[2]})
           hi == u[1] + List!Max({((top - u[1]) * num) \div den, (u[2] - u[1]) \div 100})
<1>1. /\ p <= List!Active(traces) /\ panels[p].set
      /\ panels' = [panels EXCEPT ![p].lo = u[1], ![p].hi = hi]
      /\ traces' = [traces EXCEPT ![c].userTop = hi]
      /\ touched' = touched \cup {c}
      /\ rows' = rows /\ groups' = groups /\ rowMarked' = rowMarked /\ popup' = popup
      /\ traceMarked' = traceMarked /\ plotMode' = plotMode /\ savedMode' = savedMode
      /\ told' = told /\ atOpen' = atOpen
  BY DEF List!ZoomY, List!listVars
<1>2. /\ traces \in Traces /\ Untouched(traces, touched) /\ Tops(traces, touched)
      /\ Axes(panels, touched) /\ Shows2(traces, panels)
  BY Zenon DEF ListInv, Drawn
<1>3. /\ List!Order(traces) \in Seq(DOMAIN traces) /\ List!Active(traces) \in 0 .. MaxPanels
      /\ List!Active(traces) <= Len(List!Order(traces)) /\ MaxPanels \in Nat
  BY <1>2, ActiveIs, ListNames
<1>4. p \in 1 .. List!Active(traces) /\ List!Active(traces) \in Nat /\ List!Active(traces) >= 1
  BY <1>1, <1>3
<1>5. keys = List!Members(List!Order(traces), List!Active(traces), p) /\ u # List!Registered
  BY <1>1, <1>2, <1>4 DEF Shows2
<1>6. keys \in Seq(DOMAIN traces) /\ Len(keys) >= 1
  BY <1>3, <1>4, <1>5, MembersAre
<1>7. u[1] \in Nat /\ u[2] \in Nat
  BY <1>2, <1>5, <1>6, UnionIs
<1>8. c \in DOMAIN traces /\ keys # <<>>
  BY <1>6, HeadIs
<1>9. panels \in [1 .. MaxPanels -> Panel] /\ panels[p] \in Panel
  BY <1>2 DEF Axes
<1> HIDE DEF u
<1>10. top \in Int
  BY <1>7, <1>9, GreatestOfTwo DEF Panel
<1> HIDE DEF top
<1>11. hi \in Int
  <2>1. ((top - u[1]) * num) \in Int /\ (u[2] - u[1]) \in Int
    BY <1>7, <1>10
  <2>2. ((top - u[1]) * num) \div den \in Int /\ (u[2] - u[1]) \div 100 \in Int
    BY <2>1
  <2>3. List!Max({((top - u[1]) * num) \div den, (u[2] - u[1]) \div 100}) \in Int
    BY <2>2, GreatestOfTwo
  <2> QED
    BY <1>7, <2>3
<1> HIDE DEF hi
<1>12. ASSUME NEW q \in 1 .. MaxPanels
       PROVE  /\ GoodAxis(panels'[q], touched') /\ panels'[q].keys = panels[q].keys
              /\ panels'[q].set = panels[q].set
  <2>1. GoodAxis(panels[q], touched)
    BY <1>2 DEF Axes
  <2>2. CASE q = p
    <3>1. panels'[q] = [panels[q] EXCEPT !.lo = u[1], !.hi = hi]
      BY <1>1, <1>9, <2>2
    <3>2. panels[q] \in Panel /\ u[1] \in Int
      BY <1>7, <1>9
    <3>3. /\ panels'[q] \in Panel /\ panels'[q].keys = panels[q].keys /\ panels'[q].set = panels[q].set
      <4> HIDE DEF keys, c
      <4> QED
        BY <1>11, <3>1, <3>2 DEF Panel
    <3>4. Head(panels'[q].keys) \in touched' /\ panels'[q].keys # <<>>
      BY <1>1, <1>8, <2>2, <3>3
    <3> QED
      BY <3>3, <3>4 DEF GoodAxis
  <2>3. CASE q # p
    <3>1. panels'[q] = panels[q]
      BY <1>1, <1>9, <2>3
    <3> QED
      BY <1>1, <2>1, <3>1 DEF GoodAxis
  <2> QED
    BY <2>2, <2>3
<1>13. panels' \in [1 .. MaxPanels -> Panel]
  <2>1. DOMAIN panels' = 1 .. MaxPanels /\ panels' = [q \in DOMAIN panels' |-> panels'[q]]
    BY <1>1, <1>9
  <2>2. \A q \in 1 .. MaxPanels : panels'[q] \in Panel
    BY <1>12, Zenon DEF GoodAxis
  <2> QED
    BY <2>1, <2>2, Zenon
<1>14. Axes(panels', touched')
  BY <1>12, <1>13, Zenon DEF Axes
<1>15. traces \in [DOMAIN traces -> Trace] /\ DOMAIN traces \subseteq Counters
  BY <1>2, TracesAre
<1>16. ASSUME NEW d \in DOMAIN traces
       PROVE  /\ traces'[d] \in Trace /\ (d # c => traces'[d].userTop = traces[d].userTop)
              /\ traces'[d].visible = traces[d].visible /\ traces'[d].mode = traces[d].mode
              /\ traces'[d].range = traces[d].range /\ traces'[d].marked = traces[d].marked
  <2>1. traces[d] \in Trace
    BY <1>15
  <2>2. CASE d = c
    <3>1. traces'[d] = [traces[d] EXCEPT !.userTop = hi]
      BY <1>1, <1>15, <2>2
    <3> QED
      BY <1>11, <2>1, <2>2, <3>1 DEF Trace
  <2>3. CASE d # c
    <3>1. traces'[d] = traces[d]
      BY <1>1, <1>15, <2>3
    <3> QED
      BY <2>1, <3>1
  <2> QED
    BY <2>2, <2>3
<1>17. traces' \in [DOMAIN traces -> Trace] /\ DOMAIN traces' = DOMAIN traces
  <2>1. DOMAIN traces' = DOMAIN traces /\ traces' = [d \in DOMAIN traces |-> traces'[d]]
    BY <1>1, <1>15
  <2> QED
    BY <1>16, <2>1, Zenon
<1>18. SameDrawing(traces, traces') /\ traces' \in Traces
  BY <1>15, <1>16, <1>17, TracesIs DEF SameDrawing
<1>19. Untouched(traces', touched') /\ Tops(traces', touched')
  BY <1>1, <1>2, <1>16, <1>17 DEF Untouched, Tops
<1>20. Shows2(traces', panels)
  BY <1>2, <1>18, SameShown
<1>21. Shows2(traces', panels')
  <2>1. List!Active(traces') \in 0 .. MaxPanels
    BY <1>18, ActiveIs
  <2>2. ASSUME NEW q \in 1 .. List!Active(traces') PROVE q \in 1 .. MaxPanels
    BY <1>3, <2>1
  <2> QED
    BY <1>12, <1>20, <2>2, Zenon DEF Shows2
<1>22. Drawn(traces', panels', touched')
  BY <1>14, <1>18, <1>19, <1>21, Zenon DEF Drawn
<1>23. List!Known' = List!Known
  BY <1>1, RowsStay, ListIs
<1>24. ListTypes' /\ Grouped(groups', List!Known')
  BY <1>1, <1>23, Zenon DEF ListInv, ListTypes
<1>25. Twins(rows', traces', rowMarked', atOpen', savedMode') /\ traceMarked' = rowMarked'
  BY <1>1, <1>18, StillTwins, Zenon DEF ListInv
<1> QED
  BY <1>22, <1>24, <1>25, Zenon DEF ListInv

-----------------------------------------------------------------------------
(* Every input.                                                            *)

LEMMA BoxesKeep ==
  ASSUME ListInv, List!Boxes
  PROVE  ListInv'
<1>1. told \in [Counters -> BOOLEAN]
  BY OldTypes
<1>2. ASSUME NEW S, NEW v, List!SetVisible(S, v), v \in BOOLEAN PROVE ListInv'
  BY <1>2, SetVisibleKeeps
<1>3. ASSUME NEW S, NEW v, List!SetEnabled(S, v), v \in BOOLEAN, List!Tell(S, v) \/ UNCHANGED told,
             popup' = popup
      PROVE  ListInv'
  <2>1. told' \in [Counters -> BOOLEAN]
    BY <1>1, <1>3 DEF List!Tell
  <2> QED
    BY <1>3, <2>1, SetEnabledKeeps
<1>4. \A b : (~b) \in BOOLEAN
  BY Opposite
<1>5. ASSUME NEW c \in List!Known, List!CheckVisible(c) \/ List!CheckEnabled(c) PROVE ListInv'
  <2>1. CASE List!CheckVisible(c)
    BY <1>2, <1>4, <2>1, Zenon DEF List!CheckVisible
  <2>2. CASE List!CheckEnabled(c)
    <3>1. popup' = popup
      BY <2>2 DEF List!CheckEnabled, List!SetEnabled
    <3> QED
      BY <1>3, <1>4, <2>2, <3>1, Zenon DEF List!CheckEnabled
  <2> QED
    BY <1>5, <2>1, <2>2
<1>6. ASSUME NEW g, List!CheckGroupVisible(g) \/ List!CheckGroupEnabled(g) PROVE ListInv'
  <2>1. CASE List!CheckGroupVisible(g)
    BY <1>2, <1>4, <2>1, Zenon DEF List!CheckGroupVisible
  <2>2. CASE List!CheckGroupEnabled(g)
    <3>1. popup' = popup
      BY <2>2 DEF List!CheckGroupEnabled, List!SetEnabled
    <3> QED
      BY <1>3, <1>4, <2>2, <3>1, Zenon DEF List!CheckGroupEnabled
  <2> QED
    BY <1>6, <2>1, <2>2
<1>7. ASSUME NEW g, NEW f, List!CheckFolderVisible(g, f) \/ List!CheckFolderEnabled(g, f) PROVE ListInv'
  <2>1. CASE List!CheckFolderVisible(g, f)
    BY <1>2, <1>4, <2>1, Zenon DEF List!CheckFolderVisible
  <2>2. CASE List!CheckFolderEnabled(g, f)
    <3>1. popup' = popup
      BY <2>2 DEF List!CheckFolderEnabled, List!SetEnabled
    <3> QED
      BY <1>3, <1>4, <2>2, <3>1, Zenon DEF List!CheckFolderEnabled
  <2> QED
    BY <1>7, <2>1, <2>2
<1>8. CASE List!ShowAll
  BY <1>2, <1>8, Zenon DEF List!ShowAll
<1>9. CASE List!HideAll
  BY <1>2, <1>9, Zenon DEF List!HideAll
<1> QED
  BY <1>5, <1>6, <1>7, <1>8, <1>9, Zenon DEF List!Boxes

LEMMA MenuKeeps ==
  ASSUME ListInv, List!Menu
  PROVE  ListInv'
<1>1. GoodPopup(popup, groups) /\ rowMarked \in List!Known \cup {List!None}
  BY OldTypes
<1>2. groups \in Seq(GroupRows)
  BY ListIs DEF Grouped
<1>3. ASSUME NEW g \in DOMAIN groups, NEW i \in DOMAIN groups[g].list, List!RightClick(g, i) PROVE ListInv'
  <2>1. /\ popup' = [at |-> "menu", g |-> g, i |-> i] /\ List!Draw(traces)
        /\ UNCHANGED <<groups, rows, rowMarked, traceMarked, plotMode, List!pastVars>>
    BY <1>3 DEF List!RightClick
  <2>2. i \in Nat /\ g \in Nat
    <3>1. groups[g] \in GroupRows /\ g \in Nat
      BY <1>2
    <3>2. groups[g].list \in Seq(Counters)
      BY <3>1 DEF GroupRows
    <3> QED
      BY <3>1, <3>2
  <2>3. GoodPopup(popup', groups)
    BY <2>1, <2>2 DEF GoodPopup
  <2> QED
    BY <2>1, <2>3, PopupKeeps
<1>4. CASE List!ChooseHighlight
  <2>1. /\ popup.at # "closed" /\ popup.i \in DOMAIN groups[popup.g].list /\ popup' = List!Closed
        /\ List!Mark(IF rowMarked = List!Target THEN List!None ELSE List!Target)
    BY <1>4 DEF List!ChooseHighlight, List!Choose
  <2>2. List!Target \in List!Known
    BY <2>1, TargetIs
  <2>3. (IF rowMarked = List!Target THEN List!None ELSE List!Target) \in List!Known \cup {List!None}
    BY <2>2
  <2> QED
    BY <2>1, <2>3, MarkKeeps, ClosedIsGood
<1>5. CASE List!ChooseRange
  <2>1. /\ popup.at = "menu" /\ popup' = [popup EXCEPT !.at = "dialog"] /\ List!Draw(traces)
        /\ UNCHANGED <<groups, rows, rowMarked, traceMarked, plotMode, List!pastVars>>
    BY <1>5 DEF List!ChooseRange, List!Choose
  <2>2. GoodPopup(popup', groups)
    BY <1>1, <2>1 DEF GoodPopup
  <2> QED
    BY <2>1, <2>2, PopupKeeps
<1>6. CASE List!ResetRange
  <2>1. /\ popup.at # "closed" /\ popup.i \in DOMAIN groups[popup.g].list
        /\ List!SetRange(List!Registered)
    BY <1>6 DEF List!ResetRange, List!Choose
  <2>2. List!Registered \in Ranges2
    BY DEF List!Registered, Ranges2
  <2> QED
    BY <2>1, <2>2, TargetIs, SetRangeKeeps
<1>7. CASE List!Dismiss
  <2>1. /\ popup' = List!Closed /\ List!Draw(traces)
        /\ UNCHANGED <<groups, rows, rowMarked, traceMarked, plotMode, List!pastVars>>
    BY <1>7 DEF List!Dismiss
  <2> QED
    BY <2>1, ClosedIsGood, PopupKeeps
<1>8. ASSUME NEW c \in Counters, NEW r \in Custom[c], List!ApplyRange(r) PROVE ListInv'
  <2>1. /\ popup.at # "closed" /\ popup.i \in DOMAIN groups[popup.g].list /\ List!SetRange(r)
    BY <1>8 DEF List!ApplyRange, List!Choose
  <2>2. r \in Ranges2
    BY ListNames DEF Ranges2
  <2> QED
    BY <2>1, <2>2, TargetIs, SetRangeKeeps
<1>9. ASSUME NEW mode \in List!Modes, List!ChooseMode(mode) PROVE ListInv'
  BY <1>9, ChooseModeKeeps
<1> QED
  BY <1>3, <1>4, <1>5, <1>6, <1>7, <1>8, <1>9, Zenon DEF List!Menu

LEMMA NextKeeps ==
  ASSUME ListInv, List!Next
  PROVE  ListInv'
<1>1. /\ told \in [Counters -> BOOLEAN] /\ GoodPopup(popup, groups)
      /\ rowMarked \in List!Known \cup {List!None} /\ List!Known \subseteq Counters
  BY OldTypes, ListIs
<1>2. ASSUME NEW more \in SUBSET (Counters \ List!Known), List!AddCounters(List!Known \cup more) PROVE ListInv'
  <2>1. List!Known \cup more \in SUBSET Counters /\ List!Known \subseteq List!Known \cup more
    BY <1>1
  <2> QED
    BY <1>2, <2>1, AddKeeps
<1>3. ASSUME NEW c \in List!Known, NEW v \in BOOLEAN, List!SetCounterEnabled(c, v) PROVE ListInv'
  <2>1. List!SetEnabled({c}, v) /\ List!Tell({c}, v)
    BY <1>3 DEF List!SetCounterEnabled
  <2>2. popup' = popup
    BY <2>1 DEF List!SetEnabled
  <2>3. told' \in [Counters -> BOOLEAN]
    BY <1>1, <2>1 DEF List!Tell
  <2> QED
    BY <2>1, <2>2, <2>3, SetEnabledKeeps
<1>4. ASSUME NEW c \in List!Known, List!ClickName(c) PROVE ListInv'
  <2>1. List!Mark(IF rowMarked = c THEN List!None ELSE c) /\ popup' = popup
    BY <1>4 DEF List!ClickName
  <2>2. (IF rowMarked = c THEN List!None ELSE c) \in List!Known \cup {List!None}
    OBVIOUS
  <2>3. GoodPopup(popup', groups)
    BY <1>1, <2>1, Zenon
  <2> QED
    BY <2>1, <2>2, <2>3, MarkKeeps
<1>5. ASSUME NEW c \in List!Known \cup {List!None}, List!ClickPlot(c) PROVE ListInv'
  <2>1. List!Mark(c) /\ popup' = popup
    BY <1>5 DEF List!ClickPlot
  <2>3. GoodPopup(popup', groups)
    BY <1>1, <2>1, Zenon
  <2> QED
    BY <2>1, <2>3, MarkKeeps
<1>6. ASSUME NEW g \in DOMAIN groups, NEW i, NEW j, List!Drop(g, i, j) PROVE ListInv'
  BY <1>6, DropKeeps
<1>7. ASSUME NEW mode \in List!Modes, List!BatchSetVizMode(mode) PROVE ListInv'
  BY <1>7, BatchModeKeeps
<1>8. ASSUME NEW p \in 1 .. MaxPanels, List!ZoomY(p, 4, 5) \/ List!ZoomY(p, 5, 4) PROVE ListInv'
  BY <1>8, ZoomKeeps
<1> QED
  BY BoxesKeep, MenuKeeps, ReopenKeeps, <1>2, <1>3, <1>4, <1>5, <1>6, <1>7, <1>8, Zenon DEF List!Next

LEMMA ListPart ==
  ListInv /\ [PartsNext]_<<part, vars, listVars, viewVars, firstVars>> => ListInv'
<1> SUFFICES ASSUME ListInv, [PartsNext]_<<part, vars, listVars, viewVars, firstVars>> PROVE ListInv'
  OBVIOUS
<1>1. CASE List!Next
  BY <1>1, NextKeeps
<1>2. CASE UNCHANGED listVars
  <2>1. /\ groups' = groups /\ rows' = rows /\ rowMarked' = rowMarked /\ popup' = popup
        /\ traces' = traces /\ traceMarked' = traceMarked /\ plotMode' = plotMode /\ panels' = panels
        /\ savedMode' = savedMode /\ told' = told /\ atOpen' = atOpen /\ touched' = touched
    BY <1>2 DEF listVars
  <2>2. List!Known' = List!Known
    BY <2>1, RowsStay, ListIs
  <2> QED
    BY <2>1, <2>2, Zenon DEF ListInv, ListTypes
<1> QED
  BY <1>1, <1>2 DEF PartsNext

\* However the user and the program change it, the list and the graphs tell the same
\* (CounterTree and WaveformRenderer), and every counter has its one row.
THEOREM PlotIsFollowed == PartsSpec => []PlotFollowsTree
<1>1. PartsInit => ListInv
  BY ListStarts DEF PartsInit
<1>2. ListInv /\ [PartsNext]_<<part, vars, listVars, viewVars, firstVars>> => ListInv'
  BY ListPart
<1>3. ListInv => PlotFollowsTree
  BY ListInvShows DEF PlotFollowsTree
<1> QED
  BY <1>1, <1>2, <1>3, PTL DEF PartsSpec

\* Every visible counter has its place in the panels, and one that is alone in its panel is
\* shown at its scale, whatever panels there were before (WaveformRenderer).
THEOREM PanelsAreFull == PartsSpec => []PanelsShowAll
<1>1. PartsInit => ListInv
  BY ListStarts DEF PartsInit
<1>2. ListInv /\ [PartsNext]_<<part, vars, listVars, viewVars, firstVars>> => ListInv'
  BY ListPart
<1>3. ListInv => PanelsShowAll
  BY ListInvShows DEF PanelsShowAll
<1> QED
  BY <1>1, <1>2, <1>3, PTL DEF PartsSpec

=============================================================================
