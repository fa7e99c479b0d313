------------------------------ MODULE LogStore ------------------------------
(***************************************************************************)
(* kv8scope's LogStore: the consumer thread pushes decoded trace-log       *)
(* records and call-site descriptors into two pending queues, the render   *)
(* thread merges both into the time-sorted vector that the log panel and   *)
(* the waveform markers read. Levels, messages, filters and the CSV export *)
(* are left out; a descriptor is its site hash, and an entry carries the   *)
(* number of its record so that two records are never alike.               *)
(***************************************************************************)
EXTENDS Naturals, Sequences, SequencesExt

CONSTANTS
  Sites,       \* hashes of the call sites
  Stamps,      \* values of tsNs
  MaxRecords,  \* bound: log records pushed
  MaxPending   \* bound: descriptors pending at a time

ASSUME LogStoreAssumption == Stamps \subseteq Nat /\ MaxRecords \in Nat /\ MaxPending \in Nat

Record == [num : Nat, ts : Stamps, site : Sites]
Entry  == [num : Nat, ts : Stamps, site : Sites, resolved : BOOLEAN]

VARIABLES
  entries,         \* Seq(Entry)      m_entries
  sites,           \* SUBSET Sites    keys of m_sites
  pendingEntries,  \* Seq(Record)     m_pendingEntries
  pendingSites,    \* Seq(Sites)      m_pendingSites
  pushed           \* history: records pushed so far

storeVars == <<entries, sites, pendingEntries, pendingSites, pushed>>

\* the constructor of ScopeWindow seeds the sites that DiscoverSessions found
SeedLogSites(known) ==
  /\ entries = <<>> /\ sites = {} /\ pendingEntries = <<>> /\ pendingSites = <<>> /\ pushed = 0
  /\ sites' = known
  /\ UNCHANGED <<entries, pendingEntries, pendingSites, pushed>>

StoreInit ==
  /\ entries = <<>> /\ sites = {} /\ pendingEntries = <<>> /\ pendingSites = <<>> /\ pushed = 0

PushLogRecord(ts, site) ==
  /\ pushed < MaxRecords
  /\ pushed' = pushed + 1
  /\ pendingEntries' = Append(pendingEntries, [num |-> pushed + 1, ts |-> ts, site |-> site])
  /\ UNCHANGED <<entries, sites, pendingSites>>

PushLogSite(site) ==
  /\ Len(pendingSites) < MaxPending
  /\ pendingSites' = Append(pendingSites, site)
  /\ UNCHANGED <<entries, sites, pendingEntries, pushed>>

ResolveSiteForEntry(rec, known) ==
  [num |-> rec.num, ts |-> rec.ts, site |-> rec.site, resolved |-> rec.site \in known]

\* plausible bug: entries that arrived before their site are not looked at again
KeepsPlaceholders(es, known) == es

\* new sites resolve the entries that were waiting for them
ReResolve(es, known) ==
  [i \in DOMAIN es |-> IF es[i].resolved THEN es[i] ELSE ResolveSiteForEntry(es[i], known)]

InOrder(es, first) == \A i \in first .. Len(es) : i > 1 => es[i - 1].ts <= es[i].ts

\* plausible bug: the first new entry is not compared with the last old one
OnlyNewCompared(es, oldLen) == InOrder(es, oldLen + 2)

\* the test that spares the sort: only the new entries, after entry oldLen,
\* can be out of order
SortNotNeeded(es, oldLen) == InOrder(es, oldLen + 1)

\* what std::sort by tsNs may make of es: it is not stable
Sortings(es) ==
  {t \in [DOMAIN es -> ToSet(es)] : InOrder(t, 1) /\ ToSet(t) = ToSet(es)}

DrainPending ==
  LET known == sites \cup ToSet(pendingSites)
      old   == IF pendingSites = <<>> THEN entries ELSE ReResolve(entries, known)
      new   == [i \in DOMAIN pendingEntries |-> ResolveSiteForEntry(pendingEntries[i], known)]
      all   == old \o new
  IN
  /\ pendingEntries # <<>> \/ pendingSites # <<>>
  /\ sites' = known
  /\ IF SortNotNeeded(all, Len(entries)) THEN entries' = all ELSE entries' \in Sortings(all)
  /\ pendingEntries' = <<>> /\ pendingSites' = <<>>
  /\ UNCHANGED pushed

StoreNext ==
  \/ \E known \in SUBSET Sites : SeedLogSites(known)
  \/ \E ts \in Stamps, site \in Sites : PushLogRecord(ts, site)
  \/ \E site \in Sites : PushLogSite(site)
  \/ DrainPending

StoreSpec == StoreInit /\ [][StoreNext]_storeVars

-----------------------------------------------------------------------------
(* Properties.                                                             *)

\* Types of the store.
StoreTypeOK ==
  /\ entries \in Seq(Entry) /\ sites \in SUBSET Sites
  /\ pendingEntries \in Seq(Record) /\ pendingSites \in Seq(Sites)
  /\ pushed \in Nat

\* "Read-only access to the time-sorted entry vector" (LogStore.h:63): the
\* sort that is skipped when the new entries seem in order is never missed.
TimeSorted == InOrder(entries, 1)

\* An entry shows a placeholder exactly while its call site is unknown,
\* whether the descriptor came before the record, with it or after it.
PlaceholderMeansUnknown ==
  \A i \in DOMAIN entries : entries[i].resolved <=> entries[i].site \in sites

\* Every record pushed is shown or pending, once.
EveryRecordOnce ==
  /\ {entries[i].num : i \in DOMAIN entries} \cup {pendingEntries[i].num : i \in DOMAIN pendingEntries}
       = 1 .. pushed
  /\ Len(entries) + Len(pendingEntries) = pushed

=============================================================================
