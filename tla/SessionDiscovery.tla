--------------------------- MODULE SessionDiscovery ---------------------------
(***************************************************************************)
(* Session discovery of kv8scope: the thread of SessionManager polls the   *)
(* broker, compares each scan with the one before and queues events; the   *)
(* render thread drains them once a frame into the session list and the    *)
(* open windows, and restarts the manager when the connection settings     *)
(* change.                                                                 *)
(*                                                                         *)
(* The metadata of a session is the number of its UDT fields (virtual      *)
(* counters). A scan is that of module RegistryScan: it may end at its     *)
(* deadline with a part of the registry. One channel.                      *)
(***************************************************************************)
EXTENDS Integers, Sequences, SequencesExt, Functions

CONSTANTS
  Sessions,
  MaxFields,   \* bound: UDT fields of a session
  MaxFaults,   \* bound: failed listings, partial scans and failed deletions
  MaxUpsets,   \* bound: changes of the connection settings, deletions of the channel
  MaxQueue     \* bound: events waiting for a frame

ASSUME DiscoveryAssumption ==
  MaxFields \in Nat /\ MaxFaults \in Nat /\ MaxUpsets \in Nat /\ MaxQueue \in Nat \ {0}

Liveness == {"Live", "Offline"}  \* and what the panel shows before a probe: Unknown

VARIABLES
  \* the broker
  registry,    \* std::map: session -> fields registered
  deleted,     \* sessions with a tombstone
  faults,
  \* the manager's thread
  at,          \* where the thread is
  stopRequested,
  current,     \* currentSessions of the cycle: session -> fields
  probed,      \* sessions probed in this cycle
  outbox,      \* events the cycle has still to push, one lock each
  known,       \* m_knownSessions
  prevLiveness, prevCount, \* m_prevLiveness, m_prevVirtualFieldCount
  pendingMeta, \* m_metaStabilizeMeta, with the domain of m_metaStabilizeDeadline
  expired,     \* deadlines that have passed
  everConnected,
  events,      \* m_events, under m_evMutex
  \* the render thread
  main,        \* run, or join: inside Stop of Restart
  panel,       \* [Sessions -> Seq(entries)] rows of the session in the list
  window,      \* session -> what its open ScopeWindow was told
  connected,   \* m_eConnState
  restarts,
  stale,       \* history: a restart has left field counts behind
  removed,     \* history: sessions whose row a deletion has taken out of the list
  deletions    \* history: deletions of the channel

broker  == <<registry, deleted, faults>>
tracked == <<known, prevLiveness, prevCount, pendingMeta, expired, everConnected>>
cycle   == <<current, probed, outbox>>
ui      == <<main, panel, window, connected, restarts, stale, removed, deletions>>
vars == <<broker, at, stopRequested, cycle, tracked, events, ui>>

Empty == [s \in {} |-> 0]

Init ==
  /\ registry = Empty /\ deleted = {} /\ faults = 0
  /\ at = "list" /\ stopRequested = FALSE
  /\ current = Empty /\ probed = {} /\ outbox = <<>>
  /\ known = Empty /\ prevLiveness = Empty /\ prevCount = Empty
  /\ pendingMeta = Empty /\ expired = {} /\ everConnected = FALSE
  /\ events = <<>>
  /\ main = "run" /\ panel = [s \in Sessions |-> <<>>] /\ window = Empty
  /\ connected = FALSE /\ restarts = 0 /\ stale = FALSE
  /\ removed = {} /\ deletions = 0

\* a std::map with m[s] = v
Put(m, s, v) == [t \in DOMAIN m \cup {s} |-> IF t = s THEN v ELSE m[t]]

Event(type, s, v) == [type |-> type, session |-> s, value |-> v]

-----------------------------------------------------------------------------
(* The sessions and their users.                                           *)

Appear(s) ==
  /\ s \notin DOMAIN registry
  /\ registry' = Put(registry, s, 0)
  /\ UNCHANGED <<deleted, faults, at, stopRequested, cycle, tracked, events, ui>>

RegisterField(s) ==
  /\ s \in DOMAIN registry \ deleted /\ registry[s] < MaxFields
  /\ registry' = Put(registry, s, registry[s] + 1)
  /\ UNCHANGED <<deleted, faults, at, stopRequested, cycle, tracked, events, ui>>

Fault == faults < MaxFaults /\ faults' = faults + 1

\* RenderDeleteSessionPopup: whether or not SessionManager::DeleteSession succeeds, the row goes
Delete(s) ==
  /\ main = "run" /\ panel[s] # <<>>
  /\ \/ deleted' = deleted \cup {s} /\ UNCHANGED faults
     \/ Fault /\ UNCHANGED deleted
  /\ panel' = [panel EXCEPT ![s] = <<>>] /\ removed' = removed \cup {s}
  /\ UNCHANGED <<registry, at, stopRequested, cycle, tracked, events, main, window, connected,
                 restarts, stale, deletions>>

\* RenderDeleteChannelPopup: the registry goes too, and with it the markers; a program that is
\* still there writes its next registration to a new one
DeleteChannel ==
  /\ main = "run" /\ restarts + deletions < MaxUpsets /\ \E s \in Sessions : panel[s] # <<>>
  /\ \/ registry' = Empty /\ deleted' = {} /\ UNCHANGED faults
     \/ Fault /\ UNCHANGED <<registry, deleted>>
  /\ panel' = [s \in Sessions |-> <<>>] /\ deletions' = deletions + 1
  /\ removed' = removed \cup {s \in Sessions : panel[s] # <<>>}
  /\ UNCHANGED <<at, stopRequested, cycle, tracked, events, main, window, connected, restarts, stale>>

-----------------------------------------------------------------------------
(* One poll cycle.                                                         *)

\* ListChannels answers; the first answer is announced
List ==
  /\ at = "list" /\ at' = "scan"
  /\ everConnected' = TRUE
  /\ events' = IF everConnected THEN events ELSE Append(events, Event("Connected", "", 0))
  /\ UNCHANGED <<broker, stopRequested, cycle, known, prevLiveness, prevCount,
                 pendingMeta, expired, ui>>

\* It returns no channel when it gets no connection or the metadata request
\* fails twice: the cycle goes on
ListFails ==
  /\ at = "list" /\ at' = "diff" /\ Fault
  /\ everConnected' = TRUE
  /\ events' = IF everConnected THEN events ELSE Append(events, Event("Connected", "", 0))
  /\ current' = Empty
  /\ UNCHANGED <<registry, deleted, stopRequested, probed, outbox, known, prevLiveness,
                 prevCount, pendingMeta, expired, ui>>

Scan ==
  /\ at = "scan" /\ at' = "diff"
  /\ current' = Restrict(registry, DOMAIN registry \ deleted)
  /\ UNCHANGED <<broker, stopRequested, probed, outbox, tracked, events, ui>>

\* the scan ends at its deadline: sessions, fields and tombstones may be missing
PartialScan ==
  /\ at = "scan" /\ at' = "diff" /\ Fault
  /\ \E S \in SUBSET DOMAIN registry : \E f \in [S -> 0 .. MaxFields] :
       (\A s \in S : f[s] <= registry[s]) /\ current' = f
  /\ UNCHANGED <<registry, deleted, stopRequested, probed, outbox, tracked, events, ui>>

Both == DOMAIN current \cap DOMAIN known

\* plausible bug: a session is expected to have been shown as it appeared
CountAppeared(s) == IF s \in DOMAIN prevCount THEN prevCount[s] ELSE known[s]

Count(s) == IF s \in DOMAIN prevCount THEN prevCount[s] ELSE 0

Grown == {s \in Both : current[s] > Count(s)}

\* not grown, and the deadline set when it last grew has passed
Settled == {s \in Both \ Grown : s \in expired}

\* plausible bug: the deadline is left in place
FiresForEver(fired) == {}

Fired(fired) == fired

\* plausible bug: what is tracked of a session outlives it
KeepTracking(m) == m

\* "Remove tracking for disappeared sessions"
StillThere(m) == Restrict(m, DOMAIN m \cap DOMAIN current)

LastGrowth(s) == current[s]

EventsFor(type, S, m) == SetToSeq({Event(type, s, m[s]) : s \in S})

\* Step 4 of RunOnePollCycle: Appeared, Disappeared, MetaUpdated
Diff ==
  /\ at = "diff" /\ at' = "probe" /\ probed' = {}
  /\ outbox' = EventsFor("Appeared", DOMAIN current \ DOMAIN known, current)
               \o EventsFor("Disappeared", DOMAIN known \ DOMAIN current, known)
               \o EventsFor("MetaUpdated", Settled, pendingMeta)
  /\ prevCount' = StillThere([s \in DOMAIN prevCount \cup Both |->
                     IF s \in Grown \/ s \notin DOMAIN prevCount THEN current[s] ELSE prevCount[s]])
  /\ LET left == (DOMAIN pendingMeta \ Fired(Settled)) \cup Grown
     IN  /\ pendingMeta' = StillThere([s \in left |->
                             IF s \in Grown THEN LastGrowth(s) ELSE pendingMeta[s]])
         /\ expired' = (expired \cap left \cap DOMAIN current) \ Grown
  /\ UNCHANGED <<broker, stopRequested, current, known, prevLiveness, everConnected, events, ui>>

PushEvent ==
  /\ outbox # <<>> /\ (Len(events) < MaxQueue \/ main = "join")
  /\ events' = Append(events, Head(outbox)) /\ outbox' = Tail(outbox)
  /\ UNCHANGED <<broker, at, stopRequested, current, probed, tracked, ui>>

\* Step 5: the heartbeat or the data of the session, whatever they say now
Probe(s) ==
  /\ at = "probe" /\ outbox = <<>> /\ s \in DOMAIN current \ probed
  /\ probed' = probed \cup {s}
  /\ \E l \in Liveness :
       /\ prevLiveness' = Put(prevLiveness, s, l)
       /\ outbox' = IF s \in DOMAIN prevLiveness /\ prevLiveness[s] = l THEN <<>>
                    ELSE <<Event("StatusChanged", s, l)>>
  /\ UNCHANGED <<broker, at, stopRequested, current, known, prevCount, pendingMeta, expired,
                 everConnected, events, ui>>

EndCycle ==
  /\ at = "probe" /\ outbox = <<>> /\ probed = DOMAIN current
  /\ at' = "sleep"
  /\ prevLiveness' = StillThere(prevLiveness)
  /\ known' = current /\ current' = Empty /\ probed' = {}
  /\ UNCHANGED <<broker, stopRequested, outbox, prevCount, pendingMeta, expired,
                 everConnected, events, ui>>

Wake ==
  /\ at = "sleep" /\ at' = (IF stopRequested THEN "stopped" ELSE "list")
  /\ UNCHANGED <<broker, stopRequested, cycle, tracked, events, ui>>

\* time passes: iMetaStabilizeMs
Expire(s) ==
  /\ s \in DOMAIN pendingMeta \ expired
  /\ expired' = expired \cup {s}
  /\ UNCHANGED <<broker, at, stopRequested, cycle, known, prevLiveness, prevCount, pendingMeta,
                 everConnected, events, ui>>

-----------------------------------------------------------------------------
(* The render thread.                                                      *)

\* SessionListPanel::AddSession does not look for a row of the same session
AddSession(rows, v) == Append(rows, [fields |-> v, live |-> "Unknown"])

\* the first row of the session, if there is one, with field k set to v
SetFirst(rows, k, v) ==
  IF rows = <<>> THEN rows
  ELSE <<IF k = "fields" THEN [Head(rows) EXCEPT !.fields = v]
         ELSE [Head(rows) EXCEPT !.live = v]>> \o Tail(rows)

\* the window of the session, if it is open
TellWindow(w, s, k, v) ==
  IF s \notin DOMAIN w THEN w
  ELSE Put(w, s, IF k = "fields" THEN [w[s] EXCEPT !.fields = v] ELSE [w[s] EXCEPT !.live = v])

\* App::PollSessionEvents, one event
Handle(u, e) ==
  LET s == e.session
  IN  CASE e.type = "Connected" -> [u EXCEPT !.connected = TRUE]
        [] e.type = "Appeared" -> [u EXCEPT !.panel[s] = AddSession(@, e.value), !.removed = @ \ {s}]
        [] e.type = "Disappeared" -> [u EXCEPT !.panel[s] = <<>>]
        [] e.type = "MetaUpdated" ->
             [u EXCEPT !.panel[s] = SetFirst(@, "fields", e.value),
                       !.window = TellWindow(@, s, "fields", e.value)]
        [] OTHER ->
             [u EXCEPT !.panel[s] = SetFirst(@, "live", e.value),
                       !.window = TellWindow(@, s, "live", e.value)]

Frame ==
  /\ main = "run" /\ events # <<>>
  /\ LET u == FoldLeft(Handle, [panel |-> panel, window |-> window, connected |-> connected,
                                 removed |-> removed], events)
     IN  panel' = u.panel /\ window' = u.window /\ connected' = u.connected /\ removed' = u.removed
  /\ events' = <<>>
  /\ UNCHANGED <<broker, at, stopRequested, cycle, tracked, main, restarts, stale, deletions>>

\* ConsumeOpenRequest comes after the events of the frame: the row as it is then
OpenRequest(s) == Head(panel[s])

\* OnOpenSession of a row of the list, and the close button
Open(s) ==
  /\ main = "run" /\ panel[s] # <<>> /\ s \notin DOMAIN window
  /\ window' = Put(window, s, OpenRequest(s))
  /\ UNCHANGED <<broker, at, stopRequested, cycle, tracked, events, main, panel, connected,
                 restarts, stale, removed, deletions>>

CloseWindow(s) ==
  /\ main = "run" /\ s \in DOMAIN window
  /\ window' = Restrict(window, DOMAIN window \ {s})
  /\ UNCHANGED <<broker, at, stopRequested, cycle, tracked, events, main, panel, connected,
                 restarts, stale, removed, deletions>>

\* New connection settings: everything on screen goes, and Restart begins with Stop
Accept ==
  /\ main = "run" /\ restarts + deletions < MaxUpsets /\ restarts' = restarts + 1
  /\ main' = "join" /\ stopRequested' = TRUE
  /\ window' = Empty /\ panel' = [s \in Sessions |-> <<>>] /\ connected' = FALSE /\ removed' = {}
  /\ UNCHANGED <<broker, at, cycle, tracked, events, stale, deletions>>

\* ... then forgets and starts again; the field counts and deadlines stay
Restarted ==
  /\ main = "join" /\ at = "stopped"
  /\ known' = Empty /\ prevLiveness' = Empty /\ everConnected' = FALSE /\ events' = <<>>
  /\ stopRequested' = FALSE /\ at' = "list" /\ main' = "run"
  /\ stale' = (stale \/ DOMAIN prevCount # {})
  /\ UNCHANGED <<broker, cycle, prevCount, pendingMeta, expired, panel, window, connected, restarts,
                 removed, deletions>>

-----------------------------------------------------------------------------
Worker ==
  List \/ ListFails \/ Scan \/ PartialScan \/ Diff \/ PushEvent
  \/ (\E s \in Sessions : Probe(s)) \/ EndCycle \/ Wake

Next ==
  \/ Worker \/ Frame \/ Accept \/ Restarted \/ DeleteChannel
  \/ \E s \in Sessions :
       Appear(s) \/ RegisterField(s) \/ Delete(s) \/ Expire(s) \/ Open(s) \/ CloseWindow(s)

Fairness ==
  /\ WF_vars(Worker) /\ WF_vars(Frame) /\ WF_vars(Restarted)
  /\ \A s \in Sessions : WF_vars(Expire(s))

Spec == Init /\ [][Next]_vars /\ Fairness

-----------------------------------------------------------------------------
(* Properties.                                                             *)

Entry == [fields : 0 .. MaxFields, live : Liveness \cup {"Unknown"}]

\* Types; the deadlines are those of sessions whose fields are counted.
TypeOK ==
  /\ DOMAIN registry \subseteq Sessions /\ deleted \subseteq Sessions
  /\ at \in {"list", "scan", "diff", "probe", "sleep", "stopped"} /\ probed \subseteq DOMAIN current
  /\ \A m \in {current, known, prevCount, pendingMeta} :
       DOMAIN m \subseteq Sessions /\ \A s \in DOMAIN m : m[s] \in 0 .. MaxFields
  /\ expired \subseteq DOMAIN pendingMeta /\ DOMAIN pendingMeta \subseteq DOMAIN prevCount
  /\ \A s \in Sessions : panel[s] \in Seq(Entry)
  /\ \A s \in DOMAIN window : window[s] \in Entry
  /\ main \in {"run", "join"} /\ connected \in BOOLEAN

\* With every event handled and the thread between two cycles, the list shows
\* the known sessions but those deleted from it, each once and with the state of its last probe: no
\* cycle, drain or restart loses an event, repeats one, or lets one of the
\* old connection through to the list of the new one.
PanelMirrors ==
  main = "run" /\ at = "sleep" /\ events = <<>> =>
    /\ connected = everConnected
    /\ \A s \in Sessions :
         Len(panel[s]) = (IF s \in DOMAIN known \ removed THEN 1 ELSE 0)
         /\ (s \in DOMAIN known \ removed => panel[s][1].live = prevLiveness[s])

There(s) == s \in DOMAIN registry \ deleted

\* "A live session gained new UDT virtual fields after the first discovery
\* scan" (App.cpp:407): in the end the list has all the fields, however the
\* registrations, partial scans and lost sessions fell, and so has an open
\* window, even one opened from a row that was partial; unless a restart left
\* the counts of the old connection behind (it clears "all discovered state",
\* SessionManager.cpp:181, but not these), and unless the user has deleted the
\* session in vain: the manager still knows it, and the row is gone for good. It
\* says nothing of a channel that was deleted while its programs went on.
FieldsComplete ==
  \A s \in Sessions :
    <>[](There(s) /\ ~stale /\ s \notin removed /\ deletions = 0 =>
           /\ panel[s] # <<>> /\ panel[s][1].fields = registry[s]
           /\ s \in DOMAIN window => window[s].fields = registry[s])

\* The updates end: each one makes a window reinitialise its consumers.
UpdatesEnd == <>[](\A i \in 1 .. Len(events) : events[i].type # "MetaUpdated")

=============================================================================
