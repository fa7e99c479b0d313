---------------------------- MODULE MCScopeParts ----------------------------
(***************************************************************************)
(* Small parts for TLC: the first calls of the kv8log facade, the trace    *)
(* log from the program to a scope window, and of that window the counter  *)
(* list with its graphs and the time window. A behaviour is one of one     *)
(* part; the others stay as they begin.                                    *)
(***************************************************************************)
EXTENDS TraceLog, TLC

CONSTANTS
  Parts,
  Counters, FirstKnown, Group, Path, NoFolder, Reg, Custom, MaxPanels, MaxListInputs,
  Entries, Window, MaxLive, MinLive, MinSpan, PerNeighbour, MinResolve, Lonely, WarnHide, Late,
  MaxViewInputs,
  Channels, DefaultChannel, FacadeCounters, Feeds, ChannelOf, NoHandle, Starts, MaxFirst, MaxFailures,
  t1, t2, s1, ca, cb, cc, cd

\* A session has finitely many counters, and "none" (m_nHighlightedKey = 0) is none of them;
\* no more of them than the renderer draws (kMaxVisible), which leaves out the others.
ASSUME ListAssumption ==
  /\ IsFiniteSet(Counters) /\ Cardinality(Counters) <= 256
  /\ FirstKnown \subseteq Counters /\ "none" \notin Counters
  /\ Reg \in [Counters -> Nat \X Nat] /\ Custom \in [Counters -> SUBSET (Nat \X Nat)]
  /\ MaxPanels \in Nat \ {0}

\* A log record has a time above 0, which stands for none (m_qwSelectedTsNs).
ASSUME ViewAssumption ==
  /\ Entries \in Seq([ts : Nat \ {0}, warn : BOOLEAN])
  /\ {Window, MaxLive, MinLive, MinSpan, PerNeighbour, MinResolve, Lonely, WarnHide, Late, MaxViewInputs}
       \subseteq Nat

\* The names of channels, counters and handles differ, and a call_once is held by a thread.
ASSUME FacadeAssumption ==
  /\ IsFiniteSet(Channels) /\ IsFiniteSet(FacadeCounters) /\ Channels \cap FacadeCounters = {}
  /\ DefaultChannel \in Channels /\ ChannelOf \in [FacadeCounters -> Channels] /\ Feeds \subseteq FacadeCounters
  /\ Threads \cap {"new", "done"} = {}
  /\ LET origins == {"default", "args", "env", "given"}
     IN  NoHandle \notin [brokers : origins, user : origins]

VARIABLES
  part,
  groups, rows, rowMarked, popup, traces, traceMarked, plotMode, panels, savedMode, told, atOpen,
  touched, listInputs,
  latest, online, w, viewInputs,
  lib, args, env, config, given, init, vtable, chOnce, handle, regOnce, cached, site,
  place, call, got, made, passed, early, failures

listVars == <<groups, rows, rowMarked, popup, traces, traceMarked, plotMode, panels, savedMode,
              told, atOpen, touched, listInputs>>
viewVars == <<latest, online, w, viewInputs>>
firstVars == <<lib, args, env, config, given, init, vtable, chOnce, handle, regOnce, cached, site,
               place, call, got, made, passed, early, failures>>

First == INSTANCE Facade WITH Counters <- FacadeCounters, MaxCalls <- MaxFirst, pc <- place, calls <- made
List == INSTANCE CounterList WITH MaxInputs <- MaxListInputs, inputs <- listInputs
View == INSTANCE WaveformView WITH MaxInputs <- MaxViewInputs, inputs <- viewInputs

PartsInit ==
  /\ part \in Parts /\ Init /\ List!Init /\ View!Init /\ First!Init
  /\ part # "first" => lib = "full" /\ args = {}
  /\ part # "view" => online

PartsNext ==
  \/ part = "log"  /\ Next /\ UNCHANGED <<part, listVars, viewVars, firstVars>>
  \/ part = "list" /\ List!Next /\ UNCHANGED <<part, vars, viewVars, firstVars>>
  \/ part = "view" /\ View!Next /\ UNCHANGED <<part, vars, listVars, firstVars>>
  \/ part = "first" /\ First!Next /\ UNCHANGED <<part, vars, listVars, viewVars>>

PartsSpec == PartsInit /\ [][PartsNext]_<<part, vars, listVars, viewVars, firstVars>>

\* Both records of a counter agree (CounterList!PlotFollowsTree).
PlotFollowsTree == List!PlotFollowsTree

\* The panels show what is visible at its scale (CounterList!PanelsShowAll).
PanelsShowAll == List!PanelsShowAll

\* The enabled state of a row is the one last told to the program, or by it
\* (CounterList!ShownIsTold).
ShownIsTold == List!ShownIsTold

\* The window shows what was last asked for (WaveformView!ViewAsAsked).
ViewAsAsked == View!ViewAsAsked

\* A row that was clicked stays selected and is shown (WaveformView!RowClickSeen).
RowClickSeen == View!RowClickSeen

\* However the first calls of the facade race, they settle (Facade!FirstUseSettles).
FirstUseSettles == First!FirstUseSettles

\* "Command-line has priority over env." (Runtime.cpp:121; Facade!CommandLineFirst).
CommandLineFirst == First!CommandLineFirst

-----------------------------------------------------------------------------
TwoThreads == {t1, t2}

\* threads are interchangeable
ThreadSymmetry == Permutations(TwoThreads)

OneSite    == {s1}
Stamps12   == 1 .. 2

AllParts == {"log", "list", "view", "first"}
FirstOnly == {"first"}
ListOnly == {"list"}

FourCounters  == {ca, cb, cc, cd}
ThreeCounters == {ca, cb, cc}
Groups12      == [k \in FourCounters |-> IF k = cb THEN 1 ELSE 2]
FolderOfAC    == [k \in FourCounters |-> IF k \in {ca, cc} THEN "f" ELSE ""]
Ranges        == ca :> <<0, 100>> @@ cb :> <<10, 10>> @@ cc :> <<20, 1020>> @@ cd :> <<5, 205>>
Typed         == [k \in FourCounters |-> IF k = ca THEN {<<30, 50>>} ELSE {}]

\* a scalar counter in a channel of its own, a feed in the default one
OwnAndDefault == ca :> "own" @@ cb :> "default"
TwoChannels   == {"own", "default"}
CounterAndFeed == {ca, cb}
OneFeed       == {cb}

\* nothing given; or everything in the command line and the brokers in the environment too
GivenTwice == {<<{}, {}>>, <<{"brokers", "user"}, {"brokers"}>>}

ThreeEntries == <<[ts |-> 4, warn |-> TRUE], [ts |-> 8, warn |-> TRUE], [ts |-> 14, warn |-> FALSE]>>

=============================================================================
