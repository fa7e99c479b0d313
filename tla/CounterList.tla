----------------------------- MODULE CounterList -----------------------------
(***************************************************************************)
(* The counter list of a scope window and the graphs it drives. The list   *)
(* (CounterTree) and the renderer (WaveformRenderer) keep a record of each *)
(* counter of their own; every input is written to both. The renderer      *)
(* spreads the visible counters over its panels anew in each frame.        *)
(*                                                                         *)
(* An action is one input and the frame that draws it. Colours, collapsed  *)
(* rows and the statistics columns are left out, and so is the limit of    *)
(* kMaxVisible graphs. Values of the Y axes are naturals. ImPlot, which    *)
(* keeps the axis of a panel, is external.                                 *)
(***************************************************************************)
EXTENDS Integers, Sequences, SequencesExt

CONSTANTS
  Counters,    \* they are known by group and number, here by one name
  FirstKnown,  \* SUBSET Counters: those of the metadata the window is opened with
  Group,       \* [Counters -> Nat]  hash of the group, hashToGroup in its order
  Path,        \* [Counters -> folder names]  what comes before the last / of the name
  NoFolder,
  Reg,         \* [Counters -> <<min, max>>]  registered ranges, the minima distinct
  Custom,      \* [Counters -> SUBSET ranges]  what users type, the minima distinct too
  MaxPanels,   \* kMaxPanels
  MaxInputs    \* bound: inputs

VARIABLES
  groups,      \* m_groups: Seq([hash, list])
  rows,        \* m_state: known counters -> their row
  rowMarked,   \* m_nHighlightedKey of the list
  popup,       \* [at, g, i]  the context menu or the dialog, and the row it is for
  traces,      \* m_counters of the renderer
  traceMarked, \* m_nHighlightedKey of the renderer
  plotMode,    \* m_eVizMode
  panels,      \* m_panels, with the Y axis ImPlot has for each
  savedMode,   \* counterVizModes of this session in the configuration
  told,        \* the last enabled state on the control topic
  atOpen,      \* history: the counters the window was opened with
  touched,     \* history: counters whose scale the user has changed
  inputs

listVars  == <<groups, rows, rowMarked, popup>>
plotVars  == <<traces, traceMarked, plotMode, panels>>
pastVars  == <<savedMode, told, atOpen, touched>>
vars == <<listVars, plotVars, pastVars, inputs>>

Modes == {"simple", "range", "cyclogram"}
None  == "none"
NoTop == -1
Registered == <<>>  \* NaN: the registered range holds

Known == DOMAIN rows

-----------------------------------------------------------------------------
(* Panels.                                                                 *)

Scale(trace, c) == IF trace[c].range = Registered THEN Reg[c] ELSE trace[c].range

\* std::sort by <, which leaves those with the same minimum in any order
Ascending(S, min) ==
  CHOOSE s \in SetToSeqs(S) : \A i, j \in DOMAIN s : i < j => min[s[i]] <= min[s[j]]

Visible(trace) == {c \in DOMAIN trace : trace[c].visible}

Order(trace) == Ascending(Visible(trace), [c \in Visible(trace) |-> Scale(trace, c)[1]])

Active(trace) == Min({Cardinality(Visible(trace)), MaxPanels})

\* one of n contiguous runs, the first ones longer by one
Members(order, n, p) ==
  LET base == Len(order) \div n
      more == Len(order) % n
      from == (p - 1) * base + Min({p - 1, more})
  IN  SubSeq(order, from + 1, from + base + IF p <= more THEN 1 ELSE 0)

\* of the counters that have a range
Union(trace, keys) ==
  LET real == {r \in {Scale(trace, c) : c \in ToSet(keys)} : r[1] < r[2]}
  IN  IF real = {} THEN Registered ELSE <<Min({r[1] : r \in real}), Max({r[2] : r \in real})>>

\* bChanged
Recomposed(old, keys) == ~old.set \/ Head(old.keys) # Head(keys) \/ Len(old.keys) # Len(keys)

\* plausible bug: the scale of a wider panel comes back with the counter
AnyTop(top, u) == top > u[1]
\* may the top last seen for the first counter come back
Fitting(top, u) == top > u[1] /\ 10 * top <= 11 * u[2]

Margin(u) == (u[2] - u[1]) \div 20

\* A panel that keeps its composition keeps its axis, whatever the ranges are by now: the
\* limits are set with ImPlotCond_Once, and what is captured after that undoes dYTop.
Rebuilt(trace, old, keys) ==
  LET u   == Union(trace, keys)
      top == trace[Head(keys)].userTop
  IN  CASE u = Registered -> [old EXCEPT !.keys = keys, !.set = FALSE]
        [] u # Registered /\ ~Recomposed(old, keys) -> [old EXCEPT !.keys = keys]
        [] OTHER -> [keys |-> keys, set |-> TRUE, lo |-> u[1],
                     hi |-> (IF Fitting(top, u) THEN top ELSE u[2]) + Margin(u)]

BuildPanelAssignment(trace, old) ==
  LET order == Order(trace)
      n     == Active(trace)
  IN  [p \in 1 .. MaxPanels |-> IF p <= n THEN Rebuilt(trace, old[p], Members(order, n, p)) ELSE old[p]]

\* step 8m: the tops of the axes go to the first counters
Captured(trace, ps) ==
  LET Leads(p, c) == ps[p].set /\ Head(ps[p].keys) = c
  IN  [c \in DOMAIN trace |->
         IF \E p \in 1 .. Active(trace) : Leads(p, c)
         THEN [trace[c] EXCEPT !.userTop = ps[CHOOSE p \in 1 .. Active(trace) : Leads(p, c)].hi]
         ELSE trace[c]]

\* the rest of the frame
Draw(trace) ==
  /\ panels' = BuildPanelAssignment(trace, panels)
  /\ traces' = Captured(trace, panels')

-----------------------------------------------------------------------------
(* The window opens, and the metadata grow.                                *)

NewRow == [visible |-> TRUE, enabled |-> TRUE, mode |-> "range", range |-> Registered, marked |-> FALSE]

\* RegisterCounter
NewTrace(mode) == [visible |-> TRUE, mode |-> mode, range |-> Registered, marked |-> FALSE,
                   userTop |-> NoTop]

NoPanel == [keys |-> <<>>, set |-> FALSE, lo |-> 0, hi |-> 0]
Closed  == [at |-> "closed", g |-> 0, i |-> 0]

ByMin(S) == Ascending(S, [c \in S |-> Reg[c][1]])

\* groups by the minimum of their first counter
Sorted(S) == Ascending(S, [g \in S |-> Reg[g.list[1]][1]])

ByGroup(known) ==
  Sorted({[hash |-> g, list |-> ByMin({c \in known : Group[c] = g})] : g \in {Group[c] : c \in known}})

\* CounterTree::Init gives both sides the saved modes
ModeAtOpen(c, saved) == IF saved[c] = None THEN "range" ELSE saved[c]

RowsAtOpen(known, saved)   == [c \in known |-> [NewRow EXCEPT !.mode = ModeAtOpen(c, saved)]]
TracesAtOpen(known, saved) == [c \in known |-> NewTrace(ModeAtOpen(c, saved))]
PanelsAtOpen(known, saved) ==
  BuildPanelAssignment(TracesAtOpen(known, saved), [p \in 1 .. MaxPanels |-> NoPanel])

Init ==
  /\ savedMode = [c \in Counters |-> None] /\ told = [c \in Counters |-> TRUE]
  /\ groups = ByGroup(FirstKnown) /\ rows = RowsAtOpen(FirstKnown, savedMode)
  /\ rowMarked = None /\ popup = Closed
  /\ panels = PanelsAtOpen(FirstKnown, savedMode)
  /\ traces = Captured(TracesAtOpen(FirstKnown, savedMode), panels)
  /\ traceMarked = None /\ plotMode = "range"
  /\ atOpen = FirstKnown /\ touched = {} /\ inputs = 0

Input == inputs < MaxInputs /\ inputs' = inputs + 1

\* the user closes the window and opens it again; the control topic is replayed
Reopen ==
  /\ Input
  /\ groups' = ByGroup(Known)
  /\ rows' = [c \in Known |-> [RowsAtOpen(Known, savedMode)[c] EXCEPT !.enabled = told[c]]]
  /\ rowMarked' = None /\ popup' = Closed
  /\ panels' = PanelsAtOpen(Known, savedMode)
  /\ traces' = Captured(TracesAtOpen(Known, savedMode), panels')
  /\ traceMarked' = None /\ plotMode' = "range"
  /\ atOpen' = Known /\ touched' = {}
  /\ UNCHANGED <<savedMode, told>>

\* plausible bug: the rows of known counters are made anew
NotSkipped(meta) == meta
\* RegisterCounterIfNew, "already known"
Unknown(meta) == meta \ Known

\* ScopeWindow registers the counters of the new metadata, then CounterTree::AddCounters;
\* the groups are sorted again, whatever the user has made of their order
AddCounters(meta) ==
  /\ Input
  /\ rows' = [c \in meta |-> IF c \in Unknown(meta) THEN NewRow ELSE rows[c]]
  /\ Draw([c \in meta |-> IF c \in Known THEN traces[c] ELSE NewTrace(plotMode)])
  /\ groups' = ByGroup(meta)
  /\ UNCHANGED <<rowMarked, popup, traceMarked, plotMode, pastVars>>

-----------------------------------------------------------------------------
(* The checkboxes. A group or a folder is checked when all of it is.       *)

Of(g)    == {c \in Known : Group[c] = g}
In(g, f) == {c \in Of(g) : Path[c] = f}

Folders == {gf \in {<<Group[c], Path[c]>> : c \in Known} : gf[2] # NoFolder}

Click == popup.at = "closed" /\ Input

SetVisible(S, v) ==
  LET Shown(table) == [c \in Known |-> IF c \in S THEN [table[c] EXCEPT !.visible = v] ELSE table[c]]
  IN  /\ rows' = Shown(rows) /\ Draw(Shown(traces))
      /\ UNCHANGED <<groups, rowMarked, popup, traceMarked, plotMode, pastVars>>

AllVisible(S) == \A c \in S : rows[c].visible

CheckVisible(c)          == Click /\ SetVisible({c}, ~rows[c].visible)
CheckGroupVisible(g)     == Click /\ SetVisible(Of(g), ~AllVisible(Of(g)))
CheckFolderVisible(g, f) == Click /\ SetVisible(In(g, f), ~AllVisible(In(g, f)))
ShowAll == Click /\ SetVisible(Known, TRUE)
HideAll == Click /\ SetVisible(Known, FALSE)

SetEnabled(S, v) ==
  /\ rows' = [c \in Known |-> IF c \in S THEN [rows[c] EXCEPT !.enabled = v] ELSE rows[c]]
  /\ Draw(traces)
  /\ UNCHANGED <<groups, rowMarked, popup, traceMarked, plotMode, savedMode, atOpen, touched>>

AllEnabled(S) == \A c \in S : rows[c].enabled

\* m_onEnableChanged produces the state to the control topic
Tell(S, v) == told' = [c \in Counters |-> IF c \in S THEN v ELSE told[c]]

CheckEnabled(c) == Click /\ SetEnabled({c}, ~rows[c].enabled) /\ Tell({c}, ~rows[c].enabled)

CheckGroupEnabled(g) ==
  Click /\ SetEnabled(Of(g), ~AllEnabled(Of(g))) /\ Tell(Of(g), ~AllEnabled(Of(g)))

\* this one does not call m_onEnableChanged
CheckFolderEnabled(g, f) ==
  Click /\ SetEnabled(In(g, f), ~AllEnabled(In(g, f))) /\ UNCHANGED told

\* a command of another window or of the program comes from the control topic
SetCounterEnabled(c, v) == Input /\ SetEnabled({c}, v) /\ Tell({c}, v)

-----------------------------------------------------------------------------
(* Highlight and order.                                                    *)

Mark(c) ==
  LET Marked(table) == [d \in DOMAIN table |-> [table[d] EXCEPT !.marked = (d = c)]]
  IN  /\ rows' = Marked(rows) /\ rowMarked' = c
      /\ Draw(Marked(traces)) /\ traceMarked' = c
      /\ UNCHANGED <<groups, plotMode, pastVars>>

\* a click on the name of the marked one takes the mark away
ClickName(c) == Click /\ Mark(IF rowMarked = c THEN None ELSE c) /\ UNCHANGED popup

\* a click next to a visible trace, or next to none; the frame after shows it
ClickPlot(c) ==
  /\ Click /\ c \in {None} \cup {d \in Known : traces[d].visible}
  /\ Mark(c) /\ UNCHANGED popup

Drop(g, from, to) ==
  /\ Click /\ from # to /\ {from, to} \subseteq DOMAIN groups[g].list
  /\ groups' = [groups EXCEPT ![g].list = [@ EXCEPT ![from] = groups[g].list[to], ![to] = groups[g].list[from]]]
  /\ Draw(traces)
  /\ UNCHANGED <<rows, rowMarked, popup, traceMarked, plotMode, pastVars>>

-----------------------------------------------------------------------------
(* The context menu. It keeps the place of its row and not the counter:    *)
(* after AddCounters that place may be another counter's, or past the end  *)
(* of the list, where the menu is empty and the dialog can only be closed. *)

RightClick(g, i) ==
  /\ Click /\ i \in DOMAIN groups[g].list
  /\ popup' = [at |-> "menu", g |-> g, i |-> i]
  /\ Draw(traces)
  /\ UNCHANGED <<groups, rows, rowMarked, traceMarked, plotMode, pastVars>>

Target == groups[popup.g].list[popup.i]

Choose(place) == popup.at = place /\ popup.i \in DOMAIN groups[popup.g].list /\ Input

ChooseHighlight == Choose("menu") /\ popup' = Closed /\ Mark(IF rowMarked = Target THEN None ELSE Target)

ChooseRange ==
  /\ Choose("menu") /\ popup' = [popup EXCEPT !.at = "dialog"]
  /\ Draw(traces)
  /\ UNCHANGED <<groups, rows, rowMarked, traceMarked, plotMode, pastVars>>

\* with SetCounterYRange, ResetCounterYRange
SetRange(r) ==
  /\ popup' = Closed
  /\ rows' = [rows EXCEPT ![Target].range = r] /\ Draw([traces EXCEPT ![Target].range = r])
  /\ touched' = touched \cup {Target}
  /\ UNCHANGED <<groups, rowMarked, traceMarked, plotMode, savedMode, told, atOpen>>

\* Reset Y range of the menu, Reset to registry of the dialog
ResetRange == popup.at # "closed" /\ Choose(popup.at) /\ SetRange(Registered)

ApplyRange(r) == Choose("dialog") /\ r[1] < r[2] /\ SetRange(r)

\* the submenu closes with the click outside
ChooseMode(mode) ==
  /\ Choose("menu")
  /\ rows' = [rows EXCEPT ![Target].mode = mode] /\ Draw([traces EXCEPT ![Target].mode = mode])
  /\ savedMode' = [savedMode EXCEPT ![Target] = mode]
  /\ UNCHANGED <<groups, rowMarked, popup, traceMarked, plotMode, told, atOpen, touched>>

\* Cancel, or a click outside the menu
Dismiss ==
  /\ popup.at # "closed" /\ popup' = Closed
  /\ Draw(traces)
  /\ UNCHANGED <<groups, rows, rowMarked, traceMarked, plotMode, pastVars, inputs>>

\* S, R or C of the toolbar
BatchSetVizMode(mode) ==
  LET Moded(table) == [c \in Known |-> [table[c] EXCEPT !.mode = mode]]
  IN  /\ Click
      /\ rows' = Moded(rows) /\ Draw(Moded(traces)) /\ plotMode' = mode
      /\ savedMode' = [c \in Counters |-> IF c \in Known THEN mode ELSE savedMode[c]]
      /\ UNCHANGED <<groups, rowMarked, popup, traceMarked, told, atOpen, touched>>

\* Shift and the wheel over a panel: 0.8 or 1.25 of the range, not below a hundredth of it
ZoomY(p, num, den) ==
  LET keys == panels[p].keys
      u    == Union(traces, keys)
      top  == Max({panels[p].hi, u[2]})
      hi   == u[1] + Max({((top - u[1]) * num) \div den, (u[2] - u[1]) \div 100})
  IN  /\ Click /\ p <= Active(traces) /\ panels[p].set
      /\ panels' = [panels EXCEPT ![p].lo = u[1], ![p].hi = hi]
      /\ traces' = [traces EXCEPT ![Head(keys)].userTop = hi]
      /\ touched' = touched \cup {Head(keys)}
      /\ UNCHANGED <<listVars, traceMarked, plotMode, savedMode, told, atOpen>>

-----------------------------------------------------------------------------
Boxes ==
  \/ \E c \in Known : CheckVisible(c) \/ CheckEnabled(c)
  \/ \E g \in {Group[c] : c \in Known} : CheckGroupVisible(g) \/ CheckGroupEnabled(g)
  \/ \E gf \in Folders : CheckFolderVisible(gf[1], gf[2]) \/ CheckFolderEnabled(gf[1], gf[2])
  \/ ShowAll \/ HideAll

Menu ==
  \/ \E g \in DOMAIN groups : \E i \in DOMAIN groups[g].list : RightClick(g, i)
  \/ ChooseHighlight \/ ChooseRange \/ ResetRange \/ Dismiss
  \/ \E c \in Counters : \E r \in Custom[c] : ApplyRange(r)
  \/ \E mode \in Modes : ChooseMode(mode)

Next ==
  \/ Boxes \/ Menu \/ Reopen
  \/ \E more \in SUBSET (Counters \ Known) : more # {} /\ AddCounters(Known \cup more)
  \/ \E c \in Known : (\E v \in BOOLEAN : SetCounterEnabled(c, v)) \/ ClickName(c)
  \/ \E c \in Known \cup {None} : ClickPlot(c)
  \/ \E g \in DOMAIN groups : \E i, j \in DOMAIN groups[g].list : Drop(g, i, j)
  \/ \E mode \in Modes : BatchSetVizMode(mode)
  \/ \E p \in 1 .. MaxPanels : ZoomY(p, 4, 5) \/ ZoomY(p, 5, 4)

-----------------------------------------------------------------------------
(* Properties.                                                             *)

\* The two records of each counter agree, whichever of the rows, folders, menus, buttons and
\* clicks was used and whatever came in between: what the list shows as visible,
\* highlighted and scaled is drawn so, and a counter of the metadata the window was opened
\* with is drawn in the mode the list shows and the configuration has. Each counter has one
\* row, in the list of its group. (A counter that came later is drawn in the mode of the
\* toolbar while its row says Range, and its saved mode is not looked up.)
PlotFollowsTree ==
  /\ Known = DOMAIN traces
  /\ \A c \in Known :
       /\ traces[c].visible = rows[c].visible /\ traces[c].range = rows[c].range
       /\ traces[c].marked = rows[c].marked /\ rows[c].marked = (c = rowMarked)
       /\ c \in atOpen => traces[c].mode = rows[c].mode /\ savedMode[c] \in {None, rows[c].mode}
  /\ traceMarked = rowMarked
  /\ {groups[g].hash : g \in DOMAIN groups} = {Group[c] : c \in Known}
  /\ \A g, h \in DOMAIN groups : groups[g].hash = groups[h].hash => g = h
  /\ \A g \in DOMAIN groups :
       /\ ToSet(groups[g].list) = Of(groups[g].hash)
       /\ \A i, j \in DOMAIN groups[g].list : groups[g].list[i] = groups[g].list[j] => i = j

\* The panels show every visible counter once, in the order of the minima; and a counter
\* that is alone in its panel, and whose scale the user never touched, has all of its range
\* on the axis and not much more, whatever panels it was in before.
PanelsShowAll ==
  LET n == Active(traces)
  IN  /\ FlattenSeq([p \in 1 .. n |-> panels[p].keys]) = Order(traces)
      /\ \A p \in 1 .. n :
           LET c == Head(panels[p].keys)
           IN  Len(panels[p].keys) = 1 /\ c \notin touched /\ Reg[c][1] < Reg[c][2] =>
                 /\ panels[p].lo = Reg[c][1] /\ panels[p].hi >= Reg[c][2]
                 /\ 10 * (panels[p].hi - Margin(Reg[c])) <= 11 * Reg[c][2]

\* "Register a callback that is invoked whenever the user toggles the E (enabled) checkbox
\* for a counter" (CounterTree.h:127): the enabled state of a row is the one last sent to
\* the program, or received. Not so after the checkbox of a folder.
ShownIsTold == \A c \in Known : rows[c].enabled = told[c]

=============================================================================
