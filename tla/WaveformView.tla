---------------------------- MODULE WaveformView ----------------------------
(***************************************************************************)
(* The time window of a scope window. Everything on screen moves it: the   *)
(* toolbar, the wheel, dragging, the overview strip, the markers and rows  *)
(* of the trace log, the annotation panel, the counters that come and go,  *)
(* and the live edge; most of them in a later frame than the one they were *)
(* used in, over NavigateTo. A frame is ScopeWindow::Render with at most   *)
(* one input, its stages in the order of the code; between frames samples  *)
(* and log records arrive and the state of the session changes.            *)
(*                                                                         *)
(* Times are integers relative to the origin of the session. ImPlot, which *)
(* keeps the axis, is external. Layout, the filters of the log panel and   *)
(* its scrolling (Follow) are left out.                                    *)
(***************************************************************************)
EXTENDS Integers, Sequences, FiniteSetsExt

CONSTANTS
  Entries,       \* Seq([ts, warn])  the trace log in order, times above 0
  Window,        \* dRealtimeTimeWin
  MaxLive, MinLive, \* kMaxLiveSpan and the 0.02 s
  MinSpan,       \* kMinXSpan
  PerNeighbour, MinResolve, Lonely, \* kSpanPerNeighbourSec, kMinSpanSec, kNoNeighbourSpanSec
  WarnHide,      \* kWarnHideSpanSec; the warnings of Entries are no errors
  Late,          \* bound: time of the last sample
  MaxInputs      \* bound: inputs

VARIABLES
  latest,        \* time of the newest sample, and the clock; NoData before the first, which is at 0
  online,        \* m_bOnline: the session is Live or GoingOffline
  w,             \* the window, see Types
  inputs

vars == <<latest, online, w, inputs>>

NoData == -1
Nobody == 0      \* no log record
NoView == <<>>

HasData == latest # NoData

\* live: m_bAutoScroll; span: m_dLiveSpan, 0 until the first live frame; view: m_dXLimitMin,
\* m_dXLimitMax and the axis of ImPlot; placed: m_bInitialViewApplied; panels: m_nActivePanels;
\* nav: m_bNavPending, m_dNavTarget, m_dNavTargetSpan; requested: m_bNavRequested;
\* click: m_qwLogMarkerClickTsNs while m_bLogMarkerClicked; open, sync, resolve, selected,
\* resolved, lastMax: the members of LogPanel. History: asked, what the user last asked to
\* see, a place or a view, and row, the row clicked if nothing was done since.
Types ==
  [live : BOOLEAN, span : Int, view : Int \X Int, placed : BOOLEAN, panels : Nat,
   nav : [on : BOOLEAN, target : Int, span : Nat], requested : BOOLEAN, click : Nat,
   open : BOOLEAN, sync : BOOLEAN, resolve : BOOLEAN, selected : Nat, resolved : Nat, lastMax : Int,
   asked : Seq(Int), row : Nat]

\* the window of a live session or of one that is over
Init ==
  /\ latest = NoData /\ online \in BOOLEAN /\ inputs = 0
  /\ w = [live |-> online, span |-> 0, view |-> <<0, 2>>, placed |-> FALSE, panels |-> 1,
          nav |-> [on |-> FALSE, target |-> 0, span |-> 0], requested |-> FALSE, click |-> Nobody,
          open |-> TRUE, sync |-> FALSE, resolve |-> FALSE, selected |-> Nobody, resolved |-> Nobody,
          lastMax |-> 0, asked |-> <<>>, row |-> Nobody]

Arrive ==
  /\ latest < Late /\ latest' = Min({latest + 5, Late})
  /\ UNCHANGED <<online, w, inputs>>

\* a session that is over may have to be loaded still; one that died may come back
SetLiveness ==
  /\ inputs < MaxInputs /\ inputs' = inputs + 1
  /\ online' = ~online
  /\ w' = IF online THEN [w EXCEPT !.live = FALSE] ELSE w
  /\ UNCHANGED latest

-----------------------------------------------------------------------------
(* Inputs of one frame.                                                    *)

Logged == {i \in DOMAIN Entries : Entries[i].ts <= latest}

Input(kind, value) == [kind |-> kind, value |-> value]

Idle == Input("none", 0)

\* the buttons that are not disabled; a wheel and a click need a graph
Inputs ==
  {Input("pause", 0), Input("log", 0), Input("sync", 0), Input("resolve", 0)}
  \cup {Input("panels", n) : n \in 0 .. 2}
  \cup (IF online THEN {Input("live", 0)} ELSE {})
  \cup (IF latest > 0 THEN {Input("strip", x) : x \in {0, latest}} ELSE {})
  \cup (IF w.panels = 0 THEN {}
        ELSE {Input("zoomIn", at) : at \in 0 .. 2} \cup {Input("zoomOut", 1)}
             \cup {Input("drag", by) : by \in {-4, 4}} \cup {Input("marker", i) : i \in Logged})
  \cup {Input("row", i) : i \in Logged}
  \cup {Input("note", x) : x \in {6}}

-----------------------------------------------------------------------------
(* The renderer.                                                           *)

Width(view) == view[2] - view[1]

NavigateToWithSpan(win, x, span) ==
  [win EXCEPT !.nav = [on |-> TRUE, target |-> x, span |-> span], !.requested = TRUE, !.asked = <<x>>]

NavigateTo(win, x) == NavigateToWithSpan(win, x, 0)

\* pause, Return to live and the toggle of the log panel
Toolbar(win, in) ==
  CASE in.kind = "pause" -> [win EXCEPT !.live = FALSE]
    [] in.kind = "live"  -> [win EXCEPT !.live = TRUE]
    [] in.kind = "log"   -> [win EXCEPT !.open = ~@]
    [] OTHER -> win

Wheel(in) == in.kind \in {"zoomIn", "zoomOut"}

\* 0.8 or 1.25, rounded
Scaled(x, in) == IF in.kind = "zoomIn" THEN (4 * x) \div 5 ELSE (5 * x) \div 4

\* the span of the live view begins as configured; the wheel changes it
LiveSpan(win, in) ==
  LET span == IF win.span = 0 THEN Window ELSE win.span
  IN  IF Wheel(in) THEN Max({MinLive, Min({MaxLive, Scaled(span, in)})}) ELSE span

\* around the cursor: left, middle or right
ZoomX(view, in) ==
  LET range == Max({Width(view), MinSpan})
      new   == Max({Scaled(range, in), MinSpan})
      left  == (in.value * new) \div 2
      at    == view[1] + (in.value * range) \div 2
  IN  <<at - left, at - left + new>>

Centred(win) ==
  LET span == IF win.nav.span > 0 THEN win.nav.span ELSE Width(win.view)
      half == IF span \div 2 > 0 THEN span \div 2 ELSE MaxLive \div 2
  IN  <<win.nav.target - half, win.nav.target + half>>

\* plausible bug: the axis is left to ImPlot
NotKept(win, n) == FALSE
\* the number of graphs changes
Kept(win, n) == ~win.live /\ n # win.panels /\ win.placed

\* step 3
Forced(win, n, in) ==
  CASE Wheel(in) /\ ~win.live         -> ZoomX(win.view, in)
    [] ~Wheel(in) /\ win.nav.on       -> Centred(win)
    [] ~Wheel(in) /\ ~win.nav.on /\ Kept(win, n) -> win.view
    [] OTHER -> NoView

\* the oldest samples
InitialView == <<0, IF latest > 0 THEN Min({latest, Window}) ELSE Window>>

\* a click on the first record of a bucket
Marker(win, in) ==
  IF /\ in.kind = "marker" /\ Entries[in.value].warn
     /\ win.view[1] <= Entries[in.value].ts /\ Entries[in.value].ts <= win.view[2]
     /\ Width(win.view) <= WarnHide
  THEN NavigateTo([win EXCEPT !.click = Entries[in.value].ts], Entries[in.value].ts)
  ELSE win

\* Render; reset is what ImPlot does with the axis of another number of graphs
Rendered(win, in, reset) ==
  LET n      == IF in.kind = "panels" THEN in.value ELSE win.panels
      forced == Forced(win, n, in)
      free   == forced = NoView /\ ~(win.live /\ HasData) /\ (win.placed \/ ~HasData)
      view   == CASE forced # NoView -> forced
                  [] forced = NoView /\ win.live /\ HasData -> <<latest - LiveSpan(win, in), latest>>
                  [] free /\ in.kind = "drag" -> <<win.view[1] + in.value, win.view[2] + in.value>>
                  [] free /\ n # win.panels /\ reset -> <<0, 2>>
                  [] free /\ in.kind # "drag" /\ ~(n # win.panels /\ reset) -> win.view
                  [] OTHER -> InitialView
      new    == [win EXCEPT !.panels = n, !.view = view,
                   !.span = IF win.live /\ (Wheel(in) \/ HasData) THEN LiveSpan(win, in) ELSE @,
                   !.placed = @ \/ (forced = NoView /\ HasData),
                   !.nav = IF Wheel(in) THEN @ ELSE [@ EXCEPT !.on = FALSE, !.span = 0],
                   !.live = @ /\ in.kind # "drag",
                   !.asked = IF win.live THEN <<>>
                             ELSE IF @ = <<>> \/ (Wheel(in) /\ ~win.nav.on) \/ (free /\ in.kind = "drag")
                                     \/ (forced = NoView /\ ~free)
                                  THEN view ELSE @]
  IN  IF n = 0 THEN [win EXCEPT !.panels = 0] ELSE Marker(new, in)

\* the overview strip
Strip(win, in) ==
  IF in.kind = "strip" THEN NavigateTo([win EXCEPT !.live = FALSE], in.value) ELSE win

-----------------------------------------------------------------------------
(* The log panel.                                                          *)

Distance(t, u) == IF t < u THEN u - t ELSE t - u

\* tightens the view around a warning or worse, so that its neighbours get markers of their own
AutoResolveSelection(win, i) ==
  LET e     == Entries[i]
      near  == {Distance(e.ts, Entries[j].ts) : j \in {k \in Logged : k # i /\ Entries[k].warn}}
      span  == IF near = {} THEN Lonely ELSE Max({MinResolve, Min(near) * PerNeighbour})
  IN  IF e.warn /\ Width(win.view) > 0
      THEN NavigateToWithSpan(win, e.ts, Min({span, Width(win.view)})) ELSE win

\* ConsumeLogMarkerClick
TakeClick(win) ==
  IF win.click = Nobody THEN win ELSE [win EXCEPT !.selected = win.click, !.click = Nobody]

Resolve(win) ==
  IF win.resolve /\ win.selected \notin {Nobody, win.resolved}
  THEN AutoResolveSelection([win EXCEPT !.resolved = win.selected],
                            CHOOSE i \in Logged : Entries[i].ts = win.selected)
  ELSE IF win.selected = Nobody THEN [win EXCEPT !.resolved = Nobody] ELSE win

Checkboxes(win, in) ==
  CASE in.kind = "sync"    -> [win EXCEPT !.sync = ~@, !.lastMax = 0]
    [] in.kind = "resolve" -> [win EXCEPT !.resolve = ~@]
    [] OTHER -> win

\* a limit that is not positive is none
InView(win, ts) == (win.view[1] > 0 => ts >= win.view[1]) /\ (win.view[2] > 0 => ts <= win.view[2])

Deselect(win) ==
  IF win.selected # Nobody /\ ~InView(win, win.selected)
  THEN [win EXCEPT !.selected = Nobody, !.resolved = Nobody] ELSE win

Sync(win) ==
  LET right == IF win.view[2] > 0 THEN win.view[2] ELSE NoData
      seen  == {Entries[i].ts : i \in {j \in Logged : InView(win, Entries[j].ts)}}
  IN  IF ~win.sync \/ right = win.lastMax THEN win
      ELSE [win EXCEPT !.lastMax = right, !.selected = IF seen = {} THEN @ ELSE Max(seen)]

ClickRow(win, in) ==
  LET ts  == Entries[in.value].ts
      new == NavigateTo([win EXCEPT !.selected = ts], ts)
  IN  IF in.kind # "row" THEN win
      ELSE IF win.resolve THEN [AutoResolveSelection(new, in.value) EXCEPT !.resolved = ts] ELSE new

LogPanel(win, in) ==
  IF ~win.open THEN win
  ELSE ClickRow(Sync(Deselect(Checkboxes(Resolve(TakeClick(win)), in))), in)

\* plausible bug: the panels leave the live view alone
NotTaken(win) == [win EXCEPT !.requested = FALSE]
\* whoever navigates stops the live view
ConsumeNavRequested(win) == [win EXCEPT !.live = @ /\ ~win.requested, !.requested = FALSE]

\* the annotation panel comes after that
Notes(win, in) ==
  IF in.kind = "note" THEN NavigateTo([win EXCEPT !.live = FALSE], in.value) ELSE win

-----------------------------------------------------------------------------
\* history: the row that was clicked last
Clicked(win, in) ==
  [win EXCEPT !.row = IF in.kind = "row" /\ win.open /\ win.placed THEN Entries[in.value].ts
                      ELSE IF in = Idle THEN @ ELSE Nobody]

Frame(in) ==
  \E reset \in BOOLEAN :
    LET drawn == Strip(Rendered(Toolbar(w, in), in, reset), in)
    IN  w' = Clicked(Notes(ConsumeNavRequested(LogPanel(drawn, in)), in), in)

Next ==
  \/ Arrive \/ SetLiveness
  \/ Frame(Idle) /\ UNCHANGED <<latest, online, inputs>>
  \/ \E in \in Inputs :
       /\ inputs < MaxInputs /\ inputs' = inputs + 1
       /\ Frame(in) /\ UNCHANGED <<latest, online>>

-----------------------------------------------------------------------------
(* Properties.                                                             *)

\* Once the live view is off, the window shows what was last asked for: the place that a
\* strip, marker, row or note stands for is in its middle, or it is what the wheel or the
\* drag made of it, or what was there when the live view ended; in whatever frame that was,
\* and neither the arrival of data, the end of the session, a graph that comes or goes nor a
\* live edge takes it away. (The first data do: the view that is placed for them overrides a
\* navigation made before.)
ViewAsAsked ==
  ~w.live /\ w.placed /\ ~w.nav.on /\ w.panels > 0 /\ w.asked # <<>> =>
    IF Len(w.asked) = 1 THEN w.view[1] + w.view[2] = 2 * w.asked[1] ELSE w.view = w.asked

\* "on click, seek the waveform to this entry" (LogPanel.cpp:454): a row that was clicked is
\* still selected, and comes into the middle of the graphs, however many frames go by; unless
\* Sync selects for the user, or there is no graph.
RowClickSeen ==
  w.row # Nobody /\ ~w.sync /\ w.panels > 0 =>
    /\ w.selected = w.row
    /\ IF w.nav.on THEN w.nav.target = w.row ELSE w.view[1] + w.view[2] = 2 * w.row

=============================================================================
