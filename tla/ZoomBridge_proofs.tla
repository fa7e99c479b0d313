------------------------- MODULE ZoomBridge_proofs -------------------------
(***************************************************************************)
(* Theorems about ZoomBridge, for every number of sessions, browsers,      *)
(* feeds, records, ring places, trail points and commands.                 *)
(***************************************************************************)
EXTENDS ZoomBridge, TLAPS

-----------------------------------------------------------------------------
(* The inductive invariant.                                                *)

FramesOf(s) == [session : {s}, ts : Nat]

\* what a browser shows beside the name of the selected session
PictureOf(v, s) ==
  /\ DOMAIN v = {"active", "nav", "att", "trail", "timeline"}
  /\ v.nav \in FramesOf(s) \cup {None} /\ v.att \in FramesOf(s) \cup {None}
  /\ v.trail \in Seq(FramesOf(s)) /\ Of(s, v.timeline)

ViewOf(v, s) == PictureOf(v, s) /\ v.active = s

\* where the old reader is gone, its frames with it, and the new one has not begun
Between == {"switch reset", "switch ready", "seek reset", "seek ready"}

Switching == {"switch", "switch reset", "switch ready"}
Seeking   == {"seek", "seek reset", "seek ready"}

\* what a switch and a seek read when they begin the new reader
ReaderTypes ==
  /\ count \in [Sessions -> [Feeds -> Nat]]
  /\ known \subseteq Sessions /\ (fresh # None => fresh.sessions \subseteq Sessions)
  /\ DOMAIN reader = {"thread", "stop", "consumer", "session", "next"} /\ reader.next \in [Feeds -> Nat]
  /\ DOMAIN pending = {"session", "seek", "pause"} /\ pending.session \in Sessions \cup {None}
  /\ pending.seek \in Nat \cup {None}
  /\ DOMAIN play = {"paused", "loadDone", "target"} /\ play.target \in Nat
  /\ DOMAIN active = {"session", "live"} /\ active.session \in Sessions \cup {None}
  /\ DOMAIN loop = {"at", "popped"}
  /\ loop.at \in {"idle", "nav", "att", "rest", "tail"} \cup Switching \cup Seeking
  /\ loop.at \in Switching => pending.session \in Sessions
  /\ loop.at \in Seeking => active.session \in Sessions

\* everything on its way is of the selected session, and so is what the reader adds
BridgeInv ==
  /\ DOMAIN reader = {"thread", "stop", "consumer", "session", "next"} /\ DOMAIN loop = {"at", "popped"}
  /\ ring \in [Feeds -> Seq(FramesOf(active.session))]
  /\ trail \in Seq(FramesOf(active.session))
  /\ asm \in [Feeds -> FramesOf(active.session) \cup {None}]
  /\ \A c \in Clients : view[c] # Off => ViewOf(view[c], active.session)
  /\ reader.thread = "run" => reader.session = active.session
  /\ loop.at \in Between => reader.thread = "none" /\ \A f \in Feeds : ring[f] = << >>

-----------------------------------------------------------------------------
(* The types.                                                              *)

LEMMA SubscribeType ==
  ASSUME count \in [Sessions -> [Feeds -> Nat]], NEW s \in Sessions, NEW t \in Nat
  PROVE  Subscribe(s, t) \in [Feeds -> Nat]
  <1>1. ASSUME NEW f \in Feeds PROVE OffsetAt(s, f, t) \in Nat
    <2>1. count[s][f] + 1 \in Nat /\ (t + 1) \div 2 \in Nat
      <3>1. count[s][f] \in Nat
        OBVIOUS
      <3>2. (t + 1) \div 2 \in Nat
        OBVIOUS
      <3>. QED  BY <3>1, <3>2
    <2>. QED  BY <2>1 DEF OffsetAt, Larger
  <1>. QED  BY <1>1 DEF Subscribe

LEMMA LiveStartType ==
  ASSUME count \in [Sessions -> [Feeds -> Nat]], NEW s \in Sessions, NEW f \in Feeds
  PROVE  LiveStart(s, f) \in Nat
  <1>1. count[s][f] \in Nat /\ Margin \in Nat
    BY ZoomAssumption
  <1>2. 2 * count[s][f] - Margin \in Int
    BY <1>1
  <1>3. Larger(0, 2 * count[s][f] - Margin) \in Nat
    BY <1>2 DEF Larger
  <1>. QED  BY <1>3 DEF LiveStart

LEMMA TypesNext == ReaderTypes /\ [Next]_vars => ReaderTypes'
  <1> SUFFICES ASSUME ReaderTypes, [Next]_vars PROVE ReaderTypes'
    OBVIOUS
  <1> USE DEF topicVars, listVars, bridgeVars, showVars, Switching, Seeking
  <1>1. ASSUME NEW s \in Sessions, NEW f \in Growing, Produce(s, f) PROVE ReaderTypes'
    <2>1. count' = [count EXCEPT ![s][f] = @ + 1] /\ f \in Feeds
      BY <1>1, ZoomAssumption DEF Produce
    <2>2. count' \in [Sessions -> [Feeds -> Nat]]
      <3>1. count \in [Sessions -> [Feeds -> Nat]]
        BY DEF ReaderTypes
      <3>2. count[s][f] \in Nat
        BY <2>1, <3>1
      <3>3. count[s][f] + 1 \in Nat
        BY <3>2
      <3>4. [count[s] EXCEPT ![f] = @ + 1] \in [Feeds -> Nat]
        BY <3>1, <3>3
      <3>. QED  BY <2>1, <3>1, <3>4
    <2>. QED  BY <1>1, <2>2 DEF Produce, ReaderTypes
  <1>2. ASSUME NEW found \in Scans, DiscoveryThreadFunc(found) PROVE ReaderTypes'
    <2>1. fresh'.sessions = found /\ found \subseteq Sessions
      BY <1>2, ZoomAssumption DEF DiscoveryThreadFunc
    <2>. QED  BY <1>2, <2>1 DEF DiscoveryThreadFunc, ReaderTypes
  <1>3. ASSUME NEW f \in Feeds, OnMessage(f) PROVE ReaderTypes'
    <2>0. reader.next[f] \in Nat
      BY DEF ReaderTypes
    <2>1. reader.next[f] + 1 \in Nat /\ reader' = [reader EXCEPT !.next[f] = @ + 1]
      BY <1>3, <2>0 DEF OnMessage
    <2>2. DOMAIN reader' = DOMAIN reader /\ reader'.next = [reader.next EXCEPT ![f] = @ + 1]
      BY <2>1 DEF ReaderTypes
    <2>3. reader'.next \in [Feeds -> Nat]
      BY <2>1, <2>2 DEF ReaderTypes
    <2>. QED  BY <1>3, <2>2, <2>3 DEF OnMessage, ReaderTypes
  <1>4. CASE TickSwitch
    BY <1>4 DEF TickSwitch, StopReader, Goto, InLoop, ReaderTypes
  <1>5. CASE TickSeek
    BY <1>5 DEF TickSeek, StopReader, Goto, InLoop, ReaderTypes
  <1>6. CASE JoinAndReset
    BY <1>6 DEF JoinAndReset, Reset, Goto, NoOffsets, ReaderTypes
  <1>7. CASE CreateConsumerAndClearStop
    BY <1>7 DEF CreateConsumerAndClearStop, Goto, ReaderTypes
  <1>8. CASE SwitchToSession
    <2>1. pending.session \in Sessions /\ count \in [Sessions -> [Feeds -> Nat]]
      BY <1>8 DEF SwitchToSession, InLoop, ReaderTypes
    <2>2. PICK f \in Feeds : StartReader(pending.session, LiveStart(pending.session, f))
      BY <1>8 DEF SwitchToSession
    <2>3. Subscribe(pending.session, LiveStart(pending.session, f)) \in [Feeds -> Nat]
      BY <2>1, LiveStartType, SubscribeType
    <2>4. DOMAIN reader' = DOMAIN reader /\ reader'.next \in [Feeds -> Nat]
      BY <2>2, <2>3 DEF StartReader, ReaderTypes
    <2>. QED  BY <1>8, <2>1, <2>4 DEF SwitchToSession, Goto, ReaderTypes
  <1>9. CASE ProcessSeek
    <2>1. /\ active.session \in Sessions /\ play.target \in Nat /\ count \in [Sessions -> [Feeds -> Nat]]
          /\ StartReader(active.session, play.target)
      BY <1>9 DEF ProcessSeek, InLoop, ReaderTypes
    <2>2. Subscribe(active.session, play.target) \in [Feeds -> Nat]
      BY <2>1, SubscribeType
    <2>3. DOMAIN reader' = DOMAIN reader /\ reader'.next \in [Feeds -> Nat]
      BY <2>1, <2>2 DEF StartReader, ReaderTypes
    <2>. QED  BY <1>9, <2>3 DEF ProcessSeek, Goto, ReaderTypes
  <1>10. CASE TickList
    BY <1>10 DEF TickList, InLoop, ReaderTypes
  <1>11. CASE DrainedFeed
    BY <1>11 DEF DrainedFeed, InLoop, Goto, ReaderTypes
  <1>12. ASSUME NEW emit \in BOOLEAN, DrainNav(emit) \/ DrainAtt(emit) \/ \E f \in Feeds : DrainOther(f, emit)
         PROVE  ReaderTypes'
    BY <1>12 DEF DrainNav, DrainAtt, DrainOther, DrainFrame, InLoop, ReaderTypes
  <1>13. CASE AutoPause
    BY <1>13 DEF AutoPause, Goto, ReaderTypes
  <1>14. ASSUME NEW snapshot \in BOOLEAN, NEW timeline \in BOOLEAN, TickTail(snapshot, timeline)
         PROVE  ReaderTypes'
    BY <1>14 DEF TickTail, Goto, ReaderTypes
  <1>15. CASE CloseListenSocket \/ RunReturns \/ Destroy \/ UNCHANGED vars
    BY <1>15 DEF CloseListenSocket, RunReturns, Destroy, ReaderTypes, vars
  <1>16. CASE KafkaThreadExit \/ Stop
    BY <1>16 DEF KafkaThreadExit, Stop, ReaderTypes
  <1>17. ASSUME NEW c \in Clients, OnClientOpen(c) \/ OnClientClose(c) PROVE ReaderTypes'
    BY <1>17 DEF OnClientOpen, OnClientClose, ReaderTypes
  <1>18. CASE \/ \E s \in Sessions : ClientSelects(s)
              \/ \E t \in SeekTimes : ClientSeeks(t)
              \/ \E b \in BOOLEAN : ClientPauses(b)
    <2>1. \A t \in SeekTimes : t \in Nat
      BY ZoomAssumption
    <2>. QED  BY <1>18, <2>1 DEF ClientSelects, ClientSeeks, ClientPauses, OnClientMessage, InLoop, ReaderTypes
  <1>19. ASSUME NEW s \in Sessions, EndSession(s) PROVE ReaderTypes'
    BY <1>19 DEF EndSession, ReaderTypes
  <1>. QED  BY <1>1, <1>2, <1>3, <1>4, <1>5, <1>6, <1>7, <1>8, <1>9, <1>10, <1>11, <1>12, <1>13, <1>14,
               <1>15, <1>16, <1>17, <1>18, <1>19 DEF Next, LoopNext, KafkaNext, ClientNext

-----------------------------------------------------------------------------
(* The reducer of the browser.                                             *)

LEMMA EndsOfTrail ==
  ASSUME NEW S, NEW points \in Seq(S) PROVE Ends(points) \in Seq(S)
  <1>1. Len(points) \in Nat /\ \A i \in 1 .. Len(points) : points[i] \in S
    OBVIOUS
  <1>2. CASE Len(points) > 2
    <2>1. points[1] \in S /\ points[Len(points)] \in S
      BY <1>1, <1>2
    <2>. QED  BY <1>2, <2>1 DEF Ends
  <1>3. CASE Len(points) <= 2
    BY <1>3 DEF Ends
  <1>. QED  BY <1>1, <1>2, <1>3

LEMMA SeesPicture ==
  ASSUME NEW s, NEW v, PictureOf(v, s)
  PROVE  /\ ViewOf(SeeSessions(v, s), s)
         /\ \A frame \in FramesOf(s) : /\ PictureOf(SeeNav(v, frame), s) /\ SeeNav(v, frame).active = v.active
                                       /\ PictureOf(SeeAtt(v, frame), s) /\ SeeAtt(v, frame).active = v.active
         /\ \A pts \in Seq(FramesOf(s)) : /\ PictureOf(SeeTrail(v, pts), s)
                                          /\ SeeTrail(v, pts).active = v.active
         /\ \A tl : Of(s, tl) => PictureOf(SeeTimeline(v, tl), s) /\ SeeTimeline(v, tl).active = v.active
  <1>1. ViewOf(SeeSessions(v, s), s)
    BY DEF PictureOf, ViewOf, SeeSessions
  <1>2. ASSUME NEW frame \in FramesOf(s)
        PROVE  /\ PictureOf(SeeNav(v, frame), s) /\ SeeNav(v, frame).active = v.active
               /\ PictureOf(SeeAtt(v, frame), s) /\ SeeAtt(v, frame).active = v.active
    <2>1. Append(v.trail, frame) \in Seq(FramesOf(s))
      BY DEF PictureOf
    <2>2. Ends(Append(v.trail, frame)) \in Seq(FramesOf(s))
      BY <2>1, EndsOfTrail
    <2>3. PictureOf(SeeAtt(v, frame), s) /\ SeeAtt(v, frame).active = v.active
      BY DEF PictureOf, SeeAtt
    <2>4. [v EXCEPT !.nav = frame].trail = v.trail
      BY DEF PictureOf
    <2>5. PictureOf(SeeNav(v, frame), s) /\ SeeNav(v, frame).active = v.active
      BY <2>2, <2>4 DEF PictureOf, SeeNav
    <2>. QED  BY <2>3, <2>5
  <1>3. ASSUME NEW pts \in Seq(FramesOf(s))
        PROVE  PictureOf(SeeTrail(v, pts), s) /\ SeeTrail(v, pts).active = v.active
    <2>1. Ends(pts) \in Seq(FramesOf(s))
      BY EndsOfTrail
    <2>. QED  BY <2>1 DEF PictureOf, SeeTrail
  <1>4. ASSUME NEW tl, Of(s, tl)
        PROVE  PictureOf(SeeTimeline(v, tl), s) /\ SeeTimeline(v, tl).active = v.active
    BY <1>4 DEF PictureOf, SeeTimeline
  <1>. QED  BY <1>1, <1>2, <1>3, <1>4

LEMMA SeesTimeline ==
  ASSUME NEW s, NEW v, PictureOf(v, s), v.active = s, NEW tl, Of(s, tl)
  PROVE  ViewOf(SeeTimeline(v, tl), s)
  BY DEF PictureOf, ViewOf, SeeTimeline

\* What the bridge shows of what it has.
LEMMA Pictures ==
  ASSUME BridgeInv, NEW v, PictureOf(v, active.session)
  PROVE  PictureOf(SeePicture(v), active.session) /\ SeePicture(v).active = v.active
  <1> DEFINE s == active.session
             w == SeeSnapshot(v, asm)
  <1>1. PictureOf(w, s) /\ w.active = v.active
    <2>1. CASE HasMinimumData(asm)
      <3>1. asm["nav"] \in FramesOf(s) /\ asm["att"] \in FramesOf(s)
        BY <2>1, ZoomAssumption DEF BridgeInv, HasMinimumData
      <3> DEFINE n == SeeNav(v, asm["nav"])
      <3>2. PictureOf(n, s) /\ n.active = v.active
        BY <3>1, SeesPicture
      <3>3. w = SeeAtt(n, asm["att"])
        BY <2>1 DEF SeeSnapshot
      <3> HIDE DEF n
      <3>4. PictureOf(SeeAtt(n, asm["att"]), s) /\ SeeAtt(n, asm["att"]).active = n.active
        BY <3>1, <3>2, SeesPicture
      <3>. QED  BY <3>2, <3>3, <3>4
    <2>2. CASE ~HasMinimumData(asm)
      BY <2>2 DEF SeeSnapshot
    <2>. QED  BY <2>1, <2>2
  <1>2. trail \in Seq(FramesOf(s)) /\ SeePicture(v) = SeeTrail(w, trail)
    BY DEF BridgeInv, SeePicture
  <1> HIDE DEF w
  <1>. QED  BY <1>1, <1>2, SeesPicture

LEMMA Timelines == \A current, paused : Of(active.session, Timeline(current, paused))
  BY DEF Of, Timeline

-----------------------------------------------------------------------------
(* The steps.                                                              *)

\* A broadcast leaves each open browser with what it makes of it.
LEMMA BroadcastStep ==
  ASSUME NEW s, NEW seen, Broadcast(seen), \A c \in Open : ViewOf(seen[c], s)
  PROVE  \A c \in Clients : view'[c] # Off => ViewOf(view'[c], s)
  BY DEF Broadcast, Open

\* The reader stops or ends, or nothing of it changes, and the frames stay where they are.
LEMMA QuietStep ==
  ASSUME BridgeInv, UNCHANGED <<active, ring, asm, trail>>,
         \A c \in Clients : view'[c] # Off => ViewOf(view'[c], active.session),
         DOMAIN reader' = DOMAIN reader /\ reader'.session = reader.session,
         \/ reader'.thread = reader.thread
         \/ reader.thread = "run" /\ reader'.thread = "done",
         DOMAIN loop' = DOMAIN loop,
         loop'.at \in Between => loop.at \in Between
  PROVE  BridgeInv'
  BY DEF BridgeInv, Between

LEMMA ViewsStay ==
  ASSUME BridgeInv, view' = view
  PROVE  \A c \in Clients : view'[c] # Off => ViewOf(view'[c], active.session)
  BY DEF BridgeInv

LEMMA QuietActions ==
  ASSUME BridgeInv,
         \/ TickSwitch \/ TickSeek \/ CreateConsumerAndClearStop \/ DrainedFeed \/ CloseListenSocket
         \/ RunReturns \/ Destroy \/ KafkaThreadExit \/ Stop
         \/ \E s \in Sessions : ClientSelects(s) \/ EndSession(s) \/ \E f \in Growing : Produce(s, f)
         \/ \E t \in SeekTimes : ClientSeeks(t)
         \/ \E b \in BOOLEAN : ClientPauses(b)
         \/ \E found \in Scans : DiscoveryThreadFunc(found)
         \/ UNCHANGED vars
  PROVE  BridgeInv'
  <1> USE DEF topicVars, listVars, bridgeVars, showVars, vars
  <1>1. DOMAIN reader = {"thread", "stop", "consumer", "session", "next"} /\ DOMAIN loop = {"at", "popped"}
    BY DEF BridgeInv
  <1>2. CASE TickSwitch \/ TickSeek
    <2>1. /\ UNCHANGED <<active, ring, asm, trail, view, ts>>
          /\ \/ UNCHANGED <<reader, loop>>
             \/ StopReader("switch") \/ StopReader("seek")
      BY <1>2 DEF TickSwitch, TickSeek
    <2>2. /\ DOMAIN reader' = DOMAIN reader /\ reader'.session = reader.session
          /\ reader'.thread = reader.thread
          /\ DOMAIN loop' = DOMAIN loop /\ (loop'.at \in Between => loop.at \in Between)
      BY <1>1, <2>1 DEF StopReader, Goto, Between
    <2>. QED  BY <2>1, <2>2, ViewsStay, QuietStep
  <1>3. CASE CreateConsumerAndClearStop
    <2>1. UNCHANGED <<active, ring, asm, trail, view, ts>>
      BY <1>3 DEF CreateConsumerAndClearStop
    <2>2. /\ DOMAIN reader' = DOMAIN reader /\ reader'.session = reader.session
          /\ reader'.thread = reader.thread
          /\ DOMAIN loop' = DOMAIN loop /\ loop.at \in Between
      BY <1>1, <1>3 DEF CreateConsumerAndClearStop, Goto, Between
    <2>. QED  BY <2>1, <2>2, ViewsStay, QuietStep
  <1>4. CASE DrainedFeed
    <2>1. UNCHANGED <<active, ring, asm, trail, view, ts, reader>>
      BY <1>4 DEF DrainedFeed
    <2>2. DOMAIN loop' = DOMAIN loop /\ loop'.at \notin Between
      BY <1>1, <1>4 DEF DrainedFeed, Goto, Between
    <2>. QED  BY <2>1, <2>2, ViewsStay, QuietStep
  <1>5. CASE KafkaThreadExit \/ Stop
    <2>1. UNCHANGED <<active, ring, asm, trail, view, ts, loop>>
      BY <1>5 DEF KafkaThreadExit, Stop
    <2>2. /\ DOMAIN reader' = DOMAIN reader /\ reader'.session = reader.session
          /\ \/ reader'.thread = reader.thread
             \/ reader.thread = "run" /\ reader'.thread = "done"
      BY <1>1, <1>5 DEF KafkaThreadExit, Stop
    <2>. QED  BY <2>1, <2>2, ViewsStay, QuietStep
  <1>6. CASE \/ CloseListenSocket \/ RunReturns \/ Destroy
             \/ \E s \in Sessions : ClientSelects(s) \/ EndSession(s) \/ \E f \in Growing : Produce(s, f)
             \/ \E t \in SeekTimes : ClientSeeks(t)
             \/ \E b \in BOOLEAN : ClientPauses(b)
             \/ \E found \in Scans : DiscoveryThreadFunc(found)
             \/ UNCHANGED vars
    <2>1. UNCHANGED <<active, ring, asm, trail, view, ts, loop, reader>>
      BY <1>6 DEF CloseListenSocket, RunReturns, Destroy, ClientSelects, ClientSeeks, ClientPauses,
                  OnClientMessage, EndSession, Produce, DiscoveryThreadFunc
    <2>. QED  BY <2>1, ViewsStay, QuietStep
  <1>. QED  BY <1>2, <1>3, <1>4, <1>5, <1>6

\* A message of the reader, while it runs: it is of the session selected.
LEMMA MessageStep == ASSUME ReaderTypes, BridgeInv, NEW g \in Feeds, OnMessage(g) PROVE BridgeInv'
  <1> USE DEF topicVars, listVars, bridgeVars, showVars
  <1>1. /\ reader.thread = "run" /\ reader' = [reader EXCEPT !.next[g] = @ + 1]
        /\ UNCHANGED <<active, asm, trail, view, ts, loop>>
        /\ \/ ring' = [ring EXCEPT ![g] = Append(@, Frame(reader.session, reader.next[g]))]
           \/ ring' = ring
    BY DEF OnMessage
  <1>2. /\ ring \in [Feeds -> Seq(FramesOf(active.session))]
        /\ DOMAIN reader = {"thread", "stop", "consumer", "session", "next"}
        /\ reader.session = active.session /\ loop.at \notin Between
    BY <1>1 DEF BridgeInv
  <1>3. ring' \in [Feeds -> Seq(FramesOf(active.session))]
    <2>1. CASE ring' = ring
      BY <1>2, <2>1
    <2>2. CASE ring' = [ring EXCEPT ![g] = Append(@, Frame(reader.session, reader.next[g]))]
      <3>1. Frame(reader.session, reader.next[g]) \in FramesOf(active.session)
        <4>1. reader.next[g] \in Nat
          BY DEF ReaderTypes
        <4>2. 2 * reader.next[g] \in Nat
          BY <4>1
        <4>. QED  BY <1>2, <4>2 DEF Frame, FramesOf
      <3>2. Append(ring[g], Frame(reader.session, reader.next[g])) \in Seq(FramesOf(active.session))
        BY <1>2, <3>1
      <3>. QED  BY <1>2, <2>2, <3>2
    <2>. QED  BY <1>1, <2>1, <2>2
  <1>4. /\ DOMAIN reader' = DOMAIN reader /\ reader'.thread = reader.thread
        /\ reader'.session = reader.session
    BY <1>1, <1>2
  <1>. QED  BY <1>1, <1>2, <1>3, <1>4, ViewsStay DEF BridgeInv

LEMMA EmptyShow ==
  \A s : NoFrames \in [Feeds -> FramesOf(s) \cup {None}] /\ << >> \in Seq(FramesOf(s))
  BY DEF NoFrames

LEMMA SwitchSteps ==
  ASSUME BridgeInv, JoinAndReset \/ SwitchToSession \/ ProcessSeek PROVE BridgeInv'
  <1> USE DEF topicVars, listVars, bridgeVars, showVars
  <1>1. CASE JoinAndReset
    <2>1. /\ UNCHANGED <<active, asm, trail, view, ts>>
          /\ reader' = [reader EXCEPT !.consumer = FALSE, !.thread = "none", !.next = NoOffsets]
          /\ ring' = [f \in Feeds |-> << >>]
          /\ \E where \in Between : loop' = [loop EXCEPT !.at = where]
      BY <1>1 DEF JoinAndReset, Reset, Goto, Between
    <2>2. DOMAIN reader' = DOMAIN reader /\ reader'.thread = "none" /\ DOMAIN loop' = DOMAIN loop
      BY <2>1 DEF BridgeInv
    <2>3. ring' \in [Feeds -> Seq(FramesOf(active.session))] /\ \A f \in Feeds : ring'[f] = << >>
      BY <2>1
    <2>. QED  BY <2>1, <2>2, <2>3, ViewsStay DEF BridgeInv
  <1>2. CASE SwitchToSession
    <2> DEFINE s == pending.session
    <2>1. /\ loop.at = "switch ready" /\ UNCHANGED ring
          /\ reader'.session = s /\ DOMAIN reader' = DOMAIN reader
          /\ active' = [session |-> s, live |-> s \in live]
          /\ trail' = << >> /\ asm' = NoFrames
          /\ loop' = [loop EXCEPT !.at = "idle"]
      BY <1>2 DEF SwitchToSession, InLoop, StartReader, ResetShow, Goto, BridgeInv
    <2>2. active'.session = s
      BY <2>1
    <2>3. ring' \in [Feeds -> Seq(FramesOf(s))]
      <3>1. ring \in [Feeds -> Seq(FramesOf(active.session))] /\ \A f \in Feeds : ring[f] = << >>
        BY <2>1 DEF BridgeInv, Between
      <3>2. ring = [f \in Feeds |-> << >>]
        BY <3>1
      <3>3. ring' = ring /\ << >> \in Seq(FramesOf(s))
        BY <2>1, EmptyShow
      <3>. QED  BY <3>2, <3>3
    <2>4. asm' \in [Feeds -> FramesOf(s) \cup {None}] /\ trail' \in Seq(FramesOf(s))
      BY <2>1, EmptyShow
    <2>5. \A c \in Clients : view'[c] # Off => ViewOf(view'[c], s)
      <3>1. ASSUME NEW v PROVE ViewOf(SeeSelected(v, s), s)
        BY DEF SeeSelected, BlankView, ViewOf, PictureOf, Of
      <3>2. Broadcast([c \in Open |-> SeeSelected(view[c], s)])
        BY <1>2 DEF SwitchToSession
      <3>3. \A c \in Open : ViewOf([d \in Open |-> SeeSelected(view[d], s)][c], s)
        BY <3>1
      <3> HIDE DEF s
      <3>. QED  BY <3>2, <3>3, BroadcastStep
    <2>6. DOMAIN loop' = DOMAIN loop /\ loop'.at \notin Between
      BY <2>1 DEF BridgeInv, Between
    <2>. QED  BY <2>1, <2>2, <2>3, <2>4, <2>5, <2>6 DEF BridgeInv
  <1>3. CASE ProcessSeek
    <2>1. /\ UNCHANGED <<ring, active, view>>
          /\ reader'.session = active.session /\ DOMAIN reader' = DOMAIN reader
          /\ trail' = << >> \/ trail' = trail
          /\ asm' = NoFrames
          /\ loop' = [loop EXCEPT !.at = "idle"]
          /\ trail \in Seq(FramesOf(active.session))
      BY <1>3 DEF ProcessSeek, StartReader, ResetShow, Goto, BridgeInv
    <2>2. asm' \in [Feeds -> FramesOf(active.session) \cup {None}] /\ trail' \in Seq(FramesOf(active.session))
      BY <2>1, EmptyShow
    <2>3. DOMAIN loop' = DOMAIN loop /\ loop'.at \notin Between
      BY <2>1 DEF BridgeInv, Between
    <2>. QED  BY <2>1, <2>2, <2>3, ViewsStay DEF BridgeInv
  <1>. QED  BY <1>1, <1>2, <1>3

\* Steps of a tick that show something and leave the frames where they are.
LEMMA ShowSteps ==
  ASSUME BridgeInv,
         TickList \/ AutoPause \/ \E snapshot, timeline \in BOOLEAN : TickTail(snapshot, timeline)
  PROVE  BridgeInv'
  <1> USE DEF topicVars, listVars, bridgeVars, showVars
  <1> DEFINE s == active.session
  <1>1. \A c \in Open : PictureOf(view[c], s) /\ view[c].active = s
    BY DEF BridgeInv, Open, ViewOf
  <1>2. CASE TickList
    <2>1. UNCHANGED <<active, ring, asm, trail, reader, ts>>
      BY <1>2 DEF TickList
    <2>2. DOMAIN loop' = DOMAIN loop /\ (loop'.at \in Between => loop.at \in Between)
      BY <1>2 DEF TickList, Between, BridgeInv
    <2>3. \A c \in Clients : view'[c] # Off => ViewOf(view'[c], s)
      <3>1. CASE view' = view
        BY <3>1, ViewsStay
      <3>2. CASE Broadcast([c \in Open |-> SeeSessions(view[c], s)])
        <4>1. \A c \in Open : ViewOf([d \in Open |-> SeeSessions(view[d], s)][c], s)
          BY <1>1, SeesPicture
        <4>. QED  BY <3>2, <4>1, BroadcastStep
      <3>. QED  BY <1>2, <3>1, <3>2 DEF TickList
    <2>. QED  BY <2>1, <2>2, <2>3, QuietStep
  <1>3. CASE AutoPause
    <2> DEFINE position == IF play.target > 0 THEN play.target ELSE ts.latest
    <2>1. UNCHANGED <<active, ring, asm, trail, reader>> /\ ts' = [ts EXCEPT !.emit = position]
      BY <1>3 DEF AutoPause
    <2>2. DOMAIN loop' = DOMAIN loop /\ loop'.at \notin Between
      BY <1>3, <2>1 DEF AutoPause, Goto, Between, BridgeInv
    <2>3. \A c \in Clients : view'[c] # Off => ViewOf(view'[c], s)
      <3>1. Broadcast([c \in Open |-> SeeTimeline(SeePicture(view[c]), Timeline(position, TRUE))])
        BY <1>3 DEF AutoPause
      <3> HIDE DEF position
      <3>2. ASSUME NEW c \in Open
            PROVE  ViewOf(SeeTimeline(SeePicture(view[c]), Timeline(position, TRUE)), s)
        <4>1. PictureOf(SeePicture(view[c]), s) /\ SeePicture(view[c]).active = s
          BY <1>1, Pictures
        <4>2. Of(s, Timeline(position, TRUE))
          BY Timelines
        <4>. QED  BY <4>1, <4>2, SeesPicture DEF ViewOf
      <3>3. \A c \in Open :
              ViewOf([d \in Open |-> SeeTimeline(SeePicture(view[d]), Timeline(position, TRUE))][c], s)
        BY <3>2
      <3>. QED  BY <3>1, <3>3, BroadcastStep
    <2>. QED  BY <2>1, <2>2, <2>3, QuietStep
  <1>4. ASSUME NEW snapshot \in BOOLEAN, NEW timeline \in BOOLEAN, TickTail(snapshot, timeline)
        PROVE  BridgeInv'
    <2> DEFINE Snap(v) == IF snapshot THEN SeePicture(v) ELSE v
               line == IF timeline /\ ts.latest > 0 THEN CurrentTimeline ELSE None
    <2>1. UNCHANGED <<active, ring, asm, trail, reader, ts>>
      BY <1>4 DEF TickTail
    <2>2. DOMAIN loop' = DOMAIN loop /\ loop'.at \notin Between
      BY <1>4 DEF TickTail, Goto, Between, BridgeInv
    <2>3. \A c \in Clients : view'[c] # Off => ViewOf(view'[c], s)
      <3>1. Broadcast([c \in Open |-> SeeTimeline(Snap(view[c]), line)])
        BY <1>4 DEF TickTail
      <3>2. Of(s, line)
        BY Timelines DEF CurrentTimeline, Of
      <3>3. ASSUME NEW c \in Open PROVE PictureOf(Snap(view[c]), s) /\ Snap(view[c]).active = s
        BY <1>1, Pictures
      <3> HIDE DEF Snap, line
      <3>4. ASSUME NEW c \in Open PROVE ViewOf(SeeTimeline(Snap(view[c]), line), s)
        BY <3>2, <3>3, SeesTimeline
      <3>5. \A c \in Open : ViewOf([d \in Open |-> SeeTimeline(Snap(view[d]), line)][c], s)
        BY <3>4
      <3>. QED  BY <3>1, <3>5, BroadcastStep
    <2>. QED  BY <2>1, <2>2, <2>3, QuietStep
  <1>. QED  BY <1>2, <1>3, <1>4

\* The browsers come and go; who comes is told what there is.
LEMMA ClientSteps ==
  ASSUME BridgeInv, NEW c \in Clients, OnClientOpen(c) \/ OnClientClose(c) PROVE BridgeInv'
  <1> USE DEF topicVars, listVars, bridgeVars, showVars
  <1> DEFINE s == active.session
  <1>1. UNCHANGED <<active, ring, asm, trail, reader, loop, ts>>
    BY DEF OnClientOpen, OnClientClose
  <1>2. \A d \in Clients : view[d] # Off => PictureOf(view[d], s)
    BY DEF BridgeInv, ViewOf
  <1>3. ASSUME NEW v, PictureOf(v, s) PROVE ViewOf(Greet(v), s)
    <2> DEFINE listed == SeeSessions(v, s)
               shown  == IF HasMinimumData(asm) THEN SeePicture(listed) ELSE listed
               line   == IF ts.latest > 0 THEN CurrentTimeline ELSE None
    <2>1. ViewOf(listed, s)
      BY <1>3, SeesPicture
    <2>2. PictureOf(shown, s) /\ shown.active = s
      BY <2>1, Pictures DEF ViewOf
    <2>3. Of(s, line)
      BY Timelines DEF CurrentTimeline, Of
    <2>4. Greet(v) = IF s = None THEN listed ELSE SeeTimeline(shown, line)
      BY DEF Greet
    <2> HIDE DEF listed, shown, line
    <2>. QED  BY <2>1, <2>2, <2>3, <2>4, SeesTimeline
  <1>4. PictureOf(BlankView, s)
    BY DEF PictureOf, BlankView, Of
  <1>5. \A d \in Clients : view'[d] # Off => ViewOf(view'[d], s)
    <2>1. CASE OnClientOpen(c)
      <3>1. view' = [d \in Clients |-> IF d = c THEN Greet(BlankView)
                                       ELSE IF view[d] = Off THEN Off ELSE Greet(view[d])]
        BY <2>1 DEF OnClientOpen
      <3>2. ViewOf(Greet(BlankView), s) /\ \A d \in Clients : view[d] # Off => ViewOf(Greet(view[d]), s)
        BY <1>2, <1>3, <1>4
      <3>. QED  BY <3>1, <3>2
    <2>2. CASE OnClientClose(c)
      BY <2>2 DEF OnClientClose, BridgeInv
    <2>. QED  BY <2>1, <2>2
  <1>. QED  BY <1>1, <1>5, QuietStep

LEMMA TrailKeepsFrames ==
  ASSUME NEW S, NEW points \in Seq(S), NEW frame \in S PROVE TrailAppend(points, frame) \in Seq(S)
  <1> DEFINE longer == Append(points, frame)
  <1>1. longer \in Seq(S) /\ Len(longer) \in Nat /\ DOMAIN longer = 1 .. Len(longer)
        /\ \A i \in 1 .. Len(longer) : longer[i] \in S
    <2>1. longer \in Seq(S)
      OBVIOUS
    <2> HIDE DEF longer
    <2>. QED  BY <2>1
  <1>2. MaxPoints \in Nat /\ MaxPoints \div 2 \in Nat
    BY ZoomAssumption
  <1> HIDE DEF longer
  <1>3. CASE Len(longer) >= MaxPoints
    <2>1. SubSeq(longer, MaxPoints \div 2 + 1, Len(longer)) \in Seq(S)
      BY <1>1, <1>2
    <2>. QED  BY <1>3, <2>1 DEF TrailAppend, longer
  <1>4. CASE ~(Len(longer) >= MaxPoints)
    BY <1>1, <1>4 DEF TrailAppend, longer
  <1>. QED  BY <1>3, <1>4

\* A frame leaves its ring: whoever shows it shows one of the selected session.
LEMMA DrainSteps ==
  ASSUME BridgeInv, NEW emit \in BOOLEAN,
         DrainNav(emit) \/ DrainAtt(emit) \/ \E f \in Feeds : DrainOther(f, emit)
  PROVE  BridgeInv'
  <1> USE DEF topicVars, listVars, bridgeVars, showVars
  <1> DEFINE s == active.session
  <1>1. PICK f \in Feeds, assembles \in BOOLEAN : DrainFrame(f, assembles, emit) /\ ring[f] # << >>
    <2>1. "nav" \in Feeds /\ "att" \in Feeds
      BY ZoomAssumption
    <2>2. CASE DrainNav(emit)
      BY <2>1, <2>2 DEF DrainNav, Assembles
    <2>3. CASE DrainAtt(emit)
      BY <2>1, <2>3 DEF DrainAtt, Assembles
    <2>4. CASE \E g \in Feeds : DrainOther(g, emit)
      BY <2>4 DEF DrainOther
    <2>. QED  BY <2>2, <2>3, <2>4
  <1>2. /\ ring \in [Feeds -> Seq(FramesOf(s))] /\ trail \in Seq(FramesOf(s))
        /\ asm \in [Feeds -> FramesOf(s) \cup {None}]
        /\ \A c \in Open : PictureOf(view[c], s) /\ view[c].active = s
    BY DEF BridgeInv, ViewOf, Open
  <1>3. \A g \in Feeds : ring[g] # << >> => ring[g][1] \in FramesOf(s) /\ Tail(ring[g]) \in Seq(FramesOf(s))
    BY <1>2
  <1>4. /\ ring' \in [Feeds -> Seq(FramesOf(s))]
        /\ asm' \in [Feeds -> FramesOf(s) \cup {None}]
        /\ UNCHANGED <<reader, active>>
    <2>1. /\ ring' = [ring EXCEPT ![f] = Tail(@)] /\ UNCHANGED <<reader, active>>
          /\ asm' = asm \/ asm' = [asm EXCEPT ![f] = ring[f][1]]
      BY <1>1 DEF DrainFrame
    <2>. QED  BY <1>1, <1>2, <1>3, <2>1
  <1>5. CASE DrainNav(emit)
    <2> DEFINE frame == ring["nav"][1]
    <2>1. frame \in FramesOf(s)
      BY <1>3, <1>5, ZoomAssumption DEF DrainNav
    <2>2. trail' \in Seq(FramesOf(s))
      BY <1>2, <1>5, <2>1, TrailKeepsFrames DEF DrainNav
    <2>3. \A c \in Clients : view'[c] # Off => ViewOf(view'[c], s)
      <3>1. CASE view' = view
        BY <3>1, ViewsStay
      <3>2. CASE Broadcast([c \in Open |-> SeeNav(view[c], frame)])
        <4> HIDE DEF frame
        <4>1. ASSUME NEW c \in Open PROVE ViewOf(SeeNav(view[c], frame), s)
          <5>1. PictureOf(view[c], s) /\ view[c].active = s
            BY <1>2
          <5>2. PictureOf(SeeNav(view[c], frame), s) /\ SeeNav(view[c], frame).active = view[c].active
            BY <2>1, <5>1, SeesPicture
          <5>. QED  BY <5>1, <5>2 DEF ViewOf
        <4>2. \A c \in Open : ViewOf([d \in Open |-> SeeNav(view[d], frame)][c], s)
          BY <4>1
        <4>. QED  BY <3>2, <4>2, BroadcastStep
      <3>. QED  BY <1>5, <3>1, <3>2 DEF DrainNav
    <2>4. /\ loop.at \notin Between /\ loop'.at = loop.at /\ DOMAIN loop' = DOMAIN loop
         
      BY <1>5 DEF DrainNav, InLoop, Between, BridgeInv
    <2>. QED  BY <1>4, <2>2, <2>3, <2>4 DEF BridgeInv
  <1>6. CASE DrainAtt(emit)
    <2> DEFINE frame == ring["att"][1]
    <2>1. frame \in FramesOf(s)
      BY <1>3, <1>6, ZoomAssumption DEF DrainAtt
    <2>2. trail' = trail
      BY <1>6 DEF DrainAtt
    <2>3. \A c \in Clients : view'[c] # Off => ViewOf(view'[c], s)
      <3>1. CASE view' = view
        BY <3>1, ViewsStay
      <3>2. CASE Broadcast([c \in Open |-> SeeAtt(view[c], frame)])
        <4> HIDE DEF frame
        <4>1. ASSUME NEW c \in Open PROVE ViewOf(SeeAtt(view[c], frame), s)
          <5>1. PictureOf(view[c], s) /\ view[c].active = s
            BY <1>2
          <5>2. PictureOf(SeeAtt(view[c], frame), s) /\ SeeAtt(view[c], frame).active = view[c].active
            BY <2>1, <5>1, SeesPicture
          <5>. QED  BY <5>1, <5>2 DEF ViewOf
        <4>2. \A c \in Open : ViewOf([d \in Open |-> SeeAtt(view[d], frame)][c], s)
          BY <4>1
        <4>. QED  BY <3>2, <4>2, BroadcastStep
      <3>. QED  BY <1>6, <3>1, <3>2 DEF DrainAtt
    <2>4. /\ loop.at \notin Between /\ loop'.at = loop.at /\ DOMAIN loop' = DOMAIN loop
         
      BY <1>6 DEF DrainAtt, InLoop, Between, BridgeInv
    <2>. QED  BY <1>2, <1>4, <2>2, <2>3, <2>4 DEF BridgeInv
  <1>7. CASE \E g \in Feeds : DrainOther(g, emit)
    <2>1. UNCHANGED <<ts, trail, view, loop>> /\ loop.at \notin Between
      BY <1>7 DEF DrainOther, InLoop, Between
    <2>. QED  BY <1>2, <1>4, <2>1, ViewsStay DEF BridgeInv
  <1>. QED  BY <1>5, <1>6, <1>7

-----------------------------------------------------------------------------
(* The theorems.                                                           *)

LEMMA BridgeInit == Init => ReaderTypes /\ BridgeInv
  <1> SUFFICES ASSUME NEW records \in [Sessions -> [Feeds -> 0 .. MaxRecords]], InitWith(records)
               PROVE  ReaderTypes /\ BridgeInv
    BY DEF Init
  <1>1. ReaderTypes
    <2>1. count \in [Sessions -> [Feeds -> Nat]]
      <3>1. 0 .. MaxRecords \subseteq Nat
        BY ZoomAssumption
      <3>. QED  BY <3>1 DEF InitWith
    <2>2. known \subseteq Sessions
      BY ZoomAssumption DEF InitWith
    <2>. QED  BY <2>1, <2>2 DEF InitWith, ReaderTypes, NoOffsets, Switching, Seeking
  <1>2. BridgeInv
    BY EmptyShow DEF InitWith, BridgeInv, Between, NoOffsets
  <1>. QED  BY <1>1, <1>2

LEMMA BridgeNext == ReaderTypes /\ BridgeInv /\ [Next]_vars => BridgeInv'
  <1> SUFFICES ASSUME ReaderTypes, BridgeInv, [Next]_vars PROVE BridgeInv'
    OBVIOUS
  <1>1. CASE LoopNext
    BY <1>1, QuietActions, SwitchSteps, ShowSteps, DrainSteps DEF LoopNext
  <1>2. CASE KafkaNext
    BY <1>2, QuietActions, MessageStep DEF KafkaNext
  <1>3. CASE ClientNext
    BY <1>3, QuietActions, ClientSteps DEF ClientNext
  <1>4. CASE \/ Stop \/ UNCHANGED vars \/ \E found \in Scans : DiscoveryThreadFunc(found)
             \/ \E s \in Sessions : EndSession(s) \/ \E f \in Growing : Produce(s, f)
    BY <1>4, QuietActions
  <1>. QED  BY <1>1, <1>2, <1>3, <1>4 DEF Next

LEMMA ShownFollows == BridgeInv => ShownIsSelected
  <1> SUFFICES ASSUME BridgeInv PROVE ShownIsSelected
    OBVIOUS
  <1> DEFINE s == active.session
  <1>1. \A x \in FramesOf(s) : Of(s, x)
    BY DEF FramesOf, Of
  <1>2. Of(s, None)
    BY DEF Of
  <1>3. \A q \in Seq(FramesOf(s)) : \A i \in DOMAIN q : Of(s, q[i])
    BY <1>1
  <1>. QED  BY <1>1, <1>2, <1>3 DEF BridgeInv, ViewOf, PictureOf, ShownIsSelected

\* What a browser shows, and what is on its way to it, is of the session that is selected,
\* through every switch, seek, reconnection, scan and shutdown and however late the frames of
\* the reader that was told to stop (SwitchToSession, KafkaReader::Reset).
THEOREM ShownOfTheSelected == Spec => []ShownIsSelected
  BY BridgeInit, TypesNext, BridgeNext, ShownFollows, PTL DEF Spec

=============================================================================
