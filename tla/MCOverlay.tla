----------------------------- MODULE MCOverlay -----------------------------
(***************************************************************************)
(* Three slices of Overlay, told apart by a variable that never changes.   *)
(*   viewport  the window and what it shows change, calls fail, and the    *)
(*             data thread only ends.                                      *)
(*   session   the window stays where it was; every thread does all it can *)
(*             on one map, with one player, and calls fail.                *)
(*   samples   a session that goes on, the game in front and the radar on: *)
(*             the data thread meets all players, pawns and maps.          *)
(***************************************************************************)
EXTENDS Overlay

VARIABLE slice
mcVars == <<vars, slice>>

Rect(x, w, h) == [x |-> x, y |-> 0, w |-> w, h |-> h]
Bars(left, right, top, bottom) ==
  [left |-> left, right |-> right, top |-> top, bottom |-> bottom]

MCMonitors == {Rect(0, 16, 12)}
MCRects == {Rect(0, 16, 12), Rect(2, 10, 12), Rect(10, 16, 12)}
MCContents == {Bars(0, 0, 0, 0), Bars(2, 2, 0, 0)}
RadarOn == [esp |-> TRUE, radar |-> TRUE]
MCConfigs == {RadarOn, [esp |-> TRUE, radar |-> FALSE]}

OnePawn == CHOOSE p \in Pawns : TRUE
OneLocal == CHOOSE l \in LocalPawns : TRUE
OneMap == CHOOSE m \in MapIds : TRUE

(* What a step may lead to in each slice. *)
Still == screen'.moves = 0 /\ screen'.rect = Rect(0, 16, 12) /\ screen'.content = Bars(0, 0, 0, 0)
ViewportSlice ==
  /\ menu'.config = RadarOn /\ (menu'.visible => menu.visible)
  /\ screen'.focus = "overlay" => app'.faults + screen'.moves = 0 /\ menu'.mode = 2
  /\ screen.focus = "away" => app'.faults = app.faults
  /\ data'.pc \in {"none", "check", "exited"} /\ ~data'.cleared /\ data'.g = CleanGlobals
  /\ app'.faults + screen'.moves <= 1
  /\ screen'.moves = 1 => app'.running
  /\ menu'.mode = 2 => app'.faults = 0 /\ screen'.content = Bars(2, 2, 0, 0)
  /\ screen'.game /\ screen'.moves = 0 =>
       screen'.rect = Rect(0, 16, 12) /\ screen'.content = Bars(2, 2, 0, 0)
SessionSlice ==
  /\ Still
  /\ \A e \in data'.g.cache : e.pawn = OnePawn /\ e.steam = Nothing
  /\ data'.g.mapState \in {Nothing, OneMap} /\ data'.g.last = {}
  /\ data'.sample.local \in {Nothing, OneLocal}
  /\ app'.faults = 0 /\ menu'.visible /\ screen'.focus # "overlay"
  /\ shared'.bomb = data'.g.dropped /\ data'.g.c4 = data'.g.dropped
  /\ menu'.config = menu.config
SamplesSlice ==
  /\ Still /\ app'.faults = 0 /\ app'.running
  /\ menu'.config = RadarOn /\ menu'.visible
  /\ app'.pc \in InLoop => screen'.game /\ screen'.starts = win'.hwnd
  /\ win.foreground => <<app', screen', win', menu'>> = <<app, screen, win, menu>>
  /\ screen'.focus # "overlay"
  /\ \A e \in data'.g.cache : e.pawn = OnePawn \/ e.steam = Nothing
  /\ data'.g.mapState = OneMap \/ data'.sample.local \in {Nothing, OneLocal}
  /\ data'.g.failures = 0 /\ data'.g.observed = {} /\ ~data'.g.c4
  /\ ~shared'.bomb /\ ~shared'.enemies

Sliced ==
  /\ UNCHANGED slice
  /\ CASE slice = "viewport" -> ViewportSlice
       [] slice = "session" -> SessionSlice
       [] OTHER -> SamplesSlice

MCInit ==
  /\ Init /\ slice \in {"viewport", "session", "samples"}
  /\ slice # "session" => menu.config = RadarOn
  /\ slice # "viewport" => menu.mode = 2
MCNext == Next /\ Sliced
(* A session of the slice samples goes on and its menu stays open: neither *)
(* liveness property says anything of it, and it needs no fairness.        *)
Live(A) == slice # "samples" /\ A /\ Sliced
Looks(A) == slice = "viewport" /\ A /\ Sliced
MCFairness ==
  /\ WF_mcVars(Live(MainStep)) /\ WF_mcVars(Live(WorkerStep)) /\ WF_mcVars(Live(DataWorks))
  /\ SF_mcVars(Looks(PositionLooks)) /\ SF_mcVars(Looks(PositionProbes))
MCSpec == MCInit /\ [][MCNext]_mcVars /\ MCFairness
=============================================================================
