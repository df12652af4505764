------------------------------ MODULE Overlay ------------------------------
(***************************************************************************)
(* The overlay process: main thread, viewport worker and data thread over  *)
(* the state of OverlayShared, on a desktop that changes as it likes, and  *)
(* what the composition promises.                                          *)
(***************************************************************************)
EXTENDS OverlayWindow, OverlayData

DesktopChanges ==
  /\ GameStarts \/ GameCloses \/ FocusMoves \/ WindowMoves \/ ContentChanges
  /\ UNCHANGED <<app, win, menu, worker, data, shared, mem>>

Init == InitShared
Next == DesktopChanges \/ MainStep \/ WorkerStep \/ DataStep

(* Threads run; a loop that keeps running looks at the geometry again and  *)
(* again (50 ms), and then, while nothing moves, probes (2 s).             *)
Fairness ==
  /\ WF_vars(MainStep) /\ WF_vars(WorkerStep) /\ WF_vars(DataWorks)
  /\ SF_vars(PositionLooks) /\ SF_vars(PositionProbes)
Spec == Init /\ [][Next]_vars /\ Fairness

-----------------------------------------------------------------------------
InLoop == {"poll", "position", "consume", "frame"}
Updating == {"read", "cache", "map", "players", "publish"}

(* Types of the globals and of the three program counters. *)
Positions ==
  [ map : OrNothing(MapIds), local : LocalPawns, pawn : Pawns, steam : OrNothing(Steam),
    alive : BOOLEAN, age : 0..AgeLimit ]
AtMostOne(s) == \A a, b \in s : a = b
OverlayTypeOK ==
  /\ app.pc \in InLoop \cup {"start", "waiting", "attach", "imgui", "joinData",
                             "destroy", "joinWorker", "ended"}
  /\ app.running \in BOOLEAN /\ app.after \in {"start", "attach"}
  /\ app.faults \in 0..MaxFaults
  /\ win.hwnd \in 0..MaxStarts /\ win.samples \in 0..2
  /\ {win.viewport, win.pending} \subseteq Viewports /\ win.rect \in Clients
  /\ menu.config \in Configs /\ menu.mode \in Modes
  /\ worker.pc \in {"none", "wait", "detect", "exited"}
  /\ AtMostOne(worker.request) /\ AtMostOne(worker.result) /\ AtMostOne(worker.job)
  /\ data.pc \in Updating \cup {"none", "check", "exited"}
  /\ data.g.failures \in 0..2
  /\ data.g.cache \subseteq [pawn : Pawns, steam : OrNothing(Steam), named : BOOLEAN]
  /\ AtMostOne(data.g.cache) /\ AtMostOne(data.g.last) /\ AtMostOne(data.g.observed)
  /\ \A e \in data.g.last : e.position \subseteq Positions /\ AtMostOne(e.position)
  /\ shared.lag \in 0..2 /\ shared.snapshot \in {"disconnected", "live"}
  /\ mem \in BOOLEAN

-----------------------------------------------------------------------------
(* Threads, handle and what they leave stay inside a session: nothing runs *)
(* or is left of one when the waiting screen or another session begins,    *)
(* and the game is only read through an open handle (main.cpp:286-369,     *)
(* sdl_renderer.cpp:537-552, 1275-1308).                                   *)
SessionEnclosed ==
  /\ data.pc \notin {"none", "exited"} => app.pc \in InLoop \cup {"joinData"}
  /\ worker.pc # "none" =>
       app.pc \in InLoop \cup {"imgui", "joinData", "destroy", "joinWorker"}
  /\ app.pc \in {"start", "waiting", "attach", "ended"} =>
       worker = NoWorker /\ data = NoData /\ shared = NothingShared
  /\ app.pc \in {"start", "ended"} => ~mem
  /\ data.pc \in Updating => mem

(* A session whose window is gone, or that the user quits, ends, through   *)
(* both joins (sdl_renderer.cpp:1433-1439, main.cpp:288-369).              *)
DisconnectEnds ==
  (app.pc \in InLoop /\ (~GameOpen \/ ~app.running)) ~> (app.pc \in {"start", "ended"})

(* While the game is in front on one monitor and the menu is closed, the   *)
(* overlay ends up drawing into the part of the window that shows the      *)
(* game, however the window moved and whatever the worker was still        *)
(* looking at (sdl_renderer.cpp:479-572, 1512-1648).                       *)
Steady ==
  /\ app.pc \in InLoop /\ GameOpen /\ Placeable /\ ~menu.visible
  /\ app.running
ShownPart ==
  LET r == screen.rect
  IN IF menu.mode = 0 THEN Detect(r, screen.content) ELSE ForMode(menu.mode, r.w, r.h)
ViewportSettles == <>[]Steady => <>[](win.rect = screen.rect /\ win.viewport = ShownPart)

(* The enemies drawn were sampled with the view they are projected with or *)
(* with the one before, and never without a view (esp.cpp:1091-1105,       *)
(* 1555-1560, 1650-1672).                                                  *)
DrawnTogether == shared.lag <= 1 /\ (shared.enemies => shared.view)

(* A position in a radar snapshot was read on the snapshot's map, for its  *)
(* local pawn and from the player it is shown for; the living are not      *)
(* shown where a corpse lay, nor, unless dormant, where they were long ago *)
(* (esp.cpp:1112-1130, 1170-1188, 1372-1400, radar_player_sample.hpp).     *)
SampleIsOwn ==
  data.pc = "publish" =>
    \A p \in data.sample.players : \A q \in p.position :
      /\ q.map = data.g.mapState /\ q.local = data.sample.local
      /\ Compatible(p, q)
      /\ p.alive => q.alive
      /\ p.alive /\ ~p.dormant => q.age <= KeepTicks
=============================================================================
