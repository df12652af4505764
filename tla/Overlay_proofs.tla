--------------------------- MODULE Overlay_proofs ---------------------------
(***************************************************************************)
(* Theorems about the overlay for every desktop, every number of starts,   *)
(* moves and failing calls, and every set of pawns, maps and Steam ids:    *)
(* its threads stay inside a session, what is drawn was sampled together,  *)
(* and a radar position is shown for the player it was read from.          *)
(***************************************************************************)
EXTENDS Overlay, TLAPS

(* The shape of the state. *)
AppLabels ==
  {"poll", "position", "consume", "frame", "start", "waiting", "attach", "imgui",
   "joinData", "destroy", "joinWorker", "ended"}
AppType ==
  [ pc : AppLabels, running : BOOLEAN, after : {"start", "attach"}, faults : 0..MaxFaults ]
ScreenType ==
  [ game : BOOLEAN, starts : 0..MaxStarts, focus : {"away", "game", "overlay"},
    moves : Nat, rect : Clients, content : Borders ]
WinType ==
  [ hwnd : 0..MaxStarts, renderer : BOOLEAN, imgui : BOOLEAN, rect : Clients,
    viewport : Viewports, pending : Viewports, samples : 0..2, generation : Nat,
    visible : BOOLEAN, foreground : BOOLEAN, disconnected : BOOLEAN ]
MenuType == [visible : BOOLEAN, mode : Modes, config : Configs]

Requests == [rect : Clients, generation : Nat]
Answers == [rect : Clients, viewport : Viewports, generation : Nat]
WorkerType ==
  [ pc : {"none", "wait", "detect", "exited"}, stopping : BOOLEAN,
    request : SUBSET Requests, result : SUBSET Answers, job : SUBSET Requests ]
OneEach ==
  AtMostOne(worker.request) /\ AtMostOne(worker.result) /\ AtMostOne(worker.job)

MainShape ==
  /\ app \in AppType /\ screen \in ScreenType /\ win \in WinType /\ menu \in MenuType
  /\ worker \in WorkerType /\ OneEach /\ mem \in BOOLEAN

-----------------------------------------------------------------------------
(* Geometry (viewport_math.hpp, sdl_renderer.cpp): whatever the client and *)
(* the borders, the part shown has coordinates and an extent.              *)
LEMMA AspectTypes ==
  ASSUME NEW w \in Nat, NEW h \in Nat
  PROVE  ForAspect(w, h, 4, 3) \in Viewports /\ ForAspect(w, h, 16, 10) \in Viewports
<1>1. ForAspect(w, h, 4, 3) \in Viewports
  BY DEF ForAspect, Rounded, Viewport, Full, Viewports
<1>2. ForAspect(w, h, 16, 10) \in Viewports
  BY DEF ForAspect, Rounded, Viewport, Full, Viewports
<1> QED
  BY <1>1, <1>2

(* The viewport of a mode of the settings is one (viewport_math.hpp). *)
LEMMA ModeTypes ==
  ASSUME NEW mode, NEW w \in Nat, NEW h \in Nat
  PROVE  ForMode(mode, w, h) \in Viewports
BY AspectTypes DEF ForMode, Full, Viewport, Viewports

(* A viewport that is scaled with its client stays in it (remap). *)
LEMMA RemapTypes ==
  ASSUME NEW v \in Viewports, NEW a \in Nat, NEW b \in Nat, NEW c \in Nat, NEW d \in Nat
  PROVE  Remap(v, a, b, c, d) \in Viewports
<1>1. ASSUME NEW n \in Int, NEW lo \in Nat, NEW hi \in Nat
      PROVE  Clamp(n, 0, hi) \in 0..hi
  BY DEF Clamp, Larger, Smaller
<1>2. ASSUME NEW n \in Nat, NEW p \in Nat, NEW q \in Nat \ {0}
      PROVE  Rounded(n * p, q) \in Int
  <2>1. n * p \in Int
    OBVIOUS
  <2> QED
    BY <2>1 DEF Rounded
<1>3. CASE \E n \in {a, b, c, d, v.w, v.h} : n <= 0
  BY <1>3 DEF Remap, Full, Viewport, Viewports
<1>4. CASE ~ \E n \in {a, b, c, d, v.w, v.h} : n <= 0
  <2> DEFINE x == Clamp(Rounded(v.x * c, a), 0, c)
             y == Clamp(Rounded(v.y * d, b), 0, d)
             w == Clamp(Rounded(v.w * c, a), 0, c - x)
             h == Clamp(Rounded(v.h * d, b), 0, d - y)
  <2>1. a \in Nat \ {0} /\ b \in Nat \ {0}
    BY <1>4
  <2>2. v.x \in Nat /\ v.y \in Nat /\ v.w \in Nat /\ v.h \in Nat
    BY DEF Viewports
  <2>3. x \in 0..c /\ y \in 0..d
    <3>1. Rounded(v.x * c, a) \in Int /\ Rounded(v.y * d, b) \in Int
      BY <1>2, <2>1, <2>2
    <3> QED
      BY <1>1, <3>1
  <2>4. c - x \in Nat /\ d - y \in Nat
    BY <2>3
  <2>5. w \in 0..(c - x) /\ h \in 0..(d - y)
    <3>1. Rounded(v.w * c, a) \in Int /\ Rounded(v.h * d, b) \in Int
      BY <1>2, <2>1, <2>2
    <3> HIDE DEF x, y
    <3> QED
      BY <1>1, <2>4, <3>1
  <2>6. Remap(v, a, b, c, d) = Viewport(x, y, w, h)
    BY <1>4 DEF Remap
  <2> HIDE DEF x, y, w, h
  <2> QED
    BY <2>3, <2>4, <2>5, <2>6 DEF Viewport, Viewports
<1> QED
  BY <1>3, <1>4

(* What detection makes of a client and its black borders is a viewport    *)
(* (detectContentViewport).                                                *)
LEMMA DetectTypes ==
  ASSUME NEW r \in Clients, NEW c \in Borders
  PROVE  Detect(r, c) \in Viewports
<1>1. ASSUME NEW n \in Nat, NEW e \in Nat
      PROVE  Border(n, e) \in Nat /\ 10 * Border(n, e) <= 3 * e
  BY DEF Border, Smaller
<1> DEFINE sides == Border(c.left, r.w) + Border(c.right, r.w)
           ends == Border(c.top, r.h) + Border(c.bottom, r.h)
<1>2. /\ c.left \in Nat /\ c.right \in Nat /\ c.top \in Nat /\ c.bottom \in Nat
      /\ r.w \in Nat /\ r.h \in Nat
  BY DEF Borders, Clients
<1>3. sides \in Nat /\ 10 * sides <= 6 * r.w /\ ends \in Nat /\ 10 * ends <= 6 * r.h
  <2>1. /\ Border(c.left, r.w) \in Nat /\ 10 * Border(c.left, r.w) <= 3 * r.w
        /\ Border(c.right, r.w) \in Nat /\ 10 * Border(c.right, r.w) <= 3 * r.w
    BY <1>1, <1>2
  <2>2. /\ Border(c.top, r.h) \in Nat /\ 10 * Border(c.top, r.h) <= 3 * r.h
        /\ Border(c.bottom, r.h) \in Nat /\ 10 * Border(c.bottom, r.h) <= 3 * r.h
    BY <1>1, <1>2
  <2> QED
    BY <1>2, <2>1, <2>2
<1>4. \/ Detect(r, c) = Full(r.w, r.h)
      \/ Detect(r, c) = Viewport(sides \div 2, 0, r.w - 2 * (sides \div 2), r.h)
      \/ Detect(r, c) = Viewport(0, ends \div 2, r.w, r.h - 2 * (ends \div 2))
  BY DEF Detect
<1> HIDE DEF sides, ends
<1> QED
  BY <1>2, <1>3, <1>4 DEF Full, Viewport, Viewports

(* So is whatever a capture of the screen is judged to show. *)
LEMMA CapturedTypes ==
  ASSUME NEW r \in Clients, screen \in ScreenType
  PROVE  Captured(r) \subseteq Viewports /\ Full(r.w, r.h) \in Viewports
<1>1. screen.content \in Borders /\ Contents \subseteq Borders
  BY OverlayAssumption DEF ScreenType
<1>2. Captured(r) \subseteq Viewports
  BY <1>1, DetectTypes DEF Captured
<1> QED
  BY <1>2 DEF Full, Viewport, Viewports, Clients

-----------------------------------------------------------------------------
(* What the steps need of the constants. *)
LEMMA Bounds ==
  /\ MaxStarts \in Nat /\ MaxFaults \in Nat
  /\ Modes \subseteq 0..3
  /\ \A r \in Rects \cup Monitors : r \in Clients
  /\ \A c \in Contents : c \in Borders
  /\ (CHOOSE r \in Rects : TRUE) \in Clients
  /\ (CHOOSE c \in Contents : TRUE) \in Borders
<1> USE OverlayAssumption
<1>1. MaxStarts \in Nat /\ MaxFaults \in Nat /\ Modes \subseteq 0..3
  OBVIOUS
<1>2. \A r \in Rects \cup Monitors : r \in Clients
  OBVIOUS
<1>3. \A c \in Contents : c \in Borders
  OBVIOUS
<1>4. (CHOOSE r \in Rects : TRUE) \in Clients
  <2>1. \E r \in Rects : TRUE
    OBVIOUS
  <2>2. (CHOOSE r \in Rects : TRUE) \in Rects
    BY <2>1
  <2> QED
    BY <1>2, <2>2
<1>5. (CHOOSE c \in Contents : TRUE) \in Borders
  <2>1. \E c \in Contents : TRUE
    OBVIOUS
  <2>2. (CHOOSE c \in Contents : TRUE) \in Contents
    BY <2>1
  <2> QED
    BY <1>3, <2>2
<1> QED
  BY <1>1, <1>2, <1>3, <1>4, <1>5

(* A program counter moves, and a failing call is counted (Goto, Fail). *)
LEMMA AppMoves ==
  ASSUME app \in AppType, NEW pc \in AppLabels
  PROVE  Goto(pc) \/ Quit(pc) \/ Fail(pc) \/ FailAndQuit(pc) => app' \in AppType
<1>1. /\ app.pc \in AppLabels /\ app.running \in BOOLEAN
      /\ app.after \in {"start", "attach"} /\ app.faults \in 0..MaxFaults
  BY DEF AppType
<1>2. CanFail => app.faults + 1 \in 0..MaxFaults
  BY <1>1, Bounds DEF CanFail
<1>3. Goto(pc) \/ Quit(pc) => app' \in AppType
  BY DEF Goto, Quit, AppType
<1>4. Fail(pc) \/ FailAndQuit(pc) => app' \in AppType
  BY <1>2 DEF Fail, FailAndQuit, AppType
<1> QED
  BY <1>3, <1>4

(* The shape is kept: the first state (InitShared). *)
LEMMA MainShapeInit == Init => MainShape
<1> SUFFICES ASSUME Init PROVE MainShape
  OBVIOUS
<1>1. app \in AppType /\ mem \in BOOLEAN
  <2>1. 0 \in 0..MaxFaults
    BY Bounds
  <2> QED
    BY <2>1 DEF Init, InitShared, AppType, AppLabels
<1>2. screen \in ScreenType
  <2>1. 0 \in 0..MaxStarts /\ 0 \in Nat
    BY Bounds
  <2> QED
    BY <2>1, Bounds DEF Init, InitShared, ScreenType
<1>3. win \in WinType
  <2>1. 0 \in 0..MaxStarts /\ 0 \in 0..2 /\ 0 \in Nat /\ 0 \in Int
    BY Bounds
  <2>2. NoViewport \in Viewports /\ NoRect \in Clients
    BY <2>1 DEF NoRect, NoViewport, Viewport, Viewports, Clients
  <2> QED
    BY <2>1, <2>2 DEF Init, InitShared, ClosedWindow, WinType
<1>4. menu \in MenuType
  BY DEF Init, InitShared, LoadedMenu, MenuType
<1>5. worker \in WorkerType /\ OneEach
  BY DEF Init, InitShared, NoWorker, WorkerType, OneEach, AtMostOne
<1> QED
  BY <1>1, <1>2, <1>3, <1>4, <1>5 DEF MainShape

(* The desktop changes. *)
LEMMA MainShapeDesktop == MainShape /\ DesktopChanges => MainShape'
<1> SUFFICES ASSUME MainShape, DesktopChanges PROVE MainShape'
  OBVIOUS
<1>1. screen' \in ScreenType
  <2>0. screen \in ScreenType /\ (\A r \in Rects : r \in Clients)
        /\ (\A c \in Contents : c \in Borders)
    BY Bounds DEF MainShape
  <2>10. screen.starts \in 0..MaxStarts /\ screen.moves \in Nat
    BY <2>0 DEF ScreenType
  <2>11. screen.starts < MaxStarts => screen.starts + 1 \in 0..MaxStarts
    BY <2>10, Bounds
  <2>12. screen.moves + 1 \in Nat
    BY <2>10
  <2>1. CASE GameStarts
    BY <2>0, <2>11, <2>1 DEF GameStarts, ScreenType
  <2>2. CASE GameCloses
    BY <2>0, <2>2 DEF GameCloses, ScreenType
  <2>3. CASE FocusMoves
    BY <2>0, <2>3 DEF FocusMoves, ScreenType
  <2>4. CASE WindowMoves
    BY <2>0, <2>12, <2>4 DEF WindowMoves, ScreenType
  <2>5. CASE ContentChanges
    BY <2>0, <2>12, <2>5 DEF ContentChanges, ScreenType
  <2> QED
    BY <2>1, <2>2, <2>3, <2>4, <2>5 DEF DesktopChanges
<1> QED
  BY <1>1 DEF MainShape, DesktopChanges, OneEach

(* The viewport worker. *)
LEMMA MainShapeWorker == MainShape /\ WorkerStep => MainShape'
<1> SUFFICES ASSUME MainShape, WorkerStep PROVE MainShape'
  OBVIOUS
<1>0. app \in AppType /\ worker \in WorkerType /\ OneEach /\ screen \in ScreenType
  BY DEF MainShape
<1>1. CASE WorkerTakes
  <2>1. worker' \in WorkerType
    BY <1>0, <1>1 DEF WorkerTakes, WorkerType
  <2>2. OneEach'
    BY <1>0, <1>1 DEF WorkerTakes, WorkerType, OneEach, AtMostOne
  <2> QED
    BY <1>1, <2>1, <2>2 DEF MainShape, WorkerTakes
<1>2. CASE WorkerStores
  <2>1. PICK j \in worker.job :
          \E v \in Captured(j.rect) \cup {Full(j.rect.w, j.rect.h)} :
            /\ IF v \in Captured(j.rect) THEN app' = app ELSE Fail(app.pc)
            /\ worker' = [worker EXCEPT
                 !.pc = "wait", !.job = {},
                 !.result = IF worker.stopping THEN @
                            ELSE {[rect |-> j.rect, viewport |-> v,
                                   generation |-> j.generation]}]
    BY <1>2 DEF WorkerStores
  <2>2. PICK v \in Captured(j.rect) \cup {Full(j.rect.w, j.rect.h)} :
            /\ IF v \in Captured(j.rect) THEN app' = app ELSE Fail(app.pc)
            /\ worker' = [worker EXCEPT
                 !.pc = "wait", !.job = {},
                 !.result = IF worker.stopping THEN @
                            ELSE {[rect |-> j.rect, viewport |-> v,
                                   generation |-> j.generation]}]
    BY <2>1
  <2>3. j \in Requests
    BY <1>0 DEF WorkerType
  <2>4. j.rect \in Clients /\ j.generation \in Nat
    BY <2>3 DEF Requests
  <2>5. v \in Viewports
    BY <1>0, <2>4, CapturedTypes
  <2>6. app' \in AppType
    <3>1. app.pc \in AppLabels
      BY <1>0 DEF AppType
    <3> QED
      BY <1>0, <2>2, <3>1, AppMoves
  <2>7. {[rect |-> j.rect, viewport |-> v, generation |-> j.generation]} \in SUBSET Answers
    BY <2>4, <2>5 DEF Answers
  <2>8. worker' \in WorkerType
    BY <1>0, <2>2, <2>7 DEF WorkerType
  <2>9. OneEach'
    BY <1>0, <2>2 DEF WorkerType, OneEach, AtMostOne
  <2> QED
    BY <1>2, <2>6, <2>8, <2>9 DEF MainShape, WorkerStores
<1>3. CASE WorkerExits
  <2>1. worker' \in WorkerType
    BY <1>0, <1>3 DEF WorkerExits, WorkerType
  <2>2. OneEach'
    BY <1>0, <1>3 DEF WorkerExits, WorkerType, OneEach, AtMostOne
  <2> QED
    BY <1>3, <2>1, <2>2 DEF MainShape, WorkerExits
<1> QED
  BY <1>1, <1>2, <1>3 DEF WorkerStep

(* The window between its actions: what each of them writes is well formed *)
(* when the viewport and rectangle it writes are.                          *)
LEMMA WindowUpdates ==
  ASSUME win \in WinType
  PROVE  /\ WithRenderer(win) \in WinType /\ WithImGui(win) \in WinType
         /\ WithoutImGui(win) \in WinType /\ RecoveryFailed(win) \in WinType
         /\ ClosedWindow(win.generation + 1, win.disconnected) \in WinType
         /\ \A v \in Viewports :
              WithImGui(WithRenderer([win EXCEPT !.viewport = v])) \in WinType
<1>1. WithRenderer(win) \in WinType /\ WithImGui(win) \in WinType
      /\ WithoutImGui(win) \in WinType /\ RecoveryFailed(win) \in WinType
  BY DEF WithRenderer, WithImGui, WithoutImGui, RecoveryFailed, WinType
<1>2. ClosedWindow(win.generation + 1, win.disconnected) \in WinType
  <2>1. 0 \in 0..MaxStarts /\ 0 \in 0..2 /\ 0 \in Nat /\ 0 \in Int
    BY Bounds
  <2>2. NoViewport \in Viewports /\ NoRect \in Clients
    BY <2>1 DEF NoRect, NoViewport, Viewport, Viewports, Clients
  <2>3. win.generation + 1 \in Nat /\ win.disconnected \in BOOLEAN
    BY DEF WinType
  <2> QED
    BY <2>1, <2>2, <2>3 DEF ClosedWindow, WinType
<1>3. ASSUME NEW v \in Viewports
      PROVE  WithImGui(WithRenderer([win EXCEPT !.viewport = v])) \in WinType
  BY DEF WithRenderer, WithImGui, WinType
<1> QED
  BY <1>1, <1>2, <1>3

(* A request is queued at most once (queueViewportDetection). *)
LEMMA QueuedTypes ==
  ASSUME worker \in WorkerType, OneEach, NEW r \in Clients, NEW n \in Nat,
         worker' = Queued(r, n)
  PROVE  worker' \in WorkerType /\ OneEach'
<1>1. {[rect |-> r, generation |-> n]} \in SUBSET Requests
  BY DEF Requests
<1>2. worker' \in WorkerType
  BY <1>1 DEF Queued, WorkerType
<1>3. OneEach'
  BY DEF Queued, WorkerType, OneEach, AtMostOne
<1> QED
  BY <1>2, <1>3

(* Starting, waiting, attaching and leaving. *)
LEMMA MainShapeSession ==
  ASSUME MainShape,
         StartWaiting \/ LookForGame \/ WaitingFrame \/ Attach \/ StartImGui
         \/ LeaveSession \/ JoinData \/ StopWorker \/ JoinWorker
  PROVE  MainShape'
<1>0. /\ app \in AppType /\ screen \in ScreenType /\ win \in WinType /\ menu \in MenuType
      /\ worker \in WorkerType /\ OneEach /\ mem \in BOOLEAN
  BY DEF MainShape
<1>1. CASE StartWaiting
  <2>1. app' \in AppType
    <3>1. "waiting" \in AppLabels /\ "ended" \in AppLabels
      BY DEF AppLabels
    <3> QED
      BY <1>0, <1>1, <3>1, AppMoves DEF StartWaiting
  <2>2. win' \in WinType
    <3>1. \A m \in Monitors : Full(m.w, m.h) \in Viewports
      BY Bounds DEF Full, Viewport, Viewports, Clients
    <3> QED
      BY <1>0, <1>1, <3>1, WindowUpdates DEF StartWaiting
  <2>3. menu' \in MenuType /\ mem' \in BOOLEAN
    BY <1>0, <1>1 DEF StartWaiting, MenuType
  <2> QED
    BY <1>0, <1>1, <2>1, <2>2, <2>3 DEF MainShape, StartWaiting, OneEach
<1>2. CASE LookForGame
  <2>1. app' \in AppType
    BY <1>0, <1>2 DEF LookForGame, ModuleFound, AppType, AppLabels
  <2>2. mem' \in BOOLEAN
    BY <1>0, <1>2 DEF LookForGame, OpenProcess, ScreenType
  <2> QED
    BY <1>0, <1>2, <2>1, <2>2 DEF MainShape, LookForGame, OneEach
<1>3. CASE WaitingFrame
  <2>1. app' \in AppType
    <3>1. "destroy" \in AppLabels
      BY DEF AppLabels
    <3> QED
      BY <1>0, <1>3, <3>1, AppMoves DEF WaitingFrame
  <2>2. menu' \in MenuType
    BY <1>0, <1>3 DEF WaitingFrame, RenderMenu, MenuType
  <2> QED
    BY <1>0, <1>3, <2>1, <2>2 DEF MainShape, WaitingFrame, OneEach
<1>4. CASE Attach
  <2>1. app' \in AppType
    <3>1. "position" \in AppLabels /\ "start" \in AppLabels
      BY DEF AppLabels
    <3> QED
      BY <1>0, <1>4, <3>1, AppMoves DEF Attach
  <2>2. win' \in WinType
    <3>1. screen.rect \in Clients /\ screen.starts \in 0..MaxStarts
      BY <1>0 DEF ScreenType
    <3>2. FirstViewport \subseteq Viewports
      <4>1. screen.rect.w \in Nat /\ screen.rect.h \in Nat
        BY <3>1 DEF Clients
      <4> QED
        BY <1>0, <3>1, <4>1, CapturedTypes, ModeTypes DEF FirstViewport
    <3>3. ASSUME NEW v \in Viewports PROVE AttachedWindow(v) \in WinType
      <4>1. win.generation + 1 \in Nat /\ 1 \in 0..2
        BY <1>0 DEF WinType
      <4> QED
        BY <1>0, <3>1, <4>1 DEF AttachedWindow, WithRenderer, WinType
    <3> QED
      BY <1>0, <1>4, <3>2, <3>3, WindowUpdates DEF Attach
  <2>3. worker' \in WorkerType /\ OneEach'
    BY <1>0, <1>4 DEF Attach, StartedWorker, NoWorker, WorkerType, OneEach, AtMostOne
  <2>4. mem' \in BOOLEAN
    BY <1>0, <1>4 DEF Attach
  <2> QED
    BY <1>0, <1>4, <2>1, <2>2, <2>3, <2>4 DEF MainShape, Attach
<1>5. CASE StartImGui
  <2>1. app' \in AppType
    <3>1. CASE Goto("poll")
      <4>1. "poll" \in AppLabels
        BY DEF AppLabels
      <4> QED
        BY <1>0, <3>1, <4>1, AppMoves
    <3>2. CASE /\ CanFail
               /\ app' = [app EXCEPT !.pc = "destroy", !.after = "start", !.faults = @ + 1]
      <4>1. app.faults + 1 \in 0..MaxFaults
        BY <1>0, <3>2, Bounds DEF CanFail, AppType
      <4> QED
        BY <1>0, <3>2, <4>1 DEF AppType, AppLabels
    <3> QED
      BY <1>5, <3>1, <3>2 DEF StartImGui
  <2>2. win' \in WinType
    BY <1>0, <1>5, WindowUpdates DEF StartImGui
  <2> QED
    BY <1>0, <1>5, <2>1, <2>2 DEF MainShape, StartImGui, OneEach
<1>6. CASE LeaveSession
  <2>1. app' \in AppType
    BY <1>0, <1>6, AppMoves DEF LeaveSession, AppLabels
  <2> QED
    BY <1>0, <1>6, <2>1 DEF MainShape, LeaveSession, OneEach
<1>7. CASE JoinData
  <2>1. app' \in AppType
    BY <1>0, <1>7 DEF JoinData, AppType, AppLabels
  <2> QED
    BY <1>0, <1>7, <2>1 DEF MainShape, JoinData, OneEach
<1>8. CASE StopWorker
  <2>1. app' \in AppType
    BY <1>0, <1>8, AppMoves DEF StopWorker, AppLabels
  <2>2. worker' \in WorkerType /\ OneEach'
    BY <1>0, <1>8 DEF StopWorker, WorkerType, OneEach, AtMostOne
  <2> QED
    BY <1>0, <1>8, <2>1, <2>2, WindowUpdates DEF MainShape, StopWorker
<1>9. CASE JoinWorker
  <2>1. app' \in AppType
    <3>1. app.after \in AppLabels /\ "ended" \in AppLabels
      BY <1>0 DEF AppType, AppLabels
    <3> QED
      BY <1>0, <1>9, <3>1, AppMoves DEF JoinWorker
  <2>2. worker' \in WorkerType /\ OneEach'
    BY <1>0, <1>9 DEF JoinWorker, JoinedWorker, WorkerType, OneEach, AtMostOne
  <2>3. mem' \in BOOLEAN
    BY <1>0, <1>9 DEF JoinWorker
  <2> QED
    BY <1>0, <1>9, <2>1, <2>2, <2>3, WindowUpdates DEF MainShape, JoinWorker
<1> QED
  BY <1>1, <1>2, <1>3, <1>4, <1>5, <1>6, <1>7, <1>8, <1>9

(* What updateWindowPosition writes for a viewport, a rectangle and a      *)
(* visibility is a window.                                                 *)
LEMMA PositionUpdates ==
  ASSUME win \in WinType, NEW v \in Viewports, NEW r \in Clients, NEW seen \in BOOLEAN
  PROVE  /\ Focused \in WinType
         /\ [Focused EXCEPT !.visible = seen] \in WinType
         /\ [Focused EXCEPT !.visible = seen, !.viewport = v] \in WinType
         /\ [Focused EXCEPT !.visible = seen, !.rect = r, !.viewport = v] \in WinType
<1>1. Focused \in WinType
  BY DEF Focused, WinType
<1> HIDE DEF Focused
<1> QED
  BY <1>1 DEF WinType

(* The viewport after a move, and the one drawn into, exist (remap,        *)
(* updateRenderDimensions).                                                *)
LEMMA DimensionTypes ==
  ASSUME MainShape
  PROVE  /\ MovedViewport \in Viewports
         /\ RenderDimensions(win.viewport) \in Viewports
<1>1. /\ screen.rect \in Clients /\ win.rect \in Clients /\ win.viewport \in Viewports
  BY DEF MainShape, ScreenType, WinType
<1>2. /\ screen.rect.w \in Nat /\ screen.rect.h \in Nat
      /\ win.rect.w \in Nat /\ win.rect.h \in Nat
  BY <1>1 DEF Clients
<1>3. ASSUME NEW v \in Viewports PROVE RenderDimensions(v) \in Viewports
  BY <1>2, ModeTypes DEF RenderDimensions
<1>4. MovedViewport \in Viewports
  <2>1. Remap(win.viewport, win.rect.w, win.rect.h, screen.rect.w, screen.rect.h) \in Viewports
    BY <1>1, <1>2, RemapTypes
  <2>2. ForMode(menu.mode, screen.rect.w, screen.rect.h) \in Viewports
    BY <1>2, ModeTypes
  <2> QED
    BY <1>3, <2>1, <2>2 DEF MovedViewport
<1> QED
  BY <1>1, <1>3, <1>4

(* The loop: events, position, the worker's answer and a frame. *)
LEMMA MainShapeLoop ==
  ASSUME MainShape,
         Poll \/ PositionGone \/ PositionTooSoon \/ PositionHidden \/ PositionFails
         \/ PositionMoves \/ PositionStays \/ PositionProbes \/ Consume \/ Frame
  PROVE  MainShape'
<1>0. /\ app \in AppType /\ screen \in ScreenType /\ win \in WinType /\ menu \in MenuType
      /\ worker \in WorkerType /\ OneEach /\ mem \in BOOLEAN
  BY DEF MainShape
<1>a. /\ "position" \in AppLabels /\ "consume" \in AppLabels /\ "poll" \in AppLabels
      /\ "frame" \in AppLabels /\ "imgui" \in AppLabels
  BY DEF AppLabels
<1>b. Positioned => app' \in AppType
  BY <1>0, <1>a, AppMoves DEF Positioned
<1>c. /\ screen.rect \in Clients /\ win.generation \in Nat /\ win.generation + 1 \in Nat
      /\ win.viewport \in Viewports
  BY <1>0 DEF ScreenType, WinType
<1>1. CASE Poll
  <2>1. app' \in AppType
    BY <1>0, <1>a, <1>1, AppMoves DEF Poll, PollNothing, PollQuit, PollMenu, PollReset
  <2>2. win' \in WinType
    BY <1>0, <1>1, WindowUpdates DEF Poll, PollNothing, PollQuit, PollMenu, PollReset
  <2>3. screen' \in ScreenType
    BY <1>0, <1>1
       DEF Poll, PollNothing, PollQuit, PollMenu, PollReset, GivesFocusBack, ScreenType
  <2>4. menu' \in MenuType
    BY <1>0, <1>1 DEF Poll, PollNothing, PollQuit, PollMenu, PollReset, MenuType
  <2> QED
    BY <1>0, <1>1, <2>1, <2>2, <2>3, <2>4 DEF MainShape, Poll, OneEach
<1>2. CASE PositionGone
  <2>1. win' \in WinType
    BY <1>0, <1>2 DEF PositionGone, WinType
  <2> QED
    BY <1>0, <1>b, <1>2, <2>1 DEF MainShape, PositionGone, OneEach
<1>3. CASE PositionTooSoon
  BY <1>0, <1>b, <1>3 DEF MainShape, PositionTooSoon, OneEach
<1>4. CASE PositionHidden
  <2>1. win' \in WinType
    BY <1>0, <1>c, <1>4, PositionUpdates DEF PositionHidden
  <2> QED
    BY <1>0, <1>b, <1>4, <2>1 DEF MainShape, PositionHidden, OneEach
<1>5. CASE PositionFails
  <2>1. win' \in WinType
    <3>1. (~Moved) \in BOOLEAN
      BY DEF Moved
    <3> QED
      BY <1>0, <1>c, <1>5, <3>1, PositionUpdates DEF PositionFails
  <2>2. app' \in AppType
    BY <1>0, <1>a, <1>5, AppMoves DEF PositionFails
  <2> QED
    BY <1>0, <1>5, <2>1, <2>2 DEF MainShape, PositionFails, OneEach
<1>6. CASE PositionMoves
  <2> DEFINE w == [Focused EXCEPT !.visible = TRUE, !.rect = screen.rect,
                                  !.viewport = MovedViewport]
  <2>1. w \in WinType
    BY <1>0, <1>c, DimensionTypes, PositionUpdates
  <2>2. /\ win' = ResetDetection(w) \/ win' = [w EXCEPT !.pending = NoViewport, !.samples = 0]
        /\ worker' = worker \/ worker' = Queued(screen.rect, win'.generation)
    BY <1>6 DEF PositionMoves
  <2> HIDE DEF w
  <2>3. win' \in WinType
    <3>1. NoViewport \in Viewports
      BY DEF NoViewport, Viewport, Viewports
    <3>2. w.generation + 1 \in Nat /\ 1 \in 0..2 /\ 0 \in 0..2 /\ w.viewport \in Viewports
      BY <2>1 DEF WinType
    <3>3. ResetDetection(w) \in WinType
      BY <2>1, <3>2 DEF ResetDetection, WinType
    <3>4. [w EXCEPT !.pending = NoViewport, !.samples = 0] \in WinType
      BY <2>1, <3>1, <3>2 DEF WinType
    <3> QED
      BY <2>2, <3>3, <3>4
  <2>4. worker' \in WorkerType /\ OneEach'
    <3>1. win'.generation \in Nat
      BY <2>3 DEF WinType
    <3>2. CASE worker' = worker
      BY <1>0, <3>2 DEF OneEach
    <3>3. CASE worker' = Queued(screen.rect, win'.generation)
      BY <1>0, <1>c, <3>1, <3>3, QueuedTypes
    <3> QED
      BY <2>2, <3>2, <3>3
  <2>5. app' \in AppType
    BY <1>0, <1>a, <1>6, AppMoves DEF PositionMoves
  <2> QED
    BY <1>0, <1>6, <2>3, <2>4, <2>5 DEF MainShape, PositionMoves
<1>7. CASE PositionStays
  <2>1. win' \in WinType
    <3>1. win' = [Focused EXCEPT !.visible = TRUE, !.viewport = RenderDimensions(win.viewport)]
      BY <1>7 DEF PositionStays, Focused
    <3> QED
      BY <1>0, <1>c, <3>1, DimensionTypes, PositionUpdates
  <2>2. app' \in AppType
    BY <1>0, <1>a, <1>7, AppMoves DEF PositionStays
  <2> QED
    BY <1>0, <1>7, <2>1, <2>2 DEF MainShape, PositionStays, OneEach
<1>8. CASE PositionProbes
  <2>1. win' \in WinType
    <3>1. win' = [Focused EXCEPT !.visible = TRUE, !.viewport = RenderDimensions(win.viewport)]
      BY <1>8 DEF PositionProbes, Focused
    <3> QED
      BY <1>0, <1>c, <3>1, DimensionTypes, PositionUpdates
  <2>2. app' \in AppType
    BY <1>0, <1>a, <1>8, AppMoves DEF PositionProbes
  <2>3. worker' \in WorkerType /\ OneEach'
    BY <1>0, <1>c, <1>8, QueuedTypes DEF PositionProbes
  <2> QED
    BY <1>0, <1>8, <2>1, <2>2, <2>3 DEF MainShape, PositionProbes
<1>9. CASE Consume
  <2>1. CASE UNCHANGED <<win, worker>>
    BY <1>0, <1>b, <1>9, <2>1 DEF MainShape, Consume, OneEach
  <2>2. CASE \E r \in worker.result :
               LET w == [worker EXCEPT !.result = {}]
                   next == {[rect |-> win.rect, generation |-> win.generation]}
               IN IF Current(r)
                  THEN /\ win' = Judged(r)
                       /\ worker' = IF r.viewport = win.pending \/ worker.stopping THEN w
                                    ELSE [w EXCEPT !.request = next]
                  ELSE worker' = w /\ UNCHANGED win
    <3>0. PICK r \in worker.result :
               LET w == [worker EXCEPT !.result = {}]
                   next == {[rect |-> win.rect, generation |-> win.generation]}
               IN IF Current(r)
                  THEN /\ win' = Judged(r)
                       /\ worker' = IF r.viewport = win.pending \/ worker.stopping THEN w
                                    ELSE [w EXCEPT !.request = next]
                  ELSE worker' = w /\ UNCHANGED win
      BY <2>2
    <3>1. {[rect |-> win.rect, generation |-> win.generation]} \in SUBSET Requests
      BY <1>0 DEF WinType, Requests
    <3>2. worker' \in WorkerType
      BY <1>0, <3>0, <3>1 DEF WorkerType
    <3>3. OneEach'
      BY ZenonT(60), <1>0, <3>0 DEF WorkerType, OneEach, AtMostOne
    <3>4. r.viewport \in Viewports
      BY <1>0 DEF WorkerType, Answers
    <3>5. Judged(r) \in WinType
      <4>1. win.samples \in 0..2
        BY <1>0 DEF WinType
      <4>2. Smaller(2, win.samples + 1) \in 0..2
        BY <4>1 DEF Smaller
      <4>3. \E n \in {1, Smaller(2, win.samples + 1)}, v \in {win.viewport, r.viewport} :
              Judged(r) = [win EXCEPT !.pending = r.viewport, !.samples = n, !.viewport = v]
        BY DEF Judged
      <4>4. 1 \in 0..2
        OBVIOUS
      <4> QED
        BY ZenonT(60), <1>0, <3>4, <4>1, <4>2, <4>3, <4>4 DEF WinType
    <3>6. win' \in WinType
      BY <1>0, <3>0, <3>5
    <3> QED
      BY <1>0, <1>b, <1>9, <3>2, <3>3, <3>6 DEF MainShape, Consume
  <2> QED
    BY <1>9, <2>1, <2>2 DEF Consume
<1>10. CASE Frame
  <2>1. app' \in AppType
    BY <1>0, <1>a, <1>10, AppMoves DEF Frame
  <2>2. win' \in WinType
    BY <1>0, <1>10, WindowUpdates DEF Frame
  <2>3. menu' \in MenuType
    BY <1>0, <1>10 DEF Frame, RenderMenu, MenuType
  <2> QED
    BY <1>0, <1>10, <2>1, <2>2, <2>3 DEF MainShape, Frame, OneEach
<1> QED
  BY <1>1, <1>2, <1>3, <1>4, <1>5, <1>6, <1>7, <1>8, <1>9, <1>10

-----------------------------------------------------------------------------
(* The shape of the data thread's globals and of what it shares.           *)
Steams == Steam \cup {Nothing}
Entries == [pawn : Pawns, steam : Steams, named : BOOLEAN]
Lasts ==
  [ pawn : Pawns, steam : Steams, alive : BOOLEAN, position : SUBSET Positions,
    age : 0..AgeLimit ]
GlobalsType ==
  [ failures : 0..2, cache : SUBSET Entries, local : LocalPawns \cup {Nothing},
    map : MapIds \cup {Nothing}, mapState : MapIds \cup {Nothing}, last : SUBSET Lasts,
    observed : SUBSET (0..AgeLimit), c4 : BOOLEAN, dropped : BOOLEAN ]
ShownPlayers ==
  [ pawn : Pawns, steam : Steams, alive : BOOLEAN, dormant : BOOLEAN,
    position : SUBSET Positions ]
SampleType ==
  [ local : LocalPawns \cup {Nothing}, capture : BOOLEAN, observed : BOOLEAN,
    players : SUBSET ShownPlayers ]
ConfigType == [esp : BOOLEAN, radar : BOOLEAN]
DataLabels ==
  {"read", "cache", "map", "players", "publish", "none", "check", "exited"}
DataType ==
  [ pc : DataLabels, running : BOOLEAN, cleared : BOOLEAN, config : ConfigType,
    g : GlobalsType, sample : SampleType ]
SharedType ==
  [ view : BOOLEAN, lag : 0..2, enemies : BOOLEAN, bomb : BOOLEAN,
    snapshot : {"disconnected", "live"} ]

Ones(g) ==
  /\ AtMostOne(g.cache) /\ AtMostOne(g.last) /\ AtMostOne(g.observed)
  /\ \A e \in g.last : AtMostOne(e.position)

(* From a successful read of the local player to the end of the update.    *)
Reading == {"cache", "map", "players", "publish"}
DataShape ==
  /\ data \in DataType /\ shared \in SharedType /\ Ones(data.g)
  /\ data.pc \in Reading => data.sample.local \in LocalPawns

(* Ages stay within their limit. *)
LEMMA Ages ==
  /\ KeepTicks \in Nat /\ AgeLimit \in Nat /\ 0 \in 0..AgeLimit
  /\ \A a \in 0..AgeLimit : Older(a) \in 0..AgeLimit
BY OverlayAssumption DEF AgeLimit, Older, Smaller

(* What clearRuntimeState leaves is well formed. *)
LEMMA CleanTypes ==
  /\ CleanGlobals \in GlobalsType /\ Ones(CleanGlobals)
  /\ NoSample \in SampleType /\ NothingShared \in SharedType /\ NoData \in DataType
<1>1. CleanGlobals \in GlobalsType
  BY DEF CleanGlobals, GlobalsType
<1>2. Ones(CleanGlobals)
  BY DEF CleanGlobals, Ones, AtMostOne
<1>3. NoSample \in SampleType
  BY DEF NoSample, SampleType
<1>4. NothingShared \in SharedType
  BY DEF NothingShared, SharedType
<1>5. NoData \in DataType
  <2>1. \E c \in Configs : TRUE
    BY OverlayAssumption
  <2>2. (CHOOSE c \in Configs : TRUE) \in Configs
    BY <2>1
  <2>3. (CHOOSE c \in Configs : TRUE) \in ConfigType
    BY <2>2, OverlayAssumption DEF ConfigType
  <2> HIDE DEF CleanGlobals, NoSample
  <2> QED
    BY <1>1, <1>3, <2>3 DEF NoData, DataType, DataLabels
<1> QED
  BY <1>1, <1>2, <1>3, <1>4, <1>5

(* A data thread that is not running owns nothing yet (InitShared).        *)
LEMMA DataShapeInit == Init => DataShape
<1> SUFFICES ASSUME Init PROVE DataShape
  OBVIOUS
<1>1. data = NoData /\ shared = NothingShared
  BY DEF Init, InitShared
<1>2. data.pc = "none" /\ data.g = CleanGlobals
  BY <1>1 DEF NoData
<1> QED
  BY <1>1, <1>2, CleanTypes DEF DataShape, Reading

(* A new epoch forgets the samples (esp.cpp). *)
LEMMA EpochTypes ==
  ASSUME NEW g \in GlobalsType, Ones(g), NEW l \in LocalPawns \cup {Nothing}
  PROVE  NewEpoch(g, l) \in GlobalsType /\ Ones(NewEpoch(g, l))
<1>1. NewEpoch(g, l) \in GlobalsType
  BY DEF NewEpoch, GlobalsType
<1>2. Ones(NewEpoch(g, l))
  BY DEF NewEpoch, GlobalsType, Ones, AtMostOne
<1> QED
  BY <1>1, <1>2

(* Time passes for the samples that are kept. *)
AgedGlobals(g) ==
  [g EXCEPT !.observed = { Older(a) : a \in @ },
            !.last = { [e EXCEPT !.age = Older(@),
                                 !.position = { [q EXCEPT !.age = Older(@)] : q \in @ }]
                       : e \in @ }]
LEMMA AgedTypes ==
  ASSUME NEW g \in GlobalsType, Ones(g)
  PROVE  AgedGlobals(g) \in GlobalsType /\ Ones(AgedGlobals(g))
<1> DEFINE Aged(e) == [e EXCEPT !.age = Older(@),
                                !.position = { [q EXCEPT !.age = Older(@)] : q \in @ }]
<1>1. ASSUME NEW q \in Positions PROVE [q EXCEPT !.age = Older(@)] \in Positions
  <2>1. q.age \in 0..AgeLimit
    BY DEF Positions
  <2>2. Older(q.age) \in 0..AgeLimit
    BY <2>1, Ages
  <2> QED
    BY <2>2 DEF Positions
<1>2. ASSUME NEW e \in Lasts PROVE Aged(e) \in Lasts
  <2>1. Older(e.age) \in 0..AgeLimit /\ e.position \subseteq Positions
    BY Ages DEF Lasts
  <2>2. { [q EXCEPT !.age = Older(@)] : q \in e.position } \in SUBSET Positions
    BY <2>1, <1>1
  <2> QED
    BY <2>1, <2>2 DEF Lasts
<1>3. ASSUME NEW e \in Lasts, AtMostOne(e.position) PROVE AtMostOne(Aged(e).position)
  <2>1. Aged(e).position = { [q EXCEPT !.age = Older(@)] : q \in e.position }
    BY DEF Lasts
  <2> QED
    BY <1>3, <2>1 DEF AtMostOne
<1> HIDE DEF Aged
<1>4. /\ AgedGlobals(g).observed = { Older(a) : a \in g.observed }
      /\ AgedGlobals(g).last = { Aged(e) : e \in g.last }
      /\ AgedGlobals(g).cache = g.cache
      /\ AgedGlobals(g) = [g EXCEPT !.observed = { Older(a) : a \in g.observed },
                                    !.last = { Aged(e) : e \in g.last }]
  BY DEF AgedGlobals, GlobalsType, Aged
<1>5. { Older(a) : a \in g.observed } \in SUBSET (0..AgeLimit)
  BY Ages DEF GlobalsType
<1>6. { Aged(e) : e \in g.last } \in SUBSET Lasts
  BY <1>2 DEF GlobalsType
<1>7. AgedGlobals(g) \in GlobalsType
  BY <1>4, <1>5, <1>6 DEF GlobalsType
<1>8. AtMostOne(AgedGlobals(g).observed) /\ AtMostOne(AgedGlobals(g).last)
  BY <1>4 DEF Ones, AtMostOne
<1>9. \A e \in AgedGlobals(g).last : AtMostOne(e.position)
  <2>1. \A e \in g.last : e \in Lasts /\ AtMostOne(e.position)
    BY DEF Ones, GlobalsType
  <2> QED
    BY <1>3, <1>4, <2>1
<1> QED
  BY <1>4, <1>7, <1>8, <1>9 DEF Ones

(* A map change forgets the samples, the observer's target is one or none  *)
(* (sampleMapState, sampleObserverTarget).                                 *)
LEMMA MapTypes ==
  ASSUME NEW g \in GlobalsType, Ones(g), NEW map \in MapIds \cup {Nothing},
         NEW seen \in Observers
  PROVE  LET h == MapEpoch(g, map)
             k == [h EXCEPT !.observed = ObserverAge(h, seen)]
         IN k \in GlobalsType /\ Ones(k)
<1> DEFINE h == MapEpoch(g, map)
           k == [h EXCEPT !.observed = ObserverAge(h, seen)]
<1>1. h \in GlobalsType
  BY DEF MapEpoch, GlobalsType
<1>2. Ones(h)
  BY DEF MapEpoch, GlobalsType, Ones, AtMostOne
<1> HIDE DEF h
<1>3. h.observed \subseteq 0..AgeLimit /\ AtMostOne(h.observed)
  BY <1>1, <1>2 DEF GlobalsType, Ones
<1>4. ObserverAge(h, seen) \in SUBSET (0..AgeLimit) /\ AtMostOne(ObserverAge(h, seen))
  BY <1>3, Ages DEF ObserverAge, AtMostOne
<1>5. k \in GlobalsType
  BY <1>1, <1>4 DEF GlobalsType
<1>6. Ones(k)
  <2>1. k.observed = ObserverAge(h, seen) /\ k.cache = h.cache /\ k.last = h.last
    BY <1>1 DEF GlobalsType
  <2> QED
    BY <1>2, <1>4, <2>1 DEF Ones
<1> QED
  BY <1>5, <1>6 DEF h

(* What is kept of an observation is about the slot's player, and is one   *)
(* position at most (retainPlayerSample).                                  *)
LEMMA KeptTypes ==
  ASSUME NEW last \in SUBSET Lasts, \A e \in last : AtMostOne(e.position),
         NEW who \in Entries, NEW alive \in BOOLEAN
  PROVE  LET kept == Kept(last, who, alive)
         IN /\ kept.pawn = who.pawn /\ kept.pawn \in Pawns /\ kept.steam \in Steams
            /\ kept.position \in SUBSET Positions /\ AtMostOne(kept.position)
<1> DEFINE same == { e \in last : Compatible(who, e) /\ ~(alive /\ ~e.alive) }
           e0 == CHOOSE e \in same : TRUE
<1>0. who.pawn \in Pawns /\ who.steam \in Steams
  BY DEF Entries
<1>1. CASE same = {}
  BY <1>0, <1>1 DEF Kept, AtMostOne
<1>2. CASE same # {}
  <2>1. e0 \in same
    BY <1>2
  <2> HIDE DEF e0
  <2>2. /\ e0 \in Lasts /\ AtMostOne(e0.position) /\ Compatible(who, e0)
    BY <2>1
  <2>3. e0.pawn = who.pawn /\ e0.steam \in Steams /\ e0.position \in SUBSET Positions
    BY <2>2 DEF Compatible, Lasts
  <2>4. Kept(last, who, alive) =
          [pawn |-> e0.pawn, position |-> e0.position,
           steam |-> IF who.steam # Nothing THEN who.steam ELSE e0.steam]
    BY <1>2 DEF Kept, e0
  <2> QED
    BY <1>0, <2>2, <2>3, <2>4
<1> QED
  BY <1>1, <1>2

(* What is remembered and what is shown of a player is well formed. *)
LEMMA RetainTypes ==
  ASSUME NEW last \in SUBSET Lasts, \A e \in last : AtMostOne(e.position),
         NEW who \in Entries, NEW alive \in BOOLEAN, NEW dormant \in BOOLEAN,
         NEW now \in SUBSET Positions, AtMostOne(now)
  PROVE  LET r == Retain(last, who, alive, dormant, now)
         IN /\ r.last \in SUBSET Lasts /\ AtMostOne(r.last)
            /\ \A e \in r.last : AtMostOne(e.position)
            /\ r.shown \in SUBSET Positions
<1> DEFINE kept == Kept(last, who, alive)
           frozen == dormant \/ ~alive
           position == RetainedPosition(kept, now, frozen)
           e0 == [pawn |-> kept.pawn, steam |-> kept.steam, alive |-> alive,
                  position |-> position, age |-> 0]
<1>1. /\ kept.pawn \in Pawns /\ kept.steam \in Steams
      /\ kept.position \in SUBSET Positions /\ AtMostOne(kept.position)
  BY KeptTypes
<1>2. Retain(last, who, alive, dormant, now) =
        [last |-> {e0}, shown |-> ShownPosition(position, frozen)]
  BY DEF Retain
<1> HIDE DEF kept
<1>3. position \in SUBSET Positions /\ AtMostOne(position)
  BY <1>1 DEF RetainedPosition
<1> HIDE DEF position, frozen
<1>4. e0 \in Lasts /\ e0.position = position
  BY <1>1, <1>3, Ages DEF Lasts
<1>5. ShownPosition(position, frozen) \in SUBSET Positions
  BY <1>3 DEF ShownPosition
<1> HIDE DEF e0
<1> QED
  BY <1>2, <1>3, <1>4, <1>5 DEF AtMostOne

(* A position read now is one (PositionOf). *)
LEMMA NowTypes ==
  ASSUME DataShape, data.pc = "players", NEW e \in Entries, NEW alive \in BOOLEAN
  PROVE  PositionOf(e, alive) \in Positions
<1>1. data.g.mapState \in MapIds \cup {Nothing} /\ data.sample.local \in LocalPawns
  BY DEF DataShape, Reading, DataType, GlobalsType
<1>2. e.pawn \in Pawns /\ e.steam \in Steams
  BY DEF Entries
<1> QED
  BY <1>1, <1>2, Ages DEF PositionOf, Positions, Steams, OrNothing

(* The epoch of an update is well formed, whatever the local pawn. *)
LEMMA LocalEpochTypes ==
  ASSUME DataShape, NEW l \in LocalPawns
  PROVE  LET g == [Epoch(data.g, l) EXCEPT !.failures = 0] IN g \in GlobalsType /\ Ones(g)
<1> DEFINE e == Epoch(data.g, l)
<1>1. data.g \in GlobalsType /\ Ones(data.g)
  BY DEF DataShape, DataType
<1>2. e \in GlobalsType /\ Ones(e)
  BY <1>1, EpochTypes DEF Epoch
<1> HIDE DEF e
<1>3. [e EXCEPT !.failures = 0] \in GlobalsType
  BY <1>2 DEF GlobalsType
<1>4. Ones([e EXCEPT !.failures = 0])
  BY <1>2 DEF GlobalsType, Ones
<1> QED
  BY <1>3, <1>4 DEF e

(* The data thread keeps the shape of its state. *)
LEMMA DataShapeStep ==
  ASSUME DataShape, menu \in MenuType, DataStep
  PROVE  DataShape'
<1>0. /\ data \in DataType /\ shared \in SharedType /\ Ones(data.g)
      /\ data.g \in GlobalsType /\ data.sample \in SampleType /\ data.config \in ConfigType
      /\ (data.pc \in Reading => data.sample.local \in LocalPawns)
  BY DEF DataShape, DataType
<1>a. \A pc \in {"read", "cache", "map", "players", "publish", "check", "exited"} :
        pc \in DataLabels
  BY DEF DataLabels
<1>b. "check" \notin Reading /\ "exited" \notin Reading /\ "read" \notin Reading
      /\ {"cache", "map", "players", "publish"} \subseteq Reading
  BY DEF Reading
<1> DEFINE Sampled(g, sample) == g \in GlobalsType /\ Ones(g) /\ sample \in SampleType
<1>1. CASE DataExits
  <2>1. data' \in DataType /\ data'.g = data.g /\ data'.pc = "exited" /\ shared' = shared
    BY <1>0, <1>a, <1>1 DEF DataExits, DataType
  <2> QED
    BY <1>0, <1>b, <2>1 DEF DataShape
<1>2. CASE DataIdles
  <2>1. data' = [data EXCEPT !.cleared = TRUE, !.g = CleanGlobals] /\ data.pc = "check"
        /\ shared' = NothingShared
    BY <1>2 DEF DataIdles, Steps
  <2>2. data' \in DataType /\ data'.g = CleanGlobals /\ data'.pc = "check"
    BY <1>0, <2>1, CleanTypes DEF DataType
  <2> QED
    BY <1>b, <2>1, <2>2, CleanTypes DEF DataShape
<1>3. CASE DataBegins
  <2>1. [menu.config EXCEPT !.radar = RadarRate(menu.config) > 0] \in ConfigType
    <3>1. menu.config \in ConfigType
      BY OverlayAssumption DEF MenuType, ConfigType
    <3>2. CASE RadarRate(menu.config) > 0
      <4>1. (RadarRate(menu.config) > 0) = TRUE
        BY <3>2
      <4> QED
        BY <3>1, <4>1 DEF ConfigType
    <3>3. CASE ~(RadarRate(menu.config) > 0)
      <4>1. (RadarRate(menu.config) > 0) = FALSE
        BY <3>3
      <4> QED
        BY <3>1, <4>1 DEF ConfigType
    <3> QED
      BY <3>2, <3>3
  <2>2. data' \in DataType /\ data'.g = data.g /\ data'.pc = "read" /\ shared' = shared
    BY <1>0, <1>a, <1>3, <2>1 DEF DataBegins, DataType
  <2> QED
    BY <1>0, <1>b, <2>2 DEF DataShape
<1>4. CASE DataSleeps
  <2>1. data' = [data EXCEPT !.g = AgedGlobals(data.g)] /\ shared' = shared /\ data.pc = "check"
    BY <1>0, <1>4 DEF DataSleeps, AgedGlobals, Steps, DataType, GlobalsType
  <2>2. data' \in DataType /\ data'.g = AgedGlobals(data.g) /\ data'.pc = "check"
    BY <1>0, <2>1, AgedTypes DEF DataType
  <2> QED
    BY <1>0, <1>b, <2>1, <2>2, AgedTypes DEF DataShape
<1>5. CASE ReadFails
  <2>1. CASE ClearRuntimeState("check")
    <3>1. data' = [data EXCEPT !.pc = "check", !.g = CleanGlobals, !.sample = NoSample]
          /\ shared' = NothingShared
      BY <2>1 DEF ClearRuntimeState
    <3>2. data' \in DataType /\ data'.g = CleanGlobals /\ data'.pc = "check"
      BY <1>0, <1>a, <3>1, CleanTypes DEF DataType
    <3> QED
      BY <1>b, <3>1, <3>2, CleanTypes DEF DataShape
  <2>2. CASE /\ ~(data.g.failures + 1 >= 3)
             /\ data' = [data EXCEPT !.pc = "check", !.g.failures = @ + 1]
             /\ UNCHANGED shared
    <3> DEFINE k == [data.g EXCEPT !.failures = @ + 1]
    <3>1. data' = [data EXCEPT !.pc = "check", !.g = k]
      BY <1>0, <2>2 DEF DataType
    <3>2. data.g.failures + 1 \in 0..2
      BY <1>0, <2>2 DEF GlobalsType
    <3>3. k \in GlobalsType /\ Ones(k)
      BY <1>0, <3>2 DEF GlobalsType, Ones
    <3> HIDE DEF k
    <3>4. data' \in DataType /\ data'.g = k /\ data'.pc = "check"
      BY <1>0, <1>a, <3>1, <3>3 DEF DataType
    <3> QED
      BY <1>0, <1>b, <2>2, <3>3, <3>4 DEF DataShape
  <2> QED
    BY <1>5, <2>1, <2>2 DEF ReadFails
<1>c. PublishView(shared) \in SharedType
  <2>1. Smaller(2, shared.lag + 1) \in 0..2
    BY <1>0 DEF Smaller, SharedType
  <2> QED
    BY <1>0, <2>1 DEF PublishView, SharedType
<1>d. ASSUME NEW some \in BOOLEAN PROVE PublishEnemies(shared, some) \in SharedType
  <2>1. 0 \in 0..2
    OBVIOUS
  <2> QED
    BY <1>0, <2>1 DEF PublishEnemies, SharedType
<1>6. CASE ReadLocal
  <2>1. PICK local \in LocalPawns, capture \in BOOLEAN, refresh \in BOOLEAN :
         data' = [data EXCEPT
            !.pc = IF refresh THEN "cache" ELSE IF capture THEN "map" ELSE "players",
            !.g = [Epoch(@, local) EXCEPT !.failures = 0],
            !.sample = [NoSample EXCEPT !.local = local, !.capture = capture]]
    BY <1>6 DEF ReadLocal
  <2> DEFINE pc == IF refresh THEN "cache" ELSE IF capture THEN "map" ELSE "players"
             k == [Epoch(data.g, local) EXCEPT !.failures = 0]
             m == [NoSample EXCEPT !.local = local, !.capture = capture]
  <2>2. m \in SampleType /\ m.local = local
    BY DEF NoSample, SampleType
  <2>3. k \in GlobalsType /\ Ones(k)
    BY LocalEpochTypes
  <2>4. pc \in DataLabels
    BY <1>a
  <2>5. data' = [data EXCEPT !.pc = pc, !.g = k, !.sample = m]
    BY <2>1
  <2> HIDE DEF pc, k, m
  <2>6. data' \in DataType /\ data'.g = k /\ data'.sample = m
    BY <1>0, <2>2, <2>3, <2>4, <2>5 DEF DataType
  <2>7. shared' \in SharedType
    BY <1>c, <1>6 DEF ReadLocal
  <2> QED
    BY <2>2, <2>3, <2>6, <2>7 DEF DataShape
<1>7. CASE RefreshCache
  <2>1. PICK k \in {[NewEpoch(data.g, Nothing) EXCEPT !.cache = {}]}
                  \cup {[data.g EXCEPT !.cache = c] : c \in {{}} \cup {{e} : e \in CacheEntries}} :
          data' = [data EXCEPT !.g = k,
                               !.pc = IF data.sample.capture THEN "map" ELSE "players"]
    BY <1>7 DEF RefreshCache
  <2>2. k \in GlobalsType /\ Ones(k)
    <3>1. CASE k = [NewEpoch(data.g, Nothing) EXCEPT !.cache = {}]
      <4> DEFINE n == NewEpoch(data.g, Nothing)
      <4>1. n \in GlobalsType /\ Ones(n)
        BY <1>0, EpochTypes
      <4> HIDE DEF n
      <4>2. k = [n EXCEPT !.cache = {}]
        BY <3>1 DEF n
      <4> QED
        BY <4>1, <4>2 DEF GlobalsType, Ones, AtMostOne
    <3>2. CASE \E c \in {{}} \cup {{e} : e \in CacheEntries} : k = [data.g EXCEPT !.cache = c]
      <4>1. PICK c \in {{}} \cup {{e} : e \in CacheEntries} : k = [data.g EXCEPT !.cache = c]
        BY <3>2
      <4>2. \A e \in CacheEntries : e \in Entries
        BY DEF CacheEntries, Entries, Steams, OrNothing
      <4>3. c \in SUBSET Entries /\ AtMostOne(c)
        BY <4>2 DEF AtMostOne
      <4> QED
        BY <1>0, <4>1, <4>3 DEF GlobalsType, Ones
    <3> QED
      BY <2>1, <3>1, <3>2
  <2>3. data' \in DataType /\ data'.g = k /\ data'.sample = data.sample
    BY <1>0, <1>a, <2>1, <2>2 DEF DataType
  <2>4. shared' = shared /\ data.pc = "cache"
    BY <1>7 DEF RefreshCache, Steps
  <2> QED
    BY <1>0, <1>b, <2>2, <2>3, <2>4 DEF DataShape
<1>8. CASE SampleMap
  <2>1. PICK map \in OrNothing(MapIds), seen \in Observers :
          LET g == MapEpoch(data.g, map)
              observed == ObserverAge(g, seen)
          IN data' = [data EXCEPT !.pc = "players",
                                  !.g = [g EXCEPT !.observed = observed],
                                  !.sample.observed = map # Nothing /\ observed # {}]
    BY <1>8 DEF SampleMap
  <2> DEFINE h == MapEpoch(data.g, map)
             k == [h EXCEPT !.observed = ObserverAge(h, seen)]
             m == [data.sample EXCEPT !.observed = map # Nothing /\ ObserverAge(h, seen) # {}]
  <2>2. k \in GlobalsType /\ Ones(k)
    BY <1>0, MapTypes DEF OrNothing
  <2>3. m \in SampleType /\ m.local = data.sample.local
    BY <1>0 DEF SampleType
  <2>4. data' = [data EXCEPT !.pc = "players", !.g = k, !.sample = m]
    BY <1>0, <2>1 DEF DataType
  <2> HIDE DEF k, m
  <2>5. data' \in DataType /\ data'.g = k /\ data'.sample = m
    BY <1>0, <1>a, <2>2, <2>3, <2>4 DEF DataType
  <2>6. shared' = shared /\ data.pc = "map"
    BY <1>8 DEF SampleMap, Steps
  <2> QED
    BY <1>0, <1>b, <2>2, <2>3, <2>5, <2>6 DEF DataShape
<1>9. CASE PassOver
  <2> DEFINE k == [data.g EXCEPT !.last = IF data.sample.capture THEN Forget(@) ELSE @]
  <2>1. k \in GlobalsType /\ Ones(k)
    BY <1>0 DEF Forget, GlobalsType, Ones, AtMostOne
  <2>2. data' = [data EXCEPT !.pc = "publish", !.g = k]
    BY <1>0, <1>9 DEF PassOver, DataType
  <2> HIDE DEF k
  <2>3. data' \in DataType /\ data'.g = k /\ data'.sample = data.sample
    BY <1>0, <1>a, <2>1, <2>2 DEF DataType
  <2>4. shared' \in SharedType /\ data.pc = "players"
    BY <1>d, <1>9 DEF PassOver, Steps
  <2> QED
    BY <1>0, <1>b, <2>1, <2>3, <2>4 DEF DataShape
<1>10. CASE SampleEnemy
  <2>1. data' \in DataType /\ data'.g = data.g /\ data'.sample = data.sample
    BY <1>0, <1>a, <1>10 DEF SampleEnemy, DataType
  <2>2. shared' \in SharedType /\ data.pc = "players"
    BY <1>d, <1>10 DEF SampleEnemy, Steps
  <2> QED
    BY <1>0, <1>b, <2>1, <2>2 DEF DataShape
<1>11. CASE SamplePlayer
  <2>0. data.pc = "players"
    BY <1>11 DEF SamplePlayer, Steps
  <2>1. PICK e \in data.g.cache, alive \in BOOLEAN, owner \in BOOLEAN, asleep \in BOOLEAN,
             absolute \in Origins, old \in Origins :
       LET now == IF SceneSample(owner, absolute, old) THEN {PositionOf(e, alive)} ELSE {}
           dormant == RadarDormant(owner, asleep)
           retains == data.g.mapState # Nothing /\ e.named
           r == IF retains THEN Retain(data.g.last, e, alive, dormant, now)
                ELSE [last |-> data.g.last, shown |-> now]
           player == [ pawn |-> e.pawn, steam |-> e.steam, alive |-> alive,
                       dormant |-> dormant, position |-> r.shown ]
       IN /\ data' = [data EXCEPT !.pc = "publish", !.sample.players = {player},
                                  !.g.last = Forget(r.last)]
          /\ \E enemy \in BOOLEAN :
               /\ enemy => data.config.esp /\ alive
               /\ shared' = PublishEnemies(shared, enemy)
    BY <1>11 DEF SamplePlayer
  <2> DEFINE now == IF SceneSample(owner, absolute, old) THEN {PositionOf(e, alive)} ELSE {}
             dormant == RadarDormant(owner, asleep)
             r == IF data.g.mapState # Nothing /\ e.named
                  THEN Retain(data.g.last, e, alive, dormant, now)
                  ELSE [last |-> data.g.last, shown |-> now]
             player == [ pawn |-> e.pawn, steam |-> e.steam, alive |-> alive,
                         dormant |-> dormant, position |-> r.shown ]
             k == [data.g EXCEPT !.last = Forget(r.last)]
             m == [data.sample EXCEPT !.players = {player}]
  <2>2. e \in Entries
    BY <1>0 DEF GlobalsType
  <2>3. now \in SUBSET Positions /\ AtMostOne(now)
    BY <2>0, <2>2, NowTypes DEF AtMostOne
  <2>4. dormant \in BOOLEAN
    BY DEF RadarDormant
  <2> HIDE DEF now, dormant
  <2>5. /\ r.last \in SUBSET Lasts /\ AtMostOne(r.last)
        /\ (\A x \in r.last : AtMostOne(x.position)) /\ r.shown \in SUBSET Positions
    <3>0. /\ data.g.last \in SUBSET Lasts /\ AtMostOne(data.g.last)
          /\ \A x \in data.g.last : AtMostOne(x.position)
      BY <1>0 DEF GlobalsType, Ones
    <3>1. LET t == Retain(data.g.last, e, alive, dormant, now)
          IN /\ t.last \in SUBSET Lasts /\ AtMostOne(t.last)
             /\ \A x \in t.last : AtMostOne(x.position)
             /\ t.shown \in SUBSET Positions
      BY <2>2, <2>3, <2>4, <3>0, RetainTypes
    <3> QED
      BY <2>3, <3>0, <3>1
  <2> HIDE DEF r
  <2>6. player \in ShownPlayers
    BY <2>2, <2>4, <2>5 DEF Entries, ShownPlayers
  <2> HIDE DEF player
  <2>7. k \in GlobalsType /\ Ones(k)
    <3>1. Forget(r.last) \in SUBSET Lasts /\ AtMostOne(Forget(r.last))
          /\ \A x \in Forget(r.last) : AtMostOne(x.position)
      BY <2>5 DEF Forget, AtMostOne
    <3> QED
      BY <1>0, <3>1 DEF GlobalsType, Ones
  <2>8. m \in SampleType /\ m.local = data.sample.local
    BY <1>0, <2>6 DEF SampleType
  <2>9. data' = [data EXCEPT !.pc = "publish", !.g = k, !.sample = m]
    BY <1>0, <2>1 DEF DataType, now, dormant, r, player
  <2> HIDE DEF k, m
  <2>10. data' \in DataType /\ data'.g = k /\ data'.sample = m
    BY <1>0, <1>a, <2>7, <2>8, <2>9 DEF DataType
  <2>11. shared' \in SharedType
    BY <1>d, <2>1
  <2> QED
    BY <1>0, <1>b, <2>0, <2>7, <2>8, <2>10, <2>11 DEF DataShape
<1>12. CASE Publish
  <2>1. PICK discover \in BOOLEAN, position \in BOOLEAN, listed \in BOOLEAN,
             found \in BOOLEAN, resolves \in BOOLEAN :
       LET g == IF data.config.radar
                THEN PositionBomb(DiscoverBomb(data.g, discover, listed, found),
                                  position, listed, resolves)
                ELSE NoWorldEntities(data.g)
       IN data' = [data EXCEPT !.pc = "check", !.sample = NoSample, !.g = g]
    BY <1>12 DEF Publish
  <2> DEFINE d == DiscoverBomb(data.g, discover, listed, found)
             g == IF data.config.radar THEN PositionBomb(d, position, listed, resolves)
                  ELSE NoWorldEntities(data.g)
  <2>2. d \in GlobalsType /\ Ones(d)
    BY <1>0 DEF DiscoverBomb, GlobalsType, Ones
  <2> HIDE DEF d
  <2>3. g \in GlobalsType /\ Ones(g)
    <3>1. PositionBomb(d, position, listed, resolves) \in GlobalsType
          /\ Ones(PositionBomb(d, position, listed, resolves))
      <4>1. (listed /\ d.c4 /\ resolves) \in BOOLEAN
        OBVIOUS
      <4> QED
        BY <2>2, <4>1 DEF PositionBomb, GlobalsType, Ones
    <3>2. NoWorldEntities(data.g) \in GlobalsType /\ Ones(NoWorldEntities(data.g))
      BY <1>0 DEF NoWorldEntities, GlobalsType, Ones
    <3> QED
      BY <3>1, <3>2
  <2>4. data' = [data EXCEPT !.pc = "check", !.sample = NoSample, !.g = g]
    BY <2>1 DEF d
  <2> HIDE DEF g
  <2>5. data' \in DataType /\ data'.g = g /\ data'.pc = "check"
    BY <1>0, <1>a, <2>3, <2>4, CleanTypes DEF DataType
  <2>6. shared' \in SharedType
    BY <1>0, <1>12 DEF Publish, Bombs, SharedType
  <2> QED
    BY <1>b, <2>3, <2>5, <2>6 DEF DataShape
<1> QED
  BY <1>1, <1>2, <1>3, <1>4, <1>5, <1>6, <1>7, <1>8, <1>9, <1>10, <1>11, <1>12
     DEF DataStep, DataWorks
(* The main thread replaces the data thread's state only with a clean one, *)
(* starts its thread or tells it to end.                                   *)
LEMMA DataShapeMain ==
  ASSUME DataShape, MainStep
  PROVE  DataShape'
<1>0. data \in DataType /\ "check" \in DataLabels /\ "check" \notin Reading
  BY DEF DataShape, DataLabels, Reading
<1>a. /\ data' = data \/ data' = NoData \/ data' = [data EXCEPT !.running = FALSE]
         \/ data' = [data EXCEPT !.running = TRUE, !.pc = "check"]
      /\ shared' = shared \/ shared' = NothingShared
  <2>1. CASE StartWaiting \/ LookForGame \/ WaitingFrame \/ Attach \/ StartImGui
    BY <2>1 DEF StartWaiting, LookForGame, WaitingFrame, Attach, StartImGui
  <2>2. CASE \/ Poll \/ PositionGone \/ PositionTooSoon \/ PositionHidden \/ PositionFails
             \/ PositionMoves \/ PositionStays \/ PositionProbes \/ Consume \/ Frame
    BY <2>2 DEF Poll, PositionGone, PositionTooSoon, PositionHidden, PositionFails,
                PositionMoves, PositionStays, PositionProbes, Consume, Frame
  <2>3. CASE LeaveSession \/ JoinData \/ StopWorker \/ JoinWorker
    BY <2>3 DEF LeaveSession, JoinData, StopWorker, JoinWorker
  <2> QED
    BY <2>1, <2>2, <2>3 DEF MainStep
<1>1. shared' \in SharedType
  BY <1>a, CleanTypes DEF DataShape
<1>2. CASE data' = data
  BY <1>1, <1>2 DEF DataShape
<1>3. CASE data' = NoData
  <2>1. data'.pc = "none" /\ data'.g = CleanGlobals
    BY <1>3 DEF NoData
  <2> QED
    BY <1>1, <1>3, <2>1, CleanTypes DEF DataShape, Reading
<1>4. CASE \/ data' = [data EXCEPT !.running = FALSE]
           \/ data' = [data EXCEPT !.running = TRUE, !.pc = "check"]
  <2>1. /\ data' \in DataType /\ data'.g = data.g /\ data'.sample = data.sample
        /\ data'.pc = data.pc \/ data'.pc = "check"
    BY <1>0, <1>4 DEF DataType
  <2> QED
    BY <1>0, <1>1, <2>1 DEF DataShape
<1> QED
  BY <1>a, <1>2, <1>3, <1>4

(* Every step keeps the shape of the whole state. *)
LEMMA ShapeStep == MainShape /\ DataShape /\ [Next]_vars => MainShape' /\ DataShape'
<1> SUFFICES ASSUME MainShape, DataShape, [Next]_vars PROVE MainShape' /\ DataShape'
  OBVIOUS
<1>1. CASE DesktopChanges
  BY <1>1, MainShapeDesktop DEF DesktopChanges, DataShape
<1>2. CASE MainStep
  <2>1. MainShape'
    BY <1>2, MainShapeSession, MainShapeLoop DEF MainStep
  <2> QED
    BY <1>2, <2>1, DataShapeMain
<1>3. CASE WorkerStep
  <2>1. UNCHANGED <<data, shared>>
    BY <1>3 DEF WorkerStep, WorkerTakes, WorkerStores, WorkerExits
  <2> QED
    BY <1>3, <2>1, MainShapeWorker DEF DataShape
<1>4. CASE DataStep
  <2>1. UNCHANGED <<app, screen, win, menu, worker, mem>>
    BY <1>4 DEF DataStep, DataWorks, DataExits, DataIdles, DataBegins, ReadFails, ReadLocal,
                RefreshCache, SampleMap, PassOver, SampleEnemy, SamplePlayer, Publish, DataSleeps
  <2>2. MainShape'
    BY <2>1 DEF MainShape, OneEach
  <2> QED
    BY <1>4, <2>2, DataShapeStep DEF MainShape
<1>5. CASE UNCHANGED vars
  BY <1>5 DEF vars, MainShape, DataShape, OneEach
<1> QED
  BY <1>1, <1>2, <1>3, <1>4, <1>5 DEF Next

-----------------------------------------------------------------------------
(* Sessions: nothing of one session is left when the next begins, and the  *)
(* handle is open from the moment the game was found.                      *)
BetweenSessions == {"start", "waiting", "attach", "ended"}
Ending == {"destroy", "joinWorker"}
Clean == data = NoData /\ shared = NothingShared

WorkerInv ==
  /\ app.pc \in BetweenSessions => worker = NoWorker
  /\ worker.pc # "none" => app.pc \in InLoop \cup {"imgui", "joinData"} \cup Ending
  /\ worker.pc # "detect" => worker.job = {}
  /\ worker.stopping => worker.request = {}
  /\ app.pc = "joinWorker" => worker.stopping
DataInv ==
  /\ data.pc \notin {"none", "exited"} => app.pc \in InLoop \cup {"joinData"}
  /\ app.pc \in BetweenSessions \cup {"imgui"} => Clean
  /\ app.pc \in Ending /\ app.after = "attach" => Clean
  /\ app.pc \in InLoop /\ ~data.running => Clean
  /\ data.pc = "exited" => ~data.running
  /\ app.pc \in {"poll", "frame"} => data.running
  /\ data.running => app.pc \in InLoop
Handle ==
  /\ app.pc \in {"start", "ended"} => ~mem
  /\ app.pc \in InLoop \cup {"attach", "imgui", "joinData"} => mem
  /\ app.pc \in Ending /\ app.after = "attach" /\ app.running => mem
  /\ app.pc \in {"start", "waiting", "attach"} => app.running
SessionInv == WorkerInv /\ DataInv /\ Handle

(* The first state. *)
LEMMA SessionInit == Init => SessionInv
<1> SUFFICES ASSUME Init PROVE SessionInv
  OBVIOUS
<1>1. /\ app = [pc |-> "start", running |-> TRUE, after |-> "start", faults |-> 0]
      /\ worker = NoWorker /\ data = NoData /\ shared = NothingShared /\ ~mem
  BY DEF Init, InitShared
<1>2. WorkerInv
  BY <1>1 DEF WorkerInv, NoWorker
<1>3. DataInv
  BY <1>1 DEF DataInv, Clean, NoData
<1>4. Handle
  BY <1>1 DEF Handle, InLoop, Ending
<1> QED
  BY <1>2, <1>3, <1>4 DEF SessionInv

(* Goto and its variants change the program counter and nothing else that  *)
(* the invariant speaks of.                                                *)
LEMMA AppGoes ==
  ASSUME app \in AppType, NEW pc
  PROVE  /\ Goto(pc) \/ Fail(pc) => app'.pc = pc /\ app'.after = app.after /\ app'.running = app.running
         /\ Quit(pc) \/ FailAndQuit(pc) => app'.pc = pc /\ app'.after = app.after /\ ~app'.running
BY DEF AppType, Goto, Fail, Quit, FailAndQuit

(* A turn of the loop leaves the session as it is: it stays in the loop,   *)
(* or goes on to start ImGui while no data thread was started.             *)
Turns ==
  /\ app.pc \in InLoop
  /\ \/ app'.pc \in {"position", "consume"}
     \/ app'.pc = "poll" /\ data.running
     \/ app'.pc = IF data.running THEN "frame" ELSE "imgui"
  /\ app'.after = app.after
  /\ UNCHANGED <<data, shared, mem>>
LEMMA LoopTurns ==
  ASSUME MainShape, DataInv,
         Poll \/ PositionGone \/ PositionTooSoon \/ PositionHidden \/ PositionFails
         \/ PositionMoves \/ PositionStays \/ PositionProbes \/ Consume \/ Frame
  PROVE  Turns
<1>0. app \in AppType
  BY DEF MainShape
<1>1. CASE Poll
  BY <1>0, <1>1, AppGoes
     DEF Poll, PollNothing, PollQuit, PollMenu, PollReset, At, Turns, InLoop
<1>2. CASE \/ PositionGone \/ PositionTooSoon \/ PositionHidden \/ PositionFails
  BY <1>0, <1>2, AppGoes
     DEF PositionGone, PositionTooSoon, PositionHidden, PositionFails, Positioned, At, Turns, InLoop
<1>3. CASE PositionMoves \/ PositionStays \/ PositionProbes
  BY <1>0, <1>3, AppGoes DEF PositionMoves, PositionStays, PositionProbes, At, Turns, InLoop
<1>4. CASE Consume
  BY <1>0, <1>4, AppGoes DEF Consume, Positioned, At, Turns, InLoop
<1>5. CASE Frame
  <2>1. data.running
    BY <1>5 DEF Frame, At, DataInv
  <2> QED
    BY <1>0, <1>5, <2>1, AppGoes DEF Frame, At, Turns, InLoop
<1> QED
  BY <1>1, <1>2, <1>3, <1>4, <1>5

(* What a turn of the loop does to the worker, if anything: a request is   *)
(* queued, or its answer taken.                                            *)
LEMMA LoopWorker ==
  ASSUME MainShape, WorkerInv,
         Poll \/ PositionGone \/ PositionTooSoon \/ PositionHidden \/ PositionFails
         \/ PositionMoves \/ PositionStays \/ PositionProbes \/ Consume \/ Frame
  PROVE  /\ worker'.pc = worker.pc /\ worker'.job = worker.job
         /\ worker'.stopping = worker.stopping
         /\ worker.stopping => worker'.request = {}
<1>0. worker \in WorkerType /\ (worker.stopping => worker.request = {})
  BY DEF MainShape, WorkerInv
<1>1. CASE \/ Poll \/ PositionGone \/ PositionTooSoon \/ PositionHidden \/ PositionFails
           \/ PositionStays \/ Frame
  BY <1>0, <1>1 DEF Poll, PositionGone, PositionTooSoon, PositionHidden, PositionFails,
     PositionStays, Frame
<1>2. CASE PositionMoves
  BY <1>0, <1>2 DEF PositionMoves, Queued, WorkerType
<1>3. CASE PositionProbes
  BY <1>0, <1>3 DEF PositionProbes, Queued, WorkerType
<1>4. CASE Consume
  BY <1>0, <1>4 DEF Consume, WorkerType
<1> QED
  BY <1>1, <1>2, <1>3, <1>4

(* Turns of the loop keep the invariant. *)
LEMMA SessionTurns ==
  ASSUME MainShape, SessionInv,
         Poll \/ PositionGone \/ PositionTooSoon \/ PositionHidden \/ PositionFails
         \/ PositionMoves \/ PositionStays \/ PositionProbes \/ Consume \/ Frame
  PROVE  SessionInv'
<1>1. Turns
  BY LoopTurns DEF SessionInv
<1>2. /\ worker'.pc = worker.pc /\ worker'.job = worker.job
      /\ worker'.stopping = worker.stopping
      /\ worker.stopping => worker'.request = {}
  BY LoopWorker DEF SessionInv
<1>3. WorkerInv'
  BY <1>1, <1>2 DEF SessionInv, WorkerInv, Turns, InLoop, BetweenSessions, Ending
<1>4. DataInv'
  BY <1>1 DEF SessionInv, DataInv, Turns, InLoop, BetweenSessions, Ending, Clean, NoData
<1>5. Handle'
  BY <1>1 DEF SessionInv, Handle, Turns, InLoop, Ending
<1> QED
  BY <1>3, <1>4, <1>5 DEF SessionInv

(* So do the steps between turns: starting, waiting, attaching, leaving.   *)
LEMMA SessionMain ==
  ASSUME MainShape, DataShape, SessionInv,
         StartWaiting \/ LookForGame \/ WaitingFrame \/ Attach \/ StartImGui
         \/ LeaveSession \/ JoinData \/ StopWorker \/ JoinWorker
  PROVE  SessionInv'
<1>0. /\ app \in AppType /\ worker \in WorkerType /\ data \in DataType
      /\ WorkerInv /\ DataInv /\ Handle
  BY DEF MainShape, DataShape, SessionInv
<1> USE DEF At, InLoop, BetweenSessions, Ending
<1>1. CASE StartWaiting
  <2>1. /\ app.pc = "start" /\ app'.running = app.running
        /\ \/ app'.pc = "waiting" /\ mem' = mem
           \/ app'.pc = "ended" /\ ~mem'
        /\ UNCHANGED <<worker, data, shared>>
    BY <1>0, <1>1, AppGoes DEF StartWaiting
  <2>2. WorkerInv'
    BY <1>0, <2>1 DEF WorkerInv, NoWorker
  <2>3. DataInv'
    BY <1>0, <2>1 DEF DataInv, Clean, NoData
  <2>4. Handle'
    BY <1>0, <2>1 DEF Handle
  <2> QED
    BY <2>2, <2>3, <2>4 DEF SessionInv
<1>2. CASE LookForGame
  <2>1. /\ app.pc = "waiting" /\ app'.running = app.running
        /\ \/ app'.pc = "waiting"
           \/ app'.pc = "destroy" /\ app'.after = "attach" /\ mem'
        /\ UNCHANGED <<worker, data, shared>>
    BY <1>0, <1>2 DEF LookForGame, ModuleFound, OpenProcess, AppType
  <2>2. WorkerInv'
    BY <1>0, <2>1 DEF WorkerInv, NoWorker
  <2>3. DataInv'
    BY <1>0, <2>1 DEF DataInv, Clean, NoData
  <2>4. Handle'
    BY <1>0, <2>1 DEF Handle
  <2> QED
    BY <2>2, <2>3, <2>4 DEF SessionInv
<1>3. CASE WaitingFrame
  <2>1. /\ app.pc = "waiting"
        /\ \/ app' = app
           \/ app'.pc = "destroy" /\ app'.after = app.after /\ ~app'.running
        /\ UNCHANGED <<worker, data, shared, mem>>
    BY <1>0, <1>3, AppGoes DEF WaitingFrame
  <2>2. WorkerInv'
    BY <1>0, <2>1 DEF WorkerInv, NoWorker
  <2>3. DataInv'
    BY <1>0, <2>1 DEF DataInv, Clean, NoData
  <2>4. Handle'
    BY <1>0, <2>1 DEF Handle
  <2> QED
    BY <2>2, <2>3, <2>4 DEF SessionInv
<1>4. CASE Attach
  <2>1. /\ app.pc = "attach" /\ app'.running = app.running /\ data' = data
        /\ \/ app'.pc = "position" /\ worker' = StartedWorker /\ UNCHANGED <<shared, mem>>
           \/ app'.pc = "start" /\ worker' = worker /\ shared' = NothingShared /\ ~mem'
    BY <1>0, <1>4, AppGoes DEF Attach
  <2>2. WorkerInv'
    BY <1>0, <2>1 DEF WorkerInv, NoWorker, StartedWorker
  <2>3. DataInv'
    BY <1>0, <2>1 DEF DataInv, Clean, NoData
  <2>4. Handle'
    BY <1>0, <2>1 DEF Handle
  <2> QED
    BY <2>2, <2>3, <2>4 DEF SessionInv
<1>5. CASE StartImGui
  <2>1. /\ app.pc = "imgui" /\ UNCHANGED <<worker, shared, mem>>
        /\ \/ app'.pc = "poll" /\ data' = [data EXCEPT !.running = TRUE, !.pc = "check"]
           \/ app'.pc = "destroy" /\ app'.after = "start" /\ data' = data
    BY <1>0, <1>5, AppGoes DEF StartImGui, AppType
  <2>2. WorkerInv'
    BY <1>0, <2>1 DEF WorkerInv
  <2>3. DataInv'
    <3>1. data = NoData /\ shared = NothingShared
      BY <1>0, <2>1 DEF DataInv, Clean
    <3>2. CASE app'.pc = "poll" /\ data' = [data EXCEPT !.running = TRUE, !.pc = "check"]
      <4>1. data'.pc = "check" /\ data'.running
        BY <1>0, <3>2 DEF DataType
      <4> QED
        BY <3>2, <4>1 DEF DataInv
    <3>3. CASE app'.pc = "destroy" /\ app'.after = "start" /\ data' = data
      BY <3>1, <3>3 DEF DataInv, NoData
    <3> QED
      BY <2>1, <3>2, <3>3
  <2>4. Handle'
    BY <1>0, <2>1 DEF Handle
  <2> QED
    BY <2>2, <2>3, <2>4 DEF SessionInv
<1>6. CASE LeaveSession
  <2>1. /\ app.pc = "poll" /\ app'.pc = "joinData" /\ UNCHANGED <<worker, shared, mem>>
        /\ data'.pc = data.pc /\ ~data'.running
    BY <1>0, <1>6, AppGoes DEF LeaveSession, DataType
  <2>2. WorkerInv'
    BY <1>0, <2>1 DEF WorkerInv
  <2>3. DataInv'
    BY <1>0, <2>1 DEF DataInv
  <2>4. Handle'
    BY <1>0, <2>1 DEF Handle
  <2> QED
    BY <2>2, <2>3, <2>4 DEF SessionInv
<1>7. CASE JoinData
  <2>1. /\ app.pc = "joinData" /\ app'.pc = "destroy" /\ app'.after = "start"
        /\ data.pc = "exited" /\ UNCHANGED <<worker, data, shared, mem>>
    BY <1>0, <1>7 DEF JoinData, AppType
  <2>2. WorkerInv'
    BY <1>0, <2>1 DEF WorkerInv
  <2>3. DataInv'
    BY <1>0, <2>1 DEF DataInv
  <2>4. Handle'
    BY <1>0, <2>1 DEF Handle
  <2> QED
    BY <2>2, <2>3, <2>4 DEF SessionInv
<1>8. CASE StopWorker
  <2>1. /\ app.pc = "destroy" /\ app'.pc = "joinWorker" /\ app'.after = app.after
        /\ app'.running = app.running /\ UNCHANGED <<data, shared, mem>>
        /\ worker' = [worker EXCEPT !.stopping = TRUE, !.request = {}]
    BY <1>0, <1>8, AppGoes DEF StopWorker
  <2>2. WorkerInv'
    BY <1>0, <2>1 DEF WorkerInv, WorkerType
  <2>3. DataInv'
    BY <1>0, <2>1 DEF DataInv, Clean
  <2>4. Handle'
    BY <1>0, <2>1 DEF Handle
  <2> QED
    BY <2>2, <2>3, <2>4 DEF SessionInv
<1>9. CASE JoinWorker
  <2>1. /\ app.pc = "joinWorker" /\ worker.pc \in {"none", "exited"}
        /\ app'.running = app.running /\ app.after \in {"start", "attach"}
        /\ app'.pc = IF ~app.running THEN "ended" ELSE app.after
        /\ IF app.after = "attach" /\ app.running THEN UNCHANGED <<data, shared, mem>>
           ELSE data' = NoData /\ shared' = NothingShared /\ mem' = FALSE
    <3>1. Goto(IF ~app.running THEN "ended" ELSE app.after) /\ app.after \in {"start", "attach"}
      BY <1>0, <1>9 DEF JoinWorker, AppType
    <3> QED
      BY <1>0, <1>9, <3>1, AppGoes DEF JoinWorker
  <2>2. worker' = NoWorker
    <3>1. worker.request = {} /\ worker.job = {}
      BY <1>0, <2>1 DEF WorkerInv
    <3> QED
      BY <1>0, <1>9, <3>1 DEF JoinWorker, JoinedWorker, NoWorker, WorkerType
  <2>3. WorkerInv'
    BY <1>0, <2>1, <2>2 DEF WorkerInv, NoWorker
  <2>4. DataInv'
    <3>1. data' = NoData /\ shared' = NothingShared
      BY <1>0, <2>1 DEF DataInv, Clean
    <3> QED
      BY <3>1, <2>1 DEF DataInv, Clean, NoData
  <2>5. Handle'
    BY <1>0, <2>1 DEF Handle
  <2> QED
    BY <2>3, <2>4, <2>5 DEF SessionInv
<1> QED
  BY <1>1, <1>2, <1>3, <1>4, <1>5, <1>6, <1>7, <1>8, <1>9

(* What a step of the data thread does to its program counter: it runs     *)
(* while it is not at its end, and ends only when it was told to.          *)
LEMMA DataMoves ==
  ASSUME DataShape, DataStep
  PROVE  /\ data.pc \notin {"none", "exited"} /\ data'.running = data.running
         /\ data'.pc = "exited" => ~data.running
         /\ data'.pc # "none"
         /\ UNCHANGED <<app, screen, win, menu, worker, mem>>
<1>0. data \in DataType
  BY DEF DataShape
<1> USE DEF Steps
<1>1. CASE DataExits \/ DataIdles \/ DataBegins \/ DataSleeps
  BY <1>0, <1>1 DEF DataExits, DataIdles, DataBegins, DataSleeps, DataType
<1>2. CASE ReadFails
  BY <1>0, <1>2 DEF ReadFails, ClearRuntimeState, DataType
<1>3. CASE ReadLocal \/ RefreshCache \/ SampleMap
  BY <1>0, <1>3 DEF ReadLocal, RefreshCache, SampleMap, DataType
<1>4. CASE PassOver \/ SampleEnemy
  BY <1>0, <1>4 DEF PassOver, SampleEnemy, DataType
<1>5. CASE SamplePlayer
  BY <1>0, <1>5 DEF SamplePlayer, DataType
<1>6. CASE Publish
  BY <1>0, <1>6 DEF Publish, DataType
<1> QED
  BY <1>1, <1>2, <1>3, <1>4, <1>5, <1>6 DEF DataStep, DataWorks

(* Every step keeps the session invariant. *)
LEMMA SessionStep ==
  MainShape /\ DataShape /\ SessionInv /\ [Next]_vars => SessionInv'
<1> SUFFICES ASSUME MainShape, DataShape, SessionInv, [Next]_vars PROVE SessionInv'
  OBVIOUS
<1>0. /\ app \in AppType /\ worker \in WorkerType /\ WorkerInv /\ DataInv /\ Handle
  BY DEF MainShape, SessionInv
<1>1. CASE DesktopChanges \/ UNCHANGED vars
  <2>1. UNCHANGED <<app, worker, data, shared, mem>>
    BY <1>1 DEF DesktopChanges, vars
  <2> QED
    BY <2>1 DEF SessionInv, WorkerInv, DataInv, Handle, Clean
<1>2. CASE MainStep
  BY <1>2, SessionMain, SessionTurns DEF MainStep
<1>3. CASE WorkerStep
  <2>1. /\ app'.pc = app.pc /\ app'.after = app.after /\ app'.running = app.running
        /\ UNCHANGED <<data, shared, mem>>
    BY <1>0, <1>3, AppGoes DEF WorkerStep, WorkerTakes, WorkerStores, WorkerExits
  <2>2. WorkerInv'
    <3>1. /\ worker.pc # "none" /\ worker'.pc # "none" /\ worker'.stopping = worker.stopping
          /\ worker'.pc # "detect" => worker'.job = {}
          /\ worker'.request = worker.request \/ worker'.request = {}
      BY <1>0, <1>3 DEF WorkerStep, WorkerTakes, WorkerStores, WorkerExits, WorkerInv, WorkerType
    <3>2. app.pc \notin BetweenSessions
      BY <1>0, <3>1 DEF WorkerInv, NoWorker
    <3> QED
      BY <1>0, <2>1, <3>1, <3>2 DEF WorkerInv
  <2>3. DataInv'
    BY <1>0, <2>1 DEF DataInv, Clean
  <2>4. Handle'
    BY <1>0, <2>1 DEF Handle
  <2> QED
    BY <2>2, <2>3, <2>4 DEF SessionInv
<1>4. CASE DataStep
  <2>1. /\ data.pc \notin {"none", "exited"} /\ data'.running = data.running
        /\ data'.pc = "exited" => ~data.running
        /\ data'.pc # "none"
        /\ UNCHANGED <<app, worker, mem>>
    BY <1>4, DataMoves
  <2>2. /\ app.pc \in InLoop \cup {"joinData"} /\ (app.pc \in InLoop => data.running)
    <3>1. data # NoData
      BY <2>1 DEF NoData
    <3> QED
      BY <1>0, <2>1, <3>1 DEF DataInv, Clean
  <2>3. DataInv'
    BY <1>0, <2>1, <2>2 DEF DataInv, InLoop, BetweenSessions, Ending
  <2> QED
    BY <1>0, <2>1, <2>3 DEF SessionInv, WorkerInv, Handle
<1> QED
  BY <1>1, <1>2, <1>3, <1>4 DEF Next

-----------------------------------------------------------------------------
(* Outside of the data thread its state is left alone but for running, or  *)
(* it is clean.                                                            *)
LEMMA OthersLeaveData ==
  ASSUME MainShape, DataShape, SessionInv, MainStep \/ WorkerStep \/ DesktopChanges
  PROVE  \/ /\ shared' = shared /\ data'.pc = data.pc /\ data'.g = data.g
            /\ data'.sample = data.sample /\ data'.config = data.config
         \/ /\ shared' = NothingShared /\ data'.pc \in {"none", "check"}
            /\ data'.g = CleanGlobals /\ data'.sample = NoSample
<1> DEFINE Alone ==
             \/ /\ shared' = shared /\ data'.pc = data.pc /\ data'.g = data.g
                /\ data'.sample = data.sample /\ data'.config = data.config
             \/ /\ shared' = NothingShared /\ data'.pc \in {"none", "check"}
                /\ data'.g = CleanGlobals /\ data'.sample = NoSample
<1>0. data \in DataType /\ DataInv
  BY DEF DataShape, SessionInv
<1>1. ASSUME UNCHANGED <<data, shared>> PROVE Alone
  BY <1>1
<1>2. ASSUME data' = NoData, shared' = NothingShared PROVE Alone
  BY <1>2 DEF NoData
<1>3. ASSUME WorkerStep \/ DesktopChanges PROVE Alone
  BY <1>1, <1>3 DEF WorkerStep, WorkerTakes, WorkerStores, WorkerExits, DesktopChanges
<1>4. ASSUME \/ Poll \/ PositionGone \/ PositionTooSoon \/ PositionHidden \/ PositionFails
             \/ PositionMoves \/ PositionStays \/ PositionProbes \/ Consume \/ Frame
      PROVE  Alone
  BY <1>0, <1>1, <1>4, LoopTurns DEF Turns
<1>5. ASSUME StartWaiting \/ LookForGame \/ WaitingFrame \/ JoinData \/ StopWorker PROVE Alone
  BY <1>1, <1>5 DEF StartWaiting, LookForGame, WaitingFrame, JoinData, StopWorker
<1>6. ASSUME Attach PROVE Alone
  <2>1. data = NoData /\ shared = NothingShared
    BY <1>0, <1>6 DEF Attach, At, DataInv, BetweenSessions, Clean
  <2>2. data' = data /\ (shared' = shared \/ shared' = NothingShared)
    BY <1>6 DEF Attach
  <2> QED
    BY <1>1, <2>1, <2>2
<1>7. ASSUME StartImGui PROVE Alone
  <2>1. data = NoData /\ shared = NothingShared
    BY <1>0, <1>7 DEF StartImGui, At, DataInv, Clean
  <2>2. /\ shared' = shared
        /\ data' = data \/ data' = [data EXCEPT !.running = TRUE, !.pc = "check"]
    BY <1>7 DEF StartImGui
  <2>3. CASE data' = [data EXCEPT !.running = TRUE, !.pc = "check"]
    BY <2>1, <2>2, <2>3 DEF NoData
  <2> QED
    BY <1>1, <2>2, <2>3
<1>8. ASSUME LeaveSession PROVE Alone
  BY <1>0, <1>8 DEF LeaveSession, DataType
<1>9. ASSUME JoinWorker PROVE Alone
  BY <1>1, <1>2, <1>9 DEF JoinWorker
<1>10. Alone
  BY <1>3, <1>4, <1>5, <1>6, <1>7, <1>8, <1>9 DEF MainStep
<1> QED
  BY <1>10

-----------------------------------------------------------------------------
(* Drawing: the view is a sample ahead of the enemies only within an       *)
(* update, and nothing is drawn without a view.                            *)
Drawn ==
  /\ shared.lag = 0 \/ (shared.lag = 1 /\ data.pc \in {"cache", "map", "players"})
  /\ shared.enemies => shared.view
  /\ data.pc \in Reading => shared.view

(* The data thread keeps its drawing in step. *)
LEMMA DrawnData ==
  ASSUME DataShape, Drawn, DataStep
  PROVE  Drawn'
<1>0. data \in DataType /\ shared \in SharedType
  BY DEF DataShape
<1> USE DEF Steps, Reading
<1>1. CASE DataExits \/ DataBegins \/ DataSleeps
  BY <1>0, <1>1 DEF DataExits, DataBegins, DataSleeps, Drawn, DataType
<1>2. CASE DataIdles
  BY <1>0, <1>2 DEF DataIdles, Drawn, NothingShared, DataType
<1>3. CASE ReadFails
  <2>1. CASE ClearRuntimeState("check")
    BY <1>0, <2>1 DEF ClearRuntimeState, Drawn, NothingShared, DataType
  <2>2. CASE data' = [data EXCEPT !.pc = "check", !.g.failures = @ + 1] /\ UNCHANGED shared
    <3>1. data'.pc = "check" /\ data.pc = "read"
      BY <1>0, <1>3, <2>2 DEF ReadFails, DataType
    <3> QED
      BY <2>2, <3>1 DEF Drawn
  <2> QED
    BY <1>3, <2>1, <2>2 DEF ReadFails
<1>4. CASE ReadLocal
  <2>1. data'.pc \in {"cache", "map", "players"} /\ data.pc = "read"
    BY <1>0, <1>4 DEF ReadLocal, DataType
  <2>2. shared.lag = 0 /\ shared' = PublishView(shared)
    BY <1>4, <2>1 DEF ReadLocal, Drawn
  <2>3. Smaller(2, shared.lag + 1) = 1
    BY <2>2 DEF Smaller
  <2>4. shared'.lag = 1 /\ shared'.view
    BY <1>0, <2>2, <2>3 DEF PublishView, SharedType
  <2> QED
    BY <2>1, <2>4 DEF Drawn
<1>5. CASE RefreshCache
  BY <1>0, <1>5 DEF RefreshCache, Drawn, DataType
<1>6. CASE SampleMap
  BY <1>0, <1>6 DEF SampleMap, Drawn, DataType
<1>7. CASE PassOver \/ SampleEnemy
  <2>1. \E enemy \in BOOLEAN : shared' = PublishEnemies(shared, enemy)
    BY <1>7 DEF PassOver, SampleEnemy
  <2>2. data.pc = "players" /\ data'.pc = "publish"
    BY <1>0, <1>7 DEF PassOver, SampleEnemy, DataType
  <2>3. shared'.lag = 0 /\ shared'.view = shared.view /\ shared.view
    BY <1>0, <2>1, <2>2 DEF PublishEnemies, SharedType, Drawn
  <2> QED
    BY <2>3 DEF Drawn
<1>8. CASE SamplePlayer
  <2>1. \E enemy \in BOOLEAN : shared' = PublishEnemies(shared, enemy)
    BY <1>8 DEF SamplePlayer
  <2>2. data.pc = "players"
    BY <1>8 DEF SamplePlayer
  <2>3. shared'.lag = 0 /\ shared'.view = shared.view /\ shared.view
    BY <1>0, <2>1, <2>2 DEF PublishEnemies, SharedType, Drawn
  <2> QED
    BY <2>3 DEF Drawn
<1>9. CASE Publish
  <2>1. data.pc = "publish" /\ data'.pc = "check"
    BY <1>0, <1>9 DEF Publish, DataType
  <2>2. shared'.lag = shared.lag /\ shared'.view = shared.view /\ shared'.enemies = shared.enemies
    BY <1>0, <1>9 DEF Publish, SharedType
  <2> QED
    BY <2>1, <2>2 DEF Drawn
<1> QED
  BY <1>1, <1>2, <1>3, <1>4, <1>5, <1>6, <1>7, <1>8, <1>9 DEF DataStep, DataWorks

-----------------------------------------------------------------------------
(* Samples: what is remembered of the slot was read on the epoch's map and *)
(* for its local pawn, and the epoch is the one of the update.             *)
ReadFor(e, q, g) ==
  /\ q.map = g.map /\ q.local = g.local /\ q.pawn = e.pawn
  /\ q.steam = Nothing \/ q.steam = e.steam
  /\ e.alive => q.alive
Remembered(g) == \A e \in g.last : \A q \in e.position : ReadFor(e, q, g)
InEpoch ==
  /\ data.pc \in Reading /\ data.sample.capture => data.config.radar
  /\ data.pc = "cache" /\ data.config.radar => data.g.local = data.sample.local
  /\ data.pc \in {"map", "players"} /\ data.config.radar /\ data.g.cache # {} =>
       data.g.local = data.sample.local
  /\ data.pc = "players" /\ data.sample.capture => data.g.map = data.g.mapState
  /\ data.pc \in {"cache", "map", "players"} => data.sample.players = {}
SampleInv == Remembered(data.g) /\ InEpoch /\ SampleIsOwn

(* Time does not change where and for whom a position was read. *)
LEMMA AgedRemembered ==
  ASSUME NEW g \in GlobalsType, Remembered(g)
  PROVE  Remembered(AgedGlobals(g))
<1> DEFINE Aged(e) == [e EXCEPT !.age = Older(@),
                                !.position = { [q EXCEPT !.age = Older(@)] : q \in @ }]
<1>1. /\ AgedGlobals(g).last = { Aged(e) : e \in g.last }
      /\ AgedGlobals(g).map = g.map /\ AgedGlobals(g).local = g.local
  BY DEF AgedGlobals, GlobalsType
<1>2. SUFFICES ASSUME NEW e \in g.last, NEW q \in Aged(e).position
               PROVE  ReadFor(Aged(e), q, AgedGlobals(g))
  BY <1>1 DEF Remembered
<1>3. /\ e \in Lasts /\ Aged(e).pawn = e.pawn /\ Aged(e).steam = e.steam
      /\ Aged(e).alive = e.alive
      /\ Aged(e).position = { [p EXCEPT !.age = Older(@)] : p \in e.position }
  BY DEF Lasts, GlobalsType
<1>4. PICK p \in e.position : q = [p EXCEPT !.age = Older(@)]
  BY <1>3
<1>5. p \in Positions
  BY <1>3 DEF Lasts
<1>6. q.map = p.map /\ q.local = p.local /\ q.pawn = p.pawn /\ q.steam = p.steam
      /\ q.alive = p.alive
  BY <1>4, <1>5 DEF Positions
<1>7. ReadFor(e, p, g)
  BY DEF Remembered
<1> HIDE DEF Aged
<1> QED
  BY <1>1, <1>3, <1>6, <1>7 DEF ReadFor

(* Nothing is remembered in a clean state. *)
LEMMA CleanRemembered == Remembered(CleanGlobals) /\ CleanGlobals.last = {}
BY DEF Remembered, CleanGlobals

(* Positions read in this update; a slot whose positions are the player's  *)
(* own, in the epoch g.                                                    *)
ReadNow(now, who, alive, g) ==
  \A q \in now : /\ q.map = g.map /\ q.local = g.local /\ q.pawn = who.pawn
                 /\ q.steam = who.steam /\ q.alive = alive /\ q.age = 0
OwnOf(r, who, alive, dormant, g) ==
  /\ \A e \in r.last : \A q \in e.position : ReadFor(e, q, g)
  /\ \A q \in r.shown :
       /\ q.map = g.map /\ q.local = g.local /\ Compatible(who, q)
       /\ alive => q.alive
       /\ alive /\ ~dormant => q.age <= KeepTicks

(* What is kept and shown of a player was read for that player, in the     *)
(* epoch, of a living one if it lives, and not long ago unless it cannot   *)
(* move (retainPlayerSample).                                              *)
LEMMA RetainOwn ==
  ASSUME NEW g \in GlobalsType, Remembered(g), NEW who \in Entries,
         NEW alive \in BOOLEAN, NEW dormant \in BOOLEAN, NEW now \in SUBSET Positions,
         ReadNow(now, who, alive, g)
  PROVE  OwnOf(Retain(g.last, who, alive, dormant, now), who, alive, dormant, g)
<1> DEFINE same == { e \in g.last : Compatible(who, e) /\ ~(alive /\ ~e.alive) }
           kept == Kept(g.last, who, alive)
           frozen == dormant \/ ~alive
           position == RetainedPosition(kept, now, frozen)
           e0 == [pawn |-> kept.pawn, steam |-> kept.steam, alive |-> alive,
                  position |-> position, age |-> 0]
<1>1. /\ kept.pawn = who.pawn
      /\ who.steam = Nothing \/ kept.steam = who.steam
      /\ \A q \in kept.position : ReadFor([e0 EXCEPT !.steam = kept.steam], q, g)
  <2>1. CASE same = {}
    BY <2>1 DEF Kept
  <2>2. CASE same # {}
    <3> DEFINE e == CHOOSE e \in same : TRUE
    <3>1. e \in same
      BY <2>2
    <3>2. kept = [pawn |-> e.pawn, position |-> e.position,
                  steam |-> IF who.steam # Nothing THEN who.steam ELSE e.steam]
      BY <2>2 DEF Kept
    <3> HIDE DEF e, kept
    <3>3. /\ e \in g.last /\ e.pawn = who.pawn /\ (alive => e.alive)
          /\ who.steam = e.steam \/ who.steam = Nothing \/ e.steam = Nothing
      BY <3>1 DEF Compatible
    <3>4. kept.pawn = who.pawn /\ (who.steam = Nothing \/ kept.steam = who.steam)
          /\ (e.steam = Nothing \/ kept.steam = e.steam) /\ kept.position = e.position
      BY <3>2, <3>3
    <3>5. ASSUME NEW q \in kept.position
          PROVE  ReadFor([e0 EXCEPT !.steam = kept.steam], q, g)
      <4>1. ReadFor(e, q, g)
        BY <3>3, <3>4 DEF Remembered
      <4> QED
        BY <3>3, <3>4, <4>1 DEF ReadFor
    <3> QED
      BY <3>4, <3>5
  <2> QED
    BY <2>1, <2>2
<1>2. /\ \A e \in Retain(g.last, who, alive, dormant, now).last : e = e0
      /\ Retain(g.last, who, alive, dormant, now).shown = ShownPosition(position, frozen)
  BY DEF Retain
<1> HIDE DEF kept
<1>3. e0.pawn = kept.pawn /\ e0.steam = kept.steam /\ e0.alive = alive /\ e0.position = position
  OBVIOUS
<1>4. \A q \in now : ReadFor(e0, q, g)
  BY <1>1, <1>3 DEF ReadFor, ReadNow
<1>5. \A q \in position : (q \in now \/ q \in kept.position)
  BY DEF RetainedPosition
<1>6. \A q \in position : ReadFor(e0, q, g)
  <2>1. \A q \in kept.position : ReadFor(e0, q, g)
    BY <1>1, <1>3 DEF ReadFor
  <2> QED
    BY <1>4, <1>5, <2>1
<1> HIDE DEF position, e0
<1>7. ASSUME NEW q \in ShownPosition(position, frozen)
      PROVE  /\ q.map = g.map /\ q.local = g.local /\ Compatible(who, q)
             /\ alive => q.alive
             /\ alive /\ ~dormant => q.age <= KeepTicks
  <2>1. q \in position /\ (frozen \/ CanReuse(q))
    BY DEF ShownPosition
  <2>2. ReadFor(e0, q, g)
    BY <1>6, <2>1
  <2> QED
    BY <1>1, <1>3, <2>1, <2>2 DEF ReadFor, Compatible, CanReuse
<1>8. \A e \in Retain(g.last, who, alive, dormant, now).last :
        \A q \in e.position : ReadFor(e, q, g)
  BY <1>2, <1>3, <1>6
<1> QED
  BY <1>2, <1>7, <1>8 DEF OwnOf

(* Every step keeps the drawing in step. *)
LEMMA DrawnStep ==
  MainShape /\ DataShape /\ SessionInv /\ Drawn /\ [Next]_vars => Drawn'
<1> SUFFICES ASSUME MainShape, DataShape, SessionInv, Drawn, [Next]_vars PROVE Drawn'
  OBVIOUS
<1>1. CASE DataStep
  BY <1>1, DrawnData
<1>2. CASE UNCHANGED vars
  BY <1>2 DEF vars, Drawn
<1>3. CASE MainStep \/ WorkerStep \/ DesktopChanges
  <2>1. CASE shared' = shared /\ data'.pc = data.pc
    BY <2>1 DEF Drawn
  <2>2. CASE shared' = NothingShared /\ data'.pc \in {"none", "check"}
    BY <2>2 DEF Drawn, NothingShared, Reading
  <2> QED
    BY <1>3, <2>1, <2>2, OthersLeaveData
<1> QED
  BY <1>1, <1>2, <1>3 DEF Next

(* A player that is sampled is shown where it was read in this update, or  *)
(* where what is kept of it was read in the same epoch (esp.cpp).          *)
LEMMA SamplePlayerOwn ==
  ASSUME DataShape, SampleInv, SamplePlayer
  PROVE  SampleInv'
<1>0. /\ data \in DataType /\ data.g \in GlobalsType /\ data.sample \in SampleType
      /\ Remembered(data.g) /\ InEpoch /\ DataShape
  BY DEF DataShape, DataType, SampleInv
<1>1. data.pc = "players" /\ data.sample.capture
  BY DEF SamplePlayer, Steps
<1>2. PICK e \in data.g.cache, alive \in BOOLEAN, owner \in BOOLEAN, asleep \in BOOLEAN,
           absolute \in Origins, old \in Origins :
     LET now == IF SceneSample(owner, absolute, old) THEN {PositionOf(e, alive)} ELSE {}
         dormant == RadarDormant(owner, asleep)
         retains == data.g.mapState # Nothing /\ e.named
         r == IF retains THEN Retain(data.g.last, e, alive, dormant, now)
              ELSE [last |-> data.g.last, shown |-> now]
         player == [ pawn |-> e.pawn, steam |-> e.steam, alive |-> alive,
                     dormant |-> dormant, position |-> r.shown ]
     IN /\ data' = [data EXCEPT !.pc = "publish", !.sample.players = {player},
                                !.g.last = Forget(r.last)]
        /\ \E enemy \in BOOLEAN :
             /\ enemy => data.config.esp /\ alive
             /\ shared' = PublishEnemies(shared, enemy)
  BY DEF SamplePlayer
<1> DEFINE now == IF SceneSample(owner, absolute, old) THEN {PositionOf(e, alive)} ELSE {}
           dormant == RadarDormant(owner, asleep)
           r == IF data.g.mapState # Nothing /\ e.named
                THEN Retain(data.g.last, e, alive, dormant, now)
                ELSE [last |-> data.g.last, shown |-> now]
           player == [ pawn |-> e.pawn, steam |-> e.steam, alive |-> alive,
                       dormant |-> dormant, position |-> r.shown ]
<1>3. e \in Entries
  BY <1>0 DEF GlobalsType
<1>4. data.g.map = data.g.mapState /\ data.g.local = data.sample.local
  BY <1>0, <1>1 DEF InEpoch, Reading
<1>5. now \in SUBSET Positions
  BY <1>0, <1>1, <1>3, NowTypes
<1>6. ReadNow(now, e, alive, data.g)
  BY <1>4 DEF PositionOf, ReadNow
<1>7. dormant \in BOOLEAN
  BY DEF RadarDormant
<1> HIDE DEF now, dormant
<1>8. OwnOf(r, e, alive, dormant, data.g)
  <2>1. data.g \in GlobalsType /\ Remembered(data.g)
    BY <1>0
  <2>2. OwnOf(Retain(data.g.last, e, alive, dormant, now), e, alive, dormant, data.g)
    BY <1>3, <1>5, <1>6, <1>7, <2>1, RetainOwn
  <2>3. \A x \in data.g.last : \A q \in x.position : ReadFor(x, q, data.g)
    BY <1>0 DEF Remembered
  <2>4. \A q \in now :
           /\ q.map = data.g.map /\ q.local = data.g.local /\ Compatible(e, q)
           /\ alive => q.alive
           /\ alive /\ ~dormant => q.age <= KeepTicks
    BY <1>6, Ages DEF ReadNow, Compatible
  <2>5. OwnOf([last |-> data.g.last, shown |-> now], e, alive, dormant, data.g)
    BY <2>3, <2>4 DEF OwnOf
  <2> QED
    BY <2>2, <2>5
<1> HIDE DEF r
<1>9. data' = [data EXCEPT !.pc = "publish", !.sample.players = {player},
                           !.g.last = Forget(r.last)]
  BY <1>2 DEF now, dormant, r
<1> HIDE DEF player
<1>10. /\ data'.pc = "publish" /\ data'.config = data.config
       /\ data'.sample.players = {player} /\ data'.sample.local = data.sample.local
       /\ data'.sample.capture = data.sample.capture
       /\ data'.g.last = Forget(r.last) /\ data'.g.map = data.g.map
       /\ data'.g.local = data.g.local /\ data'.g.mapState = data.g.mapState
  BY <1>0, <1>9 DEF DataType, GlobalsType, SampleType
<1>11. Remembered(data'.g)
  BY <1>8, <1>10 DEF OwnOf, Remembered, ReadFor, Forget
<1>12. InEpoch'
  BY <1>0, <1>1, <1>10 DEF InEpoch, Reading
<1>13. SampleIsOwn'
  <2>1. /\ player.pawn = e.pawn /\ player.steam = e.steam /\ player.alive = alive
        /\ player.dormant = dormant /\ player.position = r.shown
    BY DEF player
  <2>2. ASSUME NEW q \in player.position
        PROVE  /\ q.map = data'.g.mapState /\ q.local = data'.sample.local
               /\ Compatible(player, q)
               /\ player.alive => q.alive
               /\ player.alive /\ ~player.dormant => q.age <= KeepTicks
    BY <1>4, <1>8, <1>10, <2>1 DEF OwnOf, Compatible
  <2> QED
    BY <1>10, <2>2 DEF SampleIsOwn
<1> QED
  BY <1>11, <1>12, <1>13 DEF SampleInv

(* The data thread keeps the samples apart: a sample in the slot is kept,  *)
(* aged, forgotten or replaced by one of this update.                      *)
LEMMA SampleData ==
  ASSUME DataShape, SampleInv, DataStep
  PROVE  SampleInv'
<1>0. /\ data \in DataType /\ data.g \in GlobalsType /\ data.sample \in SampleType
      /\ Remembered(data.g) /\ InEpoch
  BY DEF DataShape, DataType, SampleInv
<1> USE DEF Steps
<1>1. ASSUME data'.pc \notin Reading, Remembered(data'.g) PROVE SampleInv'
  BY <1>1 DEF SampleInv, InEpoch, SampleIsOwn, Reading
<1>2. CASE DataExits \/ DataBegins
  <2>1. data'.pc \notin Reading /\ data'.g = data.g
    BY <1>0, <1>2 DEF DataExits, DataBegins, DataType, Reading
  <2> QED
    BY <1>0, <1>1, <2>1
<1>3. CASE DataIdles
  <2>1. data'.pc \notin Reading /\ data'.g = CleanGlobals
    BY <1>0, <1>3 DEF DataIdles, DataType, Reading
  <2> QED
    BY <1>1, <2>1, CleanRemembered
<1>4. CASE DataSleeps
  <2>1. data' = [data EXCEPT !.g = AgedGlobals(data.g)] /\ data.pc = "check"
    BY <1>0, <1>4 DEF DataSleeps, AgedGlobals, DataType, GlobalsType
  <2>2. data'.pc \notin Reading /\ data'.g = AgedGlobals(data.g)
    BY <1>0, <2>1 DEF DataType, Reading
  <2> QED
    BY <1>0, <1>1, <2>2, AgedRemembered
<1>5. CASE ReadFails
  <2>1. CASE ClearRuntimeState("check")
    <3>1. data'.pc \notin Reading /\ data'.g = CleanGlobals
      BY <1>0, <2>1 DEF ClearRuntimeState, DataType, Reading
    <3> QED
      BY <1>1, <3>1, CleanRemembered
  <2>2. CASE data' = [data EXCEPT !.pc = "check", !.g.failures = @ + 1]
    <3>1. /\ data'.pc \notin Reading /\ data'.g.last = data.g.last
          /\ data'.g.map = data.g.map /\ data'.g.local = data.g.local
      BY <1>0, <2>2 DEF DataType, GlobalsType, Reading
    <3>2. Remembered(data'.g)
      BY <1>0, <3>1 DEF Remembered, ReadFor
    <3> QED
      BY <1>1, <3>1, <3>2
  <2> QED
    BY <1>5, <2>1, <2>2 DEF ReadFails
<1>6. CASE ReadLocal
  <2>1. PICK local \in LocalPawns, capture \in BOOLEAN, refresh \in BOOLEAN :
          /\ capture => data.config.radar
          /\ data' = [data EXCEPT
               !.pc = IF refresh THEN "cache" ELSE IF capture THEN "map" ELSE "players",
               !.g = [Epoch(@, local) EXCEPT !.failures = 0],
               !.sample = [NoSample EXCEPT !.local = local, !.capture = capture]]
    BY <1>6 DEF ReadLocal
  <2> DEFINE g == Epoch(data.g, local)
  <2>2. /\ data'.pc = IF refresh THEN "cache" ELSE IF capture THEN "map" ELSE "players"
        /\ data'.g = [g EXCEPT !.failures = 0] /\ data'.config = data.config
        /\ data'.sample = [NoSample EXCEPT !.local = local, !.capture = capture]
    BY <1>0, <2>1 DEF DataType
  <2>3. /\ data'.sample.local = local /\ data'.sample.capture = capture
        /\ data'.sample.players = {}
    BY <2>2 DEF NoSample
  <2>4. /\ g \in GlobalsType
        /\ data.config.radar => g.local = local
        /\ g.last = {} \/ g = data.g
    BY <1>0 DEF Epoch, NewEpoch, GlobalsType
  <2> HIDE DEF g
  <2>5. data'.g.last = g.last /\ data'.g.local = g.local /\ data'.g.map = g.map
    BY <2>2, <2>4 DEF GlobalsType
  <2>6. Remembered(data'.g)
    BY <1>0, <2>4, <2>5 DEF Remembered, ReadFor
  <2>7. InEpoch'
    BY <2>1, <2>2, <2>3, <2>4, <2>5 DEF InEpoch
  <2>8. SampleIsOwn'
    BY <2>3 DEF SampleIsOwn
  <2> QED
    BY <2>6, <2>7, <2>8 DEF SampleInv
<1>7. CASE RefreshCache
  <2>0. data.pc = "cache"
    BY <1>7 DEF RefreshCache
  <2>1. PICK k \in {[NewEpoch(data.g, Nothing) EXCEPT !.cache = {}]}
                  \cup {[data.g EXCEPT !.cache = c] : c \in {{}} \cup {{e} : e \in CacheEntries}} :
          data' = [data EXCEPT !.g = k,
                               !.pc = IF data.sample.capture THEN "map" ELSE "players"]
    BY <1>7 DEF RefreshCache
  <2>2. /\ data'.pc = IF data.sample.capture THEN "map" ELSE "players"
        /\ data'.g = k /\ data'.sample = data.sample /\ data'.config = data.config
    BY <1>0, <2>1 DEF DataType
  <2>3. \/ k.last = {} /\ k.cache = {}
        \/ k.last = data.g.last /\ k.local = data.g.local /\ k.map = data.g.map
    <3>1. CASE k = [NewEpoch(data.g, Nothing) EXCEPT !.cache = {}]
      BY <1>0, <3>1 DEF NewEpoch, GlobalsType
    <3>2. CASE \E c \in {{}} \cup {{e} : e \in CacheEntries} : k = [data.g EXCEPT !.cache = c]
      BY <1>0, <3>2 DEF GlobalsType
    <3> QED
      BY <2>1, <3>1, <3>2
  <2>4. Remembered(data'.g)
    BY <1>0, <2>2, <2>3 DEF Remembered, ReadFor
  <2>5. InEpoch'
    BY <1>0, <2>0, <2>2, <2>3 DEF InEpoch, Reading
  <2>6. SampleIsOwn'
    BY <2>2 DEF SampleIsOwn
  <2> QED
    BY <2>4, <2>5, <2>6 DEF SampleInv
<1>8. CASE SampleMap
  <2>0. data.pc = "map"
    BY <1>8 DEF SampleMap
  <2>1. PICK map \in OrNothing(MapIds), seen \in Observers :
          LET g == MapEpoch(data.g, map)
              observed == ObserverAge(g, seen)
          IN data' = [data EXCEPT !.pc = "players",
                                  !.g = [g EXCEPT !.observed = observed],
                                  !.sample.observed = map # Nothing /\ observed # {}]
    BY <1>8 DEF SampleMap
  <2> DEFINE h == MapEpoch(data.g, map)
  <2>2. /\ data'.pc = "players" /\ data'.g = [h EXCEPT !.observed = ObserverAge(h, seen)]
        /\ data'.sample.local = data.sample.local /\ data'.sample.capture = data.sample.capture
        /\ data'.sample.players = data.sample.players /\ data'.config = data.config
    BY <1>0, <2>1 DEF DataType, SampleType
  <2>3. /\ h = [failures |-> h.failures, cache |-> h.cache, local |-> h.local, map |-> h.map,
                mapState |-> h.mapState, last |-> h.last, observed |-> h.observed,
                c4 |-> h.c4, dropped |-> h.dropped]
        /\ h.local = data.g.local /\ h.cache = data.g.cache /\ h.map = h.mapState
        /\ \/ h.last = {}
           \/ h.last = data.g.last /\ h.map = data.g.map
    BY <1>0 DEF MapEpoch, GlobalsType
  <2> HIDE DEF h
  <2>4. /\ data'.g.local = h.local /\ data'.g.cache = h.cache /\ data'.g.map = h.map
        /\ data'.g.mapState = h.mapState /\ data'.g.last = h.last
    BY <2>2, <2>3
  <2>5. Remembered(data'.g)
    BY <1>0, <2>3, <2>4 DEF Remembered, ReadFor
  <2>6. InEpoch'
    BY <1>0, <2>0, <2>2, <2>3, <2>4 DEF InEpoch, Reading
  <2>7. SampleIsOwn'
    BY <2>2 DEF SampleIsOwn
  <2> QED
    BY <2>5, <2>6, <2>7 DEF SampleInv
<1>9. CASE PassOver \/ SampleEnemy
  <2>1. /\ data.pc = "players" /\ data'.pc = "publish" /\ data'.sample = data.sample
        /\ data'.config = data.config /\ data'.g.map = data.g.map
        /\ data'.g.local = data.g.local /\ data'.g.last \subseteq data.g.last
    <3>1. CASE PassOver
      <4> DEFINE k == [data.g EXCEPT !.last = IF data.sample.capture THEN Forget(@) ELSE @]
      <4>1. data' = [data EXCEPT !.pc = "publish", !.g = k]
        BY <1>0, <3>1 DEF PassOver, DataType
      <4>2. k.last \subseteq data.g.last /\ k.map = data.g.map /\ k.local = data.g.local
        BY <1>0 DEF Forget, GlobalsType
      <4> HIDE DEF k
      <4>3. /\ data'.pc = "publish" /\ data'.g = k /\ data'.sample = data.sample
            /\ data'.config = data.config
        BY <1>0, <4>1 DEF DataType
      <4> QED
        BY <3>1, <4>2, <4>3 DEF PassOver
    <3>2. CASE SampleEnemy
      BY <1>0, <3>2 DEF SampleEnemy, DataType
    <3> QED
      BY <1>9, <3>1, <3>2
  <2>2. Remembered(data'.g)
    BY <1>0, <2>1 DEF Remembered, ReadFor
  <2>3. InEpoch'
    BY <1>0, <2>1 DEF InEpoch, Reading
  <2>4. SampleIsOwn'
    BY <1>0, <2>1 DEF InEpoch, SampleIsOwn
  <2> QED
    BY <2>2, <2>3, <2>4 DEF SampleInv
<1>11. CASE Publish
  <2>1. PICK discover \in BOOLEAN, position \in BOOLEAN, listed \in BOOLEAN,
             found \in BOOLEAN, resolves \in BOOLEAN :
       LET g == IF data.config.radar
                THEN PositionBomb(DiscoverBomb(data.g, discover, listed, found),
                                  position, listed, resolves)
                ELSE NoWorldEntities(data.g)
       IN data' = [data EXCEPT !.pc = "check", !.sample = NoSample, !.g = g]
    BY <1>11 DEF Publish
  <2> DEFINE d == DiscoverBomb(data.g, discover, listed, found)
             g == IF data.config.radar THEN PositionBomb(d, position, listed, resolves)
                  ELSE NoWorldEntities(data.g)
  <2>2. d.last = data.g.last /\ d.map = data.g.map /\ d.local = data.g.local
        /\ d = [failures |-> d.failures, cache |-> d.cache, local |-> d.local, map |-> d.map,
                mapState |-> d.mapState, last |-> d.last, observed |-> d.observed,
                c4 |-> d.c4, dropped |-> d.dropped]
    BY <1>0 DEF DiscoverBomb, GlobalsType
  <2>3. data' = [data EXCEPT !.pc = "check", !.sample = NoSample, !.g = g]
    BY <2>1
  <2> HIDE DEF d
  <2>4. g.last = data.g.last /\ g.map = data.g.map /\ g.local = data.g.local
    BY <1>0, <2>2 DEF PositionBomb, NoWorldEntities, GlobalsType
  <2> HIDE DEF g
  <2>5. data'.pc \notin Reading /\ data'.g = g
    BY <1>0, <2>3 DEF DataType, Reading
  <2>6. Remembered(data'.g)
    BY <1>0, <2>4, <2>5 DEF Remembered, ReadFor
  <2> QED
    BY <1>1, <2>5, <2>6
<1>12. CASE SamplePlayer
  BY <1>0, <1>12, SamplePlayerOwn
<1> QED
  BY <1>2, <1>3, <1>4, <1>5, <1>6, <1>7, <1>8, <1>9, <1>11, <1>12 DEF DataStep, DataWorks

(* Every step keeps the samples apart. *)
LEMMA SampleStep ==
  MainShape /\ DataShape /\ SessionInv /\ SampleInv /\ [Next]_vars => SampleInv'
<1> SUFFICES ASSUME MainShape, DataShape, SessionInv, SampleInv, [Next]_vars PROVE SampleInv'
  OBVIOUS
<1>1. CASE DataStep
  BY <1>1, SampleData
<1>2. CASE UNCHANGED vars
  BY <1>2 DEF vars, SampleInv, InEpoch, SampleIsOwn
<1>3. CASE MainStep \/ WorkerStep \/ DesktopChanges
  <2>1. CASE /\ data'.pc = data.pc /\ data'.g = data.g
             /\ data'.sample = data.sample /\ data'.config = data.config
    BY <2>1 DEF SampleInv, InEpoch, SampleIsOwn
  <2>2. CASE data'.pc \in {"none", "check"} /\ data'.g = CleanGlobals
    BY <2>2, CleanRemembered DEF SampleInv, InEpoch, SampleIsOwn, Reading
  <2> QED
    BY <1>3, <2>1, <2>2, OthersLeaveData
<1> QED
  BY <1>1, <1>2, <1>3 DEF Next

-----------------------------------------------------------------------------
(* The invariant that the theorems follow from. *)
OverlayInv == MainShape /\ DataShape /\ SessionInv /\ Drawn /\ SampleInv

(* It holds in every state of the overlay, whatever the threads, the game  *)
(* and its window do (main.cpp, sdl_renderer.cpp, esp.cpp).                *)
THEOREM OverlayInvariant == Spec => []OverlayInv
<1>1. Init => OverlayInv
  <2> SUFFICES ASSUME Init PROVE OverlayInv
    OBVIOUS
  <2>1. MainShape /\ DataShape /\ SessionInv
    BY MainShapeInit, DataShapeInit, SessionInit
  <2>2. data = NoData /\ shared = NothingShared
    BY DEF Init, InitShared
  <2>3. data.pc = "none" /\ data.g = CleanGlobals
    BY <2>2 DEF NoData
  <2>4. Drawn
    BY <2>2, <2>3 DEF Drawn, NothingShared, Reading
  <2>5. SampleInv
    BY <2>3, CleanRemembered DEF SampleInv, InEpoch, SampleIsOwn, Reading
  <2> QED
    BY <2>1, <2>4, <2>5 DEF OverlayInv
<1>2. OverlayInv /\ [Next]_vars => OverlayInv'
  BY ShapeStep, SessionStep, DrawnStep, SampleStep DEF OverlayInv
<1> QED
  BY <1>1, <1>2, PTL DEF Spec

(* The globals of the three threads, their queues and program counters     *)
(* keep their types (sdl_renderer.cpp, esp.cpp).                           *)
THEOREM OverlayTypes == Spec => []OverlayTypeOK
<1>1. OverlayInv => OverlayTypeOK
  <2> SUFFICES ASSUME MainShape, DataShape PROVE OverlayTypeOK
    BY DEF OverlayInv
  <2>1. /\ app.pc \in InLoop \cup {"start", "waiting", "attach", "imgui", "joinData",
                                   "destroy", "joinWorker", "ended"}
        /\ app.running \in BOOLEAN /\ app.after \in {"start", "attach"}
        /\ app.faults \in 0..MaxFaults
    BY DEF MainShape, AppType, AppLabels, InLoop
  <2>2. /\ win.hwnd \in 0..MaxStarts /\ win.samples \in 0..2
        /\ {win.viewport, win.pending} \subseteq Viewports /\ win.rect \in Clients
        /\ menu.config \in Configs /\ menu.mode \in Modes /\ mem \in BOOLEAN
    BY DEF MainShape, WinType, MenuType
  <2>3. /\ worker.pc \in {"none", "wait", "detect", "exited"}
        /\ AtMostOne(worker.request) /\ AtMostOne(worker.result) /\ AtMostOne(worker.job)
    BY DEF MainShape, WorkerType, OneEach
  <2>4. /\ data.pc \in Updating \cup {"none", "check", "exited"}
        /\ data.g \in GlobalsType /\ Ones(data.g)
        /\ shared.lag \in 0..2 /\ shared.snapshot \in {"disconnected", "live"}
    BY DEF DataShape, DataType, DataLabels, Updating, SharedType
  <2>5. /\ data.g.failures \in 0..2
        /\ data.g.cache \subseteq [pawn : Pawns, steam : OrNothing(Steam), named : BOOLEAN]
        /\ AtMostOne(data.g.cache) /\ AtMostOne(data.g.last) /\ AtMostOne(data.g.observed)
        /\ \A e \in data.g.last : e.position \subseteq Positions /\ AtMostOne(e.position)
    BY <2>4 DEF GlobalsType, Ones, Entries, Lasts, Steams, OrNothing
  <2> QED
    BY <2>1, <2>2, <2>3, <2>4, <2>5 DEF OverlayTypeOK
<1> QED
  BY <1>1, OverlayInvariant, PTL

(* Nothing of a session is left when the waiting screen or another session *)
(* begins, and the game is read through an open handle only (main.cpp:286- *)
(* 369, sdl_renderer.cpp:537-552, 1275-1308).                              *)
THEOREM SessionsEnclosed == Spec => []SessionEnclosed
<1>1. OverlayInv => SessionEnclosed
  <2> SUFFICES ASSUME WorkerInv, DataInv, Handle PROVE SessionEnclosed
    BY DEF OverlayInv, SessionInv
  <2>1. data.pc \notin {"none", "exited"} => app.pc \in InLoop \cup {"joinData"}
    BY DEF DataInv
  <2>2. worker.pc # "none" =>
          app.pc \in InLoop \cup {"imgui", "joinData", "destroy", "joinWorker"}
    BY DEF WorkerInv, Ending
  <2>3. app.pc \in {"start", "waiting", "attach", "ended"} =>
          worker = NoWorker /\ data = NoData /\ shared = NothingShared
    BY DEF WorkerInv, DataInv, BetweenSessions, Clean
  <2>4. data.pc \in Updating => mem
    BY <2>1 DEF Handle, Updating
  <2> QED
    BY <2>1, <2>2, <2>3, <2>4 DEF SessionEnclosed, Handle
<1> QED
  BY <1>1, OverlayInvariant, PTL

(* What is drawn together was sampled together, or one update apart        *)
(* (esp.cpp:1091-1105, 1555-1560, 1650-1672).                              *)
THEOREM DrawnSamplesTogether == Spec => []DrawnTogether
<1>1. OverlayInv => DrawnTogether
  BY DEF OverlayInv, Drawn, DrawnTogether
<1> QED
  BY <1>1, OverlayInvariant, PTL

(* A radar position is of the snapshot's map and local pawn and of the     *)
(* player it is shown for, and no corpse's for the living (esp.cpp:1112-   *)
(* 1130, 1170-1188, 1372-1400, radar_player_sample.hpp).                   *)
THEOREM SamplesAreOwn == Spec => []SampleIsOwn
<1>1. OverlayInv => SampleIsOwn
  BY DEF OverlayInv, SampleInv
<1> QED
  BY <1>1, OverlayInvariant, PTL
=============================================================================
