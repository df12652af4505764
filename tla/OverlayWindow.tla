--------------------------- MODULE OverlayWindow ---------------------------
(***************************************************************************)
(* Main thread of the overlay and its viewport worker: the waiting screen, *)
(* attaching to the game, the render loop that follows the game's window,  *)
(* and the way back (main.cpp, sdl_renderer.cpp).                          *)
(*                                                                         *)
(* One action is one call of the loop: pollEvents, updateWindowPosition up *)
(* to its last queueing, its consumption of the worker's result, and the   *)
(* frame.  The worker's mutex is taken once in each.  Two intervals are    *)
(* nondeterministic: 50 ms between looks at the geometry, 2 s between      *)
(* probes of the viewport.                                                 *)
(***************************************************************************)
EXTENDS OverlayShared

At(pc) == app.pc = pc
Goto(pc) == app' = [app EXCEPT !.pc = pc]
Quit(pc) == app' = [app EXCEPT !.pc = pc, !.running = FALSE]
Fail(pc) == CanFail /\ app' = [app EXCEPT !.pc = pc, !.faults = @ + 1]
FailAndQuit(pc) ==
  CanFail /\ app' = [app EXCEPT !.pc = pc, !.faults = @ + 1, !.running = FALSE]

(* What a capture of a rectangle of the screen is judged to show.  Where   *)
(* the game is not in front, or the menu covers it, that can be anything.  *)
Captured(rect) ==
  LET clear == /\ screen.game /\ screen.rect = rect
               /\ screen.focus # "away" /\ ~menu.visible
  IN { Detect(rect, c) : c \in IF clear THEN {screen.content} ELSE Contents }

-----------------------------------------------------------------------------
(* The viewport worker. *)
StartedWorker == [NoWorker EXCEPT !.pc = "wait"]

(* Mutant: a new request joins one the worker has not taken. *)
QueuedBehind(rect, generation) ==
  IF worker.stopping THEN worker
  ELSE [worker EXCEPT !.request = @ \cup {[rect |-> rect, generation |-> generation]}]

Queued(rect, generation) ==
  IF worker.stopping THEN worker
  ELSE [worker EXCEPT !.request = {[rect |-> rect, generation |-> generation]}]

WorkerTakes ==
  /\ worker.pc = "wait" /\ ~worker.stopping /\ worker.request # {}
  /\ worker' = [worker EXCEPT !.pc = "detect", !.job = worker.request, !.request = {}]
  /\ UNCHANGED <<app, screen, win, menu, data, shared, mem>>

(* A capture that fails counts as a client without bars. *)
WorkerStores ==
  /\ worker.pc = "detect"
  /\ \E j \in worker.job :
       \E v \in Captured(j.rect) \cup {Full(j.rect.w, j.rect.h)} :
         /\ IF v \in Captured(j.rect) THEN app' = app ELSE Fail(app.pc)
         /\ worker' = [worker EXCEPT
              !.pc = "wait", !.job = {},
              !.result = IF worker.stopping THEN @
                         ELSE {[rect |-> j.rect, viewport |-> v,
                                generation |-> j.generation]}]
  /\ UNCHANGED <<screen, win, menu, data, shared, mem>>

WorkerExits ==
  /\ worker.pc = "wait" /\ worker.stopping
  /\ worker' = [worker EXCEPT !.pc = "exited"]
  /\ UNCHANGED <<app, screen, win, menu, data, shared, mem>>

WorkerStep == WorkerTakes \/ WorkerStores \/ WorkerExits

-----------------------------------------------------------------------------
(* SDL and ImGui.  Recovering the renderer takes ImGui's backends down and  *)
(* starts them again; when that fails both are gone.                       *)
WithRenderer(w) == [w EXCEPT !.renderer = TRUE]
WithImGui(w) == [w EXCEPT !.imgui = TRUE]
WithoutImGui(w) == [w EXCEPT !.imgui = FALSE]
RecoveryFailed(w) == [w EXCEPT !.renderer = FALSE, !.imgui = FALSE]

-----------------------------------------------------------------------------
(* The waiting screen: initWaiting and initImGui, then a look for the game *)
(* every three seconds between frames. *)
StartWaiting ==
  /\ At("start")
  /\ menu' = [menu EXCEPT !.visible = TRUE]
  /\ \/ /\ Goto("waiting")
        /\ \E m \in Monitors :
             win' = WithImGui(WithRenderer([win EXCEPT !.viewport = Full(m.w, m.h)]))
        /\ UNCHANGED mem
     \/ Fail("ended") /\ mem' = FALSE /\ UNCHANGED win
  /\ UNCHANGED <<screen, worker, data, shared>>

(* esp::init opens the process before it looks for client.dll. *)
OpenProcess == mem' = screen.game
ModuleFound == screen.game /\ app' = [app EXCEPT !.pc = "destroy", !.after = "attach"]
LookForGame ==
  /\ At("waiting")
  /\ OpenProcess
  /\ UNCHANGED app \/ ModuleFound
  /\ UNCHANGED <<screen, win, menu, worker, data, shared>>

(* menu::render: the switches change what is published, when shown. *)
RenderMenu ==
  \E c \in Configs : /\ c # menu.config => menu.visible
                     /\ menu' = [menu EXCEPT !.config = c]

WaitingFrame ==
  /\ At("waiting")
  /\ \/ UNCHANGED app /\ RenderMenu
     \/ (Quit("destroy") \/ FailAndQuit("destroy")) /\ UNCHANGED menu
  /\ UNCHANGED <<screen, win, worker, data, shared, mem>>

-----------------------------------------------------------------------------
(* sdl_renderer::init finds the game's window, judges its viewport, starts *)
(* the worker; the rest of init is a first updateWindowPosition.  When it  *)
(* fails, main cleans up and goes back to waiting. *)
AttachedWindow(v) ==
  WithRenderer([win EXCEPT !.hwnd = screen.starts, !.rect = screen.rect,
                           !.viewport = v, !.pending = v, !.samples = 1,
                           !.generation = @ + 1, !.disconnected = FALSE])
FirstViewport ==
  LET r == screen.rect
  IN IF menu.mode = 0 THEN Captured(r) ELSE {ForMode(menu.mode, r.w, r.h)}

Attach ==
  /\ At("attach")
  /\ \/ /\ screen.game /\ Goto("position")
        /\ \E v \in FirstViewport : win' = AttachedWindow(v)
        /\ worker' = StartedWorker
        /\ UNCHANGED <<shared, mem>>
     \/ /\ IF screen.game THEN Fail("start") ELSE Goto("start")
        /\ win' = ClosedWindow(win.generation + 1, win.disconnected)
        /\ shared' = NothingShared /\ mem' = FALSE
        /\ UNCHANGED worker
  /\ UNCHANGED <<screen, menu, data>>

StartImGui ==
  /\ At("imgui")
  /\ \/ /\ Goto("poll")
        /\ win' = WithImGui(win)
        /\ data' = [data EXCEPT !.running = TRUE, !.pc = "check"]
     \/ /\ CanFail
        /\ app' = [app EXCEPT !.pc = "destroy", !.after = "start", !.faults = @ + 1]
        /\ UNCHANGED <<win, data>>
  /\ UNCHANGED <<screen, menu, worker, shared, mem>>

-----------------------------------------------------------------------------
(* pollEvents.  Keys count while the game or the overlay has the focus.  A *)
(* device reset that cannot be recovered takes ImGui down with it.         *)
UiForeground == screen.focus # "away"
PollNothing == Goto("position") /\ UNCHANGED <<screen, win, menu>>
PollQuit == Quit("position") /\ UNCHANGED <<screen, win, menu>>
GivesFocusBack ==
  /\ menu.visible /\ screen.focus = "overlay" /\ GameOpen
  /\ screen' = [screen EXCEPT !.focus = "game"]
PollMenu ==
  /\ UiForeground
  /\ \/ /\ Goto("position")
        /\ menu' = [menu EXCEPT !.visible = ~@]
        /\ UNCHANGED screen \/ GivesFocusBack
     \/ Fail("position") /\ UNCHANGED <<screen, menu>>
  /\ UNCHANGED win
PollReset ==
  /\ UNCHANGED <<screen, menu>>
  /\ \/ FailAndQuit("position") /\ win' = RecoveryFailed(win)
     \/ Goto("position") /\ win' = WithRenderer(win)

Poll ==
  /\ At("poll") /\ app.running /\ ~win.disconnected
  /\ PollNothing \/ PollQuit \/ PollMenu \/ PollReset
  /\ UNCHANGED <<worker, data, shared, mem>>

-----------------------------------------------------------------------------
(* updateWindowPosition. *)
Positioned == Goto(IF data.running THEN "frame" ELSE "imgui")

(* A window that is gone is noticed before the interval is looked at. *)
(* Mutant: without the flag that ends the session. *)
PositionGoneQuietly ==
  /\ At("position") /\ ~GameOpen
  /\ win' = [win EXCEPT !.foreground = FALSE]
  /\ Positioned
  /\ UNCHANGED <<screen, menu, worker, data, shared, mem>>

PositionGone ==
  /\ At("position") /\ ~GameOpen
  /\ win' = [win EXCEPT !.disconnected = TRUE, !.foreground = FALSE]
  /\ Positioned
  /\ UNCHANGED <<screen, menu, worker, data, shared, mem>>

PositionTooSoon ==
  /\ At("position") /\ GameOpen
  /\ Positioned
  /\ UNCHANGED <<screen, win, menu, worker, data, shared, mem>>

Focused == [win EXCEPT !.foreground = screen.focus = "game"]
Placeable == UiForeground /\ Fits(screen.rect, Monitors)
Moved == screen.rect # win.rect

(* Minimised, behind another application, or across two monitors. *)
PositionHidden ==
  /\ At("position") /\ GameOpen /\ ~Placeable
  /\ win' = [Focused EXCEPT !.visible = FALSE]
  /\ Positioned
  /\ UNCHANGED <<screen, menu, worker, data, shared, mem>>

(* SetWindowPos fails: the overlay hides, or stays where it is and is not  *)
(* raised; both try again.  The rest of the function does not run.         *)
PositionFails ==
  /\ At("position") /\ GameOpen /\ Placeable
  /\ win' = [Focused EXCEPT !.visible = ~Moved]
  /\ Fail(IF data.running THEN "frame" ELSE "imgui")
  /\ UNCHANGED <<screen, menu, worker, data, shared, mem>>

(* updateRenderDimensions replaces a viewport that has no area. *)
RenderDimensions(v) ==
  IF v.w <= 0 \/ v.h <= 0 THEN ForMode(menu.mode, screen.rect.w, screen.rect.h) ELSE v

(* The client moved or changed size: the viewport is scaled with it and,   *)
(* in mode 0, detection starts anew (resetAutoViewportDetection).          *)
MovedViewport ==
  LET new == screen.rect
      old == win.rect
  IN RenderDimensions(IF menu.mode = 0
                      THEN Remap(win.viewport, old.w, old.h, new.w, new.h)
                      ELSE ForMode(menu.mode, new.w, new.h))

ResetDetection(w) ==
  [w EXCEPT !.generation = @ + 1, !.pending = w.viewport, !.samples = 1]

PositionMoves ==
  /\ At("position") /\ GameOpen /\ Placeable /\ Moved
  /\ LET w == [Focused EXCEPT !.visible = TRUE, !.rect = screen.rect,
                              !.viewport = MovedViewport]
     IN IF menu.mode = 0
        THEN /\ win' = ResetDetection(w)
             /\ worker' = Queued(screen.rect, win'.generation)
        ELSE /\ win' = [w EXCEPT !.pending = NoViewport, !.samples = 0]
             /\ UNCHANGED worker
  /\ Goto("consume")
  /\ UNCHANGED <<screen, menu, data, shared, mem>>

PositionStays ==
  /\ At("position") /\ GameOpen /\ Placeable /\ ~Moved
  /\ win' = [Focused EXCEPT !.visible = TRUE, !.viewport = RenderDimensions(@)]
  /\ Goto("consume")
  /\ UNCHANGED <<screen, menu, worker, data, shared, mem>>

(* Two seconds have passed since the last queueing. *)
PositionProbes ==
  /\ At("position") /\ GameOpen /\ Placeable /\ ~Moved
  /\ menu.mode = 0 /\ ~menu.visible
  /\ win' = [Focused EXCEPT !.visible = TRUE, !.viewport = RenderDimensions(@)]
  /\ worker' = Queued(screen.rect, win.generation)
  /\ Goto("consume")
  /\ UNCHANGED <<screen, menu, data, shared, mem>>

(* A viewport must be found twice in a row before it is used.  The first   *)
(* time, the second look is asked for at once.                             *)
(* Mutant: a different viewport restarts the count and is not remembered. *)
JudgedForgetful(r) ==
  LET again == r.viewport = win.pending
      samples == IF again THEN Smaller(2, win.samples + 1) ELSE 1
  IN [win EXCEPT !.samples = samples,
                 !.viewport = IF samples >= 2 THEN r.viewport ELSE @]

Judged(r) ==
  LET again == r.viewport = win.pending
      samples == IF again THEN Smaller(2, win.samples + 1) ELSE 1
  IN [win EXCEPT !.pending = r.viewport, !.samples = samples,
                 !.viewport = IF samples >= 2 THEN r.viewport ELSE @]

Current(r) == r.generation = win.generation /\ r.rect = win.rect

Consume ==
  /\ At("consume")
  /\ \/ /\ worker.result = {} \/ menu.mode # 0
        /\ UNCHANGED <<win, worker>>
     \/ /\ menu.mode = 0
        /\ \E r \in worker.result :
             LET w == [worker EXCEPT !.result = {}]
                 next == {[rect |-> win.rect, generation |-> win.generation]}
             IN IF Current(r)
                THEN /\ win' = Judged(r)
                     /\ worker' = IF r.viewport = win.pending \/ worker.stopping THEN w
                                  ELSE [w EXCEPT !.request = next]
                ELSE worker' = w /\ UNCHANGED win
  /\ Positioned
  /\ UNCHANGED <<screen, menu, data, shared, mem>>

-----------------------------------------------------------------------------
(* The rest of an iteration: nothing while hidden, or a frame.  A renderer *)
(* that was lost is created again, or the program ends.                    *)
Frame ==
  /\ At("frame")
  /\ IF ~win.visible
     THEN Goto("poll") /\ UNCHANGED <<win, menu>>
     ELSE \/ /\ Goto("poll") /\ RenderMenu
             /\ win' = WithRenderer(win)
          \/ /\ FailAndQuit("poll") /\ UNCHANGED menu
             /\ win' = RecoveryFailed(win)
  /\ UNCHANGED <<screen, worker, data, shared, mem>>

-----------------------------------------------------------------------------
(* The session ends: the data thread is told and joined, then destroy      *)
(* stops and joins the worker before it resets the window's globals; main  *)
(* clears what the data thread left and closes the process handle.         *)
LeaveSession ==
  /\ At("poll") /\ (~app.running \/ win.disconnected)
  /\ data' = [data EXCEPT !.running = FALSE]
  /\ Goto("joinData")
  /\ UNCHANGED <<screen, win, menu, worker, shared, mem>>

JoinData ==
  /\ At("joinData") /\ data.pc = "exited"
  /\ app' = [app EXCEPT !.pc = "destroy", !.after = "start"]
  /\ UNCHANGED <<screen, win, menu, worker, data, shared, mem>>

StopWorker ==
  /\ At("destroy")
  /\ worker' = [worker EXCEPT !.stopping = TRUE, !.request = {}]
  /\ win' = WithoutImGui(win)
  /\ Goto("joinWorker")
  /\ UNCHANGED <<screen, menu, data, shared, mem>>

(* Mutant: the result of the worker that ended stays. *)
JoinedWorkerKeepsResult == [worker EXCEPT !.pc = "none", !.stopping = FALSE]

JoinedWorker == [worker EXCEPT !.pc = "none", !.result = {}, !.stopping = FALSE]

JoinWorker ==
  /\ At("joinWorker") /\ worker.pc \in {"none", "exited"}
  /\ worker' = JoinedWorker
  /\ win' = ClosedWindow(win.generation + 1, win.disconnected)
  /\ Goto(IF ~app.running THEN "ended" ELSE app.after)
  /\ IF app.after = "attach" /\ app.running
     THEN UNCHANGED <<data, shared, mem>>
     ELSE data' = NoData /\ shared' = NothingShared /\ mem' = FALSE
  /\ UNCHANGED <<screen, menu>>

MainStep ==
  \/ StartWaiting \/ LookForGame \/ WaitingFrame \/ Attach \/ StartImGui
  \/ Poll \/ PositionGone \/ PositionTooSoon \/ PositionHidden \/ PositionFails
  \/ PositionMoves \/ PositionStays \/ PositionProbes \/ Consume \/ Frame
  \/ LeaveSession \/ JoinData \/ StopWorker \/ JoinWorker
PositionLooks ==
  PositionHidden \/ PositionMoves \/ PositionStays \/ PositionProbes
=============================================================================
