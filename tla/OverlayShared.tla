--------------------------- MODULE OverlayShared ---------------------------
(***************************************************************************)
(* State of the overlay process: the main thread (main.cpp) with its       *)
(* window and renderer (sdl_renderer.cpp), the worker that looks for black *)
(* bars, and the data thread that reads the game (esp.cpp).  The actions   *)
(* are in OverlayWindow and OverlayData; Overlay composes them.            *)
(*                                                                         *)
(* The desktop is the environment: the game starts and closes, its window  *)
(* moves, what it shows changes, and the user changes the focus.  menu's   *)
(* mode is read from the settings before the window exists and nothing     *)
(* assigns it later.  An operating system call fails at most MaxFaults     *)
(* times.                                                                  *)
(***************************************************************************)
EXTENDS OverlayViewport

CONSTANTS
  Rects,        \* client rectangles the game's window may take
  Contents,     \* black borders of what the game shows, see OverlayViewport
  Monitors,     \* rectangles of the monitors
  Modes,        \* viewport modes of the settings file
  Configs,      \* settings the two switches of the menu can produce
  Pawns,        \* pawns of the sampled player slot, one address and handle each
  LocalPawns,   \* addresses of the local player's pawn
  Steam,        \* Steam ids
  MapIds,       \* names of maps
  Nothing,      \* a null pointer, an empty name, an id not known
  KeepTicks,    \* kLastKnownMaximumAgeMs (150 ms) in ticks
  MaxStarts,    \* bound: times the game starts
  MaxMoves,     \* bound: moves of the window and changes of what it shows
  MaxFaults     \* bound: failing calls

ASSUME OverlayAssumption ==
  /\ MaxStarts \in Nat /\ MaxMoves \in Nat /\ MaxFaults \in Nat
  /\ KeepTicks \in Nat \ {0}
  /\ Nothing \notin Pawns \cup LocalPawns \cup Steam \cup MapIds
  /\ Modes \subseteq 0..3
  /\ Rects \cup Monitors \subseteq Clients /\ Rects # {}
  /\ Contents \subseteq Borders /\ Contents # {}
  /\ Configs \subseteq [esp : BOOLEAN, radar : BOOLEAN] /\ Configs # {}

VARIABLES
  app,      \* main thread: program counter, running, faults so far
  screen,   \* the desktop
  win,      \* globals of the renderer that only the main thread uses, atomics
  menu,     \* menu shown, viewport mode, published RuntimeConfig
  worker,   \* thread of the viewport detection and what its mutex guards
  data,     \* data thread: program counter and globals only it uses
  shared,   \* what dataMutex guards, for the main thread to draw
  mem       \* TRUE: memory::gHandle is open

vars == <<app, screen, win, menu, worker, data, shared, mem>>

NoRect == [x |-> 0, y |-> 0, w |-> 0, h |-> 0]

-----------------------------------------------------------------------------
(* Globals as destroy leaves them; the generation survives it, one higher. *)
ClosedWindow(generation, disconnected) ==
  [ hwnd |-> 0, renderer |-> FALSE, imgui |-> FALSE, rect |-> NoRect,
    viewport |-> NoViewport, pending |-> NoViewport, samples |-> 0,
    generation |-> generation, visible |-> TRUE, foreground |-> FALSE,
    disconnected |-> disconnected ]

(* A worker that was never started or that has been joined. *)
NoWorker == [pc |-> "none", stopping |-> FALSE, request |-> {}, result |-> {}, job |-> {}]

(* Globals of the data thread after clearRuntimeState: failed updates in a *)
(* row, the cached pawn of the slot, epoch and last known sample of the    *)
(* slot, the observer's target by its age.  Ages count ticks.  sample is   *)
(* local to one update.                                                    *)
CleanGlobals ==
  [ failures |-> 0, cache |-> {}, local |-> Nothing, map |-> Nothing,
    mapState |-> Nothing, last |-> {}, observed |-> {}, c4 |-> FALSE, dropped |-> FALSE ]
NoSample == [local |-> Nothing, capture |-> FALSE, observed |-> FALSE, players |-> {}]
NoData ==
  [ pc |-> "none", running |-> FALSE, cleared |-> FALSE,
    config |-> CHOOSE c \in Configs : TRUE, g |-> CleanGlobals, sample |-> NoSample ]

(* The shared record of clearRuntimeState: a snapshot that says no game is *)
(* connected and nothing to draw.  lag counts the samples by which the     *)
(* view is ahead of the enemies drawn with it.                             *)
NothingShared ==
  [view |-> FALSE, lag |-> 0, enemies |-> FALSE, bomb |-> FALSE, snapshot |-> "disconnected"]

(* The menu as loadPersistentSettings leaves it. *)
LoadedMenu(mode, config) == [visible |-> TRUE, mode |-> mode, config |-> config]

InitShared ==
  /\ app = [pc |-> "start", running |-> TRUE, after |-> "start", faults |-> 0]
  /\ screen = [ game |-> FALSE, starts |-> 0, focus |-> "away", moves |-> 0,
                rect |-> CHOOSE r \in Rects : TRUE,
                content |-> CHOOSE c \in Contents : TRUE ]
  /\ win = ClosedWindow(0, FALSE)
  /\ \E m \in Modes, c \in Configs : menu = LoadedMenu(m, c)
  /\ worker = NoWorker
  /\ data = NoData
  /\ shared = NothingShared
  /\ mem = FALSE

CanFail == app.faults < MaxFaults
GameOpen == screen.game /\ screen.starts = win.hwnd

-----------------------------------------------------------------------------
(* The desktop changes; what the threads own is unchanged. *)
GameStarts ==
  /\ ~screen.game /\ screen.starts < MaxStarts
  /\ \E r \in Rects, c \in Contents :
       screen' = [screen EXCEPT !.game = TRUE, !.starts = @ + 1, !.rect = r, !.content = c]
GameCloses ==
  /\ screen.game
  /\ screen' = [screen EXCEPT !.game = FALSE,
                              !.focus = IF @ = "game" THEN "away" ELSE @]
FocusMoves ==
  \E f \in {"game", "overlay", "away"} \ {screen.focus} :
    /\ f = "game" => screen.game
    /\ f = "overlay" => menu.visible /\ win.renderer
    /\ screen' = [screen EXCEPT !.focus = f]
WindowMoves ==
  /\ screen.game /\ screen.moves < MaxMoves
  /\ \E r \in Rects \ {screen.rect} :
       screen' = [screen EXCEPT !.rect = r, !.moves = @ + 1]
ContentChanges ==
  /\ screen.game /\ screen.moves < MaxMoves
  /\ \E c \in Contents \ {screen.content} :
       screen' = [screen EXCEPT !.content = c, !.moves = @ + 1]
=============================================================================
