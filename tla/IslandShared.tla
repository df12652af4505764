---------------------------- MODULE IslandShared ----------------------------
(***************************************************************************)
(* What the research library, the game thread it hooks and the external    *)
(* controllers share: the mapping of shared_state.hpp, the globals of the  *)
(* library and the game memory it modifies.  The actions are in            *)
(* IslandTick (game thread), IslandWorker (thread of the library) and      *)
(* IslandTool (controller processes).                                      *)
(*                                                                         *)
(* Data.  A position is one of Places and its coordinates are two halves,  *)
(* x and y, written and read one at a time: halves that differ are a mix.  *)
(* Movement fields are "own" (the game's) or "fly"; CanJump's code bytes   *)
(* are "original" or "enabled".  A call of the operating system that may   *)
(* fail does so at most MaxFaults times.                                   *)
(***************************************************************************)
EXTENDS Integers, FiniteSets

CONSTANTS
  Controllers,   \* instances of the external tool
  Commands,      \* the commands their users type
  Places,        \* positions of the local player
  Players,       \* addresses of Player objects
  NoPlayer,      \* the null pointer
  LongMax,       \* largest value of a LONG (odd, as 2^31 - 1)
  SeqBound,      \* bound: no tick begins at this position_sequence or later
  MaxFaults,     \* bound: failing calls of the operating system
  MaxLoads,      \* bound: times LoadLibraryW runs for the library
  MaxCalls,      \* bound: internal sprint calls asked for
  EndKey,        \* TRUE: the user may press END in the game
  Pauses,        \* TRUE: the game may pause for more than two seconds
  OtherPlayers,  \* TRUE: Player::Tick also runs for objects of other players
  Coordinate     \* a place stored in the mapping before the first publication

ASSUME IslandAssumption ==
  /\ Coordinate \in Places
  /\ NoPlayer \notin Players
  /\ LongMax \in Nat /\ LongMax % 2 = 1
  /\ SeqBound \in Nat /\ MaxFaults \in Nat /\ MaxLoads \in Nat
  /\ MaxCalls \in Nat
  /\ EndKey \in BOOLEAN /\ OtherPlayers \in BOOLEAN /\ Pauses \in BOOLEAN

VARIABLES
  status,    \* handshake and local player, as the mapping shows them
  position,  \* published coordinates behind position_sequence
  teleport,  \* the single-slot mailbox
  sprint,    \* override and internal call of GetSprintMultiplier
  fly,       \* fly fields of the mapping, globals and game memory they cover
  lib,       \* module reference count, mapping, hooks, activity, g_fly_lock
  world,     \* local Player object and its position
  tick,      \* program counter and locals of the hooked Player::Tick
  worker,    \* program counter of the library's thread
  ctl        \* program counter and locals of each controller

mailboxVars == <<position, teleport>>
vars == <<status, position, teleport, sprint, fly, lib, world, tick, worker, ctl>>

Odd(n) == n % 2 = 1

-----------------------------------------------------------------------------
(* The mapping as memset and the assignments after it leave it.  telemetry *)
(* stands for health_valid and movement_valid, player also for             *)
(* capture_player_requested, which is set exactly when player is cleared.  *)
ZeroStatus ==
  [ hookReady |-> 0, tickHook |-> FALSE, initError |-> 0, shutdown |-> FALSE,
    player |-> NoPlayer, lastTick |-> "never", telemetry |-> FALSE ]
ZeroPosition ==
  [ seq |-> 0, x |-> Coordinate, y |-> Coordinate, valid |-> FALSE ]
ZeroTeleport ==
  [ request |-> 0, completed |-> 0, succeeded |-> FALSE,
    x |-> Coordinate, y |-> Coordinate ]
ZeroSprint == [ override |-> FALSE, requested |-> FALSE, calls |-> 0 ]

(* Shared fly fields (enabled, patched, saved, error: some fly_error),     *)
(* globals of the library (active, snapPlayer, snapValue) and game memory  *)
(* (code, movement of the local player).  faults counts failed calls.      *)
InitFly ==
  [ enabled |-> FALSE, patched |-> FALSE, saved |-> FALSE, error |-> FALSE,
    active |-> FALSE, snapPlayer |-> NoPlayer, snapValue |-> "own",
    code |-> "original", movement |-> "own", faults |-> 0 ]

(* Locals of a tick and of a command; next and then say who asked for a    *)
(* snapshot or a publication.  setAt is a history variable: the            *)
(* position_sequence at which the request a controller waits for was       *)
(* given to Actor::SetPosition.                                            *)
IdleTick == [ pc |-> "game", id |-> 0, x |-> Coordinate, y |-> Coordinate, then |-> "leave" ]
IdleController ==
  [ pc |-> "idle", next |-> "idle", prev |-> 0, dest |-> Coordinate,
    before |-> 0, x |-> Coordinate, y |-> Coordinate, setAt |-> -1 ]

InitShared ==
  /\ status = ZeroStatus
  /\ position = ZeroPosition
  /\ teleport = ZeroTeleport
  /\ sprint = ZeroSprint
  /\ fly = InitFly
  /\ lib = [ refs |-> 0, loads |-> 0, mapped |-> FALSE, hooks |-> FALSE,
             active |-> 0, lock |-> "free" ]
  /\ world \in [ player : Players, place : Places ]
  /\ tick = IdleTick
  /\ worker = "none"
  /\ ctl = [ c \in Controllers |-> IdleController ]

-----------------------------------------------------------------------------
(* The parts of the fly state machine that run under g_fly_lock.  Each     *)
(* gives the set of states a call may end in, with the value it returns.   *)
Result(f, ok) == [ fly |-> f, ok |-> ok ]
MayFail(f) == f.faults < MaxFaults
Failed(f) == [ f EXCEPT !.error = TRUE, !.faults = @ + 1 ]

SetCanJumpOff(f) ==
  IF ~f.active THEN { Result([ f EXCEPT !.patched = FALSE ], TRUE) }
  ELSE IF f.code # "enabled" THEN { Result([ f EXCEPT !.error = TRUE ], FALSE) }
  ELSE LET undone == [ f EXCEPT !.code = "original", !.active = FALSE, !.patched = FALSE ]
       IN { Result(undone, TRUE) }
          \cup IF MayFail(f)
               THEN { Result(Failed(f), FALSE),
                      Result(Failed(undone), FALSE) }
               ELSE {}

(* Mutant: a failed protection leaves the written bytes unrecorded.        *)
SetCanJumpOnUnrecorded(f) ==
  IF f.active THEN { Result(f, TRUE) }
  ELSE LET done == [ f EXCEPT !.code = "enabled", !.active = TRUE, !.patched = TRUE ]
       IN { Result(done, TRUE) }
          \cup IF MayFail(f)
               THEN { Result(Failed([ done EXCEPT !.active = FALSE, !.patched = FALSE ]), FALSE) }
               ELSE {}

SetCanJumpOn(f) ==
  IF f.active THEN { Result(f, TRUE) }
  ELSE IF f.code # "original" THEN { Result([ f EXCEPT !.error = TRUE ], FALSE) }
  ELSE LET done == [ f EXCEPT !.code = "enabled", !.active = TRUE, !.patched = TRUE ]
           unprotected == { r.fly : r \in SetCanJumpOff(Failed(done)) }
       IN { Result(done, TRUE) }
          \cup IF MayFail(f)
               THEN { Result(Failed([ f EXCEPT !.patched = FALSE ]), FALSE) }
                    \cup { Result([ g EXCEPT !.error = TRUE ], FALSE) : g \in unprotected }
               ELSE {}

RestoreMovement(f, player) ==
  IF f.snapPlayer = NoPlayer THEN { Result([ f EXCEPT !.saved = FALSE ], TRUE) }
  ELSE LET forgotten == [ f EXCEPT !.snapPlayer = NoPlayer, !.snapValue = "own", !.saved = FALSE ]
       IN { Result(IF f.snapPlayer = player
                   THEN [ forgotten EXCEPT !.movement = f.snapValue ]
                   ELSE forgotten, TRUE) }
          \cup IF MayFail(f) THEN { Result(Failed(f), FALSE) } ELSE {}

(* Mutant: a snapshot of the same player is taken again by each tick.      *)
SaveMovementAgain(f, player) ==
  { Result([ f EXCEPT !.snapPlayer = player, !.snapValue = f.movement, !.saved = TRUE ], TRUE) }

SaveMovement(f, player) ==
  IF f.snapPlayer = player THEN { Result(f, TRUE) }
  ELSE LET dropped == [ f EXCEPT !.snapPlayer = NoPlayer, !.snapValue = "own", !.saved = FALSE ]
       IN { Result([ f EXCEPT !.snapPlayer = player, !.snapValue = f.movement, !.saved = TRUE ], TRUE) }
          \cup IF MayFail(f) THEN { Result(Failed(dropped), FALSE) } ELSE {}

(* Both restorations, in the order of the callers; error is cleared only   *)
(* when both succeeded.                                                    *)
RestoreBoth(f, player) ==
  UNION { { Result(IF m.ok /\ p.ok THEN [ p.fly EXCEPT !.error = FALSE ] ELSE p.fly, m.ok /\ p.ok)
              : p \in SetCanJumpOff(m.fly) }
            : m \in RestoreMovement(f, player) }

=============================================================================
