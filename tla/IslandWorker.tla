---------------------------- MODULE IslandWorker ----------------------------
(***************************************************************************)
(* The thread that DllMain starts in the library: initialisation with its  *)
(* error paths, the watchdog loop, and the shutdown that must restore what *)
(* fly changed, take the hooks out and unload the library.                 *)
(*                                                                         *)
(* "resident" is the end of a worker that keeps the library loaded because *)
(* a hook or a modification may still be live (exit codes 8 and 9).        *)
(***************************************************************************)
EXTENDS IslandShared

WorkerAt(label) == worker = label
GoWorker(label) == worker' = label
Reports(error) == [ status EXCEPT !.initError = error, !.hookReady = -1 ]

(* The game thread runs detour code that the activity counter misses.      *)
InPrologue == tick.pc = "prologue"

-----------------------------------------------------------------------------
InitializeSharedState ==
  /\ WorkerAt("init")
  /\ status' = ZeroStatus
  /\ position' = ZeroPosition
  /\ teleport' = ZeroTeleport
  /\ sprint' = ZeroSprint
  /\ fly' = [ InitFly EXCEPT !.code = fly.code, !.movement = fly.movement,
                             !.faults = fly.faults ]
  /\ lib' = [ lib EXCEPT !.mapped = TRUE ]
  /\ GoWorker("verify")
  /\ UNCHANGED <<world, tick, ctl>>

(* The mapping cannot be created: exit code 1.                             *)
InitializeFails ==
  /\ WorkerAt("init") /\ MayFail(fly)
  /\ fly' = [ fly EXCEPT !.faults = @ + 1 ]
  /\ GoWorker("exit")
  /\ UNCHANGED <<status, position, teleport, sprint, lib, world, tick, ctl>>

(* GameLogic.dll is found or not, its signatures match or not; CanJump     *)
(* must hold its original bytes.                                           *)
FailAndExit(error) ==
  /\ status' = Reports(error)
  /\ GoWorker("exit")

VerifyRuntimeSignatures ==
  /\ WorkerAt("verify")
  /\ \/ /\ fly.code = "original"
        /\ GoWorker("hook") /\ UNCHANGED <<status, fly>>
     \/ /\ fly.code # "original"
        /\ FailAndExit(24) /\ UNCHANGED fly
     \/ /\ MayFail(fly)
        /\ fly' = [ fly EXCEPT !.faults = @ + 1 ]
        /\ \E error \in {1, 20} : FailAndExit(error)
  /\ UNCHANGED <<position, teleport, sprint, lib, world, tick, ctl>>

CreateHooks ==
  /\ WorkerAt("hook")
  /\ \/ GoWorker("enable") /\ UNCHANGED <<status, fly>>
     \/ /\ MayFail(fly)
        /\ fly' = [ fly EXCEPT !.faults = @ + 1 ]
        /\ \E error \in {3, 4, 5} : FailAndExit(error)
  /\ UNCHANGED <<position, teleport, sprint, lib, world, tick, ctl>>

(* A failing MH_EnableHook may have enabled some of the targets.           *)
EnableHooks ==
  /\ WorkerAt("enable")
  /\ \/ /\ lib' = [ lib EXCEPT !.hooks = TRUE ]
        /\ GoWorker("ready") /\ UNCHANGED fly
     \/ /\ MayFail(fly)
        /\ fly' = [ fly EXCEPT !.faults = @ + 1 ]
        /\ \E partly \in BOOLEAN : lib' = [ lib EXCEPT !.hooks = partly ]
        /\ GoWorker("rollback")
  /\ UNCHANGED <<status, position, teleport, sprint, world, tick, ctl>>

StaysResident ==
  /\ status' = Reports(7)
  /\ GoWorker("resident")

(* DisableAllHooksWithRetry, on the way back from a failed enable.         *)
RollBackHooks ==
  /\ WorkerAt("rollback")
  /\ \/ /\ lib' = [ lib EXCEPT !.hooks = FALSE ]
        /\ GoWorker("rollbackDrain") /\ UNCHANGED <<status, fly>>
     \/ /\ MayFail(fly)
        /\ fly' = [ fly EXCEPT !.faults = @ + 1 ]
        /\ StaysResident /\ UNCHANGED lib
  /\ UNCHANGED <<position, teleport, sprint, world, tick, ctl>>

RollBackDrained ==
  /\ WorkerAt("rollbackDrain") /\ ~InPrologue /\ lib.active = 0
  /\ FailAndExit(6)
  /\ UNCHANGED <<position, teleport, sprint, fly, lib, world, tick, ctl>>

AnnounceReady ==
  /\ WorkerAt("ready")
  /\ status' = [ status EXCEPT !.hookReady = 1, !.tickHook = TRUE ]
  /\ GoWorker("running")
  /\ UNCHANGED <<position, teleport, sprint, fly, lib, world, tick, ctl>>

-----------------------------------------------------------------------------
(* The watchdog decides on an old tick time and clears afterwards.         *)
WatchdogDecides ==
  /\ WorkerAt("running") /\ ~status.shutdown
  /\ status.lastTick = "stale"
  /\ \/ status.player # NoPlayer \/ status.telemetry \/ position.valid
  /\ GoWorker("invalidate")
  /\ UNCHANGED <<status, position, teleport, sprint, fly, lib, world, tick, ctl>>

WatchdogClears ==
  /\ WorkerAt("invalidate")
  /\ status' = [ status EXCEPT !.player = NoPlayer, !.telemetry = FALSE ]
  /\ position' = [ position EXCEPT !.valid = FALSE ]
  /\ GoWorker("running")
  /\ UNCHANGED <<teleport, sprint, fly, lib, world, tick, ctl>>

-----------------------------------------------------------------------------
(* Shutdown: RestoreFlyBeforeShutdown looks at the two published flags     *)
(* without g_fly_lock and takes the lock only when they do not clear.      *)
ShutdownSeen ==
  /\ WorkerAt("running") /\ (status.shutdown \/ EndKey)
  /\ fly' = [ fly EXCEPT !.enabled = FALSE ]
  /\ GoWorker("restoreWait")
  /\ UNCHANGED <<status, position, teleport, sprint, lib, world, tick, ctl>>

RestoreObserved ==
  /\ WorkerAt("restoreWait") /\ ~fly.saved /\ ~fly.patched
  /\ GoWorker("disable")
  /\ UNCHANGED <<status, position, teleport, sprint, fly, lib, world, tick, ctl>>

RestoreWaitEnds ==
  /\ WorkerAt("restoreWait") /\ (fly.saved \/ fly.patched)
  /\ GoWorker("restoreLock")
  /\ UNCHANGED <<status, position, teleport, sprint, fly, lib, world, tick, ctl>>

RestoreByWorker ==
  /\ WorkerAt("restoreLock") /\ lib.lock = "free"
  /\ \E r \in RestoreBoth(fly, world.player) :
       /\ fly' = r.fly
       /\ IF r.ok THEN GoWorker("disable") /\ UNCHANGED status ELSE StaysResident
  /\ UNCHANGED <<position, teleport, sprint, lib, world, tick, ctl>>

DisableHooks ==
  /\ WorkerAt("disable")
  /\ \/ /\ lib' = [ lib EXCEPT !.hooks = FALSE ]
        /\ status' = [ status EXCEPT !.hookReady = 0, !.tickHook = FALSE ]
        /\ GoWorker("drain") /\ UNCHANGED fly
     \/ /\ MayFail(fly)
        /\ fly' = [ fly EXCEPT !.faults = @ + 1 ]
        /\ StaysResident /\ UNCHANGED lib
  /\ UNCHANGED <<position, teleport, sprint, world, tick, ctl>>

(* Mutant: the library is unloaded without the activity drain.             *)
DrainSkipped ==
  /\ WorkerAt("drain")
  /\ GoWorker("exit")
  /\ UNCHANGED <<status, position, teleport, sprint, fly, lib, world, tick, ctl>>

(* Sleep(50) is taken to outlast a prologue; then the activity drain.      *)
Drained ==
  /\ WorkerAt("drain") /\ ~InPrologue /\ lib.active = 0
  /\ GoWorker("exit")
  /\ UNCHANGED <<status, position, teleport, sprint, fly, lib, world, tick, ctl>>

(* ExitWorker: the view is unmapped, the last reference unloads the code.  *)
ExitWorker ==
  /\ WorkerAt("exit")
  /\ lib' = [ lib EXCEPT !.mapped = FALSE, !.refs = @ - 1 ]
  /\ GoWorker("none")
  /\ UNCHANGED <<status, position, teleport, sprint, fly, world, tick, ctl>>

InitStep ==
  \/ InitializeSharedState \/ InitializeFails \/ VerifyRuntimeSignatures \/ CreateHooks
  \/ EnableHooks \/ RollBackHooks \/ RollBackDrained \/ AnnounceReady
WatchdogStep == WatchdogDecides \/ WatchdogClears
ShutdownStep ==
  \/ ShutdownSeen \/ RestoreObserved \/ RestoreWaitEnds \/ RestoreByWorker
  \/ DisableHooks \/ Drained \/ ExitWorker

WorkerStep == InitStep \/ WatchdogStep \/ ShutdownStep

=============================================================================
