--------------------------- MODULE IslandFly_proofs ---------------------------
(***************************************************************************)
(* Proofs about what the library does to the game: the values and code     *)
(* that fly changes stay covered by what restores them, and the library is *)
(* unloaded only when no tick is in it; and types.  They hold for any      *)
(* number of failing calls, players, controllers and commands; the first   *)
(* for the library's first load, the others for any number of loads.       *)
(***************************************************************************)
EXTENDS Island_proofs

(* The fly state is consistent for a player: flags, snapshot and bytes. *)
FlyType ==
  [ enabled : BOOLEAN, patched : BOOLEAN, saved : BOOLEAN, error : BOOLEAN,
    active : BOOLEAN, snapPlayer : Players \cup {NoPlayer},
    snapValue : {"own", "fly"}, code : {"original", "enabled"},
    movement : {"own", "fly"}, faults : Nat ]
Sound(f, player) ==
  /\ f \in FlyType
  /\ f.patched = f.active /\ f.active = (f.code = "enabled")
  /\ f.saved = (f.snapPlayer # NoPlayer)
  /\ f.movement = "fly" => f.snapPlayer = player
  /\ f.snapPlayer # NoPlayer => f.snapValue = "own"

(* A tick between FlyEnter and the end of the critical section holds the   *)
(* lock, and from FlySave on the snapshot is of the local player.          *)
InFly == tick.pc \in {"flyOff", "flySave", "flyPatch", "flyWrite"}
Untouched == fly.code = "original" /\ fly.movement = "own"
FlyInv ==
  lib.loads <= 1 =>
    /\ Sound(fly, world.player)
    /\ lib.loads = 0 \/ worker = "init" => Untouched
    /\ InFly => lib.lock = "tick"
    /\ tick.pc \in {"flyPatch", "flyWrite"} => fly.snapPlayer = world.player

-----------------------------------------------------------------------------
(* A failed call changes what is counted and the error, nothing else. *)
LEMMA FailedSound ==
  ASSUME NEW f, NEW player, Sound(f, player)
  PROVE  Sound(Failed(f), player) /\ Failed(f).snapPlayer = f.snapPlayer
<1>1. f \in FlyType /\ f.faults + 1 \in Nat
  BY DEF Sound, FlyType
<1>2. Failed(f) \in FlyType
  BY <1>1 DEF Failed, FlyType
<1>3. /\ Failed(f).patched = f.patched /\ Failed(f).active = f.active
      /\ Failed(f).saved = f.saved /\ Failed(f).snapPlayer = f.snapPlayer
      /\ Failed(f).snapValue = f.snapValue /\ Failed(f).code = f.code
      /\ Failed(f).movement = f.movement
  BY <1>1 DEF Failed, FlyType
<1> QED
  BY <1>2, <1>3 DEF Sound

(* Taking the patch out of CanJump keeps the state consistent. *)
LEMMA OffSound ==
  ASSUME NEW f, NEW player, Sound(f, player), NEW r \in SetCanJumpOff(f)
  PROVE  Sound(r.fly, player) /\ r.fly.snapPlayer = f.snapPlayer
<1> DEFINE undone == [ f EXCEPT !.code = "original", !.active = FALSE, !.patched = FALSE ]
<1>1. Sound(undone, player) /\ undone.snapPlayer = f.snapPlayer
  BY DEF Sound, FlyType
<1>2. Sound(Failed(undone), player) /\ Failed(undone).snapPlayer = f.snapPlayer
  BY <1>1, FailedSound
<1>3. Sound(Failed(f), player) /\ Failed(f).snapPlayer = f.snapPlayer
  BY FailedSound
<1>4. CASE ~f.active
  <2>1. r.fly = [ f EXCEPT !.patched = FALSE ]
    BY <1>4 DEF SetCanJumpOff, Result
  <2> QED
    BY <1>4, <2>1 DEF Sound, FlyType
<1>5. CASE f.active
  <2>1. f.code = "enabled"
    BY <1>5 DEF Sound, FlyType
  <2>2. r.fly \in {undone, Failed(f), Failed(undone)}
    BY <1>5, <2>1 DEF SetCanJumpOff, Result
  <2> QED
    BY <1>1, <1>2, <1>3, <2>2
<1> QED
  BY <1>4, <1>5

(* Putting it in does too, also through the rollback of a failure. *)
LEMMA OnSound ==
  ASSUME NEW f, NEW player, Sound(f, player), NEW r \in SetCanJumpOn(f)
  PROVE  Sound(r.fly, player) /\ r.fly.snapPlayer = f.snapPlayer
<1> DEFINE done == [ f EXCEPT !.code = "enabled", !.active = TRUE, !.patched = TRUE ]
           flagged(q) == [ q.fly EXCEPT !.error = TRUE ]
           unpatched == [ f EXCEPT !.patched = FALSE ]
<1>1. CASE f.active
  BY <1>1 DEF SetCanJumpOn, Result
<1>2. CASE ~f.active
  <2>1. f.code = "original"
    BY <1>2 DEF Sound, FlyType
  <2>2. Sound(done, player) /\ done.snapPlayer = f.snapPlayer
    BY <1>2 DEF Sound, FlyType
  <2>3. Sound(unpatched, player) /\ unpatched.snapPlayer = f.snapPlayer
    BY <1>2 DEF Sound, FlyType
  <2>4. Sound(Failed(done), player) /\ Failed(done).snapPlayer = f.snapPlayer
    BY <2>2, FailedSound
  <2>5. \A q \in SetCanJumpOff(Failed(done)) :
          Sound(q.fly, player) /\ q.fly.snapPlayer = f.snapPlayer
    BY <2>4, OffSound
  <2>6. \/ r.fly = done \/ r.fly = Failed(unpatched)
        \/ \E q \in SetCanJumpOff(Failed(done)) : r.fly = flagged(q)
    <3>1. \/ r = Result(done, TRUE) \/ r = Result(Failed(unpatched), FALSE)
          \/ \E g \in { q.fly : q \in SetCanJumpOff(Failed(done)) } :
               r = Result([ g EXCEPT !.error = TRUE ], FALSE)
      BY <1>2, <2>1 DEF SetCanJumpOn
    <3>2. \A g \in { q.fly : q \in SetCanJumpOff(Failed(done)) } :
            \E q \in SetCanJumpOff(Failed(done)) : g = q.fly
      OBVIOUS
    <3>3. CASE \E g \in { q.fly : q \in SetCanJumpOff(Failed(done)) } :
                 r = Result([ g EXCEPT !.error = TRUE ], FALSE)
      <4>1. PICK q \in SetCanJumpOff(Failed(done)) : r = Result(flagged(q), FALSE)
        BY <3>2, <3>3
      <4> HIDE DEF flagged
      <4>2. r.fly = flagged(q)
        BY <4>1 DEF Result
      <4> QED
        BY <4>2
    <3> HIDE DEF done, unpatched, flagged
    <3>4. CASE r = Result(done, TRUE) \/ r = Result(Failed(unpatched), FALSE)
      BY <3>4 DEF Result
    <3> QED
      BY <3>1, <3>3, <3>4 DEF done, unpatched
  <2>7. \A q \in SetCanJumpOff(Failed(done)) :
          Sound(flagged(q), player) /\ flagged(q).snapPlayer = f.snapPlayer
    BY <2>5 DEF Sound, FlyType
  <2>8. Sound(Failed(unpatched), player) /\ Failed(unpatched).snapPlayer = f.snapPlayer
    BY <2>3, FailedSound
  <2> QED
    BY <2>2, <2>6, <2>7, <2>8
<1> QED
  BY <1>1, <1>2

(* Restoring the movement values keeps the state consistent, whoever's     *)
(* they are.                                                               *)
LEMMA RestoreSound ==
  ASSUME NEW f, NEW player, Sound(f, player), NEW r \in RestoreMovement(f, player)
  PROVE  Sound(r.fly, player)
<1> DEFINE forgotten == [ f EXCEPT !.snapPlayer = NoPlayer, !.snapValue = "own", !.saved = FALSE ]
           written == [ forgotten EXCEPT !.movement = f.snapValue ]
<1>1. CASE f.snapPlayer = NoPlayer
  <2>1. r.fly = [ f EXCEPT !.saved = FALSE ]
    BY <1>1 DEF RestoreMovement, Result
  <2> QED
    BY <1>1, <2>1 DEF Sound, FlyType
<1>2. CASE f.snapPlayer # NoPlayer
  <2>1. \/ f.snapPlayer = player /\ r.fly = written
        \/ f.snapPlayer # player /\ r.fly = forgotten
        \/ r.fly = Failed(f)
    BY <1>2 DEF RestoreMovement, Result
  <2>2. f.snapPlayer = player => Sound(written, player)
    BY <1>2 DEF Sound, FlyType
  <2>3. f.snapPlayer # player => Sound(forgotten, player)
    BY <1>2 DEF Sound, FlyType
  <2> QED
    BY <2>1, <2>2, <2>3, FailedSound
<1> QED
  BY <1>1, <1>2

(* Both restorations one after the other. *)
LEMMA BothSound ==
  ASSUME NEW f, NEW player, Sound(f, player), NEW r \in RestoreBoth(f, player)
  PROVE  Sound(r.fly, player)
<1>0. PICK m \in RestoreMovement(f, player) : \E p \in SetCanJumpOff(m.fly) :
        r.fly \in {p.fly, [ p.fly EXCEPT !.error = FALSE ]}
  BY DEF RestoreBoth, Result
<1>1. PICK p \in SetCanJumpOff(m.fly) : r.fly \in {p.fly, [ p.fly EXCEPT !.error = FALSE ]}
  BY <1>0
<1>2. Sound(p.fly, player)
  BY RestoreSound, OffSound
<1>3. Sound([ p.fly EXCEPT !.error = FALSE ], player)
  BY <1>2 DEF Sound, FlyType
<1> QED
  BY <1>1, <1>2, <1>3

(* A snapshot records the player's own values: those of another player are *)
(* dropped, and nothing has changed the new player's yet.                  *)
LEMMA SaveSound ==
  ASSUME NEW f, NEW player \in Players, Sound(f, player), NEW r \in SaveMovement(f, player)
  PROVE  Sound(r.fly, player) /\ (r.ok => r.fly.snapPlayer = player)
<1> USE IslandAssumption
<1> DEFINE dropped == [ f EXCEPT !.snapPlayer = NoPlayer, !.snapValue = "own", !.saved = FALSE ]
           saved == [ f EXCEPT !.snapPlayer = player, !.snapValue = f.movement, !.saved = TRUE ]
<1>1. CASE f.snapPlayer = player
  BY <1>1 DEF SaveMovement, Result
<1>2. CASE f.snapPlayer # player
  <2>1. r.fly = saved \/ (r.fly = Failed(dropped) /\ r.ok = FALSE)
    BY <1>2 DEF SaveMovement, Result
  <2>2. Sound(saved, player) /\ saved.snapPlayer = player
    BY <1>2 DEF Sound, FlyType
  <2>3. Sound(dropped, player)
    BY <1>2 DEF Sound, FlyType
  <2>4. Sound(Failed(dropped), player)
    BY <2>3, FailedSound
  <2> QED
    BY <2>1, <2>2, <2>4
<1> QED
  BY <1>1, <1>2

-----------------------------------------------------------------------------
(* A step that leaves the covered values, the local player and the lock    *)
(* alone keeps the invariant.                                              *)
FlyAside ==
  /\ world'.player = world.player /\ lib'.lock = lib.lock
  /\ fly' \in FlyType
  /\ fly'.patched = fly.patched /\ fly'.active = fly.active /\ fly'.saved = fly.saved
  /\ fly'.snapPlayer = fly.snapPlayer /\ fly'.snapValue = fly.snapValue
  /\ fly'.code = fly.code /\ fly'.movement = fly.movement
  /\ InFly' => tick'.pc = tick.pc
Started == ~(lib.loads = 0 \/ worker = "init")

(* ... provided the worker is not before its initialisation again. *)
LEMMA FlyAsideKeeps ==
  ASSUME FlyInv, lib.loads <= 1, FlyAside, Started => Started'
  PROVE  FlyInv'
BY DEF FlyInv, FlyAside, Started, Sound, FlyType, InFly, Untouched

(* The five steps of ProcessFlyOnGameThread. *)
LEMMA FlyStepKeeps ==
  ASSUME Shape, Boot, lib.loads <= 1, FlyInv, FlyStep
  PROVE  FlyInv'
<1> USE DEF Shape, TickType
<1>1. /\ world' = world /\ worker' = worker /\ lib'.loads = lib.loads
      /\ tick.pc # "game"
  BY DEF FlyStep, FlyEnter, FlyOff, FlySave, FlyPatch, FlyWrite, FlyLeaves, TickAt
<1>2. Started'
  BY <1>1 DEF Boot, Started, IdleTick
<1>3. /\ Sound(fly, world.player) /\ (InFly => lib.lock = "tick")
      /\ tick.pc \in {"flyPatch", "flyWrite"} => fly.snapPlayer = world.player
  BY DEF FlyInv
<1>4. ASSUME Sound(fly', world.player), tick'.pc \in TickLabels, InFly' => lib'.lock = "tick",
             tick'.pc \in {"flyPatch", "flyWrite"} => fly'.snapPlayer = world.player
      PROVE  FlyInv'
  BY <1>1, <1>2, <1>4 DEF FlyInv, Started
<1>5. ASSUME NEW f, Sound(f, world.player), FlyLeaves(f) PROVE FlyInv'
  <2>1. tick'.pc = "sprint" /\ fly' = f
    BY <1>5 DEF FlyLeaves, GoTick
  <2> QED
    BY <1>4, <1>5, <2>1 DEF InFly, TickLabels
<1>6. CASE FlyEnter
  <2>1. /\ tick'.pc \in {"flySave", "flyOff"} /\ fly' = fly /\ lib'.lock = "tick"
    BY <1>6 DEF FlyEnter, GoTick
  <2> QED
    BY <1>3, <1>4, <2>1 DEF TickLabels
<1>7. CASE FlyOff
  BY <1>3, <1>5, <1>7, BothSound DEF FlyOff
<1>8. CASE FlySave
  <2>1. PICK r \in SaveMovement(fly, world.player) :
          IF r.ok THEN fly' = r.fly /\ GoTick("flyPatch") /\ UNCHANGED lib ELSE FlyLeaves(r.fly)
    BY <1>8 DEF FlySave
  <2>2. Sound(r.fly, world.player) /\ (r.ok => r.fly.snapPlayer = world.player)
    BY <1>3, SaveSound
  <2>3. CASE r.ok
    <3>1. /\ tick'.pc = "flyPatch" /\ fly' = r.fly /\ lib'.lock = "tick"
      BY <1>3, <1>8, <2>1, <2>3 DEF FlySave, TickAt, GoTick, InFly
    <3> QED
      BY <1>4, <2>2, <2>3, <3>1 DEF TickLabels
  <2> QED
    BY <1>5, <2>1, <2>2, <2>3
<1>9. CASE FlyPatch
  <2>1. PICK r \in SetCanJumpOn(fly) :
          IF r.ok THEN fly' = r.fly /\ GoTick("flyWrite") /\ UNCHANGED lib
                  ELSE \E m \in RestoreMovement(r.fly, world.player) : FlyLeaves(m.fly)
    BY <1>9 DEF FlyPatch
  <2>2. Sound(r.fly, world.player) /\ r.fly.snapPlayer = fly.snapPlayer
    BY <1>3, OnSound
  <2>3. CASE r.ok
    <3>1. /\ tick'.pc = "flyWrite" /\ fly' = r.fly /\ lib'.lock = "tick"
          /\ fly.snapPlayer = world.player
      BY <1>3, <1>9, <2>1, <2>3 DEF FlyPatch, TickAt, GoTick, InFly
    <3> QED
      BY <1>4, <2>2, <3>1 DEF TickLabels
  <2>4. CASE ~r.ok
    BY <1>5, <2>1, <2>2, <2>4, RestoreSound
  <2> QED
    BY <2>3, <2>4
<1>10. CASE FlyWrite
  <2>1. fly.snapPlayer = world.player
    BY <1>3, <1>10 DEF FlyWrite, TickAt
  <2>2. Sound([ fly EXCEPT !.movement = "fly", !.error = FALSE ], world.player)
    BY <1>3, <2>1 DEF Sound, FlyType
  <2>3. Sound(Failed(fly), world.player)
    BY <1>3, FailedSound
  <2>4. ASSUME NEW p \in SetCanJumpOff(Failed(fly)), NEW m \in RestoreMovement(p.fly, world.player)
        PROVE  Sound(m.fly, world.player)
    <3>1. Sound(p.fly, world.player)
      BY <2>3, OffSound
    <3> QED
      BY <3>1, RestoreSound
  <2> QED
    BY <1>5, <1>10, <2>2, <2>4 DEF FlyWrite
<1> QED
  BY <1>6, <1>7, <1>8, <1>9, <1>10 DEF FlyStep

(* The other steps of the game thread. *)
LEMMA FlyGame ==
  ASSUME Shape, Boot, lib.loads <= 1, FlyInv, GameStep
  PROVE  FlyInv'
<1> USE DEF Shape, TickType
<1>0. fly \in FlyType
  BY DEF FlyInv, Sound
<1>1. CASE FlyStep
  BY <1>1, FlyStepKeeps
<1>2. CASE TickDetoured \/ TickAges \/ \E place \in Places : WorldMoves(place)
  <2>1. FlyAside /\ worker' = worker /\ lib'.loads = lib.loads
    BY <1>0, <1>2 DEF TickDetoured, TickAges, WorldMoves, GoTick, FlyAside, InFly
  <2> QED
    BY <2>1, FlyAsideKeeps DEF Started
<1>3. CASE TickOfOther \/ TickOfLocal \/ TickSprint \/ TickLeaves
  <2>1. FlyAside /\ worker' = worker /\ lib'.loads = lib.loads
    BY <1>0, <1>3 DEF TickOfOther, TickOfLocal, TickSprint, TickLeaves, GoTick, IdleTick, FlyAside,
       InFly
  <2> QED
    BY <2>1, FlyAsideKeeps DEF Started
<1>4. CASE TeleportStep
  <2>1. /\ world'.player = world.player /\ lib' = lib /\ fly' = fly /\ worker' = worker
    BY <1>4 DEF TeleportStep, TeleportSeen, CopyX, CopyY, TeleportReplaced, SetPosition,
       TeleportJudged, TeleportAcknowledged
  <2>2. ~InFly'
    BY ZenonT(60), <1>4 DEF TeleportStep, TeleportSeen, CopyX, CopyY, TeleportReplaced, SetPosition,
       TeleportJudged, TeleportAcknowledged, GoTick, IdleTick, InFly
  <2> QED
    BY <1>0, <2>1, <2>2, FlyAsideKeeps DEF FlyAside, Started
<1>5. CASE PublishStep
  <2>1. /\ world' = world /\ lib' = lib /\ fly' = fly /\ worker' = worker
    BY <1>5 DEF PublishStep, PublishFails, PublishBegins, PublishHalves, PublishEnds
  <2>2. ~InFly'
    BY <1>5 DEF PublishStep, PublishFails, PublishBegins, PublishHalves, PublishEnds, GoTick, InFly
  <2> QED
    BY <1>0, <2>1, <2>2, FlyAsideKeeps DEF FlyAside, Started
<1>6. CASE TickTelemetry
  <2>1. PICK n \in Nat : fly' = [ fly EXCEPT !.faults = n ]
    <3>1. fly.faults \in Nat /\ fly.faults + 1 \in Nat
      BY <1>0 DEF FlyType
    <3>2. \/ fly' = [ fly EXCEPT !.faults = fly.faults ]
          \/ fly' = [ fly EXCEPT !.faults = fly.faults + 1 ]
      BY <1>6 DEF TickTelemetry
    <3> QED
      BY <3>1, <3>2
  <2>2. tick'.pc = "leave" /\ lib' = lib /\ world' = world /\ worker' = worker
    BY <1>6 DEF TickTelemetry, GoTick
  <2> QED
    BY <1>0, <2>1, <2>2, FlyAsideKeeps DEF FlyAside, Started, InFly, FlyType
<1>7. CASE \E player \in Players : PlayerReplaced(player)
  <2>1. /\ tick' = tick /\ lib' = lib /\ worker' = worker /\ tick.pc = "game"
        /\ fly' = [ fly EXCEPT !.movement = "own" ]
    BY <1>7 DEF PlayerReplaced, TickAt
  <2>2. Sound(fly', world'.player)
    BY <2>1 DEF FlyInv, Sound, FlyType
  <2>3. lib.loads = 0 \/ worker = "init" => Untouched'
    BY <1>0, <2>1 DEF FlyInv, Untouched, FlyType
  <2> QED
    BY <2>1, <2>2, <2>3 DEF FlyInv, InFly
<1> QED
  BY <1>1, <1>2, <1>3, <1>4, <1>5, <1>6, <1>7 DEF GameStep, TickStep

(* The steps of the library's thread. *)
LEMMA FlyWorker ==
  ASSUME Shape, Boot, lib.loads <= 1, FlyInv, WorkerStep
  PROVE  FlyInv'
<1> USE DEF Shape, TickType, WorkerAt, GoWorker
<1>1. /\ fly \in FlyType /\ fly.faults + 1 \in Nat
      /\ [ fly EXCEPT !.faults = @ + 1 ] \in FlyType
      /\ [ fly EXCEPT !.enabled = FALSE ] \in FlyType
  <2>1. fly \in FlyType
    BY DEF FlyInv, Sound
  <2>2. fly.faults + 1 \in Nat
    BY <2>1 DEF FlyType
  <2> QED
    BY <2>1, <2>2 DEF FlyType
<1>2. world' = world /\ tick' = tick /\ lib'.loads = lib.loads /\ lib'.lock = lib.lock
  BY DEF WorkerStep, InitStep, WatchdogStep, ShutdownStep, InitializeSharedState, InitializeFails,
     VerifyRuntimeSignatures, CreateHooks, EnableHooks, RollBackHooks, RollBackDrained,
     AnnounceReady, WatchdogDecides, WatchdogClears, ShutdownSeen, RestoreObserved,
     RestoreWaitEnds, RestoreByWorker, DisableHooks, Drained, ExitWorker
<1>3. worker # "none" /\ worker' # "init" /\ lib.loads # 0
  <2>1. worker # "none" /\ worker' # "init"
    BY DEF WorkerStep, InitStep, WatchdogStep, ShutdownStep, InitializeSharedState, InitializeFails,
       VerifyRuntimeSignatures, CreateHooks, EnableHooks, RollBackHooks, RollBackDrained,
       AnnounceReady, WatchdogDecides, WatchdogClears, ShutdownSeen, RestoreObserved,
       RestoreWaitEnds, RestoreByWorker, DisableHooks, Drained, ExitWorker, FailAndExit,
       StaysResident
  <2> QED
    BY <2>1 DEF Boot
<1>4. CASE InitializeSharedState
  <2>1. /\ Untouched /\ tick.pc = "game" /\ world.player \in Players
    BY <1>4 DEF InitializeSharedState, FlyInv, Boot, IdleTick
  <2>2. fly' = [ InitFly EXCEPT !.code = fly.code, !.movement = fly.movement,
                               !.faults = fly.faults ]
    BY <1>4 DEF InitializeSharedState
  <2>3. Sound(fly', world.player)
    BY <1>1, <2>1, <2>2 DEF Sound, FlyType, InitFly, Untouched
  <2> QED
    BY <1>2, <1>3, <2>1, <2>3 DEF FlyInv, InFly
<1>5. CASE RestoreByWorker
  <2>1. Sound(fly', world.player)
    BY <1>5, BothSound DEF RestoreByWorker, FlyInv
  <2>2. ~InFly
    BY <1>5 DEF RestoreByWorker, FlyInv
  <2> QED
    BY <1>2, <1>3, <2>1, <2>2 DEF FlyInv, InFly
<1>6. ASSUME fly' \in {fly, [ fly EXCEPT !.faults = @ + 1 ], [ fly EXCEPT !.enabled = FALSE ]}
      PROVE  FlyInv'
  <2>1. fly' \in FlyType
    BY <1>1, <1>6
  <2>2. /\ fly'.patched = fly.patched /\ fly'.active = fly.active /\ fly'.saved = fly.saved
        /\ fly'.snapPlayer = fly.snapPlayer /\ fly'.snapValue = fly.snapValue
        /\ fly'.code = fly.code /\ fly'.movement = fly.movement
    BY <1>1, <1>6 DEF FlyType
  <2>3. FlyAside
    BY <1>2, <2>1, <2>2 DEF FlyAside, InFly
  <2> QED
    BY <1>2, <1>3, <2>3, FlyAsideKeeps DEF Started
<1>7. CASE InitStep /\ ~InitializeSharedState
  BY <1>6, <1>7 DEF InitStep, InitializeFails, VerifyRuntimeSignatures, CreateHooks, EnableHooks,
     RollBackHooks, RollBackDrained, AnnounceReady
<1>8. CASE WatchdogStep
  BY <1>6, <1>8 DEF WatchdogStep, WatchdogDecides, WatchdogClears
<1>9. CASE ShutdownStep /\ ~RestoreByWorker
  BY <1>6, <1>9 DEF ShutdownStep, ShutdownSeen, RestoreObserved, RestoreWaitEnds, DisableHooks,
     Drained, ExitWorker
<1> QED
  BY <1>4, <1>5, <1>7, <1>8, <1>9 DEF WorkerStep

(* A controller touches the library only by loading it. *)
LEMMA LibKept ==
  ASSUME NEW c \in Controllers, ToolStep(c), ~InjectLoads(c)
  PROVE  lib' = lib /\ worker' = worker
BY DEF ToolStep, CommandStep, MailboxStep, SnapshotStep, CommandEnds, InjectChecks,
   FlyOnChecks, FlyOn, FlyOffTyped, ShutdownTyped, ShutdownRequested, CapturePlayer,
   CallInternalSprint, HookSprint, Looks, Teleport, TeleportUp, QueueTeleport, MailboxRead,
   MailboxAcquired, MailboxLost, WriteX, WriteY, MailboxSubmitted, AnswerSeen, ResultRead,
   SequenceRead, ReadY, SequenceCompared

(* The steps of a controller. *)
LEMMA FlyTool ==
  ASSUME Shape, Boot, lib'.loads <= 1, FlyInv, NEW c \in Controllers, ToolStep(c)
  PROVE  FlyInv'
<1> USE DEF Shape
<1>1. world' = world /\ tick' = tick /\ lib'.lock = lib.lock
  BY DEF ToolStep, CommandStep, MailboxStep, SnapshotStep, CommandEnds, InjectChecks, InjectLoads,
     FlyOnChecks, FlyOn, FlyOffTyped, ShutdownTyped, ShutdownRequested, CapturePlayer,
     CallInternalSprint, HookSprint, Looks, Teleport, TeleportUp, QueueTeleport, MailboxRead,
     MailboxAcquired, MailboxLost, WriteX, WriteY, MailboxSubmitted, AnswerSeen, ResultRead,
     SequenceRead, ReadY, SequenceCompared
<1>2. CASE InjectLoads(c)
  <2>1. lib.loads = 0 /\ fly' = fly
    BY <1>2 DEF InjectLoads
  <2> QED
    BY <1>1, <2>1 DEF FlyInv, Untouched, InFly
<1>3. CASE ~InjectLoads(c)
  <2>1. lib' = lib /\ worker' = worker
    BY <1>3, LibKept
  <2>2. fly' \in {fly, [ fly EXCEPT !.enabled = TRUE ], [ fly EXCEPT !.enabled = FALSE ]}
    BY <1>3 DEF ToolStep, CommandStep, MailboxStep, SnapshotStep, CommandEnds, InjectChecks,
       FlyOnChecks, FlyOn, FlyOffTyped, ShutdownTyped, ShutdownRequested, CapturePlayer,
       CallInternalSprint, HookSprint, Looks, Teleport, TeleportUp, QueueTeleport, MailboxRead,
       MailboxAcquired, MailboxLost, WriteX, WriteY, MailboxSubmitted, AnswerSeen, ResultRead,
       SequenceRead, ReadY, SequenceCompared
  <2>3. FlyAside
    BY ZenonT(60), <1>1, <2>1, <2>2 DEF FlyInv, Sound, FlyAside, FlyType, InFly
  <2> QED
    BY <2>1, <2>3, FlyAsideKeeps DEF Started
<1> QED
  BY <1>2, <1>3

(* Every step keeps the fly invariant, and the first state satisfies it. *)
LEMMA FlyStepInv == IInv /\ FlyInv /\ [Next]_vars => FlyInv'
<1> SUFFICES ASSUME IInv, FlyInv, [Next]_vars, lib'.loads <= 1 PROVE FlyInv'
  BY DEF FlyInv
<1>0. Shape
  BY DEF IInv
<1>1. CASE GameStep \/ WorkerStep
  <2>1. lib.loads <= 1
    BY <1>0, <1>1, LoadsKept
  <2>2. Boot
    BY <2>1 DEF IInv
  <2> QED
    BY <1>0, <1>1, <2>1, <2>2, FlyGame, FlyWorker
<1>2. CASE \E c \in Controllers : ToolStep(c)
  <2>1. PICK c \in Controllers : ToolStep(c)
    BY <1>2
  <2>2. lib.loads <= 1
    <3>1. CASE InjectLoads(c)
      BY <1>0, <3>1 DEF Shape, InjectLoads
    <3>2. CASE ~InjectLoads(c)
      <4>1. lib' = lib
        BY <2>1, <3>2, LibKept
      <4> QED
        BY <4>1
    <3> QED
      BY <3>1, <3>2
  <2>3. Boot
    BY <2>2 DEF IInv
  <2> QED
    BY <1>0, <2>1, <2>3, FlyTool
<1>3. CASE UNCHANGED vars
  BY <1>3 DEF vars, FlyInv, Untouched, InFly
<1> QED
  BY <1>1, <1>2, <1>3 DEF Next

(* What fly changes is always covered (FlyInv). *)
LEMMA FlyInvariant == Spec => []FlyInv
<1>1. Init => FlyInv
  <2> SUFFICES ASSUME Init PROVE FlyInv
    OBVIOUS
  <2>1. fly = InitFly /\ world.player \in Players /\ tick.pc = "game"
    BY DEF Init, InitShared, IdleTick
  <2>2. Sound(fly, world.player)
    BY <2>1, IslandAssumption DEF Sound, FlyType, InitFly
  <2> QED
    BY <2>1, <2>2 DEF FlyInv, Untouched, InFly, InitFly
<1> QED
  BY <1>1, Invariant, FlyStepInv, PTL DEF Spec

(* Whenever g_fly_lock is free, the published flags, the snapshot and the  *)
(* bytes agree, after any failures (SetCanJumpPatchLocked and              *)
(* RestoreMovementSnapshotLocked in research_dll.cpp).                     *)
THEOREM FlyAlwaysReversible == Spec => []FlyReversible
<1>1. FlyInv => FlyReversible
  BY DEF FlyInv, Sound, FlyReversible
<1> QED
  BY <1>1, FlyInvariant, PTL

(* The snapshot never holds the values that fly wrote itself.              *)
THEOREM SnapshotsAreOwn == Spec => []SnapshotIsOwn
<1>1. FlyInv => SnapshotIsOwn
  BY DEF FlyInv, Sound, SnapshotIsOwn
<1> QED
  BY <1>1, FlyInvariant, PTL

-----------------------------------------------------------------------------
(* Who keeps the library loaded.  A worker that may end the library has    *)
(* taken the hooks out and seen the last tick leave; one that has not put  *)
(* them in yet has no tick either.                                         *)
Unhooked == {"none", "init", "verify", "hook", "enable", "exit"}
Leaving == {"drain", "rollbackDrain"}
LoadInv ==
  /\ lib.refs \in Nat
  /\ worker # "none" => lib.refs > 0
  /\ worker = "none" => ~lib.mapped
  /\ worker \in Unhooked => ~lib.hooks /\ tick.pc = "game"
  /\ worker \in Leaving => ~lib.hooks
  /\ lib.active = IF tick.pc \in {"game", "prologue"} THEN 0 ELSE 1

(* The game thread: a tick enters only through a hook, and the activity    *)
(* counter follows it in and out.                                          *)
LEMMA LoadGame == ASSUME Shape, LoadInv, GameStep PROVE LoadInv'
<1> USE DEF Shape, TickType
<1>1. /\ worker' = worker /\ lib'.refs = lib.refs /\ lib'.mapped = lib.mapped
      /\ lib'.hooks = lib.hooks
  BY DEF GameStep, TickDetoured, TickStep, TickOfOther, TickOfLocal, FlyStep, FlyEnter,
     FlyOff, FlySave, FlyPatch, FlyWrite, FlyLeaves, TickSprint, TeleportStep, TeleportSeen,
     CopyX, CopyY, TeleportReplaced, SetPosition, TeleportJudged, TeleportAcknowledged,
     PublishStep, PublishFails, PublishBegins, PublishHalves, PublishEnds, TickTelemetry,
     TickLeaves, TickAges, WorldMoves, PlayerReplaced
<1>2. tick' = tick \/ tick.pc # "game" \/ lib.hooks
  BY DEF GameStep, TickDetoured, TickStep, TickOfOther, TickOfLocal, FlyStep, FlyEnter,
     FlyOff, FlySave, FlyPatch, FlyWrite, TickSprint, TeleportStep, TeleportSeen,
     CopyX, CopyY, TeleportReplaced, SetPosition, TeleportJudged, TeleportAcknowledged,
     PublishStep, PublishFails, PublishBegins, PublishHalves, PublishEnds, TickTelemetry,
     TickLeaves, TickAges, WorldMoves, PlayerReplaced, TickAt
<1>3. worker \in Unhooked => tick' = tick
  BY <1>2 DEF LoadInv
<1>4. lib'.active = IF tick'.pc \in {"game", "prologue"} THEN 0 ELSE 1
  <2> USE DEF LoadInv, TickAt, GoTick
  <2>1. CASE TickDetoured
    BY <2>1 DEF TickDetoured
  <2>2. CASE TickOfOther \/ TickOfLocal
    BY <2>2 DEF TickOfOther, TickOfLocal
  <2>3. CASE TickLeaves
    BY <2>3 DEF TickLeaves, IdleTick
  <2>4. CASE FlyStep
    <3>1. tick.pc \notin {"game", "prologue"} /\ tick'.pc \notin {"game", "prologue"}
      BY <2>4 DEF FlyStep, FlyEnter, FlyOff, FlySave, FlyPatch, FlyWrite, FlyLeaves
    <3>2. lib'.active = lib.active
      BY <2>4 DEF FlyStep, FlyEnter, FlyOff, FlySave, FlyPatch, FlyWrite, FlyLeaves
    <3> QED
      BY <3>1, <3>2
  <2>5. CASE TickSprint \/ TickTelemetry
    BY <2>5 DEF TickSprint, TickTelemetry
  <2>6. CASE TeleportStep
    BY ZenonT(60), <2>6 DEF TeleportStep, TeleportSeen, CopyX, CopyY, TeleportReplaced, SetPosition,
       TeleportJudged, TeleportAcknowledged, IdleTick
  <2>7. CASE PublishStep
    BY <2>7 DEF PublishStep, PublishFails, PublishBegins, PublishHalves, PublishEnds
  <2>8. CASE \/ TickAges \/ (\E place \in Places : WorldMoves(place))
             \/ (\E player \in Players : PlayerReplaced(player))
    BY <2>8 DEF TickAges, WorldMoves, PlayerReplaced
  <2> QED
    BY <2>1, <2>2, <2>3, <2>4, <2>5, <2>6, <2>7, <2>8 DEF GameStep, TickStep
<1> QED
  BY <1>1, <1>3, <1>4 DEF LoadInv

(* The library's thread: before it ends it has drained the ticks, unless   *)
(* the hooks were never enabled.                                           *)
LEMMA LoadWorker == ASSUME Shape, LoadInv, WorkerStep PROVE LoadInv'
<1> USE DEF Shape, LoadInv, WorkerAt, GoWorker, Unhooked, Leaving
<1>0. tick' = tick
  BY DEF WorkerStep, InitStep, WatchdogStep, ShutdownStep, InitializeSharedState, InitializeFails,
     VerifyRuntimeSignatures, CreateHooks, EnableHooks, RollBackHooks, RollBackDrained,
     AnnounceReady, WatchdogDecides, WatchdogClears, ShutdownSeen, RestoreObserved,
     RestoreWaitEnds, RestoreByWorker, DisableHooks, Drained, ExitWorker
<1>1. CASE InitializeSharedState
  BY <1>0, <1>1 DEF InitializeSharedState
<1>2. CASE InitializeFails
  BY <1>0, <1>2 DEF InitializeFails
<1>3. CASE VerifyRuntimeSignatures \/ CreateHooks
  BY <1>0, <1>3 DEF VerifyRuntimeSignatures, CreateHooks, FailAndExit
<1>4. CASE EnableHooks
  BY <1>0, <1>4 DEF EnableHooks
<1>5. CASE RollBackHooks
  BY <1>0, <1>5 DEF RollBackHooks, StaysResident
<1>6. CASE RollBackDrained \/ Drained
  BY <1>0, <1>6 DEF RollBackDrained, Drained, FailAndExit, InPrologue
<1>7. CASE AnnounceReady \/ WatchdogStep
  BY <1>0, <1>7 DEF AnnounceReady, WatchdogStep, WatchdogDecides, WatchdogClears
<1>8. CASE ShutdownSeen \/ RestoreObserved \/ RestoreWaitEnds \/ RestoreByWorker
  BY <1>0, <1>8 DEF ShutdownSeen, RestoreObserved, RestoreWaitEnds, RestoreByWorker, StaysResident
<1>9. CASE DisableHooks
  BY <1>0, <1>9 DEF DisableHooks, StaysResident
<1>10. CASE ExitWorker
  BY <1>0, <1>10 DEF ExitWorker
<1> QED
  BY <1>1, <1>2, <1>3, <1>4, <1>5, <1>6, <1>7, <1>8, <1>9, <1>10
     DEF WorkerStep, InitStep, ShutdownStep

(* A controller: a load adds a reference, and starts the worker when there *)
(* was none.                                                               *)
LEMMA LoadTool == ASSUME Shape, LoadInv, NEW c \in Controllers, ToolStep(c) PROVE LoadInv'
<1> USE DEF Shape, LoadInv
<1>1. tick' = tick
  BY DEF ToolStep, CommandStep, MailboxStep, SnapshotStep, CommandEnds, InjectChecks, InjectLoads,
     FlyOnChecks, FlyOn, FlyOffTyped, ShutdownTyped, ShutdownRequested, CapturePlayer,
     CallInternalSprint, HookSprint, Looks, Teleport, TeleportUp, QueueTeleport, MailboxRead,
     MailboxAcquired, MailboxLost, WriteX, WriteY, MailboxSubmitted, AnswerSeen, ResultRead,
     SequenceRead, ReadY, SequenceCompared
<1>2. CASE InjectLoads(c)
  <2>1. /\ lib'.refs = lib.refs + 1 /\ lib'.mapped = lib.mapped /\ lib'.hooks = lib.hooks
        /\ lib'.active = lib.active
        /\ worker' = IF lib.refs = 0 THEN "init" ELSE worker
    BY <1>2 DEF InjectLoads
  <2>2. lib.refs = 0 => worker = "none"
    OBVIOUS
  <2> QED
    BY <1>1, <2>1, <2>2 DEF Unhooked, Leaving
<1>3. CASE ~InjectLoads(c)
  BY <1>1, <1>3, LibKept
<1> QED
  BY <1>2, <1>3

(* However often the library is loaded and whatever fails, once its last   *)
(* reference is gone no hook leads to it, no tick is in it and its mapping *)
(* is closed (ExitWorker in research_dll.cpp).                              *)
THEOREM NeverRunsUnloaded == Spec => []NoUnloadedCode
<1>1. Init => LoadInv
  BY DEF Init, InitShared, IdleTick, LoadInv, Leaving
<1>2. IInv /\ LoadInv /\ [Next]_vars => LoadInv'
  <2>1. ASSUME Shape, LoadInv, UNCHANGED vars PROVE LoadInv'
    BY <2>1 DEF vars, LoadInv
  <2> QED
    BY <2>1, LoadGame, LoadWorker, LoadTool DEF IInv, Next
<1>3. LoadInv => NoUnloadedCode
  BY DEF LoadInv, NoUnloadedCode, Unhooked
<1> QED
  BY <1>1, <1>2, <1>3, Invariant, PTL DEF Spec

-----------------------------------------------------------------------------
(* Types, for any number of loads.  The ids of the mailbox are LONGs: a    *)
(* controller that took it has room for the two it stores, and every other *)
(* copy is of one of them.                                                 *)
Claiming == {"acquire", "writeX", "writeY", "submit"}
LongOK ==
  /\ teleport.request <= LongMax /\ teleport.completed <= LongMax /\ tick.id <= LongMax
  /\ \A c \in Controllers : /\ ctl[c].prev <= LongMax
                            /\ ctl[c].pc \in Claiming => ctl[c].prev <= LongMax - 2
StatusType ==
  [ hookReady : {-1, 0, 1}, tickHook : BOOLEAN, initError : 0..25,
    shutdown : BOOLEAN, player : Players \cup {NoPlayer},
    lastTick : {"never", "fresh", "stale"}, telemetry : BOOLEAN ]
SprintType == [ override : BOOLEAN, requested : BOOLEAN, calls : Nat ]
TypeInv ==
  /\ Shape /\ LongOK /\ fly \in FlyType
  /\ status \in StatusType /\ sprint \in SprintType /\ worker \in WorkerLabels

(* What the operators of the fly state machine return is a fly state.      *)
LEMMA FlyTypes ==
  ASSUME NEW f \in FlyType, NEW player \in Players
  PROVE  /\ Failed(f) \in FlyType
         /\ \A r \in SetCanJumpOff(f) : r.fly \in FlyType
         /\ \A r \in RestoreMovement(f, player) : r.fly \in FlyType
         /\ \A r \in SaveMovement(f, player) : r.fly \in FlyType
<1> DEFINE undone == [ f EXCEPT !.code = "original", !.active = FALSE, !.patched = FALSE ]
           dropped == [ f EXCEPT !.snapPlayer = NoPlayer, !.snapValue = "own", !.saved = FALSE ]
           written == [ dropped EXCEPT !.movement = f.snapValue ]
           saved == [ f EXCEPT !.snapPlayer = player, !.snapValue = f.movement, !.saved = TRUE ]
<1>1. ASSUME NEW g \in FlyType PROVE Failed(g) \in FlyType
  <2>1. g.faults + 1 \in Nat
    BY DEF FlyType
  <2> QED
    BY <2>1 DEF Failed, FlyType
<1>2. undone \in FlyType
  BY DEF FlyType
<1>3. dropped \in FlyType
  BY DEF FlyType
<1>4. written \in FlyType
  BY DEF FlyType
<1>5. saved \in FlyType
  BY DEF FlyType
<1>6. ASSUME NEW r \in SetCanJumpOff(f) PROVE r.fly \in FlyType
  <2>1. CASE ~f.active
    <3>1. r.fly = [ f EXCEPT !.patched = FALSE ]
      BY <2>1 DEF SetCanJumpOff, Result
    <3> QED
      BY <3>1 DEF FlyType
  <2>2. CASE f.active /\ f.code # "enabled"
    <3>1. r.fly = [ f EXCEPT !.error = TRUE ]
      BY <2>2 DEF SetCanJumpOff, Result
    <3> QED
      BY <3>1 DEF FlyType
  <2>3. CASE f.active /\ f.code = "enabled"
    <3>1. r.fly \in {undone, Failed(f), Failed(undone)}
      BY <2>3 DEF SetCanJumpOff, Result
    <3> HIDE DEF undone
    <3> QED
      BY <1>1, <1>2, <3>1
  <2> QED
    BY <2>1, <2>2, <2>3
<1>7. ASSUME NEW r \in RestoreMovement(f, player) PROVE r.fly \in FlyType
  <2>1. CASE f.snapPlayer = NoPlayer
    <3>1. r.fly = [ f EXCEPT !.saved = FALSE ]
      BY <2>1 DEF RestoreMovement, Result
    <3> QED
      BY <3>1 DEF FlyType
  <2>2. CASE f.snapPlayer # NoPlayer
    <3>1. r.fly = written \/ r.fly = dropped \/ r.fly = Failed(f)
      BY <2>2 DEF RestoreMovement, Result
    <3> HIDE DEF written, dropped
    <3> QED
      BY <1>1, <1>3, <1>4, <3>1
  <2> QED
    BY <2>1, <2>2
<1>8. ASSUME NEW r \in SaveMovement(f, player) PROVE r.fly \in FlyType
  <2>1. CASE f.snapPlayer = player
    BY <2>1 DEF SaveMovement, Result
  <2>2. CASE f.snapPlayer # player
    <3>1. r.fly = saved \/ r.fly = Failed(dropped)
      BY <2>2 DEF SaveMovement, Result
    <3> HIDE DEF dropped, saved
    <3> QED
      BY <1>1, <1>3, <1>5, <3>1
  <2> QED
    BY <2>1, <2>2
<1> QED
  BY <1>1, <1>6, <1>7, <1>8

(* So do the two that use them. *)
LEMMA FlyTypesOfBoth ==
  ASSUME NEW f \in FlyType, NEW player \in Players
  PROVE  /\ \A r \in SetCanJumpOn(f) : r.fly \in FlyType
         /\ \A r \in RestoreBoth(f, player) : r.fly \in FlyType
<1> DEFINE done == [ f EXCEPT !.code = "enabled", !.active = TRUE, !.patched = TRUE ]
           unpatched == [ f EXCEPT !.patched = FALSE ]
           rolled == { q.fly : q \in SetCanJumpOff(Failed(done)) }
           flagged(g) == [ g EXCEPT !.error = TRUE ]
<1>1. /\ \A g \in FlyType : flagged(g) \in FlyType
      /\ \A g \in FlyType : [ g EXCEPT !.error = FALSE ] \in FlyType
  BY DEF FlyType
<1>2. Failed(done) \in FlyType /\ Failed(unpatched) \in FlyType /\ done \in FlyType
  <2>1. done \in FlyType /\ unpatched \in FlyType
    BY DEF FlyType
  <2> HIDE DEF done, unpatched
  <2> QED
    BY <2>1, FlyTypes
<1>3. ASSUME NEW r \in SetCanJumpOn(f) PROVE r.fly \in FlyType
  <2>1. rolled \subseteq FlyType
    <3> HIDE DEF done
    <3>1. \A q \in SetCanJumpOff(Failed(done)) : q.fly \in FlyType
      BY <1>2, FlyTypes
    <3> QED
      BY <3>1
  <2>2. \A g, ok : Result(g, ok).fly = g
    BY DEF Result
  <2>3. CASE f.active
    <3>1. r = Result(f, TRUE)
      BY <2>3 DEF SetCanJumpOn
    <3> QED
      BY <2>2, <3>1
  <2>4. CASE ~f.active /\ f.code # "original"
    <3>1. r = Result(flagged(f), FALSE)
      BY <2>4 DEF SetCanJumpOn
    <3> HIDE DEF flagged
    <3>2. r.fly = flagged(f)
      BY <2>2, <3>1
    <3> QED
      BY <1>1, <3>2
  <2>5. CASE ~f.active /\ f.code = "original"
    <3>1. \/ r = Result(done, TRUE) \/ r = Result(Failed(unpatched), FALSE)
          \/ \E g \in rolled : r = Result(flagged(g), FALSE)
      BY <2>5 DEF SetCanJumpOn
    <3> HIDE DEF done, unpatched, rolled, flagged
    <3>2. CASE \E g \in rolled : r = Result(flagged(g), FALSE)
      <4>1. PICK g \in rolled : r = Result(flagged(g), FALSE)
        BY <3>2
      <4>2. r.fly = flagged(g)
        BY <2>2, <4>1
      <4> QED
        BY <1>1, <2>1, <4>2
    <3>3. CASE r = Result(done, TRUE) \/ r = Result(Failed(unpatched), FALSE)
      BY <1>2, <2>2, <3>3
    <3> QED
      BY <3>1, <3>2, <3>3
  <2> QED
    BY <2>3, <2>4, <2>5
<1>4. ASSUME NEW r \in RestoreBoth(f, player) PROVE r.fly \in FlyType
  <2>0. PICK m \in RestoreMovement(f, player) : \E p \in SetCanJumpOff(m.fly) :
          r.fly \in {p.fly, [ p.fly EXCEPT !.error = FALSE ]}
    BY DEF RestoreBoth, Result
  <2>1. PICK p \in SetCanJumpOff(m.fly) : r.fly \in {p.fly, [ p.fly EXCEPT !.error = FALSE ]}
    BY <2>0
  <2>2. m.fly \in FlyType
    BY FlyTypes
  <2>3. p.fly \in FlyType
    BY <2>2, FlyTypes
  <2> QED
    BY <1>1, <2>1, <2>3
<1> QED
  BY <1>3, <1>4

(* The fly state stays one: steps of the game thread. *)
LEMMA FlyTypeGame == ASSUME TypeInv, GameStep PROVE fly' \in FlyType
<1>0. fly \in FlyType /\ world.player \in Players /\ fly.faults + 1 \in Nat
  BY DEF TypeInv, Shape, FlyType
<1>1. CASE FlyEnter
  BY <1>0, <1>1 DEF FlyEnter
<1>2. CASE FlyOff
  BY <1>0, <1>2, FlyTypesOfBoth DEF FlyOff, FlyLeaves
<1>3. CASE FlySave
  BY <1>0, <1>3, FlyTypes DEF FlySave, FlyLeaves
<1>4. CASE FlyPatch
  <2>1. PICK r \in SetCanJumpOn(fly) :
          \/ fly' = r.fly
          \/ \E m \in RestoreMovement(r.fly, world.player) : fly' = m.fly
    BY <1>4 DEF FlyPatch, FlyLeaves
  <2>2. r.fly \in FlyType
    BY <1>0, FlyTypesOfBoth
  <2> QED
    BY <1>0, <2>1, <2>2, FlyTypes
<1>5. CASE FlyWrite
  <2>1. CASE fly' = [ fly EXCEPT !.movement = "fly", !.error = FALSE ]
    BY <1>0, <2>1 DEF FlyType
  <2>2. CASE \E p \in SetCanJumpOff(Failed(fly)) :
               \E m \in RestoreMovement(p.fly, world.player) : fly' = m.fly
    <3>1. PICK p \in SetCanJumpOff(Failed(fly)) :
            \E m \in RestoreMovement(p.fly, world.player) : fly' = m.fly
      BY <2>2
    <3>2. Failed(fly) \in FlyType
      BY <1>0, FlyTypes
    <3>3. p.fly \in FlyType
      BY <1>0, <3>2, FlyTypes
    <3> QED
      BY <1>0, <3>1, <3>3, FlyTypes
  <2> QED
    BY <1>5, <2>1, <2>2 DEF FlyWrite, FlyLeaves
<1>6. CASE TickTelemetry
  <2>1. PICK read \in BOOLEAN :
          fly' = [ fly EXCEPT !.faults = IF read THEN @ ELSE @ + 1 ]
    BY <1>6 DEF TickTelemetry
  <2>2. CASE read
    BY <1>0, <2>1, <2>2 DEF FlyType
  <2>3. CASE ~read
    BY <1>0, <2>1, <2>3 DEF FlyType
  <2> QED
    BY <2>2, <2>3
<1>7. CASE \E player \in Players : PlayerReplaced(player)
  BY <1>0, <1>7 DEF PlayerReplaced, FlyType
<1>8. CASE \/ TickDetoured \/ TickOfOther \/ TickOfLocal \/ TickSprint \/ TeleportStep
           \/ PublishStep \/ TickLeaves \/ TickAges
           \/ \E place \in Places : WorldMoves(place)
  BY <1>0, <1>8 DEF TickDetoured, TickOfOther, TickOfLocal, TickSprint, TeleportStep,
     TeleportSeen, CopyX, CopyY, TeleportReplaced, SetPosition, TeleportJudged,
     TeleportAcknowledged, PublishStep, PublishFails, PublishBegins, PublishHalves,
     PublishEnds, TickLeaves, TickAges, WorldMoves
<1> QED
  BY <1>1, <1>2, <1>3, <1>4, <1>5, <1>6, <1>7, <1>8 DEF GameStep, TickStep, FlyStep

(* ... of the library's thread, which also reports its state. *)
LEMMA TypeWorker ==
  ASSUME TypeInv, WorkerStep
  PROVE  fly' \in FlyType /\ status' \in StatusType /\ sprint' \in SprintType
         /\ worker' \in WorkerLabels
<1>0. /\ fly \in FlyType /\ status \in StatusType /\ sprint \in SprintType
      /\ worker \in WorkerLabels /\ world.player \in Players /\ fly.faults + 1 \in Nat
  BY DEF TypeInv, Shape, FlyType
<1>1. CASE InitializeSharedState
  <2>1. fly' \in FlyType
    BY <1>0, <1>1 DEF InitializeSharedState, InitFly, FlyType
  <2>2. status' \in StatusType /\ sprint' \in SprintType /\ worker' \in WorkerLabels
    BY <1>1 DEF InitializeSharedState, ZeroStatus, ZeroSprint, GoWorker, WorkerLabels,
       StatusType, SprintType
  <2> QED
    BY <2>1, <2>2
<1>2. [ fly EXCEPT !.faults = @ + 1 ] \in FlyType
  BY <1>0 DEF FlyType
<1>3. \A error \in 0..25 : Reports(error) \in StatusType
  BY <1>0 DEF Reports, StatusType
<1>4. CASE InitializeFails
  BY <1>0, <1>2, <1>4 DEF InitializeFails, GoWorker, WorkerLabels
<1>5. CASE VerifyRuntimeSignatures
  BY <1>0, <1>2, <1>3, <1>5 DEF VerifyRuntimeSignatures, FailAndExit, GoWorker, WorkerLabels
<1>6. CASE CreateHooks
  BY <1>0, <1>2, <1>3, <1>6 DEF CreateHooks, FailAndExit, GoWorker, WorkerLabels
<1>7. CASE EnableHooks
  BY <1>0, <1>2, <1>7 DEF EnableHooks, GoWorker, WorkerLabels
<1>8. CASE RollBackHooks \/ RollBackDrained
  BY <1>0, <1>2, <1>3, <1>8 DEF RollBackHooks, RollBackDrained, StaysResident, FailAndExit,
     GoWorker, WorkerLabels
<1>9. CASE AnnounceReady
  BY <1>0, <1>9 DEF AnnounceReady, GoWorker, WorkerLabels, StatusType
<1>10. CASE WatchdogStep
  <2>1. [ status EXCEPT !.player = NoPlayer, !.telemetry = FALSE ] \in StatusType
    BY <1>0 DEF StatusType
  <2> QED
    BY <1>0, <1>10, <2>1 DEF WatchdogStep, WatchdogDecides, WatchdogClears, GoWorker, WorkerLabels
<1>11. CASE ShutdownSeen
  <2>1. [ fly EXCEPT !.enabled = FALSE ] \in FlyType
    BY <1>0 DEF FlyType
  <2> QED
    BY <1>0, <1>11, <2>1 DEF ShutdownSeen, GoWorker, WorkerLabels
<1>12. CASE RestoreObserved \/ RestoreWaitEnds \/ Drained \/ ExitWorker
  BY <1>0, <1>12 DEF RestoreObserved, RestoreWaitEnds, Drained, ExitWorker, GoWorker, WorkerLabels
<1>13. CASE RestoreByWorker
  <2>1. fly' \in FlyType
    BY <1>0, <1>13, FlyTypesOfBoth DEF RestoreByWorker
  <2> QED
    BY <1>0, <1>3, <1>13, <2>1 DEF RestoreByWorker, StaysResident, GoWorker, WorkerLabels
<1>14. CASE DisableHooks
  <2>1. [ status EXCEPT !.hookReady = 0, !.tickHook = FALSE ] \in StatusType
    BY <1>0 DEF StatusType
  <2> QED
    BY <1>0, <1>2, <1>3, <1>14, <2>1 DEF DisableHooks, StaysResident, GoWorker, WorkerLabels
<1> QED
  BY <1>1, <1>4, <1>5, <1>6, <1>7, <1>8, <1>9, <1>10, <1>11, <1>12, <1>13, <1>14
     DEF WorkerStep, InitStep, ShutdownStep

(* ... and of a controller. *)
LEMMA TypeTool ==
  ASSUME TypeInv, NEW c \in Controllers, ToolStep(c)
  PROVE  fly' \in FlyType /\ status' \in StatusType /\ sprint' \in SprintType
         /\ worker' \in WorkerLabels
<1>0. /\ fly \in FlyType /\ status \in StatusType /\ sprint \in SprintType
      /\ worker \in WorkerLabels
  BY DEF TypeInv
<1>1. /\ \A on \in BOOLEAN : [ fly EXCEPT !.enabled = on ] \in FlyType
      /\ [ status EXCEPT !.shutdown = TRUE ] \in StatusType
      /\ [ status EXCEPT !.player = NoPlayer, !.telemetry = FALSE ] \in StatusType
      /\ \A on \in BOOLEAN : [ sprint EXCEPT !.override = on ] \in SprintType
      /\ [ sprint EXCEPT !.requested = TRUE ] \in SprintType
  BY <1>0 DEF FlyType, StatusType, SprintType
<1>2. CASE MailboxStep(c) \/ SnapshotStep(c) \/ CommandEnds(c)
  BY <1>0, <1>2 DEF MailboxStep, MailboxRead, MailboxAcquired, MailboxLost, WriteX, WriteY,
     MailboxSubmitted, AnswerSeen, ResultRead, SnapshotStep, SequenceRead, ReadY,
     SequenceCompared, CommandEnds
<1>3. CASE InjectChecks(c) \/ InjectLoads(c) \/ FlyOnChecks(c) \/ CapturePlayer(c)
  BY <1>0, <1>1, <1>3 DEF InjectChecks, InjectLoads, FlyOnChecks, CapturePlayer, WorkerLabels
<1>4. CASE FlyOn(c) \/ FlyOffTyped(c) \/ ShutdownTyped(c) \/ ShutdownRequested(c)
  BY <1>0, <1>1, <1>4 DEF FlyOn, FlyOffTyped, ShutdownTyped, ShutdownRequested
<1>5. CASE CallInternalSprint(c) \/ \E on \in BOOLEAN : HookSprint(c, on)
  BY <1>0, <1>1, <1>5 DEF CallInternalSprint, HookSprint
<1>6. CASE \/ Looks(c, "position", "shown") \/ Looks(c, "teleport-up", "request")
           \/ \E place \in Places : Teleport(c, place) \/ TeleportUp(c, place)
  BY <1>0, <1>6 DEF Looks, Teleport, TeleportUp, QueueTeleport
<1> QED
  BY <1>2, <1>3, <1>4, <1>5, <1>6 DEF ToolStep, CommandStep

(* The game thread writes no status but the player it saw. *)
LEMMA TypeGame ==
  ASSUME TypeInv, GameStep
  PROVE  status' \in StatusType /\ sprint' \in SprintType /\ worker' \in WorkerLabels
<1>0. /\ status \in StatusType /\ sprint \in SprintType /\ worker \in WorkerLabels
      /\ world.player \in Players /\ sprint.calls + 1 \in Nat
  BY DEF TypeInv, Shape, SprintType
<1>1. CASE TickOfLocal
  BY <1>0, <1>1 DEF TickOfLocal, StatusType
<1>2. CASE TickSprint
  BY <1>0, <1>2 DEF TickSprint, SprintType
<1>3. CASE TickTelemetry
  <2>1. PICK read \in BOOLEAN : status' = [ status EXCEPT !.telemetry = read ]
    BY <1>3 DEF TickTelemetry
  <2>2. status' \in StatusType
    BY <1>0, <2>1 DEF StatusType
  <2> QED
    BY <1>0, <1>3, <2>2 DEF TickTelemetry
<1>4. CASE TickAges
  BY <1>0, <1>4 DEF TickAges, StatusType
<1>5. CASE \/ TickDetoured \/ TickOfOther \/ FlyStep \/ TeleportStep \/ PublishStep \/ TickLeaves
           \/ \E place \in Places : WorldMoves(place)
           \/ \E player \in Players : PlayerReplaced(player)
  BY <1>0, <1>5 DEF TickDetoured, TickOfOther, FlyStep, FlyEnter, FlyOff, FlySave, FlyPatch,
     FlyWrite, TeleportStep, TeleportSeen, CopyX, CopyY, TeleportReplaced, SetPosition,
     TeleportJudged, TeleportAcknowledged, PublishStep, PublishFails, PublishBegins,
     PublishHalves, PublishEnds, TickLeaves, WorldMoves, PlayerReplaced
<1> QED
  BY <1>1, <1>2, <1>3, <1>4, <1>5 DEF GameStep, TickStep

(* No id passes the largest LONG: steps of the game and the library, which *)
(* only copy ids or zero them.                                             *)
LEMMA LongLibrary ==
  ASSUME TypeInv, GameStep \/ WorkerStep
  PROVE  LongOK'
<1>0. LongOK /\ Shape /\ LongMax \in Nat
  BY IslandAssumption DEF TypeInv
<1>t. tick \in TickType /\ ctl \in [ Controllers -> CtlType ]
  BY <1>0 DEF Shape
<1>1. CASE GameStep
  <2>1. /\ teleport'.request = teleport.request
        /\ teleport'.completed \in {teleport.completed, tick.id}
        /\ tick'.id \in {tick.id, 0, teleport.request}
        /\ \A c \in Controllers : ctl'[c].prev = ctl[c].prev /\ ctl'[c].pc = ctl[c].pc
    <3>1. CASE TeleportStep
      <4>1. CASE SetPosition
        <5>1. \A c \in Controllers : ctl'[c].prev = ctl[c].prev /\ ctl'[c].pc = ctl[c].pc
          BY <1>t, <4>1 DEF SetPosition, CtlType
        <5> QED
          BY <1>0, <1>t, <4>1, <5>1 DEF SetPosition, TickType
      <4>2. CASE TeleportSeen \/ CopyX \/ CopyY \/ TeleportReplaced
        BY <1>0, <1>t, <4>2 DEF TeleportSeen, CopyX, CopyY, TeleportReplaced, TickType, IdleTick
      <4>3. CASE TeleportJudged \/ TeleportAcknowledged
        BY <1>0, <1>t, <4>3 DEF TeleportJudged, TeleportAcknowledged, GoTick, TickType, Shape,
           IdleTick
      <4> QED
        BY <3>1, <4>1, <4>2, <4>3 DEF TeleportStep
    <3>2. CASE FlyStep
      BY <1>t, <3>2 DEF FlyStep, FlyEnter, FlyOff, FlySave, FlyPatch, FlyWrite, FlyLeaves,
         GoTick, TickType
    <3>3. CASE TickDetoured \/ TickOfOther \/ TickOfLocal \/ TickSprint \/ TickTelemetry \/ TickLeaves
      BY <1>t, <3>3 DEF TickDetoured, TickOfOther, TickOfLocal, TickSprint, TickTelemetry,
         TickLeaves, GoTick, TickType, IdleTick
    <3>4. CASE PublishStep
      BY <1>t, <3>4 DEF PublishStep, PublishFails, PublishBegins, PublishHalves, PublishEnds,
         GoTick, TickType
    <3>5. CASE \/ TickAges \/ \E place \in Places : WorldMoves(place)
               \/ \E player \in Players : PlayerReplaced(player)
      BY <3>5 DEF TickAges, WorldMoves, PlayerReplaced
    <3> QED
      BY <1>1, <3>1, <3>2, <3>3, <3>4, <3>5 DEF GameStep, TickStep
  <2> QED
    BY <1>0, <2>1 DEF LongOK
<1>2. CASE WorkerStep
  <2>1. teleport' \in {teleport, ZeroTeleport} /\ tick' = tick /\ ctl' = ctl
    BY <1>2 DEF WorkerStep, InitStep, WatchdogStep, ShutdownStep, InitializeSharedState,
       InitializeFails, VerifyRuntimeSignatures, CreateHooks, EnableHooks, RollBackHooks,
       RollBackDrained, AnnounceReady, WatchdogDecides, WatchdogClears, ShutdownSeen,
       RestoreObserved, RestoreWaitEnds, RestoreByWorker, DisableHooks, Drained, ExitWorker
  <2> QED
    BY <1>0, <2>1 DEF LongOK, ZeroTeleport
<1> QED
  BY <1>1, <1>2

(* ... and of a controller, which takes the mailbox only while there is    *)
(* room for its two ids.                                                   *)
LEMMA LongTool ==
  ASSUME TypeInv, NEW c \in Controllers, ToolStep(c)
  PROVE  LongOK'
<1>0. /\ LongOK /\ LongMax \in Nat /\ ctl \in [ Controllers -> CtlType ]
      /\ teleport.request \in Nat /\ teleport.completed \in Nat
      /\ ctl[c].prev \in Nat
      /\ teleport \in [ request : Nat, completed : Nat, succeeded : BOOLEAN,
                        x : Places, y : Places ]
  BY IslandAssumption DEF TypeInv, Shape, CtlType
<1>1. ASSUME tick' = tick, teleport' = teleport, NEW k,
             ctl' = [ ctl EXCEPT ![c] = k ], k.prev \in {ctl[c].prev, 0},
             k.pc \in Claiming => ctl[c].pc \in Claiming /\ k.prev = ctl[c].prev
      PROVE  LongOK'
  <2>1. \A d \in Controllers : d # c => ctl'[d] = ctl[d]
    BY <1>0, <1>1
  <2>2. ctl'[c] = k
    BY <1>0, <1>1
  <2> QED
    BY <1>0, <1>1, <2>1, <2>2 DEF LongOK
<1>2. CASE MailboxRead(c)
  <2>1. CASE ctl' = [ ctl EXCEPT ![c] = IdleController ]
    BY <1>1, <1>2, <2>1 DEF MailboxRead, IdleController, Claiming
  <2>2. CASE /\ teleport.request <= LongMax - 2
             /\ ctl' = [ ctl EXCEPT ![c].pc = "acquire", ![c].prev = teleport.request ]
    <3>1. /\ ctl'[c].prev = teleport.request
          /\ \A d \in Controllers : d # c => ctl'[d] = ctl[d]
      BY <1>0, <2>2 DEF CtlType
    <3>2. teleport' = teleport /\ tick' = tick
      BY <1>2 DEF MailboxRead
    <3> QED
      BY <1>0, <2>2, <3>1, <3>2 DEF LongOK
  <2>3. teleport.request > LongMax - 2 \/ teleport.request <= LongMax - 2
    BY <1>0
  <2>4. \/ ctl' = [ ctl EXCEPT ![c] = IdleController ]
        \/ /\ ~(teleport.request > LongMax - 2)
           /\ ctl' = [ ctl EXCEPT ![c].pc = "acquire", ![c].prev = teleport.request ]
    BY <1>2 DEF MailboxRead, Ends
  <2> QED
    BY <2>1, <2>2, <2>3, <2>4
<1>3. CASE MailboxAcquired(c) \/ MailboxSubmitted(c)
  <2>1. ctl[c].pc \in Claiming /\ ctl[c].prev <= LongMax - 2
    BY <1>0, <1>3 DEF MailboxAcquired, MailboxSubmitted, At, Claiming, LongOK
  <2>2. /\ teleport'.request \in {ctl[c].prev + 1, ctl[c].prev + 2}
        /\ teleport'.completed = teleport.completed /\ tick' = tick
    BY <1>0, <1>3 DEF MailboxAcquired, MailboxSubmitted
  <2>3. /\ ctl'[c].prev = ctl[c].prev
        /\ \A d \in Controllers : d # c => ctl'[d] = ctl[d]
    BY <1>0, <1>3 DEF MailboxAcquired, MailboxSubmitted, Go, CtlType
  <2> QED
    BY <1>0, <2>1, <2>2, <2>3 DEF LongOK
<1>4. CASE WriteX(c) \/ WriteY(c)
  <2>1. /\ teleport'.request = teleport.request /\ teleport'.completed = teleport.completed
        /\ tick' = tick /\ ctl[c].pc \in Claiming
    BY <1>0, <1>4 DEF WriteX, WriteY, At, Claiming
  <2>2. /\ ctl'[c].prev = ctl[c].prev
        /\ \A d \in Controllers : d # c => ctl'[d] = ctl[d]
    BY <1>0, <1>4 DEF WriteX, WriteY, Go, CtlType
  <2> QED
    BY <1>0, <2>1, <2>2 DEF LongOK
<1>5. ASSUME tick' = tick, teleport' = teleport,
             ctl' = [ ctl EXCEPT ![c] = IdleController ]
      PROVE  LongOK'
  BY <1>1, <1>5 DEF IdleController, Claiming
<1>6. CASE MailboxLost(c) \/ CommandEnds(c) \/ InjectLoads(c) \/ ShutdownRequested(c)
  BY <1>5, <1>6 DEF MailboxLost, CommandEnds, InjectLoads, ShutdownRequested, Ends
<1>7. ASSUME tick' = tick, teleport' = teleport,
             NEW l \in ToolLabels \ Claiming, ctl' = [ ctl EXCEPT ![c].pc = l ]
      PROVE  LongOK'
  <2>1. /\ ctl' = [ ctl EXCEPT ![c] = [ ctl[c] EXCEPT !.pc = l ] ]
        /\ [ ctl[c] EXCEPT !.pc = l ].prev = ctl[c].prev
        /\ [ ctl[c] EXCEPT !.pc = l ].pc = l
    BY <1>0, <1>7 DEF CtlType
  <2> QED
    BY <1>1, <1>7, <2>1
<1>8. CASE \/ AnswerSeen(c) \/ InjectChecks(c) \/ FlyOnChecks(c) \/ FlyOn(c) \/ FlyOffTyped(c)
           \/ ShutdownTyped(c) \/ CallInternalSprint(c)
  <2>1. {"result", "load", "flyOn", "flyWait", "shutdownWait", "sprintWait"}
          \subseteq ToolLabels \ Claiming
    BY DEF ToolLabels, Claiming
  <2>2. \E l \in {"result", "load", "flyOn", "flyWait", "shutdownWait", "sprintWait"} :
          ctl' = [ ctl EXCEPT ![c].pc = l ] /\ tick' = tick /\ teleport' = teleport
    BY <1>8 DEF AnswerSeen, InjectChecks, FlyOnChecks, FlyOn, FlyOffTyped, ShutdownTyped,
       CallInternalSprint, Go
  <2> QED
    BY <1>7, <2>1, <2>2
<1>9. CASE ResultRead(c) \/ SnapshotStep(c)
  <2>1. /\ ctl'[c].prev \in {ctl[c].prev, 0} /\ ctl'[c].pc \notin Claiming
        /\ \A d \in Controllers : d # c => ctl'[d] = ctl[d]
    BY <1>0, <1>9 DEF ResultRead, SnapshotStep, SequenceRead, ReadY, SequenceCompared, Go, Ends,
       CtlType, Claiming, IdleController
  <2>2. tick' = tick /\ teleport' = teleport
    BY <1>9 DEF ResultRead, SnapshotStep, SequenceRead, ReadY, SequenceCompared
  <2> QED
    BY <1>0, <2>1, <2>2 DEF LongOK
<1>10. CASE CapturePlayer(c) \/ \E on \in BOOLEAN : HookSprint(c, on)
  BY <1>0, <1>10 DEF CapturePlayer, HookSprint, LongOK
<1>11. CASE \/ Looks(c, "position", "shown") \/ Looks(c, "teleport-up", "request")
            \/ \E place \in Places : Teleport(c, place) \/ TeleportUp(c, place)
  <2>1. \E k : /\ ctl' = [ ctl EXCEPT ![c] = k ] /\ k.prev = 0 /\ k.pc \notin Claiming
               /\ tick' = tick /\ teleport' = teleport
    <3>1. ASSUME NEW next, Looks(c, "position", next) \/ Looks(c, "teleport-up", next)
          PROVE  \E k : /\ ctl' = [ ctl EXCEPT ![c] = k ] /\ k.prev = 0 /\ k.pc \notin Claiming
                        /\ tick' = tick /\ teleport' = teleport
      <4> DEFINE k == [ IdleController EXCEPT !.pc = "snapshot", !.next = next ]
      <4>1. k.prev = 0 /\ k.pc \notin Claiming
        BY DEF IdleController, Claiming
      <4>2. ctl' = [ ctl EXCEPT ![c] = k ] /\ tick' = tick /\ teleport' = teleport
        BY <3>1 DEF Looks
      <4> QED
        BY <4>1, <4>2
    <3>2. ASSUME NEW place, Teleport(c, place) \/ TeleportUp(c, place)
          PROVE  \E k : /\ ctl' = [ ctl EXCEPT ![c] = k ] /\ k.prev = 0 /\ k.pc \notin Claiming
                        /\ tick' = tick /\ teleport' = teleport
      <4> DEFINE k == [ IdleController EXCEPT !.pc = "request", !.dest = place ]
      <4>1. k.prev = 0 /\ k.pc \notin Claiming
        BY DEF IdleController, Claiming
      <4>2. ctl' = [ ctl EXCEPT ![c] = k ] /\ tick' = tick /\ teleport' = teleport
        BY <3>2 DEF Teleport, TeleportUp, QueueTeleport
      <4> QED
        BY <4>1, <4>2
    <3> QED
      BY <1>11, <3>1, <3>2
  <2> QED
    BY <1>1, <2>1
<1> QED
  BY <1>2, <1>3, <1>4, <1>6, <1>8, <1>9, <1>10, <1>11 DEF ToolStep, CommandStep, MailboxStep

(* The types of the mapping, of the library's globals and of every program *)
(* counter, for every load: no id of the mailbox passes the largest LONG,  *)
(* whatever controllers do (shared_state.hpp, external_tool.cpp:1100-1125).*)
THEOREM IslandTypes == Spec => []TypeOK
<1>1. Init => TypeInv
  <2> SUFFICES ASSUME Init PROVE TypeInv
    OBVIOUS
  <2> USE IslandAssumption
  <2>1. Shape
    BY InitInv DEF IInv
  <2>2. LongOK
    BY DEF Init, InitShared, LongOK, ZeroTeleport, IdleTick, IdleController, Claiming
  <2>3. fly \in FlyType /\ status \in StatusType /\ sprint \in SprintType /\ worker \in WorkerLabels
    BY DEF Init, InitShared, InitFly, ZeroStatus, ZeroSprint, FlyType, StatusType, SprintType,
       WorkerLabels
  <2> QED
    BY <2>1, <2>2, <2>3 DEF TypeInv
<1>2. TypeInv /\ [Next]_vars => TypeInv'
  <2> SUFFICES ASSUME TypeInv, [Next]_vars PROVE TypeInv'
    OBVIOUS
  <2>0. Shape
    BY DEF TypeInv
  <2>1. CASE GameStep
    BY <2>0, <2>1, ShapeGame, LongLibrary, FlyTypeGame, TypeGame DEF TypeInv
  <2>2. CASE WorkerStep
    BY <2>0, <2>2, ShapeWorker, LongLibrary, TypeWorker DEF TypeInv
  <2>3. CASE \E c \in Controllers : ToolStep(c)
    BY <2>0, <2>3, ShapeTool, LongTool, TypeTool DEF TypeInv
  <2>4. CASE UNCHANGED vars
    BY <2>4 DEF vars, TypeInv, Shape, LongOK
  <2> QED
    BY <2>1, <2>2, <2>3, <2>4 DEF Next
<1>3. TypeInv => TypeOK
  <2> SUFFICES ASSUME TypeInv PROVE TypeOK
    OBVIOUS
  <2>0. LongMax \in Nat
    BY IslandAssumption
  <2>1. teleport \in [ request : 0..LongMax, completed : 0..LongMax, succeeded : BOOLEAN,
                       x : Places, y : Places ]
    BY <2>0 DEF TypeInv, Shape, LongOK
  <2>2. tick \in [ pc : TickLabels, id : 0..LongMax, x : Places, y : Places,
                   then : {"leave", "acknowledge"} ]
    BY <2>0 DEF TypeInv, Shape, LongOK, TickType
  <2>3. ctl \in [ Controllers ->
                  [ pc : ToolLabels, next : {"idle", "shown", "request", "reported"},
                    prev : 0..LongMax, dest : Places, before : Nat, x : Places, y : Places,
                    setAt : Int ] ]
    BY <2>0 DEF TypeInv, Shape, LongOK, CtlType
  <2> QED
    BY <2>1, <2>2, <2>3 DEF TypeInv, Shape, TypeOK, FlyType, StatusType, SprintType
<1> QED
  BY <1>1, <1>2, <1>3, PTL DEF Spec
=============================================================================
