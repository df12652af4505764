----------------------------- MODULE IslandTick -----------------------------
(***************************************************************************)
(* The game thread: the world it simulates and the hooked Player::Tick, in *)
(* the order of HookPlayerTick.  A program counter names the next step;    *)
(* "prologue" is the detour before HookActivityGuard has counted the call. *)
(***************************************************************************)
EXTENDS IslandShared

TickAt(label) == tick.pc = label
GoTick(label) == tick' = [ tick EXCEPT !.pc = label ]

(* The local player moves, or is replaced by a fresh object.               *)
WorldMoves(place) ==
  /\ TickAt("game") /\ lib.refs > 0 /\ place # world.place
  /\ world' = [ world EXCEPT !.place = place ]
  /\ UNCHANGED <<status, position, teleport, sprint, fly, lib, tick, worker, ctl>>

PlayerReplaced(player) ==
  /\ TickAt("game") /\ lib.refs > 0 /\ player # world.player
  /\ world' = [ world EXCEPT !.player = player ]
  /\ fly' = [ fly EXCEPT !.movement = "own" ]
  /\ UNCHANGED <<status, position, teleport, sprint, lib, tick, worker, ctl>>

(* Two seconds pass since the last local tick.                             *)
TickAges ==
  /\ Pauses /\ status.lastTick = "fresh"
  /\ status' = [ status EXCEPT !.lastTick = "stale" ]
  /\ UNCHANGED <<position, teleport, sprint, fly, lib, world, tick, worker, ctl>>

-----------------------------------------------------------------------------
TickDetoured ==
  /\ TickAt("game") /\ lib.hooks /\ position.seq < SeqBound
  /\ GoTick("prologue")
  /\ UNCHANGED <<status, position, teleport, sprint, fly, lib, world, worker, ctl>>

(* A tick of another player's object touches nothing but the counter.      *)
TickOfOther ==
  /\ TickAt("prologue") /\ OtherPlayers
  /\ lib' = [ lib EXCEPT !.active = @ + 1 ]
  /\ GoTick("leave")
  /\ UNCHANGED <<status, position, teleport, sprint, fly, world, worker, ctl>>

TickOfLocal ==
  /\ TickAt("prologue")
  /\ lib' = [ lib EXCEPT !.active = @ + 1 ]
  /\ status' = [ status EXCEPT !.player = world.player, !.lastTick = "fresh" ]
  /\ GoTick("fly")
  /\ UNCHANGED <<position, teleport, sprint, fly, world, worker, ctl>>

(* ProcessFlyOnGameThread: g_fly_lock is held from FlyEnter to "sprint".   *)
FlyLeaves(f) ==
  /\ fly' = f
  /\ lib' = [ lib EXCEPT !.lock = "free" ]
  /\ GoTick("sprint")

FlyEnter ==
  /\ TickAt("fly") /\ lib.lock = "free"
  /\ lib' = [ lib EXCEPT !.lock = "tick" ]
  /\ GoTick(IF fly.enabled THEN "flySave" ELSE "flyOff")
  /\ UNCHANGED <<status, position, teleport, sprint, fly, world, worker, ctl>>

FlyOff ==
  /\ TickAt("flyOff")
  /\ \E r \in RestoreBoth(fly, world.player) : FlyLeaves(r.fly)
  /\ UNCHANGED <<status, position, teleport, sprint, world, worker, ctl>>

FlySave ==
  /\ TickAt("flySave")
  /\ \E r \in SaveMovement(fly, world.player) :
       IF r.ok THEN fly' = r.fly /\ GoTick("flyPatch") /\ UNCHANGED lib
               ELSE FlyLeaves(r.fly)
  /\ UNCHANGED <<status, position, teleport, sprint, world, worker, ctl>>

FlyPatch ==
  /\ TickAt("flyPatch")
  /\ \E r \in SetCanJumpOn(fly) :
       IF r.ok THEN fly' = r.fly /\ GoTick("flyWrite") /\ UNCHANGED lib
               ELSE \E m \in RestoreMovement(r.fly, world.player) : FlyLeaves(m.fly)
  /\ UNCHANGED <<status, position, teleport, sprint, world, worker, ctl>>

FlyWrite ==
  /\ TickAt("flyWrite")
  /\ \/ FlyLeaves([ fly EXCEPT !.movement = "fly", !.error = FALSE ])
     \/ /\ MayFail(fly)
        /\ \E p \in SetCanJumpOff(Failed(fly)) :
             \E m \in RestoreMovement(p.fly, world.player) : FlyLeaves(m.fly)
  /\ UNCHANGED <<status, position, teleport, sprint, world, worker, ctl>>

(* ProcessInternalSprintOnGameThread, then the original tick.              *)
TickSprint ==
  /\ TickAt("sprint")
  /\ sprint' = [ sprint EXCEPT !.requested = FALSE,
                               !.calls = IF sprint.requested THEN @ + 1 ELSE @ ]
  /\ GoTick("teleport")
  /\ UNCHANGED <<status, position, teleport, fly, lib, world, worker, ctl>>

-----------------------------------------------------------------------------
(* Mutant: the acknowledged id is not compared, a request is taken again.  *)
TeleportSeenTwice ==
  /\ TickAt("teleport")
  /\ IF teleport.request = 0 \/ Odd(teleport.request)
     THEN tick' = [ tick EXCEPT !.pc = "publish", !.then = "leave" ]
     ELSE tick' = [ tick EXCEPT !.pc = "copyX", !.id = teleport.request ]
  /\ UNCHANGED <<status, position, teleport, sprint, fly, lib, world, worker, ctl>>

(* ProcessTeleportAfterOriginalTick: id, copy of both halves, second look  *)
(* at the id with Actor::SetPosition, publication, acknowledgement.        *)
TeleportSeen ==
  /\ TickAt("teleport")
  /\ IF \/ teleport.request = 0 \/ Odd(teleport.request)
        \/ teleport.request = teleport.completed
     THEN tick' = [ tick EXCEPT !.pc = "publish", !.then = "leave" ]
     ELSE tick' = [ tick EXCEPT !.pc = "copyX", !.id = teleport.request ]
  /\ UNCHANGED <<status, position, teleport, sprint, fly, lib, world, worker, ctl>>

CopyX ==
  /\ TickAt("copyX")
  /\ tick' = [ tick EXCEPT !.pc = "copyY", !.x = teleport.x ]
  /\ UNCHANGED <<status, position, teleport, sprint, fly, lib, world, worker, ctl>>

CopyY ==
  /\ TickAt("copyY")
  /\ tick' = [ tick EXCEPT !.pc = "confirm", !.y = teleport.y ]
  /\ UNCHANGED <<status, position, teleport, sprint, fly, lib, world, worker, ctl>>

TeleportReplaced ==
  /\ TickAt("confirm") /\ teleport.request # tick.id
  /\ tick' = [ IdleTick EXCEPT !.pc = "publish" ]
  /\ UNCHANGED <<status, position, teleport, sprint, fly, lib, world, worker, ctl>>

(* Mutant: the request is judged by the position of the previous tick.     *)
SetPositionUnpublished ==
  /\ TickAt("confirm") /\ teleport.request = tick.id
  /\ \E place \in {tick.x, world.place} : world' = [ world EXCEPT !.place = place ]
  /\ GoTick("accept")
  /\ ctl' = [ c \in Controllers |->
               IF ctl[c].pc = "await" /\ ctl[c].prev + 2 = tick.id
               THEN [ ctl[c] EXCEPT !.setAt = position.seq ] ELSE ctl[c] ]
  /\ UNCHANGED <<status, position, teleport, sprint, fly, lib, worker>>

(* Actor::SetPosition may have no effect; the acknowledgement tells.       *)
SetPosition ==
  /\ TickAt("confirm") /\ teleport.request = tick.id
  /\ \E place \in {tick.x, world.place} : world' = [ world EXCEPT !.place = place ]
  /\ tick' = [ tick EXCEPT !.pc = "publish", !.then = "acknowledge" ]
  /\ ctl' = [ c \in Controllers |->
               IF ctl[c].pc = "await" /\ ctl[c].prev + 2 = tick.id
               THEN [ ctl[c] EXCEPT !.setAt = position.seq ] ELSE ctl[c] ]
  /\ UNCHANGED <<status, position, teleport, sprint, fly, lib, worker>>

(* PublishPosition, called after SetPosition and by UpdateTelemetry.  The  *)
(* halves are stored in one step: readers take them in two.                *)
PublishFails ==
  /\ TickAt("publish")
  /\ position' = [ position EXCEPT !.valid = FALSE ]
  /\ GoTick(IF tick.then = "leave" THEN "telemetry" ELSE "refuse")
  /\ UNCHANGED <<status, teleport, sprint, fly, lib, world, worker, ctl>>

PublishBegins ==
  /\ TickAt("publish")
  /\ position' = [ position EXCEPT !.valid = FALSE, !.seq = @ + 1 ]
  /\ GoTick("publishXY")
  /\ UNCHANGED <<status, teleport, sprint, fly, lib, world, worker, ctl>>

PublishHalves ==
  /\ TickAt("publishXY")
  /\ position' = [ position EXCEPT !.x = world.place, !.y = world.place ]
  /\ GoTick("publishEnd")
  /\ UNCHANGED <<status, teleport, sprint, fly, lib, world, worker, ctl>>

PublishEnds ==
  /\ TickAt("publishEnd")
  /\ position' = [ position EXCEPT !.seq = @ + 1, !.valid = TRUE ]
  /\ GoTick(IF tick.then = "leave" THEN "telemetry" ELSE "accept")
  /\ UNCHANGED <<status, teleport, sprint, fly, lib, world, worker, ctl>>

(* Mutant: only a teleport that took effect is acknowledged.               *)
TeleportJudgedIfDone ==
  /\ tick.pc \in {"accept", "refuse"}
  /\ IF TickAt("accept")
     THEN GoTick("acknowledge") /\ teleport' = [ teleport EXCEPT !.succeeded = TRUE ]
     ELSE tick' = [ IdleTick EXCEPT !.pc = "publish" ] /\ UNCHANGED teleport
  /\ UNCHANGED <<status, position, sprint, fly, lib, world, worker, ctl>>

(* teleport_succeeded, then teleport_completed_id.                         *)
TeleportJudged ==
  /\ tick.pc \in {"accept", "refuse"}
  /\ teleport' = [ teleport EXCEPT !.succeeded =
                     /\ TickAt("accept")
                     /\ position.x = tick.x /\ position.y = tick.y ]
  /\ GoTick("acknowledge")
  /\ UNCHANGED <<status, position, sprint, fly, lib, world, worker, ctl>>

TeleportAcknowledged ==
  /\ TickAt("acknowledge")
  /\ teleport' = [ teleport EXCEPT !.completed = tick.id ]
  /\ tick' = [ IdleTick EXCEPT !.pc = "publish" ]
  /\ UNCHANGED <<status, position, sprint, fly, lib, world, worker, ctl>>

-----------------------------------------------------------------------------
(* The rest of UpdateTelemetry, and the end of the activity guard.         *)
TickTelemetry ==
  /\ TickAt("telemetry")
  /\ \E read \in {TRUE} \cup { ~MayFail(fly) } :
       /\ status' = [ status EXCEPT !.telemetry = read ]
       /\ fly' = [ fly EXCEPT !.faults = IF read THEN @ ELSE @ + 1 ]
  /\ GoTick("leave")
  /\ UNCHANGED <<position, teleport, sprint, lib, world, worker, ctl>>

(* Mutant: the activity guard does not count the call out.                 *)
TickLeavesCounted ==
  /\ TickAt("leave")
  /\ tick' = IdleTick
  /\ UNCHANGED <<status, position, teleport, sprint, fly, lib, world, worker, ctl>>

TickLeaves ==
  /\ TickAt("leave")
  /\ lib' = [ lib EXCEPT !.active = @ - 1 ]
  /\ tick' = IdleTick
  /\ UNCHANGED <<status, position, teleport, sprint, fly, world, worker, ctl>>

FlyStep == FlyEnter \/ FlyOff \/ FlySave \/ FlyPatch \/ FlyWrite
TeleportStep ==
  \/ TeleportSeen \/ CopyX \/ CopyY \/ TeleportReplaced \/ SetPosition
  \/ TeleportJudged \/ TeleportAcknowledged
PublishStep == PublishFails \/ PublishBegins \/ PublishHalves \/ PublishEnds

(* The steps of a tick that has entered the detour.                        *)
TickStep ==
  \/ TickOfOther \/ TickOfLocal \/ FlyStep \/ TickSprint \/ TeleportStep
  \/ PublishStep \/ TickTelemetry \/ TickLeaves

GameStep ==
  \/ TickDetoured \/ TickStep \/ TickAges
  \/ \E place \in Places : WorldMoves(place)
  \/ \E player \in Players : PlayerReplaced(player)

=============================================================================
