----------------------------- MODULE IslandTool -----------------------------
(***************************************************************************)
(* The external tool: each controller is one console whose user types the  *)
(* commands of Commands.  A command opens the mapping, holds it until it   *)
(* ends and then forgets it.  A wait of the tool ends by what it waits for *)
(* or by its timeout, whichever the clock brings first.                    *)
(***************************************************************************)
EXTENDS IslandShared

At(c, label) == ctl[c].pc = label
Go(c, label) == ctl' = [ ctl EXCEPT ![c].pc = label ]
Ends(c) == ctl' = [ ctl EXCEPT ![c] = IdleController ]
Types(c, command) == At(c, "idle") /\ command \in Commands

(* OpenSharedState: the named object exists while anyone has it open.      *)
Holds(c) == ctl[c].pc \notin {"idle", "load"}
CanOpen(c) == lib.mapped \/ \E d \in Controllers \ {c} : Holds(d)
IsTickFresh == status.tickHook /\ status.lastTick = "fresh"

-----------------------------------------------------------------------------
(* inject: the module list is read first, the remote LoadLibraryW runs     *)
(* later; only the first reference runs DllMain and starts the worker.     *)
InjectChecks(c) ==
  /\ Types(c, "inject") /\ lib.refs = 0
  /\ Go(c, "load")
  /\ UNCHANGED <<status, position, teleport, sprint, fly, lib, world, tick, worker>>

InjectLoads(c) ==
  /\ At(c, "load") /\ lib.loads < MaxLoads
  /\ lib' = [ lib EXCEPT !.refs = @ + 1, !.loads = @ + 1 ]
  /\ worker' = IF lib.refs = 0 THEN "init" ELSE worker
  /\ Ends(c)
  /\ UNCHANGED <<status, position, teleport, sprint, fly, world, tick>>

-----------------------------------------------------------------------------
(* QueueTeleport.                                                          *)
QueueTeleport(c, place) ==
  /\ status.hookReady = 1 /\ IsTickFresh /\ status.player # NoPlayer
  /\ ctl' = [ ctl EXCEPT ![c] = [ IdleController EXCEPT !.pc = "request", !.dest = place ] ]
  /\ UNCHANGED <<status, position, teleport, sprint, fly, lib, world, tick, worker>>

Teleport(c, place) ==
  /\ Types(c, "teleport") /\ CanOpen(c)
  /\ QueueTeleport(c, place)

(* teleport-up: the destination keeps the coordinates of a snapshot.       *)
TeleportUp(c, place) ==
  /\ At(c, "got") /\ ctl[c].next = "request"
  /\ QueueTeleport(c, place)

(* Mutant: the id is advanced past the largest LONG.                       *)
MailboxReadOverflow(c) ==
  /\ At(c, "request")
  /\ IF Odd(teleport.request) \/ teleport.request # teleport.completed
     THEN Ends(c)
     ELSE ctl' = [ ctl EXCEPT ![c].pc = "acquire", ![c].prev = teleport.request ]
  /\ UNCHANGED <<status, position, teleport, sprint, fly, lib, world, tick, worker>>

MailboxRead(c) ==
  /\ At(c, "request")
  /\ IF \/ Odd(teleport.request)
        \/ teleport.request # teleport.completed
        \/ teleport.request > LongMax - 2
     THEN Ends(c)
     ELSE ctl' = [ ctl EXCEPT ![c].pc = "acquire", ![c].prev = teleport.request ]
  /\ UNCHANGED <<status, position, teleport, sprint, fly, lib, world, tick, worker>>

(* Mutant: the odd id is stored without comparing the one read before.     *)
MailboxTaken(c) ==
  /\ At(c, "acquire")
  /\ teleport' = [ teleport EXCEPT !.request = ctl[c].prev + 1 ]
  /\ Go(c, "writeX")
  /\ UNCHANGED <<status, position, sprint, fly, lib, world, tick, worker>>

MailboxAcquired(c) ==
  /\ At(c, "acquire") /\ teleport.request = ctl[c].prev
  /\ teleport' = [ teleport EXCEPT !.request = ctl[c].prev + 1 ]
  /\ Go(c, "writeX")
  /\ UNCHANGED <<status, position, sprint, fly, lib, world, tick, worker>>

MailboxLost(c) ==
  /\ At(c, "acquire") /\ teleport.request # ctl[c].prev
  /\ Ends(c)
  /\ UNCHANGED <<status, position, teleport, sprint, fly, lib, world, tick, worker>>

WriteX(c) ==
  /\ At(c, "writeX")
  /\ teleport' = [ teleport EXCEPT !.x = ctl[c].dest ]
  /\ Go(c, "writeY")
  /\ UNCHANGED <<status, position, sprint, fly, lib, world, tick, worker>>

WriteY(c) ==
  /\ At(c, "writeY")
  /\ teleport' = [ teleport EXCEPT !.y = ctl[c].dest ]
  /\ Go(c, "submit")
  /\ UNCHANGED <<status, position, sprint, fly, lib, world, tick, worker>>

MailboxSubmitted(c) ==
  /\ At(c, "submit")
  /\ teleport' = [ teleport EXCEPT !.request = ctl[c].prev + 2 ]
  /\ Go(c, "await")
  /\ UNCHANGED <<status, position, sprint, fly, lib, world, tick, worker>>

AnswerSeen(c) ==
  /\ At(c, "await") /\ teleport.completed = ctl[c].prev + 2
  /\ Go(c, "result")
  /\ UNCHANGED <<status, position, teleport, sprint, fly, lib, world, tick, worker>>

(* A success is reported with the position: PrintPosition.                 *)
ResultRead(c) ==
  /\ At(c, "result")
  /\ IF teleport.succeeded
     THEN ctl' = [ ctl EXCEPT ![c].pc = "snapshot", ![c].next = "reported" ]
     ELSE Ends(c)
  /\ UNCHANGED <<status, position, teleport, sprint, fly, lib, world, tick, worker>>

MailboxStep(c) ==
  \/ MailboxRead(c) \/ MailboxAcquired(c) \/ MailboxLost(c) \/ WriteX(c) \/ WriteY(c)
  \/ MailboxSubmitted(c) \/ AnswerSeen(c) \/ ResultRead(c)

-----------------------------------------------------------------------------
(* ReadPositionSnapshot, for position, status and player (next is "shown") *)
(* and for teleport-up (next is "request").                                *)
Looks(c, command, next) ==
  /\ Types(c, command) /\ CanOpen(c) /\ position.valid
  /\ ctl' = [ ctl EXCEPT ![c] = [ IdleController EXCEPT !.pc = "snapshot", !.next = next ] ]
  /\ UNCHANGED <<status, position, teleport, sprint, fly, lib, world, tick, worker>>

SequenceRead(c) ==
  /\ At(c, "snapshot") /\ ~Odd(position.seq)
  /\ ctl' = [ ctl EXCEPT ![c].pc = "readY", ![c].before = position.seq, ![c].x = position.x ]
  /\ UNCHANGED <<status, position, teleport, sprint, fly, lib, world, tick, worker>>

ReadY(c) ==
  /\ At(c, "readY")
  /\ ctl' = [ ctl EXCEPT ![c].pc = "compare", ![c].y = position.y ]
  /\ UNCHANGED <<status, position, teleport, sprint, fly, lib, world, tick, worker>>

(* Mutant: the second read of the sequence is left out.                    *)
SequenceIgnored(c) ==
  /\ At(c, "compare") /\ position.valid
  /\ Go(c, "got")
  /\ UNCHANGED <<status, position, teleport, sprint, fly, lib, world, tick, worker>>

(* An even sequence and x are read in one step: a publication between them *)
(* only fails the comparison.  A failed comparison begins the next of  *)
(* 20 attempts.                                                            *)
SequenceCompared(c) ==
  /\ At(c, "compare")
  /\ IF position.seq = ctl[c].before /\ position.valid
     THEN Go(c, "got")
     ELSE ctl' = [ ctl EXCEPT ![c].pc = "snapshot", ![c].before = 0,
                              ![c].x = Coordinate, ![c].y = Coordinate ]
  /\ UNCHANGED <<status, position, teleport, sprint, fly, lib, world, tick, worker>>

SnapshotStep(c) == SequenceRead(c) \/ ReadY(c) \/ SequenceCompared(c)

-----------------------------------------------------------------------------
(* The fly commands.  Each waits with the mapping open.                    *)
FlyOnChecks(c) ==
  /\ Types(c, "fly on") /\ CanOpen(c)
  /\ status.hookReady = 1 /\ IsTickFresh /\ status.player # NoPlayer
  /\ Go(c, "flyOn")
  /\ UNCHANGED <<status, position, teleport, sprint, fly, lib, world, tick, worker>>

FlyOn(c) ==
  /\ At(c, "flyOn")
  /\ fly' = [ fly EXCEPT !.enabled = TRUE ]
  /\ Go(c, "flyWait")
  /\ UNCHANGED <<status, position, teleport, sprint, lib, world, tick, worker>>

FlyOffTyped(c) ==
  /\ Types(c, "fly off") /\ CanOpen(c)
  /\ fly' = [ fly EXCEPT !.enabled = FALSE ]
  /\ Go(c, "flyWait")
  /\ UNCHANGED <<status, position, teleport, sprint, lib, world, tick, worker>>

(* shutdown-dll switches fly and the override off, waits for the           *)
(* restoration or 1.5 seconds, and then asks the worker to stop.           *)
ShutdownTyped(c) ==
  /\ Types(c, "shutdown-dll") /\ CanOpen(c)
  /\ fly' = [ fly EXCEPT !.enabled = FALSE ]
  /\ sprint' = [ sprint EXCEPT !.override = FALSE ]
  /\ Go(c, "shutdownWait")
  /\ UNCHANGED <<status, position, teleport, lib, world, tick, worker>>

ShutdownRequested(c) ==
  /\ At(c, "shutdownWait")
  /\ status' = [ status EXCEPT !.shutdown = TRUE ]
  /\ Ends(c)
  /\ UNCHANGED <<position, teleport, sprint, fly, lib, world, tick, worker>>

(* The other commands that write: capture-player, call-internal-sprint and *)
(* hook-sprint.                                                            *)
CapturePlayer(c) ==
  /\ Types(c, "capture-player") /\ CanOpen(c)
  /\ status' = [ status EXCEPT !.player = NoPlayer, !.telemetry = FALSE ]
  /\ position' = [ position EXCEPT !.valid = FALSE ]
  /\ UNCHANGED <<teleport, sprint, fly, lib, world, tick, worker, ctl>>

CallInternalSprint(c) ==
  /\ Types(c, "call-internal-sprint") /\ CanOpen(c)
  /\ status.player # NoPlayer /\ IsTickFresh /\ sprint.calls < MaxCalls
  /\ sprint' = [ sprint EXCEPT !.requested = TRUE ]
  /\ Go(c, "sprintWait")
  /\ UNCHANGED <<status, position, teleport, fly, lib, world, tick, worker>>

HookSprint(c, on) ==
  /\ Types(c, "hook-sprint") /\ CanOpen(c)
  /\ sprint' = [ sprint EXCEPT !.override = on ]
  /\ UNCHANGED <<status, position, teleport, fly, lib, world, tick, worker, ctl>>

CommandStep(c) ==
  \/ InjectChecks(c) \/ InjectLoads(c) \/ FlyOnChecks(c) \/ FlyOn(c) \/ FlyOffTyped(c)
  \/ ShutdownTyped(c) \/ ShutdownRequested(c) \/ CapturePlayer(c) \/ CallInternalSprint(c)
  \/ \E on \in BOOLEAN : HookSprint(c, on)
  \/ Looks(c, "position", "shown") \/ Looks(c, "teleport-up", "request")
  \/ \E place \in Places : Teleport(c, place) \/ TeleportUp(c, place)

(* A command ends: printed, timed out, or its process is closed, between   *)
(* any two of its steps.                                                   *)
CommandEnds(c) ==
  /\ ~At(c, "idle")
  /\ Ends(c)
  /\ UNCHANGED <<status, position, teleport, sprint, fly, lib, world, tick, worker>>

ToolStep(c) == CommandStep(c) \/ MailboxStep(c) \/ SnapshotStep(c) \/ CommandEnds(c)

=============================================================================
