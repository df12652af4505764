---------------------------- MODULE Island_proofs ----------------------------
(***************************************************************************)
(* Proofs about the two protocols of the mapping: the teleport mailbox,    *)
(* whose id is odd while a controller writes, and the position, whose      *)
(* sequence is odd while the game publishes.  Both hold for any number of  *)
(* controllers, commands, places and faults, as long as the library was    *)
(* loaded once; so does what a controller reports of a teleport.           *)
(***************************************************************************)
EXTENDS Island, TLAPS

(* What the steps need to know of the shape of the state. *)
CtlType ==
  [ pc : ToolLabels, next : {"idle", "shown", "request", "reported"}, prev : Nat,
    dest : Places, before : Nat, x : Places, y : Places, setAt : Int ]
TickType ==
  [ pc : TickLabels, id : Nat, x : Places, y : Places, then : {"leave", "acknowledge"} ]
Shape ==
  /\ position \in [ seq : Nat, x : Places, y : Places, valid : BOOLEAN ]
  /\ teleport \in [ request : Nat, completed : Nat, succeeded : BOOLEAN,
                    x : Places, y : Places ]
  /\ lib \in [ refs : Int, loads : Nat, mapped : BOOLEAN, hooks : BOOLEAN,
               active : Int, lock : {"free", "tick"} ]
  /\ world \in [ player : Players, place : Places ]
  /\ tick \in TickType
  /\ ctl \in [ Controllers -> CtlType ]

-----------------------------------------------------------------------------
(* The invariant.  Before the worker has zeroed the mapping nobody has it  *)
(* open and no hook leads to the library.                                  *)
Boot ==
  /\ lib.loads = 0 => worker = "none"
  /\ lib.loads = 0 \/ worker = "init" =>
       /\ ~lib.mapped /\ ~lib.hooks /\ tick = IdleTick
       /\ \A c \in Controllers : ctl[c].pc \in {"idle", "load"}

Writing(c) == ctl[c].pc \in {"writeX", "writeY", "submit"}
Writers ==
  /\ \A c \in Controllers :
       /\ ctl[c].pc = "acquire" \/ Writing(c) => ~Odd(ctl[c].prev)
       /\ Writing(c) => teleport.request = ctl[c].prev + 1
       /\ ctl[c].pc \in {"writeY", "submit"} => teleport.x = ctl[c].dest
       /\ ctl[c].pc = "submit" => teleport.y = ctl[c].dest
  /\ \A c, d \in Controllers : Writing(c) /\ Writing(d) => c = d
  /\ ~Odd(teleport.request) => teleport.x = teleport.y

Copying == tick.pc \in {"copyX", "copyY", "confirm"}
Copies ==
  /\ teleport.completed <= teleport.request
  /\ tick.id <= teleport.request /\ ~Odd(tick.id)
  /\ Copying => teleport.completed < tick.id
  /\ tick.pc \in {"copyY", "confirm"} /\ tick.id = teleport.request => tick.x = teleport.x
  /\ tick.pc = "confirm" /\ tick.id = teleport.request => tick.y = teleport.y

Publishing == tick.pc \in {"publishXY", "publishEnd"}
Readers ==
  /\ position.x = position.y
  /\ Odd(position.seq) <=> Publishing
  /\ \A c \in Controllers :
       /\ ctl[c].pc \in {"readY", "compare"} =>
            /\ ~Odd(ctl[c].before) /\ ctl[c].before <= position.seq
            /\ ctl[c].before = position.seq => ctl[c].x = position.x
       /\ ctl[c].pc = "compare" /\ ctl[c].before = position.seq => ctl[c].y = position.y
       /\ ctl[c].pc = "got" => ctl[c].x = ctl[c].y

IInv == Shape /\ (lib.loads <= 1 => Boot /\ Writers /\ Copies /\ Readers)

-----------------------------------------------------------------------------
(* The parity of an id or a sequence (odd while somebody writes). *)
LEMMA Parity ==
  /\ ~Odd(0)
  /\ \A n \in Nat : (Odd(n + 1) <=> ~Odd(n)) /\ (Odd(n + 2) <=> Odd(n))
BY DEF Odd

(* The first state satisfies the invariant (InitShared). *)
LEMMA InitInv == Init => IInv
<1> SUFFICES ASSUME Init PROVE IInv
  OBVIOUS
<1> USE IslandAssumption
<1>1. Shape
  BY DEF Init, InitShared, Shape, ZeroPosition, ZeroTeleport, IdleTick, IdleController,
         CtlType, TickType, ToolLabels, TickLabels
<1>2. Boot
  BY DEF Init, InitShared, Boot, IdleController
<1>3. Writers
  BY Parity DEF Init, InitShared, Writers, Writing, ZeroTeleport, IdleController
<1>4. Copies
  BY Parity DEF Init, InitShared, Copies, Copying, ZeroTeleport, IdleTick
<1>5. Readers
  BY Parity DEF Init, InitShared, Readers, Publishing, ZeroPosition, IdleTick, IdleController
<1> QED
  BY <1>1, <1>2, <1>3, <1>4, <1>5 DEF IInv

(* The locals a tick and a command begin with are well formed. *)
LEMMA IdleTypes == IdleTick \in TickType /\ IdleController \in CtlType
BY IslandAssumption DEF IdleTick, IdleController, TickType, CtlType, TickLabels, ToolLabels

(* The shape of the state is kept: steps of the game thread. *)
LEMMA ShapeGame == Shape /\ GameStep => Shape'
<1> SUFFICES ASSUME Shape, GameStep PROVE Shape'
  OBVIOUS
<1> USE IslandAssumption, IdleTypes DEF Shape
<1>1. CASE TickDetoured
  BY <1>1 DEF TickDetoured, GoTick, TickType, TickLabels
<1>2. CASE TickOfOther \/ TickOfLocal
  BY <1>2 DEF TickOfOther, TickOfLocal, GoTick, TickType, TickLabels
<1>3. CASE FlyStep
  BY <1>3 DEF FlyStep, FlyEnter, FlyOff, FlySave, FlyPatch, FlyWrite, FlyLeaves,
     GoTick, TickType, TickLabels
<1>4. CASE TickSprint
  BY <1>4 DEF TickSprint, GoTick, TickType, TickLabels
<1>5. CASE TeleportStep
  <2>1. CASE SetPosition
    <3>1. world' \in [ player : Players, place : Places ]
      BY <2>1 DEF SetPosition, TickType
    <3>2. ctl' \in [ Controllers -> CtlType ]
      BY <2>1 DEF SetPosition, CtlType
    <3>3. tick' \in TickType
      BY <2>1 DEF SetPosition, TickType, TickLabels
    <3> QED
      BY <2>1, <3>1, <3>2, <3>3 DEF SetPosition
  <2>2. CASE TeleportJudged
    BY <2>2 DEF TeleportJudged, GoTick, TickType, TickLabels
  <2>3. CASE TeleportAcknowledged
    <3>1. tick' \in TickType /\ tick.id \in Nat
      BY <2>3 DEF TeleportAcknowledged, IdleTick, TickType, TickLabels
    <3> QED
      BY <2>3, <3>1 DEF TeleportAcknowledged
  <2>4. CASE TeleportSeen \/ CopyX \/ CopyY
    <3>0. teleport.request \in Nat /\ teleport.x \in Places /\ teleport.y \in Places
      OBVIOUS
    <3>1. tick' \in TickType
      <4>1. CASE TeleportSeen
        <5>1. \/ tick' = [ tick EXCEPT !.pc = "publish", !.then = "leave" ]
              \/ tick' = [ tick EXCEPT !.pc = "copyX", !.id = teleport.request ]
          BY <4>1 DEF TeleportSeen
        <5>2. tick \in TickType
          OBVIOUS
        <5>3. CASE tick' = [ tick EXCEPT !.pc = "publish", !.then = "leave" ]
          BY <5>2, <5>3 DEF TickType, TickLabels
        <5>4. CASE tick' = [ tick EXCEPT !.pc = "copyX", !.id = teleport.request ]
          BY <3>0, <5>2, <5>4 DEF TickType, TickLabels
        <5> QED
          BY <5>1, <5>3, <5>4
      <4>2. CASE CopyX
        BY <4>2, <3>0 DEF CopyX, TickType, TickLabels
      <4>3. CASE CopyY
        BY <4>3, <3>0 DEF CopyY, TickType, TickLabels
      <4> QED
        BY <2>4, <4>1, <4>2, <4>3
    <3> QED
      BY <2>4, <3>1 DEF TeleportSeen, CopyX, CopyY
  <2>5. CASE TeleportReplaced
    <3>1. tick' \in TickType
      BY <2>5 DEF TeleportReplaced, IdleTick, TickType, TickLabels
    <3> QED
      BY <2>5, <3>1 DEF TeleportReplaced
  <2> QED
    BY <1>5, <2>1, <2>2, <2>3, <2>4, <2>5 DEF TeleportStep
<1>6. CASE PublishStep
  <2>1. tick' \in TickType
    BY <1>6 DEF PublishStep, PublishFails, PublishBegins, PublishHalves, PublishEnds,
       GoTick, TickType, TickLabels
  <2>0. position.seq \in Nat /\ position.seq + 1 \in Nat /\ world.place \in Places
    OBVIOUS
  <2>2. position' \in [ seq : Nat, x : Places, y : Places, valid : BOOLEAN ]
    <3>1. CASE PublishFails
      BY <3>1 DEF PublishFails
    <3>2. CASE PublishBegins
      BY <3>2, <2>0 DEF PublishBegins
    <3>3. CASE PublishHalves
      BY <3>3, <2>0 DEF PublishHalves
    <3>4. CASE PublishEnds
      BY <3>4, <2>0 DEF PublishEnds
    <3> QED
      BY <1>6, <3>1, <3>2, <3>3, <3>4 DEF PublishStep
  <2> QED
    BY <1>6, <2>1, <2>2 DEF PublishStep, PublishFails, PublishBegins, PublishHalves, PublishEnds
<1>7. CASE TickTelemetry \/ TickLeaves
  BY <1>7 DEF TickTelemetry, TickLeaves, GoTick, TickType, TickLabels
<1>8. CASE TickAges \/ (\E place \in Places : WorldMoves(place))
             \/ (\E player \in Players : PlayerReplaced(player))
  BY <1>8 DEF TickAges, WorldMoves, PlayerReplaced
<1> QED
  BY <1>1, <1>2, <1>3, <1>4, <1>5, <1>6, <1>7, <1>8 DEF GameStep, TickStep

(* The shape of the state is kept: steps of the library's thread. *)
LEMMA ShapeWorker == Shape /\ WorkerStep => Shape'
<1> SUFFICES ASSUME Shape, WorkerStep PROVE Shape'
  OBVIOUS
<1> USE IslandAssumption DEF Shape
<1>1. CASE InitializeSharedState
  BY <1>1 DEF InitializeSharedState, ZeroPosition, ZeroTeleport
<1>2. CASE EnableHooks \/ RollBackHooks \/ DisableHooks
  <2>1. lib' \in [ refs : Int, loads : Nat, mapped : BOOLEAN, hooks : BOOLEAN,
                   active : Int, lock : {"free", "tick"} ]
    BY ZenonT(60), <1>2 DEF EnableHooks, RollBackHooks, DisableHooks
  <2> QED
    BY <1>2, <2>1 DEF EnableHooks, RollBackHooks, DisableHooks
<1>3. CASE ExitWorker
  <2>1. lib.refs - 1 \in Int
    OBVIOUS
  <2> QED
    BY <1>3, <2>1 DEF ExitWorker
<1>4. CASE WatchdogStep
  BY ZenonT(60), <1>4 DEF WatchdogStep, WatchdogDecides, WatchdogClears
<1>5. CASE InitializeFails \/ VerifyRuntimeSignatures \/ CreateHooks
             \/ RollBackDrained \/ AnnounceReady
  BY <1>5 DEF InitializeFails, VerifyRuntimeSignatures, CreateHooks, RollBackDrained,
     AnnounceReady
<1>6. CASE ShutdownSeen \/ RestoreObserved \/ RestoreWaitEnds \/ RestoreByWorker \/ Drained
  BY <1>6 DEF ShutdownSeen, RestoreObserved, RestoreWaitEnds, RestoreByWorker, Drained
<1> QED
  BY <1>1, <1>2, <1>3, <1>4, <1>5, <1>6 DEF WorkerStep, InitStep, ShutdownStep

(* The shape of the state is kept: steps of a controller. *)
LEMMA ShapeTool == ASSUME Shape, NEW c \in Controllers, ToolStep(c) PROVE Shape'
<1> USE IslandAssumption, IdleTypes DEF Shape
<1>1. CASE MailboxStep(c)
  <2>1. ctl' \in [ Controllers -> CtlType ]
    <3>1. CASE MailboxRead(c) \/ MailboxAcquired(c) \/ MailboxLost(c) \/ AnswerSeen(c)
      BY <3>1 DEF MailboxRead, MailboxAcquired, MailboxLost, AnswerSeen, Go, Ends,
         CtlType, ToolLabels
    <3>2. CASE WriteX(c) \/ WriteY(c) \/ MailboxSubmitted(c) \/ ResultRead(c)
      BY <3>2 DEF WriteX, WriteY, MailboxSubmitted, ResultRead, Go, Ends, CtlType, ToolLabels
    <3> QED
      BY <1>1, <3>1, <3>2 DEF MailboxStep
  <2>2. ctl[c].prev \in Nat /\ ctl[c].dest \in Places
    BY DEF CtlType
  <2>3. teleport' \in [ request : Nat, completed : Nat, succeeded : BOOLEAN,
                        x : Places, y : Places ]
    BY <1>1, <2>2 DEF MailboxStep, MailboxRead, MailboxAcquired, MailboxLost, WriteX, WriteY,
       MailboxSubmitted, AnswerSeen, ResultRead
  <2> QED
    BY <1>1, <2>1, <2>3 DEF MailboxStep, MailboxRead, MailboxAcquired, MailboxLost, WriteX,
       WriteY, MailboxSubmitted, AnswerSeen, ResultRead
<1>2. CASE SnapshotStep(c)
  <2>1. ctl' \in [ Controllers -> CtlType ]
    BY <1>2 DEF SnapshotStep, SequenceRead, ReadY, SequenceCompared, Go, CtlType, ToolLabels
  <2> QED
    BY <1>2, <2>1 DEF SnapshotStep, SequenceRead, ReadY, SequenceCompared
<1>3. CASE CommandEnds(c)
  BY <1>3 DEF CommandEnds, Ends
<1>4. ASSUME NEW place \in Places, Teleport(c, place) \/ TeleportUp(c, place) PROVE Shape'
  <2>0. [ IdleController EXCEPT !.pc = "request", !.dest = place ] \in CtlType
    BY DEF CtlType, ToolLabels
  <2>1. ctl' \in [ Controllers -> CtlType ]
    BY <1>4, <2>0 DEF Teleport, TeleportUp, QueueTeleport
  <2> QED
    BY <1>4, <2>1 DEF Teleport, TeleportUp, QueueTeleport
<1>5. CASE Looks(c, "position", "shown") \/ Looks(c, "teleport-up", "request")
  <2>0. /\ [ IdleController EXCEPT !.pc = "snapshot", !.next = "shown" ] \in CtlType
        /\ [ IdleController EXCEPT !.pc = "snapshot", !.next = "request" ] \in CtlType
    BY DEF CtlType, ToolLabels
  <2>1. ctl' \in [ Controllers -> CtlType ]
    BY <1>5, <2>0 DEF Looks
  <2> QED
    BY <1>5, <2>1 DEF Looks
<1>6. CASE InjectLoads(c)
  <2>1. lib.refs + 1 \in Int /\ lib.loads + 1 \in Nat
    OBVIOUS
  <2> QED
    BY <1>6, <2>1 DEF InjectLoads, Ends
<1>7. CASE InjectChecks(c) \/ FlyOnChecks(c) \/ FlyOn(c) \/ FlyOffTyped(c)
             \/ ShutdownTyped(c) \/ ShutdownRequested(c) \/ CallInternalSprint(c)
  <2>0. \A l \in ToolLabels : [ ctl[c] EXCEPT !.pc = l ] \in CtlType
    BY DEF CtlType
  <2>0a. {"load", "flyOn", "flyWait", "shutdownWait", "sprintWait"} \subseteq ToolLabels
    BY DEF ToolLabels
  <2>1. ctl' \in [ Controllers -> CtlType ]
    <3>1. \/ ctl' = [ ctl EXCEPT ![c] = IdleController ]
          \/ \E l \in ToolLabels : ctl' = [ ctl EXCEPT ![c].pc = l ]
      BY <1>7, <2>0a DEF InjectChecks, FlyOnChecks, FlyOn, FlyOffTyped, ShutdownTyped,
         ShutdownRequested, CallInternalSprint, Go, Ends
    <3> QED
      BY <2>0, <3>1
  <2> QED
    BY <1>7, <2>1 DEF InjectChecks, FlyOnChecks, FlyOn, FlyOffTyped, ShutdownTyped,
       ShutdownRequested, CallInternalSprint
<1>8. CASE CapturePlayer(c) \/ (\E on \in BOOLEAN : HookSprint(c, on))
  BY ZenonT(60), <1>8 DEF CapturePlayer, HookSprint
<1> QED
  BY <1>1, <1>2, <1>3, <1>4, <1>5, <1>6, <1>7, <1>8 DEF ToolStep, CommandStep

-----------------------------------------------------------------------------
(* Steps that touch neither protocol keep the invariant of both. *)
Sensitive == {"copyX", "copyY", "confirm", "publishXY", "publishEnd"}
Aside ==
  /\ teleport' = teleport /\ ctl' = ctl
  /\ position'.seq = position.seq /\ position'.x = position.x /\ position'.y = position.y
  /\ \/ tick' = tick
     \/ /\ tick.pc \notin Sensitive /\ tick'.pc \notin Sensitive
        /\ tick'.id = tick.id \/ tick'.id = 0

(* Both protocols are undisturbed by a step aside. *)
LEMMA AsideKeeps ==
  ASSUME Shape, Writers, Copies, Readers, Aside PROVE Writers' /\ Copies' /\ Readers'
<1>1. Writers'
  BY DEF Aside, Writers, Writing
<1>2. Copies'
  BY Parity DEF Shape, TickType, Aside, Sensitive, Copies, Copying
<1>3. Readers'
  <2>1. Publishing' <=> Publishing
    BY DEF Aside, Sensitive, Publishing
  <2> QED
    BY <2>1 DEF Aside, Readers
<1> QED
  BY <1>1, <1>2, <1>3

(* A step of the game thread or of the library's thread loads nothing. *)
LEMMA LoadsKept == ASSUME Shape, GameStep \/ WorkerStep PROVE lib'.loads = lib.loads
<1> USE DEF Shape
<1>1. CASE GameStep
  BY <1>1 DEF GameStep, TickDetoured, TickStep, TickOfOther, TickOfLocal, FlyStep, FlyEnter,
     FlyOff, FlySave, FlyPatch, FlyWrite, FlyLeaves, TickSprint, TeleportStep, TeleportSeen,
     CopyX, CopyY, TeleportReplaced, SetPosition, TeleportJudged, TeleportAcknowledged,
     PublishStep, PublishFails, PublishBegins, PublishHalves, PublishEnds, TickTelemetry,
     TickLeaves, TickAges, WorldMoves, PlayerReplaced
<1>2. CASE WorkerStep
  BY <1>2 DEF WorkerStep, InitStep, WatchdogStep, ShutdownStep, InitializeSharedState,
     InitializeFails, VerifyRuntimeSignatures, CreateHooks, EnableHooks, RollBackHooks,
     RollBackDrained, AnnounceReady, WatchdogDecides, WatchdogClears, ShutdownSeen,
     RestoreObserved, RestoreWaitEnds, RestoreByWorker, DisableHooks, Drained, ExitWorker
<1> QED
  BY <1>1, <1>2

(* A tick outside of SetPosition and the publications is a step aside. *)
QuietGame ==
  \/ TickDetoured \/ TickOfOther \/ TickOfLocal \/ FlyStep \/ TickSprint
  \/ TickTelemetry \/ TickLeaves \/ TickAges \/ PublishFails
  \/ (\E place \in Places : WorldMoves(place))
  \/ (\E player \in Players : PlayerReplaced(player))
LEMMA QuietAside == ASSUME Shape, QuietGame PROVE Aside
<1> USE DEF Shape, TickType, Aside, Sensitive, GoTick, TickAt, IdleTick
<1>1. CASE TickDetoured \/ TickOfOther \/ TickOfLocal \/ TickSprint
  BY <1>1 DEF TickDetoured, TickOfOther, TickOfLocal, TickSprint
<1>2. CASE FlyStep
  <2>1. /\ tick.pc \in {"fly", "flyOff", "flySave", "flyPatch", "flyWrite"}
        /\ \E l \in {"flyOff", "flySave", "flyPatch", "flyWrite", "sprint"} :
             tick' = [ tick EXCEPT !.pc = l ]
        /\ UNCHANGED <<position, teleport, ctl>>
    BY <1>2 DEF FlyStep, FlyEnter, FlyOff, FlySave, FlyPatch, FlyWrite, FlyLeaves
  <2> QED
    BY <2>1
<1>3. CASE TickTelemetry \/ TickLeaves \/ PublishFails
  BY <1>3 DEF TickTelemetry, TickLeaves, PublishFails
<1>4. CASE TickAges \/ (\E place \in Places : WorldMoves(place))
             \/ (\E player \in Players : PlayerReplaced(player))
  BY <1>4 DEF TickAges, WorldMoves, PlayerReplaced
<1> QED
  BY <1>1, <1>2, <1>3, <1>4 DEF QuietGame

(* No tick runs and nobody is in the mapping before it exists: game thread. *)
LEMMA BootGame == ASSUME Shape, Shape', Boot, GameStep PROVE Boot'
<1>1. worker' = worker /\ lib'.mapped = lib.mapped /\ lib'.hooks = lib.hooks
  BY DEF Shape, GameStep, TickDetoured, TickStep, TickOfOther, TickOfLocal, FlyStep, FlyEnter,
     FlyOff, FlySave, FlyPatch, FlyWrite, FlyLeaves, TickSprint, TeleportStep, TeleportSeen,
     CopyX, CopyY, TeleportReplaced, SetPosition, TeleportJudged, TeleportAcknowledged,
     PublishStep, PublishFails, PublishBegins, PublishHalves, PublishEnds, TickTelemetry,
     TickLeaves, TickAges, WorldMoves, PlayerReplaced
<1>2. tick.pc = "game" /\ ~lib.hooks => tick' = tick /\ ctl' = ctl
  BY DEF TickAt, GameStep, TickDetoured, TickStep, TickOfOther, TickOfLocal, FlyStep, FlyEnter,
     FlyOff, FlySave, FlyPatch, FlyWrite, FlyLeaves, TickSprint, TeleportStep, TeleportSeen,
     CopyX, CopyY, TeleportReplaced, SetPosition, TeleportJudged, TeleportAcknowledged,
     PublishStep, PublishFails, PublishBegins, PublishHalves, PublishEnds, TickTelemetry,
     TickLeaves, TickAges, WorldMoves, PlayerReplaced
<1>3. lib'.loads = lib.loads
  BY LoadsKept
<1> QED
  BY <1>1, <1>2, <1>3 DEF Boot, IdleTick

(* The protocols under the steps of a tick that take part in them. *)
LEMMA GameKeeps ==
  ASSUME Shape, Shape', Writers, Copies, Readers, GameStep
  PROVE  Writers' /\ Copies' /\ Readers'
<1>1. CASE QuietGame
  BY <1>1, QuietAside, AsideKeeps
<1>2. CASE TeleportSeen
  <2>0. /\ UNCHANGED <<position, teleport, ctl>>
        /\ tick.pc = "teleport" /\ tick'.pc \in {"publish", "copyX"}
        /\ \/ tick'.pc = "publish" /\ tick'.id = tick.id
           \/ /\ tick'.pc = "copyX" /\ tick'.id = teleport.request
              /\ ~Odd(teleport.request) /\ teleport.request # teleport.completed
    BY <1>2 DEF TeleportSeen, TickAt, Shape, TickType
  <2>1. Writers'
    BY <2>0 DEF Writers, Writing
  <2>2. Readers'
    BY <2>0 DEF Readers, Publishing
  <2>3. teleport.request \in Nat /\ teleport.completed \in Nat /\ tick.id \in Nat
    BY DEF Shape, TickType
  <2>4. Copies'
    BY <2>0, <2>3 DEF Copies, Copying
  <2> QED
    BY <2>1, <2>2, <2>4
<1>3. CASE CopyX \/ CopyY
  <2>0. /\ UNCHANGED <<position, teleport, ctl>> /\ tick'.id = tick.id
        /\ \/ tick.pc = "copyX" /\ tick'.pc = "copyY" /\ tick'.x = teleport.x
           \/ /\ tick.pc = "copyY" /\ tick'.pc = "confirm"
              /\ tick'.x = tick.x /\ tick'.y = teleport.y
    BY <1>3 DEF CopyX, CopyY, TickAt, Shape, TickType
  <2>1. Writers'
    BY <2>0 DEF Writers, Writing
  <2>2. Readers'
    BY <2>0 DEF Readers, Publishing
  <2>3. Copies'
    BY <2>0 DEF Copies, Copying
  <2> QED
    BY <2>1, <2>2, <2>3
<1>4. CASE TeleportReplaced
  <2>1. Writers' /\ Readers'
    BY <1>4 DEF TeleportReplaced, IdleTick, TickAt, Writers, Writing, Readers, Publishing,
       Shape, TickType
  <2>2. Copies'
    BY <1>4, Parity DEF TeleportReplaced, IdleTick, TickAt, Copies, Copying, Shape, TickType
  <2> QED
    BY <2>1, <2>2
<1>5. CASE SetPosition
  <2>1. \A c \in Controllers :
          /\ ctl'[c].pc = ctl[c].pc /\ ctl'[c].prev = ctl[c].prev
          /\ ctl'[c].dest = ctl[c].dest /\ ctl'[c].before = ctl[c].before
          /\ ctl'[c].x = ctl[c].x /\ ctl'[c].y = ctl[c].y
    BY <1>5 DEF SetPosition, Shape, CtlType
  <2>2. Writers'
    BY <1>5, <2>1 DEF SetPosition, Writers, Writing
  <2>3. Readers'
    BY <1>5, <2>1 DEF SetPosition, TickAt, Readers, Publishing, Shape, TickType
  <2>4. Copies'
    BY <1>5 DEF SetPosition, TickAt, Copies, Copying, Shape, TickType
  <2> QED
    BY <2>2, <2>3, <2>4
<1>6. CASE TeleportJudged
  <2>1. Writers' /\ Readers'
    BY <1>6 DEF TeleportJudged, GoTick, Writers, Writing, Readers, Publishing, Shape, TickType
  <2>2. Copies'
    BY <1>6 DEF TeleportJudged, GoTick, TickAt, Copies, Copying, Shape, TickType
  <2> QED
    BY <2>1, <2>2
<1>7. CASE TeleportAcknowledged
  <2>1. Writers' /\ Readers'
    BY <1>7 DEF TeleportAcknowledged, IdleTick, TickAt, Writers, Writing, Readers, Publishing,
       Shape, TickType
  <2>2. Copies'
    BY <1>7, Parity DEF TeleportAcknowledged, IdleTick, TickAt, Copies, Copying, Shape, TickType
  <2> QED
    BY <2>1, <2>2
<1>8. CASE PublishBegins \/ PublishHalves \/ PublishEnds
  <2>1. Writers'
    BY <1>8 DEF PublishBegins, PublishHalves, PublishEnds, Writers, Writing
  <2>2. Copies'
    BY <1>8 DEF PublishBegins, PublishHalves, PublishEnds, GoTick, TickAt, Copies, Copying,
       Shape, TickType
  <2>3. position.seq \in Nat /\ \A c \in Controllers : ctl[c].before \in Nat
    BY DEF Shape, CtlType
  <2>4. Readers'
    <3>1. CASE PublishBegins
      BY <3>1, <2>3, Parity DEF PublishBegins, GoTick, TickAt, Readers, Publishing, Shape, TickType
    <3>2. CASE PublishHalves
      BY <3>2, <2>3, Parity DEF PublishHalves, GoTick, TickAt, Readers, Publishing, Shape, TickType
    <3>3. CASE PublishEnds
      BY <3>3, <2>3, Parity DEF PublishEnds, GoTick, TickAt, Readers, Publishing, Shape, TickType
    <3> QED
      BY <1>8, <3>1, <3>2, <3>3
  <2> QED
    BY <2>1, <2>2, <2>4
<1> QED
  BY <1>1, <1>2, <1>3, <1>4, <1>5, <1>6, <1>7, <1>8
     DEF GameStep, TickStep, TeleportStep, PublishStep, QuietGame

(* Both protocols and their start under a step of the library's thread. *)
LEMMA WorkerKeeps ==
  ASSUME Shape, Boot, Writers, Copies, Readers, WorkerStep
  PROVE  Boot' /\ Writers' /\ Copies' /\ Readers'
<1>1. CASE InitializeSharedState
  <2>0. /\ tick' = tick /\ ctl' = ctl /\ worker' # "init" /\ lib'.loads = lib.loads
        /\ worker = "init" /\ teleport' = ZeroTeleport /\ position' = ZeroPosition
    BY <1>1 DEF InitializeSharedState, WorkerAt, GoWorker, Shape
  <2>1. lib.loads # 0 /\ tick = IdleTick /\ \A c \in Controllers : ctl[c].pc \in {"idle", "load"}
    BY <2>0 DEF Boot
  <2>2. Boot'
    BY <2>0, <2>1 DEF Boot
  <2>3. Writers'
    BY <2>0, <2>1, Parity DEF Writers, Writing, ZeroTeleport
  <2>4. Copies'
    BY <2>0, <2>1, Parity DEF Copies, Copying, ZeroTeleport, IdleTick
  <2>5. Readers'
    BY <2>0, <2>1, Parity DEF Readers, Publishing, ZeroPosition, IdleTick
  <2> QED
    BY <2>2, <2>3, <2>4, <2>5
<1>2. CASE ~InitializeSharedState
  <2>1. Aside
    BY <1>2 DEF Aside, Shape, WorkerStep, InitStep, WatchdogStep, ShutdownStep,
       InitializeFails, VerifyRuntimeSignatures, CreateHooks, EnableHooks, RollBackHooks,
       RollBackDrained, AnnounceReady, WatchdogDecides, WatchdogClears, ShutdownSeen,
       RestoreObserved, RestoreWaitEnds, RestoreByWorker, DisableHooks, Drained, ExitWorker
  <2>2. worker # "none" /\ worker' # "init"
    BY <1>2 DEF WorkerAt, GoWorker, FailAndExit, StaysResident, WorkerStep, InitStep,
       WatchdogStep, ShutdownStep,
       InitializeFails, VerifyRuntimeSignatures, CreateHooks, EnableHooks, RollBackHooks,
       RollBackDrained, AnnounceReady, WatchdogDecides, WatchdogClears, ShutdownSeen,
       RestoreObserved, RestoreWaitEnds, RestoreByWorker, DisableHooks, Drained, ExitWorker
  <2>3. Boot'
    BY <2>2, LoadsKept DEF Boot
  <2> QED
    BY <2>1, <2>3, AsideKeeps
<1> QED
  BY <1>1, <1>2

(* Nobody but an injecting controller acts before the mapping exists. *)
LEMMA BootTool ==
  ASSUME Shape, Boot, lib'.loads <= 1, NEW c \in Controllers, ToolStep(c)
  PROVE  Boot'
<1>1. CASE InjectLoads(c)
  <2>1. /\ lib.loads = 0 /\ lib'.loads = 1 /\ tick' = tick /\ ctl'[c].pc = "idle"
        /\ lib'.mapped = lib.mapped /\ lib'.hooks = lib.hooks
        /\ \A d \in Controllers \ {c} : ctl'[d] = ctl[d]
    BY <1>1, IdleTypes DEF InjectLoads, Ends, Shape, IdleController
  <2> QED
    BY <2>1 DEF Boot
<1>2. CASE ~InjectLoads(c)
  <2>1. UNCHANGED <<lib, worker, tick>>
    BY <1>2 DEF ToolStep, CommandStep, MailboxStep, SnapshotStep, InjectChecks, FlyOnChecks,
       FlyOn, FlyOffTyped, ShutdownTyped, ShutdownRequested, CapturePlayer, CallInternalSprint,
       HookSprint, Looks, Teleport, TeleportUp, QueueTeleport, MailboxRead, MailboxAcquired,
       MailboxLost, WriteX, WriteY, MailboxSubmitted, AnswerSeen, ResultRead, SequenceRead,
       ReadY, SequenceCompared, CommandEnds
  <2>2. CASE lib.loads = 0 \/ worker = "init"
    <3>1. /\ ~lib.mapped /\ ~lib.hooks /\ tick = IdleTick
          /\ \A d \in Controllers : ctl[d].pc \in {"idle", "load"}
      BY <2>2 DEF Boot
    <3>2. ~CanOpen(c)
      BY <3>1 DEF CanOpen, Holds
    <3>3. InjectChecks(c) \/ CommandEnds(c)
      <4>1. ctl[c].pc \in {"idle", "load"}
        BY <3>1
      <4>2. ~MailboxStep(c) /\ ~SnapshotStep(c)
        BY <4>1 DEF At, MailboxStep, SnapshotStep, MailboxRead, MailboxAcquired,
           MailboxLost, WriteX, WriteY, MailboxSubmitted, AnswerSeen, ResultRead,
           SequenceRead, ReadY, SequenceCompared
      <4>3. CommandStep(c) => InjectChecks(c)
        BY <1>2, <3>2, <4>1 DEF At, CommandStep, FlyOnChecks,
           FlyOn, FlyOffTyped, ShutdownTyped, ShutdownRequested, CapturePlayer,
           CallInternalSprint, HookSprint, Looks, Teleport, TeleportUp
      <4> QED
        BY <4>2, <4>3 DEF ToolStep
    <3>4. \A d \in Controllers : ctl'[d].pc \in {"idle", "load"}
      BY <3>1, <3>3 DEF InjectChecks, CommandEnds, Go, Ends, IdleController, Shape, CtlType
    <3> QED
      BY <2>1, <2>2, <3>1, <3>4 DEF Boot
  <2>3. CASE ~(lib.loads = 0 \/ worker = "init")
    BY <2>1, <2>3 DEF Boot
  <2> QED
    BY <2>2, <2>3
<1> QED
  BY <1>1, <1>2

(* A command that neither holds the mailbox nor reads a position keeps     *)
(* both protocols.                                                         *)
Holding == {"acquire", "writeX", "writeY", "submit", "readY", "compare", "got"}
LEMMA CommandKeeps ==
  ASSUME Writers, Copies, Readers, NEW c \in Controllers,
         tick' = tick, teleport' = teleport,
         position'.seq = position.seq, position'.x = position.x, position'.y = position.y,
         ctl'[c].pc \notin Holding,
         \A d \in Controllers \ {c} : ctl'[d] = ctl[d]
  PROVE  Writers' /\ Copies' /\ Readers'
<1>1. Writers'
  BY DEF Writers, Writing, Holding
<1>2. Copies'
  BY DEF Copies, Copying
<1>3. Readers'
  BY DEF Readers, Publishing, Holding
<1> QED
  BY <1>1, <1>2, <1>3

(* The mailbox: whoever raises the id to an odd value is alone until it    *)
(* submits, and submits what it wrote.                                     *)
LEMMA MailboxKeeps ==
  ASSUME Shape, Shape', Writers, Copies, Readers, NEW c \in Controllers, MailboxStep(c)
  PROVE  Writers' /\ Copies' /\ Readers'
<1>0. /\ position' = position /\ tick' = tick
      /\ \A d \in Controllers \ {c} : ctl'[d] = ctl[d]
      /\ ctl'[c].pc \notin {"readY", "compare", "got"}
  BY DEF MailboxStep, MailboxRead, MailboxAcquired, MailboxLost, WriteX, WriteY,
     MailboxSubmitted, AnswerSeen, ResultRead, Go, Ends, IdleController, Shape, CtlType
<1>1. Readers'
  BY <1>0 DEF Readers, Publishing
<1>2. /\ teleport.request \in Nat /\ teleport.completed \in Nat /\ tick.id \in Nat
      /\ \A d \in Controllers : ctl[d].prev \in Nat /\ ctl[d].pc \in ToolLabels
  BY DEF Shape, TickType, CtlType
<1>3. CASE MailboxLost(c) \/ AnswerSeen(c) \/ ResultRead(c)
  <2>1. teleport' = teleport /\ ctl'[c].pc \notin Holding
    BY <1>3 DEF MailboxLost, AnswerSeen, ResultRead, Go, Ends, IdleController, Holding,
       Shape, CtlType
  <2> QED
    BY <1>0, <2>1, CommandKeeps
<1>4. CASE MailboxRead(c)
  <2>0. /\ teleport' = teleport /\ ctl'[c].pc \in {"idle", "acquire"}
        /\ ctl'[c].pc = "acquire" => ~Odd(ctl'[c].prev)
    BY <1>4 DEF MailboxRead, Ends, IdleController, Shape, CtlType
  <2>1. Writers'
    BY <1>0, <2>0 DEF Writers, Writing
  <2>2. Copies'
    BY <1>0, <2>0 DEF Copies, Copying
  <2> QED
    BY <1>1, <2>1, <2>2
<1>5. CASE MailboxAcquired(c)
  <2>0. /\ ctl[c].pc = "acquire" /\ teleport.request = ctl[c].prev
        /\ ctl'[c].pc = "writeX" /\ ctl'[c].prev = ctl[c].prev
        /\ teleport'.request = teleport.request + 1
        /\ teleport'.completed = teleport.completed
        /\ teleport'.x = teleport.x /\ teleport'.y = teleport.y
    BY <1>5 DEF MailboxAcquired, At, Go, Shape, CtlType
  <2>1. ~Odd(teleport.request) /\ Odd(teleport'.request)
    BY <1>2, <2>0, Parity DEF Writers
  <2>2. \A d \in Controllers : ~Writing(d)
    <3> SUFFICES ASSUME NEW d \in Controllers, Writing(d) PROVE FALSE
      OBVIOUS
    <3>1. teleport.request = ctl[d].prev + 1 /\ ~Odd(ctl[d].prev)
      BY DEF Writers
    <3> QED
      BY <1>2, <2>1, <3>1, Parity
  <2>3. Writers'
    BY <1>0, <2>0, <2>1, <2>2 DEF Writers, Writing
  <2>4. Copies'
    BY <1>0, <1>2, <2>0, <2>1 DEF Copies, Copying
  <2> QED
    BY <1>1, <2>3, <2>4
<1>6. CASE WriteX(c) \/ WriteY(c)
  <2>0. /\ \/ /\ ctl[c].pc = "writeX" /\ ctl'[c].pc = "writeY"
              /\ teleport'.x = ctl[c].dest /\ teleport'.y = teleport.y
           \/ /\ ctl[c].pc = "writeY" /\ ctl'[c].pc = "submit"
              /\ teleport'.y = ctl[c].dest /\ teleport'.x = teleport.x
        /\ ctl'[c].prev = ctl[c].prev /\ ctl'[c].dest = ctl[c].dest
        /\ teleport'.request = teleport.request /\ teleport'.completed = teleport.completed
    BY <1>6 DEF WriteX, WriteY, At, Go, Shape, CtlType
  <2>1. Odd(teleport.request)
    BY <1>2, <2>0, Parity DEF Writers, Writing
  <2>2. Writers'
    BY <1>0, <2>0, <2>1 DEF Writers, Writing
  <2>3. tick.id # teleport.request
    BY <2>1 DEF Copies
  <2>4. Copies'
    BY <1>0, <2>0, <2>3 DEF Copies, Copying
  <2> QED
    BY <1>1, <2>2, <2>4
<1>7. CASE MailboxSubmitted(c)
  <2>0. /\ ctl[c].pc = "submit" /\ ctl'[c].pc = "await"
        /\ teleport'.request = ctl[c].prev + 2
        /\ teleport'.x = teleport.x /\ teleport'.y = teleport.y
        /\ teleport'.completed = teleport.completed
    BY <1>7 DEF MailboxSubmitted, At, Go, Shape, CtlType
  <2>1. /\ teleport.request = ctl[c].prev + 1 /\ teleport.x = teleport.y
        /\ \A d \in Controllers : Writing(d) => d = c
    BY <2>0 DEF Writers, Writing
  <2>2. Writers'
    BY <1>0, <2>0, <2>1 DEF Writers, Writing
  <2>3. tick.id < teleport'.request /\ teleport.completed < teleport'.request
    BY <1>2, <2>0, <2>1 DEF Copies
  <2>4. Copies'
    BY <1>0, <1>2, <2>0, <2>3 DEF Copies, Copying
  <2> QED
    BY <1>1, <2>2, <2>4
<1> QED
  BY <1>3, <1>4, <1>5, <1>6, <1>7 DEF MailboxStep

(* The position: a reader that sees the same even sequence twice has read  *)
(* both halves of what is published now.                                   *)
LEMMA SnapshotKeeps ==
  ASSUME Shape, Writers, Copies, Readers, NEW c \in Controllers, SnapshotStep(c)
  PROVE  Writers' /\ Copies' /\ Readers'
<1>0. /\ position' = position /\ tick' = tick /\ teleport' = teleport
      /\ \A d \in Controllers \ {c} : ctl'[d] = ctl[d]
      /\ ctl'[c].pc \in {"snapshot", "readY", "compare", "got"}
  BY DEF SnapshotStep, SequenceRead, ReadY, SequenceCompared, Go, Shape, CtlType
<1>1. Writers'
  BY <1>0 DEF Writers, Writing
<1>2. Copies'
  BY <1>0 DEF Copies, Copying
<1>3. position.seq \in Nat /\ ctl[c].before \in Nat
  BY DEF Shape, CtlType
<1>4. CASE SequenceRead(c)
  <2>0. /\ ctl'[c].pc = "readY" /\ ~Odd(position.seq)
        /\ ctl'[c].before = position.seq /\ ctl'[c].x = position.x
    BY <1>4 DEF SequenceRead, Shape, CtlType
  <2>1. Readers'
    BY <1>0, <1>3, <2>0 DEF Readers, Publishing
  <2> QED
    BY <1>1, <1>2, <2>1
<1>5. CASE ReadY(c)
  <2>0. /\ ctl[c].pc = "readY" /\ ctl'[c].pc = "compare" /\ ctl'[c].y = position.y
        /\ ctl'[c].before = ctl[c].before /\ ctl'[c].x = ctl[c].x
    BY <1>5 DEF ReadY, At, Shape, CtlType
  <2>1. Readers'
    BY <1>0, <1>3, <2>0 DEF Readers, Publishing
  <2> QED
    BY <1>1, <1>2, <2>1
<1>6. CASE SequenceCompared(c)
  <2>0. /\ ctl[c].pc = "compare" /\ ctl'[c].pc \in {"snapshot", "got"}
        /\ ctl'[c].pc = "got" =>
             /\ ctl[c].before = position.seq
             /\ ctl'[c].x = ctl[c].x /\ ctl'[c].y = ctl[c].y
    BY <1>6 DEF SequenceCompared, At, Go, Shape, CtlType
  <2>1. Readers'
    BY <1>0, <2>0 DEF Readers, Publishing
  <2> QED
    BY <1>1, <1>2, <2>1
<1> QED
  BY <1>4, <1>5, <1>6 DEF SnapshotStep

(* Both protocols under any step of a controller. *)
LEMMA ToolKeeps ==
  ASSUME Shape, Shape', Writers, Copies, Readers, NEW c \in Controllers, ToolStep(c)
  PROVE  Writers' /\ Copies' /\ Readers'
<1>1. CASE MailboxStep(c)
  BY <1>1, MailboxKeeps
<1>2. CASE SnapshotStep(c)
  BY <1>2, SnapshotKeeps
<1>3. CASE CapturePlayer(c) \/ \E on \in BOOLEAN : HookSprint(c, on)
  <2>1. /\ tick' = tick /\ teleport' = teleport /\ ctl' = ctl
        /\ position'.seq = position.seq /\ position'.x = position.x
        /\ position'.y = position.y
    BY <1>3 DEF CapturePlayer, HookSprint, Shape
  <2> QED
    BY <2>1, AsideKeeps DEF Aside
<1>4. CASE \/ InjectChecks(c) \/ InjectLoads(c) \/ FlyOnChecks(c) \/ FlyOn(c)
           \/ FlyOffTyped(c) \/ ShutdownTyped(c) \/ ShutdownRequested(c)
           \/ CallInternalSprint(c) \/ CommandEnds(c)
  <2>1. /\ tick' = tick /\ teleport' = teleport /\ position' = position
        /\ \/ ctl' = [ ctl EXCEPT ![c] = IdleController ]
           \/ \E l \in {"load", "flyOn", "flyWait", "shutdownWait", "sprintWait"} :
                ctl' = [ ctl EXCEPT ![c].pc = l ]
    BY <1>4 DEF InjectChecks, InjectLoads, FlyOnChecks, FlyOn, FlyOffTyped, ShutdownTyped,
       ShutdownRequested, CallInternalSprint, CommandEnds, Go, Ends
  <2>2. /\ \A d \in Controllers \ {c} : ctl'[d] = ctl[d]
        /\ ctl'[c].pc \notin Holding
    BY <2>1 DEF IdleController, Holding, Shape, CtlType
  <2> QED
    BY <2>1, <2>2, CommandKeeps
<1>5. ASSUME \/ Looks(c, "position", "shown") \/ Looks(c, "teleport-up", "request")
             \/ \E place \in Places : Teleport(c, place) \/ TeleportUp(c, place)
      PROVE  Writers' /\ Copies' /\ Readers'
  <2>1. CASE Looks(c, "position", "shown")
    <3>1. /\ UNCHANGED <<tick, teleport, position>>
          /\ \A d \in Controllers \ {c} : ctl'[d] = ctl[d]
          /\ ctl'[c].pc \notin Holding
      BY <2>1 DEF Looks, IdleController, Holding, Shape
    <3> QED
      BY <3>1, CommandKeeps
  <2>2. CASE Looks(c, "teleport-up", "request")
    <3>1. /\ UNCHANGED <<tick, teleport, position>>
          /\ \A d \in Controllers \ {c} : ctl'[d] = ctl[d]
          /\ ctl'[c].pc \notin Holding
      BY <2>2 DEF Looks, IdleController, Holding, Shape
    <3> QED
      BY <3>1, CommandKeeps
  <2>3. ASSUME NEW place \in Places, Teleport(c, place) \/ TeleportUp(c, place)
        PROVE  Writers' /\ Copies' /\ Readers'
    <3>1. /\ UNCHANGED <<tick, teleport, position>>
          /\ \A d \in Controllers \ {c} : ctl'[d] = ctl[d]
          /\ ctl'[c].pc \notin Holding
      <4>1. ctl' = [ ctl EXCEPT ![c] = [ IdleController EXCEPT !.pc = "request",
                                                             !.dest = place ] ]
            /\ UNCHANGED <<tick, teleport, position>>
        BY <2>3 DEF Teleport, TeleportUp, QueueTeleport
      <4>2. [ IdleController EXCEPT !.pc = "request", !.dest = place ].pc = "request"
        BY DEF IdleController
      <4> QED
        BY <4>1, <4>2 DEF Holding, Shape
    <3> QED
      BY <3>1, CommandKeeps
  <2> QED
    BY <1>5, <2>1, <2>2, <2>3
<1> QED
  BY <1>1, <1>2, <1>3, <1>4, <1>5 DEF ToolStep, CommandStep

-----------------------------------------------------------------------------
(* Every step keeps the invariant. *)
LEMMA StepInv == IInv /\ [Next]_vars => IInv'
<1> SUFFICES ASSUME IInv, [Next]_vars PROVE IInv'
  OBVIOUS
<1>1. CASE GameStep
  <2>1. Shape' /\ lib'.loads = lib.loads
    BY <1>1, ShapeGame, LoadsKept DEF IInv
  <2> QED
    BY <1>1, <2>1, BootGame, GameKeeps DEF IInv
<1>2. CASE WorkerStep
  <2>1. Shape' /\ lib'.loads = lib.loads
    BY <1>2, ShapeWorker, LoadsKept DEF IInv
  <2> QED
    BY <1>2, <2>1, WorkerKeeps DEF IInv
<1>3. ASSUME NEW c \in Controllers, ToolStep(c) PROVE IInv'
  <2>1. Shape'
    BY <1>3, ShapeTool DEF IInv
  <2>2. lib.loads <= lib'.loads
    <3>1. CASE InjectLoads(c)
      BY <3>1 DEF InjectLoads, IInv, Shape
    <3>2. CASE ~InjectLoads(c)
      <4>1. lib' = lib
        BY <1>3, <3>2 DEF ToolStep, CommandStep, MailboxStep, SnapshotStep,
           InjectChecks, FlyOnChecks,
           FlyOn, FlyOffTyped, ShutdownTyped, ShutdownRequested, CapturePlayer,
           CallInternalSprint, HookSprint, Looks, Teleport, TeleportUp, QueueTeleport,
           MailboxRead, MailboxAcquired, MailboxLost, WriteX, WriteY, MailboxSubmitted,
           AnswerSeen, ResultRead, SequenceRead, ReadY, SequenceCompared, CommandEnds
      <4> QED
        BY <4>1 DEF IInv, Shape
    <3> QED
      BY <3>1, <3>2
  <2>3. lib.loads \in Nat /\ lib'.loads \in Nat
    BY <2>1 DEF IInv, Shape
  <2>4. ASSUME lib'.loads <= 1 PROVE Boot' /\ Writers' /\ Copies' /\ Readers'
    <3>1. Shape /\ Boot /\ Writers /\ Copies /\ Readers
      BY <2>2, <2>3, <2>4 DEF IInv
    <3>2. Boot'
      BY <1>3, <2>4, <3>1, BootTool
    <3> QED
      BY <1>3, <2>1, <3>1, <3>2, ToolKeeps
  <2> QED
    BY <2>1, <2>4 DEF IInv
<1>4. CASE UNCHANGED vars
  <2>1. Shape' /\ Aside /\ worker' = worker /\ lib' = lib
    BY <1>4 DEF vars, IInv, Shape, Aside
  <2>2. lib.loads <= 1 => Boot'
    BY <1>4, <2>1 DEF vars, IInv, Boot
  <2> QED
    BY <2>1, <2>2, AsideKeeps DEF IInv
<1> QED
  BY <1>1, <1>2, <1>3, <1>4 DEF Next

(* The invariant holds in every behaviour. *)
LEMMA Invariant == Spec => []IInv
<1> QED
  BY InitInv, StepInv, PTL DEF Spec

(* The position given to Actor::SetPosition is one request's, whatever     *)
(* controllers do between the two looks at the id                          *)
(* (research_dll.cpp:804-806).                                             *)
THEOREM TeleportsWhole == Spec => []TeleportsAreWhole
<1>1. IInv => TeleportsAreWhole
  <2> SUFFICES ASSUME IInv, lib.loads <= 1, tick.pc = "confirm", teleport.request = tick.id
               PROVE  tick.x = tick.y
    BY DEF TeleportsAreWhole
  <2>1. Writers /\ Copies
    BY DEF IInv
  <2>2. tick.x = teleport.x /\ tick.y = teleport.y /\ ~Odd(teleport.request)
    BY <2>1 DEF Copies
  <2> QED
    BY <2>1, <2>2 DEF Writers
<1> QED
  BY <1>1, Invariant, PTL

(* A controller between the odd id and its submission is alone: the        *)
(* compare-exchange of external_tool.cpp:1109-1115 excludes all others.    *)
THEOREM WritersExclude == Spec => []OneWriter
<1>1. IInv => OneWriter
  <2> SUFFICES ASSUME IInv, lib.loads <= 1, NEW c \in Controllers, NEW d \in Controllers,
                      {ctl[c].pc, ctl[d].pc} \subseteq {"writeX", "writeY", "submit"}
               PROVE  c = d
    BY DEF OneWriter
  <2>1. Writing(c) /\ Writing(d)
    BY DEF Writing
  <2> QED
    BY <2>1 DEF IInv, Writers
<1> QED
  BY <1>1, Invariant, PTL

(* A position a controller accepts is one publication of the game thread   *)
(* (external_tool.cpp, ReadPositionSnapshot).                              *)
THEOREM SnapshotsWhole == Spec => []SnapshotsAreWhole
<1>1. IInv => SnapshotsAreWhole
  BY DEF IInv, Readers, SnapshotsAreWhole
<1> QED
  BY <1>1, Invariant, PTL

(* An id reaches Actor::SetPosition only while it is the outstanding       *)
(* request: no request is applied twice, none after its acknowledgement    *)
(* (research_dll.cpp:785-828).                                             *)
THEOREM AppliesOnce == Spec => AppliesOutstanding
<1>1. IInv /\ [Next]_vars =>
        [ lib.loads <= 1 /\ SetPosition =>
            tick.id = teleport.request /\ teleport.completed < tick.id ]_vars
  <2> SUFFICES ASSUME IInv, lib.loads <= 1, SetPosition
               PROVE  tick.id = teleport.request /\ teleport.completed < tick.id
    OBVIOUS
  <2> QED
    BY DEF IInv, Copies, Copying, SetPosition, TickAt
<1> QED
  BY <1>1, Invariant, PTL DEF Spec, AppliesOutstanding


-----------------------------------------------------------------------------
(***************************************************************************)
(* Proof that a controller never reports a completed teleport with a       *)
(* position from before it.  The history variable setAt of a controller is *)
(* the position_sequence at which its request was given to                 *)
(* Actor::SetPosition; the proof follows it from there to the print.       *)
(***************************************************************************)

(* A request is being applied, and its position has been published. *)
Applying ==
  \/ tick.pc \in {"accept", "refuse", "acknowledge"}
  \/ tick.pc \in {"publish", "publishXY", "publishEnd"} /\ tick.then = "acknowledge"
Published ==
  \/ tick.pc = "accept" \/ (tick.pc = "acknowledge" /\ teleport.succeeded)
  \/ tick.pc \in {"publishXY", "publishEnd"} /\ tick.then = "acknowledge"

(* What a controller may rely on at each point of its command. *)
Answered(c) ==
  \/ ctl[c].pc = "result"
  \/ ctl[c].pc = "await" /\ ctl[c].prev + 2 = teleport.completed
Reporting(c) ==
  ctl[c].pc \in {"snapshot", "readY", "compare", "got"} /\ ctl[c].next = "reported"
Timely(c) ==
  /\ ctl[c].setAt <= position.seq
  /\ ctl[c].pc \in {"idle", "load"} => ctl[c].setAt = -1
  /\ ctl[c].pc = "await" /\ Applying /\ ctl[c].prev + 2 = tick.id => ctl[c].setAt >= 0
  /\ Published => ctl[c].setAt < position.seq
  /\ Answered(c) =>
       ctl[c].setAt >= 0 /\ (teleport.succeeded => ctl[c].setAt < position.seq)
  /\ Reporting(c) => ctl[c].setAt >= 0 /\ ctl[c].setAt < position.seq
  /\ Reporting(c) /\ ctl[c].pc # "snapshot" => ctl[c].setAt < ctl[c].before
Late == \A c \in Controllers : Timely(c)
LateInv == lib.loads <= 1 => Late

-----------------------------------------------------------------------------
(* What the arithmetic of a step needs to know of its numbers. *)
LEMMA Numbers ==
  ASSUME Shape
  PROVE  /\ position.seq \in Nat /\ teleport.request \in Nat /\ teleport.completed \in Nat
         /\ tick.id \in Nat /\ tick.pc \in TickLabels
         /\ \A c \in Controllers :
              /\ ctl[c].setAt \in Int /\ ctl[c].prev \in Nat /\ ctl[c].before \in Nat
              /\ ctl[c].pc \in ToolLabels
BY DEF Shape, TickType, CtlType

(* Steps of the game thread that begin no application and publish nothing. *)
LEMMA LateQuiet ==
  ASSUME Late, position'.seq = position.seq, teleport' = teleport, ctl' = ctl,
         tick' = tick \/ (~Applying' /\ ~Published')
  PROVE  Late'
BY DEF Late, Timely, Answered, Reporting, Applying, Published

(* The game thread: setAt is taken before the sequence is advanced, and    *)
(* the answer is given after.                                              *)
LEMMA LateGame ==
  ASSUME Shape, Shape', Copies, Late, GameStep
  PROVE  Late'
<1> USE DEF TickAt, GoTick
<1>0. tick \in TickType
  BY DEF Shape
<1>1. CASE TickDetoured \/ TickOfOther \/ TickOfLocal \/ TickSprint \/ TickTelemetry \/ TickLeaves
  <2>1. ~Applying' /\ ~Published' /\ UNCHANGED <<position, teleport, ctl>>
    BY <1>0, <1>1 DEF TickDetoured, TickOfOther, TickOfLocal, TickSprint, TickTelemetry, TickLeaves,
       IdleTick, Applying, Published, TickType
  <2> QED
    BY <2>1, LateQuiet
<1>2. CASE FlyStep
  <2>1. ~Applying' /\ ~Published' /\ UNCHANGED <<position, teleport, ctl>>
    BY <1>0, <1>2 DEF FlyStep, FlyEnter, FlyOff, FlySave, FlyPatch, FlyWrite, FlyLeaves,
       Applying, Published, TickType
  <2> QED
    BY <2>1, LateQuiet
<1>3. CASE \/ TickAges \/ (\E place \in Places : WorldMoves(place))
           \/ (\E player \in Players : PlayerReplaced(player))
  <2>1. tick' = tick /\ UNCHANGED <<position, teleport, ctl>>
    BY <1>3 DEF TickAges, WorldMoves, PlayerReplaced
  <2> QED
    BY <2>1, LateQuiet
<1>4. CASE TeleportSeen \/ CopyX \/ CopyY \/ TeleportReplaced
  <2>1. ~Applying' /\ ~Published' /\ UNCHANGED <<position, teleport, ctl>>
    BY <1>0, <1>4 DEF TeleportSeen, CopyX, CopyY, TeleportReplaced, IdleTick,
       Applying, Published, TickType
  <2> QED
    BY <2>1, LateQuiet
<1>5. CASE SetPosition
  <2>1. /\ tick.pc = "confirm" /\ tick'.pc = "publish" /\ tick'.id = tick.id
        /\ UNCHANGED <<position, teleport>>
        /\ ~Published' /\ teleport.completed < tick.id
    BY <1>0, <1>5 DEF SetPosition, TickType, Published, Copies, Copying
  <2>2. \A c \in Controllers :
          IF ctl[c].pc = "await" /\ ctl[c].prev + 2 = tick.id
          THEN /\ ctl'[c].setAt = position.seq /\ ctl'[c].pc = "await"
               /\ ctl'[c].prev = ctl[c].prev
          ELSE ctl'[c] = ctl[c]
    BY <1>5 DEF SetPosition, Shape, CtlType
  <2> SUFFICES ASSUME NEW c \in Controllers PROVE Timely(c)'
    BY DEF Late
  <2>3. CASE ctl[c].pc = "await" /\ ctl[c].prev + 2 = tick.id
    BY <2>1, <2>2, <2>3, Numbers DEF Timely, Answered, Reporting
  <2>4. CASE ~(ctl[c].pc = "await" /\ ctl[c].prev + 2 = tick.id)
    BY <2>1, <2>2, <2>4 DEF Late, Timely, Answered, Reporting
  <2> QED
    BY <2>3, <2>4
<1>6. CASE TeleportJudged
  <2>1. /\ UNCHANGED <<position, ctl>> /\ tick'.pc = "acknowledge" /\ tick'.id = tick.id
        /\ teleport'.completed = teleport.completed
        /\ teleport'.succeeded => tick.pc = "accept"
        /\ tick.pc \in {"accept", "refuse"}
    BY <1>0, <1>6 DEF TeleportJudged, TickType, Shape
  <2> QED
    BY <2>1 DEF Late, Timely, Answered, Reporting, Applying, Published
<1>7. CASE TeleportAcknowledged
  <2>1. /\ UNCHANGED <<position, ctl>> /\ ~Applying' /\ ~Published'
        /\ teleport'.completed = tick.id /\ teleport'.succeeded = teleport.succeeded
        /\ tick.pc = "acknowledge"
    BY <1>0, <1>7 DEF TeleportAcknowledged, TickType, Shape, IdleTick, Applying, Published
  <2> QED
    BY <2>1 DEF Late, Timely, Answered, Reporting, Applying, Published
<1>8. CASE PublishFails
  <2>1. /\ UNCHANGED <<teleport, ctl>> /\ position'.seq = position.seq /\ ~Published'
        /\ tick'.id = tick.id /\ (Applying' => Applying)
    BY <1>0, <1>8 DEF PublishFails, TickType, Shape, Applying, Published
  <2> QED
    BY <2>1 DEF Late, Timely, Answered, Reporting
<1>9. CASE PublishBegins \/ PublishEnds
  <2>1. /\ UNCHANGED <<teleport, ctl>> /\ position'.seq = position.seq + 1
        /\ tick'.id = tick.id /\ (Applying' => Applying)
    BY ZenonT(60), <1>0, <1>9 DEF PublishBegins, PublishEnds, TickType, Shape, Applying
  <2> SUFFICES ASSUME NEW c \in Controllers PROVE Timely(c)'
    BY DEF Late
  <2>2. Timely(c) /\ ctl'[c] = ctl[c]
    BY <2>1 DEF Late
  <2> QED
    BY <2>1, <2>2, Numbers DEF Timely, Answered, Reporting
<1>10. CASE PublishHalves
  <2>1. /\ UNCHANGED <<teleport, ctl>> /\ position'.seq = position.seq
        /\ tick'.id = tick.id /\ (Applying' => Applying) /\ (Published' => Published)
    BY <1>0, <1>10 DEF PublishHalves, TickType, Shape, Applying, Published
  <2> QED
    BY <2>1 DEF Late, Timely, Answered, Reporting
<1> QED
  BY <1>1, <1>2, <1>3, <1>4, <1>5, <1>6, <1>7, <1>8, <1>9, <1>10
     DEF GameStep, TickStep, TeleportStep, PublishStep

(* The library's thread zeroes the mapping before anybody waits. *)
LEMMA LateWorker ==
  ASSUME Shape, Boot, Late, WorkerStep
  PROVE  Late'
<1>1. CASE InitializeSharedState
  <2>1. /\ position'.seq = 0 /\ UNCHANGED <<tick, ctl>> /\ tick.pc = "game"
        /\ \A c \in Controllers : ctl[c].pc \in {"idle", "load"}
    BY <1>1 DEF InitializeSharedState, ZeroPosition, WorkerAt, Boot, IdleTick
  <2> QED
    BY <2>1 DEF Late, Timely, Answered, Reporting, Applying, Published
<1>2. CASE ~InitializeSharedState
  <2>1. UNCHANGED <<teleport, tick, ctl>> /\ position'.seq = position.seq
    BY <1>2 DEF WorkerStep, InitStep, WatchdogStep, ShutdownStep, InitializeFails,
       VerifyRuntimeSignatures, CreateHooks, EnableHooks, RollBackHooks, RollBackDrained,
       AnnounceReady, WatchdogDecides, WatchdogClears, ShutdownSeen, RestoreObserved,
       RestoreWaitEnds, RestoreByWorker, DisableHooks, Drained, ExitWorker, Shape
  <2> QED
    BY <2>1, LateQuiet
<1> QED
  BY <1>1, <1>2

(* A controller that steps affects nobody else's times. *)
LEMMA LateOther ==
  ASSUME Late, NEW c \in Controllers, tick' = tick, position'.seq = position.seq,
         teleport'.completed = teleport.completed, teleport'.succeeded = teleport.succeeded,
         \A d \in Controllers \ {c} : ctl'[d] = ctl[d], Timely(c)'
  PROVE  Late'
<1>1. ASSUME NEW d \in Controllers \ {c} PROVE Timely(d)'
  BY <1>1 DEF Late, Timely, Answered, Reporting, Applying, Published
<1> QED
  BY <1>1 DEF Late

(* A controller: it waits for an id that was neither applied nor           *)
(* acknowledged when it submitted it, and reads the sequence only once it  *)
(* was.                                                                    *)
LEMMA LateTool ==
  ASSUME Shape, Writers, Copies, Late, NEW c \in Controllers, ToolStep(c)
  PROVE  Late'
<1> USE DEF At, Go, Ends
<1>0. /\ ctl \in [ Controllers -> CtlType ] /\ Timely(c) /\ -1 < position.seq
      /\ IdleController.pc = "idle" /\ IdleController.setAt = -1
      /\ IdleController.next = "idle"
  BY Numbers DEF Shape, Late, IdleController
<1>1. CASE CapturePlayer(c) \/ (\E on \in BOOLEAN : HookSprint(c, on))
  <2>1. UNCHANGED <<teleport, tick, ctl>> /\ position'.seq = position.seq
    BY <1>1 DEF CapturePlayer, HookSprint, Shape
  <2> QED
    BY <2>1, LateQuiet
<1>2. CASE ~(CapturePlayer(c) \/ (\E on \in BOOLEAN : HookSprint(c, on)))
  <2>0. /\ tick' = tick /\ position' = position
        /\ teleport'.completed = teleport.completed
        /\ teleport'.succeeded = teleport.succeeded
    BY <1>2 DEF ToolStep, CommandStep, MailboxStep, SnapshotStep, CommandEnds, InjectChecks,
       InjectLoads, FlyOnChecks, FlyOn, FlyOffTyped, ShutdownTyped, ShutdownRequested,
       CallInternalSprint, Looks, Teleport, TeleportUp, QueueTeleport, MailboxRead,
       MailboxAcquired, MailboxLost, WriteX, WriteY, MailboxSubmitted, AnswerSeen, ResultRead,
       SequenceRead, ReadY, SequenceCompared, Shape
  <2>1. ASSUME NEW t, ctl' = [ ctl EXCEPT ![c] = t ],
               t.setAt = -1 \/ t.setAt = ctl[c].setAt, t.pc # "result", t.pc # "await",
               t.pc \in {"idle", "load"} => t.setAt = -1,
               t.pc \in {"snapshot", "readY", "compare", "got"} => t.next # "reported"
        PROVE  Late'
    <3>1. ctl'[c] = t /\ \A d \in Controllers \ {c} : ctl'[d] = ctl[d]
      BY <1>0, <2>1
    <3>2. Timely(c)'
      <4>1. t.setAt \in Int /\ t.setAt <= position.seq
        BY <1>0, <2>1, Numbers DEF Timely
      <4>2. Published => t.setAt < position.seq
        BY <1>0, <2>1 DEF Timely
      <4> QED
        BY <2>0, <2>1, <3>1, <4>1, <4>2 DEF Timely, Answered, Reporting, Published, Applying
    <3> QED
      BY <2>0, <3>1, <3>2, LateOther
  <2>2. CASE CommandEnds(c) \/ InjectLoads(c) \/ ShutdownRequested(c) \/ MailboxLost(c)
    <3>1. ctl' = [ ctl EXCEPT ![c] = IdleController ]
      BY <2>2 DEF CommandEnds, InjectLoads, ShutdownRequested, MailboxLost
    <3> QED
      BY <1>0, <2>1, <3>1
  <2>3. CASE \/ InjectChecks(c) \/ FlyOnChecks(c) \/ FlyOn(c) \/ FlyOffTyped(c)
             \/ ShutdownTyped(c) \/ CallInternalSprint(c)
    <3>1. PICK l \in {"load", "flyOn", "flyWait", "shutdownWait", "sprintWait"} :
            /\ ctl' = [ ctl EXCEPT ![c].pc = l ]
            /\ l = "load" => ctl[c].pc = "idle"
      BY <2>3 DEF InjectChecks, FlyOnChecks, FlyOn, FlyOffTyped, ShutdownTyped,
         CallInternalSprint, Types
    <3>2. /\ [ ctl[c] EXCEPT !.pc = l ].pc = l
          /\ [ ctl[c] EXCEPT !.pc = l ].setAt = ctl[c].setAt
      BY <1>0 DEF CtlType
    <3> QED
      BY <1>0, <2>1, <3>1, <3>2 DEF Timely
  <2>4. CASE Looks(c, "position", "shown") \/ Looks(c, "teleport-up", "request")
    <3>1. PICK n \in {"shown", "request"} :
            ctl' = [ ctl EXCEPT ![c] = [ IdleController EXCEPT !.pc = "snapshot", !.next = n ] ]
      BY <2>4 DEF Looks
    <3>2. /\ [ IdleController EXCEPT !.pc = "snapshot", !.next = n ].pc = "snapshot"
          /\ [ IdleController EXCEPT !.pc = "snapshot", !.next = n ].setAt = -1
          /\ [ IdleController EXCEPT !.pc = "snapshot", !.next = n ].next = n
      BY DEF IdleController
    <3> QED
      BY <2>1, <3>1, <3>2
  <2>5. CASE \E place \in Places : Teleport(c, place) \/ TeleportUp(c, place)
    <3>1. PICK place \in Places :
            ctl' = [ ctl EXCEPT ![c] = [ IdleController EXCEPT !.pc = "request", !.dest = place ] ]
      BY <2>5 DEF Teleport, TeleportUp, QueueTeleport
    <3>2. /\ [ IdleController EXCEPT !.pc = "request", !.dest = place ].pc = "request"
          /\ [ IdleController EXCEPT !.pc = "request", !.dest = place ].setAt = -1
      BY DEF IdleController
    <3> QED
      BY <2>1, <3>1, <3>2
  <2>6. CASE MailboxRead(c)
    <3>1. CASE ctl' = [ ctl EXCEPT ![c] = IdleController ]
      BY <1>0, <2>1, <3>1
    <3>2. CASE ctl' = [ ctl EXCEPT ![c].pc = "acquire", ![c].prev = teleport.request ]
      <4> DEFINE t == [ ctl[c] EXCEPT !.pc = "acquire", !.prev = teleport.request ]
      <4>1. t.pc = "acquire" /\ t.setAt = ctl[c].setAt
        BY <1>0 DEF CtlType
      <4>2. ctl' = [ ctl EXCEPT ![c] = t ]
        BY <1>0, <3>2
      <4> QED
        BY <2>1, <4>1, <4>2
    <3> QED
      BY <2>6, <3>1, <3>2 DEF MailboxRead
  <2>7. CASE MailboxAcquired(c) \/ WriteX(c) \/ WriteY(c)
    <3>1. PICK l \in {"writeX", "writeY", "submit"} : ctl' = [ ctl EXCEPT ![c].pc = l ]
      BY <2>7 DEF MailboxAcquired, WriteX, WriteY
    <3>2. /\ [ ctl[c] EXCEPT !.pc = l ].pc = l
          /\ [ ctl[c] EXCEPT !.pc = l ].setAt = ctl[c].setAt
      BY <1>0 DEF CtlType
    <3> QED
      BY <1>0, <2>1, <3>1, <3>2
  <2>8. CASE MailboxSubmitted(c)
    <3>1. /\ ctl'[c].pc = "await" /\ ctl'[c].prev = ctl[c].prev /\ ctl'[c].setAt = ctl[c].setAt
          /\ \A d \in Controllers \ {c} : ctl'[d] = ctl[d]
      BY <1>0, <2>8 DEF MailboxSubmitted, CtlType
    <3>2. /\ teleport.request = ctl[c].prev + 1
          /\ teleport.completed <= teleport.request /\ tick.id <= teleport.request
      BY <2>8 DEF MailboxSubmitted, Writers, Writing, Copies
    <3>3. teleport.completed # ctl[c].prev + 2 /\ tick.id # ctl[c].prev + 2
      BY <3>2, Numbers
    <3>4. Timely(c)'
      BY <1>0, <2>0, <3>1, <3>3 DEF Timely, Answered, Reporting, Published, Applying
    <3> QED
      BY <2>0, <3>1, <3>4, LateOther
  <2>9. CASE AnswerSeen(c)
    <3>1. /\ ctl'[c].pc = "result" /\ ctl'[c].setAt = ctl[c].setAt
          /\ ctl[c].pc = "await" /\ ctl[c].prev + 2 = teleport.completed
          /\ \A d \in Controllers \ {c} : ctl'[d] = ctl[d]
      BY <1>0, <2>9 DEF AnswerSeen, CtlType
    <3>2. Timely(c)'
      BY <1>0, <2>0, <3>1 DEF Timely, Answered, Reporting, Published, Applying
    <3> QED
      BY <2>0, <3>1, <3>2, LateOther
  <2>10. CASE ResultRead(c)
    <3>1. CASE ~teleport.succeeded
      <4>1. ctl' = [ ctl EXCEPT ![c] = IdleController ]
        BY <2>10, <3>1 DEF ResultRead
      <4> QED
        BY <1>0, <2>1, <4>1
    <3>2. CASE teleport.succeeded
      <4>1. /\ ctl'[c].pc = "snapshot" /\ ctl'[c].setAt = ctl[c].setAt /\ ctl[c].pc = "result"
            /\ \A d \in Controllers \ {c} : ctl'[d] = ctl[d]
        BY <1>0, <2>10, <3>2 DEF ResultRead, CtlType
      <4>2. Timely(c)'
        BY <1>0, <2>0, <3>2, <4>1 DEF Timely, Answered, Reporting, Published, Applying
      <4> QED
        BY <2>0, <4>1, <4>2, LateOther
    <3> QED
      BY <3>1, <3>2
  <2>11. CASE SnapshotStep(c)
    <3>1. /\ ctl'[c].pc \in {"snapshot", "readY", "compare", "got"}
          /\ ctl[c].pc \in {"snapshot", "readY", "compare", "got"}
          /\ ctl'[c].setAt = ctl[c].setAt /\ ctl'[c].next = ctl[c].next
          /\ \A d \in Controllers \ {c} : ctl'[d] = ctl[d]
      BY <1>0, <2>11 DEF SnapshotStep, SequenceRead, ReadY, SequenceCompared, CtlType
    <3>2. \/ ctl'[c].pc = "snapshot" \/ ctl'[c].before = position.seq
          \/ ctl[c].pc # "snapshot" /\ ctl'[c].before = ctl[c].before
      BY <1>0, <2>11 DEF SnapshotStep, SequenceRead, ReadY, SequenceCompared, CtlType
    <3>3. Timely(c)'
      BY <1>0, <2>0, <3>1, <3>2 DEF Timely, Answered, Reporting, Published, Applying
    <3> QED
      BY <2>0, <3>1, <3>3, LateOther
  <2> QED
    BY <1>2, <2>2, <2>3, <2>4, <2>5, <2>6, <2>7, <2>8, <2>9, <2>10, <2>11
       DEF ToolStep, CommandStep, MailboxStep
<1> QED
  BY <1>1, <1>2

(* Every step keeps what controllers rely on. *)
LEMMA LateStep == IInv /\ IInv' /\ LateInv /\ [Next]_vars => LateInv'
<1> SUFFICES ASSUME IInv, IInv', LateInv, [Next]_vars, lib'.loads <= 1 PROVE Late'
  BY DEF LateInv
<1>0. Shape /\ Shape'
  BY DEF IInv
<1>1. CASE GameStep \/ WorkerStep
  <2>1. lib.loads <= 1
    BY <1>0, <1>1, LoadsKept
  <2>2. Boot /\ Copies /\ Late
    BY <2>1 DEF IInv, LateInv
  <2> QED
    BY <1>0, <1>1, <2>2, LateGame, LateWorker
<1>2. CASE \E c \in Controllers : ToolStep(c)
  <2>1. PICK c \in Controllers : ToolStep(c)
    BY <1>2
  <2>2. lib.loads <= 1
    <3>1. lib' = lib \/ (lib'.loads = lib.loads + 1 /\ lib.loads \in Nat)
      BY <1>0, <2>1 DEF Shape, ToolStep, CommandStep, MailboxStep, SnapshotStep, CommandEnds,
         InjectChecks, InjectLoads, FlyOnChecks, FlyOn, FlyOffTyped, ShutdownTyped,
         ShutdownRequested, CapturePlayer, CallInternalSprint, HookSprint, Looks, Teleport,
         TeleportUp, QueueTeleport, MailboxRead, MailboxAcquired, MailboxLost, WriteX, WriteY,
         MailboxSubmitted, AnswerSeen, ResultRead, SequenceRead, ReadY, SequenceCompared
    <3> QED
      BY <3>1
  <2>3. Writers /\ Copies /\ Late
    BY <2>2 DEF IInv, LateInv
  <2> QED
    BY <1>0, <2>1, <2>3, LateTool
<1>3. CASE UNCHANGED vars
  <2>1. Late
    BY <1>3 DEF vars, LateInv
  <2> QED
    BY <1>3, <2>1, LateQuiet DEF vars
<1> QED
  BY <1>1, <1>2, <1>3 DEF Next

(* A success is printed with a position that was published after the       *)
(* request was applied, never with the one of the tick before              *)
(* (research_dll.cpp:815-817), for any number of controllers.              *)
THEOREM ReportsAreLater == Spec => []ReportsLaterPosition
<1>1. Init => LateInv
  <2> SUFFICES ASSUME Init, NEW c \in Controllers PROVE Timely(c)
    BY DEF LateInv, Late
  <2>1. /\ position.seq = 0 /\ tick.pc = "game"
        /\ ctl[c].pc = "idle" /\ ctl[c].setAt = -1
    BY DEF Init, InitShared, ZeroPosition, IdleTick, IdleController
  <2> QED
    BY <2>1 DEF Timely, Answered, Reporting, Applying, Published
<1>2. IInv /\ LateInv => ReportsLaterPosition
  <2> SUFFICES ASSUME IInv, LateInv, NEW c \in Controllers, lib.loads <= 1,
                      ctl[c].pc = "got", ctl[c].next = "reported"
               PROVE  ctl[c].setAt >= 0 /\ ctl[c].before > ctl[c].setAt
    BY DEF ReportsLaterPosition
  <2>1. ctl[c].setAt \in Int /\ ctl[c].before \in Nat
    BY Numbers DEF IInv
  <2>2. Timely(c) /\ Reporting(c)
    BY DEF LateInv, Late, Reporting
  <2> QED
    BY <2>1, <2>2 DEF Timely
<1> QED
  BY <1>1, <1>2, LateStep, Invariant, PTL DEF Spec

=============================================================================
