------------------------------- MODULE Island -------------------------------
(***************************************************************************)
(* The research library inside the game and the controllers outside of it, *)
(* composed over the mapping they share, and what the composition promises.*)
(***************************************************************************)
EXTENDS IslandTick, IslandWorker, IslandTool

Init == InitShared
Next == GameStep \/ WorkerStep \/ \E c \in Controllers : ToolStep(c)
Fairness == WF_vars(TickStep) /\ WF_vars(TickDetoured) /\ WF_vars(WorkerStep)
Spec == Init /\ [][Next]_vars /\ Fairness

-----------------------------------------------------------------------------
TickLabels ==
  {"game", "prologue", "fly", "flyOff", "flySave", "flyPatch", "flyWrite", "sprint",
   "teleport", "copyX", "copyY", "confirm", "publish", "publishXY", "publishEnd", "accept", "refuse", "acknowledge", "telemetry", "leave"}
WorkerLabels ==
  {"none", "init", "verify", "hook", "enable", "rollback", "rollbackDrain", "ready",
   "running", "invalidate", "restoreWait", "restoreLock", "disable", "drain", "exit",
   "resident"}
ToolLabels ==
  {"idle", "load", "request", "acquire", "writeX", "writeY", "submit", "await", "result",
   "snapshot", "readY", "compare", "got", "flyOn", "flyWait", "shutdownWait",
   "sprintWait"}

(* Types of the mapping, of the library's globals and of every program     *)
(* counter (shared_state.hpp).                                             *)
TypeOK ==
  /\ status \in [ hookReady : {-1, 0, 1}, tickHook : BOOLEAN, initError : 0..25,
                  shutdown : BOOLEAN, player : Players \cup {NoPlayer},
                  lastTick : {"never", "fresh", "stale"}, telemetry : BOOLEAN ]
  /\ position \in [ seq : Nat, x : Places, y : Places, valid : BOOLEAN ]
  /\ teleport \in [ request : 0..LongMax, completed : 0..LongMax, succeeded : BOOLEAN,
                    x : Places, y : Places ]
  /\ sprint \in [ override : BOOLEAN, requested : BOOLEAN, calls : Nat ]
  /\ fly \in [ enabled : BOOLEAN, patched : BOOLEAN, saved : BOOLEAN,
               error : BOOLEAN,
               active : BOOLEAN, snapPlayer : Players \cup {NoPlayer},
               snapValue : {"own", "fly"}, code : {"original", "enabled"},
               movement : {"own", "fly"}, faults : Nat ]
  /\ lib \in [ refs : Int, loads : Nat, mapped : BOOLEAN, hooks : BOOLEAN,
               active : Int, lock : {"free", "tick"} ]
  /\ world \in [ player : Players, place : Places ]
  /\ tick \in [ pc : TickLabels, id : 0..LongMax, x : Places, y : Places,
                then : {"leave", "acknowledge"} ]
  /\ worker \in WorkerLabels
  /\ ctl \in [ Controllers ->
               [ pc : ToolLabels, next : {"idle", "shown", "request", "reported"},
                 prev : 0..LongMax, dest : Places, before : Nat, x : Places, y : Places,
                 setAt : Int ] ]

-----------------------------------------------------------------------------
(* Whoever writes the mailbox and however the game's tick interleaves, the *)
(* position given to Actor::SetPosition is one request's, never halves of  *)
(* two (external_tool.cpp:1117-1119, research_dll.cpp:804-806).  The       *)
(* library is loaded once: a second load zeroes the ids under a writer.    *)
TeleportsAreWhole ==
  lib.loads <= 1 /\ tick.pc = "confirm" /\ teleport.request = tick.id => tick.x = tick.y

(* A controller that took the mailbox is alone in it until it submits.     *)
OneWriter ==
  lib.loads <= 1 =>
    \A c, d \in Controllers :
      {ctl[c].pc, ctl[d].pc} \subseteq {"writeX", "writeY", "submit"} => c = d

(* A coherent snapshot of ReadPositionSnapshot is one publication, never   *)
(* halves of two, in spite of lock-free publishers and clearers.           *)
SnapshotsAreWhole ==
  \A c \in Controllers : lib.loads <= 1 /\ ctl[c].pc = "got" => ctl[c].x = ctl[c].y

(* The position printed with a completed teleport was published after that *)
(* request's SetPosition: never the previous tick's tuple                  *)
(* (research_dll.cpp:815-817).                                             *)
ReportsLaterPosition ==
  \A c \in Controllers :
    lib.loads <= 1 /\ ctl[c].pc = "got" /\ ctl[c].next = "reported" =>
      ctl[c].setAt >= 0 /\ ctl[c].before > ctl[c].setAt

(* The mailbox acknowledges each request at most once and in order: an id  *)
(* is given to SetPosition only while it is the one outstanding request.   *)
AppliesOutstanding ==
  [][ lib.loads <= 1 /\ SetPosition =>
        tick.id = teleport.request /\ teleport.completed < tick.id ]_vars

(* A submitted request is acknowledged while the game keeps ticking, even  *)
(* when its controller timed out or was closed.                            *)
Submitted(id) == lib.hooks /\ worker = "running" /\ teleport.request = id
RequestsAnswered ==
  \A id \in { n \in 1..LongMax : ~Odd(n) } :
    Submitted(id) ~> (teleport.completed >= id \/ position.seq >= SeqBound
                      \/ ~lib.hooks)

-----------------------------------------------------------------------------
(* Whenever g_fly_lock is free, what fly changed is covered by what is     *)
(* needed to undo it, and the two published flags say so: after any        *)
(* sequence of failed and repeated writes, rollbacks and player changes.   *)
FlyReversible ==
  lib.loads <= 1 /\ lib.refs > 0 /\ lib.lock = "free" =>
    /\ fly.patched = fly.active /\ fly.active = (fly.code = "enabled")
    /\ fly.saved = (fly.snapPlayer # NoPlayer)
    /\ fly.movement = "fly" => fly.snapPlayer = world.player

(* A snapshot never records the values fly wrote as the player's own.      *)
SnapshotIsOwn == lib.loads <= 1 /\ fly.snapPlayer # NoPlayer => fly.snapValue = "own"

(* No tick runs code of the library, and no hook leads to it, once the     *)
(* last reference is gone (research_dll.cpp:1086, 1097-1104).              *)
NoUnloadedCode == lib.refs = 0 => ~lib.hooks /\ tick.pc = "game" /\ ~lib.mapped

(* A requested shutdown ends: unloaded, or resident because a hook or a    *)
(* modification is still live.                                             *)
ShutdownEnds == (worker = "running" /\ status.shutdown) ~> worker \in {"none", "resident"}

(* What research_dll.cpp:633-637 says of a player change: the tick of the  *)
(* new player never writes a saved snapshot through the old pointer.       *)
NoStrayRestore ==
  [][ FlyOff /\ fly.snapPlayer # NoPlayer /\ fly'.snapPlayer = NoPlayer
        => fly.snapPlayer = world.player ]_vars

=============================================================================
