------------------------------ MODULE MCIsland ------------------------------
(* Commands of the two slices of Island that TLC explores. *)
EXTENDS Island, TLC

ControllersAlike == Permutations(Controllers)

MailboxCommands == {"inject", "teleport", "teleport-up", "capture-player"}
FlyCommands == {"inject", "fly on", "fly off", "shutdown-dll"}
LiveCommands == {"inject", "teleport", "position", "shutdown-dll", "capture-player",
                 "call-internal-sprint", "hook-sprint"}

(* The mailbox run also begins after a second load, which a controller of  *)
(* the first one sleeps through: it took the mailbox behind request 2,     *)
(* wrote both coordinates and still has to store 4, while the worker has   *)
(* zeroed the mapping, is running again and has seen one tick.  The        *)
(* behaviours that lead there need END, two loads and a completed teleport,  *)
(* too much for TLC beside the interleavings of two controllers.           *)
Reloaded ==
  /\ world \in [ player : Players, place : {Coordinate} ]
  /\ status = [ ZeroStatus EXCEPT !.hookReady = 1, !.tickHook = TRUE, !.lastTick = "fresh",
                                  !.player = world.player, !.telemetry = TRUE ]
  /\ position = [ ZeroPosition EXCEPT !.seq = 2, !.valid = TRUE ]
  /\ teleport = ZeroTeleport /\ sprint = ZeroSprint /\ fly = InitFly
  /\ lib = [ refs |-> 1, loads |-> 2, mapped |-> TRUE, hooks |-> TRUE,
             active |-> 0, lock |-> "free" ]
  /\ tick = IdleTick /\ worker = "running"
  /\ \E sleeper \in Controllers :
       ctl = [ c \in Controllers |->
                IF c = sleeper THEN [ IdleController EXCEPT !.pc = "submit", !.prev = 2 ]
                ELSE IdleController ]

MailboxSpec == (Init \/ Reloaded) /\ [][Next]_vars
=============================================================================
