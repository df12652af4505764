----------------------------- MODULE RelayClock -----------------------------
(***************************************************************************)
(* Time as the relay sees it: the monotonic reading behind time.Now().     *)
(* One tick stands for the shortest interval the configuration can set     *)
(* apart; a handler that keeps a reading in a local variable keeps an old  *)
(* value of clock.                                                         *)
(***************************************************************************)
EXTENDS Naturals

CONSTANT MaxTime    \* bound of the model: the clock stops here

ASSUME MaxTimeAssumption == MaxTime \in Nat

VARIABLE clock

ClockTypeOK == clock \in 0 .. MaxTime

ClockInit == clock = 0

Advance ==
  /\ clock < MaxTime
  /\ clock' = clock + 1
=============================================================================
