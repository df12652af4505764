------------------------------- MODULE MCRelay -------------------------------
(***************************************************************************)
(* Small instances of the relay for TLC.  The configurations differ in who *)
(* takes part; the safety ones use the symmetry of the interchangeable     *)
(* handlers and cookies.                                                   *)
(***************************************************************************)
EXTENDS RelayProperties, TLC

Interchangeable ==
  Permutations(Viewers) \cup Permutations(Producers) \cup
  Permutations(Requests) \cup Permutations(Sessions)
=============================================================================
