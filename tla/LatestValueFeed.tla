--------------------------- MODULE LatestValueFeed ---------------------------
(***************************************************************************)
(* What a room promises about frames, without queues, locks or producers:  *)
(* frames are numbered in the order they are published, and a viewer sees  *)
(* an increasing choice of them: it may skip a frame, it never sees one    *)
(* twice, late, or before it exists.                                       *)
(***************************************************************************)
EXTENDS Naturals

CONSTANTS Viewers, MaxFrames

VARIABLES
  published,   \* how many frames exist
  seen         \* for each viewer, the number of the last frame it took

feedVars == <<published, seen>>

Init ==
  /\ published = 0
  /\ seen = [v \in Viewers |-> 0]

PublishNext ==
  /\ published < MaxFrames
  /\ published' = published + 1
  /\ UNCHANGED seen

Show(v) ==
  /\ \E n \in seen[v] + 1 .. published : seen' = [seen EXCEPT ![v] = n]
  /\ UNCHANGED published

Next == PublishNext \/ \E v \in Viewers : Show(v)

Spec == Init /\ [][Next]_feedVars
=============================================================================
