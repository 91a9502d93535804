----------------------------- MODULE PlacementMC -----------------------------
(* One learner; sections 1, 2 and 3 stand for reading, writing, speaking.  *)
EXTENDS Placement, TLC

CONSTANTS a1, a2, c1, c2, w1, w2

Anything == {"enqueue", "reserve", "state", "finish"}

Symmetry == Permutations(Workers) \cup Permutations(Clients) \cup Permutations(Tests)
=============================================================================
