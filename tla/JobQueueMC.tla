----------------------------- MODULE JobQueueMC -----------------------------
(* Two jobs, two workers.                                                  *)
EXTENDS JobQueue, TLC

CONSTANTS j1, j2, w1, w2

Everything == Commands

Symmetry == Permutations(Jobs) \cup Permutations(Workers)
=============================================================================
