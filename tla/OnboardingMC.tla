---------------------------- MODULE OnboardingMC ----------------------------
(* Two placement tests in turn, and up to two requests at once.            *)
EXTENDS Onboarding, TLC

CONSTANTS a1, a2, c1, c2

Symmetry == Permutations(Clients) \cup Permutations(Tests)
=============================================================================
