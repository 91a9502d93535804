----------------------------- MODULE BillingMC -----------------------------
(* Values of Billing's constants for TLC. *)
EXTENDS Billing, TLC

CONSTANTS u1, p1, p2, t1, t2, k1, k2, k3, h1, h2

\* Two units to a month, so that a payment can arrive in the middle of one.
Monthly == [p \in Plans |-> 2]

\* One plan billed by the month, one without an end.
MonthlyAndLifetime == p1 :> 2 @@ p2 :> 0

\* Attempts for the right amount are alike.
Interchangeable ==
    Permutations(Txs) \cup Permutations(Trans \ Misquoted) \cup Permutations(Handlers)
=============================================================================
