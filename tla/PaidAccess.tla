----------------------------- MODULE PaidAccess -----------------------------
(***************************************************************************)
(* What the payments module promises about one transaction, without its    *)
(* callbacks, claims and retries: it is offered once, it ends either in    *)
(* access or cancelled, for good, and it points at a subscription only     *)
(* once that access exists.                                                *)
(***************************************************************************)
CONSTANT Txs

VARIABLES outcome, linked

Init ==
    /\ outcome = [t \in Txs |-> "none"]
    /\ linked = {}

Move(t, from, to) ==
    /\ outcome[t] = from
    /\ outcome' = [outcome EXCEPT ![t] = to]
    /\ UNCHANGED linked

Offer(t)  == Move(t, "none", "open")
Grant(t)  == Move(t, "open", "granted")
Cancel(t) == Move(t, "open", "canceled")

Link(t) ==
    /\ outcome[t] = "granted"
    /\ linked' = linked \cup {t}
    /\ UNCHANGED outcome

Next == \E t \in Txs : Offer(t) \/ Grant(t) \/ Cancel(t) \/ Link(t)

Spec == Init /\ [][Next]_<<outcome, linked>>
=============================================================================
