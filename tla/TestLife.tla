------------------------------ MODULE TestLife ------------------------------
(***************************************************************************)
(* What the assessment module promises about one learner's placement       *)
(* tests, without requests, jobs and retries: one is open at a time, its   *)
(* sections are handed in once and in order, each is graded once, and a    *)
(* result is published of nothing but a whole test.                        *)
(***************************************************************************)
EXTENDS Naturals

CONSTANTS Tests, Sections   \* Sections: how many a test has

VARIABLES
    stage,      \* "none", "taking", "submitted", "published" or "closed"
    handed,     \* how many sections are handed in
    graded      \* which sections have a result

life == <<stage, handed, graded>>

Init ==
    /\ stage = [t \in Tests |-> "none"]
    /\ handed = [t \in Tests |-> 0]
    /\ graded = [t \in Tests |-> {}]

Begin(t) ==
    /\ stage[t] = "none"
    /\ \A u \in Tests : stage[u] \notin {"taking", "submitted"}
    /\ stage' = [stage EXCEPT ![t] = "taking"]
    /\ UNCHANGED <<handed, graded>>

HandIn(t) ==
    /\ stage[t] = "taking"
    /\ handed' = [handed EXCEPT ![t] = @ + 1]
    /\ stage' = [stage EXCEPT ![t] = IF handed'[t] = Sections THEN "submitted" ELSE @]
    /\ \/ UNCHANGED graded
       \/ graded' = [graded EXCEPT ![t] = @ \cup {handed'[t]}]

Grade(t, i) ==
    /\ i <= handed[t]
    /\ i \notin graded[t]
    /\ graded' = [graded EXCEPT ![t] = @ \cup {i}]
    /\ UNCHANGED <<stage, handed>>

Publish(t) ==
    /\ stage[t] = "submitted"
    /\ graded[t] = 1..Sections
    /\ stage' = [stage EXCEPT ![t] = "published"]
    /\ UNCHANGED <<handed, graded>>

Close(t) ==
    /\ stage[t] = "taking"
    /\ stage' = [stage EXCEPT ![t] = "closed"]
    /\ UNCHANGED <<handed, graded>>

Next == \E t \in Tests :
    \/ Begin(t) \/ HandIn(t) \/ Publish(t) \/ Close(t)
    \/ \E i \in 1..Sections : Grade(t, i)

Spec == Init /\ [][Next]_life
=============================================================================
