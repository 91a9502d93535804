------------------------------- MODULE JobLife -------------------------------
(***************************************************************************)
(* What the job queue promises about one job, without lists, workers and   *)
(* errors: a job waits, is taken by one worker, is started at most once    *)
(* each time it is taken, and goes back to wait or comes to one outcome.   *)
(***************************************************************************)
EXTENDS Naturals

CONSTANTS Jobs, MaxAttempts

VARIABLES
    stage,      \* "none", "waiting", "taken", or the outcome
    starts      \* how often its handler was started

Outcomes == {"succeeded", "failed"}

Init ==
    /\ stage = [j \in Jobs |-> "none"]
    /\ starts = [j \in Jobs |-> 0]

Move(j, from, to) ==
    /\ stage[j] = from
    /\ stage' = [stage EXCEPT ![j] = to]
    /\ UNCHANGED starts

Create(j) == Move(j, "none", "waiting")
Take(j)   == Move(j, "waiting", "taken")

Run(j) ==
    /\ stage[j] = "taken"
    /\ starts[j] < MaxAttempts
    /\ starts' = [starts EXCEPT ![j] = @ + 1]
    /\ UNCHANGED stage

Again(j) == starts[j] \in 1..(MaxAttempts - 1) /\ Move(j, "taken", "waiting")

End(j) == starts[j] > 0 /\ \E o \in Outcomes : Move(j, "taken", o)

Next == \E j \in Jobs : Create(j) \/ Take(j) \/ Run(j) \/ Again(j) \/ End(j)

Spec == Init /\ [][Next]_<<stage, starts>>
=============================================================================
