----------------------------- MODULE Onboarding -----------------------------
(***************************************************************************)
(* The onboarding of one learner (internal/onboarding) together with their *)
(* placement tests, taken as TestLife: the step the server remembers, the  *)
(* requests that set it, and the calls by which the assessment module      *)
(* advances it, made after its own transaction and in any order.           *)
(***************************************************************************)
EXTENDS Naturals, Sequences, SequencesExt

CONSTANTS
    Tests, Sections,
    Clients,        \* requests that read first and write later, at once
    CanLose,        \* whether a call of the assessment module may fail
    None

ASSUME SectionsAssumption == Sections \in 1..4
ASSUME NoneAssumption == None \notin Tests

VARIABLES
    step, path, linked,     \* onboarding_progress: step, level_path, assessment_id
    plan,                   \* whether the learner has an active learning plan
    stage, handed, graded,  \* the tests, see TestLife
    begun,                  \* how many sections of a test were started
    calls,                  \* calls the assessment module has still to make
    req                     \* what each StartPlacement or AbandonPlacement is at

Life == INSTANCE TestLife

progress == <<step, path, linked>>
tests    == <<stage, handed, graded>>
vars     == <<progress, plan, tests, begun, calls, req>>

SectionSteps == SubSeq(<<"PLACEMENT_READING", "PLACEMENT_LISTENING",
                         "PLACEMENT_WRITING", "PLACEMENT_SPEAKING">>, 1, Sections)

Setup == <<"GOAL_SELECTION", "DAILY_TIME", "LEVEL_SELECTION", "PLACEMENT_INTRO",
           "PLACEMENT_START_LEVEL">>

stepOrder == <<"NOT_STARTED">> \o Setup \o SectionSteps
             \o <<"PLACEMENT_PROCESSING", "PLACEMENT_RESULTS", "PERSONALIZED_PLAN", "COMPLETED">>

rank(s) == CHOOSE n \in DOMAIN stepOrder : stepOrder[n] = s

setupSteps == ToSet(Setup)
placementTestSteps == ToSet(SectionSteps)

\* The step a section, or being done with all of them, has.
StepAfter(n) == IF n < Sections THEN SectionSteps[n + 1] ELSE "PLACEMENT_PROCESSING"

-----------------------------------------------------------------------------
Init ==
    /\ step = "NOT_STARTED" /\ path = None /\ linked = None
    /\ plan = FALSE
    /\ Life!Init
    /\ begun = [t \in Tests |-> 0]
    /\ calls = {}
    /\ req = [c \in Clients |-> <<"idle">>]

Sets(s, p, t) == step' = s /\ path' = p /\ linked' = t

setStep(s) == Sets(s, path, linked)

Start ==
    /\ step = "NOT_STARTED"
    /\ setStep("GOAL_SELECTION")
    /\ UNCHANGED <<plan, tests, begun, calls, req>>

SetGoals ==
    /\ step \in {"NOT_STARTED", "GOAL_SELECTION"}
    /\ setStep("DAILY_TIME")
    /\ UNCHANGED <<plan, tests, begun, calls, req>>

SetDailyTime ==
    /\ step = "DAILY_TIME"
    /\ setStep("LEVEL_SELECTION")
    /\ UNCHANGED <<plan, tests, begun, calls, req>>

SelfPlan == step = "PERSONALIZED_PLAN" /\ path = "self_reported"

\* The plan is generated after the transaction, and that may fail.
ChooseLevel ==
    /\ step \in {"LEVEL_SELECTION", "PLACEMENT_INTRO", "PLACEMENT_START_LEVEL"} \/ SelfPlan
    /\ Sets("PERSONALIZED_PLAN", "self_reported", None)
    /\ plan' \in {plan, TRUE}
    /\ UNCHANGED <<tests, begun, calls, req>>

ChoosePlacement ==
    /\ step = "LEVEL_SELECTION"
    /\ Sets("PLACEMENT_INTRO", "placement", linked)
    /\ UNCHANGED <<plan, tests, begun, calls, req>>

Navigate(target) ==
    /\ target \in setupSteps
    /\ \/ step = "PLACEMENT_INTRO" /\ target = "PLACEMENT_START_LEVEL"
       \/ (step \in setupSteps \/ SelfPlan) /\ rank(target) <= rank(step)
    /\ Sets(target, IF rank(target) <= rank("LEVEL_SELECTION") THEN None ELSE path, linked)
    /\ UNCHANGED <<plan, tests, begun, calls, req>>

-----------------------------------------------------------------------------
(* StartPlacement: the step is checked, the test opened or found, and only *)
(* then the row locked and written.                                        *)
CheckStart(c) ==
    /\ req[c] = <<"idle">>
    /\ step \in {"PLACEMENT_INTRO", "PLACEMENT_START_LEVEL"}
    /\ req' = [req EXCEPT ![c] = <<"open">>]
    /\ UNCHANGED <<progress, plan, tests, begun, calls>>

OpenTest(c) ==
    /\ req[c] = <<"open">>
    /\ \E t \in Tests :
          /\ req' = [req EXCEPT ![c] = <<"started", t>>]
          /\ \/ stage[t] \in {"taking", "submitted"} /\ UNCHANGED tests
             \/ Life!Begin(t)
    /\ UNCHANGED <<progress, plan, begun, calls>>

RecordStart(c) ==
    /\ req[c][1] = "started"
    /\ Sets("PLACEMENT_READING", "placement", req[c][2])
    /\ req' = [req EXCEPT ![c] = <<"idle">>]
    /\ UNCHANGED <<plan, tests, begun, calls>>

(* AbandonPlacement: the same three steps.                                 *)
CheckAbandon(c) ==
    /\ req[c] = <<"idle">>
    /\ step \in placementTestSteps /\ linked # None
    /\ req' = [req EXCEPT ![c] = <<"close", linked>>]
    /\ UNCHANGED <<progress, plan, tests, begun, calls>>

CloseTest(c) ==
    /\ req[c][1] = "close"
    /\ LET t == req[c][2] IN
         \/ Life!Close(t) /\ req' = [req EXCEPT ![c] = <<"closed">>]
         \/ /\ stage[t] = "closed"
            /\ req' = [req EXCEPT ![c] = <<"closed">>]
            /\ UNCHANGED tests
         \/ /\ stage[t] \in {"submitted", "published"}
            /\ req' = [req EXCEPT ![c] = <<"idle">>]
            /\ UNCHANGED tests
    /\ UNCHANGED <<progress, plan, begun, calls>>

RecordAbandon(c) ==
    /\ req[c] = <<"closed">>
    /\ Sets("LEVEL_SELECTION", None, None)
    /\ req' = [req EXCEPT ![c] = <<"idle">>]
    /\ UNCHANGED <<plan, tests, begun, calls>>

-----------------------------------------------------------------------------
(* The tests, and what the assessment module says of them afterwards.      *)

(* From the profile a test is opened, or closed, past onboarding.          *)
Retake(t) ==
    /\ Life!Begin(t)
    /\ UNCHANGED <<progress, plan, begun, calls, req>>

CloseRetake(t) ==
    /\ Life!Close(t)
    /\ UNCHANGED <<progress, plan, begun, calls, req>>

StartSection(t) ==
    /\ stage[t] = "taking"
    /\ begun[t] = handed[t]
    /\ begun' = [begun EXCEPT ![t] = @ + 1]
    /\ calls' = calls \cup {<<t, SectionSteps[begun'[t]]>>}
    /\ UNCHANGED <<progress, plan, tests, req>>

SubmitSection(t) ==
    /\ begun[t] = handed[t] + 1
    /\ Life!HandIn(t)
    /\ calls' = calls \cup {<<t, StepAfter(handed'[t])>>}
    /\ UNCHANGED <<progress, plan, begun, req>>

Evaluated(t) ==
    /\ \E i \in 1..Sections : Life!Grade(t, i)
    /\ UNCHANGED <<progress, plan, begun, calls, req>>

Publish(t) ==
    /\ Life!Publish(t)
    /\ calls' = calls \cup {<<t, "plan">>}
    /\ UNCHANGED <<progress, plan, begun, req>>

GeneratePlan(t) ==
    /\ <<t, "plan">> \in calls
    /\ plan' \in {plan, TRUE}
    /\ calls' = (calls \ {<<t, "plan">>}) \cup {<<t, "PLACEMENT_RESULTS">>}
    /\ UNCHANGED <<progress, tests, begun, req>>

PlacementProgressed(t, s) ==
    /\ <<t, s>> \in calls /\ s # "plan"
    /\ calls' = calls \ {<<t, s>>}
    /\ \/ IF t = linked /\ rank(s) > rank(step) /\ step # "COMPLETED"
          THEN setStep(s)
          ELSE UNCHANGED progress
       \/ CanLose /\ UNCHANGED progress
    /\ UNCHANGED <<plan, tests, begun, req>>

-----------------------------------------------------------------------------
ViewedEarly ==          \* mutant: one may leave before the results
    /\ step \in {"PLACEMENT_PROCESSING", "PLACEMENT_RESULTS"}
    /\ setStep("PERSONALIZED_PLAN")
    /\ UNCHANGED <<plan, tests, begun, calls, req>>

ResultsViewed ==
    /\ step = "PLACEMENT_RESULTS"
    /\ setStep("PERSONALIZED_PLAN")
    /\ UNCHANGED <<plan, tests, begun, calls, req>>

RegeneratePlan ==
    /\ step = "PERSONALIZED_PLAN"
    /\ plan' = TRUE
    /\ UNCHANGED <<progress, tests, begun, calls, req>>

Complete ==
    /\ step = "PERSONALIZED_PLAN"
    /\ plan
    /\ setStep("COMPLETED")
    /\ UNCHANGED <<plan, tests, begun, calls, req>>

Tell(t) == GeneratePlan(t) \/ \E s \in ToSet(stepOrder) : PlacementProgressed(t, s)

Next ==
    \/ Start \/ SetGoals \/ SetDailyTime \/ ChooseLevel \/ ChoosePlacement
    \/ \E s \in setupSteps : Navigate(s)
    \/ \E c \in Clients :
          \/ CheckStart(c) \/ OpenTest(c) \/ RecordStart(c)
          \/ CheckAbandon(c) \/ CloseTest(c) \/ RecordAbandon(c)
    \/ \E t \in Tests :
          \/ Retake(t) \/ CloseRetake(t) \/ StartSection(t) \/ SubmitSection(t)
          \/ Evaluated(t) \/ Publish(t) \/ Tell(t)
    \/ ResultsViewed \/ RegeneratePlan \/ Complete

Spec == Init /\ [][Next]_vars

-----------------------------------------------------------------------------
(* Every variable holds a value of its type, and the learner is in a test  *)
(* only if the row names it.                                               *)
TypeOK ==
    /\ step \in ToSet(stepOrder)
    /\ path \in {None, "placement", "self_reported"}
    /\ linked \in Tests \cup {None}
    /\ step \in placementTestSteps \cup {"PLACEMENT_PROCESSING", "PLACEMENT_RESULTS"} =>
          linked # None
    /\ plan \in BOOLEAN
    /\ stage \in [Tests -> {"none", "taking", "submitted", "published", "closed"}]
    /\ handed \in [Tests -> 0..Sections]
    /\ graded \in [Tests -> SUBSET (1..Sections)]
    /\ begun \in [Tests -> 0..Sections]
    /\ calls \subseteq Tests \X (ToSet(stepOrder) \cup {"plan"})
    /\ \A c \in Clients : req[c][1] \in {"idle", "open", "started", "close", "closed"}

(* The learner is never sent ahead of the test: to a section that is still *)
(* locked, to wait for answers not handed in, or to results that do not    *)
(* exist, whatever call arrives when.  The plan step is reached by the     *)
(* learner's own choice or through the results of the test the row names,  *)
(* and completed from there only.                                          *)
NeverAhead ==
    /\ \A i \in 1..Sections : step = SectionSteps[i] => handed[linked] >= i - 1
    /\ step = "PLACEMENT_PROCESSING" => stage[linked] \in {"submitted", "published"}
    /\ step = "PLACEMENT_RESULTS" => stage[linked] = "published"
    /\ step \in {"PERSONALIZED_PLAN", "COMPLETED"} =>
          path = "self_reported" \/ (linked # None /\ stage[linked] = "published")

(* A learner at a test is not sent back to an earlier section of it.       *)
NotSentBack ==
    [][linked' = linked /\ linked # None /\ step \in placementTestSteps
       /\ step' \in placementTestSteps => rank(step') >= rank(step)]_vars

(* Onboarding that is completed stays so.                                  *)
CompletedIsFinal == [][step = "COMPLETED" => step' = "COMPLETED"]_vars

(* A learner who is still at a test whose result is there has a call to    *)
(* wait for that moves them on: nothing else would, as the test can        *)
(* neither be taken nor abandoned any more.                                *)
WaitsForResult ==
    step \in placementTestSteps \cup {"PLACEMENT_PROCESSING"} /\ stage[linked] = "published" =>
        \E s \in {"plan", "PLACEMENT_RESULTS"} : <<linked, s>> \in calls
=============================================================================
