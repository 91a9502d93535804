------------------------------ MODULE Placement ------------------------------
(***************************************************************************)
(* The placement test of one learner (internal/assessment) on top of the   *)
(* job queue: taking the sections, submitting them, the evaluation jobs of *)
(* writing and speaking, retrying them, and the result.  A step of a       *)
(* request or of an evaluation is one SQL transaction, one AI call or one  *)
(* queue command.  What it tells the onboarding module is in Onboarding.   *)
(***************************************************************************)
EXTENDS Integers, Sequences, FiniteSets, SequencesExt

CONSTANTS
    Tests,          \* ids of assessments
    Sections,       \* how many sections a test has
    Objective,      \* those marked on submission: reading and listening
    Clients,        \* requests of the learner that can be in progress at once
    Workers,
    MaxAttempts,
    MaxJobs,        \* bound: evaluation jobs per section
    CanFail, CanLose,   \* queue commands refused, or effective and reported as errors
    CanStop, CanCrash,  \* whether workers may be stopped, and anything may die
    Refused,        \* steps of an evaluation that may be refused, changing nothing
    None

Steps == {"read", "save", "score", "finalize", "mark"}

ASSUME SectionsAssumption == Sections \in Nat \ {0} /\ Objective \subseteq 1..Sections
ASSUME RefusedAssumption == Refused \subseteq Steps
ASSUME NoneAssumption == None \notin Tests \X (1..Sections)

Skills == 1..Sections
Jobs == Tests \X Skills \X (1..MaxJobs)

VARIABLES
    status,     \* assessments.status
    sec,        \* assessment_sections.status, in their order
    result,     \* tests that have their row in assessment_results
    analyses,   \* how many rows of ai_analyses a section has
    on,         \* the section a request is about
    todo,       \* what it does after its first transaction
    step,       \* where each worker is in HandleEvaluationJob
    verdict,    \* the error its evaluation came to
    queue, processing, dead, state, told, pc, held, out, done, unsent,
    stopping, runs, successes

Q == INSTANCE JobQueue WITH Unknown <- {}, Total <- 0, Lanes <- 1

ASSUME QueueAssumption ==
    /\ MaxAttempts \in Nat \ {0}
    /\ CanFail \subseteq Q!Commands /\ CanLose \subseteq Q!Commands
    /\ CanStop \in BOOLEAN /\ CanCrash \in BOOLEAN

test     == <<status, sec, result, analyses>>
requests == <<on, todo>>
handlers == <<step, verdict>>
jobs     == <<queue, processing, dead, state, told, pc, held, out, done, unsent,
              stopping, runs, successes>>
vars     == <<test, requests, handlers, jobs>>

Statuses == {"absent", "in_progress", "processing", "completed", "abandoned"}
SectionStatuses == {"none", "locked", "available", "in_progress",
                    "evaluating", "completed", "failed"}
Answerable == {"locked", "available", "in_progress"}
Submitted == {"evaluating", "completed", "failed"}
Open == {"in_progress", "processing"}

-----------------------------------------------------------------------------
Init ==
    /\ status = [t \in Tests |-> "absent"]
    /\ sec = [t \in Tests |-> [i \in Skills |-> "none"]]
    /\ result = {}
    /\ analyses = [t \in Tests |-> [i \in Skills |-> 0]]
    /\ on = [c \in Clients |-> None]
    /\ todo = [c \in Clients |-> <<>>]
    /\ step = [w \in Workers |-> "none"]
    /\ verdict = [w \in Workers |-> "ok"]
    /\ Q!Init

SetSection(t, i, s) == sec' = [sec EXCEPT ![t][i] = s]

(* StartPlacement: the insert that the index assessments_one_open admits.  *)
StartPlacement(t) ==
    /\ status[t] = "absent"
    /\ \A u \in Tests : status[u] \notin Open
    /\ status' = [status EXCEPT ![t] = "in_progress"]
    /\ sec' = [sec EXCEPT ![t] = [i \in Skills |-> IF i = 1 THEN "available" ELSE "locked"]]
    /\ UNCHANGED <<result, analyses, requests, handlers, jobs>>

StartSection(t, i) ==
    /\ status[t] = "in_progress"
    /\ sec[t][i] = "available"
    /\ SetSection(t, i, "in_progress")
    /\ UNCHANGED <<status, result, analyses, requests, handlers, jobs>>

AbandonOpen(t) ==           \* mutant: a test that is being evaluated is open too
    /\ status[t] \in Open
    /\ status' = [status EXCEPT ![t] = "abandoned"]
    /\ UNCHANGED <<sec, result, analyses, requests, handlers, jobs>>

AbandonPlacement(t) ==
    /\ status[t] = "in_progress"
    /\ status' = [status EXCEPT ![t] = "abandoned"]
    /\ UNCHANGED <<sec, result, analyses, requests, handlers, jobs>>

-----------------------------------------------------------------------------
(* A request: its transaction, then what the handler goes on to do.        *)

Goes(c, t, i, rest) ==
    /\ todo[c] = <<>>
    /\ on' = [on EXCEPT ![c] = <<t, i>>]
    /\ todo' = [todo EXCEPT ![c] = rest]

Unlocking(t, i) ==
    [k \in Skills |->
        IF k = i THEN IF i \in Objective THEN "completed" ELSE "evaluating"
        ELSE IF k = i + 1 /\ sec[t][k] = "locked" THEN "available"
        ELSE sec[t][k]]

(* submit: the transaction, sent by the learner or by expireOverdue.  A    *)
(* section submitted before changes nothing, and nothing follows.          *)
Submit(c, t, i) ==
    /\ status[t] = "in_progress"
    /\ sec[t][i] = "in_progress"
    /\ sec' = [sec EXCEPT ![t] = Unlocking(t, i)]
    /\ LET last == \A k \in Skills : sec'[t][k] \notin Answerable IN
         /\ status' = [status EXCEPT ![t] = IF last THEN "processing" ELSE @]
         /\ Goes(c, t, i, (IF i \in Objective THEN <<>> ELSE <<"enqueue">>)
                          \o (IF last \/ i \in Objective THEN <<"finalize">> ELSE <<>>))
    /\ UNCHANGED <<result, analyses, handlers, jobs>>

Created(t, i) == {n \in 1..MaxJobs : told[<<t, i, n>>] # "new"}

\* The job enqueueEvaluation creates: a new id each time.
Fresh(t, i) == <<t, i, Cardinality(Created(t, i)) + 1>>

RetryBlindly(c, t, i) ==    \* mutant: the retry does not look for a failed section
    /\ sec[t][i] \in {"evaluating", "failed"}
    /\ Fresh(t, i) \in Jobs
    /\ SetSection(t, i, "evaluating")
    /\ Goes(c, t, i, <<"enqueue">>)
    /\ UNCHANGED <<status, result, analyses, handlers, jobs>>

(* RetryEvaluation: its UPDATE picks a failed section only.                *)
RetryEvaluation(c, t, i) ==
    /\ sec[t][i] = "failed"
    /\ Fresh(t, i) \in Jobs
    /\ SetSection(t, i, "evaluating")
    /\ Goes(c, t, i, <<"enqueue">>)
    /\ UNCHANGED <<status, result, analyses, handlers, jobs>>

(* enqueueEvaluation; an error sends the request to markSectionFailed.     *)
EnqueueCareless(c) ==       \* mutant: the error of Enqueue is not handled
    /\ todo[c] # <<>> /\ Head(todo[c]) = "enqueue"
    /\ LET j == Fresh(on[c][1], on[c][2]) IN
         /\ j \in Jobs
         /\ Q!Enqueue(j) \/ Q!EnqueueRefused(j)
         /\ todo' = [todo EXCEPT ![c] = Tail(@)]
    /\ UNCHANGED <<test, on, handlers>>

EnqueueEvaluation(c) ==
    /\ todo[c] # <<>> /\ Head(todo[c]) = "enqueue"
    /\ LET j == Fresh(on[c][1], on[c][2]) IN
         /\ j \in Jobs
         /\ Q!Enqueue(j) \/ Q!EnqueueRefused(j)
         /\ todo' = [todo EXCEPT ![c] =
                        (IF told'[j] = "accepted" THEN <<>> ELSE <<"mark">>) \o Tail(@)]
    /\ UNCHANGED <<test, on, handlers>>

(* markSectionFailed and maybeFinalize, as requests and jobs call them.    *)
MarkFailed(t, i) ==
    \/ /\ SetSection(t, i, IF sec[t][i] = "evaluating" THEN "failed" ELSE sec[t][i])
       /\ UNCHANGED <<status, result, analyses>>
    \/ "mark" \in Refused /\ UNCHANGED test

Whole(t) == \A i \in Skills : sec[t][i] = "completed"

FinalizeEarly(t) ==         \* mutant: sections that failed do not count as pending
    /\ LET decided == \A i \in Skills : sec[t][i] \in {"completed", "failed"} IN
       IF status[t] = "processing" /\ decided
       THEN /\ status' = [status EXCEPT ![t] = "completed"]
            /\ result' = result \cup {t}
       ELSE UNCHANGED <<status, result>>
    /\ UNCHANGED <<sec, analyses>>

Finalize(t) ==
    /\ IF status[t] = "processing" /\ Whole(t)
       THEN /\ status' = [status EXCEPT ![t] = "completed"]
            /\ result' = result \cup {t}
       ELSE UNCHANGED <<status, result>>
    /\ UNCHANGED <<sec, analyses>>

FollowUp(c) ==
    /\ todo[c] # <<>>
    /\ LET t == on[c][1]
           i == on[c][2]
       IN  \/ Head(todo[c]) = "mark" /\ MarkFailed(t, i)
           \/ Head(todo[c]) = "finalize" /\ Finalize(t)
           \/ Head(todo[c]) = "finalize" /\ "finalize" \in Refused /\ UNCHANGED test
    /\ todo' = [todo EXCEPT ![c] = Tail(@)]
    /\ UNCHANGED <<on, handlers, jobs>>

\* The request ends before it has done all of it.
Die(c) ==
    /\ CanCrash
    /\ todo[c] # <<>>
    /\ todo' = [todo EXCEPT ![c] = <<>>]
    /\ UNCHANGED <<test, on, handlers, jobs>>

-----------------------------------------------------------------------------
(* HandleEvaluationJob, in a worker that runs the job.                     *)

At(w, s) == pc[w] = "running" /\ step[w] = s

Test(w)  == held[w].job[1]
Skill(w) == held[w].job[2]

Then(w, s) == step' = [step EXCEPT ![w] = s] /\ UNCHANGED verdict

LastAttempt(w) == held[w].attempts >= MaxAttempts

(* The evaluation came to an error: permanent, or the last allowed, and    *)
(* the section is to be marked failed.                                     *)
Fails(w, kind) ==
    /\ verdict' = [verdict EXCEPT ![w] = kind]
    /\ step' = [step EXCEPT ![w] = IF kind = "permanent" \/ LastAttempt(w) THEN "mark" ELSE "end"]

Run(w) ==
    /\ Q!SetRunning(w)
    /\ IF pc'[w] = "running" THEN Then(w, "read") ELSE UNCHANGED handlers
    /\ UNCHANGED <<test, requests>>

(* The section's status decides what to do, and is not read again.         *)
Read(w) ==
    /\ At(w, "read")
    /\ \/ sec[Test(w)][Skill(w)] = "completed" /\ Then(w, "finalize")
       \/ sec[Test(w)][Skill(w)] \in {"evaluating", "failed"} /\ Then(w, "load")
       \/ "read" \in Refused /\ Fails(w, "error")
    /\ UNCHANGED <<test, requests, jobs>>

(* Whether an analysis is stored already; if not, the AI is called.        *)
Load(w) ==
    /\ At(w, "load")
    /\ LET stored == analyses[Test(w)][Skill(w)] > 0 IN
         \/ stored /\ Then(w, "score")
         \/ ~stored /\ (Then(w, "save") \/ Fails(w, "error") \/ Fails(w, "permanent"))
    /\ UNCHANGED <<test, requests, jobs>>

(* saveAnalysis: the analysis and the completed response.                  *)
Save(w) ==
    /\ At(w, "save")
    /\ \/ /\ analyses' = [analyses EXCEPT ![Test(w)][Skill(w)] = @ + 1]
          /\ Then(w, "score")
       \/ "save" \in Refused /\ Fails(w, "error") /\ UNCHANGED analyses
    /\ UNCHANGED <<status, sec, result, requests, jobs>>

(* The skill result and the completed section.                             *)
Score(w) ==
    /\ At(w, "score")
    /\ \/ SetSection(Test(w), Skill(w), "completed") /\ Then(w, "finalize")
       \/ "score" \in Refused /\ Fails(w, "error") /\ UNCHANGED sec
    /\ UNCHANGED <<status, result, analyses, requests, jobs>>

FinalizeJob(w) ==
    /\ At(w, "finalize")
    /\ \/ Finalize(Test(w)) /\ Then(w, "end")
       \/ "finalize" \in Refused /\ Fails(w, "error") /\ UNCHANGED test
    /\ UNCHANGED <<requests, jobs>>

MarkNever(w) ==             \* mutant: the last error leaves the section evaluating
    /\ At(w, "mark")
    /\ Then(w, "end")
    /\ UNCHANGED <<test, requests, jobs>>

MarkJob(w) ==
    /\ At(w, "mark")
    /\ MarkFailed(Test(w), Skill(w))
    /\ Then(w, "end")
    /\ UNCHANGED <<requests, jobs>>

(* The handler returns to the worker, which draws its own conclusion.      *)
Return(w) ==
    /\ At(w, "end")
    /\ Q!Execute(w)
    /\ out'[w] = CASE verdict[w] = "ok" -> "succeeded"
                   [] verdict[w] = "error" /\ ~LastAttempt(w) -> "retrying"
                   [] OTHER -> "failed"
    /\ step' = [step EXCEPT ![w] = "none"]
    /\ verdict' = [verdict EXCEPT ![w] = "ok"]
    /\ UNCHANGED <<test, requests>>

WorkerDies(w) ==
    /\ Q!Crash(w)
    /\ step' = [step EXCEPT ![w] = "none"]
    /\ verdict' = [verdict EXCEPT ![w] = "ok"]
    /\ UNCHANGED <<test, requests>>

Plumbing(w) ==
    /\ Q!Reserve(w) \/ Q!Finish(w) \/ Q!Leave(w) \/ Q!Start(w)
    /\ UNCHANGED <<test, requests, handlers>>

StopWorker(w) == Q!Stop(w) /\ UNCHANGED <<test, requests, handlers>>

-----------------------------------------------------------------------------
Evaluate(w) ==
    \/ Run(w) \/ Read(w) \/ Load(w) \/ Save(w) \/ Score(w) \/ FinalizeJob(w)
    \/ MarkJob(w) \/ Return(w) \/ Plumbing(w)

Serve(c) == EnqueueEvaluation(c) \/ FollowUp(c)

Next ==
    \/ \E t \in Tests : StartPlacement(t) \/ AbandonPlacement(t)
    \/ \E t \in Tests, i \in Skills : StartSection(t, i)
    \/ \E c \in Clients, t \in Tests, i \in Skills :
          Submit(c, t, i) \/ RetryEvaluation(c, t, i)
    \/ \E c \in Clients : Serve(c) \/ Die(c)
    \/ \E w \in Workers : Evaluate(w) \/ WorkerDies(w) \/ StopWorker(w)

Spec == Init /\ [][Next]_vars

(* A request that has begun and a worker's loop are scheduled.             *)
Fairness ==
    /\ \A c \in Clients : WF_vars(Serve(c))
    /\ \A w \in Workers : WF_vars(Evaluate(w))

FairSpec == Spec /\ Fairness

-----------------------------------------------------------------------------
(* Every variable holds a value of its type, and a step of an evaluation   *)
(* belongs to a running job.                                               *)
TypeOK ==
    /\ status \in [Tests -> Statuses]
    /\ sec \in [Tests -> [Skills -> SectionStatuses]]
    /\ result \in SUBSET Tests
    /\ analyses \in [Tests -> [Skills -> Nat]]
    /\ on \in [Clients -> (Tests \X Skills) \cup {None}]
    /\ todo \in [Clients -> Seq({"enqueue", "mark", "finalize"})]
    /\ \A c \in Clients : todo[c] # <<>> => on[c] # None
    /\ step \in [Workers -> {"none", "load", "end"} \cup Steps]
    /\ \A w \in Workers : step[w] # "none" => pc[w] = "running"
    /\ verdict \in [Workers -> {"ok", "error", "permanent"}]

HasJob(t, i) ==
    \/ \E e \in Q!Waiting : e.job[1] = t /\ e.job[2] = i
    \/ \E w \in Workers : Q!Busy(w) /\ Test(w) = t /\ Skill(w) = i

\* A request that is about to see to the section.
Pursued(t, i, what) == \E c \in Clients : on[c] = <<t, i>> /\ Contains(todo[c], what)

(* A section being evaluated has someone to evaluate it, or to say that it *)
(* failed so that the learner can retry: it does not wait for nobody.  And *)
(* a test whose every section is graded has someone to publish its result. *)
WaitingIsAttended ==
    \A t \in Tests :
        /\ \A i \in Skills : sec[t][i] = "evaluating" =>
              HasJob(t, i) \/ Pursued(t, i, "enqueue") \/ Pursued(t, i, "mark")
        /\ status[t] = "processing" /\ Whole(t) =>
              \E i \in Skills : HasJob(t, i) \/ Pursued(t, i, "finalize")

(* A response is evaluated, and paid for, once, whatever is retried.       *)
EvaluatedOnce == \A t \in Tests, i \in Skills : analyses[t][i] <= 1

(* A test has a result exactly when it is completed, and then every        *)
(* section of it is graded.                                                *)
ResultIsWhole ==
    \A t \in Tests : /\ t \in result <=> status[t] = "completed"
                     /\ t \in result => Whole(t)

(* A test that is handed in gets its result, or offers a retry, if no      *)
(* queue command or statement fails and nothing dies; the AI may fail.     *)
SubmittedIsDecided ==
    \A t \in Tests : status[t] = "processing" ~>
        status[t] = "completed" \/ \E i \in Skills : sec[t][i] = "failed"

(* The tests as their learner sees them: see TestLife.                     *)
Stage(t) ==
    CASE status[t] = "absent"      -> "none"
      [] status[t] = "in_progress" -> "taking"
      [] status[t] = "processing"  -> "submitted"
      [] status[t] = "completed"   -> "published"
      [] status[t] = "abandoned"   -> "closed"

Life == INSTANCE TestLife WITH
    stage <- [t \in Tests |-> Stage(t)],
    handed <- [t \in Tests |-> Cardinality({i \in Skills : sec[t][i] \in Submitted})],
    graded <- [t \in Tests |-> {i \in Skills : sec[t][i] = "completed"}]

(* Whatever fails, dies or is repeated, a test only goes through the life  *)
(* TestLife allows.                                                        *)
TestLifeSpec == Life!Spec
=============================================================================
