--------------------------- MODULE GrammarPractice ---------------------------
(***************************************************************************)
(* One run of grammar practice: the Session component of practice-view.tsx *)
(* and the handlers submitAnswer and completeAttempt of internal/grammar.  *)
(* A response is the number of the press on Check that sent it, 0 when     *)
(* there is none.  A call is on its slot from the press that makes it to   *)
(* its answer; a call the page no longer hears is still carried out.       *)
(***************************************************************************)
EXTENDS Naturals, FiniteSets

CONSTANTS
    Length,         \* questions in the run
    MaxChecks,      \* bound: presses on Check
    Calls,          \* bound: calls under way at once, numbered
    MaxCuts,        \* bound: connections that break, statements that fail
    Nothing

VARIABLES
    view,       \* "asking", "result" or "left"
    index,      \* the question on the screen
    feedbacks,  \* the response each question shows feedback for
    result,     \* the responses the result on the screen counts; Nothing before
    answers,    \* grammar_answers, by question
    attempt,    \* status of the grammar_attempts row
    counted,    \* the runs user_grammar_progress has counted
    calls,      \* what each slot carries
    checks, cuts,
    crossing,   \* questions checked while the run was being completed
    overtaken   \* questions whose Check was given up and may still be stored

screenVars   == <<view, index, feedbacks, result>>
recordVars   == <<answers, attempt, counted>>
practiceVars == <<screenVars, recordVars, calls, checks, cuts, crossing, overtaken>>

Questions == 1..Length
Run == 0           \* what a call to complete the run is on
NoAnswers == [q \in Questions |-> 0]

FreeCall == [at |-> "free", on |-> Nothing, response |-> 0, seen |-> NoAnswers, first |-> FALSE,
             heard |-> FALSE]

Vacancy(c) == calls[c].at = "free" /\ \A d \in Calls : calls[d].at = "free" => c <= d

\* isPending of useAnswerQuestion and of useCompletePractice.
Answering  == \E c \in Calls : calls[c].heard /\ calls[c].on \in Questions
Completing == \E c \in Calls : calls[c].heard /\ calls[c].on = Run

marked(q) == feedbacks[q] # 0
unanswered == {q \in Questions : ~marked(q)}

Cut == cuts < MaxCuts /\ cuts' = cuts + 1

-----------------------------------------------------------------------------
PracticeInit ==
    /\ view = "asking" /\ index = 1 /\ feedbacks = NoAnswers /\ result = Nothing
    /\ answers = NoAnswers /\ attempt = "in_progress" /\ counted = 0
    /\ calls = [c \in Calls |-> FreeCall]
    /\ checks = 0 /\ cuts = 0 /\ crossing = {} /\ overtaken = {}

Call(c, on, response) ==
    /\ Vacancy(c)
    /\ calls' = [calls EXCEPT ![c] =
         [FreeCall EXCEPT !.at = "sent", !.on = on, !.response = response, !.heard = TRUE]]

CheckTwice(c) ==        \* mutant: a press is taken while the last one is pending
    /\ view = "asking" /\ ~marked(index) /\ checks < MaxChecks
    /\ Call(c, index, checks + 1) /\ checks' = checks + 1
    /\ crossing' = IF Completing THEN crossing \cup {index} ELSE crossing
    /\ UNCHANGED <<screenVars, recordVars, cuts, overtaken>>

(* Check: submit.  Nothing keeps it from being pressed while the run is    *)
(* being completed.                                                        *)
submit(c) ==
    /\ view = "asking" /\ ~marked(index) /\ ~Answering /\ checks < MaxChecks
    /\ Call(c, index, checks + 1) /\ checks' = checks + 1
    /\ crossing' = IF Completing THEN crossing \cup {index} ELSE crossing
    /\ UNCHANGED <<screenVars, recordVars, cuts, overtaken>>

(* QuestionNavigator: any question can be opened at any time.              *)
Select(q) ==
    /\ view = "asking" /\ q # index
    /\ index' = q
    /\ UNCHANGED <<view, feedbacks, result, recordVars, calls, checks, cuts, crossing, overtaken>>

finish(c) == Call(c, Run, 0)

(* The next question still to do after this one, wrapping round.           *)
nextOpen(from) ==
    LET at(step) == 1 + ((from - 1 + step) % Length)
        open == {step \in 1..Length : ~marked(at(step)) /\ at(step) # from}
    IN  IF open = {} THEN Nothing ELSE at(CHOOSE s \in open : \A t \in open : s <= t)

target == IF index < Length THEN index + 1 ELSE nextOpen(index)

NextPress(c) ==
    IF unanswered = {} \/ target = Nothing
    THEN finish(c) /\ UNCHANGED index
    ELSE index' = target /\ UNCHANGED calls

(* Next, See results and Skip are one function under two guards.           *)
next(c) ==
    /\ view = "asking" /\ ~Completing
    /\ ~marked(index) => ~Answering
    /\ NextPress(c)
    /\ UNCHANGED <<view, feedbacks, result, recordVars, checks, cuts, crossing, overtaken>>

(* Finish now, n unanswered count as wrong.                                *)
FinishNow(c) ==
    /\ view = "asking" /\ unanswered # {} /\ unanswered # Questions
    /\ ~Completing /\ ~Answering
    /\ finish(c)
    /\ UNCHANGED <<screenVars, recordVars, checks, cuts, crossing, overtaken>>

Quit ==
    /\ view = "asking" /\ view' = "left"
    /\ calls' = [c \in Calls |-> [calls[c] EXCEPT !.heard = FALSE]]
    /\ UNCHANGED <<index, feedbacks, result, recordVars, checks, cuts, crossing, overtaken>>

-----------------------------------------------------------------------------
Reply(c, word) == calls' = [calls EXCEPT ![c].at = word]

(* loadAttempt: both handlers read the status of the attempt first, and go *)
(* by what they have read.                                                 *)
loadAttempt(c) ==
    /\ calls[c].at = "sent"
    /\ IF calls[c].on = Run
       THEN calls' = [calls EXCEPT ![c].at = "loaded", ![c].first = (attempt = "in_progress")]
       ELSE Reply(c, IF attempt = "in_progress" THEN "loaded" ELSE "refused")
    /\ UNCHANGED <<screenVars, recordVars, checks, cuts, crossing, overtaken>>

(* submitAnswer: marked, by the model if it is free writing, and stored in *)
(* the one row of the question.                                            *)
submitAnswer(c) ==
    /\ calls[c].at = "loaded" /\ calls[c].on \in Questions
    /\ answers' = [answers EXCEPT ![calls[c].on] = calls[c].response]
    /\ Reply(c, "done")
    /\ UNCHANGED <<screenVars, attempt, counted, checks, cuts, crossing, overtaken>>

buildResult(c) ==
    /\ calls[c].at = "loaded" /\ calls[c].on = Run
    /\ calls' = [calls EXCEPT ![c].at = IF calls[c].first THEN "built" ELSE "done", ![c].seen = answers]
    /\ UNCHANGED <<screenVars, recordVars, checks, cuts, crossing, overtaken>>

(* completeAttempt: two updates, neither of which asks about the status.   *)
completeAttempt(c) ==
    /\ calls[c].at = "built"
    /\ attempt' = "completed" /\ Reply(c, "updated")
    /\ UNCHANGED <<screenVars, answers, counted, checks, cuts, crossing, overtaken>>

CountRun(c) ==
    /\ calls[c].at = "updated"
    /\ counted' = counted + 1 /\ Reply(c, "done")
    /\ UNCHANGED <<screenVars, answers, attempt, checks, cuts, crossing, overtaken>>

StatementFails(c) ==
    /\ calls[c].at \in {"sent", "loaded", "built", "updated"} /\ Cut
    /\ Reply(c, "refused")
    /\ UNCHANGED <<screenVars, recordVars, checks, crossing, overtaken>>

(* The answer of a call, if the page still hears it.  An error leaves the  *)
(* question to be checked, or the run to be completed, again.              *)
Hear(c) ==
    LET k == calls[c] IN
    /\ k.at \in {"done", "refused"}
    /\ calls' = [calls EXCEPT ![c] = FreeCall]
    /\ IF ~k.heard \/ k.at = "refused" THEN UNCHANGED <<view, feedbacks, result>>
       ELSE IF k.on = Run
       THEN view' = "result" /\ result' = k.seen /\ UNCHANGED feedbacks
       ELSE feedbacks' = [feedbacks EXCEPT ![k.on] = k.response] /\ UNCHANGED <<view, result>>
    /\ UNCHANGED <<index, recordVars, checks, cuts, crossing, overtaken>>

(* The connection of a call breaks: the page shows its error.              *)
BreakOff(c) ==
    /\ calls[c].heard /\ Cut
    /\ calls' = [calls EXCEPT ![c].heard = FALSE]
    /\ overtaken' = IF calls[c].on \in Questions THEN overtaken \cup {calls[c].on} ELSE overtaken
    /\ UNCHANGED <<screenVars, recordVars, checks, crossing>>

-----------------------------------------------------------------------------
PracticeNext ==
    \/ \E q \in Questions : Select(q)
    \/ Quit
    \/ \E c \in Calls :
        \/ submit(c) \/ next(c) \/ FinishNow(c)
        \/ loadAttempt(c) \/ submitAnswer(c) \/ buildResult(c) \/ completeAttempt(c) \/ CountRun(c)
        \/ StatementFails(c) \/ Hear(c) \/ BreakOff(c)

PracticeSpec == PracticeInit /\ [][PracticeNext]_practiceVars

-----------------------------------------------------------------------------
(* An answer that was marked and explained is the one that is recorded, if *)
(* its question was not checked before by a call that broke off; and the   *)
(* result counts it, unless it was checked while the run was completed.    *)
FeedbackIsRecorded ==
    \A q \in Questions \ overtaken : marked(q) =>
        /\ answers[q] = feedbacks[q]
        /\ view = "result" /\ q \notin crossing => result[q] = feedbacks[q]
=============================================================================
