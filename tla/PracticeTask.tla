----------------------------- MODULE PracticeTask -----------------------------
(***************************************************************************)
(* A practice page (features/practice): questions with an answer key       *)
(* (attempt-view.tsx), a text (writing-view.tsx) or a recording            *)
(* (speaking-view.tsx) is sent and what comes back is shown.  Another task *)
(* may be chosen, the page left, and an answer lost, at any time.          *)
(***************************************************************************)
EXTENDS Naturals, Sequences

CONSTANTS
    Tasks,          \* what may be practised
    MaxWorks,       \* bound: answers, texts or recordings made
    MaxSubmits,     \* bound: times the button is pressed
    MaxHitches,     \* bound: requests that fail, answers lost, pages left
    Nothing

VARIABLES
    skill,          \* which of the pages, and its ways
    chosen,         \* the task that is shown
    work,           \* the number of what was answered, written or recorded, 0 for nothing
    submits,        \* the requests, oldest first
    feedback,       \* what the page shows of an answer
    marked,         \* the server: attempts, submissions and sessions
    capture, listening,     \* the recorder, and whether the microphone is on
    left,           \* a page was left with the microphone asked for
    switched,       \* another set was chosen while answers were checked
    works, hitches

task == <<skill, chosen, work, submits, feedback, marked, capture, listening, left, switched, works, hitches>>

-----------------------------------------------------------------------------
(* The pages.  Only the questions with a key open an attempt first; their  *)
(* answers may still be changed while they are checked; and another set    *)
(* starts anew but waits for what was sent, where another task keeps the   *)
(* text or the recording and forgets what was sent.                        *)
AttemptView  == [opens |-> TRUE,  answers |-> "any time", keeps |-> FALSE, forgets |-> FALSE]
WritingView  == [opens |-> FALSE, answers |-> "between",  keeps |-> TRUE,  forgets |-> TRUE]
SpeakingView == [opens |-> FALSE, answers |-> "recorded", keeps |-> TRUE,  forgets |-> TRUE]

TaskInit ==
    /\ skill \in {AttemptView, WritingView, SpeakingView}
    /\ chosen \in Tasks /\ work = 0 /\ submits = <<>> /\ feedback = Nothing /\ marked = <<>>
    /\ capture = "idle" /\ listening = FALSE /\ left = FALSE /\ switched = FALSE
    /\ works = 0 /\ hitches = 0

Machine == UNCHANGED <<capture, listening, left>>
Page == UNCHANGED <<skill, chosen, work, works, switched>>
Hitch == hitches < MaxHitches /\ hitches' = hitches + 1

Pending == \E i \in DOMAIN submits : submits[i].at # "over" /\ submits[i].heard
Forgotten == [i \in DOMAIN submits |-> [submits[i] EXCEPT !.heard = FALSE]]

-----------------------------------------------------------------------------
(* The page.  Questions that were marked are closed; a text is open again. *)
Write ==
    /\ works < MaxWorks /\ works' = works + 1 /\ work' = works'
    /\ \/ skill.answers = "any time" /\ feedback = Nothing
       \/ skill.answers = "between" /\ ~Pending
    /\ Machine /\ UNCHANGED <<skill, chosen, submits, feedback, marked, switched, hitches>>

\* The attempt is opened on submit; what is sent is what the page held then.
Submit ==
    /\ work # 0 /\ ~Pending /\ Len(submits) < MaxSubmits
    /\ skill.opens => feedback = Nothing
    /\ skill.answers = "recorded" => capture = "stopped"
    /\ submits' = Append(submits, [task |-> chosen, work |-> work, row |-> 0, heard |-> TRUE,
                                   at |-> IF skill.opens THEN "start" ELSE "submit"])
    /\ feedback' = Nothing
    /\ Machine /\ Page /\ UNCHANGED <<marked, hitches>>

Another(t) ==
    /\ t # chosen /\ chosen' = t
    /\ feedback' = Nothing
    /\ work' = IF skill.keeps THEN work ELSE 0
    /\ switched' = (~skill.forgets /\ Pending)
    /\ Machine /\ UNCHANGED <<skill, marked, works, hitches>>

ChooseOnly(t) ==        \* mutant: what was sent for the other task is not forgotten
    Another(t) /\ UNCHANGED submits

Choose(t) ==
    Another(t) /\ submits' = IF skill.forgets THEN Forgotten ELSE submits

TryAgain ==
    /\ skill.opens /\ feedback # Nothing
    /\ work' = 0 /\ feedback' = Nothing /\ switched' = FALSE
    /\ Machine /\ UNCHANGED <<skill, chosen, submits, marked, works, hitches>>

-----------------------------------------------------------------------------
(* The recorder.                                                           *)
Aside == UNCHANGED <<skill, chosen, submits, feedback, marked, switched, hitches>>

StartRecording ==
    /\ skill.answers = "recorded" /\ capture = "idle" /\ works < MaxWorks
    /\ capture' = "requesting" /\ Aside /\ UNCHANGED <<work, works, listening, left>>

Permitted(yes) ==
    /\ capture = "requesting"
    /\ capture' = IF yes THEN "recording" ELSE "denied"
    /\ listening' = yes
    /\ Aside /\ UNCHANGED <<work, works, left>>

PauseOrResume ==
    /\ capture \in {"recording", "paused"}
    /\ capture' = IF capture = "paused" THEN "recording" ELSE "paused"
    /\ Aside /\ UNCHANGED <<work, works, listening, left>>

\* By the learner, or at the limit of its length.
StopRecording ==
    /\ capture \in {"recording", "paused"} /\ works < MaxWorks
    /\ capture' = "stopped" /\ listening' = FALSE /\ works' = works + 1 /\ work' = works'
    /\ Aside /\ UNCHANGED left

RecordAgain ==
    /\ capture \in {"stopped", "denied"}
    /\ capture' = "idle" /\ work' = 0
    /\ Aside /\ UNCHANGED <<works, listening, left>>

LeaveListening ==       \* mutant: the recorder is not torn down with its page
    /\ submits # <<>> \/ capture # "idle"
    /\ submits' = Forgotten /\ work' = 0 /\ feedback' = Nothing
    /\ capture' = "idle" /\ left' = (left \/ capture = "requesting") /\ UNCHANGED listening
    /\ Hitch /\ UNCHANGED <<skill, chosen, marked, works, switched>>

(* The page is left, and may be opened again.  What was sent goes on, and  *)
(* an attempt that was opened is completed.  A permission given now starts *)
(* a recorder nobody sees, up to its limit.                                *)
Leave ==
    /\ submits # <<>> \/ capture # "idle"
    /\ submits' = Forgotten /\ work' = 0 /\ feedback' = Nothing
    /\ capture' = "idle" /\ listening' = FALSE /\ left' = (left \/ capture = "requesting")
    /\ Hitch /\ UNCHANGED <<skill, chosen, marked, works, switched>>

PermittedLate ==
    /\ left /\ listening' = TRUE
    /\ Aside /\ UNCHANGED <<capture, work, works, left>>

LimitLate ==
    /\ left /\ listening /\ capture \notin {"recording", "paused"}
    /\ listening' = FALSE /\ left' = FALSE
    /\ Aside /\ UNCHANGED <<capture, work, works>>

-----------------------------------------------------------------------------
(* The server, and the answers.                                            *)
Moved(i, at) == submits' = [submits EXCEPT ![i].at = at]

\* startAttempt, submitWriting, submitSpeaking: a row, and then the work on it.
Begin(i) ==
    /\ submits[i].at \in {"start", "submit"}
    /\ marked' = Append(marked, [task |-> submits[i].task, work |-> 0,
                                 status |-> IF skill.opens THEN "in_progress" ELSE "analyzing"])
    /\ submits' = [submits EXCEPT ![i].row = Len(marked'),
                                  ![i].at = IF skill.opens THEN "started" ELSE "judged"]
    /\ Machine /\ Page /\ UNCHANGED <<feedback, hitches>>

\* The page goes on to complete what it started, though it may have been left.
Complete(i) ==
    /\ submits[i].at = "started" /\ Moved(i, "judged")
    /\ Machine /\ Page /\ UNCHANGED <<feedback, marked, hitches>>

Judge(i) ==
    /\ submits[i].at = "judged" /\ Moved(i, "done")
    /\ marked' = [marked EXCEPT ![submits[i].row].status = "completed", ![submits[i].row].work = submits[i].work]
    /\ Machine /\ Page /\ UNCHANGED <<feedback, hitches>>

(* The model refuses, and the row says so; or a statement fails, and it    *)
(* stays as it is, which the list of the page shows from then on.          *)
JudgeFails(i) ==
    /\ submits[i].at = "judged" /\ Hitch /\ Moved(i, "over")
    /\ \/ ~skill.opens /\ marked' = [marked EXCEPT ![submits[i].row].status = "failed"]
       \/ UNCHANGED marked
    /\ Machine /\ Page /\ UNCHANGED feedback

LoseAnswer(i) ==
    /\ submits[i].at \in {"start", "started", "done", "submit"} /\ Hitch /\ Moved(i, "over")
    /\ Machine /\ Page /\ UNCHANGED <<feedback, marked>>

Answer(i) ==
    /\ submits[i].at = "done" /\ Moved(i, "over")
    /\ feedback' = IF submits[i].heard THEN submits[i] ELSE feedback
    /\ Machine /\ Page /\ UNCHANGED <<marked, hitches>>

-----------------------------------------------------------------------------
TaskNext ==
    \/ Write \/ Submit \/ TryAgain \/ \E t \in Tasks : Choose(t)
    \/ StartRecording \/ \E yes \in BOOLEAN : Permitted(yes)
    \/ PauseOrResume \/ StopRecording \/ RecordAgain
    \/ Leave \/ PermittedLate \/ LimitLate
    \/ \E i \in DOMAIN submits :
          Begin(i) \/ Complete(i) \/ Judge(i) \/ JudgeFails(i) \/ LoseAnswer(i) \/ Answer(i)

TaskSpec == TaskInit /\ [][TaskNext]_task

-----------------------------------------------------------------------------
(* The score or the report on the page is on record, for the work that was *)
(* sent and for the task that is shown, unless a set was changed while its *)
(* answers were checked.                                                   *)
FeedbackIsForThis ==
    feedback # Nothing =>
        /\ marked[feedback.row] = [task |-> feedback.task, work |-> feedback.work, status |-> "completed"]
        /\ ~switched => feedback.task = chosen

(* The microphone is on only while the page says that it records, unless   *)
(* permission came for a page that had been left.                          *)
MicMeansRecording == listening => capture \in {"recording", "paused"} \/ left
=============================================================================
