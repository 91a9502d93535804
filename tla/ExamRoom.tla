------------------------------- MODULE ExamRoom -------------------------------
(***************************************************************************)
(* The timed exams of the web client: the mock exam of one skill           *)
(* (features/mock-exam) and the timed essay (learner/exam-view.tsx).  The  *)
(* clock is the device's; the page looks at it now and then.               *)
(***************************************************************************)
EXTENDS Integers

CONSTANTS
    Levels, FirstLevel,     \* the levels an exam is sat at, the one offered to a learner without one
    Prompts,                \* the questions of a section
    Minutes,                \* what a section lasts
    Track,                  \* what the recording lasts
    MaxNow                  \* bound: how long the page stays open

VARIABLES
    own, choosing,          \* the learner's level, when it is there, and the one picked on the page
    phase, exam,            \* where the sitting is, its skill and its level
    now, began, seen,       \* the time, when Start was pressed, and how much of it the page has seen pass
    filled,                 \* the questions that have an answer
    media, ran,             \* the recording or the turn, and when this stage of it began
    plays                   \* recordings started

exams == <<own, choosing, phase, exam, now, began, seen, filled, media, ran, plays>>

Skills == {"listening", "reading", "writing", "speaking"}
Essay == "essay"            \* the timed essay, which cannot be handed in

-----------------------------------------------------------------------------
\* The level of the exams on the page: the one picked, else the learner's, else A2.
Level == IF choosing # "" THEN choosing ELSE IF own # "" THEN own ELSE FirstLevel

Afresh ==
    /\ choosing' = "" /\ phase' = "home" /\ exam' = [skill |-> Essay, level |-> ""]
    /\ now' = 0 /\ began' = 0 /\ seen' = 0 /\ filled' = {}
    /\ media' = "ready" /\ ran' = 0 /\ plays' = 0

RoomInit ==
    /\ own = "" /\ choosing = "" /\ phase = "home" /\ exam = [skill |-> Essay, level |-> ""]
    /\ now = 0 /\ began = 0 /\ seen = 0 /\ filled = {}
    /\ media = "ready" /\ ran = 0 /\ plays = 0

Sitting == UNCHANGED <<own, choosing, exam>>
Timed == UNCHANGED <<now, began, seen>>
Played == UNCHANGED <<media, ran, plays>>

-----------------------------------------------------------------------------
(* Before: the level may come after the learner has chosen, or started.    *)
ProfileArrives ==
    /\ own = "" /\ own' \in Levels
    /\ UNCHANGED <<choosing, phase, exam, filled>> /\ Timed /\ Played

pick(l) ==
    /\ phase = "home" /\ choosing' = l
    /\ UNCHANGED <<own, phase, exam, filled>> /\ Timed /\ Played

Open(s) ==
    /\ phase = "home" /\ phase' = "intro"
    /\ exam' = [skill |-> s, level |-> IF s = Essay THEN "" ELSE Level]
    /\ UNCHANGED <<own, choosing, filled>> /\ Timed /\ Played

Pass ==
    /\ phase # "home" /\ now < MaxNow /\ now' = now + 1
    /\ Sitting /\ UNCHANGED <<phase, began, seen, filled>> /\ Played

\* The essay counts from what it last looked at, which is when it was opened.
Start ==
    /\ phase = "intro" /\ phase' = "running"
    /\ began' = now /\ seen' = IF exam.skill = Essay THEN -now ELSE 0
    /\ Sitting /\ UNCHANGED <<now, filled>> /\ Played

-----------------------------------------------------------------------------
(* While it runs.  At zero the section is handed in as it stands; the      *)
(* essay stays on the page and cannot be written on.                       *)
tick ==
    /\ phase = "running" /\ seen' = now - began
    /\ phase' = IF seen' >= Minutes THEN "done" ELSE "running"
    /\ Sitting /\ UNCHANGED <<now, began, filled>> /\ Played

Answering == phase = "running" /\ Sitting /\ Timed /\ UNCHANGED phase /\ Played

set(q) ==
    /\ Answering /\ exam.skill \in {"listening", "reading"}
    /\ filled' \in {filled \union {q}, filled \ {q}}

\* A text is one answer to all that is asked; it is typed, never pasted.
WritingSection == Answering /\ exam.skill \in {"writing", Essay} /\ filled' \in {{}, Prompts}

InSection == phase = "running" /\ Sitting /\ Timed /\ UNCHANGED <<phase, filled>>

Enter(stage) == media' = stage /\ ran' = now

\* The recording plays once, from the start to its end.
Play ==
    /\ InSection /\ exam.skill = "listening" /\ media = "ready"
    /\ Enter("playing") /\ plays' = plays + 1

Finished ==
    /\ InSection /\ media = "playing" /\ now - ran >= Track
    /\ Enter("finished") /\ UNCHANGED plays

\* The long turn: the card, the preparation and the recording.  Each of the
\* two is ended by hand, or by its own clock.
StartPreparing ==
    /\ InSection /\ exam.skill = "speaking" /\ media = "ready"
    /\ Enter("preparing") /\ UNCHANGED plays

Record ==
    /\ InSection /\ media = "preparing"
    /\ Enter("recording") /\ plays' = plays + 1

Recorded ==
    /\ InSection /\ media = "recording"
    /\ Enter("recorded") /\ UNCHANGED plays

\* The speaking section can be finished when the turn is recorded.
HandInAny ==        \* mutant: the button is there from the start
    /\ phase = "running" /\ exam.skill # Essay /\ phase' = "done"
    /\ Sitting /\ Timed /\ UNCHANGED filled /\ Played

HandIn ==
    /\ phase = "running" /\ exam.skill # Essay /\ (exam.skill = "speaking" => media = "recorded")
    /\ phase' = "done"
    /\ Sitting /\ Timed /\ UNCHANGED filled /\ Played

\* What the last page says of how it ended.
timeUp == seen >= Minutes

\* Nothing is sent: a page that is left, at whatever point, starts again.
Exit == phase # "home" /\ Afresh /\ UNCHANGED own

-----------------------------------------------------------------------------
RoomNext ==
    \/ ProfileArrives \/ \E l \in Levels : pick(l)
    \/ \E s \in Skills \union {Essay} : Open(s)
    \/ Pass \/ Start \/ tick \/ (\E q \in Prompts : set(q)) \/ WritingSection
    \/ Play \/ Finished \/ StartPreparing \/ Record \/ Recorded \/ HandIn \/ Exit

RoomSpec == RoomInit /\ [][RoomNext]_exams

-----------------------------------------------------------------------------
(* What the page says when it is over is so.  "Time is up" is said when    *)
(* the whole time has passed since Start, and otherwise the section was    *)
(* handed in by hand: a turn that was handed in was recorded.  A recording *)
(* is heard, or made, once.  And a page that has looked at the clock after *)
(* the end takes no more answers.                                          *)
SaidIsSo ==
    /\ phase = "done" => IF timeUp THEN now - began >= Minutes
                         ELSE exam.skill # Essay /\ (exam.skill = "speaking" => media = "recorded")
    /\ plays <= 1
    /\ phase = "running" => seen < Minutes
=============================================================================
