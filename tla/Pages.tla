-------------------------------- MODULE Pages --------------------------------
(***************************************************************************)
(* The pages of the web client.  The router mounts one at a time and what  *)
(* they keep is kept apart, so a browser shows one of the pages below and  *)
(* each goes its way as its own module says.  The shell around them keeps  *)
(* the session, whatever the page, on every tab that is open.              *)
(***************************************************************************)
EXTENDS Naturals

CONSTANTS
    Nothing,
    Items, MaxEdits, MaxBreaks,                 \* SectionScreen
    Length, MaxChecks, Calls, MaxCuts,          \* GrammarPractice
    Sockets, MaxTurns, MaxUpsets,               \* LiveCoach
    MaxVersions, MaxRows, MaxTouches, MaxCalls, MaxMishaps,     \* ContentBuilder
    Terms, Parts, FirstPart, Stocks, MaxKeys, MaxSuggests, MaxSlips,    \* WordDialog
    Records, Fields, MaxTexts, MaxPosts, MaxLosses,             \* Forms
    Tasks, MaxWorks, MaxSubmits, MaxHitches,                    \* PracticeTask
    Searches, Choices, MaxLeaves, MaxLooks, MaxSnags,           \* Lists
    Words, Limit, MaxMarks, MaxStarts, MaxFaults,               \* WordRounds
    Askers, Topics, Allowance, MaxAsks, MaxFlops,               \* Asks
    MaxSays, MaxDrops,                                          \* Threads
    Levels, FirstLevel, Prompts, Minutes, Track, MaxNow,          \* ExamRoom
    Papers, Quota, MaxSittings, MaxOrders, MaxHands, MaxBlows,  \* Sittings
    Windows, Cooldown, Lifetime, MaxWrong, Sends, MaxCodes, MaxTries, MaxMisses,    \* EmailCodes
    MaxAttempts, MaxTakes, MaxUploads, MaxTrips,                \* Recordings
    MaxTalkTurns, MaxTalks, MaxBlips,                           \* LiveTalk
    MaxPresses, MaxMisfires,                                    \* Journey
    MaxQuestions, MaxOptions, MaxStrokes, MaxRequests, MaxFailures,     \* TestEditor
    Tabs, Slots, MaxTokens, MaxTroubles, None                   \* Session

ASSUME PagesAssumption ==
    /\ Items # {} /\ Nothing \notin [item : Items, edit : Nat, at : {"sent", "stored", "refused"}]
    /\ Length \in Nat \ {0} /\ Nothing \notin 1..Length /\ Calls \subseteq Nat
    /\ Sockets \subseteq Nat \ {0} /\ MaxTurns \in Nat \ {0}
    /\ MaxVersions \in Nat \ {0} /\ MaxRows \in Nat \ {0, 1}
    /\ FirstPart \in Parts /\ Stocks \subseteq SUBSET (Terms \X Parts) /\ Nothing \notin Terms
    /\ "owner" \notin Terms \union {Nothing}
    /\ MaxSuggests \in Nat \ {0}
    /\ Records # {} /\ Fields # {} /\ Nothing \notin Records
    /\ Tasks # {} /\ "" \in Searches /\ Choices # {} /\ {MaxLeaves, Limit} \subseteq Nat \ {0}
    /\ Topics # {} /\ Nothing \notin Topics
    /\ FirstLevel \in Levels /\ "" \notin Levels /\ Papers # {} /\ Windows # {}
    /\ {Minutes, MaxCodes, MaxWrong, MaxAttempts, MaxTalkTurns} \subseteq Nat \ {0} /\ MaxQuestions \in Nat \ {0, 1}
    /\ Slots \subseteq Nat /\ MaxTokens \in Nat \ {0} /\ None \notin Tabs
    /\ {MaxEdits, MaxBreaks, MaxChecks, MaxCuts, MaxUpsets, MaxTouches, MaxCalls, MaxMishaps, MaxKeys,
        MaxSlips, MaxTexts, MaxPosts, MaxLosses, MaxWorks, MaxSubmits, MaxHitches, MaxLooks, MaxSnags, MaxMarks,
        MaxStarts, MaxFaults, Allowance, MaxAsks, MaxFlops, MaxSays, MaxDrops, Track, MaxNow, Quota,
        MaxSittings, MaxOrders, MaxHands, MaxBlows, Cooldown, Lifetime, Sends, MaxTries, MaxMisses, MaxTakes,
        MaxUploads, MaxTrips, MaxTalks, MaxBlips, MaxPresses, MaxMisfires, MaxQuestions, MaxOptions, MaxStrokes, MaxRequests,
        MaxFailures, MaxTroubles} \subseteq Nat

VARIABLES
    kind, page, cached, shown, pending, flight, awaiting, timer, note, fired, submit, stored, section,
    clock, edits, breaks, touched, stale

S == INSTANCE SectionScreen
sections == <<kind, page, cached, shown, pending, flight, awaiting, timer, note, fired, submit, stored,
              section, clock, edits, breaks, touched, stale>>

VARIABLES
    view, index, feedbacks, result, answers, attempt, counted, calls, checks, cuts, crossing,
    overtaken

G == INSTANCE GrammarPractice
practice == <<view, index, feedbacks, result, answers, attempt, counted, calls, checks, cuts,
              crossing, overtaken>>

VARIABLES
    here, connection, stage, mirror, await, mic, recorder, question, pendingSummary, results, summary,
    socket, ws, srv, unsaved, upsets

L == INSTANCE LiveCoach
coach == <<here, connection, stage, mirror, await, mic, recorder, question, pendingSummary, results,
           summary, socket, ws, srv, unsaved, upsets>>

VARIABLES
    versions, job, content, fetch, tab, editor, save, start, active, release, touches, asks, mishaps,
    unguarded

B == INSTANCE ContentBuilder
builder == <<versions, job, content, fetch, tab, editor, save, start, active, release, touches, asks,
             mishaps, unguarded>>

VARIABLES
    library, form, suggests, saving, known, keys, slips

D == INSTANCE WordDialog
dialog == <<library, form, suggests, saving, known, keys, slips>>

VARIABLES
    policy, records, copy, reading, sheet, posts, texts, losses, doubt

F == INSTANCE Forms
forms == <<policy, records, copy, reading, sheet, posts, texts, losses, doubt>>

VARIABLES
    skill, chosen, work, submits, feedback, marked, capture, listening, left, switched, works, hitches

T == INSTANCE PracticeTask
task == <<skill, chosen, work, submits, feedback, marked, capture, listening, left, switched, works,
          hitches>>

VARIABLES
    listing, draft, sought, choice, leaf, stock, fetched, fresh, failed, asking, served, before, acting,
    strayed, behind, looks, snags

I == INSTANCE Lists
list == <<listing, draft, sought, choice, leaf, stock, fetched, fresh, failed, asking, served, before,
          acting, strayed, behind, looks, snags>>

VARIABLES
    game, round, place, going, starting, turned, check, requeued, sends, learned, meant, overlap, marks,
    starts, faults

W == INSTANCE WordRounds
words == <<game, round, place, going, starting, turned, check, requeued, sends, learned, meant, overlap,
           marks, starts, faults>>

VARIABLES
    desk, latest, waits, heard, picked, inquiries, kept, locked, wrote, spent, asked, flops

Q == INSTANCE Asks
questions == <<desk, latest, waits, heard, picked, inquiries, kept, locked, wrote, spent, asked, flops>>

VARIABLES
    chat, thread, talk, says, talks, given, said, drops

H == INSTANCE Threads
chats == <<chat, thread, talk, says, talks, given, said, drops>>

VARIABLES
    own, choosing, phase, exam, now, began, seen, filled, media, ran, plays

X == INSTANCE ExamRoom
exams == <<own, choosing, phase, exam, now, began, seen, filled, media, ran, plays>>

VARIABLES
    sittings, orders, paid, moved, ordered, hands, blows, opening, listed

P == INSTANCE Sittings
mocks == <<sittings, orders, paid, moved, ordered, hands, blows, opening, listed>>

VARIABLES
    purpose, issued, row, inbox, windows, posted, uses, strays, acted, sent, misses

E == INSTANCE EmailCodes
codes == <<purpose, issued, row, inbox, windows, posted, uses, strays, acted, sent, misses>>

VARIABLES
    slot, held, takes, used, rereading, told, uploads, sentUp, recordings, objects, over, unsure, doubled,
    trips

R == INSTANCE Recordings
recorders == <<slot, held, takes, used, rereading, told, uploads, sentUp, recordings, objects, over,
               unsure, doubled, trips>>

VARIABLES
    there, status, dialed, line, shownTurns, wrapUp, lines, miscounted, stranded, late, blips

V == INSTANCE LiveTalk
live == <<there, status, dialed, line, shownTurns, wrapUp, lines, miscounted, stranded, late, blips>>

VARIABLES
    server, reported, loading, unloaded, confirming, where, pressing, presses, misfires, adrift, refused

J == INSTANCE Journey
journey == <<server, reported, loading, unloaded, confirming, where, pressing, presses, misfires, adrift,
             refused>>

VARIABLES
    lesson, cachedLesson, bench, wanted, saveCall, author, launch, rereads, taught, strokes, requests,
    failures

K == INSTANCE TestEditor
tests == <<lesson, cachedLesson, bench, wanted, saveCall, author, launch, rereads, taught, strokes,
           requests, failures>>

VARIABLES
    store, cookie, rows, req, ended, crossed, excused, troubles

A == INSTANCE Session
session == <<store, cookie, rows, req, ended, crossed, excused, troubles>>

VARIABLE route      \* what is looked at: the page that is mounted, or the shell

pageVars == <<route, sections, practice, coach, builder, dialog, forms, task, list,
              words, questions, chats, exams, mocks, codes, recorders, live, journey, tests, session>>

-----------------------------------------------------------------------------
\* A page that is not looked at starts in one way only.
Init ==
    /\ route \in {"section", "grammar", "coach", "builder", "words", "forms", "practice", "lists", "rounds",
                 "questions", "chats", "exam", "mocks", "codes", "speaking", "live", "journey", "test",
                 "shell"}
    /\ S!SectionInit /\ (route # "section" => kind = "writing")
    /\ G!PracticeInit
    /\ L!CoachInit
    /\ B!BuilderInit /\ (route # "builder" => versions = <<>>)
    /\ D!DialogInit /\ (route # "words" => library = {})
    /\ F!FormsInit /\ (route # "forms" => policy = F!General)
    /\ T!TaskInit /\ (route # "practice" => skill = T!WritingView /\ chosen = CHOOSE t \in Tasks : TRUE)
    /\ I!ListsInit /\ (route # "lists" => listing = I!Learners /\ \E k \in DOMAIN stock : stock[k] = 0)
    /\ W!WordsInit /\ (route # "rounds" => game = "verbs")
    /\ Q!AsksInit /\ (route # "questions" => desk = Q!ComparePanel)
    /\ H!ThreadsInit /\ (route # "chats" => chat = "tutor")
    /\ X!RoomInit /\ P!SittingsInit
    /\ E!CodesInit /\ (route # "codes" => purpose = E!VerifyEmailForm)
    /\ R!RecordingsInit /\ V!TalkInit
    /\ J!JourneyInit /\ (route # "journey" => server.step = "PROFILE")
    /\ K!TestInit /\ (route # "test" => ~taught)
    /\ A!Init

\* What is not looked at stays as it is.
Stays(r, what) == route # r => UNCHANGED what

Looking(r) ==
    /\ route = r /\ UNCHANGED route
    /\ Stays("section", sections) /\ Stays("grammar", practice) /\ Stays("coach", coach)
    /\ Stays("builder", builder) /\ Stays("words", dialog) /\ Stays("forms", forms)
    /\ Stays("practice", task) /\ Stays("lists", list) /\ Stays("rounds", words)
    /\ Stays("questions", questions) /\ Stays("chats", chats) /\ Stays("exam", exams)
    /\ Stays("mocks", mocks) /\ Stays("codes", codes) /\ Stays("speaking", recorders)
    /\ Stays("live", live) /\ Stays("journey", journey) /\ Stays("test", tests)
    /\ Stays("shell", session)

Section == Looking("section") /\ S!SectionNext
Grammar == Looking("grammar") /\ G!PracticeNext
Coach   == Looking("coach") /\ L!CoachNext
Builder == Looking("builder") /\ B!BuilderNext
Word    == Looking("words") /\ D!DialogNext
Form    == Looking("forms") /\ F!FormsNext
Task    == Looking("practice") /\ T!TaskNext
List    == Looking("lists") /\ I!ListsNext
Rounds  == Looking("rounds") /\ W!WordsNext
Ask     == Looking("questions") /\ Q!AsksNext
Talk    == Looking("chats") /\ H!ThreadsNext
Exam    == Looking("exam") /\ X!RoomNext
Mocks   == Looking("mocks") /\ P!SittingsNext
Code    == Looking("codes") /\ E!CodesNext
Speak   == Looking("speaking") /\ R!RecordingsNext
Live    == Looking("live") /\ V!TalkNext
Joining == Looking("journey") /\ J!JourneyNext
Test    == Looking("test") /\ K!TestNext
Shell   == Looking("shell") /\ A!Next

Next == Section \/ Grammar \/ Coach \/ Builder \/ Word \/ Form \/ Task \/ List \/ Rounds
        \/ Ask \/ Talk \/ Exam \/ Mocks \/ Code \/ Speak \/ Live \/ Joining \/ Test
        \/ Shell

(* A server answers what it is asked and a socket is heard; a page that is *)
(* shown is rendered, a sentence comes to its end, and a job is polled for *)
(* until it is there or given up.                                          *)
Fairness ==
    /\ \A c \in Sockets : WF_coach(route = "coach" /\ L!Handle(c)) /\ WF_coach(route = "coach" /\ L!Hears(c))
    /\ WF_coach(route = "coach" /\ L!Render) /\ WF_coach(route = "coach" /\ L!Said)
    /\ WF_builder(route = "builder" /\ B!generateGrammarContent) /\ WF_builder(route = "builder" /\ B!Started)
    /\ WF_builder(route = "builder" /\ B!Poll) /\ WF_builder(route = "builder" /\ B!GiveUp)

Spec == Init /\ [][Next]_pageVars /\ Fairness

-----------------------------------------------------------------------------
(* What each page promises, in the words of its module: the save indicator *)
(* of a section is true, and no answer is overwritten by an older one;     *)
SavedMeansStored == S!SavedMeansStored
LatestWins == S!LatestWins

(* the feedback of a practice run is what is recorded, and in its result,  *)
(* and what it is marked by is what the author of the test meant;          *)
FeedbackIsTrue == G!FeedbackIsRecorded /\ K!AnswersAreMeant

(* the turns of a conversation are kept and each of them is answered;      *)
TurnsAreKept == L!TurnsAreKept

(* a text written by hand is not generated over;                           *)
HandEditsSurvive == B!HandEditsSurvive

(* every answer that is sent to the coach comes back, as a turn, as an     *)
(* error after which the learner can speak again or as the end of the      *)
(* conversation, unless a summary came between the last sentence of the    *)
(* coach and its render; and a generation that is lost does not leave the  *)
(* editor "being written" for ever;                                        *)
WaitsEnd ==
    (route = "coach" /\ L!Thinking /\ pendingSummary = Nothing) \/ (route = "builder" /\ B!Writing(start, active))
        ~> (route = "coach" /\ ~L!Thinking) \/ (route = "builder" /\ ~B!Writing(start, active))

(* an answer of the model spares the fields its owner has typed into.      *)
OwnFieldsSpared == D!OwnFieldsSpared

(* A save changes only what was typed, and a page at rest shows what is    *)
(* stored.                                                                 *)
OnlyWhatWasTyped == F!OnlyWhatWasTyped
QuietMeansShown == F!QuietMeansShown

(* What is shown of a piece of practice belongs to it, and the microphone  *)
(* is on while the page says so; and what an exam says at its end is so.   *)
PracticeIsSo == T!FeedbackIsForThis /\ T!MicMeansRecording /\ X!SaidIsSo

(* A list shows what its search, its filters and its page ask for.         *)
RowsAreTheAnswer == I!RowsAreTheAnswer

(* What is known of a word is what its learner's marks come to, in order.  *)
MarksCountInOrder == W!MarksCountInOrder

(* What is asked of the model is answered with what everyone is shown, and *)
(* each answer stands under its question.                                  *)
AnswersAreTheirs == Q!AnswersAreShared /\ H!AnswersFollow

(* The bands of a mock exam are those of all that was handed in to it.     *)
BandsAreFinal == P!BandsAreFinal

(* A code sent by mail counts once, and only until the next one.           *)
CodesCountOnce == E!CodesCountOnce

(* A recording that was said to be saved is kept, once, with its object.   *)
RecordingsAreKept == R!RecordingsAreKept

(* A conversation that is said to be saved is the one on the page.         *)
SavedIsTheTalk == V!SavedIsTheTalk

(* A new learner is shown the step the server is at, and every button of   *)
(* it is taken.                                                            *)
StepIsTheServers == J!StepIsTheServers

(* And the session: its tokens are used once, it does not end by itself,   *)
(* and a sign-out ends it.                                                 *)
SessionsEndForACause == A!SessionsEndForACause
TokensEnd == A!OneLiveToken /\ A!SignedOutIsOver
=============================================================================
