---------------------------- MODULE SectionScreen ----------------------------
(***************************************************************************)
(* One section of the placement test as the learner takes it:              *)
(* features/assessment (objective-section, writing-section, section-runner,*)
(* use-section-timing) against SaveAnswer and submit of the API.  An answer*)
(* is the number of the edit that gave it, 0 when there is none.  The      *)
(* content of a section is fetched once and kept by the query cache, which *)
(* outlives the page; pending, flight, timer and note are the refs and the *)
(* state of useAnswerSaver, which go on after the page has gone.           *)
(***************************************************************************)
EXTENDS Naturals, Sequences

CONSTANTS
    Items,          \* the questions of a section; a writing section has one
    MaxEdits,       \* bound: answers chosen or typed
    MaxBreaks,      \* bound: requests whose connection breaks, pages reloaded
    Nothing

VARIABLES
    kind,       \* "objective" or "writing"
    page,       \* "away", "open", or "done": the section is over and closed
    cached,     \* the answers in the cached content; Nothing: not cached
    shown,      \* the answer on the screen, by item
    pending,    \* answers waiting to be saved, in the order of the Map
    flight,     \* the save under way; Nothing: the queue is not draining
    awaiting,   \* who waits for the drain: the tick of the timer, finish
    timer,      \* a tick is due
    note,       \* what the save indicator says
    fired,      \* the countdown of this page has called onExpire
    submit,     \* "no", "sent", or "accepted": its answer is on the way
    stored,     \* assessment_answers, by item
    section,    \* "in_progress" or "submitted"
    clock,      \* "running", "due": at the deadline; "late": past the grace
    edits, breaks,
    touched,    \* items answered since the page was opened
    stale       \* the page opened with content older than what is stored

saver  == <<pending, flight, awaiting, timer, note>>
server == <<stored, section, clock>>
screen == <<kind, page, cached, shown, fired, touched, stale>>
sectionVars == <<screen, saver, submit, server, edits, breaks>>

Asked == IF kind = "writing" THEN {CHOOSE i \in Items : TRUE} ELSE Items
Blank == [i \in Items |-> 0]

Waits(p, i) == \E k \in DOMAIN p : p[k].item = i

\* Map.set: a key that is there keeps its place, another goes to the end.
Put(p, i, e) ==
    IF Waits(p, i) THEN [k \in DOMAIN p |-> IF p[k].item = i THEN [p[k] EXCEPT !.edit = e] ELSE p[k]]
    ELSE Append(p, [item |-> i, edit |-> e])

Break == breaks < MaxBreaks /\ breaks' = breaks + 1

Sent(a) == [item |-> a.item, edit |-> a.edit, at |-> "sent"]

-----------------------------------------------------------------------------
SectionInit ==
    /\ kind \in {"objective", "writing"}
    /\ page = "open" /\ cached = Blank /\ shown = Blank
    /\ pending = <<>> /\ flight = Nothing /\ awaiting = {} /\ timer = FALSE /\ note = "idle"
    /\ fired = FALSE /\ submit = "no"
    /\ stored = Blank /\ section = "in_progress" /\ clock = "running"
    /\ edits = 0 /\ breaks = 0 /\ touched = {} /\ stale = FALSE

\* onSubmit: a submit that is pending is not sent again.
onSubmit == submit' = IF submit = "no" THEN "sent" ELSE submit

(* drain, with p pending and w waiting for it to end: the first answer     *)
(* goes out unless one is out already; an empty queue is saved at once.    *)
drain(p, w) ==
    IF flight # Nothing
    THEN /\ pending' = p /\ awaiting' = awaiting \cup w /\ UNCHANGED <<flight, note, submit>>
    ELSE IF p # <<>>
    THEN /\ flight' = Sent(Head(p)) /\ pending' = Tail(p) /\ awaiting' = w /\ note' = "saving"
         /\ UNCHANGED submit
    ELSE /\ note' = "saved" /\ pending' = p /\ UNCHANGED <<flight, awaiting>>
         /\ IF "finish" \in w THEN onSubmit ELSE UNCHANGED submit

(* choose and onChange: the answer is shown, and saved when the timer that *)
(* it restarts goes off.                                                   *)
Choose(i) ==
    /\ page = "open" /\ i \in Asked /\ edits < MaxEdits
    /\ edits' = edits + 1
    /\ shown' = [shown EXCEPT ![i] = edits + 1]
    /\ touched' = touched \cup {i}
    /\ pending' = Put(pending, i, edits + 1)
    /\ note' = "saving" /\ timer' = TRUE
    /\ UNCHANGED <<kind, page, cached, fired, stale, flight, awaiting, submit, server, breaks>>

Tick ==
    /\ timer /\ timer' = FALSE
    /\ drain(pending, {"tick"})
    /\ UNCHANGED <<screen, server, edits, breaks>>

(* onBlur of the editor: flush.                                            *)
Blur ==
    /\ page = "open" /\ kind = "writing"
    /\ timer' = FALSE
    /\ drain(pending, {})
    /\ UNCHANGED <<screen, server, edits, breaks>>

FinishEmpty(w) ==       \* mutant: finish submits what the page opened with
    IF kind = "writing"
    THEN LET i == CHOOSE j \in Asked : TRUE IN drain(Put(pending, i, cached[i]), w)
    ELSE drain(pending, w)

(* finish saves the text once more, if it is a text, and flushes before it *)
(* submits; a flush that fails is no reason not to.                        *)
finish(w) ==
    IF kind = "writing"
    THEN LET i == CHOOSE j \in Asked : TRUE IN drain(Put(pending, i, shown[i]), w)
    ELSE drain(pending, w)

Finish ==
    /\ page = "open" /\ submit = "no"
    /\ timer' = FALSE
    /\ finish({"finish"})
    /\ UNCHANGED <<screen, server, edits, breaks>>

(* The countdown of the page reaches zero: once.                           *)
Expire ==
    /\ page = "open" /\ clock # "running" /\ ~fired
    /\ fired' = TRUE /\ timer' = FALSE
    /\ finish({"finish"})
    /\ UNCHANGED <<kind, page, cached, shown, touched, stale, server, edits, breaks>>

-----------------------------------------------------------------------------
(* SaveAnswer: lockOpenSection refuses an answer that comes too late.      *)
SaveAnswer ==
    /\ flight # Nothing /\ flight.at = "sent"
    /\ IF section = "in_progress" /\ clock # "late"
       THEN /\ stored' = [stored EXCEPT ![flight.item] = flight.edit]
            /\ flight' = [flight EXCEPT !.at = "stored"]
       ELSE /\ flight' = [flight EXCEPT !.at = "refused"]
            /\ UNCHANGED stored
    /\ UNCHANGED <<screen, pending, awaiting, timer, note, submit, section, clock, edits, breaks>>

(* The answer of a save: the loop takes the next one, or ends.  A refusal  *)
(* is dropped, retrying cannot help.                                       *)
Saved ==
    /\ flight # Nothing /\ flight.at # "sent"
    /\ IF pending # <<>>
       THEN flight' = Sent(Head(pending)) /\ pending' = Tail(pending) /\ UNCHANGED <<awaiting, note, submit>>
       ELSE /\ flight' = Nothing /\ awaiting' = {} /\ note' = "saved"
            /\ IF "finish" \in awaiting THEN onSubmit ELSE UNCHANGED submit
            /\ UNCHANGED pending
    /\ UNCHANGED <<screen, timer, server, edits, breaks>>

RequeueAlways(a) ==     \* mutant: the answer that failed replaces a newer one
    Put(pending, a.item, a.edit)

\* The answer that failed is pending again, unless there is a newer one.
requeue(a) ==
    IF Waits(pending, a.item) THEN pending ELSE Append(pending, [item |-> a.item, edit |-> a.edit])

(* The connection breaks before the answer is stored or after it: the loop *)
(* ends, the tick that started it comes again and finish submits anyway.   *)
SaveFails ==
    /\ flight # Nothing /\ Break
    /\ pending' = requeue(flight)
    /\ flight' = Nothing /\ awaiting' = {} /\ note' = "error"
    /\ timer' = (timer \/ "tick" \in awaiting)
    /\ IF "finish" \in awaiting THEN onSubmit ELSE UNCHANGED submit
    /\ UNCHANGED <<screen, server, edits>>

-----------------------------------------------------------------------------
(* submit closes the section once, and says yes to whoever asks again.     *)
Submit ==
    /\ submit = "sent"
    /\ submit' = "accepted" /\ section' = "submitted"
    /\ UNCHANGED <<screen, saver, stored, clock, edits, breaks>>

Submitted ==
    /\ submit = "accepted" /\ submit' = "no"
    /\ page' = IF page = "open" THEN "done" ELSE page
    /\ UNCHANGED <<kind, cached, shown, fired, touched, stale, saver, server, edits, breaks>>

SubmitFails ==
    /\ submit # "no" /\ Break
    /\ submit' = "no"
    /\ UNCHANGED <<screen, saver, server, edits>>

(* The assessment is fetched again and its section is over: the page of    *)
(* the section gives way to the hub.                                       *)
Refetch ==
    /\ page = "open" /\ section = "submitted"
    /\ page' = "done"
    /\ UNCHANGED <<kind, cached, shown, fired, touched, stale, saver, submit, server, edits, breaks>>

Clock ==
    /\ section = "in_progress" /\ clock # "late"
    /\ clock' = IF clock = "running" THEN "due" ELSE "late"
    /\ UNCHANGED <<screen, saver, submit, stored, section, edits, breaks>>

(* expireOverdue, by any request for the assessment.                       *)
ServerExpires ==
    /\ section = "in_progress" /\ clock = "late"
    /\ section' = "submitted"
    /\ UNCHANGED <<screen, saver, submit, stored, clock, edits, breaks>>

-----------------------------------------------------------------------------
(* Save and exit: the timer is cleared, a drain that is running goes on.   *)
Leave ==
    /\ page = "open" /\ page' = "away"
    /\ timer' = FALSE
    /\ UNCHANGED <<kind, cached, shown, fired, touched, stale, pending, flight, awaiting, note, submit,
                   server, edits, breaks>>

(* Nobody shows the content for the five minutes the cache keeps it.       *)
Evict ==
    /\ page # "open" /\ cached # Nothing
    /\ cached' = Nothing
    /\ UNCHANGED <<kind, page, shown, fired, touched, stale, saver, submit, server, edits, breaks>>

(* The page is loaded again: what was in memory is gone, the requests that *)
(* are under way have reached the API or never will.                       *)
Reload ==
    /\ page # "done" /\ Break
    /\ page' = "away" /\ cached' = Nothing
    /\ pending' = <<>> /\ flight' = Nothing /\ awaiting' = {} /\ timer' = FALSE /\ submit' = "no"
    /\ UNCHANGED <<kind, shown, fired, touched, stale, note, server, edits>>

(* The page opens, once what the last one left under way has settled: with *)
(* the cached content, which never goes stale, or else fetched.            *)
Open ==
    LET content == IF cached = Nothing THEN stored ELSE cached IN
    /\ page = "away" /\ section = "in_progress"
    /\ flight = Nothing /\ ~timer /\ submit = "no"
    /\ page' = "open" /\ cached' = content /\ shown' = content
    /\ pending' = <<>> /\ note' = "idle" /\ fired' = FALSE /\ touched' = {}
    /\ stale' = (content # stored)
    /\ UNCHANGED <<kind, flight, awaiting, timer, submit, server, edits, breaks>>

-----------------------------------------------------------------------------
SectionNext ==
    \/ \E i \in Items : Choose(i)
    \/ Tick \/ Blur \/ Finish \/ Expire
    \/ SaveAnswer \/ Saved \/ SaveFails
    \/ Submit \/ Submitted \/ SubmitFails \/ Refetch
    \/ Clock \/ ServerExpires
    \/ Leave \/ Evict \/ Reload \/ Open

SectionSpec == SectionInit /\ [][SectionNext]_sectionVars

-----------------------------------------------------------------------------
(* What the save indicator says is true: when it says saved, every answer  *)
(* given on this page is the one the API has, or came too late for it.     *)
SavedMeansStored ==
    page = "open" /\ note = "saved" /\ section = "in_progress" /\ clock # "late" =>
        \A i \in touched : stored[i] = shown[i]

(* Latest value wins: no save, retry, blur or finish puts an older answer  *)
(* over a newer one, on a page that opened with what was stored.           *)
LatestWins ==
    [][~stale => \A i \in Items : stored'[i] >= stored[i]]_sectionVars

(* "Your answers are saved and you can continue where you left off": a     *)
(* page that has just opened shows the answers that are stored.            *)
ContinueWhereYouLeft ==
    page = "open" /\ note = "idle" => \A i \in Asked : shown[i] = stored[i]
=============================================================================
