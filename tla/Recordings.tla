------------------------------ MODULE Recordings ------------------------------
(***************************************************************************)
(* One task of the speaking section (speaking-section.tsx) and the uploads *)
(* of its recordings (assessment/service.go, UploadRecording): the bytes   *)
(* go to the object store between two transactions, and a request that the *)
(* page has given up goes on.                                              *)
(***************************************************************************)
EXTENDS Naturals, Sequences

CONSTANTS
    MaxAttempts,                    \* recordings a task may have
    MaxTakes, MaxUploads, MaxTrips  \* bounds: recordings made, saves pressed, failures

VARIABLES
    slot,               \* the card of the task: "recorder", "saved", or "closed" with the section
    held, takes,        \* the recording on the page, if any, and how many were made
    used, rereading,    \* the attempts the page knows of, and whether it reads them again
    told,               \* the recording last said to be saved
    uploads, sentUp,    \* the requests under way, and how many there were
    recordings,         \* the attempts kept: the recording and the key of its object
    objects,            \* the keys in the object store
    over,               \* the section takes no more
    unsure,           \* keys whose commit was answered as a failure
    doubled,            \* recordings uploaded again before the first upload was through
    trips

recorders == <<slot, held, takes, used, rereading, told, uploads, sentUp, recordings, objects, over,
               unsure, doubled, trips>>

-----------------------------------------------------------------------------
RecordingsInit ==
    /\ slot = "recorder" /\ held = 0 /\ takes = 0 /\ used = 0 /\ rereading = FALSE /\ told = 0
    /\ uploads = {} /\ sentUp = 0 /\ recordings = <<>> /\ objects = {}
    /\ over = FALSE /\ unsure = {} /\ doubled = {} /\ trips = 0

Trip == trips < MaxTrips /\ trips' = trips + 1
Becomes(u, what) == uploads' = (uploads \ {u}) \union {what}
Answer(u, how) == Becomes(u, [u EXCEPT !.at = how])

-----------------------------------------------------------------------------
(* The page.  The recorder is shown until an attempt is known of; what is  *)
(* on it goes when it does.                                                *)
Recorder(s, n) == s = "recorder" \/ (s = "saved" /\ n = 0)

Shows(s, n, h) == slot' = s /\ used' = n /\ held' = IF Recorder(s, n) THEN h ELSE 0

Server == UNCHANGED <<recordings, objects, over, unsure, doubled>>
Quiet == UNCHANGED <<takes, told, sentUp, trips>> /\ Server

AudioRecorder ==
    /\ Recorder(slot, used) /\ takes < MaxTakes /\ takes' = takes + 1
    /\ Shows(slot, used, takes')
    /\ UNCHANGED <<rereading, told, uploads, sentUp, trips>> /\ Server

Save ==
    /\ Recorder(slot, used) /\ held # 0 /\ ~\E u \in uploads : u.on = "page"
    /\ sentUp < MaxUploads /\ sentUp' = sentUp + 1
    /\ uploads' = uploads \union {[id |-> sentUp', take |-> held, at |-> "sent", on |-> "page"]}
    /\ UNCHANGED <<slot, held, takes, used, rereading, told, trips>> /\ Server

RecordAgain ==
    /\ slot = "saved" /\ used \in 1..(MaxAttempts - 1)
    /\ Shows("recorder", used, 0) /\ UNCHANGED <<rereading, uploads>> /\ Quiet

KeepSaved ==
    /\ slot = "recorder" /\ used > 0
    /\ Shows("saved", used, 0) /\ UNCHANGED <<rereading, uploads>> /\ Quiet

\* To another task and back, or past an error of the page: it is shown
\* anew, and what was under way no longer speaks to it.
Move ==
    /\ slot # "closed"
    /\ Shows(IF used = 0 THEN "recorder" ELSE "saved", used, 0)
    /\ uploads' = {IF u.on = "page" THEN [u EXCEPT !.on = "gone"] ELSE u : u \in uploads}
    /\ UNCHANGED rereading /\ Quiet

Hear(u) ==
    /\ u.at \in {"answered", "failed"} /\ uploads' = uploads \ {u}
    /\ rereading' = (rereading \/ u.on # "cut")
    /\ IF u.on = "page" /\ u.at = "answered"
       THEN /\ told' = u.take /\ Shows(IF slot = "closed" THEN slot ELSE "saved", used, held)
       ELSE UNCHANGED <<slot, used, held, told>>
    /\ UNCHANGED <<takes, sentUp, trips>> /\ Server

\* The connection breaks: the page hears of a failure and keeps the recording.
Cut(u) ==
    /\ u.on = "page" /\ Trip /\ Becomes(u, [u EXCEPT !.on = "cut"]) /\ rereading' = TRUE
    /\ UNCHANGED <<slot, held, takes, used, told, sentUp>> /\ Server

Reread ==
    /\ rereading /\ rereading' = FALSE /\ Shows(slot, Len(recordings), held)
    /\ UNCHANGED uploads /\ Quiet

Finish ==
    /\ slot # "closed" /\ Shows("closed", used, 0) /\ over' = TRUE
    /\ uploads' = {IF u.on = "page" THEN [u EXCEPT !.on = "gone"] ELSE u : u \in uploads}
    /\ UNCHANGED <<rereading, takes, told, sentUp, recordings, objects, unsure, doubled, trips>>

-----------------------------------------------------------------------------
(* The server.  The section is over at its deadline, or by another page.   *)
Page == UNCHANGED <<slot, held, takes, used, rereading, told, sentUp>>

Expire ==
    /\ ~over /\ over' = TRUE
    /\ UNCHANGED <<uploads, recordings, objects, unsure, doubled, trips>> /\ Page

Again(u) == recordings # <<>> /\ recordings[Len(recordings)].take = u.take

Overlaps(u) == \E v \in uploads \ {u} : v.take = u.take /\ v.at \in {"checked", "put"}

Checks(u) ==
    /\ u.at = "sent"
    /\ doubled' = IF Overlaps(u) THEN doubled \union {u.take} ELSE doubled
    /\ UNCHANGED <<recordings, objects, over, unsure, trips>> /\ Page

CheckAnyTake(u) ==      \* mutant: the checksum is not compared
    /\ Checks(u)
    /\ Answer(u, IF over \/ Len(recordings) >= MaxAttempts THEN "failed" ELSE "checked")

Check(u) ==
    /\ Checks(u)
    /\ Answer(u, IF over THEN "failed" ELSE IF Again(u) THEN "answered"
                 ELSE IF Len(recordings) >= MaxAttempts THEN "failed" ELSE "checked")

Put(u) ==
    /\ u.at = "checked"
    /\ \/ Answer(u, "put") /\ objects' = objects \union {u.id} /\ UNCHANGED trips
       \/ Answer(u, "failed") /\ UNCHANGED objects /\ Trip
    /\ UNCHANGED <<recordings, over, unsure, doubled>> /\ Page

Kept(u) == recordings' = Append(recordings, [take |-> u.take, key |-> u.id])

Insert(u) ==
    /\ u.at = "put"
    /\ IF over \/ Len(recordings) >= MaxAttempts
       THEN Answer(u, "failed") /\ objects' = objects \ {u.id} /\ UNCHANGED recordings
       ELSE Answer(u, "answered") /\ Kept(u) /\ UNCHANGED objects
    /\ UNCHANGED <<over, unsure, doubled, trips>> /\ Page

\* The transaction fails, and so may the removal of the object; or it was
\* committed and is not known to be.
InsertFails(u) ==
    /\ u.at = "put" /\ Trip /\ Answer(u, "failed")
    /\ objects' \in {objects, objects \ {u.id}}
    /\ \/ UNCHANGED <<recordings, unsure>>
       \/ ~over /\ Len(recordings) < MaxAttempts /\ Kept(u) /\ unsure' = unsure \union {u.id}
    /\ UNCHANGED <<over, doubled>> /\ Page

-----------------------------------------------------------------------------
RecordingsNext ==
    \/ AudioRecorder \/ Save \/ RecordAgain \/ KeepSaved \/ Move \/ Reread \/ Finish \/ Expire
    \/ \E u \in uploads : Hear(u) \/ Cut(u) \/ Check(u) \/ Put(u) \/ Insert(u) \/ InsertFails(u)

RecordingsSpec == RecordingsInit /\ [][RecordingsNext]_recorders

-----------------------------------------------------------------------------
(* What the learner is told is saved is kept, in at most as many attempts  *)
(* as the task has, each with its object unless its commit was answered as *)
(* a failure.  A recording is not kept twice in a row, which would spend   *)
(* an attempt on nothing, unless its uploads overlapped.                   *)
RecordingsAreKept ==
    /\ told # 0 => \E i \in DOMAIN recordings : recordings[i].take = told
    /\ Len(recordings) <= MaxAttempts
    /\ \A i \in DOMAIN recordings :
           /\ recordings[i].key \in objects \union unsure
           /\ i > 1 /\ recordings[i - 1].take = recordings[i].take => recordings[i].take \in doubled
=============================================================================
