---------------------------- MODULE LearnerProofs ----------------------------
(***************************************************************************)
(* Theorems about pages of the learner in Pages: the recordings of a       *)
(* speaking task, the mock exams, a piece of practice and the timed exams, *)
(* lists, the journey, questions to the model and conversations with it,   *)
(* spoken ones too, for any clients, papers and bounds: what a page        *)
(* promises is kept by its own steps, and the other pages leave it alone.  *)
(***************************************************************************)
EXTENDS Pages, FiniteSetTheorems, SequenceTheorems, TLAPS

\* While one page is looked at, the others stay as they are.
LEMMA PageSteps ==
    ASSUME [Next]_pageVars
    PROVE  /\ P!SittingsNext \/ UNCHANGED mocks
           /\ R!RecordingsNext \/ UNCHANGED recorders
           /\ T!TaskNext \/ UNCHANGED task
           /\ X!RoomNext \/ UNCHANGED exams
           /\ I!ListsNext \/ UNCHANGED list
           /\ J!JourneyNext \/ UNCHANGED journey
           /\ Q!AsksNext \/ UNCHANGED questions
           /\ H!ThreadsNext \/ UNCHANGED chats
           /\ V!TalkNext \/ UNCHANGED live
           /\ L!CoachNext \/ UNCHANGED coach
<1>1. CASE UNCHANGED pageVars
  BY <1>1 DEF pageVars
<1> QED
  BY <1>1 DEF Next, Section, Grammar, Coach, Builder, Word, Form, Task, List, Rounds, Ask, Talk,
     Exam, Mocks, Code, Speak, Live, Joining, Test, Shell, Looking, Stays

-----------------------------------------------------------------------------
(* The recordings of a speaking task.                                      *)

Uploads == [id : Nat, take : Nat, at : {"sent", "checked", "put", "answered", "failed"},
            on : {"page", "gone", "cut"}]

Attempts == [take : Nat, key : Nat]

RecordingTypes ==
    /\ recordings \in Seq(Attempts) /\ Len(recordings) <= MaxAttempts
    /\ uploads \subseteq Uploads
    /\ {sentUp, takes, held, told} \subseteq Nat

\* An upload is known by its number, and so is the object it puts.
UploadsAreTold ==
    /\ \A u \in uploads : u.id <= sentUp
    /\ \A i \in DOMAIN recordings : recordings[i].key <= sentUp
    /\ \A u, v \in uploads : u.id = v.id => u = v
    /\ \A u \in uploads : u.at \in {"sent", "checked", "put"} =>
           \A i \in DOMAIN recordings : recordings[i].key # u.id

KeepsTake(n) == \E i \in DOMAIN recordings : recordings[i].take = n

\* What is answered is kept, and what is put is an object.
AnswersAreKept ==
    /\ told # 0 => KeepsTake(told)
    /\ \A u \in uploads : /\ u.at = "answered" => KeepsTake(u.take)
                          /\ u.at = "put" => u.id \in objects
    /\ \A i \in DOMAIN recordings : recordings[i].key \in objects \union unsure

Underway(u) == u \in uploads /\ u.at \in {"checked", "put"}

\* A recording is on its way twice, or again, only if its uploads overlapped.
DoublesAreSeen ==
    /\ \A u, v : Underway(u) /\ Underway(v) /\ u # v /\ u.take = v.take => u.take \in doubled
    /\ \A u : Underway(u) /\ R!Again(u) => u.take \in doubled
    /\ \A i \in DOMAIN recordings :
           i > 1 /\ recordings[i - 1].take = recordings[i].take => recordings[i].take \in doubled

RecordingInv == RecordingTypes /\ UploadsAreTold /\ AnswersAreKept /\ DoublesAreSeen

LEMMA RecordingInit == Init => RecordingInv
<1> SUFFICES ASSUME R!RecordingsInit PROVE RecordingInv
  BY DEF Init
<1>1. recordings = <<>> /\ uploads = {} /\ told = 0 /\ sentUp = 0 /\ takes = 0 /\ held = 0
  BY DEF R!RecordingsInit
<1>2. MaxAttempts \in Nat
  BY PagesAssumption
<1>3. recordings \in Seq(Attempts) /\ Len(recordings) = 0 /\ DOMAIN recordings = {}
  BY <1>1
<1>4. RecordingTypes
  BY <1>1, <1>2, <1>3 DEF RecordingTypes
<1>5. UploadsAreTold /\ AnswersAreKept
  BY <1>1, <1>3 DEF UploadsAreTold, AnswersAreKept
<1>6. DoublesAreSeen
  BY <1>1, <1>3 DEF DoublesAreSeen, Underway
<1> QED
  BY <1>4, <1>5, <1>6 DEF RecordingInv

\* Steps that keep what is kept, and take an upload no further than it was.
Unmoved ==
    /\ UNCHANGED <<recordings, objects, unsure, doubled, sentUp>>
    /\ {takes', held', told'} \subseteq Nat
    /\ told' # 0 => told' = told \/ \E u \in uploads : u.at = "answered" /\ u.take = told'
    /\ uploads' \subseteq Uploads
    /\ \A u \in uploads' : \E v \in uploads : /\ u.id = v.id /\ u.take = v.take
                                              /\ u.at # "failed" => u.at = v.at
    /\ \A u, v \in uploads' : u.id = v.id => u = v

LEMMA UnmovedStep ==
    ASSUME RecordingInv, Unmoved
    PROVE  RecordingInv'
<1> USE DEF RecordingInv, Unmoved
<1>1. RecordingTypes'
  BY DEF RecordingTypes
<1>2. UploadsAreTold'
  <2>1. \A u \in uploads' : u.id <= sentUp'
    BY DEF UploadsAreTold
  <2>2. \A u \in uploads' : u.at \in {"sent", "checked", "put"} =>
           \A i \in DOMAIN recordings' : recordings'[i].key # u.id
    BY DEF UploadsAreTold
  <2> QED
    BY <2>1, <2>2 DEF UploadsAreTold
<1>3. AnswersAreKept'
  <2>1. told' # 0 => KeepsTake(told')
    BY DEF AnswersAreKept, KeepsTake
  <2>2. \A u \in uploads' : u.at = "answered" => KeepsTake(u.take)
    BY DEF AnswersAreKept
  <2>3. \A u \in uploads' : u.at = "put" => u.id \in objects
    BY DEF AnswersAreKept
  <2> QED
    BY <2>1, <2>2, <2>3 DEF AnswersAreKept, KeepsTake
<1>4. DoublesAreSeen'
  <2>1. ASSUME NEW u, NEW v, Underway(u)', Underway(v)', u # v, u.take = v.take
        PROVE  u.take \in doubled
    <3>1. PICK x \in uploads : u.id = x.id /\ u.take = x.take /\ x.at = u.at
      BY <2>1 DEF Underway
    <3>2. PICK y \in uploads : v.id = y.id /\ v.take = y.take /\ y.at = v.at
      BY <2>1 DEF Underway
    <3>3. u \in uploads' /\ v \in uploads'
      BY <2>1 DEF Underway
    <3>4. \A a, b \in uploads' : a.id = b.id => a = b
      OBVIOUS
    <3>5. x # y
      BY <2>1, <3>1, <3>2, <3>3, <3>4
    <3>6. Underway(x) /\ Underway(y) /\ x.take = y.take
      BY <2>1, <3>1, <3>2 DEF Underway
    <3> QED
      BY <3>1, <3>5, <3>6 DEF DoublesAreSeen
  <2>2. ASSUME NEW u, Underway(u)', R!Again(u)'
        PROVE  u.take \in doubled
    <3>1. PICK x \in uploads : u.take = x.take /\ x.at = u.at
      BY <2>2 DEF Underway
    <3> QED
      BY <2>2, <3>1 DEF DoublesAreSeen, Underway, R!Again
  <2> QED
    BY <2>1, <2>2 DEF DoublesAreSeen
<1> QED
  BY <1>1, <1>2, <1>3, <1>4

\* The steps of the page, an answer it hears and the end of the section.
LEMMA PageLeavesUploads ==
    ASSUME RecordingInv,
           \/ R!AudioRecorder \/ R!RecordAgain \/ R!KeepSaved \/ R!Move \/ R!Reread \/ R!Finish \/ R!Expire
           \/ \E u \in uploads : R!Hear(u) \/ R!Cut(u)
    PROVE  RecordingInv'
<1> USE DEF R!Server, R!Quiet, R!Page, R!Shows
<1>1. uploads \subseteq Uploads /\ takes \in Nat /\ held \in Nat /\ told \in Nat
  BY DEF RecordingInv, RecordingTypes
<1>2. \A u, v \in uploads : u.id = v.id => u = v
  BY DEF RecordingInv, UploadsAreTold
<1>3. CASE R!AudioRecorder \/ R!RecordAgain \/ R!KeepSaved \/ R!Reread \/ R!Expire
  <2>1. UNCHANGED <<recordings, objects, unsure, doubled, sentUp, uploads, told>>
    BY <1>3 DEF R!AudioRecorder, R!RecordAgain, R!KeepSaved, R!Reread, R!Expire
  <2>2. takes' \in Nat /\ held' \in Nat
    BY <1>1, <1>3 DEF R!AudioRecorder, R!RecordAgain, R!KeepSaved, R!Reread, R!Expire
  <2>3. Unmoved
    BY <1>1, <1>2, <2>1, <2>2 DEF Unmoved
  <2> QED
    BY <2>3, UnmovedStep
<1>4. CASE R!Move \/ R!Finish
  <2>1. UNCHANGED <<recordings, objects, unsure, doubled, sentUp, told, takes>> /\ held' = 0
    BY <1>4 DEF R!Move, R!Finish
  <2>2. uploads' = {IF u.on = "page" THEN [u EXCEPT !.on = "gone"] ELSE u : u \in uploads}
    BY <1>4 DEF R!Move, R!Finish
  <2>3. \A u \in uploads : LET w == IF u.on = "page" THEN [u EXCEPT !.on = "gone"] ELSE u
                           IN w \in Uploads /\ w.id = u.id /\ w.take = u.take /\ w.at = u.at
    BY <1>1 DEF Uploads
  <2>4. \A w \in uploads' : \E u \in uploads :
           /\ w = IF u.on = "page" THEN [u EXCEPT !.on = "gone"] ELSE u
           /\ w \in Uploads /\ w.id = u.id /\ w.take = u.take /\ w.at = u.at
    BY <2>2, <2>3
  <2>5. ASSUME NEW a \in uploads', NEW b \in uploads', a.id = b.id PROVE a = b
    <3>1. PICK u \in uploads : a = (IF u.on = "page" THEN [u EXCEPT !.on = "gone"] ELSE u) /\ a.id = u.id
      BY <2>4
    <3>2. PICK v \in uploads : b = (IF v.on = "page" THEN [v EXCEPT !.on = "gone"] ELSE v) /\ b.id = v.id
      BY <2>4
    <3>3. u = v
      BY <1>2, <2>5, <3>1, <3>2
    <3> QED
      BY <3>1, <3>2, <3>3
  <2>6. Unmoved
    BY <1>1, <2>1, <2>4, <2>5 DEF Unmoved
  <2> QED
    BY <2>6, UnmovedStep
<1>5. ASSUME NEW u \in uploads, R!Hear(u) PROVE RecordingInv'
  <2>1. UNCHANGED <<recordings, objects, unsure, doubled, sentUp, takes>> /\ uploads' = uploads \ {u}
    BY <1>5 DEF R!Hear
  <2>2. told' = told \/ (u.at = "answered" /\ told' = u.take)
    BY <1>5 DEF R!Hear
  <2>3. held' = held \/ held' = 0
    BY <1>5 DEF R!Hear
  <2>4. {takes', held', told'} \subseteq Nat
    BY <1>1, <2>1, <2>2, <2>3 DEF Uploads
  <2>5. Unmoved
    BY <1>1, <1>2, <2>1, <2>2, <2>4 DEF Unmoved
  <2> QED
    BY <2>5, UnmovedStep
<1>6. ASSUME NEW u \in uploads, R!Cut(u) PROVE RecordingInv'
  <2>1. PICK w : w = [u EXCEPT !.on = "cut"]
    OBVIOUS
  <2>2. w \in Uploads /\ w.id = u.id /\ w.take = u.take /\ w.at = u.at
    BY <1>1, <2>1 DEF Uploads
  <2>3. UNCHANGED <<recordings, objects, unsure, doubled, sentUp, takes, held, told>>
    BY <1>6 DEF R!Cut
  <2>4. uploads' = (uploads \ {u}) \union {w}
    BY <1>6, <2>1 DEF R!Cut, R!Becomes
  <2>5. \A a, b \in uploads' : a.id = b.id => a = b
    BY <1>2, <2>2, <2>4
  <2>6. Unmoved
    BY <1>1, <2>2, <2>3, <2>4, <2>5 DEF Unmoved
  <2> QED
    BY <2>6, UnmovedStep
<1> QED
  BY <1>3, <1>4, <1>5, <1>6

\* Saving begins an upload with a number of its own.
LEMMA SaveStep ==
    ASSUME RecordingInv, R!Save
    PROVE  RecordingInv'
<1> USE DEF RecordingInv
<1>1. PICK n \in Nat : n = sentUp + 1
  BY DEF RecordingTypes
<1>2. PICK w : w = [id |-> n, take |-> held, at |-> "sent", on |-> "page"]
  OBVIOUS
<1>3. w \in Uploads /\ w.id = n /\ w.take = held /\ w.at = "sent"
  BY <1>2 DEF Uploads, RecordingTypes
<1>4. /\ uploads' = uploads \union {w} /\ sentUp' = n
      /\ UNCHANGED <<recordings, objects, unsure, doubled, takes, held, told>>
  BY <1>1, <1>2 DEF R!Save, R!Server
<1>5. RecordingTypes'
  BY <1>3, <1>4 DEF RecordingTypes
<1>6. \A u \in uploads : u.id \in Nat /\ u.id # n
  BY <1>1 DEF UploadsAreTold, RecordingTypes, Uploads
<1>7. \A i \in DOMAIN recordings : recordings[i].key \in Nat /\ recordings[i].key # n
  <2>1. \A i \in DOMAIN recordings : recordings[i] \in Attempts
    BY ElementOfSeq DEF RecordingTypes
  <2> QED
    BY <1>1, <2>1 DEF UploadsAreTold, RecordingTypes, Attempts
<1>8. UploadsAreTold'
  <2>1. \A u \in uploads' : u.id <= n
    BY <1>1, <1>3, <1>4, <1>6 DEF UploadsAreTold, RecordingTypes
  <2>2. \A i \in DOMAIN recordings : recordings[i].key <= n
    BY <1>1, <1>7 DEF UploadsAreTold, RecordingTypes
  <2>3. \A u, v \in uploads' : u.id = v.id => u = v
    BY <1>3, <1>4, <1>6 DEF UploadsAreTold
  <2>4. \A u \in uploads' : u.at \in {"sent", "checked", "put"} =>
           \A i \in DOMAIN recordings : recordings[i].key # u.id
    BY <1>3, <1>4, <1>7 DEF UploadsAreTold
  <2> QED
    BY <1>4, <2>1, <2>2, <2>3, <2>4 DEF UploadsAreTold
<1>9. AnswersAreKept'
  BY <1>3, <1>4 DEF AnswersAreKept, KeepsTake
<1>10. DoublesAreSeen'
  <2>1. \A u : Underway(u)' => Underway(u)
    BY <1>3, <1>4 DEF Underway
  <2>2. \A u : R!Again(u)' <=> R!Again(u)
    BY <1>4 DEF R!Again
  <2> QED
    BY <1>4, <2>1, <2>2 DEF DoublesAreSeen
<1> QED
  BY <1>5, <1>8, <1>9, <1>10

\* An upload goes on: it is known by the same number and carries the same recording.
LEMMA UploadGoesOn ==
    ASSUME RecordingInv, NEW u \in uploads,
           NEW how \in {"checked", "put", "answered", "failed"}, R!Answer(u, how)
    PROVE  \E w \in Uploads :
               /\ uploads' = (uploads \ {u}) \union {w}
               /\ w.id = u.id /\ w.take = u.take /\ w.at = how
               /\ uploads' \subseteq Uploads
               /\ \A a, b \in uploads' : a.id = b.id => a = b
               /\ \A a \in uploads' : a # w => a \in uploads /\ a # u /\ a.id # u.id
               /\ u.id \in Nat /\ u.take \in Nat
<1>1. PICK w : w = [u EXCEPT !.at = how]
  OBVIOUS
<1>2. u \in Uploads
  BY DEF RecordingInv, RecordingTypes
<1>3. w \in Uploads /\ w.id = u.id /\ w.take = u.take /\ w.at = how /\ u.id \in Nat /\ u.take \in Nat
  BY <1>1, <1>2 DEF Uploads
<1>4. uploads' = (uploads \ {u}) \union {w}
  BY <1>1 DEF R!Answer, R!Becomes
<1>5. \A a, b \in uploads : a.id = b.id => a = b
  BY DEF RecordingInv, UploadsAreTold
<1>6. uploads' \subseteq Uploads
  BY <1>3, <1>4 DEF RecordingInv, RecordingTypes
<1>7. \A a \in uploads' : a # w => a \in uploads /\ a # u /\ a.id # u.id
  BY <1>4, <1>5
<1>8. \A a, b \in uploads' : a.id = b.id => a = b
  BY <1>3, <1>4, <1>5
<1> QED
  BY <1>3, <1>4, <1>6, <1>7, <1>8

\* A statement that answers with a failure, or with what is kept, changes little else.
LEMMA CheckStep ==
    ASSUME RecordingInv, NEW u \in uploads, R!Check(u)
    PROVE  RecordingInv'
<1> USE DEF RecordingInv
<1>1. PICK how \in {"failed", "answered", "checked"} :
         /\ R!Answer(u, how)
         /\ how = "answered" => R!Again(u)
         /\ how = "checked" => ~R!Again(u)
  BY DEF R!Check
<1>2. PICK w \in Uploads :
         /\ uploads' = (uploads \ {u}) \union {w}
         /\ w.id = u.id /\ w.take = u.take /\ w.at = how
         /\ uploads' \subseteq Uploads
         /\ \A a, b \in uploads' : a.id = b.id => a = b
         /\ \A a \in uploads' : a # w => a \in uploads /\ a # u /\ a.id # u.id
         /\ u.id \in Nat /\ u.take \in Nat
  BY <1>1, UploadGoesOn
<1>3. /\ UNCHANGED <<recordings, objects, unsure, sentUp, takes, held, told>>
      /\ doubled \subseteq doubled' /\ u.at = "sent"
      /\ R!Overlaps(u) => u.take \in doubled'
  BY DEF R!Check, R!Checks, R!Page
<1>4. RecordingTypes'
  BY <1>2, <1>3 DEF RecordingTypes
<1>5. UploadsAreTold'
  BY <1>2, <1>3 DEF UploadsAreTold
<1>6. AnswersAreKept'
  <2>1. how = "answered" => KeepsTake(u.take)
    <3>1. SUFFICES ASSUME how = "answered" PROVE KeepsTake(u.take)
      OBVIOUS
    <3>2. recordings # <<>> /\ recordings[Len(recordings)].take = u.take
      BY <1>1, <3>1 DEF R!Again
    <3>3. Len(recordings) \in DOMAIN recordings
      BY <3>2 DEF RecordingTypes
    <3> QED
      BY <3>2, <3>3 DEF KeepsTake
  <2>2. \A a \in uploads' : /\ a.at = "answered" => KeepsTake(a.take)
                            /\ a.at = "put" => a.id \in objects
    BY <1>1, <1>2, <2>1 DEF AnswersAreKept
  <2> QED
    BY <1>3, <2>2 DEF AnswersAreKept, KeepsTake
<1>7. DoublesAreSeen'
  <2>1. \A a : Underway(a)' => a = w \/ (Underway(a) /\ a # u)
    BY <1>2 DEF Underway
  <2>2. \A a : Underway(a) /\ a # u /\ a.take = u.take => u.take \in doubled'
    BY <1>3 DEF Underway, R!Overlaps
  <2>3. ASSUME NEW a, NEW b, Underway(a)', Underway(b)', a # b, a.take = b.take
        PROVE  a.take \in doubled'
    <3>1. CASE a = w
      BY <1>2, <2>1, <2>2, <2>3, <3>1
    <3>2. CASE b = w
      BY <1>2, <2>1, <2>2, <2>3, <3>2
    <3>3. CASE a # w /\ b # w
      BY <1>3, <2>1, <2>3, <3>3 DEF DoublesAreSeen
    <3> QED
      BY <3>1, <3>2, <3>3
  <2>4. ASSUME NEW a, Underway(a)', R!Again(a)'
        PROVE  a.take \in doubled'
    <3>1. R!Again(a)
      BY <1>3, <2>4 DEF R!Again
    <3>2. a # w
      BY <1>1, <1>2, <2>4, <3>1 DEF Underway, R!Again
    <3> QED
      BY <1>3, <2>1, <2>4, <3>1, <3>2 DEF DoublesAreSeen
  <2> QED
    BY <1>3, <2>3, <2>4 DEF DoublesAreSeen
<1> QED
  BY <1>4, <1>5, <1>6, <1>7

LEMMA PutStep ==
    ASSUME RecordingInv, NEW u \in uploads, R!Put(u)
    PROVE  RecordingInv'
<1> USE DEF RecordingInv
<1>1. PICK how \in {"put", "failed"} :
         /\ R!Answer(u, how)
         /\ how = "put" => objects' = objects \union {u.id}
         /\ how = "failed" => objects' = objects
  BY DEF R!Put
<1>2. PICK w \in Uploads :
         /\ uploads' = (uploads \ {u}) \union {w}
         /\ w.id = u.id /\ w.take = u.take /\ w.at = how
         /\ uploads' \subseteq Uploads
         /\ \A a, b \in uploads' : a.id = b.id => a = b
         /\ \A a \in uploads' : a # w => a \in uploads /\ a # u /\ a.id # u.id
         /\ u.id \in Nat /\ u.take \in Nat
  BY <1>1, UploadGoesOn
<1>3. /\ UNCHANGED <<recordings, unsure, doubled, sentUp, takes, held, told>>
      /\ u.at = "checked"
  BY DEF R!Put, R!Page
<1>4. RecordingTypes'
  BY <1>2, <1>3 DEF RecordingTypes
<1>5. UploadsAreTold'
  BY <1>2, <1>3 DEF UploadsAreTold
<1>6. AnswersAreKept'
  <2>1. \A a \in uploads' : /\ a.at = "answered" => KeepsTake(a.take)
                            /\ a.at = "put" => a.id \in objects'
    BY <1>1, <1>2 DEF AnswersAreKept
  <2> QED
    BY <1>1, <1>3, <2>1 DEF AnswersAreKept, KeepsTake
<1>7. DoublesAreSeen'
  <2>1. \A a : Underway(a)' => (a = w /\ Underway(u)) \/ (Underway(a) /\ a # u)
    BY <1>2, <1>3 DEF Underway
  <2>2. ASSUME NEW a, NEW b, Underway(a)', Underway(b)', a # b, a.take = b.take
        PROVE  a.take \in doubled
    <3>1. CASE a = w
      BY <1>2, <2>1, <2>2, <3>1 DEF DoublesAreSeen
    <3>2. CASE b = w
      BY <1>2, <2>1, <2>2, <3>2 DEF DoublesAreSeen
    <3>3. CASE a # w /\ b # w
      BY <2>1, <2>2, <3>3 DEF DoublesAreSeen
    <3> QED
      BY <3>1, <3>2, <3>3
  <2>3. ASSUME NEW a, Underway(a)', R!Again(a)'
        PROVE  a.take \in doubled
    <3>1. R!Again(a)
      BY <1>3, <2>3 DEF R!Again
    <3>2. CASE a = w
      BY <1>2, <2>1, <2>3, <3>1, <3>2 DEF DoublesAreSeen, R!Again
    <3>3. CASE a # w
      BY <2>1, <2>3, <3>1, <3>3 DEF DoublesAreSeen
    <3> QED
      BY <3>2, <3>3
  <2> QED
    BY <1>3, <2>2, <2>3 DEF DoublesAreSeen
<1> QED
  BY <1>4, <1>5, <1>6, <1>7

LEMMA RecordingAppended ==
    ASSUME recordings \in Seq(Attempts), NEW r \in Attempts, recordings' = Append(recordings, r)
    PROVE  /\ recordings' \in Seq(Attempts) /\ Len(recordings') = Len(recordings) + 1
           /\ \A i \in DOMAIN recordings : i \in DOMAIN recordings' /\ recordings'[i] = recordings[i]
           /\ Len(recordings') \in DOMAIN recordings' /\ recordings'[Len(recordings')] = r
           /\ \A i \in DOMAIN recordings' : i \in DOMAIN recordings \/ i = Len(recordings')
  BY AppendProperties

\* The second transaction: the attempt is kept or not, and its object with it.
LEMMA EndStep ==
    ASSUME RecordingInv, NEW u \in uploads, R!Insert(u) \/ R!InsertFails(u)
    PROVE  RecordingInv'
<1> USE DEF RecordingInv
<1>1. PICK how \in {"answered", "failed"} : R!Answer(u, how) /\ (how = "answered" => recordings' # recordings)
  <2>1. recordings \in Seq(Attempts) /\ u \in Uploads
    BY DEF RecordingTypes
  <2>2. R!Kept(u) => recordings' # recordings
    <3>1. SUFFICES ASSUME R!Kept(u) PROVE recordings' # recordings
      OBVIOUS
    <3>2. [take |-> u.take, key |-> u.id] \in Attempts
      BY <2>1 DEF Attempts, Uploads
    <3>3. Len(recordings') = Len(recordings) + 1
      BY <2>1, <3>1, <3>2, RecordingAppended DEF R!Kept
    <3> QED
      BY <2>1, <3>3
  <2>3. CASE R!Insert(u)
    BY <2>2, <2>3 DEF R!Insert
  <2>4. CASE R!InsertFails(u)
    BY <2>4 DEF R!InsertFails
  <2> QED
    BY <2>3, <2>4
<1>2. PICK w \in Uploads :
         /\ uploads' = (uploads \ {u}) \union {w}
         /\ w.id = u.id /\ w.take = u.take /\ w.at = how
         /\ uploads' \subseteq Uploads
         /\ \A a, b \in uploads' : a.id = b.id => a = b
         /\ \A a \in uploads' : a # w => a \in uploads /\ a # u /\ a.id # u.id
         /\ u.id \in Nat /\ u.take \in Nat
  BY <1>1, UploadGoesOn
<1>3. /\ UNCHANGED <<doubled, sentUp, takes, held, told>> /\ u.at = "put"
      /\ objects \ {u.id} \subseteq objects' /\ unsure \subseteq unsure'
  BY DEF R!Insert, R!InsertFails, R!Page
<1>4. \/ recordings' = recordings
      \/ /\ R!Kept(u) /\ Len(recordings) < MaxAttempts
         /\ u.id \in objects' \union unsure'
  <2>1. u.id \in objects
    BY <1>3 DEF AnswersAreKept
  <2>2. CASE R!Insert(u)
    <3>1. Len(recordings) \in Nat /\ MaxAttempts \in Nat
      <4>1. MaxAttempts \in Nat
        BY PagesAssumption
      <4> QED
        BY <4>1, LenProperties DEF RecordingTypes
    <3>2. CASE over \/ Len(recordings) >= MaxAttempts
      BY <2>2, <3>2 DEF R!Insert
    <3>3. CASE ~(over \/ Len(recordings) >= MaxAttempts)
      <4>1. R!Kept(u) /\ objects' = objects
        BY <2>2, <3>3 DEF R!Insert
      <4>2. Len(recordings) < MaxAttempts
        BY <3>1, <3>3
      <4> QED
        BY <2>1, <4>1, <4>2
    <3> QED
      BY <3>2, <3>3
  <2>3. CASE R!InsertFails(u)
    BY <2>3 DEF R!InsertFails
  <2> QED
    BY <2>2, <2>3
<1>5. \A a : Underway(a)' => Underway(a) /\ a # u /\ a # w
  BY <1>1, <1>2 DEF Underway
<1>6. \A i \in DOMAIN recordings : recordings[i].key # u.id
  BY <1>3 DEF UploadsAreTold
<1>7. CASE recordings' = recordings
  <2>1. RecordingTypes'
    BY <1>2, <1>3, <1>7 DEF RecordingTypes
  <2>2. UploadsAreTold'
    BY <1>1, <1>2, <1>3, <1>7 DEF UploadsAreTold
  <2>3. AnswersAreKept'
    <3>1. \A a \in uploads' : /\ a.at = "answered" => KeepsTake(a.take)
                              /\ a.at = "put" => a.id \in objects'
      BY <1>1, <1>2, <1>3, <1>7 DEF AnswersAreKept
    <3>2. \A i \in DOMAIN recordings : recordings[i].key \in objects' \union unsure'
      BY <1>3, <1>6 DEF AnswersAreKept
    <3> QED
      BY <1>3, <1>7, <3>1, <3>2 DEF AnswersAreKept, KeepsTake
  <2>4. DoublesAreSeen'
    <3>1. \A a : R!Again(a)' <=> R!Again(a)
      BY <1>7 DEF R!Again
    <3> QED
      BY <1>3, <1>5, <1>7, <3>1 DEF DoublesAreSeen
  <2> QED
    BY <2>1, <2>2, <2>3, <2>4
<1>8. CASE R!Kept(u) /\ Len(recordings) < MaxAttempts /\ u.id \in objects' \union unsure'
  <2>0. PICK r \in Attempts : r.take = u.take /\ r.key = u.id /\ recordings' = Append(recordings, r)
    <3>1. PICK r : r = [take |-> u.take, key |-> u.id]
      OBVIOUS
    <3>2. r \in Attempts /\ r.take = u.take /\ r.key = u.id
      BY <1>2, <3>1 DEF Attempts
    <3> QED
      BY <1>8, <3>1, <3>2 DEF R!Kept
  <2>1. /\ recordings' \in Seq(Attempts) /\ Len(recordings') = Len(recordings) + 1
        /\ \A i \in DOMAIN recordings : i \in DOMAIN recordings' /\ recordings'[i] = recordings[i]
        /\ Len(recordings') \in DOMAIN recordings' /\ recordings'[Len(recordings')] = r
        /\ \A i \in DOMAIN recordings' : i \in DOMAIN recordings \/ i = Len(recordings')
    BY <2>0, RecordingAppended DEF RecordingTypes
  <2>2. RecordingTypes'
    <3>1. Len(recordings') <= MaxAttempts
      <4>1. MaxAttempts \in Nat
        BY PagesAssumption
      <4>2. Len(recordings) \in Nat
        BY LenProperties DEF RecordingTypes
      <4> QED
        BY <1>8, <2>1, <4>1, <4>2
    <3> QED
      BY <1>2, <1>3, <2>1, <3>1 DEF RecordingTypes
  <2>3. UploadsAreTold'
    <3>1. \A a \in uploads' : a.id <= sentUp
      BY <1>2 DEF UploadsAreTold
    <3>2. \A i \in DOMAIN recordings' : recordings'[i].key <= sentUp
      BY <2>0, <2>1 DEF UploadsAreTold
    <3>3. \A a \in uploads' : a.at \in {"sent", "checked", "put"} =>
             \A i \in DOMAIN recordings' : recordings'[i].key # a.id
      BY <1>1, <1>2, <2>0, <2>1 DEF UploadsAreTold
    <3> QED
      BY <1>2, <1>3, <3>1, <3>2, <3>3 DEF UploadsAreTold
  <2>4. AnswersAreKept'
    <3>1. \A n : KeepsTake(n) => KeepsTake(n)'
      BY <2>1 DEF KeepsTake
    <3>2. KeepsTake(u.take)'
      BY <2>0, <2>1 DEF KeepsTake
    <3>3. \A a \in uploads' : /\ a.at = "answered" => KeepsTake(a.take)'
                              /\ a.at = "put" => a.id \in objects'
      BY <1>1, <1>2, <1>3, <3>1, <3>2 DEF AnswersAreKept
    <3>4. \A i \in DOMAIN recordings' : recordings'[i].key \in objects' \union unsure'
      BY <1>3, <1>6, <1>8, <2>0, <2>1 DEF AnswersAreKept
    <3>5. told' # 0 => KeepsTake(told)'
      BY <1>3, <3>1 DEF AnswersAreKept
    <3> QED
      BY <3>3, <3>4, <3>5 DEF AnswersAreKept, KeepsTake
  <2>5. DoublesAreSeen'
    <3>1. \A a : Underway(a)' /\ R!Again(a)' => a.take = u.take
      BY <2>0, <2>1 DEF R!Again
    <3>2. Underway(u)
      BY <1>3 DEF Underway
    <3>3. \A a : Underway(a)' /\ R!Again(a)' => a.take \in doubled
      BY <1>5, <3>1, <3>2 DEF DoublesAreSeen
    <3>4. ASSUME NEW i \in DOMAIN recordings', i > 1, recordings'[i - 1].take = recordings'[i].take
          PROVE  recordings'[i].take \in doubled
      <4>1. CASE i \in DOMAIN recordings
        <5>1. i - 1 \in DOMAIN recordings
          BY <3>4, <4>1 DEF RecordingTypes
        <5> QED
          BY <2>1, <3>4, <4>1, <5>1 DEF DoublesAreSeen
      <4>2. CASE i = Len(recordings')
        <5>1. i - 1 = Len(recordings) /\ i - 1 \in DOMAIN recordings /\ recordings # <<>>
          BY <2>1, <3>4, <4>2 DEF RecordingTypes
        <5>2. R!Again(u)
          BY <2>0, <2>1, <3>4, <4>2, <5>1 DEF R!Again
        <5> QED
          BY <2>0, <2>1, <3>2, <4>2, <5>2 DEF DoublesAreSeen
      <4> QED
        BY <2>1, <4>1, <4>2
    <3> QED
      BY <1>3, <1>5, <3>3, <3>4 DEF DoublesAreSeen
  <2> QED
    BY <2>2, <2>3, <2>4, <2>5
<1> QED
  BY <1>4, <1>7, <1>8

(* What the learner was told is saved is an attempt the server kept, of no *)
(* more than the task allows; the object of an attempt is in the store     *)
(* unless its commit was answered as a failure; and the same recording is  *)
(* not kept twice in a row unless two of its uploads overlapped            *)
(* (UploadRecording in assessment/service.go).                             *)
THEOREM RecordingsKept == Spec => []RecordingsAreKept
<1>1. RecordingInv /\ [Next]_pageVars => RecordingInv'
  <2> SUFFICES ASSUME RecordingInv, [Next]_pageVars PROVE RecordingInv'
    OBVIOUS
  <2>1. CASE UNCHANGED recorders
    BY <2>1 DEF recorders, RecordingInv, RecordingTypes, UploadsAreTold, AnswersAreKept, KeepsTake,
       DoublesAreSeen, Underway, R!Again
  <2>2. CASE R!RecordingsNext
    <3>1. CASE R!Save
      BY <3>1, SaveStep
    <3>2. CASE \E u \in uploads : R!Check(u)
      BY <3>2, CheckStep
    <3>3. CASE \E u \in uploads : R!Put(u)
      BY <3>3, PutStep
    <3>4. CASE \E u \in uploads : R!Insert(u) \/ R!InsertFails(u)
      BY <3>4, EndStep
    <3>5. CASE \/ R!AudioRecorder \/ R!RecordAgain \/ R!KeepSaved \/ R!Move \/ R!Reread \/ R!Finish
               \/ R!Expire \/ \E u \in uploads : R!Hear(u) \/ R!Cut(u)
      BY <3>5, PageLeavesUploads
    <3> QED
      BY <2>2, <3>1, <3>2, <3>3, <3>4, <3>5 DEF R!RecordingsNext
  <2> QED
    BY <2>1, <2>2, PageSteps
<1>2. RecordingInv => RecordingsAreKept
  BY DEF RecordingInv, RecordingTypes, AnswersAreKept, KeepsTake, DoublesAreSeen, RecordingsAreKept,
     R!RecordingsAreKept
<1> QED
  BY <1>1, <1>2, RecordingInit, PTL DEF Spec

-----------------------------------------------------------------------------
(* The mock exams.                                                         *)

Sections == [Papers -> Nat]

Orders == [id : Nat, what : {"start", "complete"}, page : BOOLEAN, of : Nat, read : Sections,
           at : {"sent", "charged", "none", "answered", "failed", "read"}]

Sat == [open : BOOLEAN, sections : Sections, band : Sections]

MockTypes ==
    /\ sittings \in Seq(Sat) /\ listed \in Seq(Sat)
    /\ orders \subseteq Orders /\ IsFiniteSet(orders)
    /\ {paid, ordered, hands} \subseteq Nat

OneOpen == \A i, j \in P!OpenOnes : i = j

\* Charged, and no sitting inserted for it yet.
Unused == {o \in orders : o.at \in {"charged", "none"}}

\* A sitting was paid for, and so is each that may still be inserted.
PaidFor == Len(sittings) + Cardinality(Unused) <= paid

\* What was read to close a sitting is what was handed in to it.
IsWhole(i, what) == what = sittings[i].sections /\ what # P!NoSection

ReadsAreWhole ==
    \A o \in orders : o.at = "read" =>
        o.of \in DOMAIN sittings /\ (o.of \notin moved => IsWhole(o.of, o.read))

ClosedAreWhole ==
    \A i \in DOMAIN sittings : ~sittings[i].open /\ i \notin moved => IsWhole(i, sittings[i].band)

\* The page may be behind, but not with a sitting that is closed.
ListedAreFinal ==
    \A i \in DOMAIN listed :
        i \in DOMAIN sittings /\ (~listed[i].open /\ i \notin moved => listed[i] = sittings[i])

MockInv == MockTypes /\ OneOpen /\ PaidFor /\ ReadsAreWhole /\ ClosedAreWhole /\ ListedAreFinal

LEMMA MockInit == Init => MockInv
<1> SUFFICES ASSUME P!SittingsInit PROVE MockInv
  BY DEF Init
<1>1. sittings = <<>> /\ listed = <<>> /\ orders = {} /\ paid = 0 /\ ordered = 0 /\ hands = 0
  BY DEF P!SittingsInit
<1>2. Unused = {}
  BY <1>1 DEF Unused
<1>3. MockTypes
  BY <1>1, FS_EmptySet DEF MockTypes
<1>4. PaidFor
  BY <1>1, <1>2, FS_EmptySet DEF PaidFor
<1>5. OneOpen /\ ReadsAreWhole /\ ClosedAreWhole /\ ListedAreFinal
  BY <1>1 DEF OneOpen, P!OpenOnes, ReadsAreWhole, ClosedAreWhole, ListedAreFinal
<1> QED
  BY <1>3, <1>4, <1>5 DEF MockInv

LEMMA UnusedFinite == MockInv => IsFiniteSet(Unused) /\ Cardinality(Unused) \in Nat
  BY FS_Subset, FS_CardinalityType DEF MockInv, MockTypes, Unused

\* Steps of the requests and of the page that leave the sittings alone.
LEMMA OrdersStep ==
    ASSUME MockInv, UNCHANGED <<sittings, moved>>, listed' = listed \/ listed' = sittings,
           orders' \subseteq Orders, IsFiniteSet(orders'), {paid', ordered', hands'} \subseteq Nat,
           \A o \in orders' : o.at = "read" =>
               o \in orders \/ (o.of \in DOMAIN sittings /\ IsWhole(o.of, o.read)),
           Len(sittings) + Cardinality(Unused') <= paid'
    PROVE  MockInv'
<1> USE DEF MockInv
<1>1. MockTypes'
  BY DEF MockTypes
<1>2. OneOpen' /\ PaidFor'
  BY DEF OneOpen, P!OpenOnes, PaidFor
<1>3. ReadsAreWhole' /\ ClosedAreWhole'
  BY DEF ReadsAreWhole, ClosedAreWhole, IsWhole, P!NoSection
<1>4. ListedAreFinal'
  BY DEF ListedAreFinal
<1> QED
  BY <1>1, <1>2, <1>3, <1>4

\* A request in place of another is charged once at most.
LEMMA OneForOne ==
    ASSUME MockInv, NEW o \in orders, NEW w \in Orders, P!Becomes(o, w)
    PROVE  /\ orders' \subseteq Orders /\ IsFiniteSet(orders')
           /\ Cardinality(Unused') \in Nat
           /\ Cardinality(Unused') <= Cardinality(Unused) + 1
           /\ o \in Unused => Cardinality(Unused') <= Cardinality(Unused)
           /\ w.at \notin {"charged", "none"} => Cardinality(Unused') <= Cardinality(Unused)
           /\ w.at \notin {"charged", "none"} /\ o \in Unused => Cardinality(Unused') + 1 <= Cardinality(Unused)
<1>1. orders' = (orders \ {o}) \union {w}
  BY DEF P!Becomes
<1>2. orders' \subseteq Orders /\ IsFiniteSet(orders')
  BY <1>1, FS_RemoveElement, FS_AddElement DEF MockInv, MockTypes
<1>3. PICK U : U = Unused \ {o}
  OBVIOUS
<1>4. /\ IsFiniteSet(Unused) /\ IsFiniteSet(U)
      /\ Cardinality(U) = IF o \in Unused THEN Cardinality(Unused) - 1 ELSE Cardinality(Unused)
      /\ Cardinality(Unused) \in Nat /\ Cardinality(U) \in Nat
  BY <1>3, UnusedFinite, FS_RemoveElement, FS_CardinalityType
<1>5. w.at \in {"charged", "none"} => Unused' = U \union {w}
  BY <1>1, <1>3 DEF Unused
<1>6. w.at \notin {"charged", "none"} => Unused' = U
  BY <1>1, <1>3 DEF Unused
<1>7. /\ IsFiniteSet(U \union {w}) /\ Cardinality(U \union {w}) \in Nat
      /\ Cardinality(U \union {w}) <= Cardinality(U) + 1
  <2>1. /\ IsFiniteSet(U \union {w})
        /\ Cardinality(U \union {w}) = IF w \in U THEN Cardinality(U) ELSE Cardinality(U) + 1
    BY <1>4, FS_AddElement
  <2> QED
    BY <1>4, <2>1
<1>10. /\ Cardinality(U) <= Cardinality(Unused)
       /\ o \in Unused => Cardinality(U) + 1 = Cardinality(Unused)
  BY <1>4
<1>8. CASE w.at \in {"charged", "none"}
  <2>1. Unused' = U \union {w}
    BY <1>5, <1>8
  <2>2. /\ Cardinality(Unused') \in Nat /\ Cardinality(Unused') <= Cardinality(Unused) + 1
        /\ o \in Unused => Cardinality(Unused') <= Cardinality(Unused)
    BY <1>4, <1>7, <1>10, <2>1
  <2> QED
    BY <1>2, <1>8, <2>2
<1>9. CASE w.at \notin {"charged", "none"}
  BY <1>2, <1>4, <1>6, <1>9, <1>10
<1> QED
  BY <1>8, <1>9

LEMMA RequestSteps ==
    ASSUME MockInv, NEW o \in orders, P!ConsumeUsage(o) \/ P!FindOpen(o) \/ P!Break(o) \/ P!Settled(o)
    PROVE  MockInv'
<1> USE DEF MockInv, MockTypes, P!Page
<1>1. o \in Orders /\ Cardinality(Unused) \in Nat /\ Len(sittings) \in Nat /\ paid \in Nat
  BY UnusedFinite
<1>2. Len(sittings) + Cardinality(Unused) <= paid
  BY DEF PaidFor
<1>3. ASSUME NEW w \in Orders, w.at # "read", P!Becomes(o, w)
      PROVE  \A x \in orders' : x.at = "read" => x \in orders
  BY <1>3 DEF P!Becomes
<1>4. ASSUME orders' = orders \ {o}
      PROVE  /\ orders' \subseteq Orders /\ IsFiniteSet(orders')
             /\ Cardinality(Unused') <= Cardinality(Unused) /\ Cardinality(Unused') \in Nat
  <2>1. Unused' \subseteq Unused
    BY <1>4 DEF Unused
  <2> QED
    BY <1>4, <2>1, UnusedFinite, FS_Subset, FS_CardinalityType, FS_RemoveElement
<1>5. CASE P!ConsumeUsage(o)
  <2>1. o.at = "sent" /\ UNCHANGED <<sittings, moved, ordered, hands, listed>>
    BY <1>5 DEF P!ConsumeUsage
  <2>2. CASE paid < Quota
    <3>1. PICK w : w = [o EXCEPT !.at = "charged"]
      OBVIOUS
    <3>2. w \in Orders /\ w.at = "charged"
      BY <1>1, <3>1 DEF Orders
    <3>3. paid' = paid + 1 /\ P!Becomes(o, w)
      BY <1>5, <2>2, <3>1 DEF P!ConsumeUsage
    <3>4. Cardinality(Unused') \in Nat /\ Cardinality(Unused') <= Cardinality(Unused) + 1
      BY <3>2, <3>3, OneForOne
    <3>5. Len(sittings) + Cardinality(Unused') <= paid'
      BY <1>1, <1>2, <3>3, <3>4
    <3> QED
      BY <1>3, <2>1, <3>2, <3>3, <3>5, OneForOne, OrdersStep
  <2>3. CASE ~(paid < Quota)
    <3>1. PICK w : w = [o EXCEPT !.at = "failed"]
      OBVIOUS
    <3>2. w \in Orders /\ w.at = "failed"
      BY <1>1, <3>1 DEF Orders
    <3>3. paid' = paid /\ P!Becomes(o, w)
      BY <1>5, <2>3, <3>1 DEF P!ConsumeUsage
    <3>4. Cardinality(Unused') \in Nat /\ Cardinality(Unused') <= Cardinality(Unused)
      BY <3>2, <3>3, OneForOne
    <3>5. Len(sittings) + Cardinality(Unused') <= paid'
      BY <1>1, <1>2, <3>3, <3>4
    <3> QED
      BY <1>3, <2>1, <3>2, <3>3, <3>5, OneForOne, OrdersStep
  <2> QED
    BY <2>2, <2>3
<1>6. CASE P!FindOpen(o)
  <2>1. o.at = "charged" /\ o \in Unused /\ UNCHANGED <<sittings, moved, ordered, hands, listed, paid>>
    BY <1>6 DEF P!FindOpen, Unused
  <2>2. PICK at \in {"none", "answered"} : P!Becomes(o, [o EXCEPT !.at = at])
    BY <1>6 DEF P!FindOpen
  <2>3. PICK w : w = [o EXCEPT !.at = at]
    OBVIOUS
  <2>4. w \in Orders /\ w.at = at /\ P!Becomes(o, w)
    BY <1>1, <2>2, <2>3 DEF Orders
  <2>5. Cardinality(Unused') \in Nat /\ Cardinality(Unused') <= Cardinality(Unused)
    BY <2>1, <2>4, OneForOne
  <2>6. Len(sittings) + Cardinality(Unused') <= paid'
    BY <1>1, <1>2, <2>1, <2>5
  <2> QED
    BY <1>3, <2>1, <2>4, <2>6, OneForOne, OrdersStep
<1>7. CASE P!Break(o)
  <2>1. UNCHANGED <<sittings, moved, ordered, hands, listed, paid>>
    BY <1>7 DEF P!Break
  <2>2. CASE o.what = "start"
    <3>1. PICK w : w = [o EXCEPT !.at = "failed"]
      OBVIOUS
    <3>2. w \in Orders /\ w.at = "failed" /\ P!Becomes(o, w)
      BY <1>1, <1>7, <2>2, <3>1 DEF Orders, P!Break
    <3>3. Cardinality(Unused') \in Nat /\ Cardinality(Unused') <= Cardinality(Unused)
      BY <3>2, OneForOne
    <3>4. Len(sittings) + Cardinality(Unused') <= paid'
      BY <1>1, <1>2, <2>1, <3>3
    <3> QED
      BY <1>3, <2>1, <3>2, <3>4, OneForOne, OrdersStep
  <2>3. CASE o.what # "start"
    <3>1. orders' = orders \ {o}
      BY <1>7, <2>3 DEF P!Break
    <3>2. Len(sittings) + Cardinality(Unused') <= paid'
      BY <1>1, <1>2, <1>4, <2>1, <3>1
    <3> QED
      BY <1>4, <2>1, <3>1, <3>2, OrdersStep
  <2> QED
    BY <2>2, <2>3
<1>8. CASE P!Settled(o)
  <2>1. /\ UNCHANGED <<sittings, moved, ordered, hands, paid>> /\ orders' = orders \ {o}
        /\ listed' = listed \/ listed' = sittings
    BY <1>8 DEF P!Settled
  <2>2. Len(sittings) + Cardinality(Unused') <= paid'
    BY <1>1, <1>2, <1>4, <2>1
  <2> QED
    BY <1>4, <2>1, <2>2, OrdersStep
<1> QED
  BY <1>5, <1>6, <1>7, <1>8

\* A request begins, or the page reads its list again.
LEMMA AskingSteps ==
    ASSUME MockInv,
           (\E b \in BOOLEAN : P!startAttempt(b)) \/ (\E i \in DOMAIN sittings : P!completeAttempt(i)) \/ P!attempts
    PROVE  MockInv'
<1> USE DEF MockInv, MockTypes, P!Page
<1>1. Cardinality(Unused) \in Nat /\ Len(sittings) \in Nat /\ paid \in Nat /\ ordered \in Nat /\ hands \in Nat
  BY UnusedFinite
<1>2. Len(sittings) + Cardinality(Unused) <= paid
  BY DEF PaidFor
<1>3. ASSUME NEW w \in Orders, orders' = orders \union {w}, w.at \notin {"charged", "none"}
      PROVE  orders' \subseteq Orders /\ IsFiniteSet(orders') /\ Unused' = Unused
  BY <1>3, FS_AddElement DEF Unused
<1>4. CASE \E b \in BOOLEAN : P!startAttempt(b)
  <2>1. PICK b \in BOOLEAN : P!startAttempt(b)
    BY <1>4
  <2>2. PICK n \in Nat : n = ordered + 1
    BY <1>1
  <2>3. PICK w : w = [id |-> n, what |-> "start", at |-> "sent", page |-> b, of |-> 0, read |-> P!NoSection]
    OBVIOUS
  <2>4. w \in Orders /\ w.at = "sent"
    BY <2>3 DEF Orders, Sections, P!NoSection
  <2>5. ordered' = n /\ orders' = orders \union {w} /\ UNCHANGED <<sittings, paid, moved, hands, listed>>
    BY <2>1, <2>2, <2>3 DEF P!startAttempt
  <2>6. Unused' = Unused
    BY <1>3, <2>4, <2>5
  <2>7. Len(sittings) + Cardinality(Unused') <= paid'
    BY <1>2, <2>5, <2>6
  <2>8. \A o \in orders' : o.at = "read" => o \in orders
    BY <2>4, <2>5
  <2> QED
    BY <1>1, <1>3, <2>4, <2>5, <2>7, <2>8, OrdersStep
<1>5. CASE \E i \in DOMAIN sittings : P!completeAttempt(i)
  <2>1. PICK i \in DOMAIN sittings : P!completeAttempt(i)
    BY <1>5
  <2>2. PICK n \in Nat : n = ordered + 1
    BY <1>1
  <2>3. sittings[i].sections \in Sections /\ i \in Nat
    <3>1. sittings[i] \in Sat
      BY ElementOfSeq
    <3> QED
      BY <3>1 DEF Sat
  <2>4. PICK w : w = [id |-> n, what |-> "complete", at |-> "read", page |-> FALSE, of |-> i,
                      read |-> sittings[i].sections]
    OBVIOUS
  <2>5. w \in Orders /\ w.at = "read" /\ w.of = i /\ IsWhole(i, w.read)
    BY <2>1, <2>3, <2>4 DEF Orders, IsWhole, P!completeAttempt
  <2>6. ordered' = n /\ orders' = orders \union {w} /\ UNCHANGED <<sittings, paid, moved, hands, listed>>
    BY <2>1, <2>2, <2>4 DEF P!completeAttempt
  <2>7. Unused' = Unused
    BY <1>3, <2>5, <2>6
  <2>8. Len(sittings) + Cardinality(Unused') <= paid'
    BY <1>2, <2>6, <2>7
  <2>9. \A o \in orders' : o.at = "read" => o \in orders \/ (o.of \in DOMAIN sittings /\ IsWhole(o.of, o.read))
    BY <2>5, <2>6
  <2> QED
    BY <1>1, <1>3, <2>5, <2>6, <2>8, <2>9, OrdersStep
<1>6. CASE P!attempts
  <2>1. listed' = sittings /\ UNCHANGED <<sittings, orders, paid, moved, ordered, hands>>
    BY <1>6 DEF P!attempts
  <2>2. Unused' = Unused
    BY <2>1 DEF Unused
  <2> QED
    BY <1>1, <1>2, <2>1, <2>2, OrdersStep
<1> QED
  BY <1>4, <1>5, <1>6

\* A sitting is inserted only while none is open; the charge for it is used.
LEMMA InsertStep ==
    ASSUME MockInv, NEW o \in orders, P!Insert(o)
    PROVE  MockInv'
<1> USE DEF MockInv, P!Page
<1>1. o \in Orders /\ sittings \in Seq(Sat) /\ listed \in Seq(Sat) /\ Len(sittings) \in Nat /\ paid \in Nat
  BY LenProperties DEF MockTypes
<1>2. PICK at \in {"answered", "failed"} :
         /\ P!Becomes(o, [o EXCEPT !.at = at])
         /\ at = "failed" => sittings' = sittings
         /\ at = "answered" => /\ P!OpenOnes = {}
                               /\ sittings' = Append(sittings, [open |-> TRUE, sections |-> P!NoSection,
                                                                band |-> P!NoSection])
  BY DEF P!Insert
<1>3. PICK w : w = [o EXCEPT !.at = at]
  OBVIOUS
<1>4. w \in Orders /\ w.at = at /\ P!Becomes(o, w)
  BY <1>1, <1>2, <1>3 DEF Orders
<1>5. o \in Unused /\ UNCHANGED <<paid, moved, ordered, hands, listed>>
  BY DEF P!Insert, Unused
<1>6. /\ orders' \subseteq Orders /\ IsFiniteSet(orders')
      /\ Cardinality(Unused') \in Nat /\ Cardinality(Unused') + 1 <= Cardinality(Unused)
  BY <1>4, <1>5, OneForOne
<1>7. \A x \in orders' : x.at = "read" => x \in orders
  BY <1>4 DEF P!Becomes
<1>8. Cardinality(Unused) \in Nat
  BY UnusedFinite
<1>9. CASE at = "failed"
  <2>1. Len(sittings) + Cardinality(Unused') <= paid'
    BY <1>1, <1>5, <1>6, <1>8 DEF PaidFor
  <2>2. {paid', ordered', hands'} \subseteq Nat
    BY <1>5 DEF MockTypes
  <2> QED
    BY <1>2, <1>5, <1>6, <1>7, <1>9, <2>1, <2>2, OrdersStep
<1>10. CASE at = "answered"
  <2>1. PICK s : s = [open |-> TRUE, sections |-> P!NoSection, band |-> P!NoSection]
    OBVIOUS
  <2>2. s \in Sat /\ s.open
    BY <2>1 DEF Sat, Sections, P!NoSection
  <2>3. sittings' = Append(sittings, s) /\ P!OpenOnes = {}
    BY <1>2, <1>10, <2>1
  <2>4. /\ sittings' \in Seq(Sat) /\ Len(sittings') = Len(sittings) + 1
        /\ \A i \in DOMAIN sittings : i \in DOMAIN sittings' /\ sittings'[i] = sittings[i]
        /\ sittings'[Len(sittings')] = s
        /\ \A i \in DOMAIN sittings' : i \in DOMAIN sittings \/ i = Len(sittings')
    BY <1>1, <2>2, <2>3, AppendProperties
  <2>5. MockTypes'
    BY <1>5, <1>6, <2>4 DEF MockTypes
  <2>6. OneOpen'
    BY <2>3, <2>4 DEF OneOpen, P!OpenOnes
  <2>7. PaidFor'
    BY <1>1, <1>5, <1>6, <1>8, <2>4 DEF PaidFor
  <2>8. ReadsAreWhole'
    BY <1>5, <1>7, <2>4 DEF ReadsAreWhole, IsWhole, P!NoSection
  <2>9. ClosedAreWhole'
    BY <1>5, <2>2, <2>4 DEF ClosedAreWhole, IsWhole, P!NoSection
  <2>10. ListedAreFinal'
    BY <1>5, <2>4 DEF ListedAreFinal
  <2> QED
    BY <2>5, <2>6, <2>7, <2>8, <2>9, <2>10
<1> QED
  BY <1>9, <1>10

\* A section goes to a sitting that is open, and one that is being closed is moved.
LEMMA SubmitStep ==
    ASSUME MockInv, NEW i \in DOMAIN sittings, NEW p \in Papers, P!submitSection(i, p)
    PROVE  MockInv'
<1> USE DEF MockInv, P!Page
<1>1. sittings \in Seq(Sat) /\ sittings[i] \in Sat /\ sittings[i].open /\ hands \in Nat
  BY ElementOfSeq DEF MockTypes, P!submitSection, P!OpenOnes
<1>2. PICK n \in Nat : n = hands + 1
  BY <1>1
<1>3. PICK new : new = [sittings[i].sections EXCEPT ![p] = n]
  OBVIOUS
<1>4. PICK s : s = [sittings[i] EXCEPT !.sections = new]
  OBVIOUS
<1>5. new \in Sections /\ s \in Sat /\ s.open
  BY <1>1, <1>3, <1>4 DEF Sat, Sections
<1>6. sittings' = [sittings EXCEPT ![i] = s]
  BY <1>2, <1>3, <1>4 DEF P!submitSection, P!Record
<1>7. /\ sittings' \in Seq(Sat) /\ Len(sittings') = Len(sittings) /\ DOMAIN sittings' = DOMAIN sittings
      /\ sittings'[i] = s
      /\ \A j \in DOMAIN sittings : j # i => sittings'[j] = sittings[j]
  BY <1>1, <1>5, <1>6, ExceptSeq
<1>8. /\ UNCHANGED <<orders, paid, ordered, listed>> /\ hands' = n
      /\ moved \subseteq moved'
      /\ \A o \in orders : o.at = "read" /\ o.of = i => i \in moved'
  BY <1>2 DEF P!submitSection, P!Record
<1>9. MockTypes'
  BY <1>7, <1>8 DEF MockTypes
<1>10. OneOpen'
  BY <1>1, <1>7 DEF OneOpen, P!OpenOnes
<1>11. PaidFor'
  BY <1>7, <1>8 DEF PaidFor, Unused
<1>12. ReadsAreWhole'
  BY <1>7, <1>8 DEF ReadsAreWhole, IsWhole, P!NoSection
<1>13. ClosedAreWhole'
  BY <1>5, <1>7, <1>8 DEF ClosedAreWhole, IsWhole, P!NoSection
<1>14. ListedAreFinal'
  BY <1>1, <1>7, <1>8 DEF ListedAreFinal
<1> QED
  BY <1>9, <1>10, <1>11, <1>12, <1>13, <1>14

\* Closing one that was closed before it writes what is there already.
LEMMA CloseStep ==
    ASSUME MockInv, NEW o \in orders, P!Close(o)
    PROVE  MockInv'
<1> USE DEF MockInv, P!Page
<1>1. /\ o \in Orders /\ o.at = "read" /\ orders' = orders \ {o}
      /\ UNCHANGED <<paid, moved, ordered, hands, listed>>
  BY DEF P!Close, MockTypes
<1>2. PICK i \in DOMAIN sittings : i = o.of /\ (i \notin moved => IsWhole(i, o.read))
  BY <1>1 DEF ReadsAreWhole
<1>3. sittings \in Seq(Sat) /\ sittings[i] \in Sat /\ o.read \in Sections
  BY <1>1, ElementOfSeq DEF MockTypes, Orders
<1>4. PICK s : s = [sittings[i] EXCEPT !.open = FALSE, !.band = o.read]
  OBVIOUS
<1>5. s \in Sat /\ ~s.open /\ s.sections = sittings[i].sections /\ s.band = o.read
  BY <1>3, <1>4 DEF Sat
<1>6. sittings' = [sittings EXCEPT ![i] = s]
  BY <1>2, <1>4 DEF P!Close
<1>7. /\ sittings' \in Seq(Sat) /\ Len(sittings') = Len(sittings) /\ DOMAIN sittings' = DOMAIN sittings
      /\ sittings'[i] = s
      /\ \A j \in DOMAIN sittings : j # i => sittings'[j] = sittings[j]
  BY <1>3, <1>5, <1>6, ExceptSeq
<1>8. MockTypes'
  BY <1>1, <1>7, FS_RemoveElement DEF MockTypes
<1>9. OneOpen'
  BY <1>5, <1>7 DEF OneOpen, P!OpenOnes
<1>10. PaidFor'
  <2>1. Unused' = Unused
    BY <1>1 DEF Unused
  <2> QED
    BY <1>1, <1>7, <2>1 DEF PaidFor
<1>11. ReadsAreWhole'
  BY <1>1, <1>5, <1>7 DEF ReadsAreWhole, IsWhole, P!NoSection
<1>12. ClosedAreWhole'
  BY <1>1, <1>2, <1>5, <1>7 DEF ClosedAreWhole, IsWhole, P!NoSection
<1>13. ListedAreFinal'
  <2>1. ~sittings[i].open /\ i \notin moved => s = sittings[i]
    <3>1. SUFFICES ASSUME ~sittings[i].open, i \notin moved PROVE s = sittings[i]
      OBVIOUS
    <3>2. sittings[i].band = o.read
      BY <1>2, <3>1 DEF ClosedAreWhole, IsWhole
    <3>3. sittings[i].open = FALSE
      BY <1>3, <3>1 DEF Sat
    <3> QED
      BY <1>3, <1>4, <3>2, <3>3 DEF Sat
  <2>2. ASSUME NEW j \in DOMAIN listed, ~listed[j].open, j \notin moved
        PROVE  listed[j] = sittings'[j]
    <3>1. j \in DOMAIN sittings /\ listed[j] = sittings[j]
      BY <2>2 DEF ListedAreFinal
    <3> QED
      BY <1>7, <2>1, <2>2, <3>1
  <2> QED
    BY <1>1, <1>7, <2>2 DEF ListedAreFinal
<1> QED
  BY <1>8, <1>9, <1>10, <1>11, <1>12, <1>13

\* The size of a set is the same in the module of the mock exams.
LEMMA SameSize == \A U : P!Cardinality(U) = Cardinality(U)
  BY DEF P!Cardinality, Cardinality

(* A learner has one open sitting of the mock exam, each sitting was paid  *)
(* for, and the band of one that is closed is that of all that was handed  *)
(* in to it, on the page too, unless a section was handed in between the   *)
(* read and the write that closed it (startAttempt, submitSection and      *)
(* completeAttempt in ielts/module.go).                                    *)
THEOREM BandsStay == Spec => []BandsAreFinal
<1>1. MockInv /\ [Next]_pageVars => MockInv'
  <2> SUFFICES ASSUME MockInv, [Next]_pageVars PROVE MockInv'
    OBVIOUS
  <2>1. CASE UNCHANGED mocks
    BY <2>1 DEF mocks, MockInv, MockTypes, OneOpen, P!OpenOnes, PaidFor, Unused, ReadsAreWhole, IsWhole,
       P!NoSection, ClosedAreWhole, ListedAreFinal
  <2>2. CASE P!SittingsNext
    <3>1. CASE \E o \in orders : P!Insert(o)
      BY <3>1, InsertStep
    <3>2. CASE \E o \in orders : P!Close(o)
      BY <3>2, CloseStep
    <3>3. CASE \E o \in orders : P!ConsumeUsage(o) \/ P!FindOpen(o) \/ P!Break(o) \/ P!Settled(o)
      BY <3>3, RequestSteps
    <3>4. CASE \E i \in DOMAIN sittings : \E p \in Papers : P!submitSection(i, p)
      BY <3>4, SubmitStep
    <3>5. CASE \/ \E b \in BOOLEAN : P!startAttempt(b)
               \/ \E i \in DOMAIN sittings : P!completeAttempt(i)
               \/ P!attempts
      BY <3>5, AskingSteps
    <3> QED
      BY <2>2, <3>1, <3>2, <3>3, <3>4, <3>5 DEF P!SittingsNext
  <2> QED
    BY <2>1, <2>2, PageSteps
<1>2. MockInv => BandsAreFinal
  <2> SUFFICES ASSUME MockInv PROVE P!BandsAreFinal
    BY DEF BandsAreFinal
  <2> USE DEF MockInv
  <2>1. Cardinality(P!OpenOnes) <= 1
    <3>1. CASE P!OpenOnes = {}
      BY <3>1, FS_EmptySet
    <3>2. CASE P!OpenOnes # {}
      <4>1. PICK i : P!OpenOnes = {i}
        BY <3>2 DEF OneOpen
      <4> QED
        BY <4>1, FS_Singleton
    <3> QED
      BY <3>1, <3>2
  <2>2. Len(sittings) <= paid
    BY UnusedFinite, LenProperties DEF PaidFor, MockTypes
  <2>3. \A i \in DOMAIN sittings \ (P!OpenOnes \union moved) :
           sittings[i].band = sittings[i].sections /\ sittings[i].band # P!NoSection
    BY DEF ClosedAreWhole, IsWhole, P!OpenOnes
  <2>4. \A i \in P!Latest \ moved : listed[i] = sittings[i]
    BY DEF ListedAreFinal, P!Latest
  <2> QED
    BY <2>1, <2>2, <2>3, <2>4, SameSize DEF P!BandsAreFinal
<1> QED
  BY <1>1, <1>2, MockInit, PTL DEF Spec

-----------------------------------------------------------------------------
(* A piece of practice, and the timed exams.                               *)

Stages == {"start", "started", "submit", "judged", "done", "over"}

Submits == [task : Tasks, work : Nat, row : Nat, heard : BOOLEAN, at : Stages]

Marked == [task : Tasks, work : Nat, status : {"in_progress", "analyzing", "completed", "failed"}]

TaskTypes ==
    /\ submits \in Seq(Submits) /\ marked \in Seq(Marked)
    /\ chosen \in Tasks /\ {work, works} \subseteq Nat

Awaited(i) == submits[i].heard /\ submits[i].at # "over"

OneAwaited == \A i, j \in DOMAIN submits : Awaited(i) /\ Awaited(j) => i = j

\* What was sent has a row of its own, for its task, once the server began it.
RowsAreOwn ==
    /\ \A i \in DOMAIN submits : submits[i].at \in {"started", "judged", "done"} =>
           submits[i].row \in DOMAIN marked /\ marked[submits[i].row].task = submits[i].task
    /\ \A i \in DOMAIN submits : submits[i].at \in {"start", "submit"} => submits[i].row = 0
    /\ \A i \in DOMAIN submits : submits[i].row <= Len(marked)
    /\ \A i, j \in DOMAIN submits : submits[i].row # 0 /\ submits[i].row = submits[j].row => i = j

Completed(s) == [task |-> s.task, work |-> s.work, status |-> "completed"]

DoneIsMarked ==
    \A i \in DOMAIN submits : submits[i].at = "done" => marked[submits[i].row] = Completed(submits[i])

AwaitedIsChosen == ~switched => \A i \in DOMAIN submits : Awaited(i) => submits[i].task = chosen

\* While feedback is shown nothing is waited for, and its row is nobody's any more.
ShownIsOver ==
    feedback # Nothing =>
        /\ \A i \in DOMAIN submits : ~Awaited(i)
        /\ feedback.row \in DOMAIN marked /\ marked[feedback.row] = Completed(feedback)
        /\ \A i \in DOMAIN submits : submits[i].at # "over" => submits[i].row # feedback.row
        /\ ~switched => feedback.task = chosen

TaskInv ==
    /\ TaskTypes /\ OneAwaited /\ RowsAreOwn /\ DoneIsMarked /\ AwaitedIsChosen /\ ShownIsOver
    /\ T!MicMeansRecording

LEMMA TaskStart == Init => TaskInv
<1> SUFFICES ASSUME Init PROVE TaskInv
  OBVIOUS
<1>1. T!TaskInit
  BY DEF Init
<1>2. submits = <<>> /\ marked = <<>> /\ feedback = Nothing /\ DOMAIN submits = {}
  BY <1>1 DEF T!TaskInit
<1>3. TaskTypes
  BY <1>1, <1>2, EmptySeq DEF TaskTypes, T!TaskInit
<1>4. OneAwaited /\ RowsAreOwn /\ DoneIsMarked /\ AwaitedIsChosen /\ ShownIsOver
  BY <1>2 DEF OneAwaited, RowsAreOwn, DoneIsMarked, AwaitedIsChosen, ShownIsOver
<1>5. T!MicMeansRecording
  BY <1>1 DEF T!TaskInit, T!MicMeansRecording
<1> QED
  BY <1>3, <1>4, <1>5 DEF TaskInv

\* What the recorder does is seen in what was recorded only.
LEMMA RecorderStep ==
    ASSUME TaskInv,
           \/ T!StartRecording \/ T!PauseOrResume \/ T!StopRecording \/ T!RecordAgain
           \/ T!PermittedLate \/ T!LimitLate \/ \E yes \in BOOLEAN : T!Permitted(yes)
    PROVE  TaskInv'
<1> USE DEF TaskInv
<1>1. UNCHANGED <<chosen, submits, feedback, marked, switched>>
  BY DEF T!StartRecording, T!PauseOrResume, T!StopRecording, T!RecordAgain, T!PermittedLate, T!LimitLate,
     T!Permitted, T!Aside
<1>2. {work, works}' \subseteq Nat
  BY DEF TaskTypes, T!StartRecording, T!PauseOrResume, T!StopRecording, T!RecordAgain, T!PermittedLate,
     T!LimitLate, T!Permitted
<1>3. TaskTypes'
  BY <1>1, <1>2 DEF TaskTypes
<1>4. OneAwaited' /\ RowsAreOwn' /\ DoneIsMarked' /\ AwaitedIsChosen' /\ ShownIsOver'
  BY <1>1 DEF OneAwaited, RowsAreOwn, DoneIsMarked, AwaitedIsChosen, ShownIsOver, Awaited, Completed
<1>5. T!MicMeansRecording'
  BY DEF T!MicMeansRecording, T!StartRecording, T!PauseOrResume, T!StopRecording, T!RecordAgain,
     T!PermittedLate, T!LimitLate, T!Permitted
<1> QED
  BY <1>3, <1>4, <1>5

\* A page that forgets what it sent waits for nothing.
LEMMA Forgets ==
    ASSUME TaskTypes, submits' = T!Forgotten
    PROVE  /\ submits' \in Seq(Submits) /\ DOMAIN submits' = DOMAIN submits
           /\ \A i \in DOMAIN submits :
                  /\ submits'[i].task = submits[i].task /\ submits'[i].work = submits[i].work
                  /\ submits'[i].row = submits[i].row /\ submits'[i].at = submits[i].at
                  /\ submits'[i].heard = FALSE
<1>1. /\ DOMAIN submits = 1..Len(submits) /\ Len(submits) \in Nat
      /\ \A i \in DOMAIN submits : submits[i] \in Submits
  BY LenProperties, ElementOfSeq DEF TaskTypes
<1>2. /\ DOMAIN submits' = DOMAIN submits
      /\ \A i \in DOMAIN submits : submits'[i] = [submits[i] EXCEPT !.heard = FALSE]
  BY DEF T!Forgotten
<1>3. \A i \in DOMAIN submits :
         /\ submits'[i] \in Submits
         /\ submits'[i].task = submits[i].task /\ submits'[i].work = submits[i].work
         /\ submits'[i].row = submits[i].row /\ submits'[i].at = submits[i].at
         /\ submits'[i].heard = FALSE
  <2> TAKE i \in DOMAIN submits
  <2>1. submits[i] \in Submits /\ submits'[i] = [submits[i] EXCEPT !.heard = FALSE]
    BY <1>1, <1>2
  <2> QED
    BY <2>1 DEF Submits
<1>4. submits' = [i \in 1..Len(submits) |-> submits'[i]]
  BY <1>1 DEF T!Forgotten
<1>5. submits' \in Seq(Submits)
  BY <1>1, <1>3, <1>4, SeqDef
<1> QED
  BY <1>2, <1>3, <1>5

\* The page writes, sends, turns to another task or is left.
LEMMA PracticePageStep ==
    ASSUME TaskInv,
           T!Write \/ T!Submit \/ T!TryAgain \/ T!Leave \/ \E t \in Tasks : T!Choose(t)
    PROVE  TaskInv'
<1> USE DEF TaskInv
<1>0. /\ DOMAIN submits = 1..Len(submits) /\ Len(submits) \in Nat
      /\ \A i \in DOMAIN submits : submits[i] \in Submits
  BY LenProperties, ElementOfSeq DEF TaskTypes
<1>1. CASE T!Write
  <2>1. UNCHANGED <<chosen, submits, feedback, marked, switched, listening, capture, left>>
    BY <1>1 DEF T!Write, T!Machine
  <2>2. TaskTypes'
    <3>1. works \in Nat /\ works' = works + 1 /\ work' = works'
      BY <1>1 DEF TaskTypes, T!Write
    <3> QED
      BY <2>1, <3>1 DEF TaskTypes
  <2> QED
    BY <2>1, <2>2 DEF OneAwaited, RowsAreOwn, DoneIsMarked, AwaitedIsChosen, ShownIsOver, Awaited, Completed,
       T!MicMeansRecording
<1>2. CASE T!Submit
  <2>1. PICK s : s = [task |-> chosen, work |-> work, row |-> 0, heard |-> TRUE,
                      at |-> IF skill.opens THEN "start" ELSE "submit"]
    OBVIOUS
  <2>2. /\ submits' = Append(submits, s) /\ feedback' = Nothing
        /\ UNCHANGED <<chosen, work, works, marked, switched, listening, capture, left>>
    BY <1>2, <2>1 DEF T!Submit, T!Machine, T!Page
  <2>3. s \in Submits /\ s.row = 0 /\ s.task = chosen /\ s.at \in {"start", "submit"}
    BY <2>1 DEF Submits, Stages, TaskTypes
  <2>4. /\ submits' \in Seq(Submits) /\ DOMAIN submits' = DOMAIN submits \union {Len(submits) + 1}
        /\ submits'[Len(submits) + 1] = s /\ Len(submits) + 1 \notin DOMAIN submits
        /\ \A i \in DOMAIN submits : submits'[i] = submits[i]
    BY <1>0, <2>2, <2>3, AppendProperties DEF TaskTypes
  <2>5. \A i \in DOMAIN submits : ~Awaited(i)
    BY <1>2 DEF T!Submit, T!Pending, Awaited
  <2>6. TaskTypes'
    BY <2>2, <2>4 DEF TaskTypes
  <2>7. OneAwaited'
    BY <2>4, <2>5 DEF OneAwaited, Awaited
  <2>8. Len(marked) \in Nat
    BY LenProperties DEF TaskTypes
  <2>9. RowsAreOwn'
    BY <2>2, <2>3, <2>4, <2>8 DEF RowsAreOwn
  <2>10. DoneIsMarked' /\ AwaitedIsChosen' /\ ShownIsOver'
    BY <2>2, <2>3, <2>4, <2>5 DEF DoneIsMarked, AwaitedIsChosen, ShownIsOver, Awaited, Completed
  <2>11. T!MicMeansRecording'
    BY <2>2 DEF T!MicMeansRecording
  <2> QED
    BY <2>6, <2>7, <2>9, <2>10, <2>11
<1>3. CASE T!TryAgain
  <2>1. /\ work' = 0 /\ feedback' = Nothing /\ feedback # Nothing
        /\ UNCHANGED <<chosen, submits, marked, works, listening, capture, left>>
    BY <1>3 DEF T!TryAgain, T!Machine
  <2>2. TaskTypes'
    BY <2>1 DEF TaskTypes
  <2>3. AwaitedIsChosen'
    BY <2>1 DEF AwaitedIsChosen, ShownIsOver, Awaited
  <2> QED
    BY <2>1, <2>2, <2>3 DEF OneAwaited, RowsAreOwn, DoneIsMarked, ShownIsOver, Awaited, Completed,
       T!MicMeansRecording
<1>4. ASSUME submits' = T!Forgotten, feedback' = Nothing, UNCHANGED <<marked, works>>,
             work' \in Nat, chosen' \in Tasks, T!MicMeansRecording'
      PROVE  TaskInv'
  <2>1. /\ submits' \in Seq(Submits) /\ DOMAIN submits' = DOMAIN submits
        /\ \A i \in DOMAIN submits :
               /\ submits'[i].task = submits[i].task /\ submits'[i].work = submits[i].work
               /\ submits'[i].row = submits[i].row /\ submits'[i].at = submits[i].at
               /\ submits'[i].heard = FALSE
    BY <1>4, Forgets
  <2>2. TaskTypes'
    BY <1>4, <2>1 DEF TaskTypes
  <2>3. OneAwaited' /\ AwaitedIsChosen' /\ ShownIsOver'
    BY <1>4, <2>1 DEF OneAwaited, AwaitedIsChosen, ShownIsOver, Awaited
  <2>4. RowsAreOwn' /\ DoneIsMarked'
    BY <1>4, <2>1 DEF RowsAreOwn, DoneIsMarked, Completed
  <2> QED
    BY <1>4, <2>2, <2>3, <2>4
<1>5. CASE T!Leave
  <2>1. T!MicMeansRecording'
    BY <1>5 DEF T!Leave, T!MicMeansRecording
  <2> QED
    BY <1>4, <1>5, <2>1 DEF T!Leave, TaskTypes
<1>6. ASSUME NEW t \in Tasks, T!Choose(t) PROVE TaskInv'
  <2>1. /\ chosen' = t /\ feedback' = Nothing /\ switched' = (~skill.forgets /\ T!Pending)
        /\ UNCHANGED <<marked, works, listening, capture, left>>
        /\ submits' = IF skill.forgets THEN T!Forgotten ELSE submits
        /\ work' = IF skill.keeps THEN work ELSE 0
    BY <1>6 DEF T!Choose, T!Another, T!Machine
  <2>2. T!MicMeansRecording' /\ work' \in Nat
    BY <2>1 DEF T!MicMeansRecording, TaskTypes
  <2>3. CASE skill.forgets
    BY <1>4, <2>1, <2>2, <2>3
  <2>4. CASE ~skill.forgets
    <3>1. UNCHANGED submits
      BY <2>1, <2>4
    <3>2. TaskTypes'
      BY <2>1, <2>2, <3>1 DEF TaskTypes
    <3>3. AwaitedIsChosen'
      BY <2>1, <2>4, <3>1 DEF AwaitedIsChosen, Awaited, T!Pending
    <3> QED
      BY <2>1, <2>2, <3>1, <3>2, <3>3 DEF OneAwaited, RowsAreOwn, DoneIsMarked, ShownIsOver, Awaited, Completed
  <2> QED
    BY <2>3, <2>4
<1> QED
  BY <1>1, <1>2, <1>3, <1>5, <1>6

\* One request moves on.
LEMMA RequestMoves ==
    ASSUME TaskTypes, NEW i \in DOMAIN submits, NEW at \in Stages, T!Moved(i, at)
    PROVE  /\ submits' \in Seq(Submits) /\ DOMAIN submits' = DOMAIN submits
           /\ submits[i] \in Submits /\ submits'[i] \in Submits
           /\ submits'[i].task = submits[i].task /\ submits'[i].work = submits[i].work
           /\ submits'[i].row = submits[i].row /\ submits'[i].heard = submits[i].heard
           /\ submits'[i].at = at
           /\ \A j \in DOMAIN submits : j # i => submits'[j] = submits[j]
<1>1. submits \in Seq(Submits) /\ submits[i] \in Submits
  BY ElementOfSeq DEF TaskTypes
<1>2. PICK s : s = [submits[i] EXCEPT !.at = at]
  OBVIOUS
<1>3. /\ s \in Submits /\ s.at = at
      /\ s.task = submits[i].task /\ s.work = submits[i].work
      /\ s.row = submits[i].row /\ s.heard = submits[i].heard
  BY <1>1, <1>2 DEF Submits
<1>4. submits' = [submits EXCEPT ![i] = s]
  BY <1>2 DEF T!Moved
<1>5. /\ submits' \in Seq(Submits) /\ DOMAIN submits' = DOMAIN submits /\ submits'[i] = s
      /\ \A j \in DOMAIN submits : j # i => submits'[j] = submits[j]
  BY <1>1, <1>3, <1>4, ExceptSeq
<1> QED
  BY <1>1, <1>3, <1>5

\* Rows stay with what was sent while none is added and none changes its task.
LEMMA RowsStay ==
    ASSUME RowsAreOwn, DOMAIN submits' = DOMAIN submits, DOMAIN marked' = DOMAIN marked, Len(marked') = Len(marked),
           \A k \in DOMAIN marked : marked'[k].task = marked[k].task,
           \A j \in DOMAIN submits :
               /\ submits'[j].row = submits[j].row /\ submits'[j].task = submits[j].task
               /\ \/ submits'[j].at = submits[j].at \/ submits'[j].at = "over"
                  \/ {submits[j].at, submits'[j].at} \subseteq {"started", "judged", "done"}
    PROVE  RowsAreOwn'
<1>1. \A j \in DOMAIN submits' : submits'[j].at \in {"started", "judged", "done"} =>
          submits'[j].row \in DOMAIN marked' /\ marked'[submits'[j].row].task = submits'[j].task
  BY DEF RowsAreOwn
<1>2. \A j \in DOMAIN submits' : submits'[j].at \in {"start", "submit"} => submits'[j].row = 0
  BY DEF RowsAreOwn
<1>3. \A j \in DOMAIN submits' : submits'[j].row <= Len(marked')
  BY DEF RowsAreOwn
<1>4. \A j, k \in DOMAIN submits' : submits'[j].row # 0 /\ submits'[j].row = submits'[k].row => j = k
  BY DEF RowsAreOwn
<1> QED
  BY <1>1, <1>2, <1>3, <1>4 DEF RowsAreOwn

\* A request is completed, lost, or fails where its row is not written.
LEMMA OnlyMoves ==
    ASSUME TaskInv, NEW i \in DOMAIN submits, NEW at \in Stages, T!Moved(i, at), UNCHANGED <<marked, feedback>>,
           T!Machine, T!Page,
           at = "over" \/ (submits[i].at = "started" /\ at = "judged")
    PROVE  TaskInv'
<1> USE DEF TaskInv
<1>1. /\ submits' \in Seq(Submits) /\ DOMAIN submits' = DOMAIN submits
      /\ submits'[i].task = submits[i].task /\ submits'[i].work = submits[i].work
      /\ submits'[i].row = submits[i].row /\ submits'[i].heard = submits[i].heard
      /\ submits'[i].at = at
      /\ \A j \in DOMAIN submits : j # i => submits'[j] = submits[j]
  BY RequestMoves
<1>2. UNCHANGED <<chosen, work, works, switched, marked, feedback, capture, listening, left>>
  BY DEF T!Machine, T!Page
<1>3. TaskTypes'
  BY <1>1, <1>2 DEF TaskTypes
<1>4. OneAwaited' /\ AwaitedIsChosen'
  BY <1>1, <1>2 DEF OneAwaited, AwaitedIsChosen, Awaited
<1>5. RowsAreOwn'
  <2>1. \A j \in DOMAIN submits :
            \/ submits'[j].at = submits[j].at \/ submits'[j].at = "over"
            \/ {submits[j].at, submits'[j].at} \subseteq {"started", "judged", "done"}
    BY <1>1
  <2> QED
    BY <1>1, <1>2, <2>1, RowsStay
<1>6. DoneIsMarked'
  BY <1>1, <1>2 DEF DoneIsMarked, Completed
<1>7. ShownIsOver'
  BY <1>1, <1>2 DEF ShownIsOver, Awaited, Completed
<1>8. T!MicMeansRecording'
  BY <1>2 DEF T!MicMeansRecording
<1> QED
  BY <1>3, <1>4, <1>5, <1>6, <1>7, <1>8

\* The row of a request is written, that of nobody else's.
LEMMA RowIsWritten ==
    ASSUME TaskInv, NEW i \in DOMAIN submits, submits[i].at = "judged", NEW at \in Stages, T!Moved(i, at),
           NEW m \in Marked, m.task = submits[i].task, marked' = [marked EXCEPT ![submits[i].row] = m],
           UNCHANGED feedback, T!Machine, T!Page,
           at = "over" \/ (at = "done" /\ m = Completed(submits[i]))
    PROVE  TaskInv'
<1> USE DEF TaskInv
<1>1. /\ submits' \in Seq(Submits) /\ DOMAIN submits' = DOMAIN submits
      /\ submits'[i].task = submits[i].task /\ submits'[i].work = submits[i].work
      /\ submits'[i].row = submits[i].row /\ submits'[i].heard = submits[i].heard
      /\ submits'[i].at = at /\ submits[i] \in Submits
      /\ \A j \in DOMAIN submits : j # i => submits'[j] = submits[j]
  BY RequestMoves
<1>2. UNCHANGED <<chosen, work, works, switched, feedback, capture, listening, left>>
  BY DEF T!Machine, T!Page
<1>3. PICK r \in DOMAIN marked : r = submits[i].row
  BY DEF RowsAreOwn
<1>4. /\ marked' \in Seq(Marked) /\ DOMAIN marked' = DOMAIN marked /\ Len(marked') = Len(marked)
      /\ marked'[r] = m /\ \A n \in DOMAIN marked : n # r => marked'[n] = marked[n]
  BY <1>3, ExceptSeq DEF TaskTypes
<1>5. r # 0 /\ r \in Nat
  BY LenProperties DEF TaskTypes
<1>6. \A j \in DOMAIN submits : j # i => submits[j].row # r
  BY <1>3, <1>5 DEF RowsAreOwn
<1>7. TaskTypes'
  BY <1>1, <1>2, <1>4 DEF TaskTypes
<1>8. OneAwaited' /\ AwaitedIsChosen'
  BY <1>1, <1>2 DEF OneAwaited, AwaitedIsChosen, Awaited
<1>9. RowsAreOwn'
  <2>1. \A k \in DOMAIN marked : marked'[k].task = marked[k].task
    BY <1>3, <1>4 DEF RowsAreOwn
  <2>2. \A j \in DOMAIN submits :
            \/ submits'[j].at = submits[j].at \/ submits'[j].at = "over"
            \/ {submits[j].at, submits'[j].at} \subseteq {"started", "judged", "done"}
    BY <1>1
  <2> QED
    BY <1>1, <1>4, <2>1, <2>2, RowsStay
<1>10. DoneIsMarked'
  BY <1>1, <1>3, <1>4, <1>6 DEF DoneIsMarked, RowsAreOwn, Completed
<1>11. ShownIsOver'
  <2> SUFFICES ASSUME feedback # Nothing PROVE ShownIsOver'
    BY <1>2 DEF ShownIsOver
  <2>1. feedback.row # r /\ feedback.row \in DOMAIN marked
    BY <1>3 DEF ShownIsOver
  <2>2. marked'[feedback'.row] = Completed(feedback)' /\ feedback'.row \in DOMAIN marked'
    BY <1>2, <1>4, <2>1 DEF ShownIsOver, Completed
  <2>3. \A j \in DOMAIN submits' : submits'[j].at # "over" => submits'[j].row # feedback'.row
    BY <1>1, <1>2 DEF ShownIsOver
  <2>4. \A j \in DOMAIN submits' : ~Awaited(j)'
    BY <1>1 DEF ShownIsOver, Awaited
  <2>5. ~switched' => feedback'.task = chosen'
    BY <1>2 DEF ShownIsOver
  <2> QED
    BY <2>2, <2>3, <2>4, <2>5 DEF ShownIsOver
<1>12. T!MicMeansRecording'
  BY <1>2 DEF T!MicMeansRecording
<1> QED
  BY <1>7, <1>8, <1>9, <1>10, <1>11, <1>12

LEMMA BeginStep ==
    ASSUME TaskInv, NEW i \in DOMAIN submits, T!Begin(i)
    PROVE  TaskInv'
<1> USE DEF TaskInv
<1>1. /\ submits \in Seq(Submits) /\ submits[i] \in Submits /\ submits[i].row = 0
      /\ Len(marked) \in Nat /\ DOMAIN marked = 1..Len(marked)
  BY ElementOfSeq, LenProperties DEF TaskTypes, RowsAreOwn, T!Begin
<1>2. PICK m : m = [task |-> submits[i].task, work |-> 0,
                    status |-> IF skill.opens THEN "in_progress" ELSE "analyzing"]
  OBVIOUS
<1>3. m \in Marked /\ m.task = submits[i].task
  BY <1>1, <1>2 DEF Marked, Submits
<1>4. PICK n \in Nat : n = Len(marked) + 1
  BY <1>1
<1>5. /\ marked' = Append(marked, m) /\ marked' \in Seq(Marked) /\ Len(marked') = n
      /\ DOMAIN marked' = DOMAIN marked \union {n} /\ marked'[n] = m /\ n \notin DOMAIN marked
      /\ \A k \in DOMAIN marked : marked'[k] = marked[k]
  BY <1>1, <1>2, <1>3, <1>4, AppendProperties DEF TaskTypes, T!Begin
<1>6. PICK at \in {"started", "judged"} : at = IF skill.opens THEN "started" ELSE "judged"
  OBVIOUS
<1>7. PICK s : s = [submits[i] EXCEPT !.row = n, !.at = at]
  OBVIOUS
<1>8. /\ s \in Submits /\ s.row = n /\ s.at = at /\ s.heard = submits[i].heard
      /\ s.task = submits[i].task /\ s.work = submits[i].work
  BY <1>1, <1>7 DEF Submits, Stages
<1>9. submits' = [submits EXCEPT ![i] = s]
  BY <1>5, <1>6, <1>7 DEF T!Begin
<1>10. /\ submits' \in Seq(Submits) /\ DOMAIN submits' = DOMAIN submits /\ submits'[i] = s
       /\ \A j \in DOMAIN submits : j # i => submits'[j] = submits[j]
  BY <1>1, <1>8, <1>9, ExceptSeq
<1>11. UNCHANGED <<chosen, work, works, switched, feedback, capture, listening, left>>
  BY DEF T!Begin, T!Machine, T!Page
<1>12. \A j \in DOMAIN submits : submits[j].row # n /\ submits[j].row <= n /\ submits[j].row \in Nat
  <2>1. \A j \in DOMAIN submits : submits[j] \in Submits
    BY <1>1, ElementOfSeq
  <2> QED
    BY <1>1, <1>4, <2>1 DEF RowsAreOwn, Submits
<1>13. TaskTypes'
  BY <1>5, <1>10, <1>11 DEF TaskTypes
<1>14. OneAwaited' /\ AwaitedIsChosen'
  BY <1>8, <1>10, <1>11 DEF OneAwaited, AwaitedIsChosen, Awaited, T!Begin
<1>15. RowsAreOwn'
  <2>1. \A j \in DOMAIN submits' : submits'[j].at \in {"started", "judged", "done"} =>
            submits'[j].row \in DOMAIN marked' /\ marked'[submits'[j].row].task = submits'[j].task
    <3> SUFFICES ASSUME NEW j \in DOMAIN submits', submits'[j].at \in {"started", "judged", "done"}
                 PROVE  submits'[j].row \in DOMAIN marked' /\ marked'[submits'[j].row].task = submits'[j].task
      OBVIOUS
    <3>1. CASE j = i
      BY <1>3, <1>5, <1>8, <1>10, <3>1
    <3>2. CASE j # i
      <4>1. submits'[j] = submits[j] /\ j \in DOMAIN submits
        BY <1>10, <3>2
      <4>2. submits[j].row \in DOMAIN marked /\ marked[submits[j].row].task = submits[j].task
        BY <4>1 DEF RowsAreOwn
      <4> QED
        BY <1>5, <4>1, <4>2
    <3> QED
      BY <3>1, <3>2
  <2>2. \A j \in DOMAIN submits' : submits'[j].at \in {"start", "submit"} => submits'[j].row = 0
    BY <1>6, <1>8, <1>10 DEF RowsAreOwn
  <2>3. \A j \in DOMAIN submits' : submits'[j].row <= Len(marked')
    BY <1>5, <1>8, <1>10, <1>12
  <2>4. \A j, k \in DOMAIN submits' : submits'[j].row # 0 /\ submits'[j].row = submits'[k].row => j = k
    BY <1>8, <1>10, <1>12 DEF RowsAreOwn
  <2> QED
    BY <2>1, <2>2, <2>3, <2>4 DEF RowsAreOwn
<1>16. DoneIsMarked'
  BY <1>5, <1>8, <1>10 DEF DoneIsMarked, RowsAreOwn, Completed
<1>17. ShownIsOver'
  <2> SUFFICES ASSUME feedback # Nothing PROVE ShownIsOver'
    BY <1>11 DEF ShownIsOver
  <2>1. feedback.row # n
    BY <1>5 DEF ShownIsOver
  <2> QED
    BY <1>5, <1>8, <1>10, <1>11, <2>1 DEF ShownIsOver, Awaited, Completed, T!Begin
<1>18. T!MicMeansRecording'
  BY <1>11 DEF T!MicMeansRecording
<1> QED
  BY <1>13, <1>14, <1>15, <1>16, <1>17, <1>18

LEMMA AnswerStep ==
    ASSUME TaskInv, NEW i \in DOMAIN submits, T!Answer(i)
    PROVE  TaskInv'
<1> USE DEF TaskInv
<1>1. /\ submits' \in Seq(Submits) /\ DOMAIN submits' = DOMAIN submits
      /\ submits'[i].task = submits[i].task /\ submits'[i].work = submits[i].work
      /\ submits'[i].row = submits[i].row /\ submits'[i].heard = submits[i].heard
      /\ submits'[i].at = "over"
      /\ \A j \in DOMAIN submits : j # i => submits'[j] = submits[j]
  BY RequestMoves DEF T!Answer, Stages
<1>2. UNCHANGED <<marked>> /\ T!Machine /\ T!Page /\ submits[i].at = "done"
  BY DEF T!Answer
<1>3. CASE ~submits[i].heard
  <2>1. UNCHANGED feedback /\ T!Moved(i, "over")
    BY <1>3 DEF T!Answer
  <2> QED
    BY <1>2, <2>1, OnlyMoves DEF Stages
<1>4. CASE submits[i].heard
  <2>1. feedback' = submits[i]
    BY <1>4 DEF T!Answer
  <2>2. UNCHANGED <<chosen, work, works, switched, marked, capture, listening, left>>
    BY <1>2 DEF T!Machine, T!Page
  <2>3. TaskTypes'
    BY <1>1, <2>2 DEF TaskTypes
  <2>4. OneAwaited' /\ AwaitedIsChosen'
    BY <1>1, <2>2 DEF OneAwaited, AwaitedIsChosen, Awaited
  <2>5. RowsAreOwn'
    <3>1. \A j \in DOMAIN submits : submits'[j].at = submits[j].at \/ submits'[j].at = "over"
      BY <1>1
    <3> QED
      BY <1>1, <2>2, <3>1, RowsStay
  <2>6. DoneIsMarked'
    BY <1>1, <2>2 DEF DoneIsMarked, Completed
  <2>7. ShownIsOver'
    <3>1. \A j \in DOMAIN submits' : ~Awaited(j)'
      BY <1>1, <1>2, <1>4 DEF OneAwaited, Awaited
    <3>2. feedback'.row \in DOMAIN marked' /\ marked'[feedback'.row] = Completed(feedback')
      BY <1>2, <2>1, <2>2 DEF RowsAreOwn, DoneIsMarked, Completed
    <3>3. submits[i].row # 0
      BY <1>2, LenProperties DEF RowsAreOwn, TaskTypes
    <3>4. \A j \in DOMAIN submits' : submits'[j].at # "over" => submits'[j].row # feedback'.row
      BY <1>1, <2>1, <3>3 DEF RowsAreOwn
    <3>5. ~switched' => feedback'.task = chosen'
      BY <1>2, <1>4, <2>1, <2>2 DEF AwaitedIsChosen, Awaited
    <3> QED
      BY <3>1, <3>2, <3>4, <3>5 DEF ShownIsOver, Completed
  <2>8. T!MicMeansRecording'
    BY <2>2 DEF T!MicMeansRecording
  <2> QED
    BY <2>3, <2>4, <2>5, <2>6, <2>7, <2>8
<1> QED
  BY <1>3, <1>4

LEMMA RequestStep ==
    ASSUME TaskInv, NEW i \in DOMAIN submits,
           T!Complete(i) \/ T!Judge(i) \/ T!JudgeFails(i) \/ T!LoseAnswer(i)
    PROVE  TaskInv'
<1> USE DEF TaskInv
<1>0. submits[i] \in Submits
  BY ElementOfSeq DEF TaskTypes
<1>1. CASE T!Complete(i)
  BY <1>1, OnlyMoves DEF T!Complete, Stages
<1>2. CASE T!LoseAnswer(i)
  BY <1>2, OnlyMoves DEF T!LoseAnswer, Stages
<1>3. ASSUME submits[i].at = "judged"
      PROVE  submits[i].row \in DOMAIN marked /\ marked[submits[i].row] \in Marked
             /\ marked[submits[i].row].task = submits[i].task
  BY <1>3, ElementOfSeq DEF RowsAreOwn, TaskTypes
<1>4. CASE T!Judge(i)
  <2>1. PICK r : r = submits[i].row
    OBVIOUS
  <2>2. submits[i].at = "judged" /\ T!Moved(i, "done") /\ UNCHANGED feedback /\ T!Machine /\ T!Page
    BY <1>4 DEF T!Judge
  <2>3. PICK m : m = [marked[r] EXCEPT !.status = "completed", !.work = submits[i].work]
    OBVIOUS
  <2>4. m \in Marked /\ m.task = submits[i].task /\ m = Completed(submits[i])
    BY <1>0, <1>3, <2>1, <2>2, <2>3 DEF Marked, Submits, Completed
  <2>5. marked' = [marked EXCEPT ![submits[i].row] = m]
    BY <1>4, <2>1, <2>3 DEF T!Judge
  <2> QED
    BY <2>2, <2>4, <2>5, RowIsWritten DEF Stages
<1>5. CASE T!JudgeFails(i)
  <2>1. PICK r : r = submits[i].row
    OBVIOUS
  <2>2. submits[i].at = "judged" /\ T!Moved(i, "over") /\ UNCHANGED feedback /\ T!Machine /\ T!Page
    BY <1>5 DEF T!JudgeFails
  <2>3. CASE UNCHANGED marked
    BY <2>2, <2>3, OnlyMoves DEF Stages
  <2>4. CASE marked' = [marked EXCEPT ![submits[i].row].status = "failed"]
    <3>1. PICK m : m = [marked[r] EXCEPT !.status = "failed"]
      OBVIOUS
    <3>2. m \in Marked /\ m.task = submits[i].task
      BY <1>3, <2>1, <2>2, <3>1 DEF Marked
    <3>3. marked' = [marked EXCEPT ![submits[i].row] = m]
      BY <2>1, <2>4, <3>1
    <3> QED
      BY <2>2, <3>2, <3>3, RowIsWritten DEF Stages
  <2> QED
    BY <1>5, <2>3, <2>4 DEF T!JudgeFails
<1> QED
  BY <1>1, <1>2, <1>4, <1>5

(* The timed exams.  What is played, or recorded, is counted when it       *)
(* begins, so whoever may begin has not begun before.                      *)
RoomInv ==
    /\ {now, began, plays} \subseteq Nat /\ seen \in Int
    /\ plays <= 1 /\ (media \in {"ready", "preparing"} => plays = 0)
    /\ X!SaidIsSo

LEMMA RoomStart == Init => RoomInv
<1> SUFFICES ASSUME Init PROVE RoomInv
  OBVIOUS
<1>1. now = 0 /\ began = 0 /\ seen = 0 /\ plays = 0 /\ phase = "home"
  <2>1. X!RoomInit
    BY DEF Init
  <2> QED
    BY <2>1 DEF X!RoomInit
<1> QED
  BY <1>1 DEF RoomInv, X!SaidIsSo

LEMMA RoomStep ==
    ASSUME RoomInv, X!RoomNext \/ UNCHANGED exams
    PROVE  RoomInv'
<1> USE DEF RoomInv
<1>0. Minutes \in Nat \ {0}
  BY PagesAssumption
<1>1. CASE UNCHANGED exams
  BY <1>1 DEF exams, X!SaidIsSo, X!timeUp
<1>2. CASE X!ProfileArrives \/ (\E l \in Levels : X!pick(l)) \/ (\E s \in X!Skills \union {X!Essay} : X!Open(s))
  <2>1. /\ UNCHANGED <<now, began, seen, plays, media>>
        /\ phase' # "done" \/ UNCHANGED <<phase, exam>>
        /\ phase' # "running" \/ UNCHANGED phase
    BY <1>2 DEF X!ProfileArrives, X!pick, X!Open, X!Timed, X!Played
  <2> QED
    BY <2>1 DEF X!SaidIsSo, X!timeUp
<1>3. CASE X!Pass
  BY <1>0, <1>3 DEF X!Pass, X!Sitting, X!Played, X!SaidIsSo, X!timeUp
<1>4. CASE X!Start
  BY <1>0, <1>4 DEF X!Start, X!Sitting, X!Played, X!SaidIsSo, X!timeUp
<1>5. CASE X!tick
  BY <1>0, <1>5 DEF X!tick, X!Sitting, X!Played, X!SaidIsSo, X!timeUp
<1>6. CASE (\E q \in Prompts : X!set(q)) \/ X!WritingSection
  <2>1. UNCHANGED <<now, began, seen, plays, media, phase, exam>>
    BY <1>6 DEF X!set, X!WritingSection, X!Answering, X!Sitting, X!Timed, X!Played
  <2> QED
    BY <2>1 DEF X!SaidIsSo, X!timeUp
<1>7. CASE X!Play \/ X!Finished \/ X!StartPreparing \/ X!Record \/ X!Recorded
  <2>1. UNCHANGED <<now, began, seen, phase, exam>> /\ phase = "running"
    BY <1>7 DEF X!Play, X!Finished, X!StartPreparing, X!Record, X!Recorded, X!InSection, X!Sitting, X!Timed
  <2>2. plays' \in Nat /\ plays' <= 1 /\ (media' \in {"ready", "preparing"} => plays' = 0)
    BY <1>7 DEF X!Play, X!Finished, X!StartPreparing, X!Record, X!Recorded, X!Enter
  <2>3. phase' = "running" /\ seen' < Minutes
    BY <2>1 DEF X!SaidIsSo
  <2>4. X!SaidIsSo'
    BY <2>2, <2>3 DEF X!SaidIsSo
  <2>5. {now, began, plays}' \subseteq Nat /\ seen' \in Int
    BY <2>1, <2>2
  <2> QED
    BY <2>2, <2>4, <2>5
<1>8. CASE X!HandIn
  BY <1>0, <1>8 DEF X!HandIn, X!Sitting, X!Timed, X!Played, X!SaidIsSo, X!timeUp
<1>9. CASE X!Exit
  <2>1. now' = 0 /\ began' = 0 /\ seen' = 0 /\ plays' = 0 /\ phase' = "home"
    BY <1>9 DEF X!Exit, X!Afresh
  <2> QED
    BY <2>1 DEF X!SaidIsSo
<1> QED
  BY <1>1, <1>2, <1>3, <1>4, <1>5, <1>6, <1>7, <1>8, <1>9 DEF X!RoomNext

(* The score or the report that a page of practice shows is on record, for *)
(* the work that was sent and the task on the page, unless a set was       *)
(* changed while its answers were checked; the microphone is on only while *)
(* the page says that it records, or when permission came for a page that  *)
(* was left (attempt-view.tsx, writing-view.tsx, speaking-view.tsx); and a *)
(* timed exam says of itself what is so (features/mock-exam).              *)
THEOREM PracticeHolds == Spec => []PracticeIsSo
<1>1. TaskInv /\ [Next]_pageVars => TaskInv'
  <2> SUFFICES ASSUME TaskInv, [Next]_pageVars PROVE TaskInv'
    OBVIOUS
  <2>1. CASE UNCHANGED task
    <3>1. UNCHANGED <<chosen, work, submits, feedback, marked, capture, listening, left, switched, works>>
      BY <2>1 DEF task
    <3> QED
      BY <3>1 DEF TaskInv, TaskTypes, OneAwaited, RowsAreOwn, DoneIsMarked, AwaitedIsChosen, ShownIsOver,
         Awaited, Completed, T!MicMeansRecording
  <2>2. CASE T!TaskNext
    <3>1. CASE \E i \in DOMAIN submits : T!Begin(i)
      BY <3>1, BeginStep
    <3>2. CASE \E i \in DOMAIN submits : T!Answer(i)
      BY <3>2, AnswerStep
    <3>3. CASE \E i \in DOMAIN submits : T!Complete(i) \/ T!Judge(i) \/ T!JudgeFails(i) \/ T!LoseAnswer(i)
      BY <3>3, RequestStep
    <3>4. CASE T!Write \/ T!Submit \/ T!TryAgain \/ T!Leave \/ \E t \in Tasks : T!Choose(t)
      BY <3>4, PracticePageStep
    <3>5. CASE \/ T!StartRecording \/ T!PauseOrResume \/ T!StopRecording \/ T!RecordAgain
               \/ T!PermittedLate \/ T!LimitLate \/ \E yes \in BOOLEAN : T!Permitted(yes)
      BY <3>5, RecorderStep
    <3> QED
      BY <2>2, <3>1, <3>2, <3>3, <3>4, <3>5 DEF T!TaskNext
  <2> QED
    BY <2>1, <2>2, PageSteps
<1>2. RoomInv /\ [Next]_pageVars => RoomInv'
  BY RoomStep, PageSteps
<1>3. TaskInv /\ RoomInv => PracticeIsSo
  <2>1. TaskInv => T!FeedbackIsForThis /\ T!MicMeansRecording
    BY DEF TaskInv, ShownIsOver, Completed, T!FeedbackIsForThis
  <2> QED
    BY <2>1 DEF RoomInv, PracticeIsSo
<1> QED
  BY <1>1, <1>2, <1>3, TaskStart, RoomStart, PTL DEF Spec

-----------------------------------------------------------------------------
(* The lists.                                                              *)

ListTypes ==
    /\ draft \in Searches /\ sought \in Searches /\ choice \in Choices /\ leaf \in 1..MaxLeaves
    /\ stock \in [Searches \X Choices -> Nat]
    /\ fetched = [k \in I!Keys |-> fetched[k]] /\ served = [k \in I!Keys |-> served[k]]
    /\ asking \subseteq I!Keys

\* What is on the page was read, is being read or could not be; what was read is there.
KeyIsRead ==
    /\ I!Key \in asking \union failed \union fresh
    /\ asking \intersect fresh = {}
    /\ \A k \in I!Keys \ asking : served[k] = Nothing
    /\ \A k \in fresh : fetched[k] # Nothing

\* Between changes the server's answers, and what is fresh in the cache, are true.
ReadsAreTrue ==
    ~behind /\ ~acting =>
        /\ \A k \in asking : served[k] \in {Nothing, I!Rows(k)}
        /\ \A k \in fresh : fetched[k] = I!Rows(k)

StrayIsSeen == ~strayed => leaf = 1 \/ leaf <= stock[<<sought, choice>>]

ListInv == ListTypes /\ KeyIsRead /\ ReadsAreTrue /\ StrayIsSeen

LEMMA ListConstants == I!Unfiltered \in Choices /\ MaxLeaves \in Nat /\ 1 \in 1..MaxLeaves
<1>1. MaxLeaves \in Nat \ {0}
  BY PagesAssumption
<1>2. Choices # {}
  BY PagesAssumption
<1>3. I!Unfiltered \in Choices
  BY <1>2 DEF I!Unfiltered
<1> QED
  BY <1>1, <1>3

LEMMA ListStart == Init => ListInv
<1> SUFFICES ASSUME Init PROVE ListInv
  OBVIOUS
<1>1. I!ListsInit
  BY DEF Init
<1>2. I!Unfiltered \in Choices /\ MaxLeaves \in Nat /\ 1 \in 1..MaxLeaves
  BY ListConstants
<1>10. "" \in Searches
  BY PagesAssumption
<1>3. /\ draft = "" /\ sought = "" /\ choice = I!Unfiltered /\ leaf = 1 /\ fresh = {}
      /\ asking = {I!Key}
      /\ \E n \in 0..MaxLeaves - 1 :
            stock = [p \in Searches \X Choices |-> IF p = <<"", I!Unfiltered>> THEN MaxLeaves ELSE n]
  BY <1>1 DEF I!ListsInit, I!Key
<1>4. fetched = [k \in I!Keys |-> Nothing] /\ served = [k \in I!Keys |-> Nothing]
  BY <1>1 DEF I!ListsInit
<1>5. stock \in [Searches \X Choices -> Nat]
  <2>1. PICK n \in 0..MaxLeaves - 1 :
            stock = [p \in Searches \X Choices |-> IF p = <<"", I!Unfiltered>> THEN MaxLeaves ELSE n]
    BY <1>3
  <2>2. n \in Nat
    BY <1>2
  <2>3. PICK first : stock = [p \in Searches \X Choices |-> IF p = first THEN MaxLeaves ELSE n]
    BY <2>1
  <2> QED
    BY <1>2, <2>2, <2>3
<1>6. I!Key \in I!Keys
  <2>1. sought \in Searches /\ choice \in Choices
    BY <1>2, <1>3, <1>10
  <2>2. leaf \in 1..MaxLeaves
    BY <1>2, <1>3
  <2> QED
    BY <2>1, <2>2 DEF I!Key, I!Keys
<1>7. ListTypes
  <2>1. draft \in Searches /\ sought \in Searches /\ choice \in Choices
    BY <1>2, <1>3, <1>10
  <2>2. fetched = [k \in I!Keys |-> fetched[k]] /\ served = [k \in I!Keys |-> served[k]]
    BY <1>4
  <2> QED
    BY <1>2, <1>3, <1>5, <1>6, <2>1, <2>2 DEF ListTypes
<1>8. KeyIsRead
  BY <1>3, <1>4 DEF KeyIsRead
<1>9. ReadsAreTrue
  BY <1>3, <1>4, <1>6 DEF ReadsAreTrue
<1> QED
  BY <1>3, <1>7, <1>8, <1>9 DEF ListInv, StrayIsSeen

\* A control leads to a key that is fresh, or is read.
LEMMA GotoReads ==
    ASSUME ListInv, NEW s \in Searches, NEW c \in Choices, NEW l \in 1..MaxLeaves, I!Goto(s, c, l),
           draft' \in Searches, ~strayed' => l = 1 \/ l <= stock[<<s, c>>]
    PROVE  ListInv'
<1> USE DEF ListInv
<1>1. PICK k : k = [sought |-> s, choice |-> c, leaf |-> l]
  OBVIOUS
<1>2. k \in I!Keys
  BY <1>1 DEF I!Keys
<1>3. /\ sought' = s /\ choice' = c /\ leaf' = l /\ I!Key' = k
      /\ UNCHANGED <<stock, fetched, fresh, served, acting, behind>>
      /\ asking' = IF k \notin fresh /\ k \notin asking THEN asking \union {k} ELSE asking
      /\ failed' = IF (k \notin fresh /\ k \notin asking) /\ fetched[k] = Nothing THEN failed \ {k} ELSE failed
  BY <1>1 DEF I!Goto, I!Key
<1>4. ListTypes'
  BY <1>2, <1>3 DEF ListTypes
<1>5. KeyIsRead'
  BY <1>3 DEF KeyIsRead
<1>6. ReadsAreTrue'
  <2>1. CASE asking' = asking
    BY <1>3, <2>1 DEF ReadsAreTrue, I!Rows
  <2>2. CASE asking' # asking
    <3>1. k \notin fresh /\ k \notin asking /\ asking' = asking \union {k}
      BY <1>3, <2>2
    <3> QED
      BY <1>2, <1>3, <3>1 DEF ReadsAreTrue, KeyIsRead, I!Rows
  <2> QED
    BY <2>1, <2>2
<1>7. StrayIsSeen'
  BY <1>3 DEF StrayIsSeen
<1> QED
  BY <1>4, <1>5, <1>6, <1>7

\* A control leads within the search words, the filters and the pages.
LEMMA ControlStep ==
    ASSUME ListInv,
           \/ \E s \in Searches : I!Type(s)
           \/ I!HandOn \/ I!Clear \/ I!Reset \/ I!Retry
           \/ \E c \in Choices : I!Filter(c) \/ I!Period(c)
           \/ \E n \in 1..MaxLeaves : I!Turn(n)
    PROVE  ListInv'
<1>0. /\ draft \in Searches /\ sought \in Searches /\ choice \in Choices /\ leaf \in 1..MaxLeaves
      /\ 1 \in 1..MaxLeaves /\ I!Unfiltered \in Choices
  BY ListConstants DEF ListInv, ListTypes
<1>9. "" \in Searches
  BY PagesAssumption
<1>1. ASSUME NEW s \in Searches, I!Type(s) PROVE ListInv'
  <2>1. CASE I!Goto(s, choice, 1)
    BY <1>0, <1>1, <2>1, GotoReads DEF I!Type
  <2>2. CASE ~I!Goto(s, choice, 1)
    <3>1. /\ UNCHANGED <<sought, choice, leaf, stock, fetched, fresh, failed, asking, served, acting, strayed, behind>>
          /\ draft' = s
      BY <1>1, <2>2 DEF I!Type
    <3> QED
      BY <1>1, <3>1 DEF ListInv, ListTypes, KeyIsRead, ReadsAreTrue, StrayIsSeen, I!Key, I!Rows
  <2> QED
    BY <2>1, <2>2
<1>2. CASE I!HandOn
  BY <1>0, <1>2, GotoReads DEF I!HandOn
<1>3. CASE I!Clear
  BY <1>0, <1>3, <1>9, GotoReads DEF I!Clear
<1>4. CASE I!Reset
  BY <1>0, <1>4, <1>9, GotoReads DEF I!Reset
<1>5. CASE I!Retry
  BY <1>0, <1>5, GotoReads DEF I!Retry, ListInv, StrayIsSeen
<1>6. ASSUME NEW c \in Choices, I!Filter(c) PROVE ListInv'
  BY <1>0, <1>6, GotoReads DEF I!Filter
<1>7. ASSUME NEW c \in Choices, I!Period(c) PROVE ListInv'
  BY <1>0, <1>7, GotoReads DEF I!Period
<1>8. ASSUME NEW n \in 1..MaxLeaves, I!Turn(n) PROVE ListInv'
  <2>1. /\ I!Goto(sought, choice, n) /\ draft' = draft /\ n <= I!Shown.pages
        /\ ~strayed' => n = 1 \/ I!Shown.pages = stock[<<sought, choice>>]
    BY <1>8 DEF I!Turn
  <2>2. ~strayed' => n = 1 \/ n <= stock[<<sought, choice>>]
    BY <2>1
  <2> QED
    BY <1>0, <2>1, <2>2, GotoReads
<1> QED
  BY <1>1, <1>2, <1>3, <1>4, <1>5, <1>6, <1>7, <1>8

\* The reads, and the change of a row.
LEMMA ReadStep ==
    ASSUME ListInv,
           \E k \in I!Keys : I!Serve(k) \/ I!Arrive(k) \/ I!Fail(k)
    PROVE  ListInv'
<1> USE DEF ListInv
<1>1. PICK k \in I!Keys : I!Serve(k) \/ I!Arrive(k) \/ I!Fail(k)
  OBVIOUS
<1>2. /\ UNCHANGED <<draft, sought, choice, leaf, stock, acting, strayed, behind>> /\ k \in asking
      /\ I!Key' = I!Key /\ \A j : I!Rows(j)' = I!Rows(j)
  BY <1>1 DEF I!Serve, I!Arrive, I!Fail, I!Controls, I!Key, I!Rows
<1>3. StrayIsSeen'
  BY <1>2 DEF StrayIsSeen
<1>4. CASE I!Serve(k)
  <2>1. UNCHANGED <<fetched, fresh, failed, asking>> /\ served' = [served EXCEPT ![k] = I!Rows(k)]
    BY <1>4 DEF I!Serve
  <2>2. ListTypes'
    BY <1>2, <2>1 DEF ListTypes
  <2>3. /\ \A j \in I!Keys : j # k => served'[j] = served[j]
        /\ served'[k] = I!Rows(k)
    BY <1>2, <2>1 DEF ListTypes
  <2>4. KeyIsRead'
    BY <1>2, <2>1, <2>3 DEF KeyIsRead
  <2>5. ReadsAreTrue'
    BY <1>2, <2>1, <2>3 DEF ReadsAreTrue, ListTypes
  <2> QED
    BY <1>3, <2>2, <2>4, <2>5
<1>5. CASE I!Arrive(k)
  <2>1. /\ fresh' = fresh \union {k} /\ failed' = failed \ {k} /\ asking' = asking \ {k}
        /\ fetched' = [fetched EXCEPT ![k] = served[k]] /\ served' = [served EXCEPT ![k] = Nothing]
        /\ served[k] # Nothing
    BY <1>5 DEF I!Arrive
  <2>2. ListTypes'
    BY <1>2, <2>1 DEF ListTypes
  <2>3. /\ \A j \in I!Keys : j # k => served'[j] = served[j]
        /\ \A j : j # k /\ j \in fresh => fetched'[j] = fetched[j]
        /\ served'[k] = Nothing /\ fetched'[k] = served[k]
    BY <1>2, <2>1 DEF ListTypes
  <2>4. KeyIsRead'
    BY <1>2, <2>1, <2>3 DEF KeyIsRead
  <2>5. ReadsAreTrue'
    BY <1>2, <2>1, <2>3 DEF ReadsAreTrue, ListTypes
  <2> QED
    BY <1>3, <2>2, <2>4, <2>5
<1>6. CASE I!Fail(k)
  <2>1. /\ failed' = failed \union {k} /\ asking' = asking \ {k} /\ UNCHANGED <<fetched, fresh>>
        /\ served' = [served EXCEPT ![k] = Nothing]
    BY <1>6 DEF I!Fail
  <2>2. ListTypes'
    BY <1>2, <2>1 DEF ListTypes
  <2>3. /\ \A j \in I!Keys : j # k => served'[j] = served[j]
        /\ served'[k] = Nothing
    BY <1>2, <2>1 DEF ListTypes
  <2>4. KeyIsRead'
    BY <1>2, <2>1, <2>3 DEF KeyIsRead
  <2>5. ReadsAreTrue'
    BY <1>2, <2>1, <2>3 DEF ReadsAreTrue, ListTypes
  <2> QED
    BY <1>3, <2>2, <2>4, <2>5
<1> QED
  BY <1>1, <1>4, <1>5, <1>6

LEMMA RowStep ==
    ASSUME ListInv, I!Act \/ I!Told \/ I!Unheard
    PROVE  ListInv'
<1> USE DEF ListInv
<1>1. UNCHANGED <<draft, sought, choice, leaf, fetched, failed>> /\ I!Key' = I!Key
  BY DEF I!Act, I!Told, I!Unheard, I!Controls, I!Key
<1>2. CASE I!Act
  <2>1. PICK k : k = I!Shown.key
    OBVIOUS
  <2>2. /\ stock' = [stock EXCEPT ![<<k.sought, k.choice>>] = @ - 1] /\ stock[<<k.sought, k.choice>>] # 0
        /\ strayed' = (strayed \/ leaf > stock'[<<sought, choice>>]) /\ acting' = TRUE
        /\ UNCHANGED <<fresh, asking, served>>
    BY <1>2, <2>1 DEF I!Act
  <2>3. stock' \in [Searches \X Choices -> Nat]
    <3>1. PICK p : p = <<k.sought, k.choice>>
      OBVIOUS
    <3>2. stock' = [stock EXCEPT ![p] = stock[p] - 1] /\ stock[p] # 0 /\ stock \in [Searches \X Choices -> Nat]
      BY <2>2, <3>1 DEF ListTypes
    <3>3. CASE p \in Searches \X Choices
      BY <3>2, <3>3
    <3>4. CASE p \notin Searches \X Choices
      BY <3>2, <3>4
    <3> QED
      BY <3>3, <3>4
  <2>4. stock'[<<sought, choice>>] \in Nat /\ leaf \in Nat
    BY <2>3 DEF ListTypes
  <2>5. ListTypes'
    BY <1>1, <2>2, <2>3 DEF ListTypes
  <2>6. KeyIsRead'
    BY <1>1, <2>2 DEF KeyIsRead
  <2>7. ReadsAreTrue'
    BY <2>2 DEF ReadsAreTrue
  <2>8. StrayIsSeen'
    <3>1. ~strayed' => ~(leaf > stock'[<<sought, choice>>])
      BY <2>2, Zenon
    <3> QED
      BY <1>1, <2>4, <3>1 DEF StrayIsSeen
  <2> QED
    BY <2>5, <2>6, <2>7, <2>8
<1>3. CASE I!Told
  <2>1. /\ fresh' = {} /\ asking' = asking \union {I!Key} /\ served' = [served EXCEPT ![I!Key] = Nothing]
        /\ behind' = (behind \/ \E k \in asking \ {I!Key} : served[k] \notin {Nothing, I!Rows(k)})
        /\ UNCHANGED <<stock, strayed>>
    BY <1>3 DEF I!Told
  <2>2. I!Key \in I!Keys
    BY DEF ListTypes, I!Key, I!Keys
  <2>3. /\ \A j \in I!Keys : j # I!Key => served'[j] = served[j]
        /\ served'[I!Key] = Nothing /\ served' = [j \in I!Keys |-> served'[j]]
        /\ \A j : I!Rows(j)' = I!Rows(j)
    BY <2>1, <2>2 DEF ListTypes, I!Rows
  <2>4. ListTypes'
    BY <1>1, <2>1, <2>2, <2>3 DEF ListTypes
  <2>5. KeyIsRead'
    BY <1>1, <2>1, <2>3 DEF KeyIsRead
  <2>6. ReadsAreTrue'
    BY <2>1, <2>3 DEF ReadsAreTrue, ListTypes
  <2>7. StrayIsSeen'
    BY <1>1, <2>1 DEF StrayIsSeen
  <2> QED
    BY <2>4, <2>5, <2>6, <2>7
<1>4. CASE I!Unheard
  <2>1. UNCHANGED <<stock, fresh, asking, served, strayed>> /\ behind'
    BY <1>4 DEF I!Unheard
  <2> QED
    BY <1>1, <2>1 DEF ListTypes, KeyIsRead, ReadsAreTrue, StrayIsSeen
<1> QED
  BY <1>2, <1>3, <1>4

(* A list of the console or of the learner, at rest, shows what there is   *)
(* for the search, the filters and the page it names, and no empty page    *)
(* where there are rows unless the page was turned on rows of other        *)
(* filters, kept in a new period or emptied; but for a change whose answer *)
(* was lost or crossed by a read (the list views and their useQuery).      *)
THEOREM ListsShowTheirs == Spec => []RowsAreTheAnswer
<1>1. ListInv /\ [Next]_pageVars => ListInv'
  <2> SUFFICES ASSUME ListInv, [Next]_pageVars PROVE ListInv'
    OBVIOUS
  <2>1. CASE UNCHANGED list
    BY <2>1 DEF list, ListInv, ListTypes, KeyIsRead, ReadsAreTrue, StrayIsSeen, I!Key, I!Rows
  <2>2. CASE I!ListsNext
    BY <2>2, ControlStep, ReadStep, RowStep DEF I!ListsNext
  <2> QED
    BY <2>1, <2>2, PageSteps
<1>2. ListInv => RowsAreTheAnswer
  <2> SUFFICES ASSUME ListInv, I!Key \notin asking, I!Key \notin failed, ~acting, ~behind
               PROVE  /\ I!Shown = I!Rows(I!Key)
                      /\ ~strayed /\ stock[<<sought, choice>>] # 0 => I!Shown.some
    BY DEF RowsAreTheAnswer, I!RowsAreTheAnswer
  <2>1. I!Key \in fresh /\ fetched[I!Key] = I!Rows(I!Key) /\ fetched[I!Key] # Nothing
    BY DEF ListInv, KeyIsRead, ReadsAreTrue
  <2>2. I!Shown = I!Rows(I!Key)
    BY <2>1 DEF I!Shown
  <2>3. I!Rows(I!Key).some <=> leaf <= stock[<<sought, choice>>]
    BY DEF I!Rows, I!Key
  <2>4. stock[<<sought, choice>>] \in Nat
    BY DEF ListInv, ListTypes
  <2> QED
    BY <2>2, <2>3, <2>4 DEF ListInv, StrayIsSeen
<1> QED
  BY <1>1, <1>2, ListStart, PTL DEF Spec

-----------------------------------------------------------------------------
(* The journey of a new learner.                                           *)

Steps == {"PROFILE", "WELCOME", "GOAL_SELECTION", "DAILY_TIME", "LEVEL_SELECTION", "PLACEMENT_INTRO",
          "PLACEMENT_START_LEVEL", "TEST", "PERSONALIZED_PLAN", "COMPLETED"}

Back == {"GOAL_SELECTION", "DAILY_TIME", "LEVEL_SELECTION", "PLACEMENT_INTRO", "PLACEMENT_START_LEVEL"}

Buttons == {"setup", "start", "setGoals", "setDailyTime", "chooseLevel", "choosePlacement", "startPlacement",
            "complete"} \union Back

LEMMA Ranks ==
    /\ J!rank("PROFILE") = 1 /\ J!rank("WELCOME") = 2 /\ J!rank("GOAL_SELECTION") = 3
    /\ J!rank("DAILY_TIME") = 4 /\ J!rank("LEVEL_SELECTION") = 5 /\ J!rank("PLACEMENT_INTRO") = 6
    /\ J!rank("PLACEMENT_START_LEVEL") = 7 /\ J!rank("TEST") = 8 /\ J!rank("PERSONALIZED_PLAN") = 9
    /\ J!rank("COMPLETED") = 10
<1>1. DOMAIN J!stepOrder = 1..10
  BY DEF J!stepOrder
<1>2. /\ J!stepOrder[1] = "PROFILE" /\ J!stepOrder[2] = "WELCOME" /\ J!stepOrder[3] = "GOAL_SELECTION"
      /\ J!stepOrder[4] = "DAILY_TIME" /\ J!stepOrder[5] = "LEVEL_SELECTION"
      /\ J!stepOrder[6] = "PLACEMENT_INTRO" /\ J!stepOrder[7] = "PLACEMENT_START_LEVEL"
      /\ J!stepOrder[8] = "TEST" /\ J!stepOrder[9] = "PERSONALIZED_PLAN" /\ J!stepOrder[10] = "COMPLETED"
  BY DEF J!stepOrder
<1>3. \A n \in 1..10 : \/ n = 1 \/ n = 2 \/ n = 3 \/ n = 4 \/ n = 5 \/ n = 6 \/ n = 7 \/ n = 8 \/ n = 9 \/ n = 10
  OBVIOUS
<1>4. ASSUME NEW s, NEW n \in 1..10, J!stepOrder[n] = s, \A m \in 1..10 : J!stepOrder[m] = s => m = n
      PROVE  J!rank(s) = n
  BY <1>1, <1>4 DEF J!rank
<1>5. J!rank("PROFILE") = 1
  BY <1>2, <1>3, <1>4
<1>6. J!rank("WELCOME") = 2
  BY <1>2, <1>3, <1>4
<1>7. J!rank("GOAL_SELECTION") = 3
  BY <1>2, <1>3, <1>4
<1>8. J!rank("DAILY_TIME") = 4
  BY <1>2, <1>3, <1>4
<1>9. J!rank("LEVEL_SELECTION") = 5
  BY <1>2, <1>3, <1>4
<1>10. J!rank("PLACEMENT_INTRO") = 6
  BY <1>2, <1>3, <1>4
<1>11. J!rank("PLACEMENT_START_LEVEL") = 7
  BY <1>2, <1>3, <1>4
<1>12. J!rank("TEST") = 8
  BY <1>2, <1>3, <1>4
<1>13. J!rank("PERSONALIZED_PLAN") = 9
  BY <1>2, <1>3, <1>4
<1>14. J!rank("COMPLETED") = 10
  BY <1>2, <1>3, <1>4
<1> QED
  BY <1>5, <1>6, <1>7, <1>8, <1>9, <1>10, <1>11, <1>12, <1>13, <1>14

\* The client's table of buttons fits the server's of what it takes, step by step.
LEMMA OffersAreTaken ==
    ASSUME NEW s \in Steps, NEW what \in J!Offers(s)
    PROVE  what \in Buttons /\ J!Takes(what, s)
<1> USE Ranks DEF J!Takes, J!InSetup, J!Between, J!Navigable, Buttons, Back
<1>1. CASE s = "PROFILE"
  <2>1. what = "setup"
    BY <1>1 DEF J!Offers, J!ProfileSetupFields
  <2> QED
    BY <1>1, <2>1
<1>2. CASE s = "WELCOME"
  <2>1. what = "start"
    BY <1>2 DEF J!Offers, J!WelcomeStep
  <2> QED
    BY <1>2, <2>1
<1>3. CASE s = "GOAL_SELECTION"
  <2>1. what = "setGoals"
    BY <1>3 DEF J!Offers, J!GoalsStep
  <2> QED
    BY <1>3, <2>1
<1>4. CASE s = "DAILY_TIME"
  <2>1. what = "setDailyTime" \/ what = "GOAL_SELECTION"
    BY <1>4 DEF J!Offers, J!DailyTimeStep
  <2> QED
    BY <1>4, <2>1
<1>5. CASE s = "LEVEL_SELECTION"
  <2>1. what = "chooseLevel" \/ what = "choosePlacement" \/ what = "DAILY_TIME"
    BY <1>5 DEF J!Offers, J!LevelChoice
  <2> QED
    BY <1>5, <2>1
<1>6. CASE s = "PLACEMENT_INTRO"
  <2>1. what = "PLACEMENT_START_LEVEL" \/ what = "LEVEL_SELECTION"
    BY <1>6 DEF J!Offers, J!PlacementIntro
  <2> QED
    BY <1>6, <2>1
<1>7. CASE s = "PLACEMENT_START_LEVEL"
  <2>1. what = "startPlacement" \/ what = "PLACEMENT_INTRO"
    BY <1>7 DEF J!Offers, J!StartLevel
  <2> QED
    BY <1>7, <2>1
<1>8. CASE s = "PERSONALIZED_PLAN"
  <2>1. what = "complete" \/ what = "LEVEL_SELECTION"
    BY <1>8 DEF J!Offers, J!SelfReportedPlan
  <2> QED
    BY <1>8, <2>1
<1>9. CASE s = "TEST" \/ s = "COMPLETED"
  BY <1>9 DEF J!Offers
<1> QED
  BY <1>1, <1>2, <1>3, <1>4, <1>5, <1>6, <1>7, <1>8, <1>9 DEF Steps

LEMMA MakesAStep ==
    ASSUME NEW s \in Steps, NEW what \in Buttons
    PROVE  J!Makes(what, s) \in Steps
<1> USE DEF Steps, Back
<1>1. CASE what \in Back
  BY <1>1 DEF J!Makes
<1>2. CASE what \notin Back
  BY <1>2 DEF J!Makes, Buttons
<1> QED
  BY <1>1, <1>2

States == [step : Steps, ver : Nat]

Presses == [id : Nat, what : Buttons, at : {"sent", "written", "answered", "failed"}, on : BOOLEAN,
            from : Nat, got : States \union {J!Nowhere}]

JourneyTypes ==
    /\ server \in States /\ reported \in [step : Steps, ver : Nat, old : BOOLEAN]
    /\ pressing \subseteq Presses /\ presses \in Nat

\* A version of the state that the client has, or will have, is the server's or older.
Known(st) == st.ver <= server.ver /\ (st.ver = server.ver => st.step = server.step)

PressIsKnown(c) ==
    /\ c.at = "answered" => c.got \in States /\ Known(c.got)
    /\ c.from <= server.ver /\ (c.from = server.ver => c.what \in J!Offers(server.step))

ReadIsKnown == loading.at = "read" => loading.got \in States /\ Known(loading.got)

\* The newest version is on its way, or will be asked for.
Brings(c) ==
    \/ c.at \in {"written", "failed"}
    \/ c.at = "answered" /\ (c.what = "setup" \/ c.got.ver = server.ver)

NewsComes ==
    \/ \E c \in pressing : Brings(c)
    \/ loading.at = "asked" \/ (loading.at = "read" /\ loading.got.ver = server.ver)

JourneyInv ==
    /\ JourneyTypes /\ Known(reported) /\ ReadIsKnown
    /\ \A c \in pressing : PressIsKnown(c)
    /\ ~adrift /\ reported.ver # server.ver => NewsComes
    /\ unloaded => adrift
    /\ ~refused

LEMMA JourneyStart == Init => JourneyInv
<1> SUFFICES ASSUME Init PROVE JourneyInv
  OBVIOUS
<1>1. J!JourneyInit
  BY DEF Init
<1>2. PICK s \in {"PROFILE", "LEVEL_SELECTION"} :
         /\ server = [step |-> s, ver |-> 1] /\ reported = [step |-> s, ver |-> 1, old |-> FALSE]
         /\ loading = J!NoRead /\ pressing = {} /\ presses = 0 /\ ~refused /\ ~unloaded
  BY <1>1 DEF J!JourneyInit
<1>3. JourneyTypes
  BY <1>2 DEF JourneyTypes, States, Steps
<1>4. loading.at # "read"
  BY <1>2 DEF J!NoRead
<1> QED
  BY <1>2, <1>3, <1>4 DEF JourneyInv, Known, ReadIsKnown

\* Buttons that do not wait for an answer any more have still been pressed.
LEMMA UnlessKeeps ==
    ASSUME NEW s, NEW U \in SUBSET Presses
    PROVE  /\ J!Unless(s, U) \subseteq Presses
           /\ \A d \in J!Unless(s, U) : \E c \in U :
                  d.what = c.what /\ d.at = c.at /\ d.from = c.from /\ d.got = c.got
           /\ \A c \in U : \E d \in J!Unless(s, U) :
                  d.what = c.what /\ d.at = c.at /\ d.from = c.from /\ d.got = c.got
<1>1. CASE s = reported.step
  BY <1>1 DEF J!Unless
<1>2. CASE s # reported.step
  <2>1. J!Unless(s, U) = {[c EXCEPT !.on = FALSE] : c \in U}
    BY <1>2 DEF J!Unless
  <2>2. \A c \in U : LET d == [c EXCEPT !.on = FALSE] IN
            d \in Presses /\ d.what = c.what /\ d.at = c.at /\ d.from = c.from /\ d.got = c.got
    BY DEF Presses
  <2> QED
    BY <2>1, <2>2
<1> QED
  BY <1>1, <1>2

\* An answer is older than what the client has, or newer, or the newest.
LEMMA HasIsKnown ==
    ASSUME JourneyInv, NEW st \in States, Known(st), J!Has(st), UNCHANGED server
    PROVE  /\ reported' \in [step : Steps, ver : Nat, old : BOOLEAN] /\ Known(reported)'
           /\ ~adrift' /\ reported'.ver # server'.ver =>
                  ~adrift /\ reported.ver # server.ver /\ st.ver # server.ver
<1>1. reported' = [step |-> st.step, ver |-> st.ver, old |-> FALSE]
  BY DEF J!Has
<1>2. ~adrift' /\ st.ver # server.ver => ~adrift /\ ~(st.ver < reported.ver)
  BY DEF J!Has
<1>3. /\ server.ver \in Nat /\ reported.ver \in Nat /\ st.ver \in Nat /\ st.step \in Steps
      /\ st.ver <= server.ver /\ (st.ver = server.ver => st.step = server.step)
  BY DEF JourneyInv, JourneyTypes, States, Known
<1>4. reported'.ver = st.ver /\ reported'.step = st.step /\ server' = server
  BY <1>1
<1>5. reported' \in [step : Steps, ver : Nat, old : BOOLEAN]
  BY <1>1, <1>3
<1>6. Known(reported)'
  BY <1>3, <1>4 DEF Known
<1>7. ASSUME ~adrift', reported'.ver # server'.ver
      PROVE  ~adrift /\ reported.ver # server.ver /\ st.ver # server.ver
  <2>1. st.ver # server.ver
    BY <1>4, <1>7
  <2>2. ~adrift /\ ~(st.ver < reported.ver)
    BY <1>2, <1>7, <2>1
  <2> QED
    BY <1>3, <2>1, <2>2
<1> QED
  BY <1>5, <1>6, <1>7

\* An answer comes: if it is not the newest, the newest is still on its way.
LEMMA AnswerIsHad ==
    ASSUME JourneyInv, NEW U \in SUBSET pressing, NEW st \in States, Known(st), J!Has(st),
           pressing' = J!Unless(st.step, U), unloaded' = FALSE, UNCHANGED <<server, presses, refused>>,
           ReadIsKnown',
           st.ver # server.ver /\ NewsComes =>
               \/ \E c \in U : Brings(c)
               \/ loading'.at = "asked" \/ (loading'.at = "read" /\ loading'.got.ver = server.ver)
    PROVE  JourneyInv'
<1>0. server \in States /\ presses \in Nat /\ ~refused /\ pressing \in SUBSET Presses /\ \A c \in pressing : PressIsKnown(c)
  BY DEF JourneyInv, JourneyTypes
<1>1. /\ reported' \in [step : Steps, ver : Nat, old : BOOLEAN] /\ Known(reported)'
      /\ ~adrift' /\ reported'.ver # server'.ver =>
             ~adrift /\ reported.ver # server.ver /\ st.ver # server.ver
  BY HasIsKnown
<1>2. U \in SUBSET Presses
  BY <1>0
<1>3. /\ pressing' \subseteq Presses
      /\ \A d \in pressing' : \E c \in U :
             d.what = c.what /\ d.at = c.at /\ d.from = c.from /\ d.got = c.got
      /\ \A c \in U : \E d \in pressing' :
             d.what = c.what /\ d.at = c.at /\ d.from = c.from /\ d.got = c.got
  BY <1>2, UnlessKeeps
<1>4. JourneyTypes'
  BY <1>0, <1>1, <1>3 DEF JourneyTypes
<1>5. \A d \in pressing' : PressIsKnown(d)'
  BY <1>0, <1>3 DEF PressIsKnown, Known
<1>6. ~adrift' /\ reported'.ver # server'.ver => NewsComes'
  <2> SUFFICES ASSUME ~adrift', reported'.ver # server'.ver PROVE NewsComes'
    OBVIOUS
  <2>1. NewsComes /\ st.ver # server.ver
    BY <1>1 DEF JourneyInv
  <2>2. CASE \E c \in U : Brings(c)
    BY <1>3, <2>2 DEF Brings, NewsComes
  <2>3. CASE loading'.at = "asked" \/ (loading'.at = "read" /\ loading'.got.ver = server.ver)
    BY <2>3 DEF NewsComes
  <2> QED
    BY <2>1, <2>2, <2>3
<1> QED
  BY <1>0, <1>1, <1>4, <1>5, <1>6 DEF JourneyInv

\* A request goes on: the others are as they were.
LEMMA PressesStep ==
    ASSUME JourneyInv,
           \E c \in pressing : J!Write(c) \/ J!Read(c) \/ J!Answer(c) \/ J!Fails(c) \/ J!Lose(c)
    PROVE  JourneyInv'
<1>0. PICK c \in pressing : J!Write(c) \/ J!Read(c) \/ J!Answer(c) \/ J!Fails(c) \/ J!Lose(c)
  OBVIOUS
<1>1. /\ server \in States /\ presses \in Nat /\ ~refused /\ c \in Presses /\ pressing \subseteq Presses
      /\ reported \in [step : Steps, ver : Nat, old : BOOLEAN]
      /\ Known(reported) /\ ReadIsKnown /\ (unloaded => adrift)
      /\ \A d \in pressing : PressIsKnown(d)
      /\ ~adrift /\ reported.ver # server.ver => NewsComes
  BY DEF JourneyInv, JourneyTypes
<1>2. CASE J!Write(c)
  <2>1. PICK ready \in BOOLEAN :
            LET taken == J!Takes(c.what, server.step) /\ (c.what = "complete" => ready) IN
                /\ (c.what # "complete" => ready)
                /\ server' = IF taken THEN J!Written(c.what) ELSE server
                /\ pressing' = (pressing \ {c}) \union {[c EXCEPT !.at = IF taken THEN "written" ELSE "failed"]}
                /\ refused' = (refused \/ (ready /\ ~taken /\ c.from = server.ver))
    BY <1>2 DEF J!Write
  <2>2. PICK taken \in BOOLEAN : taken <=> J!Takes(c.what, server.step) /\ (c.what = "complete" => ready)
    OBVIOUS
  <2>3. UNCHANGED <<reported, loading, unloaded, presses, adrift>>
    BY <1>2 DEF J!Write
  <2>4. PICK d : d = [c EXCEPT !.at = IF taken THEN "written" ELSE "failed"]
    OBVIOUS
  <2>5. d \in Presses /\ d.at \in {"written", "failed"} /\ d.from = c.from /\ d.what = c.what
    BY <1>1, <2>4 DEF Presses
  <2>6. pressing' = (pressing \ {c}) \union {d}
    BY <2>1, <2>2, <2>4
  <2>7. server' = IF taken THEN J!Written(c.what) ELSE server
    BY <2>1, <2>2
  <2>8. /\ server' \in States /\ server.ver \in Nat /\ server'.ver >= server.ver
        /\ server'.ver = server.ver => server' = server
    <3>1. J!Makes(c.what, server.step) \in Steps
      BY <1>1, MakesAStep DEF States, Presses
    <3>2. CASE server' = server
      BY <1>1, <3>2 DEF States
    <3>3. CASE server' # server
      <4>1. server' = [step |-> J!Makes(c.what, server.step), ver |-> server.ver + 1]
        BY <2>7, <3>3 DEF J!Written
      <4> QED
        BY <1>1, <3>1, <4>1 DEF States
    <3> QED
      BY <3>2, <3>3
  <2>9. \A st : Known(st) /\ st.ver \in Nat => Known(st)'
    <3>1. SUFFICES ASSUME NEW st, Known(st), st.ver \in Nat PROVE Known(st)'
      OBVIOUS
    <3>2. server'.ver \in Nat /\ server.ver \in Nat /\ server.ver <= server'.ver
      BY <2>8 DEF States
    <3>3. st.ver <= server.ver /\ (st.ver = server.ver => st.step = server.step)
      BY <3>1 DEF Known
    <3>4. st.ver = server'.ver => st.step = server'.step
      BY <2>8, <3>1, <3>2, <3>3
    <3> QED
      BY <3>1, <3>2, <3>3, <3>4 DEF Known
  <2>10. ~refused'
    <3>1. ASSUME c.from = server.ver, ready PROVE taken
      <4>1. c.what \in J!Offers(server.step)
        BY <1>1, <3>1 DEF PressIsKnown
      <4>2. J!Takes(c.what, server.step)
        BY <1>1, <4>1, OffersAreTaken DEF States
      <4> QED
        BY <2>2, <3>1, <4>2
    <3>2. refused' = (refused \/ (ready /\ ~taken /\ c.from = server.ver))
      BY <2>1, <2>2, Zenon
    <3> QED
      BY <1>1, <3>1, <3>2
  <2>11. JourneyTypes'
    BY <1>1, <2>3, <2>5, <2>6, <2>8 DEF JourneyTypes
  <2>12. ASSUME NEW e \in pressing' PROVE PressIsKnown(e)'
    <3>1. PICK f \in pressing : f.from = e.from /\ f.what = e.what /\ (e.at = "answered" => e = f)
      BY <2>5, <2>6, <2>12
    <3>2. e \in Presses /\ PressIsKnown(f)
      BY <1>1, <2>5, <2>6, <2>12, <3>1
    <3>3. e.at = "answered" => e.got \in States /\ Known(e.got)'
      BY <2>9, <3>1, <3>2 DEF PressIsKnown, States
    <3>4. e.from <= server'.ver /\ (e.from = server'.ver => e.what \in J!Offers(server'.step))
      BY <2>8, <3>1, <3>2 DEF PressIsKnown, Presses, States
    <3> QED
      BY <3>3, <3>4 DEF PressIsKnown
  <2>13. NewsComes'
    BY <2>5, <2>6 DEF NewsComes, Brings
  <2>14. Known(reported)' /\ ReadIsKnown'
    BY <1>1, <2>3, <2>9 DEF ReadIsKnown, States, Known
  <2> QED
    BY <1>1, <2>3, <2>10, <2>11, <2>12, <2>13, <2>14 DEF JourneyInv
<1>3. CASE J!Read(c)
  <2>1. PICK d : d = [c EXCEPT !.at = "answered", !.got = server]
    OBVIOUS
  <2>2. d \in Presses /\ d.at = "answered" /\ d.got = server /\ d.from = c.from /\ d.what = c.what
    BY <1>1, <2>1 DEF Presses
  <2>3. pressing' = (pressing \ {c}) \union {d} /\ UNCHANGED <<server, reported, loading, unloaded, adrift, presses, refused>>
    BY <1>3, <2>1 DEF J!Read, J!Same
  <2>4. JourneyTypes'
    BY <1>1, <2>2, <2>3 DEF JourneyTypes
  <2>5. \A e \in pressing' : PressIsKnown(e)'
    <3>1. PressIsKnown(d)
      BY <1>1, <2>2 DEF PressIsKnown, Known, States
    <3> QED
      BY <1>1, <2>3, <3>1 DEF PressIsKnown, Known
  <2>6. NewsComes'
    BY <2>2, <2>3 DEF NewsComes, Brings
  <2>7. Known(reported)' /\ ReadIsKnown'
    BY <1>1, <2>3 DEF ReadIsKnown, Known
  <2> QED
    BY <1>1, <2>3, <2>4, <2>5, <2>6, <2>7 DEF JourneyInv
<1>4. ASSUME pressing' = pressing \ {c}, loading'.at = "asked", UNCHANGED <<server, reported, unloaded, adrift, presses, refused>>
      PROVE  JourneyInv'
  <2>1. JourneyTypes'
    BY <1>1, <1>4 DEF JourneyTypes
  <2>2. \A e \in pressing' : PressIsKnown(e)'
    BY <1>1, <1>4 DEF PressIsKnown, Known
  <2>3. NewsComes' /\ ReadIsKnown' /\ Known(reported)'
    BY <1>1, <1>4 DEF NewsComes, ReadIsKnown, Known
  <2> QED
    BY <1>1, <1>4, <2>1, <2>2, <2>3 DEF JourneyInv
<1>5. CASE J!Answer(c)
  <2>1. CASE c.what = "setup"
    BY <1>4, <1>5, <2>1 DEF J!Answer, J!Ask, J!NoRead, J!Same
  <2>2. CASE c.what # "setup"
    <3>1. /\ J!Has(c.got) /\ pressing' = J!Unless(c.got.step, pressing \ {c}) /\ unloaded' = FALSE
          /\ UNCHANGED <<loading, server, presses, refused>> /\ c.at = "answered"
      BY <1>5, <2>2 DEF J!Answer, J!Same
    <3>2. c.got \in States /\ Known(c.got)
      BY <1>1, <3>1 DEF PressIsKnown
    <3>3. ReadIsKnown'
      BY <1>1, <3>1 DEF ReadIsKnown, Known
    <3>4. c.got.ver # server.ver /\ NewsComes =>
              \/ \E d \in pressing \ {c} : Brings(d)
              \/ loading'.at = "asked" \/ (loading'.at = "read" /\ loading'.got.ver = server.ver)
      BY <2>2, <3>1 DEF NewsComes, Brings
    <3> QED
      BY <3>1, <3>2, <3>3, <3>4, AnswerIsHad
  <2> QED
    BY <2>1, <2>2
<1>6. CASE J!Fails(c)
  <2>1. CASE c.what = "setup"
    <3>1. /\ adrift' = TRUE /\ pressing' = pressing \ {c}
          /\ UNCHANGED <<loading, server, reported, unloaded, presses, refused>>
      BY <1>6, <2>1 DEF J!Fails, J!Same
    <3>2. JourneyTypes'
      BY <1>1, <3>1 DEF JourneyTypes
    <3>3. \A e \in pressing' : PressIsKnown(e)'
      BY <1>1, <3>1 DEF PressIsKnown, Known
    <3>4. ReadIsKnown' /\ Known(reported)'
      BY <1>1, <3>1 DEF ReadIsKnown, Known
    <3> QED
      BY <1>1, <3>1, <3>2, <3>3, <3>4 DEF JourneyInv
  <2>2. CASE c.what # "setup"
    BY <1>4, <1>6, <2>2 DEF J!Fails, J!Ask, J!NoRead, J!Same
  <2> QED
    BY <2>1, <2>2
<1>7. CASE J!Lose(c)
  <2>1. PICK d : d = [c EXCEPT !.at = "failed"]
    OBVIOUS
  <2>2. d \in Presses /\ d.at = "failed" /\ d.from = c.from /\ d.what = c.what
    BY <1>1, <2>1 DEF Presses
  <2>3. pressing' = (pressing \ {c}) \union {d} /\ UNCHANGED <<server, reported, loading, unloaded, adrift, presses, refused>>
    BY <1>7, <2>1 DEF J!Lose
  <2>4. JourneyTypes'
    BY <1>1, <2>2, <2>3 DEF JourneyTypes
  <2>5. \A e \in pressing' : PressIsKnown(e)'
    <3>1. PressIsKnown(d)
      BY <1>1, <2>2 DEF PressIsKnown
    <3> QED
      BY <1>1, <2>3, <3>1 DEF PressIsKnown, Known
  <2>6. NewsComes' /\ Known(reported)' /\ ReadIsKnown'
    BY <1>1, <2>2, <2>3 DEF NewsComes, Brings, ReadIsKnown, Known
  <2> QED
    BY <1>1, <2>3, <2>4, <2>5, <2>6 DEF JourneyInv
<1> QED
  BY <1>0, <1>2, <1>3, <1>5, <1>6, <1>7

\* Reading the state, pressing a button, and what is done elsewhere.
LEMMA StateStep ==
    ASSUME JourneyInv,
           \/ J!Get \/ J!Got \/ J!NotGot \/ J!Retry \/ J!Grow \/ J!JourneyGuard
           \/ \E what \in J!Offers(reported.step) : J!Press(what)
           \/ \E what \in J!Offers(server.step) : J!Elsewhere(what)
    PROVE  JourneyInv'
<1>1. /\ server \in States /\ presses \in Nat /\ ~refused /\ pressing \subseteq Presses
      /\ reported \in [step : Steps, ver : Nat, old : BOOLEAN]
      /\ Known(reported) /\ ReadIsKnown /\ (unloaded => adrift)
      /\ \A d \in pressing : PressIsKnown(d)
      /\ ~adrift /\ reported.ver # server.ver => NewsComes
  BY DEF JourneyInv, JourneyTypes
<1>2. ASSUME UNCHANGED <<server, pressing, presses, refused, reported>>, ReadIsKnown',
             unloaded' => adrift',
             ~adrift' /\ reported.ver # server.ver => NewsComes'
      PROVE  JourneyInv'
  <2>1. JourneyTypes'
    BY <1>1, <1>2 DEF JourneyTypes
  <2>2. \A e \in pressing' : PressIsKnown(e)'
    BY <1>1, <1>2 DEF PressIsKnown, Known
  <2>3. Known(reported)'
    BY <1>1, <1>2 DEF Known
  <2> QED
    BY <1>1, <1>2, <2>1, <2>2, <2>3 DEF JourneyInv
<1>3. CASE J!Get
  <2>1. /\ loading' = [at |-> "read", got |-> server]
        /\ UNCHANGED <<server, pressing, presses, refused, reported, unloaded, adrift>>
    BY <1>3 DEF J!Get, J!Same
  <2>2. ReadIsKnown' /\ NewsComes'
    BY <1>1, <2>1 DEF ReadIsKnown, Known, NewsComes, States
  <2> QED
    BY <1>1, <1>2, <2>1, <2>2
<1>4. CASE J!Got
  <2>1. /\ J!Has(loading.got) /\ pressing' = J!Unless(loading.got.step, pressing) /\ unloaded' = FALSE
        /\ loading' = J!NoRead /\ UNCHANGED <<server, presses, refused>> /\ loading.at = "read"
    BY <1>4 DEF J!Got, J!Same
  <2>2. loading.got \in States /\ Known(loading.got)
    BY <1>1, <2>1 DEF ReadIsKnown
  <2>3. ReadIsKnown'
    BY <2>1 DEF ReadIsKnown, J!NoRead
  <2>4. loading.got.ver # server.ver /\ NewsComes => \E d \in pressing : Brings(d)
    BY <2>1 DEF NewsComes
  <2> QED
    BY <2>1, <2>2, <2>3, <2>4, AnswerIsHad
<1>5. CASE J!NotGot
  <2>1. loading' = J!NoRead /\ adrift' = TRUE /\ UNCHANGED <<server, pressing, presses, refused, reported>>
    BY <1>5 DEF J!NotGot
  <2>2. ReadIsKnown'
    BY <2>1 DEF ReadIsKnown, J!NoRead
  <2> QED
    BY <1>2, <2>1, <2>2
<1>6. ASSUME loading'.at = "asked", UNCHANGED <<server, pressing, presses, refused, reported, unloaded, adrift>>
      PROVE  JourneyInv'
  <2>1. ReadIsKnown' /\ NewsComes'
    BY <1>6 DEF ReadIsKnown, NewsComes
  <2> QED
    BY <1>1, <1>2, <1>6, <2>1
<1>7. CASE J!Retry
  BY <1>6, <1>7 DEF J!Retry, J!Same, J!Ask, J!NoRead
<1>8. CASE J!Grow
  <2>1. /\ reported' = [reported EXCEPT !.old = TRUE]
        /\ UNCHANGED <<loading, server, pressing, presses, refused, unloaded, adrift>>
    BY <1>8 DEF J!Grow, J!Same
  <2>2. /\ reported' \in [step : Steps, ver : Nat, old : BOOLEAN]
        /\ reported'.ver = reported.ver /\ reported'.step = reported.step
    BY <1>1, <2>1
  <2>3. JourneyTypes'
    BY <1>1, <2>1, <2>2 DEF JourneyTypes
  <2>4. \A e \in pressing' : PressIsKnown(e)'
    BY <1>1, <2>1 DEF PressIsKnown, Known
  <2>5. Known(reported)' /\ ReadIsKnown'
    BY <1>1, <2>1, <2>2 DEF Known, ReadIsKnown
  <2>6. NewsComes => NewsComes'
    BY <2>1 DEF NewsComes, Brings
  <2> QED
    BY <1>1, <2>1, <2>2, <2>3, <2>4, <2>5, <2>6 DEF JourneyInv
<1>9. CASE J!JourneyGuard
  <2>1. UNCHANGED <<server, pressing, presses, refused, reported, unloaded, adrift>>
    BY <1>9 DEF J!JourneyGuard
  <2>2. CASE loading' = loading
    <3>1. ReadIsKnown' /\ (NewsComes => NewsComes')
      BY <1>1, <2>1, <2>2 DEF ReadIsKnown, Known, NewsComes, Brings
    <3> QED
      BY <1>1, <1>2, <2>1, <3>1
  <2>3. CASE loading' # loading
    <3>1. loading'.at = "asked"
      BY <1>9, <2>3 DEF J!JourneyGuard, J!Ask, J!NoRead
    <3> QED
      BY <1>6, <2>1, <3>1
  <2> QED
    BY <2>2, <2>3
<1>10. ASSUME NEW what \in J!Offers(reported.step), J!Press(what) PROVE JourneyInv'
  <2>1. PICK d : d = [id |-> presses + 1, what |-> what, at |-> "sent", on |-> TRUE, from |-> reported.ver,
                      got |-> J!Nowhere]
    OBVIOUS
  <2>2. what \in Buttons
    BY <1>1, OffersAreTaken
  <2>3. d \in Presses /\ d.at = "sent" /\ d.from = reported.ver /\ d.what = what
    BY <1>1, <2>1, <2>2 DEF Presses
  <2>4. /\ presses' = presses + 1 /\ pressing' = pressing \union {d}
        /\ UNCHANGED <<server, reported, loading, unloaded, adrift, refused>>
    BY <1>10, <2>1 DEF J!Press
  <2>5. JourneyTypes'
    BY <1>1, <2>3, <2>4 DEF JourneyTypes
  <2>6. PressIsKnown(d)
    BY <1>1, <2>3 DEF PressIsKnown, Known
  <2>7. \A e \in pressing' : PressIsKnown(e)'
    BY <1>1, <2>4, <2>6 DEF PressIsKnown, Known
  <2>8. ReadIsKnown' /\ Known(reported)' /\ (NewsComes => NewsComes')
    BY <1>1, <2>4 DEF ReadIsKnown, Known, NewsComes, Brings
  <2> QED
    BY <1>1, <2>4, <2>5, <2>7, <2>8 DEF JourneyInv
<1>11. ASSUME NEW what \in J!Offers(server.step), J!Elsewhere(what) PROVE JourneyInv'
  <2>1. /\ presses' = presses + 1 /\ server' = J!Written(what) /\ adrift' = TRUE
        /\ UNCHANGED <<reported, loading, unloaded, pressing, refused>>
    BY <1>11 DEF J!Elsewhere
  <2>2. J!Makes(what, server.step) \in Steps
    BY <1>1, OffersAreTaken, MakesAStep DEF States
  <2>3. /\ server' \in States /\ server.ver \in Nat /\ server'.ver \in Nat /\ server'.ver >= server.ver
        /\ server'.ver = server.ver => server' = server
    <3>1. CASE server' = server
      BY <1>1, <3>1 DEF States
    <3>2. CASE server' # server
      <4>1. server' = [step |-> J!Makes(what, server.step), ver |-> server.ver + 1]
        BY <2>1, <3>2 DEF J!Written
      <4> QED
        BY <1>1, <2>2, <4>1 DEF States
    <3> QED
      BY <3>1, <3>2
  <2>4. ASSUME NEW st, Known(st), st.ver \in Nat PROVE Known(st)'
    <3>1. st.ver <= server.ver /\ (st.ver = server.ver => st.step = server.step)
      BY <2>4 DEF Known
    <3>2. st.ver = server'.ver => st.step = server'.step
      BY <2>3, <2>4, <3>1
    <3> QED
      BY <2>3, <2>4, <3>1, <3>2 DEF Known
  <2>5. JourneyTypes'
    BY <1>1, <2>1, <2>3 DEF JourneyTypes
  <2>6. ASSUME NEW e \in pressing' PROVE PressIsKnown(e)'
    <3>1. PressIsKnown(e) /\ e \in Presses
      BY <1>1, <2>1, <2>6
    <3>2. e.at = "answered" => e.got \in States /\ Known(e.got)'
      BY <2>4, <3>1 DEF PressIsKnown, States
    <3>3. e.from <= server'.ver /\ (e.from = server'.ver => e.what \in J!Offers(server'.step))
      BY <2>3, <3>1 DEF PressIsKnown, Presses
    <3> QED
      BY <3>2, <3>3 DEF PressIsKnown
  <2>7. Known(reported)' /\ ReadIsKnown'
    BY <1>1, <2>1, <2>4 DEF ReadIsKnown, States
  <2> QED
    BY <1>1, <2>1, <2>5, <2>6, <2>7 DEF JourneyInv
<1> QED
  BY <1>3, <1>4, <1>5, <1>7, <1>8, <1>9, <1>10, <1>11

(* A page of the journey, at rest, shows the step the server is at, unless *)
(* an older answer came last, a read or the profile's form failed, or      *)
(* another device went on; and no button of the step that the learner is   *)
(* at is refused: the client's table of the buttons of a step fits the     *)
(* server's of what it takes (features/onboarding, internal/onboarding).   *)
THEOREM JourneyIsShown == Spec => []StepIsTheServers
<1>1. JourneyInv /\ [Next]_pageVars => JourneyInv'
  <2> SUFFICES ASSUME JourneyInv, [Next]_pageVars PROVE JourneyInv'
    OBVIOUS
  <2>1. CASE UNCHANGED journey
    <3>1. UNCHANGED <<server, reported, loading, unloaded, pressing, presses, adrift, refused>>
      BY <2>1 DEF journey
    <3>2. JourneyTypes'
      BY <3>1 DEF JourneyInv, JourneyTypes
    <3>3. Known(reported)' /\ ReadIsKnown' /\ \A c \in pressing' : PressIsKnown(c)'
      BY <3>1 DEF JourneyInv, Known, ReadIsKnown, PressIsKnown
    <3>4. NewsComes' = NewsComes
      BY <3>1 DEF NewsComes, Brings
    <3> QED
      BY <3>1, <3>2, <3>3, <3>4 DEF JourneyInv
  <2>2. CASE J!JourneyNext
    <3>1. CASE \E c \in pressing : J!Write(c) \/ J!Read(c) \/ J!Answer(c) \/ J!Fails(c) \/ J!Lose(c)
      BY <3>1, PressesStep
    <3>2. CASE \/ J!Get \/ J!Got \/ J!NotGot \/ J!Retry \/ J!Grow \/ J!JourneyGuard
               \/ \E what \in J!Offers(reported.step) : J!Press(what)
               \/ \E what \in J!Offers(server.step) : J!Elsewhere(what)
      BY <3>2, StateStep
    <3> QED
      BY <2>2, <3>1, <3>2 DEF J!JourneyNext
  <2> QED
    BY <2>1, <2>2, PageSteps
<1>2. JourneyInv => StepIsTheServers
  BY DEF JourneyInv, NewsComes, StepIsTheServers, J!StepIsTheServers, J!NoRead
<1> QED
  BY <1>1, <1>2, JourneyStart, PTL DEF Spec

-----------------------------------------------------------------------------
(* Questions to the model.                                                 *)

Inquiries == [id : Nat, by : Askers, of : Topics, at : {"sent", "charged", "written", "answered", "failed"},
              text : Nat, alone : BOOLEAN]

AskTypes ==
    /\ inquiries \subseteq Inquiries /\ asked \in Nat
    /\ latest \in [Askers -> [id : Nat, of : Topics \union {Nothing}]]
    /\ heard \in [Askers -> [of : Topics, text : Nat, alone : BOOLEAN] \union {Nothing}]
    /\ kept \in [Topics -> Nat] /\ spent \in [Askers -> Int]
    /\ wrote \subseteq [id : Nat, by : Askers]

\* A question is known by its number, and so is the last one of a page.
AsksAreOwn ==
    /\ \A r \in inquiries : r.id <= asked
    /\ \A r, u \in inquiries : r.id = u.id => r = u
    /\ \A r \in inquiries : r.id = latest[r.by].id => r.of = latest[r.by].of

\* What is answered, and shown, is what is kept.
Shared(what) == what.text \in {0, kept[what.of]} \/ what.alone

TextsAreKept ==
    /\ \A r \in inquiries : r.at = "answered" => Shared(r)
    /\ \A a \in Askers : heard[a] # Nothing => heard[a].of = latest[a].of /\ Shared(heard[a])

WroteFor(a) == {w \in wrote : w.by = a}
ChargedTo(a) == {r \in inquiries : r.by = a /\ r.at = "charged"}

\* A question is charged for, or written for; a text is written once for it.
ChargesAreDue ==
    /\ IsFiniteSet(inquiries) /\ IsFiniteSet(wrote)
    /\ \A w \in wrote : w.id <= asked
    /\ \A r \in inquiries, w \in wrote : r.at \in {"sent", "charged"} => w.id # r.id
    /\ ~desk.free => \A a \in Askers : spent[a] = Cardinality(WroteFor(a)) + Cardinality(ChargedTo(a))

AskInv == AskTypes /\ AsksAreOwn /\ TextsAreKept /\ ChargesAreDue

LEMMA AskStart == Init => AskInv
<1> SUFFICES ASSUME Q!AsksInit PROVE AskInv
  BY DEF Init
<1>1. /\ latest = [a \in Askers |-> [id |-> 0, of |-> Nothing]] /\ heard = [a \in Askers |-> Nothing]
      /\ inquiries = {} /\ kept = [t \in Topics |-> 0] /\ wrote = {}
      /\ spent = [a \in Askers |-> 0] /\ asked = 0
  BY DEF Q!AsksInit
<1>2. AskTypes
  BY <1>1 DEF AskTypes
<1>3. AsksAreOwn /\ TextsAreKept
  BY <1>1 DEF AsksAreOwn, TextsAreKept
<1>4. \A a \in Askers : WroteFor(a) = {} /\ ChargedTo(a) = {} /\ spent[a] = 0
  BY <1>1 DEF WroteFor, ChargedTo
<1>5. ChargesAreDue
  BY <1>1, <1>4, FS_EmptySet DEF ChargesAreDue
<1> QED
  BY <1>2, <1>3, <1>5 DEF AskInv

\* A question goes on: what it is, and for whom, stays.
Goes(r, what) ==
    /\ r \in inquiries /\ what \in Inquiries /\ inquiries' = (inquiries \ {r}) \union {what}
    /\ what.id = r.id /\ what.by = r.by /\ what.of = r.of
    /\ what.at = "answered" => what.text \in {0, kept'[what.of]} \/ what.alone
    /\ kept' \in [Topics -> Nat] /\ \A t \in Topics : kept[t] # 0 => kept'[t] = kept[t]
    /\ UNCHANGED <<desk, latest, heard, asked>>

LEMMA QuestionGoesOn ==
    ASSUME AskInv, NEW r, NEW what, Goes(r, what)
    PROVE  /\ inquiries' \subseteq Inquiries /\ AsksAreOwn' /\ TextsAreKept'
           /\ asked' \in Nat /\ latest' = latest /\ heard' = heard
<1> USE DEF AskInv, Goes
<1>1. inquiries' \subseteq Inquiries /\ asked' \in Nat
  BY DEF AskTypes
<1>2. AsksAreOwn'
  <2>1. \A u \in inquiries' : \E v \in inquiries : v.id = u.id /\ v.by = u.by /\ v.of = u.of /\ (v = u \/ u = what)
    OBVIOUS
  <2>2. \A u, v \in inquiries' : u.id = v.id => u = v
    BY DEF AsksAreOwn
  <2>3. \A u \in inquiries' : u.id <= asked' /\ (u.id = latest'[u.by].id => u.of = latest'[u.by].of)
    BY <2>1 DEF AsksAreOwn
  <2> QED
    BY <2>2, <2>3 DEF AsksAreOwn
<1>3. TextsAreKept'
  <2>1. ASSUME NEW t \in Topics, NEW n, n \in {0, kept[t]} PROVE n \in {0, kept'[t]}
    BY <2>1
  <2>2. \A u \in inquiries' : u.at = "answered" => Shared(u)'
    <3>1. SUFFICES ASSUME NEW u \in inquiries', u.at = "answered" PROVE Shared(u)'
      OBVIOUS
    <3>2. CASE u = what
      BY <3>1, <3>2 DEF Shared
    <3>3. CASE u # what
      <4>1. u \in inquiries /\ Shared(u) /\ u.of \in Topics
        BY <3>1, <3>3 DEF TextsAreKept, AskTypes, Inquiries
      <4> QED
        BY <2>1, <4>1 DEF Shared
    <3> QED
      BY <3>2, <3>3
  <2>3. ASSUME NEW a \in Askers, heard[a] # Nothing
        PROVE  heard[a].of = latest[a].of /\ Shared(heard[a])'
    <3>1. heard[a].of = latest[a].of /\ Shared(heard[a]) /\ heard[a].of \in Topics
      BY <2>3 DEF TextsAreKept, AskTypes
    <3> QED
      BY <2>1, <3>1 DEF Shared
  <2> QED
    BY <2>2, <2>3 DEF TextsAreKept, Shared
<1> QED
  BY <1>1, <1>2, <1>3

\* What is charged, as a question goes on.
LEMMA ChargesGoOn ==
    ASSUME AskInv, NEW r, NEW what, Goes(r, what)
    PROVE  /\ \A a \in Askers : a # r.by => ChargedTo(a)' = ChargedTo(a)
           /\ \A a \in Askers : IsFiniteSet(ChargedTo(a)) /\ Cardinality(ChargedTo(a)) \in Nat
           /\ (r.at = "charged") = (what.at = "charged") =>
                  Cardinality(ChargedTo(r.by)') = Cardinality(ChargedTo(r.by))
           /\ r.at # "charged" /\ what.at = "charged" =>
                  Cardinality(ChargedTo(r.by)') = Cardinality(ChargedTo(r.by)) + 1
           /\ r.at = "charged" /\ what.at # "charged" =>
                  Cardinality(ChargedTo(r.by)') = Cardinality(ChargedTo(r.by)) - 1
           /\ IsFiniteSet(inquiries')
<1> USE DEF AskInv, Goes
<1> DEFINE C == ChargedTo(r.by)
<1>1. \A a \in Askers : IsFiniteSet(ChargedTo(a)) /\ Cardinality(ChargedTo(a)) \in Nat
  <2> TAKE a \in Askers
  <2>1. ChargedTo(a) \subseteq inquiries
    BY DEF ChargedTo
  <2> QED
    BY <2>1, FS_Subset, FS_CardinalityType DEF ChargesAreDue
<1>2. \A a \in Askers : a # r.by => ChargedTo(a)' = ChargedTo(a)
  BY DEF ChargedTo
<1>3. r.by \in Askers
  BY DEF AskTypes, Inquiries
<1>4. ASSUME r.at # "charged", what.at # "charged" PROVE Cardinality(C') = Cardinality(C)
  <2>1. C' = C
    BY <1>4 DEF ChargedTo
  <2> QED
    BY <2>1
<1>5. what \in inquiries => what = r
  BY DEF AsksAreOwn
<1>6. ASSUME r.at # "charged", what.at = "charged" PROVE Cardinality(C') = Cardinality(C) + 1
  <2>1. C' = C \union {what} /\ what \notin C
    BY <1>5, <1>6 DEF ChargedTo
  <2>2. Cardinality(C \union {what}) = Cardinality(C) + 1
    BY <1>1, <1>3, <2>1, FS_AddElement
  <2> QED
    BY <2>1, <2>2
<1>7. ASSUME r.at = "charged", what.at # "charged" PROVE Cardinality(C') = Cardinality(C) - 1
  <2>1. C' = C \ {r} /\ r \in C
    BY <1>7 DEF ChargedTo
  <2>2. Cardinality(C \ {r}) = Cardinality(C) - 1
    BY <1>1, <1>3, <2>1, FS_RemoveElement
  <2> QED
    BY <2>1, <2>2
<1>8. ASSUME r.at = "charged", what.at = "charged" PROVE Cardinality(C') = Cardinality(C)
  <2>1. C' = (C \ {r}) \union {what} /\ r \in C /\ what \notin C \ {r}
    BY <1>5, <1>8 DEF ChargedTo
  <2>2. Cardinality(C \ {r}) = Cardinality(C) - 1 /\ IsFiniteSet(C \ {r})
    BY <1>1, <1>3, <2>1, FS_RemoveElement
  <2>3. Cardinality((C \ {r}) \union {what}) = Cardinality(C \ {r}) + 1
    BY <2>1, <2>2, FS_AddElement
  <2> QED
    BY <1>1, <1>3, <2>1, <2>2, <2>3
<1>9. IsFiniteSet(inquiries')
  BY FS_RemoveElement, FS_AddElement DEF ChargesAreDue
<1> QED
  BY <1>1, <1>2, <1>4, <1>6, <1>7, <1>8, <1>9

LEMMA AskedOnServer ==
    ASSUME AskInv, NEW r, NEW what, Goes(r, what),
           what.at \in {"sent", "charged"} => r.at \in {"sent", "charged"},
           \/ /\ wrote' = wrote /\ spent' = spent
              /\ desk.free \/ (r.at # "charged" /\ what.at # "charged")
           \/ /\ wrote' = wrote /\ r.at = "sent" /\ what.at = "charged"
              /\ spent' = [spent EXCEPT ![r.by] = @ + 1]
           \/ /\ wrote' = wrote /\ r.at = "charged" /\ what.at = "failed"
              /\ spent' = [spent EXCEPT ![r.by] = @ - 1]
           \/ /\ wrote' = wrote \union {[id |-> r.id, by |-> r.by]} /\ spent' = spent
              /\ r.at = "charged" /\ what.at = "written"
    PROVE  AskInv'
<1> USE DEF Goes
<1>1. r \in Inquiries /\ r.by \in Askers /\ r.id \in Nat /\ r.id <= asked
  BY DEF AskInv, AskTypes, AsksAreOwn, Inquiries
<1>2. /\ inquiries' \subseteq Inquiries /\ AsksAreOwn' /\ TextsAreKept'
      /\ asked' = asked /\ latest' = latest /\ heard' = heard /\ desk' = desk
  BY QuestionGoesOn
<1>3. AskTypes'
  BY <1>1, <1>2 DEF AskInv, AskTypes
<1>4. IsFiniteSet(inquiries') /\ IsFiniteSet(wrote')
  <2>1. IsFiniteSet(inquiries')
    BY ChargesGoOn
  <2>2. IsFiniteSet(wrote)
    BY DEF AskInv, ChargesAreDue
  <2>3. IsFiniteSet(wrote \union {[id |-> r.id, by |-> r.by]})
    BY <2>2, FS_AddElement
  <2>4. wrote' = wrote \/ wrote' = wrote \union {[id |-> r.id, by |-> r.by]}
    OBVIOUS
  <2> QED
    BY <2>1, <2>2, <2>3, <2>4
<1>5. \A w \in wrote' : w.id <= asked'
  BY <1>1, <1>2 DEF AskInv, ChargesAreDue
<1>6. \A u \in inquiries', w \in wrote' : u.at \in {"sent", "charged"} => w.id # u.id
  <2>1. SUFFICES ASSUME NEW u \in inquiries', NEW w \in wrote', u.at \in {"sent", "charged"} PROVE w.id # u.id
    OBVIOUS
  <2>2. PICK v \in inquiries : v.id = u.id /\ v.at \in {"sent", "charged"} /\ (u # what => v = u /\ u # r)
    BY <2>1
  <2>3. CASE w \in wrote
    BY <2>2, <2>3 DEF AskInv, ChargesAreDue
  <2>4. CASE w = [id |-> r.id, by |-> r.by] /\ what.at = "written"
    BY <2>1, <2>2, <2>4 DEF AskInv, AsksAreOwn
  <2> QED
    BY <2>3, <2>4
<1>7. ASSUME ~desk.free, NEW a \in Askers
      PROVE  spent'[a] = Cardinality(WroteFor(a)') + Cardinality(ChargedTo(a)')
  <2>1. /\ spent[a] = Cardinality(WroteFor(a)) + Cardinality(ChargedTo(a)) /\ spent[a] \in Int
        /\ Cardinality(ChargedTo(a)) \in Nat
    BY <1>7, ChargesGoOn DEF AskInv, ChargesAreDue, AskTypes
  <2>2. IsFiniteSet(WroteFor(a)) /\ Cardinality(WroteFor(a)) \in Nat
    <3>1. WroteFor(a) \subseteq wrote
      BY DEF WroteFor
    <3> QED
      BY <3>1, FS_Subset, FS_CardinalityType DEF AskInv, ChargesAreDue
  <2>3. CASE a # r.by
    <3>1. ChargedTo(a)' = ChargedTo(a)
      BY <1>7, <2>3, ChargesGoOn
    <3>2. WroteFor(a)' = WroteFor(a)
      BY <2>3 DEF WroteFor
    <3>3. spent'[a] = spent[a]
      BY <1>1, <2>3 DEF AskInv, AskTypes
    <3> QED
      BY <2>1, <3>1, <3>2, <3>3
  <2>4. CASE a = r.by
    <3>1. CASE wrote' = wrote
      <4>1. WroteFor(a)' = WroteFor(a)
        BY <3>1 DEF WroteFor
      <4>2. CASE spent' = spent /\ r.at # "charged" /\ what.at # "charged"
        <5>1. Cardinality(ChargedTo(a)') = Cardinality(ChargedTo(a))
          BY <2>4, <4>2, ChargesGoOn
        <5> QED
          BY <2>1, <4>1, <4>2, <5>1
      <4>3. CASE r.at = "sent" /\ what.at = "charged" /\ spent' = [spent EXCEPT ![r.by] = @ + 1]
        <5>1. Cardinality(ChargedTo(a)') = Cardinality(ChargedTo(a)) + 1
          BY <2>4, <4>3, ChargesGoOn
        <5>2. spent'[a] = spent[a] + 1
          BY <2>4, <4>3 DEF AskInv, AskTypes
        <5> QED
          BY <2>1, <2>2, <4>1, <5>1, <5>2
      <4>4. CASE r.at = "charged" /\ what.at = "failed" /\ spent' = [spent EXCEPT ![r.by] = @ - 1]
        <5>1. Cardinality(ChargedTo(a)') = Cardinality(ChargedTo(a)) - 1
          BY <2>4, <4>4, ChargesGoOn
        <5>2. spent'[a] = spent[a] - 1
          BY <2>4, <4>4 DEF AskInv, AskTypes
        <5> QED
          BY <2>1, <2>2, <4>1, <5>1, <5>2
      <4>5. ASSUME wrote' = wrote \union {[id |-> r.id, by |-> r.by]}, r.at = "charged" PROVE FALSE
        <5>1. [id |-> r.id, by |-> r.by] \in wrote
          BY <3>1, <4>5
        <5>2. [id |-> r.id, by |-> r.by].id = r.id
          OBVIOUS
        <5> QED
          BY <4>5, <5>1, <5>2 DEF AskInv, ChargesAreDue
      <4>6. \/ spent' = spent /\ r.at # "charged" /\ what.at # "charged"
            \/ r.at = "sent" /\ what.at = "charged" /\ spent' = [spent EXCEPT ![r.by] = @ + 1]
            \/ r.at = "charged" /\ what.at = "failed" /\ spent' = [spent EXCEPT ![r.by] = @ - 1]
            \/ wrote' = wrote \union {[id |-> r.id, by |-> r.by]} /\ r.at = "charged"
        BY <1>7
      <4> QED
        BY <4>2, <4>3, <4>4, <4>5, <4>6
    <3>2. CASE /\ wrote' = wrote \union {[id |-> r.id, by |-> r.by]} /\ spent' = spent
               /\ r.at = "charged" /\ what.at = "written"
      <4> DEFINE it == [id |-> r.id, by |-> r.by]
      <4>1. Cardinality(ChargedTo(a)') = Cardinality(ChargedTo(a)) - 1
        BY <2>4, <3>2, ChargesGoOn
      <4>2. WroteFor(a)' = WroteFor(a) \union {it} /\ it \notin WroteFor(a)
        BY <2>4, <3>2 DEF WroteFor, AskInv, ChargesAreDue
      <4> HIDE DEF it
      <4>3. Cardinality(WroteFor(a)') = Cardinality(WroteFor(a)) + 1
        BY <2>2, <4>2, FS_AddElement
      <4> QED
        BY <2>1, <2>2, <3>2, <4>1, <4>3
    <3> QED
      BY <3>1, <3>2
  <2> QED
    BY <2>3, <2>4
<1>8. ChargesAreDue'
  BY <1>2, <1>4, <1>5, <1>6, <1>7 DEF ChargesAreDue
<1> QED
  BY <1>2, <1>3, <1>8 DEF AskInv

LEMMA AskServerSteps ==
    ASSUME AskInv, NEW r \in inquiries,
           Q!LoseAnswer(r) \/ Q!Lookup(r) \/ Q!Write(r) \/ Q!Refuse(r) \/ Q!Keep(r) \/ Q!KeepFails(r)
    PROVE  AskInv'
<1> USE DEF Q!Server, Q!Client, Q!Becomes
<1>1. r \in Inquiries /\ kept \in [Topics -> Nat] /\ r.of \in Topics /\ r.id \in Nat /\ r.by \in Askers
  BY DEF AskInv, AskTypes, Inquiries
<1>2. UNCHANGED <<desk, latest, heard, asked>>
  BY DEF Q!LoseAnswer, Q!Lookup, Q!Write, Q!Refuse, Q!Keep, Q!KeepFails
<1> DEFINE Moved(word) == [r EXCEPT !.at = word]
           Told(n) == [r EXCEPT !.at = "answered", !.text = n]
<1>3. \A word \in {"charged", "failed"} :
          /\ Moved(word) \in Inquiries /\ Moved(word).id = r.id /\ Moved(word).by = r.by /\ Moved(word).of = r.of
          /\ Moved(word).at = word
  BY <1>1 DEF Inquiries
<1>4. \A n \in Nat : /\ Told(n) \in Inquiries /\ Told(n).id = r.id /\ Told(n).by = r.by /\ Told(n).of = r.of
                     /\ Told(n).at = "answered" /\ Told(n).text = n
  BY <1>1 DEF Inquiries
<1>5. ASSUME Q!FailRequest(r), kept' = kept PROVE Goes(r, Moved("failed"))
  BY <1>1, <1>2, <1>3, <1>5 DEF Q!FailRequest, Goes
<1>6. ASSUME NEW n \in Nat, Q!Answer(r, n), n \in {0, kept'[r.of]}, kept' \in [Topics -> Nat],
             \A t \in Topics : kept[t] # 0 => kept'[t] = kept[t]
      PROVE  Goes(r, Told(n))
  BY <1>1, <1>2, <1>4, <1>6 DEF Q!Answer, Goes
<1> HIDE DEF Told, Moved
<1>7. CASE Q!LoseAnswer(r)
  <2>1. Q!FailRequest(r) /\ kept' = kept /\ r.at = "answered" /\ wrote' = wrote /\ spent' = spent
    BY <1>7 DEF Q!LoseAnswer
  <2> QED
    BY <1>3, <1>5, <2>1, AskedOnServer
<1>8. CASE Q!Lookup(r)
  <2>1. r.at = "sent" /\ kept' = kept /\ wrote' = wrote
    BY <1>8 DEF Q!Lookup
  <2>2. ASSUME NEW n \in Nat, Q!Answer(r, n), n \in {0, kept[r.of]}, spent' = spent PROVE AskInv'
    <3>1. Goes(r, Told(n))
      BY <1>1, <1>6, <2>1, <2>2
    <3> QED
      BY <1>4, <2>1, <2>2, <3>1, AskedOnServer
  <2>3. ASSUME Q!FailRequest(r), spent' = spent PROVE AskInv'
    BY <1>3, <1>5, <2>1, <2>3, AskedOnServer
  <2>4. ASSUME inquiries' = (inquiries \ {r}) \union {Moved("charged")},
               spent' = [spent EXCEPT ![r.by] = @ + 1] \/ (spent' = spent /\ desk.free)
        PROVE  AskInv'
    <3>1. Goes(r, Moved("charged"))
      BY <1>1, <1>2, <1>3, <2>1, <2>4 DEF Goes
    <3> QED
      BY <1>3, <2>1, <2>4, <3>1, AskedOnServer
  <2>5. kept[r.of] \in Nat
    BY <1>1
  <2> QED
    BY <1>8, <2>2, <2>3, <2>4, <2>5 DEF Q!Lookup, Moved
<1>9. CASE Q!Write(r)
  <2> DEFINE what == [r EXCEPT !.at = "written", !.text = r.id]
  <2>1. /\ r.at = "charged" /\ wrote' = wrote \union {[id |-> r.id, by |-> r.by]}
        /\ inquiries' = (inquiries \ {r}) \union {what} /\ kept' = kept /\ spent' = spent
    BY <1>9 DEF Q!Write
  <2>2. what \in Inquiries /\ what.id = r.id /\ what.by = r.by /\ what.of = r.of /\ what.at = "written"
    BY <1>1 DEF Inquiries
  <2> HIDE DEF what
  <2>3. Goes(r, what)
    BY <1>1, <1>2, <2>1, <2>2 DEF Goes
  <2> QED
    BY <2>1, <2>2, <2>3, AskedOnServer
<1>10. CASE Q!Refuse(r)
  <2>1. r.at = "charged" /\ kept' = kept /\ wrote' = wrote
    BY <1>10 DEF Q!Refuse
  <2>2. CASE desk.free
    <3>1. Q!Answer(r, 0) /\ spent' = spent
      BY <1>10, <2>2 DEF Q!Refuse
    <3> QED
      BY <1>1, <1>4, <1>6, <2>1, <2>2, <3>1, AskedOnServer
  <2>3. CASE ~desk.free
    <3>1. Q!FailRequest(r) /\ spent' = [spent EXCEPT ![r.by] = @ - 1]
      BY <1>10, <2>3 DEF Q!Refuse
    <3> QED
      BY <1>3, <1>5, <2>1, <3>1, AskedOnServer
  <2> QED
    BY <2>2, <2>3
<1>11. ASSUME r.at = "written", kept' = kept, wrote' = wrote, spent' = spent,
              \/ Q!FailRequest(r)
              \/ Q!Becomes(r, [r EXCEPT !.at = "answered", !.alone = TRUE])
       PROVE  AskInv'
  <2>1. CASE Q!FailRequest(r)
    BY <1>3, <1>5, <1>11, <2>1, AskedOnServer
  <2>2. CASE Q!Becomes(r, [r EXCEPT !.at = "answered", !.alone = TRUE])
    <3> DEFINE what == [r EXCEPT !.at = "answered", !.alone = TRUE]
    <3>1. /\ what \in Inquiries /\ what.id = r.id /\ what.by = r.by /\ what.of = r.of /\ what.at = "answered"
          /\ what.alone
      BY <1>1 DEF Inquiries
    <3>2. inquiries' = (inquiries \ {r}) \union {what}
      BY <2>2
    <3> HIDE DEF what
    <3>3. Goes(r, what)
      BY <1>1, <1>2, <1>11, <3>1, <3>2 DEF Goes
    <3> QED
      BY <1>11, <3>1, <3>3, AskedOnServer
  <2> QED
    BY <1>11, <2>1, <2>2
<1>12. CASE Q!Keep(r)
  <2>1. CASE kept[r.of] = 0
    <3>1. r.at = "written" /\ kept' = [kept EXCEPT ![r.of] = r.id] /\ Q!Answer(r, r.id) /\ wrote' = wrote /\ spent' = spent
      BY <1>12, <2>1 DEF Q!Keep
    <3>2. kept' \in [Topics -> Nat] /\ r.id \in {0, kept'[r.of]} /\ \A t \in Topics : kept[t] # 0 => kept'[t] = kept[t]
      BY <1>1, <2>1, <3>1
    <3> QED
      BY <1>1, <1>4, <1>6, <3>1, <3>2, AskedOnServer
  <2>2. CASE kept[r.of] # 0
    BY <1>11, <1>12, <2>2 DEF Q!Keep
  <2> QED
    BY <2>1, <2>2
<1>13. CASE Q!KeepFails(r)
  BY <1>11, <1>13 DEF Q!KeepFails
<1> QED
  BY <1>7, <1>8, <1>9, <1>10, <1>12, <1>13

\* What the pages do: they ask, hear an answer, and take the check under it.
LEMMA AskPageSteps ==
    ASSUME AskInv,
           \/ \E a \in Askers : Q!MiniCheck(a) \/ Q!Quiz(a) \/ \E t \in Topics : Q!run(a, t)
           \/ \E r \in inquiries : Q!Hear(r)
           \/ \E t \in Topics : Q!Unlock(t)
           \/ UNCHANGED questions
    PROVE  AskInv'
<1> USE DEF AskInv, Q!Client, Q!Server
<1>1. ASSUME UNCHANGED <<desk, latest, heard, inquiries, kept, wrote, spent, asked>> PROVE AskInv'
  BY <1>1 DEF AskTypes, AsksAreOwn, TextsAreKept, Shared, ChargesAreDue, WroteFor, ChargedTo
<1>2. CASE \/ \E a \in Askers : Q!MiniCheck(a) \/ Q!Quiz(a)
           \/ \E t \in Topics : Q!Unlock(t)
           \/ UNCHANGED questions
  BY <1>1, <1>2 DEF Q!MiniCheck, Q!Quiz, Q!Unlock, questions
<1>3. ASSUME NEW a \in Askers, NEW t \in Topics, Q!run(a, t) PROVE AskInv'
  <2> DEFINE r == [id |-> asked + 1, by |-> a, of |-> t, at |-> "sent", text |-> 0, alone |-> FALSE]
  <2>1. /\ inquiries' = inquiries \union {r} /\ asked' = asked + 1
        /\ latest' = [latest EXCEPT ![a] = [id |-> asked + 1, of |-> t]]
        /\ heard' = [heard EXCEPT ![a] = Nothing]
        /\ UNCHANGED <<desk, kept, wrote, spent>>
    BY <1>3 DEF Q!run
  <2>2. r \in Inquiries /\ r.id = asked + 1 /\ r.by = a /\ r.of = t /\ r.at = "sent" /\ asked \in Nat
    BY DEF AskTypes, Inquiries
  <2> HIDE DEF r
  <2>3. /\ latest'[a].id = asked + 1 /\ latest'[a].of = t
        /\ \A b \in Askers : b # a => latest'[b] = latest[b] /\ heard'[b] = heard[b]
        /\ heard'[a] = Nothing
    BY <2>1 DEF AskTypes
  <2>4. AskTypes'
    BY <2>1, <2>2 DEF AskTypes
  <2>5. AsksAreOwn'
    <3>1. \A u \in inquiries : u.id \in Nat /\ u.id <= asked /\ u.by \in Askers
      BY DEF AsksAreOwn, AskTypes, Inquiries
    <3>2. \A u, v \in inquiries' : u.id = v.id => u = v
      BY <2>1, <2>2, <3>1 DEF AsksAreOwn
    <3>3. \A u \in inquiries' : u.id <= asked' /\ (u.id = latest'[u.by].id => u.of = latest'[u.by].of)
      BY <2>1, <2>2, <2>3, <3>1 DEF AsksAreOwn
    <3> QED
      BY <3>2, <3>3 DEF AsksAreOwn
  <2>6. TextsAreKept'
    BY <2>1, <2>2, <2>3 DEF TextsAreKept, Shared
  <2>7. ChargesAreDue'
    <3>1. IsFiniteSet(inquiries') /\ IsFiniteSet(wrote')
      BY <2>1, FS_AddElement DEF ChargesAreDue
    <3>2. \A w \in wrote : w.id \in Nat /\ w.id <= asked
      BY DEF ChargesAreDue, AskTypes
    <3>3. \A b \in Askers : WroteFor(b)' = WroteFor(b) /\ ChargedTo(b)' = ChargedTo(b)
      BY <2>1, <2>2 DEF WroteFor, ChargedTo
    <3>4. \A u \in inquiries', w \in wrote' : u.at \in {"sent", "charged"} => w.id # u.id
      BY <2>1, <2>2, <3>2 DEF ChargesAreDue
    <3> QED
      BY <2>1, <2>2, <3>1, <3>2, <3>3, <3>4 DEF ChargesAreDue
  <2> QED
    BY <2>4, <2>5, <2>6, <2>7
<1>4. ASSUME NEW r \in inquiries, Q!Hear(r) PROVE AskInv'
  <2> DEFINE it == [of |-> r.of, text |-> r.text, alone |-> r.alone]
  <2>1. /\ inquiries' = inquiries \ {r} /\ r.at \in {"answered", "failed"}
        /\ UNCHANGED <<desk, latest, kept, wrote, spent, asked>>
    BY <1>4 DEF Q!Hear
  <2>2. heard' = heard \/ (r.id = latest[r.by].id /\ r.at = "answered" /\ heard' = [heard EXCEPT ![r.by] = it])
    BY <1>4, <2>1 DEF Q!Hear
  <2>3. /\ it.of = r.of /\ it.text = r.text /\ it.alone = r.alone /\ r \in Inquiries /\ r.by \in Askers
        /\ it \in [of : Topics, text : Nat, alone : BOOLEAN]
    BY DEF AskTypes, Inquiries
  <2> HIDE DEF it
  <2>4. AskTypes'
    BY <2>1, <2>2, <2>3 DEF AskTypes
  <2>5. AsksAreOwn'
    BY <2>1 DEF AsksAreOwn
  <2>6. TextsAreKept'
    <3>1. \A u \in inquiries' : u.at = "answered" => Shared(u)'
      BY <2>1 DEF TextsAreKept, Shared
    <3>2. ASSUME NEW b \in Askers, heard'[b] # Nothing
          PROVE  heard'[b].of = latest'[b].of /\ Shared(heard[b])'
      <4>1. CASE heard'[b] = heard[b]
        BY <2>1, <3>2, <4>1 DEF TextsAreKept, Shared
      <4>2. CASE heard'[b] # heard[b]
        <5>1. b = r.by /\ heard'[b] = it /\ r.id = latest[r.by].id /\ r.at = "answered"
          BY <2>2, <2>3, <4>2 DEF AskTypes
        <5>2. Shared(r) /\ r.of = latest[r.by].of
          BY <5>1 DEF TextsAreKept, AsksAreOwn
        <5> QED
          BY <2>1, <2>3, <5>1, <5>2 DEF Shared
      <4> QED
        BY <4>1, <4>2
    <3> QED
      BY <3>1, <3>2 DEF TextsAreKept
  <2>7. ChargesAreDue'
    <3>1. IsFiniteSet(inquiries')
      BY <2>1, FS_RemoveElement DEF ChargesAreDue
    <3>2. \A b \in Askers : WroteFor(b)' = WroteFor(b) /\ ChargedTo(b)' = ChargedTo(b)
      BY <2>1 DEF WroteFor, ChargedTo
    <3> QED
      BY <2>1, <3>1, <3>2 DEF ChargesAreDue
  <2> QED
    BY <2>4, <2>5, <2>6, <2>7
<1> QED
  BY <1>2, <1>3, <1>4

LEMMA AskStep ==
    ASSUME AskInv, [Next]_pageVars
    PROVE  AskInv'
<1>1. Q!AsksNext \/ UNCHANGED questions
  BY PageSteps
<1> QED
  BY <1>1, AskPageSteps, AskServerSteps DEF Q!AsksNext

-----------------------------------------------------------------------------
(* Conversations with the model.                                           *)

Messages == [role : {"user", "assistant"}, id : Nat]
Sayings == [id : Nat, at : {"sent", "asked", "answered", "failed"}, talk : Nat, sent : Seq(Messages),
            here : BOOLEAN]

SayTypes ==
    /\ chat \in {"tutor", "coach"} /\ said \in Nat
    /\ thread \in Seq(Messages) /\ talks \in Seq(Seq(Messages)) /\ talk \in 0..Len(talks)
    /\ says \subseteq Sayings /\ \A r \in says : r.talk <= Len(talks)

\* An answer stands under its question, or under what was said meanwhile.
Under(s, i, m, gone) ==
    m.role = "assistant" /\ m.id \notin gone => i >= 1 /\ (s[i] = H!User(m.id) \/ s[i].id \in gone)

Follows(s, gone) == \A i \in DOMAIN s : Under(s, i - 1, s[i], gone)

Begins(s, t) == Len(s) <= Len(t) /\ \A i \in 1..Len(s) : s[i] = t[i]

\* The page waits for one answer; what it does not wait for, it gave up on.
OneIsHere ==
    /\ \A r, u \in says : r.here /\ u.here => r = u
    /\ \A r \in says : ~r.here => r.id \in given

TalksFollow ==
    /\ Follows(thread, given)
    /\ \A t \in 1..Len(talks) : Follows(talks[t], given)

\* What the tutor answers is the thread, which ends with the question.
TutorKeeps ==
    chat = "tutor" =>
        /\ \A r \in says : r.here =>
               r.sent = thread /\ Len(thread) >= 1 /\ thread[Len(thread)] = H!User(r.id)
        /\ \A n \in 1..said : \E i \in DOMAIN thread : thread[i] = H!User(n)

\* A question of the coach's is in a conversation; after it come only those given up on.
InTalk(r) ==
    /\ r.at \in {"asked", "answered"} => r.talk >= 1
    /\ r.at = "asked" /\ r.id \notin given =>
           LET s == talks[r.talk] IN Len(s) >= 1 /\ (s[Len(s)] = H!User(r.id) \/ s[Len(s)].id \in given)
    /\ r.at = "answered" => Follows(r.sent, given) /\ Begins(r.sent, talks[r.talk])

CoachKeeps ==
    chat = "coach" =>
        /\ \A r \in says : InTalk(r)
        /\ thread # <<>> => talk # 0 /\ Begins(thread, talks[talk])

SayInv == SayTypes /\ OneIsHere /\ TalksFollow /\ TutorKeeps /\ CoachKeeps

LEMMA SayStart == Init => SayInv
<1> SUFFICES ASSUME H!ThreadsInit PROVE SayInv
  BY DEF Init
<1>1. /\ chat \in {"tutor", "coach"} /\ thread = <<>> /\ talk = 0 /\ says = {} /\ talks = <<>> /\ said = 0
  BY DEF H!ThreadsInit
<1>2. thread \in Seq(Messages) /\ talks \in Seq(Seq(Messages)) /\ Len(talks) = 0 /\ DOMAIN thread = {}
  BY <1>1
<1>3. SayTypes /\ OneIsHere
  BY <1>1, <1>2 DEF SayTypes, OneIsHere
<1>4. TalksFollow
  BY <1>2 DEF TalksFollow, Follows
<1>5. TutorKeeps /\ CoachKeeps
  BY <1>1 DEF TutorKeeps, CoachKeeps
<1> QED
  BY <1>3, <1>4, <1>5 DEF SayInv

\* A message more, where it may stand.
LEMMA OneMore ==
    ASSUME NEW gone, NEW s \in Seq(Messages), NEW m \in Messages, Follows(s, gone), Under(s, Len(s), m, gone)
    PROVE  /\ Append(s, m) \in Seq(Messages) /\ Follows(Append(s, m), gone) /\ Begins(s, Append(s, m))
           /\ Len(Append(s, m)) = Len(s) + 1 /\ Append(s, m)[Len(s) + 1] = m
<1> DEFINE t == Append(s, m)
<1>1. /\ t \in Seq(Messages) /\ Len(t) = Len(s) + 1 /\ t[Len(s) + 1] = m /\ \A i \in 1..Len(s) : t[i] = s[i]
      /\ DOMAIN t = 1..Len(t) /\ DOMAIN s = 1..Len(s) /\ Len(s) \in Nat
  BY AppendProperties
<1> HIDE DEF t
<1>2. ASSUME NEW i \in DOMAIN t PROVE Under(t, i - 1, t[i], gone)
  <2>1. CASE i = Len(s) + 1
    <3>1. i - 1 = Len(s) /\ (Len(s) >= 1 => t[Len(s)] = s[Len(s)])
      BY <1>1, <2>1
    <3> QED
      BY <1>1, <2>1, <3>1 DEF Under
  <2>2. CASE i # Len(s) + 1
    <3>1. i \in 1..Len(s) /\ Under(s, i - 1, s[i], gone) /\ t[i] = s[i] /\ (i - 1 >= 1 => t[i - 1] = s[i - 1])
      BY <1>1, <1>2, <2>2 DEF Follows
    <3> QED
      BY <3>1 DEF Under
  <2> QED
    BY <2>1, <2>2
<1>3. Follows(t, gone) /\ Begins(s, t)
  BY <1>1, <1>2 DEF Follows, Begins
<1> QED
  BY <1>1, <1>3 DEF t

LEMMA MoreGivenUp ==
    ASSUME NEW gone, NEW more, gone \subseteq more, NEW s, Follows(s, gone)
    PROVE  Follows(s, more)
BY DEF Follows, Under

LEMMA BeginsOn ==
    ASSUME NEW s \in Seq(Messages), NEW t \in Seq(Messages), NEW u \in Seq(Messages), Begins(s, t), Begins(t, u)
    PROVE  Begins(s, u)
BY DEF Begins

\* A conversation goes on by a message of a question, or is begun by it.
LEMMA TalkGrows ==
    ASSUME SayInv, chat = "coach", NEW r \in says, NEW what \in Sayings, NEW m \in Messages, NEW old \in Seq(Messages),
           says' = (says \ {r}) \union {what}, what.here = r.here, what.id = r.id, m.id = r.id,
           talks' \in Seq(Seq(Messages)), Len(talks) <= Len(talks'), what.talk \in 1..Len(talks'),
           Len(talks') = Len(talks) \/ (what.talk = Len(talks) + 1 /\ Len(talks') = Len(talks) + 1),
           what.talk <= Len(talks) => old = talks[what.talk],
           talks'[what.talk] = Append(old, m), \A t \in 1..Len(talks) : t # what.talk => talks'[t] = talks[t],
           Follows(old, given), Under(old, Len(old), m, given),
           \/ what.at = "asked" /\ m = H!User(r.id)
           \/ what.at = "answered" /\ what.sent = talks'[what.talk],
           UNCHANGED <<chat, thread, talk, given, said>>
    PROVE  SayInv'
<1> USE DEF SayInv
<1> DEFINE new == Append(old, m)
<1>1. /\ new \in Seq(Messages) /\ Follows(new, given) /\ Begins(old, new)
      /\ Len(new) = Len(old) + 1 /\ new[Len(old) + 1] = m /\ Len(old) \in Nat
  BY OneMore
<1>2. talks'[what.talk] = new
  OBVIOUS
<1> HIDE DEF new
<1>3. Len(talks) \in Nat /\ Len(talks') \in Nat /\ \A t \in 1..Len(talks) : talks[t] \in Seq(Messages)
  BY DEF SayTypes
<1>4. SayTypes'
  <2>1. \A u \in says' : u \in Sayings /\ u.talk <= Len(talks')
    BY <1>3 DEF SayTypes, Sayings
  <2>2. talk \in 0..Len(talks')
    BY <1>3 DEF SayTypes
  <2> QED
    BY <2>1, <2>2 DEF SayTypes
<1>5. OneIsHere'
  BY DEF OneIsHere
<1>6. \A t \in 1..Len(talks') : t = what.talk \/ (t \in 1..Len(talks) /\ talks'[t] = talks[t])
  BY <1>3
<1>7. TalksFollow'
  BY <1>1, <1>2, <1>6 DEF TalksFollow
<1>8. ASSUME NEW t \in 1..Len(talks) PROVE Begins(talks[t], talks'[t])
  <2>1. CASE t = what.talk
    <3>1. talks[t] = old /\ talks'[t] = new
      BY <1>2, <1>3, <2>1
    <3> QED
      BY <1>1, <3>1
  <2>2. CASE t # what.talk
    <3>1. talks'[t] = talks[t] /\ Len(talks[t]) \in Nat
      <4>1. talks'[t] = talks[t] /\ talks[t] \in Seq(Messages)
        BY <1>3, <2>2
      <4> QED
        BY <4>1, LenProperties
    <3> QED
      BY <3>1 DEF Begins
  <2> QED
    BY <2>1, <2>2
<1>9. ASSUME NEW s \in Seq(Messages), NEW t \in 1..Len(talks), Begins(s, talks[t]) PROVE Begins(s, talks'[t])
  <2>1. talks[t] \in Seq(Messages) /\ talks'[t] \in Seq(Messages)
    <3>1. talks[t] \in Seq(Messages) /\ t \in 1..Len(talks')
      BY <1>3
    <3> QED
      BY <3>1, ElementOfSeq
  <2> QED
    BY <1>8, <1>9, <2>1, BeginsOn
<1>10. InTalk(what)'
  <2>1. what.talk >= 1
    BY <1>3
  <2>2. CASE what.at = "asked" /\ m = H!User(r.id)
    BY <1>1, <1>2, <2>1, <2>2 DEF InTalk
  <2>3. CASE what.at = "answered" /\ what.sent = talks'[what.talk]
    <3>1. Begins(what.sent, talks'[what.talk])
      BY <2>3 DEF Begins
    <3> QED
      BY <1>1, <1>2, <2>1, <2>3, <3>1 DEF InTalk
  <2> QED
    BY <2>2, <2>3
<1>11. ASSUME NEW u \in says, u # r PROVE InTalk(u)'
  <2>1. InTalk(u) /\ u.talk \in 0..Len(talks) /\ u \in Sayings
    BY <1>3 DEF CoachKeeps, SayTypes, Sayings
  <2>2. u.at \in {"asked", "answered"} => u.talk \in 1..Len(talks)
    BY <1>3, <2>1 DEF InTalk
  <2>3. ASSUME u.at = "asked", u.id \notin given
        PROVE  LET s == talks'[u.talk] IN Len(s) >= 1 /\ (s[Len(s)] = H!User(u.id) \/ s[Len(s)].id \in given)
    <3>1. LET s == talks[u.talk] IN Len(s) >= 1 /\ (s[Len(s)] = H!User(u.id) \/ s[Len(s)].id \in given)
      BY <2>1, <2>3 DEF InTalk
    <3>2. r.id \in given
      BY <1>11, <2>3 DEF OneIsHere
    <3>3. CASE u.talk = what.talk
      BY <1>1, <1>2, <3>2, <3>3
    <3>4. CASE u.talk # what.talk
      BY <2>2, <2>3, <3>1, <3>4
    <3> QED
      BY <3>3, <3>4
  <2>4. ASSUME u.at = "answered" PROVE Follows(u.sent, given) /\ Begins(u.sent, talks'[u.talk])
    <3>1. Follows(u.sent, given) /\ Begins(u.sent, talks[u.talk]) /\ u.sent \in Seq(Messages)
      BY <2>1, <2>4 DEF InTalk, Sayings
    <3>2. u.talk \in 1..Len(talks)
      BY <2>2, <2>4
    <3> QED
      BY <1>9, <3>1, <3>2
  <2> QED
    BY <2>1, <2>3, <2>4 DEF InTalk
<1>12. thread # <<>> => talk # 0 /\ Begins(thread, talks'[talk])
  <2>1. talk \in 0..Len(talks) /\ thread \in Seq(Messages)
    BY DEF SayTypes
  <2>2. thread # <<>> => talk \in 1..Len(talks) /\ Begins(thread, talks[talk])
    BY <1>3, <2>1 DEF CoachKeeps
  <2> QED
    BY <1>3, <1>9, <2>1, <2>2
<1>13. CoachKeeps' /\ TutorKeeps'
  BY <1>10, <1>11, <1>12 DEF CoachKeeps, TutorKeeps
<1> QED
  BY <1>4, <1>5, <1>7, <1>13

\* Requests go on, fail, are given up on or are over, and nothing is said.
LEMMA NothingSaid ==
    ASSUME SayInv, says' \subseteq Sayings, \A u, v \in says' : u.here /\ v.here => u = v, given \subseteq given',
           \A u \in says' : \E v \in says :
               /\ u.id = v.id /\ u.talk = v.talk /\ u.sent = v.sent
               /\ u.here => v.here
               /\ ~u.here => v.id \in given'
               /\ chat = "tutor" \/ u.at = v.at \/ u.at = "failed",
           UNCHANGED <<chat, thread, talk, talks, said>>
    PROVE  SayInv'
<1> USE DEF SayInv
<1>1. SayTypes' /\ OneIsHere'
  BY DEF SayTypes, OneIsHere
<1>2. TalksFollow'
  BY MoreGivenUp DEF TalksFollow
<1>3. TutorKeeps'
  BY DEF TutorKeeps
<1>4. ASSUME chat = "coach", NEW u \in says' PROVE InTalk(u)'
  <2>1. PICK v \in says : /\ u.id = v.id /\ u.talk = v.talk /\ u.sent = v.sent /\ (u.here => v.here)
                          /\ u.at = v.at \/ u.at = "failed"
    BY <1>4
  <2>2. InTalk(v)
    BY <1>4 DEF CoachKeeps
  <2>3. Follows(v.sent, given) => Follows(v.sent, given')
    BY MoreGivenUp
  <2> QED
    BY <2>1, <2>2, <2>3 DEF InTalk
<1>5. CoachKeeps'
  BY <1>4 DEF CoachKeeps
<1> QED
  BY <1>1, <1>2, <1>3, <1>5

LEMMA SayPageSteps ==
    ASSUME SayInv,
           \/ H!submit \/ H!NewTopic \/ UNCHANGED chats
           \/ \E r \in says : H!onSuccess(r) \/ H!Failed(r) \/ H!Lost(r) \/ H!Unavailable(r)
    PROVE  SayInv'
<1> USE DEF SayInv
<1>1. CASE UNCHANGED chats
  BY <1>1 DEF chats, SayTypes, OneIsHere, TalksFollow, TutorKeeps, CoachKeeps, InTalk
<1>2. CASE H!NewTopic
  <2>1. /\ chat = "coach" /\ thread' = <<>> /\ talk' = 0 /\ UNCHANGED <<chat, says, talks, given, said>>
    BY <1>2 DEF H!NewTopic
  <2>2. thread' \in Seq(Messages) /\ DOMAIN thread' = {} /\ Len(talks) \in Nat
    BY <2>1 DEF SayTypes
  <2>3. SayTypes' /\ OneIsHere' /\ TalksFollow' /\ TutorKeeps'
    BY <2>1, <2>2 DEF SayTypes, OneIsHere, TalksFollow, TutorKeeps, Follows
  <2>4. CoachKeeps'
    BY <2>1 DEF CoachKeeps, InTalk
  <2> QED
    BY <2>3, <2>4
<1>3. ASSUME NEW r \in says, H!Failed(r) PROVE SayInv'
  BY <1>3, NothingSaid DEF H!Failed, OneIsHere, SayTypes
<1>4. ASSUME NEW r \in says, H!Lost(r) PROVE SayInv'
  <2> DEFINE what == [r EXCEPT !.here = FALSE]
  <2>1. /\ r.here /\ given' = given \union {r.id} /\ says' = (says \ {r}) \union {what}
        /\ UNCHANGED <<chat, thread, talk, talks, said>>
    BY <1>4 DEF H!Lost, H!Becomes
  <2>2. /\ what \in Sayings /\ what.id = r.id /\ what.talk = r.talk /\ what.sent = r.sent /\ what.at = r.at
        /\ ~what.here
    BY DEF SayTypes, Sayings
  <2> HIDE DEF what
  <2> QED
    BY <2>1, <2>2, NothingSaid DEF OneIsHere, SayTypes
<1>5. ASSUME NEW r \in says, H!Unavailable(r) PROVE SayInv'
  <2> DEFINE what == [r EXCEPT !.at = "failed"]
  <2>1. /\ says' = (says \ {r}) \union {what} /\ UNCHANGED <<chat, thread, talk, talks, given, said>>
    BY <1>5 DEF H!Unavailable, H!Becomes
  <2>2. /\ what \in Sayings /\ what.id = r.id /\ what.talk = r.talk /\ what.sent = r.sent /\ what.at = "failed"
        /\ what.here = r.here
    BY DEF SayTypes, Sayings
  <2> HIDE DEF what
  <2> QED
    BY <2>1, <2>2, NothingSaid DEF OneIsHere, SayTypes
<1>6. CASE H!submit
  <2> DEFINE shows == IF chat = "tutor" THEN Append(thread, H!User(said + 1)) ELSE <<>>
             r == [id |-> said + 1, at |-> "sent", talk |-> talk, sent |-> shows, here |-> TRUE]
  <2>1. /\ \A u \in says : ~u.here
        /\ said' = said + 1 /\ thread' = shows /\ says' = says \union {r}
        /\ UNCHANGED <<chat, talk, talks, given>>
    BY <1>6 DEF H!submit, H!Say, H!Waiting
  <2>2. H!User(said + 1) \in Messages /\ H!User(said + 1).role = "user" /\ said \in Nat
    BY DEF SayTypes, H!User, Messages
  <2>3. /\ chat = "tutor" => /\ shows \in Seq(Messages) /\ Follows(shows, given) /\ Begins(thread, shows)
                             /\ Len(shows) = Len(thread) + 1 /\ shows[Len(shows)] = H!User(said + 1)
        /\ chat = "coach" => shows = <<>>
    <3>1. Under(thread, Len(thread), H!User(said + 1), given)
      BY <2>2 DEF Under
    <3> QED
      BY <2>2, <3>1, OneMore DEF SayTypes, TalksFollow
  <2>4. shows \in Seq(Messages) /\ Follows(shows, given)
    BY <2>3 DEF SayTypes, Follows
  <2> HIDE DEF shows
  <2>5. /\ r \in Sayings /\ r.id = said + 1 /\ r.at = "sent" /\ r.talk = talk /\ r.sent = shows /\ r.here
    BY <2>2, <2>4 DEF SayTypes, Sayings
  <2> HIDE DEF r
  <2>6. SayTypes'
    BY <2>1, <2>2, <2>4, <2>5 DEF SayTypes
  <2>7. OneIsHere' /\ TalksFollow'
    BY <2>1, <2>4, <2>5 DEF OneIsHere, TalksFollow
  <2>8. TutorKeeps'
    <3> SUFFICES ASSUME chat = "tutor"
                 PROVE  /\ \A u \in says' : u.here => u.sent = shows /\ Len(shows) >= 1 /\ shows[Len(shows)] = H!User(u.id)
                        /\ \A n \in 1..(said + 1) : \E i \in DOMAIN shows : shows[i] = H!User(n)
      BY <2>1 DEF TutorKeeps
    <3>1. Len(thread) \in Nat /\ DOMAIN thread = 1..Len(thread) /\ DOMAIN shows = 1..Len(shows)
      BY <2>4 DEF SayTypes
    <3>2. \A n \in 1..said : \E i \in DOMAIN shows : shows[i] = H!User(n)
      BY <2>3, <3>1 DEF TutorKeeps, Begins
    <3>3. \E i \in DOMAIN shows : shows[i] = H!User(said + 1)
      BY <2>3, <3>1
    <3>4. \A n \in 1..(said + 1) : n \in 1..said \/ n = said + 1
      BY <2>2
    <3>5. \A u \in says' : u.here => u = r
      BY <2>1
    <3> QED
      BY <2>3, <2>5, <3>1, <3>2, <3>3, <3>4, <3>5
  <2>9. CoachKeeps'
    BY <2>1, <2>3, <2>5 DEF CoachKeeps, InTalk
  <2> QED
    BY <2>6, <2>7, <2>8, <2>9
<1>7. ASSUME NEW r \in says, H!onSuccess(r) PROVE SayInv'
  <2>1. r.here /\ r.at = "answered" /\ says' = says \ {r} /\ UNCHANGED <<chat, talks, given, said>>
    BY <1>7 DEF H!onSuccess
  <2>2. \A u \in says' : ~u.here
    BY <2>1 DEF OneIsHere
  <2>3. CASE chat = "tutor"
    <3> DEFINE m == H!Assistant(r.id)
    <3>1. thread' = Append(thread, m) /\ talk' = talk
      BY <1>7, <2>1, <2>3 DEF H!onSuccess, TutorKeeps
    <3>2. m \in Messages /\ m.id = r.id
      BY DEF SayTypes, Sayings, H!Assistant, Messages
    <3>3. Under(thread, Len(thread), m, given)
      BY <2>1, <2>3, <3>2 DEF TutorKeeps, Under
    <3> HIDE DEF m
    <3>4. thread' \in Seq(Messages) /\ Follows(thread', given) /\ Begins(thread, thread')
      BY <3>1, <3>2, <3>3, OneMore DEF SayTypes, TalksFollow
    <3>5. SayTypes' /\ OneIsHere' /\ TalksFollow'
      BY <2>1, <3>1, <3>4 DEF SayTypes, OneIsHere, TalksFollow
    <3>6. TutorKeeps'
      <4>1. Len(thread) \in Nat /\ DOMAIN thread = 1..Len(thread) /\ DOMAIN thread' = 1..Len(thread')
        BY <3>4 DEF SayTypes
      <4>2. \A n \in 1..said : \E i \in DOMAIN thread' : thread'[i] = H!User(n)
        BY <2>3, <3>4, <4>1 DEF TutorKeeps, Begins
      <4> QED
        BY <2>1, <2>2, <4>2 DEF TutorKeeps
    <3>7. CoachKeeps'
      BY <2>1, <2>3 DEF CoachKeeps
    <3> QED
      BY <3>5, <3>6, <3>7
  <2>4. CASE chat = "coach"
    <3>1. thread' = r.sent /\ talk' = r.talk
      BY <1>7, <2>4 DEF H!onSuccess
    <3>2. InTalk(r) /\ r \in Sayings /\ r.talk <= Len(talks)
      BY <2>4 DEF CoachKeeps, SayTypes
    <3>3. /\ r.talk \in 1..Len(talks) /\ Follows(r.sent, given) /\ Begins(r.sent, talks[r.talk])
          /\ r.sent \in Seq(Messages)
      BY <2>1, <3>2 DEF InTalk, Sayings, SayTypes
    <3>4. SayTypes' /\ OneIsHere' /\ TalksFollow'
      BY <2>1, <3>1, <3>3 DEF SayTypes, OneIsHere, TalksFollow
    <3>5. TutorKeeps' /\ CoachKeeps'
      BY <2>1, <2>4, <3>1, <3>3 DEF TutorKeeps, CoachKeeps, InTalk
    <3> QED
      BY <3>4, <3>5
  <2> QED
    BY <2>3, <2>4 DEF SayTypes
<1> QED
  BY <1>1, <1>2, <1>3, <1>4, <1>5, <1>6, <1>7

LEMMA SayServerSteps ==
    ASSUME SayInv, NEW r \in says, H!send(r) \/ H!Reply(r)
    PROVE  SayInv'
<1> USE DEF SayInv
<1>1. r \in Sayings /\ r.talk \in 0..Len(talks) /\ Len(talks) \in Nat
  BY DEF SayTypes, Sayings
<1>2. ASSUME NEW word \in {"asked", "answered"}, chat = "tutor",
             says' = (says \ {r}) \union {[r EXCEPT !.at = word]},
             UNCHANGED <<chat, thread, talk, talks, given, said>>
      PROVE  SayInv'
  <2> DEFINE what == [r EXCEPT !.at = word]
  <2>1. /\ what \in Sayings /\ what.id = r.id /\ what.talk = r.talk /\ what.sent = r.sent /\ what.here = r.here
    BY <1>1 DEF Sayings
  <2>2. says' = (says \ {r}) \union {what}
    BY <1>2
  <2> HIDE DEF what
  <2> QED
    BY <1>2, <2>1, <2>2, NothingSaid DEF OneIsHere, SayTypes
<1>3. CASE H!send(r) /\ chat = "tutor"
  <2>1. says' = (says \ {r}) \union {[r EXCEPT !.at = "asked"]}
    BY <1>3 DEF H!send, H!Becomes
  <2>2. UNCHANGED <<chat, thread, talk, talks, given, said>>
    BY <1>3 DEF H!send
  <2> QED
    BY <1>2, <1>3, <2>1, <2>2
<1>4. CASE H!Reply(r) /\ chat = "tutor"
  <2>1. says' = (says \ {r}) \union {[r EXCEPT !.at = "answered"]}
    BY <1>4 DEF H!Reply, H!Becomes
  <2>2. UNCHANGED <<chat, thread, talk, talks, given, said>>
    BY <1>4 DEF H!Reply
  <2> QED
    BY <1>2, <1>4, <2>1, <2>2
<1>5. CASE H!send(r) /\ chat = "coach"
  <2> DEFINE on == IF r.talk = 0 THEN Append(talks, <<>>) ELSE talks
             at == IF r.talk = 0 THEN Len(on) ELSE r.talk
             m == H!User(r.id)
             what == [r EXCEPT !.at = "asked", !.talk = at]
             old == IF r.talk = 0 THEN <<>> ELSE talks[r.talk]
  <2>1. /\ talks' = [on EXCEPT ![at] = Append(@, m)] /\ says' = (says \ {r}) \union {what}
        /\ UNCHANGED <<chat, thread, talk, given, said>>
    BY <1>5 DEF H!send, H!Becomes
  <2>2. m \in Messages /\ m.id = r.id /\ m.role = "user"
    BY <1>1 DEF H!User, Messages, Sayings
  <2>3. /\ on \in Seq(Seq(Messages)) /\ Len(on) \in Nat /\ \A t \in 1..Len(talks) : on[t] = talks[t]
        /\ r.talk = 0 => Len(on) = Len(talks) + 1 /\ on[Len(talks) + 1] = <<>>
        /\ r.talk # 0 => on = talks
    <3>1. <<>> \in Seq(Messages) /\ talks \in Seq(Seq(Messages))
      BY DEF SayTypes
    <3> QED
      BY <1>1, <3>1, AppendProperties
  <2> HIDE DEF on
  <2>4. at \in 1..Len(on) /\ (at <= Len(talks) => r.talk = at) /\ (r.talk = 0 => at = Len(talks) + 1)
    BY <1>1, <2>3
  <2>5. old \in Seq(Messages) /\ on[at] = old /\ Follows(old, given)
    <3>1. CASE r.talk = 0
      <4>1. <<>> \in Seq(Messages) /\ DOMAIN <<>> = {}
        OBVIOUS
      <4>2. Follows(<<>>, given)
        BY <4>1 DEF Follows
      <4>3. old = <<>> /\ on[at] = <<>>
        BY <2>3, <2>4, <3>1
      <4> QED
        BY <4>1, <4>2, <4>3
    <3>2. CASE r.talk # 0
      BY <1>1, <2>3, <2>4, <3>2 DEF SayTypes, TalksFollow
    <3> QED
      BY <3>1, <3>2
  <2>6. what \in Sayings /\ what.id = r.id /\ what.here = r.here /\ what.at = "asked" /\ what.talk = at
    BY <1>1, <2>3, <2>4 DEF Sayings
  <2>7. at <= Len(talks) => old = talks[at]
    BY <1>1, <2>4
  <2> HIDE DEF what, old, at, m
  <2>8. Append(old, m) \in Seq(Messages)
    BY <2>2, <2>5, AppendProperties
  <2>9. /\ talks' \in Seq(Seq(Messages)) /\ Len(talks') = Len(on) /\ talks'[at] = Append(old, m)
        /\ \A t \in 1..Len(on) : t # at => talks'[t] = on[t]
    BY <2>1, <2>3, <2>4, <2>5, <2>8
  <2>10. \A t \in 1..Len(talks) : t # at => talks'[t] = talks[t]
    BY <1>1, <2>3, <2>9
  <2>11. Under(old, Len(old), m, given)
    BY <2>2 DEF Under
  <2>12. Len(on) = Len(talks) \/ (at = Len(talks) + 1 /\ Len(on) = Len(talks) + 1)
    BY <2>3, <2>4
  <2>13. /\ Len(talks) <= Len(talks') /\ what.talk \in 1..Len(talks')
         /\ Len(talks') = Len(talks) \/ (what.talk = Len(talks) + 1 /\ Len(talks') = Len(talks) + 1)
         /\ what.talk <= Len(talks) => old = talks[what.talk]
         /\ talks'[what.talk] = Append(old, m)
         /\ \A t \in 1..Len(talks) : t # what.talk => talks'[t] = talks[t]
    BY <1>1, <2>4, <2>6, <2>7, <2>9, <2>10, <2>12
  <2>14. what.at = "asked" /\ m = H!User(r.id)
    BY <2>6 DEF m
  <2>15. what \in Sayings /\ what.id = r.id /\ what.here = r.here
    BY <2>6, Zenon
  <2> HIDE DEF SayInv
  <2> QED
    BY <1>5, <2>1, <2>2, <2>5, <2>9, <2>11, <2>13, <2>14, <2>15, TalkGrows, ZenonT(40)
<1>6. CASE H!Reply(r) /\ chat = "coach"
  <2> DEFINE m == H!Assistant(r.id)
             old == talks[r.talk]
             what == [r EXCEPT !.at = "answered", !.sent = talks'[r.talk]]
  <2>1. /\ r.at = "asked" /\ talks' = [talks EXCEPT ![r.talk] = Append(@, m)]
        /\ says' = (says \ {r}) \union {what} /\ UNCHANGED <<chat, thread, talk, given, said>>
    BY <1>6 DEF H!Reply, H!Becomes
  <2>2. m \in Messages /\ m.id = r.id
    BY <1>1 DEF H!Assistant, Messages, Sayings
  <2>3. InTalk(r) /\ r.talk \in 1..Len(talks)
    BY <1>1, <1>6, <2>1 DEF CoachKeeps, InTalk
  <2>4. old \in Seq(Messages) /\ Follows(old, given)
    BY <2>3 DEF SayTypes, TalksFollow
  <2>5. Under(old, Len(old), m, given)
    BY <2>1, <2>2, <2>3, <2>4 DEF Under, InTalk
  <2> HIDE DEF m
  <2>6. Append(old, m) \in Seq(Messages)
    BY <2>2, <2>4, AppendProperties
  <2>7. /\ talks' \in Seq(Seq(Messages)) /\ Len(talks') = Len(talks) /\ talks'[r.talk] = Append(old, m)
        /\ \A t \in 1..Len(talks) : t # r.talk => talks'[t] = talks[t]
    BY <2>1, <2>3, <2>6 DEF SayTypes
  <2>8. talks'[r.talk] \in Seq(Messages)
    BY <2>6, <2>7
  <2>9. /\ what \in Sayings /\ what.id = r.id /\ what.here = r.here /\ what.at = "answered" /\ what.talk = r.talk
        /\ what.sent = talks'[r.talk]
    BY <1>1, <2>8 DEF Sayings
  <2> HIDE DEF what
  <2>10. /\ Len(talks) <= Len(talks') /\ what.talk \in 1..Len(talks')
         /\ Len(talks') = Len(talks)
         /\ what.talk <= Len(talks) => old = talks[what.talk]
         /\ talks'[what.talk] = Append(old, m)
         /\ \A t \in 1..Len(talks) : t # what.talk => talks'[t] = talks[t]
    <3>1. what.talk = r.talk /\ talks'[r.talk] = Append(old, m) /\ Len(talks') = Len(talks)
      BY <2>7, <2>9
    <3>2. \A t \in 1..Len(talks) : t # r.talk => talks'[t] = talks[t]
      BY <2>7
    <3> HIDE DEF m
    <3> QED
      BY <1>1, <2>3, <3>1, <3>2
  <2>11. what.at = "answered" /\ what.sent = talks'[what.talk]
    BY <2>9
  <2>12. what \in Sayings /\ what.id = r.id /\ what.here = r.here
    BY <2>9
  <2> HIDE DEF SayInv, old
  <2> QED
    BY <1>6, <2>1, <2>2, <2>4, <2>5, <2>7, <2>10, <2>11, <2>12, TalkGrows, ZenonT(40)
<1> QED
  BY <1>3, <1>4, <1>5, <1>6 DEF SayTypes

LEMMA SayStep ==
    ASSUME SayInv, [Next]_pageVars
    PROVE  SayInv'
<1>1. H!ThreadsNext \/ UNCHANGED chats
  BY PageSteps
<1> QED
  BY <1>1, SayPageSteps, SayServerSteps DEF H!ThreadsNext

LEMMA BeginsIsPrefix ==
    ASSUME NEW s \in Seq(Messages), NEW t \in Seq(Messages), Begins(s, t)
    PROVE  Len(s) <= Len(t) /\ s = SubSeq(t, 1, Len(s))
<1>1. Len(s) \in Nat /\ Len(s) <= Len(t) /\ \A i \in 1..Len(s) : s[i] = t[i]
  BY DEF Begins
<1> QED
  BY <1>1

(* The answer on a page is to the question it asked last, and what all who *)
(* ask the same are shown, but for a text that was written meanwhile or    *)
(* could not be kept; each is charged for what was written for them.  In a *)
(* conversation an answer stands under its question unless the page gave   *)
(* up on it, and what is shown of the coach's is what is kept: a page      *)
(* waits for one answer, and a text that is kept is not written over       *)
(* (internal/vocabulary, internal/grammar/ai.go, internal/coach).          *)
THEOREM AnswersHold == Spec => []AnswersAreTheirs
<1>1. AskInv => Q!AnswersAreShared
  <2> USE DEF Q!AnswersAreShared
  <2> HAVE AskInv
  <2> TAKE a \in Askers
  <2>1. heard[a] # Nothing =>
            heard[a].of = latest[a].of /\ (heard[a].text \in {0, kept[heard[a].of]} \/ heard[a].alone)
    BY DEF AskInv, TextsAreKept, Shared
  <2>2. ~desk.free => spent[a] = Cardinality({w \in wrote : w.by = a})
                         + Cardinality({r \in inquiries : r.by = a /\ r.at = "charged"})
    <3>1. WroteFor(a) = {w \in wrote : w.by = a}
      BY DEF WroteFor
    <3>2. ChargedTo(a) = {r \in inquiries : r.by = a /\ r.at = "charged"}
      BY DEF ChargedTo
    <3>3. ~desk.free => spent[a] = Cardinality(WroteFor(a)) + Cardinality(ChargedTo(a))
      BY DEF AskInv, ChargesAreDue
    <3> QED
      BY <3>1, <3>2, <3>3
  <2>3. \A s : Q!Cardinality(s) = Cardinality(s)
    BY DEF Cardinality, Q!Cardinality
  <2> QED
    BY <2>1, <2>2, <2>3
<1>2. SayInv => H!AnswersFollow
  <2> SUFFICES ASSUME SayInv PROVE H!AnswersFollow
    OBVIOUS
  <2>1. thread \in Seq(Messages) /\ talks \in Seq(Seq(Messages)) /\ talk \in 0..Len(talks)
    BY DEF SayInv, SayTypes
  <2>2. \A s \in {thread} \union {talks[t] : t \in DOMAIN talks} : s \in Seq(Messages) /\ Follows(s, given)
    BY <2>1 DEF SayInv, TalksFollow
  <2>3. ASSUME NEW s \in Seq(Messages), Follows(s, given), NEW i \in DOMAIN s,
               s[i].role = "assistant", s[i].id \notin given
        PROVE  i > 1 /\ (s[i - 1] = H!User(s[i].id) \/ s[i - 1].id \in given)
    <3>1. i \in Nat /\ Under(s, i - 1, s[i], given)
      BY <2>3 DEF Follows
    <3> QED
      BY <2>3, <3>1 DEF Under
  <2>4. chat = "tutor" => {n \in 1..said : \E i \in DOMAIN thread : thread[i] = H!User(n)} = 1..said
    BY DEF SayInv, TutorKeeps
  <2>5. chat = "coach" /\ thread # <<>> =>
            talk # 0 /\ Len(thread) <= Len(talks[talk]) /\ thread = SubSeq(talks[talk], 1, Len(thread))
    <3>1. chat = "coach" /\ thread # <<>> => talk \in 1..Len(talks) /\ Begins(thread, talks[talk])
      BY <2>1 DEF SayInv, CoachKeeps
    <3> QED
      BY <2>1, <3>1, BeginsIsPrefix
  <2> QED
    BY <2>2, <2>3, <2>4, <2>5 DEF H!AnswersFollow
<1>3. AskInv /\ [Next]_pageVars => AskInv'
  BY AskStep
<1>4. SayInv /\ [Next]_pageVars => SayInv'
  BY SayStep
<1>5. AskInv /\ SayInv => AnswersAreTheirs
  BY <1>1, <1>2 DEF AnswersAreTheirs
<1> QED
  BY <1>3, <1>4, <1>5, AskStart, SayStart, PTL DEF Spec

-----------------------------------------------------------------------------
(* The conversation page.                                                  *)

News == {[type |-> t] : t \in {"ready", "turn", "error"}}
        \union {[type |-> "summary", turns |-> n] : n \in Nat}
Lines == [net : {"asking", "dialing", "open", "down", "over"}, up : Seq({"start", "turn", "finish"}),
          down : Seq(News), runs : BOOLEAN, row : {"none", "open", "completed", "gone"}, turn : Nat, kept : Nat]

TalkTypes ==
    /\ lines \in Seq(Lines) /\ dialed = Len(lines) /\ line \in 0..dialed
    /\ shownTurns \in Seq(Nat) /\ there \in BOOLEAN
    /\ status \in {"idle", "error", "finished", "connecting", "ready", "thinking"}

\* The session behind a socket, and what the socket carries.
RowOk(l, c, lost, open) ==
    /\ l.net \in {"asking", "dialing"} => ~l.runs /\ l.row = "none" /\ l.turn = 0
    /\ l.kept <= l.turn /\ (l.kept = l.turn \/ c \in lost)
    /\ l.row = "completed" => l.turn > 0 /\ ~l.runs
    /\ l.row = "gone" => l.turn = 0 /\ ~l.runs
    /\ l.row = "open" /\ ~l.runs => c \in open

DownOk(l) ==
    /\ l.net # "open" => l.down = <<>>
    /\ \A i \in DOMAIN l.down :
           l.down[i].type = "summary" => i = Len(l.down) /\ ~l.runs /\ l.down[i].turns = l.turn

LineOk(l, c, lost, open) == RowOk(l, c, lost, open) /\ DownOk(l)

\* Nothing more is heard on it.
Quiet(l) == l.net \in {"over", "down"} \/ (l.net = "open" /\ ~l.runs /\ l.down = <<>>)

OneTurn(m) == IF m.type = "turn" THEN 1 ELSE 0

\* The turns shown and those on the way are those that were kept.
Counted(l, n) ==
    \E f \in [0..Len(l.down) -> Nat] :
        /\ f[0] = n /\ f[Len(l.down)] = l.kept
        /\ \A i \in 1..Len(l.down) : f[i] = f[i - 1] + OneTurn(l.down[i])

LinesAreOk == \A c \in DOMAIN lines : LineOk(lines[c], c, miscounted, stranded)

ThisLine == lines[dialed]

\* While the page is shown, it shows what the socket of its conversation does.
PageFollows ==
    there => /\ status \in {"idle", "error", "finished"} => Quiet(ThisLine)
             /\ ThisLine.net \in {"asking", "dialing"} => status = "connecting"
             /\ ThisLine.net \in {"dialing", "open", "down"} => line = dialed

SummaryIsRight ==
    wrapUp # V!NoSummary =>
        /\ dialed # 0 /\ wrapUp.of = dialed /\ Quiet(ThisLine)
        /\ Len(shownTurns) = wrapUp.turns \/ dialed \in miscounted

\* Only the last conversation is heard, if no socket before it ended late.
HeardAlone ==
    /\ \A c \in DOMAIN lines : c # dialed => Quiet(lines[c])
    /\ \A i \in DOMAIN shownTurns : shownTurns[i] = dialed
    /\ dialed # 0 =>
           /\ PageFollows
           /\ ThisLine.net \in {"asking", "dialing", "open"} => Counted(ThisLine, Len(shownTurns))
    /\ SummaryIsRight

OneIsHeard == ~late => HeardAlone

TalkInv == TalkTypes /\ LinesAreOk /\ OneIsHeard

LEMMA TalkStart == Init => TalkInv
<1> SUFFICES ASSUME V!TalkInit PROVE TalkInv
  BY DEF Init
<1>1. there = TRUE /\ status = "idle" /\ dialed = 0 /\ line = 0 /\ shownTurns = <<>> /\ wrapUp = V!NoSummary /\ lines = <<>>
  BY DEF V!TalkInit
<1>2. lines \in Seq(Lines) /\ Len(lines) = 0 /\ DOMAIN lines = {} /\ shownTurns \in Seq(Nat) /\ DOMAIN shownTurns = {}
  BY <1>1
<1>3. TalkTypes
  BY <1>1, <1>2 DEF TalkTypes
<1>4. LinesAreOk /\ OneIsHeard
  BY <1>1, <1>2 DEF LinesAreOk, OneIsHeard, HeardAlone, SummaryIsRight
<1> QED
  BY <1>3, <1>4 DEF TalkInv

\* One message more at the end, and one less at the front.
LEMMA CountsMore ==
    ASSUME NEW l \in Lines, NEW k \in Lines, NEW m \in News, NEW n \in Nat, Counted(l, n),
           k.down = Append(l.down, m), k.kept = l.kept + OneTurn(m)
    PROVE  Counted(k, n)
<1> DEFINE len == Len(l.down)
<1>1. l.down \in Seq(News) /\ len \in Nat /\ l.kept \in Nat
  BY DEF Lines
<1>2. /\ Len(k.down) = len + 1 /\ k.down[len + 1] = m /\ \A i \in 1..len : k.down[i] = l.down[i]
  BY <1>1, AppendProperties
<1>3. PICK f \in [0..len -> Nat] :
          f[0] = n /\ f[len] = l.kept /\ \A i \in 1..len : f[i] = f[i - 1] + OneTurn(l.down[i])
  BY DEF Counted
<1>4. k.kept \in Nat
  BY DEF Lines
<1> DEFINE g == [i \in 0..(len + 1) |-> IF i = len + 1 THEN k.kept ELSE f[i]]
<1>5. g \in [0..(len + 1) -> Nat] /\ g[0] = n /\ g[len + 1] = k.kept /\ \A i \in 0..len : g[i] = f[i]
  BY <1>1, <1>3, <1>4
<1> HIDE DEF len, g
<1>6. ASSUME NEW i \in 1..(len + 1) PROVE g[i] = g[i - 1] + OneTurn(k.down[i])
  <2>1. CASE i = len + 1
    <3>1. g[i] = k.kept /\ g[i - 1] = l.kept
      BY <1>1, <1>3, <1>5, <2>1
    <3> QED
      BY <1>2, <2>1, <3>1
  <2>2. CASE i # len + 1
    <3>1. i \in 1..len /\ i \in 0..len /\ i - 1 \in 0..len
      BY <1>1, <1>6, <2>2
    <3> QED
      BY <1>2, <1>3, <1>5, <3>1
  <2> QED
    BY <2>1, <2>2
<1> QED
  BY <1>2, <1>5, <1>6 DEF Counted

LEMMA CountsLess ==
    ASSUME NEW l \in Lines, NEW k \in Lines, NEW n \in Nat, Counted(l, n), l.down # <<>>,
           k.down = Tail(l.down), k.kept = l.kept
    PROVE  Counted(k, n + OneTurn(Head(l.down))) /\ (k.down = <<>> => l.kept = n + OneTurn(Head(l.down)))
<1> DEFINE len == Len(l.down)
<1>1. l.down \in Seq(News) /\ len \in Nat /\ len >= 1 /\ l.kept \in Nat
  BY DEF Lines
<1>2. Len(k.down) = len - 1 /\ Head(l.down) = l.down[1] /\ \A i \in 1..(len - 1) : k.down[i] = l.down[i + 1]
  BY <1>1
<1>3. PICK f \in [0..len -> Nat] :
          f[0] = n /\ f[len] = l.kept /\ \A i \in 1..len : f[i] = f[i - 1] + OneTurn(l.down[i])
  BY DEF Counted
<1> DEFINE g == [i \in 0..(len - 1) |-> f[i + 1]]
<1>4. g \in [0..(len - 1) -> Nat] /\ g[0] = f[1] /\ g[len - 1] = l.kept /\ \A i \in 0..(len - 1) : g[i] = f[i + 1]
  <2>1. \A i \in 0..(len - 1) : i + 1 \in 0..len
    BY <1>1
  <2> QED
    BY <1>1, <1>3, <2>1
<1>5. f[1] = n + OneTurn(Head(l.down))
  <2>1. 1 \in 1..len
    BY <1>1
  <2>2. f[1] = f[1 - 1] + OneTurn(l.down[1])
    BY <1>3, <2>1
  <2> QED
    BY <1>2, <1>3, <2>2
<1> HIDE DEF len, g
<1>6. ASSUME NEW i \in 1..(len - 1) PROVE g[i] = g[i - 1] + OneTurn(k.down[i])
  <2>1. i \in 0..(len - 1) /\ i - 1 \in 0..(len - 1) /\ i + 1 \in 1..len /\ (i - 1) + 1 = i /\ (i + 1) - 1 = i
    BY <1>1, <1>6
  <2>2. g[i] = f[i + 1] /\ g[i - 1] = f[i]
    BY <1>4, <2>1
  <2>3. f[i + 1] = f[i] + OneTurn(l.down[i + 1])
    BY <1>3, <2>1
  <2> QED
    BY <1>2, <1>6, <2>2, <2>3
<1>7. k.down = <<>> => len = 1
  <2>1. k.down = <<>> => Len(k.down) = 0
    <3>1. Len(<<>>) = 0
      OBVIOUS
    <3> QED
      BY <3>1, Zenon
  <2>2. Len(k.down) = 0 => len = 1
    <3>1. Len(k.down) = len - 1
      BY <1>2
    <3> QED
      BY <1>1, <3>1
  <2> QED
    BY <2>1, <2>2, Zenon
<1>8. l.kept = n + OneTurn(Head(l.down)) \/ len # 1
  BY <1>1, <1>3, <1>5
<1>9. /\ \E h \in [0..Len(k.down) -> Nat] :
            /\ h[0] = n + OneTurn(Head(l.down)) /\ h[Len(k.down)] = k.kept
            /\ \A i \in 1..Len(k.down) : h[i] = h[i - 1] + OneTurn(k.down[i])
  BY <1>2, <1>4, <1>5, <1>6
<1> QED
  BY <1>7, <1>8, <1>9 DEF Counted

LEMMA SaysOne ==
    ASSUME NEW l \in Lines, NEW m \in News
    PROVE  LET k == V!Says(l, <<m>>) IN
           /\ k \in Lines
           /\ k.net = l.net /\ k.up = l.up /\ k.runs = l.runs /\ k.row = l.row
           /\ k.turn = l.turn /\ k.kept = l.kept
           /\ l.net = "open" => k.down = Append(l.down, m)
           /\ l.net # "open" => k.down = l.down
<1> DEFINE k == V!Says(l, <<m>>)
<1>1. l.down \in Seq(News)
  BY DEF Lines
<1>2. l.down \o <<m>> = Append(l.down, m) /\ l.down \o <<m>> \in Seq(News)
  BY <1>1, AppendIsConcat
<1>3. l.net = "open" => k = [l EXCEPT !.down = l.down \o <<m>>]
  BY DEF V!Says
<1>4. l.net # "open" => k = [l EXCEPT !.down = l.down]
  BY DEF V!Says
<1>5. k = [l EXCEPT !.down = IF l.net = "open" THEN Append(l.down, m) ELSE l.down]
  BY <1>2, <1>3, <1>4
<1> HIDE DEF k
<1>6. /\ k \in Lines
      /\ k.net = l.net /\ k.up = l.up /\ k.runs = l.runs /\ k.row = l.row
      /\ k.turn = l.turn /\ k.kept = l.kept
  BY <1>1, <1>2, <1>5 DEF Lines
<1>7. (l.net = "open" => k.down = Append(l.down, m)) /\ (l.net # "open" => k.down = l.down)
  BY <1>5 DEF Lines
<1> QED
  BY <1>6, <1>7 DEF k

\* What is said of a line that speaks, once more.
LEMMA SaysOk ==
    ASSUME NEW x \in Lines, NEW y \in Lines, NEW m \in News, DownOk(x), x.runs,
           y.net = x.net, y.down = x.down, y.kept = x.kept + OneTurn(m),
           m.type = "summary" => ~y.runs /\ m.turns = y.turn
    PROVE  LET k == V!Says(y, <<m>>) IN
           /\ DownOk(k)
           /\ \A n \in Nat : x.net = "open" /\ Counted(x, n) => Counted(k, n)
<1> DEFINE k == V!Says(y, <<m>>)
<1>1. /\ k \in Lines /\ k.net = x.net /\ k.runs = y.runs /\ k.turn = y.turn /\ k.kept = y.kept
      /\ x.net = "open" => k.down = Append(x.down, m)
      /\ x.net # "open" => k.down = x.down
  BY SaysOne
<1> HIDE DEF k
<1>2. x.down \in Seq(News) /\ Len(x.down) \in Nat /\ \A i \in DOMAIN x.down : x.down[i].type # "summary"
  BY DEF DownOk, Lines
<1>3. ASSUME x.net = "open" PROVE DownOk(k)
  <2>1. /\ Len(k.down) = Len(x.down) + 1 /\ k.down[Len(x.down) + 1] = m
        /\ DOMAIN k.down = 1..(Len(x.down) + 1) /\ \A i \in 1..Len(x.down) : k.down[i] = x.down[i]
    BY <1>1, <1>2, <1>3, AppendProperties
  <2>2. ASSUME NEW i \in DOMAIN k.down, k.down[i].type = "summary"
        PROVE  i = Len(k.down) /\ ~k.runs /\ k.down[i].turns = k.turn
    <3>1. i = Len(x.down) + 1
      BY <1>2, <2>1, <2>2
    <3> QED
      BY <1>1, <2>1, <2>2, <3>1
  <2> QED
    BY <1>1, <1>3, <2>2 DEF DownOk
<1>4. ASSUME x.net # "open" PROVE DownOk(k)
  BY <1>1, <1>4 DEF DownOk
<1>5. ASSUME NEW n \in Nat, x.net = "open", Counted(x, n) PROVE Counted(k, n)
  BY <1>1, <1>5, CountsMore
<1> QED
  BY <1>3, <1>4, <1>5 DEF k

\* One line is changed, and is in order.
LEMMA LineChange ==
    ASSUME TalkInv, NEW c \in DOMAIN lines, NEW l \in Lines, lines' = [lines EXCEPT ![c] = l],
           LineOk(l, c, miscounted', stranded'), miscounted \subseteq miscounted', stranded \subseteq stranded',
           dialed' = dialed, line' \in 0..dialed, shownTurns' \in Seq(Nat), there' \in BOOLEAN,
           status' \in {"idle", "error", "finished", "connecting", "ready", "thinking"}
    PROVE  /\ TalkTypes' /\ LinesAreOk'
           /\ DOMAIN lines' = DOMAIN lines /\ lines'[c] = l
           /\ \A d \in DOMAIN lines : d # c => lines'[d] = lines[d]
<1>1. lines \in Seq(Lines) /\ dialed = Len(lines)
  BY DEF TalkInv, TalkTypes
<1>2. /\ lines' \in Seq(Lines) /\ Len(lines') = Len(lines)
      /\ DOMAIN lines' = DOMAIN lines /\ lines'[c] = l
      /\ \A d \in DOMAIN lines : d # c => lines'[d] = lines[d]
  BY <1>1
<1>3. TalkTypes'
  BY <1>1, <1>2 DEF TalkTypes
<1>4. ASSUME NEW d \in DOMAIN lines PROVE LineOk(lines'[d], d, miscounted', stranded')
  <2>1. CASE d = c
    BY <1>2, <2>1
  <2>2. CASE d # c
    <3>1. lines'[d] = lines[d] /\ RowOk(lines[d], d, miscounted, stranded) /\ DownOk(lines[d])
      BY <1>2, <2>2 DEF TalkInv, LinesAreOk, LineOk
    <3>2. RowOk(lines[d], d, miscounted', stranded')
      BY <3>1 DEF RowOk
    <3> QED
      BY <3>1, <3>2 DEF LineOk
  <2> QED
    BY <2>1, <2>2
<1>5. LinesAreOk'
  BY <1>2, <1>4 DEF LinesAreOk
<1> QED
  BY <1>2, <1>3, <1>5

\* The server takes a step on a line; the page does not.
LEMMA ServerTalks ==
    ASSUME TalkInv, NEW c \in DOMAIN lines, NEW l \in Lines, lines' = [lines EXCEPT ![c] = l],
           lines[c].runs, l.net = lines[c].net, l.net # "open" => l.down = <<>>,
           LineOk(l, c, miscounted', stranded'), miscounted \subseteq miscounted', stranded \subseteq stranded',
           V!Page, late' = late,
           \A n \in Nat : lines[c].net = "open" /\ Counted(lines[c], n) => Counted(l, n)
    PROVE  TalkInv'
<1>1. UNCHANGED <<there, status, dialed, line, shownTurns, wrapUp>>
  BY DEF V!Page
<1>2. TalkTypes
  BY DEF TalkInv
<1>3. /\ TalkTypes' /\ LinesAreOk'
      /\ DOMAIN lines' = DOMAIN lines /\ lines'[c] = l
      /\ \A d \in DOMAIN lines : d # c => lines'[d] = lines[d]
  <2>1. /\ dialed' = dialed /\ line' \in 0..dialed /\ shownTurns' \in Seq(Nat) /\ there' \in BOOLEAN
        /\ status' \in {"idle", "error", "finished", "connecting", "ready", "thinking"}
    BY <1>1, <1>2 DEF TalkTypes
  <2> QED
    BY <2>1, LineChange
<1>4. lines[c].net \in {"open", "down", "over"}
  <2>1. lines[c] \in Lines /\ RowOk(lines[c], c, miscounted, stranded)
    BY <1>2 DEF TalkInv, TalkTypes, LinesAreOk, LineOk
  <2> QED
    BY <2>1 DEF RowOk, Lines
<1>5. \A d \in DOMAIN lines : lines'[d].net = lines[d].net
  BY <1>3
<1>6. \A d \in DOMAIN lines : Quiet(lines[d]) => Quiet(lines'[d])
  BY <1>3, <1>4 DEF Quiet
<1>7. ASSUME ~late' PROVE HeardAlone'
  <2>1. HeardAlone
    BY <1>7 DEF TalkInv, OneIsHeard
  <2>2. dialed # 0 => dialed \in DOMAIN lines
    BY <1>2 DEF TalkTypes
  <2>3. dialed # 0 => lines'[dialed].net = lines[dialed].net /\ (Quiet(lines[dialed]) => Quiet(lines'[dialed]))
    BY <1>5, <1>6, <2>2
  <2>4. dialed # 0 => PageFollows'
    BY <1>1, <2>1, <2>3 DEF HeardAlone, PageFollows, ThisLine
  <2>5. dialed # 0 /\ lines'[dialed].net \in {"asking", "dialing", "open"} => Counted(lines'[dialed], Len(shownTurns))
    <3>1. Len(shownTurns) \in Nat
      BY <1>2 DEF TalkTypes
    <3>2. CASE c = dialed
      BY <1>3, <1>4, <2>1, <2>3, <3>1, <3>2 DEF HeardAlone, ThisLine
    <3>3. CASE c # dialed
      BY <1>3, <2>1, <2>2, <3>3 DEF HeardAlone, ThisLine
    <3> QED
      BY <3>2, <3>3
  <2>6. SummaryIsRight'
    BY <1>1, <2>1, <2>3 DEF HeardAlone, SummaryIsRight, ThisLine
  <2> QED
    BY <1>1, <1>3, <1>6, <2>1, <2>4, <2>5, <2>6 DEF HeardAlone, ThisLine
<1> QED
  BY <1>3, <1>7 DEF TalkInv, OneIsHeard

\* A conversation is ended.
LEMMA EndedOk ==
    ASSUME NEW x \in Lines, NEW c, NEW lost, NEW open, x.runs, RowOk(x, c, lost, open), DownOk(x)
    PROVE  LET k == V!Ended(x) IN
           /\ k \in Lines /\ k.net = x.net /\ LineOk(k, c, lost, open)
           /\ \A n \in Nat : x.net = "open" /\ Counted(x, n) => Counted(k, n)
<1> DEFINE k == V!Ended(x)
<1> DEFINE y == [x EXCEPT !.runs = FALSE, !.row = IF x.turn = 0 THEN "gone" ELSE "completed"]
<1> DEFINE m == [type |-> "summary", turns |-> x.turn]
<1>1. k = V!Says(y, <<m>>)
  BY DEF V!Ended
<1>2. /\ y \in Lines /\ y.net = x.net /\ y.down = x.down /\ y.kept = x.kept /\ y.turn = x.turn /\ ~y.runs
      /\ y.row = IF x.turn = 0 THEN "gone" ELSE "completed"
  BY DEF Lines
<1>3. m \in News /\ m.type = "summary" /\ m.turns = x.turn /\ OneTurn(m) = 0
  BY DEF Lines, News, OneTurn
<1> HIDE DEF k, y, m
<1>4. x.kept \in Nat /\ x.turn \in Nat /\ y.kept = x.kept + OneTurn(m)
  BY <1>2, <1>3 DEF Lines
<1>5. DownOk(k) /\ \A n \in Nat : x.net = "open" /\ Counted(x, n) => Counted(k, n)
  BY <1>1, <1>2, <1>3, <1>4, SaysOk
<1>6. /\ k \in Lines /\ k.net = x.net /\ k.runs = y.runs /\ k.row = y.row /\ k.turn = x.turn /\ k.kept = x.kept
  BY <1>1, <1>2, <1>3, SaysOne
<1>7. RowOk(k, c, lost, open)
  <2>1. x.net \notin {"asking", "dialing"} /\ x.kept <= x.turn /\ (x.kept = x.turn \/ c \in lost)
    BY DEF RowOk
  <2>2. (k.row = "gone" /\ x.turn = 0) \/ (k.row = "completed" /\ x.turn > 0)
    BY <1>2, <1>4, <1>6
  <2>3. k.net = x.net /\ k.kept = x.kept /\ k.turn = x.turn /\ ~k.runs
    BY <1>2, <1>6
  <2> QED
    BY <2>1, <2>2, <2>3 DEF RowOk
<1> QED
  BY <1>5, <1>6, <1>7 DEF k, LineOk

\* The line that speaks, before it does.
LEMMA LineSpeaks ==
    ASSUME TalkInv, NEW c \in DOMAIN lines, lines[c].runs
    PROVE  /\ lines[c] \in Lines /\ RowOk(lines[c], c, miscounted, stranded) /\ DownOk(lines[c])
           /\ lines[c].net \in {"open", "down", "over"} /\ lines[c].row \in {"none", "open"}
           /\ lines[c].up # <<>> =>
                  LET y == V!Read(lines[c]) IN
                  /\ y \in Lines /\ RowOk(y, c, miscounted, stranded) /\ DownOk(y)
                  /\ y.net = lines[c].net /\ y.down = lines[c].down /\ y.runs /\ y.row = lines[c].row
                  /\ y.turn = lines[c].turn /\ y.kept = lines[c].kept
<1> DEFINE x == lines[c]
<1>1. x \in Lines /\ RowOk(x, c, miscounted, stranded) /\ DownOk(x)
  BY DEF TalkInv, TalkTypes, LinesAreOk, LineOk
<1>2. x.net \in {"open", "down", "over"} /\ x.row \in {"none", "open"}
  BY <1>1 DEF RowOk, Lines
<1>3. ASSUME x.up # <<>>
      PROVE  LET y == V!Read(x) IN
             /\ y \in Lines /\ RowOk(y, c, miscounted, stranded) /\ DownOk(y)
             /\ y.net = x.net /\ y.down = x.down /\ y.runs /\ y.row = x.row
             /\ y.turn = x.turn /\ y.kept = x.kept
  <2> DEFINE y == V!Read(x)
  <2>1. y = [x EXCEPT !.up = Tail(x.up)]
    BY DEF V!Read
  <2>2. Tail(x.up) \in Seq({"start", "turn", "finish"})
    BY <1>1, <1>3 DEF Lines
  <2> HIDE DEF y
  <2>3. /\ y \in Lines /\ y.net = x.net /\ y.down = x.down /\ y.runs = x.runs /\ y.row = x.row
        /\ y.turn = x.turn /\ y.kept = x.kept
    BY <1>1, <2>1, <2>2 DEF Lines
  <2>4. RowOk(y, c, miscounted, stranded)
    BY <1>1, <2>3 DEF RowOk
  <2>5. DownOk(y)
    BY <1>1, <2>3 DEF DownOk
  <2> QED
    BY <2>3, <2>4, <2>5 DEF y
<1> QED
  BY <1>1, <1>2, <1>3

LEMMA SessionStep ==
    ASSUME TalkInv, NEW c \in DOMAIN lines,
           V!start(c) \/ V!handleTurn(c) \/ V!TurnFails(c) \/ V!Finish(c) \/ V!abandon(c) \/ V!fail(c)
    PROVE  TalkInv'
<1> DEFINE x == lines[c]
<1> DEFINE r == V!Read(x)
<1>0. x.runs
  BY DEF V!start, V!handleTurn, V!TurnFails, V!Finish, V!abandon, V!fail, V!Reads
<1>1. /\ x \in Lines /\ RowOk(x, c, miscounted, stranded) /\ DownOk(x)
      /\ x.net \in {"open", "down", "over"} /\ x.row \in {"none", "open"}
      /\ x.kept \in Nat /\ x.turn \in Nat /\ x.kept <= x.turn /\ (x.kept = x.turn \/ c \in miscounted)
  BY <1>0, LineSpeaks DEF RowOk, Lines
<1>2. ASSUME x.up # <<>>
      PROVE  /\ r \in Lines /\ RowOk(r, c, miscounted, stranded) /\ DownOk(r)
             /\ r.net = x.net /\ r.down = x.down /\ r.runs /\ r.row = x.row
             /\ r.turn = x.turn /\ r.kept = x.kept
  BY <1>0, <1>2, LineSpeaks
<1>3. {[type |-> "ready"], [type |-> "turn"], [type |-> "error"]} \subseteq News
  BY DEF News
<1>4. OneTurn([type |-> "ready"]) = 0 /\ OneTurn([type |-> "turn"]) = 1 /\ OneTurn([type |-> "error"]) = 0
  BY DEF OneTurn
<1> HIDE DEF r
<1>5. ASSUME V!start(c) PROVE TalkInv'
  <2> DEFINE y == [r EXCEPT !.row = "open"]
  <2> DEFINE l == V!Says(y, <<[type |-> "ready"]>>)
  <2>1. /\ x.up # <<>> /\ lines' = [lines EXCEPT ![c] = l] /\ V!Page
        /\ miscounted' = miscounted /\ stranded' = stranded /\ late' = late
    BY <1>5 DEF V!start, V!Reads, V!Server, r
  <2>2. /\ y \in Lines /\ y.net = x.net /\ y.down = x.down /\ y.runs /\ y.row = "open"
        /\ y.turn = x.turn /\ y.kept = x.kept
    BY <1>2, <2>1 DEF Lines
  <2> HIDE DEF y
  <2>3. DownOk(l) /\ \A n \in Nat : x.net = "open" /\ Counted(x, n) => Counted(l, n)
    <3>1. y.kept = x.kept + OneTurn([type |-> "ready"])
      BY <1>1, <1>4, <2>2
    <3> QED
      BY <1>0, <1>1, <1>3, <2>2, <3>1, SaysOk
  <2>4. /\ l \in Lines /\ l.net = x.net /\ l.runs /\ l.row = "open" /\ l.turn = x.turn /\ l.kept = x.kept
    BY <1>3, <2>2, SaysOne
  <2> HIDE DEF l
  <2>5. LineOk(l, c, miscounted', stranded') /\ (l.net # "open" => l.down = <<>>)
    BY <1>1, <2>1, <2>3, <2>4 DEF LineOk, RowOk, DownOk
  <2> QED
    BY <1>0, <2>1, <2>3, <2>4, <2>5, ServerTalks
<1>6. ASSUME V!handleTurn(c) PROVE TalkInv'
  <2> DEFINE y == [r EXCEPT !.turn = r.turn + 1, !.kept = r.kept + 1]
  <2> DEFINE z == V!Says(y, <<[type |-> "turn"]>>)
  <2> DEFINE l == IF z.turn >= MaxTalkTurns THEN V!Ended(z) ELSE z
  <2>1. /\ x.up # <<>> /\ lines' = [lines EXCEPT ![c] = l] /\ V!Page
        /\ miscounted' = miscounted /\ stranded' = stranded /\ late' = late
    <3>1. lines' = [lines EXCEPT ![c] = l]
      BY <1>6, Zenon DEF V!handleTurn, r, y
    <3> QED
      BY <1>6, <3>1 DEF V!handleTurn, V!Reads, V!Server
  <2>2. /\ y \in Lines /\ y.net = x.net /\ y.down = x.down /\ y.runs /\ y.row = x.row
        /\ y.turn = x.turn + 1 /\ y.kept = x.kept + 1
    <3>1. x.up # <<>>
      BY <2>1
    <3>2. /\ r \in Lines /\ r.net = x.net /\ r.down = x.down /\ r.runs /\ r.row = x.row
          /\ r.turn = x.turn /\ r.kept = x.kept
      BY <1>2, <3>1
    <3>3. r.turn + 1 \in Nat /\ r.kept + 1 \in Nat /\ r.turn \in Nat
      BY <1>1, <3>2
    <3> QED
      BY <3>2, <3>3 DEF Lines
  <2> HIDE DEF y
  <2>3. DownOk(z) /\ \A n \in Nat : x.net = "open" /\ Counted(x, n) => Counted(z, n)
    <3>1. y.kept = x.kept + OneTurn([type |-> "turn"])
      BY <1>1, <1>4, <2>2
    <3> QED
      BY <1>0, <1>1, <1>3, <2>2, <3>1, SaysOk
  <2>4. /\ z \in Lines /\ z.net = x.net /\ z.runs /\ z.row = x.row /\ z.turn = x.turn + 1 /\ z.kept = x.kept + 1
    BY <1>3, <2>2, SaysOne
  <2> HIDE DEF z
  <2>5. RowOk(z, c, miscounted', stranded')
    BY <1>1, <2>1, <2>4 DEF RowOk
  <2>6. /\ l \in Lines /\ l.net = x.net /\ LineOk(l, c, miscounted', stranded')
        /\ \A n \in Nat : x.net = "open" /\ Counted(x, n) => Counted(l, n)
    BY <2>3, <2>4, <2>5, EndedOk DEF LineOk
  <2> HIDE DEF l
  <2>7. l.net # "open" => l.down = <<>>
    BY <2>6 DEF LineOk, DownOk
  <2> QED
    BY <1>0, <2>1, <2>6, <2>7, ServerTalks
<1>7. ASSUME V!TurnFails(c) PROVE TalkInv'
  <2>1. PICK more \in BOOLEAN :
          /\ lines' = [lines EXCEPT ![c] =
                 V!Says([r EXCEPT !.turn = IF more THEN r.turn + 1 ELSE r.turn], <<[type |-> "error"]>>)]
          /\ IF more THEN V!Blip /\ miscounted' = miscounted \union {c} ELSE UNCHANGED <<miscounted, blips>>
    BY <1>7 DEF V!TurnFails, r
  <2> DEFINE y == [r EXCEPT !.turn = IF more THEN r.turn + 1 ELSE r.turn]
  <2> DEFINE l == V!Says(y, <<[type |-> "error"]>>)
  <2>2. /\ x.up # <<>> /\ lines' = [lines EXCEPT ![c] = l] /\ V!Page
        /\ stranded' = stranded /\ late' = late
    BY <1>7, <2>1 DEF V!TurnFails, V!Reads
  <2>3. miscounted \subseteq miscounted' /\ (more => c \in miscounted')
    <3>1. IF more THEN V!Blip /\ miscounted' = miscounted \union {c} ELSE UNCHANGED <<miscounted, blips>>
      BY <2>1
    <3> QED
      BY <3>1
  <2>4. /\ y \in Lines /\ y.net = x.net /\ y.down = x.down /\ y.runs /\ y.row = x.row
        /\ y.turn = (IF more THEN x.turn + 1 ELSE x.turn) /\ y.kept = x.kept
    <3>1. x.up # <<>>
      BY <2>2
    <3>2. /\ r \in Lines /\ r.net = x.net /\ r.down = x.down /\ r.runs /\ r.row = x.row
          /\ r.turn = x.turn /\ r.kept = x.kept
      BY <1>2, <3>1
    <3>3. r.turn + 1 \in Nat /\ r.kept + 1 \in Nat /\ r.turn \in Nat
      BY <1>1, <3>2
    <3> QED
      BY <3>2, <3>3 DEF Lines
  <2> HIDE DEF y
  <2>5. DownOk(l) /\ \A n \in Nat : x.net = "open" /\ Counted(x, n) => Counted(l, n)
    <3>1. y.kept = x.kept + OneTurn([type |-> "error"])
      BY <1>1, <1>4, <2>4
    <3> QED
      BY <1>0, <1>1, <1>3, <2>4, <3>1, SaysOk
  <2>6. /\ l \in Lines /\ l.net = x.net /\ l.runs /\ l.row = x.row /\ l.turn = y.turn /\ l.kept = x.kept
    BY <1>3, <2>4, SaysOne
  <2> HIDE DEF l
  <2>7. l.kept <= l.turn /\ (l.kept = l.turn \/ c \in miscounted')
    BY <1>1, <2>3, <2>4, <2>6
  <2>8. LineOk(l, c, miscounted', stranded') /\ (l.net # "open" => l.down = <<>>)
    BY <1>1, <2>5, <2>6, <2>7 DEF LineOk, RowOk, DownOk
  <2> QED
    BY <1>0, <2>2, <2>3, <2>5, <2>6, <2>8, ServerTalks
<1>8. ASSUME V!Finish(c) PROVE TalkInv'
  <2> DEFINE l == V!Ended(r)
  <2>1. /\ x.up # <<>> /\ lines' = [lines EXCEPT ![c] = l] /\ V!Page
        /\ miscounted' = miscounted /\ stranded' = stranded /\ late' = late
    BY <1>8 DEF V!Finish, V!Reads, V!Server, r
  <2>2. \A n \in Nat : Counted(x, n) => Counted(r, n)
    BY <1>2, <2>1 DEF Counted
  <2>3. /\ l \in Lines /\ l.net = x.net /\ LineOk(l, c, miscounted', stranded')
        /\ \A n \in Nat : x.net = "open" /\ Counted(x, n) => Counted(l, n)
    <3>1. /\ l \in Lines /\ l.net = r.net /\ LineOk(l, c, miscounted, stranded)
          /\ \A n \in Nat : r.net = "open" /\ Counted(r, n) => Counted(l, n)
      BY <1>2, <2>1, EndedOk
    <3> QED
      BY <1>2, <2>1, <2>2, <3>1
  <2> HIDE DEF l
  <2>4. l.net # "open" => l.down = <<>>
    BY <2>3 DEF LineOk, DownOk
  <2> QED
    BY <1>0, <2>1, <2>3, <2>4, ServerTalks
<1>9. ASSUME V!abandon(c) PROVE TalkInv'
  <2>1. /\ V!Page /\ miscounted' = miscounted /\ stranded' = stranded /\ late' = late
        /\ lines' = [lines EXCEPT ![c] =
               IF x.row = "open" /\ x.turn > 0 THEN V!Ended(x)
               ELSE [x EXCEPT !.runs = FALSE, !.row = IF x.row = "open" THEN "gone" ELSE x.row]]
    BY <1>9 DEF V!abandon, V!Server
  <2>2. CASE x.row = "open" /\ x.turn > 0
    <3> DEFINE l == V!Ended(x)
    <3>1. lines' = [lines EXCEPT ![c] = l]
      BY <2>1, <2>2
    <3>2. /\ l \in Lines /\ l.net = x.net /\ LineOk(l, c, miscounted', stranded')
          /\ \A n \in Nat : x.net = "open" /\ Counted(x, n) => Counted(l, n)
      BY <1>0, <1>1, <2>1, EndedOk
    <3> HIDE DEF l
    <3>3. l.net # "open" => l.down = <<>>
      BY <3>2 DEF LineOk, DownOk
    <3> QED
      BY <1>0, <2>1, <3>1, <3>2, <3>3, ServerTalks
  <2>3. CASE ~(x.row = "open" /\ x.turn > 0)
    <3> DEFINE l == [x EXCEPT !.runs = FALSE, !.row = IF x.row = "open" THEN "gone" ELSE x.row]
    <3>1. lines' = [lines EXCEPT ![c] = l]
      BY <2>1, <2>3
    <3>2. /\ l \in Lines /\ l.net = x.net /\ l.down = x.down /\ l.turn = x.turn /\ l.kept = x.kept /\ ~l.runs
          /\ l.row = IF x.row = "open" THEN "gone" ELSE x.row
      BY <1>1 DEF Lines
    <3> HIDE DEF l
    <3>3. RowOk(l, c, miscounted', stranded')
      BY <1>1, <2>1, <2>3, <3>2 DEF RowOk
    <3>4. DownOk(l)
      BY <1>0, <1>1, <3>2 DEF DownOk
    <3>5. \A n \in Nat : Counted(x, n) => Counted(l, n)
      BY <3>2 DEF Counted
    <3>6. LineOk(l, c, miscounted', stranded') /\ (l.net # "open" => l.down = <<>>)
      BY <3>3, <3>4 DEF LineOk, DownOk
    <3> QED
      BY <1>0, <2>1, <3>1, <3>2, <3>5, <3>6, ServerTalks
  <2> QED
    BY <2>2, <2>3
<1>10. ASSUME V!fail(c) PROVE TalkInv'
  <2> DEFINE y == [x EXCEPT !.runs = FALSE]
  <2> DEFINE l == V!Says(y, <<[type |-> "error"]>>)
  <2>1. /\ lines' = [lines EXCEPT ![c] = l] /\ V!Page
        /\ miscounted' = miscounted /\ stranded' = stranded \union {c} /\ late' = late
    BY <1>10 DEF V!fail
  <2>2. /\ y \in Lines /\ y.net = x.net /\ y.down = x.down /\ ~y.runs /\ y.row = x.row
        /\ y.turn = x.turn /\ y.kept = x.kept
    BY <1>1 DEF Lines
  <2> HIDE DEF y
  <2>3. DownOk(l) /\ \A n \in Nat : x.net = "open" /\ Counted(x, n) => Counted(l, n)
    <3>1. y.kept = x.kept + OneTurn([type |-> "error"])
      BY <1>1, <1>4, <2>2
    <3> QED
      BY <1>0, <1>1, <1>3, <2>2, <3>1, SaysOk
  <2>4. /\ l \in Lines /\ l.net = x.net /\ ~l.runs /\ l.row = x.row /\ l.turn = x.turn /\ l.kept = x.kept
    BY <1>3, <2>2, SaysOne
  <2> HIDE DEF l
  <2>5. LineOk(l, c, miscounted', stranded') /\ (l.net # "open" => l.down = <<>>)
    BY <1>1, <2>1, <2>3, <2>4 DEF LineOk, RowOk, DownOk
  <2> QED
    BY <1>0, <2>1, <2>3, <2>4, <2>5, ServerTalks
<1> QED
  BY <1>5, <1>6, <1>7, <1>8, <1>9, <1>10

\* The page takes a step on a line: if it is not the last one, it is quiet.
LEMMA AloneStep ==
    ASSUME TalkInv, ~late, NEW c \in DOMAIN lines, NEW l \in Lines, lines' = [lines EXCEPT ![c] = l],
           dialed' = dialed, miscounted' = miscounted, Quiet(lines[c]) => Quiet(l),
           c # dialed => UNCHANGED <<there, status, line, shownTurns, wrapUp>>,
           c = dialed => /\ \A i \in DOMAIN shownTurns' : shownTurns'[i] = dialed
                         /\ PageFollows'
                         /\ l.net \in {"asking", "dialing", "open"} => Counted(l, Len(shownTurns'))
                         /\ SummaryIsRight'
    PROVE  HeardAlone'
<1>1. HeardAlone /\ lines \in Seq(Lines) /\ dialed = Len(lines)
  BY DEF TalkInv, OneIsHeard, TalkTypes
<1>2. DOMAIN lines' = DOMAIN lines /\ lines'[c] = l /\ \A d \in DOMAIN lines : d # c => lines'[d] = lines[d]
  OBVIOUS
<1>3. \A d \in DOMAIN lines' : d # dialed' => Quiet(lines'[d])
  BY <1>1, <1>2 DEF HeardAlone
<1>4. dialed \in DOMAIN lines
  BY <1>1
<1>5. CASE c = dialed
  BY <1>2, <1>3, <1>5 DEF HeardAlone, ThisLine
<1>6. CASE c # dialed
  <2>1. ThisLine' = ThisLine
    BY <1>2, <1>4, <1>6 DEF ThisLine
  <2>2. PageFollows' /\ SummaryIsRight'
    <3>1. dialed # 0 /\ UNCHANGED <<there, status, line, shownTurns, wrapUp>>
      BY <1>1, <1>4, <1>6
    <3>2. PageFollows /\ SummaryIsRight
      BY <1>1, <3>1 DEF HeardAlone
    <3>3. PageFollows'
      BY <2>1, <3>1, <3>2 DEF PageFollows
    <3>4. miscounted \subseteq miscounted'
      OBVIOUS
    <3> QED
      BY <2>1, <3>1, <3>2, <3>3, <3>4 DEF SummaryIsRight
  <2>3. /\ \A i \in DOMAIN shownTurns' : shownTurns'[i] = dialed'
        /\ ThisLine'.net \in {"asking", "dialing", "open"} => Counted(ThisLine', Len(shownTurns'))
    BY <1>1, <1>4, <1>6, <2>1 DEF HeardAlone
  <2> QED
    BY <1>3, <2>2, <2>3 DEF HeardAlone
<1> QED
  BY <1>5, <1>6

\* What is known of a line that is heard.
LEMMA LineHeard ==
    ASSUME TalkInv, NEW c \in DOMAIN lines
    PROVE  /\ lines[c] \in Lines /\ RowOk(lines[c], c, miscounted, stranded) /\ DownOk(lines[c])
           /\ c \in 1..dialed /\ dialed \in Nat /\ dialed # 0 /\ line \in 0..dialed /\ shownTurns \in Seq(Nat)
           /\ there \in BOOLEAN
           /\ status \in {"idle", "error", "finished", "connecting", "ready", "thinking"}
           /\ ~late /\ ~Quiet(lines[c]) =>
                  /\ c = dialed /\ wrapUp = V!NoSummary
                  /\ there => status \notin {"idle", "error", "finished"}
           /\ ~late /\ c = dialed =>
                  /\ \A i \in DOMAIN shownTurns : shownTurns[i] = dialed
                  /\ PageFollows /\ SummaryIsRight
                  /\ lines[c].net \in {"asking", "dialing", "open"} => Counted(lines[c], Len(shownTurns))
<1>1. /\ lines[c] \in Lines /\ RowOk(lines[c], c, miscounted, stranded) /\ DownOk(lines[c])
      /\ c \in 1..dialed /\ dialed \in Nat /\ dialed # 0 /\ line \in 0..dialed /\ shownTurns \in Seq(Nat)
      /\ there \in BOOLEAN
      /\ status \in {"idle", "error", "finished", "connecting", "ready", "thinking"}
  BY DEF TalkInv, TalkTypes, LinesAreOk, LineOk
<1>2. ~late => HeardAlone
  BY DEF TalkInv, OneIsHeard
<1>3. ASSUME ~late, ~Quiet(lines[c])
      PROVE  /\ c = dialed /\ wrapUp = V!NoSummary
             /\ there => status \notin {"idle", "error", "finished"}
  BY <1>1, <1>2, <1>3 DEF HeardAlone, PageFollows, SummaryIsRight, ThisLine
<1>4. ASSUME ~late, c = dialed
      PROVE  /\ \A i \in DOMAIN shownTurns : shownTurns[i] = dialed
             /\ PageFollows /\ SummaryIsRight
             /\ lines[c].net \in {"asking", "dialing", "open"} => Counted(lines[c], Len(shownTurns))
  BY <1>1, <1>2, <1>4 DEF HeardAlone, ThisLine
<1> QED
  BY <1>1, <1>3, <1>4

LEMMA SocketOpens ==
    ASSUME TalkInv, NEW c \in DOMAIN lines, V!refreshSession(c) \/ V!onopen(c)
    PROVE  TalkInv'
<1> DEFINE x == lines[c]
<1>1. /\ x \in Lines /\ RowOk(x, c, miscounted, stranded) /\ DownOk(x)
      /\ c \in 1..dialed /\ dialed \in Nat /\ dialed # 0 /\ line \in 0..dialed /\ shownTurns \in Seq(Nat)
      /\ there \in BOOLEAN
      /\ status \in {"idle", "error", "finished", "connecting", "ready", "thinking"}
  BY LineHeard
<1>2. /\ x.net \in {"asking", "dialing"} /\ ~Quiet(x) /\ x.down = <<>> /\ ~x.runs /\ x.row = "none" /\ x.turn = 0
      /\ x.kept = 0
  <2>1. x.net \in {"asking", "dialing"}
    BY DEF V!refreshSession, V!onopen
  <2>2. ~x.runs /\ x.row = "none" /\ x.turn = 0 /\ x.kept <= x.turn /\ x.kept \in Nat
    BY <1>1, <2>1 DEF RowOk, Lines
  <2> QED
    BY <1>1, <2>1, <2>2 DEF DownOk, Quiet
<1>3. ~late => /\ c = dialed /\ wrapUp = V!NoSummary /\ (there => status = "connecting")
               /\ \A i \in DOMAIN shownTurns : shownTurns[i] = dialed
               /\ PageFollows /\ SummaryIsRight /\ Counted(x, Len(shownTurns))
  <2> SUFFICES ASSUME ~late
               PROVE  /\ c = dialed /\ wrapUp = V!NoSummary /\ (there => status = "connecting")
                      /\ \A i \in DOMAIN shownTurns : shownTurns[i] = dialed
                      /\ PageFollows /\ SummaryIsRight /\ Counted(x, Len(shownTurns))
    OBVIOUS
  <2>1. c = dialed /\ wrapUp = V!NoSummary
    BY <1>2, LineHeard
  <2>2. /\ \A i \in DOMAIN shownTurns : shownTurns[i] = dialed
        /\ PageFollows /\ SummaryIsRight /\ Counted(x, Len(shownTurns))
    BY <1>2, <2>1, LineHeard
  <2> QED
    BY <1>2, <2>1, <2>2 DEF PageFollows, ThisLine
<1>4. UNCHANGED <<there, dialed, shownTurns, wrapUp, miscounted, stranded, late>>
  BY DEF V!refreshSession, V!onopen, V!Server, V!Page
<1>5. ASSUME NEW l \in Lines, lines' = [lines EXCEPT ![c] = l], l.down = <<>>, l.kept = 0, l.turn = 0, l.row = "none",
             l.net \in {"dialing", "open", "over"}, l.net = "dialing" => ~l.runs,
             line' \in 0..dialed,
             status' \in {"idle", "error", "finished", "connecting", "ready", "thinking"},
             l.net \in {"dialing", "open"} => line' \in {c, line} /\ status' = status,
             x.net = "asking" /\ l.net = "dialing" => line' = c,
             l.net = "open" => x.net = "dialing" /\ l.runs
      PROVE  TalkInv'
  <2>1. LineOk(l, c, miscounted', stranded')
    BY <1>1, <1>5 DEF LineOk, RowOk, DownOk, Lines
  <2>2. /\ TalkTypes' /\ LinesAreOk'
        /\ DOMAIN lines' = DOMAIN lines /\ lines'[c] = l
        /\ \A d \in DOMAIN lines : d # c => lines'[d] = lines[d]
    BY <1>1, <1>4, <1>5, <2>1, LineChange
  <2>3. ASSUME ~late PROVE HeardAlone'
    <3>1. c = dialed /\ ThisLine' = l /\ ThisLine = x /\ dialed' = dialed
      BY <1>3, <1>4, <2>2, <2>3 DEF ThisLine
    <3>2. PageFollows'
      <4>1. l.net = "over" => Quiet(l)
        BY DEF Quiet
      <4>2. there => status = "connecting" /\ (x.net = "dialing" => line = dialed)
        BY <1>3, <2>3, <3>1 DEF PageFollows
      <4> QED
        BY <1>2, <1>4, <1>5, <3>1, <4>1, <4>2 DEF PageFollows
    <3>3. Counted(l, Len(shownTurns'))
      <4>1. l.down = x.down /\ l.kept = x.kept
        BY <1>2, <1>5
      <4> QED
        BY <1>3, <1>4, <2>3, <4>1 DEF Counted
    <3>4. SummaryIsRight'
      BY <1>3, <1>4, <2>3 DEF SummaryIsRight
    <3>5. \A i \in DOMAIN shownTurns' : shownTurns'[i] = dialed
      BY <1>3, <1>4, <2>3
    <3> QED
      BY <1>2, <1>4, <1>5, <2>3, <3>1, <3>2, <3>3, <3>4, <3>5, AloneStep
  <2> QED
    BY <1>4, <2>2, <2>3 DEF TalkInv, OneIsHeard
<1>6. ASSUME V!onopen(c) PROVE TalkInv'
  <2> DEFINE l == [x EXCEPT !.net = "open", !.up = <<"start">>, !.runs = TRUE]
  <2>1. lines' = [lines EXCEPT ![c] = l] /\ x.net = "dialing" /\ line' = line /\ status' = status
    BY <1>6 DEF V!onopen, V!Page
  <2>2. <<"start">> \in Seq({"start", "turn", "finish"})
    OBVIOUS
  <2>3. /\ l \in Lines /\ l.down = <<>> /\ l.kept = 0 /\ l.turn = 0 /\ l.row = "none" /\ l.net = "open" /\ l.runs
    BY <1>1, <1>2, <2>2 DEF Lines
  <2> HIDE DEF l
  <2> QED
    BY <1>1, <1>5, <2>1, <2>3
<1>7. ASSUME V!refreshSession(c) PROVE TalkInv'
  <2>1. x.net = "asking"
    BY <1>7 DEF V!refreshSession
  <2>2. ASSUME line' = c, lines' = [lines EXCEPT ![c].net = "dialing"], status' = status PROVE TalkInv'
    <3> DEFINE l == [x EXCEPT !.net = "dialing"]
    <3>1. lines' = [lines EXCEPT ![c] = l] /\ c \in 0..dialed
      BY <1>1, <2>2
    <3>2. /\ l \in Lines /\ l.down = <<>> /\ l.kept = 0 /\ l.turn = 0 /\ l.row = "none" /\ l.net = "dialing" /\ ~l.runs
      BY <1>1, <1>2 DEF Lines
    <3> HIDE DEF l
    <3> QED
      BY <1>1, <1>5, <2>1, <2>2, <3>1, <3>2
  <2>3. ASSUME V!ShowsIf("error"), lines' = [lines EXCEPT ![c].net = "over"], line' = line PROVE TalkInv'
    <3> DEFINE l == [x EXCEPT !.net = "over"]
    <3>1. /\ lines' = [lines EXCEPT ![c] = l]
          /\ status' \in {"idle", "error", "finished", "connecting", "ready", "thinking"}
      BY <1>1, <2>3 DEF V!ShowsIf
    <3>2. /\ l \in Lines /\ l.down = <<>> /\ l.kept = 0 /\ l.turn = 0 /\ l.row = "none" /\ l.net = "over"
      BY <1>1, <1>2 DEF Lines
    <3> HIDE DEF l
    <3> QED
      BY <1>1, <1>5, <2>1, <2>3, <3>1, <3>2
  <2> QED
    BY <1>7, <2>2, <2>3 DEF V!refreshSession
<1> QED
  BY <1>6, <1>7

\* A message is heard; after a summary there is none.
LEMMA MessageHeard ==
    ASSUME TalkInv, NEW c \in DOMAIN lines, V!onmessage(c)
    PROVE  TalkInv'
<1> DEFINE x == lines[c]
<1> DEFINE m == Head(x.down)
<1> DEFINE l == [x EXCEPT !.down = Tail(x.down)]
<1>1. /\ x \in Lines /\ RowOk(x, c, miscounted, stranded) /\ DownOk(x)
      /\ c \in 1..dialed /\ dialed \in Nat /\ dialed # 0 /\ line \in 0..dialed /\ shownTurns \in Seq(Nat)
      /\ there \in BOOLEAN
      /\ status \in {"idle", "error", "finished", "connecting", "ready", "thinking"}
  BY LineHeard
<1>2. /\ x.down # <<>> /\ lines' = [lines EXCEPT ![c] = l]
      /\ shownTurns' = (IF m.type = "turn" THEN Append(shownTurns, c) ELSE shownTurns)
      /\ wrapUp' = (IF m.type = "summary" THEN [of |-> c, turns |-> m.turns] ELSE wrapUp)
      /\ V!ShowsIf(IF m.type = "summary" \/ (m.type = "error" /\ status = "finished") THEN "finished" ELSE "ready")
      /\ UNCHANGED <<there, dialed, line, miscounted, stranded, late>>
  BY DEF V!onmessage, V!Server
<1>3. x.net = "open" /\ ~Quiet(x)
  BY <1>1, <1>2 DEF DownOk, Quiet
<1>4. /\ x.down \in Seq(News) /\ Len(x.down) \in Nat /\ Len(x.down) >= 1 /\ m = x.down[1] /\ m \in News
      /\ Tail(x.down) \in Seq(News) /\ Len(Tail(x.down)) = Len(x.down) - 1
      /\ \A i \in 1..(Len(x.down) - 1) : Tail(x.down)[i] = x.down[i + 1]
  BY <1>1, <1>2 DEF Lines
<1> HIDE DEF m
<1>5. /\ l \in Lines /\ l.net = "open" /\ l.down = Tail(x.down) /\ l.runs = x.runs /\ l.row = x.row
      /\ l.turn = x.turn /\ l.kept = x.kept
  BY <1>1, <1>3, <1>4 DEF Lines
<1> HIDE DEF l
<1>6. LineOk(l, c, miscounted', stranded')
  <2>1. RowOk(l, c, miscounted', stranded')
    BY <1>1, <1>2, <1>3, <1>5 DEF RowOk
  <2>2. ASSUME NEW i \in DOMAIN l.down, l.down[i].type = "summary"
        PROVE  i = Len(l.down) /\ ~l.runs /\ l.down[i].turns = l.turn
    <3>1. i \in 1..(Len(x.down) - 1) /\ i + 1 \in DOMAIN x.down /\ l.down[i] = x.down[i + 1]
      BY <1>4, <1>5
    <3>2. i + 1 = Len(x.down) /\ ~x.runs /\ x.down[i + 1].turns = x.turn
      BY <1>1, <2>2, <3>1 DEF DownOk
    <3> QED
      BY <1>4, <1>5, <3>1, <3>2
  <2> QED
    BY <1>5, <2>1, <2>2 DEF LineOk, DownOk
<1>7. c \in Nat /\ shownTurns' \in Seq(Nat)
  BY <1>1, <1>2
<1>8. status' \in {"idle", "error", "finished", "connecting", "ready", "thinking"}
  BY <1>1, <1>2 DEF V!ShowsIf
<1>9. /\ TalkTypes' /\ LinesAreOk'
      /\ DOMAIN lines' = DOMAIN lines /\ lines'[c] = l
      /\ \A d \in DOMAIN lines : d # c => lines'[d] = lines[d]
  <2>1. /\ dialed' = dialed /\ line' \in 0..dialed /\ there' \in BOOLEAN
        /\ miscounted \subseteq miscounted' /\ stranded \subseteq stranded'
    BY <1>1, <1>2
  <2> QED
    BY <1>2, <1>5, <1>6, <1>7, <1>8, <2>1, LineChange
<1>10. ASSUME ~late PROVE HeardAlone'
  <2>1. /\ c = dialed /\ wrapUp = V!NoSummary
        /\ there => status \notin {"idle", "error", "finished"}
    BY <1>3, <1>10, LineHeard
  <2>2. /\ \A i \in DOMAIN shownTurns : shownTurns[i] = dialed
        /\ PageFollows /\ Counted(x, Len(shownTurns))
    BY <1>3, <1>10, <2>1, LineHeard
  <2>3. ThisLine' = l /\ ThisLine = x /\ dialed' = dialed
    BY <1>2, <1>9, <2>1 DEF ThisLine
  <2>4. m.type = "summary" => ~x.runs /\ m.turns = x.turn /\ l.down = <<>>
    <3>1. m.type = "summary" => 1 = Len(x.down) /\ ~x.runs /\ m.turns = x.turn
      <4>1. 1 \in DOMAIN x.down
        BY <1>4
      <4>2. x.down[1].type = "summary" => 1 = Len(x.down) /\ ~x.runs /\ x.down[1].turns = x.turn
        BY <1>1, <4>1 DEF DownOk
      <4>3. m = x.down[1]
        BY <1>4
      <4> QED
        BY <4>2, <4>3
    <3>2. Len(x.down) = 1 => l.down = <<>>
      <4>1. l.down \in Seq(News) /\ Len(l.down) = Len(x.down) - 1 /\ Len(x.down) \in Nat
        BY <1>4, <1>5
      <4>2. Len(x.down) = 1 => Len(l.down) = 0
        BY <4>1
      <4>3. Len(l.down) = 0 => l.down = <<>>
        BY <4>1, EmptySeq
      <4> QED
        BY <4>2, <4>3
    <3> QED
      BY <3>1, <3>2
  <2>5. Len(shownTurns) \in Nat /\ Len(shownTurns') = Len(shownTurns) + OneTurn(m)
    BY <1>1, <1>2, <1>7 DEF OneTurn
  <2>6. /\ Counted(l, Len(shownTurns) + OneTurn(m))
        /\ l.down = <<>> => x.kept = Len(shownTurns) + OneTurn(m)
    <3> DEFINE n == Len(shownTurns)
    <3>1. l.down = Tail(x.down) /\ l.kept = x.kept
      BY <1>5
    <3>2. x.down # <<>>
      BY <1>2
    <3>3. x \in Lines /\ l \in Lines /\ n \in Nat /\ Counted(x, n)
      BY <1>1, <1>5, <2>2, <2>5
    <3>4. m = Head(x.down)
      BY DEF m
    <3> HIDE DEF n
    <3>5. Counted(l, n + OneTurn(Head(x.down))) /\ (l.down = <<>> => x.kept = n + OneTurn(Head(x.down)))
      BY <3>1, <3>2, <3>3, CountsLess
    <3> QED
      BY <3>4, <3>5 DEF n
  <2>7. PageFollows'
    <3>1. there' => status' = IF m.type = "summary" THEN "finished" ELSE "ready"
      BY <1>2, <2>1 DEF V!ShowsIf
    <3>2. m.type = "summary" => Quiet(l)
      BY <1>5, <2>4 DEF Quiet
    <3>3. there => line = dialed
      BY <1>3, <2>2, <2>3 DEF PageFollows
    <3> QED
      BY <1>2, <1>5, <2>3, <3>1, <3>2, <3>3 DEF PageFollows
  <2>8. SummaryIsRight'
    <3>1. CASE m.type = "summary"
      <4>1. wrapUp'.of = dialed /\ wrapUp'.turns = x.turn /\ Quiet(l)
        BY <1>2, <1>5, <2>1, <2>4, <3>1 DEF Quiet
      <4>2. Len(shownTurns') = x.kept
        BY <2>4, <2>5, <2>6, <3>1
      <4>3. x.kept = x.turn \/ c \in miscounted
        BY <1>1 DEF RowOk
      <4> QED
        BY <1>1, <1>2, <2>1, <2>3, <4>1, <4>2, <4>3 DEF SummaryIsRight
    <3>2. CASE m.type # "summary"
      BY <1>2, <2>1, <3>2 DEF SummaryIsRight
    <3> QED
      BY <3>1, <3>2
  <2>9. \A i \in DOMAIN shownTurns' : shownTurns'[i] = dialed
    BY <1>1, <1>2, <2>1, <2>2
  <2>10. Counted(l, Len(shownTurns'))
    BY <2>5, <2>6
  <2> QED
    BY <1>2, <1>3, <1>5, <1>10, <2>1, <2>7, <2>8, <2>9, <2>10, AloneStep
<1> QED
  BY <1>2, <1>9, <1>10 DEF TalkInv, OneIsHeard

\* A socket is heard no more.
LEMMA SocketCloses ==
    ASSUME TalkInv, NEW c \in DOMAIN lines, V!onclose(c) \/ V!Break(c)
    PROVE  TalkInv'
<1> DEFINE x == lines[c]
<1>1. /\ x \in Lines /\ RowOk(x, c, miscounted, stranded) /\ DownOk(x)
      /\ c \in 1..dialed /\ dialed \in Nat /\ dialed # 0 /\ line \in 0..dialed /\ shownTurns \in Seq(Nat)
      /\ there \in BOOLEAN
      /\ status \in {"idle", "error", "finished", "connecting", "ready", "thinking"}
  BY LineHeard
<1>2. UNCHANGED <<there, dialed, shownTurns, wrapUp, miscounted, stranded>>
  BY DEF V!onclose, V!Break, V!Page, V!Server
<1>3. ASSUME NEW l \in Lines, lines' = [lines EXCEPT ![c] = l], l.down = <<>>, l.net \in {"down", "over"},
             l.runs = x.runs, l.row = x.row, l.turn = x.turn, l.kept = x.kept,
             line' \in 0..dialed,
             status' \in {"idle", "error", "finished", "connecting", "ready", "thinking"},
             ~late' => ~late /\ (c # dialed => UNCHANGED <<status, line>>),
             l.net = "down" => line' = line /\ x.net \in {"dialing", "open"}
      PROVE  TalkInv'
  <2>1. LineOk(l, c, miscounted', stranded')
    BY <1>1, <1>2, <1>3 DEF LineOk, RowOk, DownOk
  <2>2. /\ TalkTypes' /\ LinesAreOk'
        /\ DOMAIN lines' = DOMAIN lines /\ lines'[c] = l
        /\ \A d \in DOMAIN lines : d # c => lines'[d] = lines[d]
    BY <1>1, <1>2, <1>3, <2>1, LineChange
  <2>3. ASSUME ~late' PROVE HeardAlone'
    <3>1. Quiet(l)
      BY <1>3 DEF Quiet
    <3>2. ASSUME c = dialed
          PROVE  /\ \A i \in DOMAIN shownTurns' : shownTurns'[i] = dialed
                 /\ PageFollows'
                 /\ l.net \in {"asking", "dialing", "open"} => Counted(l, Len(shownTurns'))
                 /\ SummaryIsRight'
      <4>1. ~late /\ ThisLine' = l /\ ThisLine = x /\ dialed' = dialed
        BY <1>2, <1>3, <2>2, <2>3, <3>2 DEF ThisLine
      <4>2. (\A i \in DOMAIN shownTurns : shownTurns[i] = dialed) /\ PageFollows /\ SummaryIsRight
        BY <3>2, <4>1, LineHeard
      <4>3. PageFollows'
        BY <1>2, <1>3, <3>1, <4>1, <4>2 DEF PageFollows
      <4>4. SummaryIsRight'
        BY <1>2, <3>1, <4>1, <4>2 DEF SummaryIsRight
      <4> QED
        BY <1>2, <1>3, <4>2, <4>3, <4>4
    <3>3. ~late /\ dialed' = dialed /\ miscounted' = miscounted
      BY <1>2, <1>3, <2>3
    <3>4. c # dialed => UNCHANGED <<there, status, line, shownTurns, wrapUp>>
      BY <1>2, <1>3, <2>3
    <3> QED
      BY <1>3, <3>1, <3>2, <3>3, <3>4, AloneStep
  <2> QED
    BY <2>2, <2>3 DEF TalkInv, OneIsHeard
<1>4. ASSUME V!onclose(c) PROVE TalkInv'
  <2> DEFINE l == [x EXCEPT !.net = "over", !.down = <<>>]
  <2>1. lines' = [lines EXCEPT ![c] = l] /\ line' = 0
    BY <1>4 DEF V!onclose
  <2>2. late' = (late \/ c # dialed)
    BY <1>4 DEF V!onclose
  <2>3. ~late' => ~late /\ c = dialed
    BY <2>2, Zenon
  <2>4. status' \in {"idle", "error", "finished", "connecting", "ready", "thinking"}
    <3>1. status' \in {status, "error", "finished"}
      BY <1>4, Zenon DEF V!onclose, V!ShowsIf
    <3> QED
      BY <1>1, <3>1
  <2>5. <<>> \in Seq(News)
    OBVIOUS
  <2>6. /\ l \in Lines /\ l.down = <<>> /\ l.net = "over" /\ l.runs = x.runs /\ l.row = x.row
        /\ l.turn = x.turn /\ l.kept = x.kept
    BY <1>1, <2>5 DEF Lines
  <2> HIDE DEF l
  <2>7. ~late' => ~late /\ (c # dialed => UNCHANGED <<status, line>>)
    BY <2>3, Zenon
  <2>8. line' \in 0..dialed /\ l.net \in {"down", "over"} /\ l.net # "down"
    BY <1>1, <2>1, <2>6
  <2> QED
    BY <1>3, <2>1, <2>4, <2>6, <2>7, <2>8
<1>5. ASSUME V!Break(c) PROVE TalkInv'
  <2> DEFINE l == [x EXCEPT !.net = "down", !.up = <<>>, !.down = <<>>]
  <2>1. /\ lines' = [lines EXCEPT ![c] = l] /\ UNCHANGED <<line, status, late>>
        /\ x.net \in {"dialing", "open"}
    BY <1>5 DEF V!Break, V!Page, V!Server
  <2>2. <<>> \in Seq(News) /\ <<>> \in Seq({"start", "turn", "finish"})
    OBVIOUS
  <2>3. /\ l \in Lines /\ l.down = <<>> /\ l.net = "down" /\ l.runs = x.runs /\ l.row = x.row
        /\ l.turn = x.turn /\ l.kept = x.kept
    BY <1>1, <2>2 DEF Lines
  <2> HIDE DEF l
  <2> QED
    BY <1>1, <1>3, <2>1, <2>3
<1> QED
  BY <1>4, <1>5

\* A conversation is begun: the one before it is over.
LEMMA TalkBegins ==
    ASSUME TalkInv, V!connect
    PROVE  TalkInv'
<1>1. /\ lines \in Seq(Lines) /\ dialed = Len(lines) /\ dialed \in Nat /\ line \in 0..dialed
      /\ DOMAIN lines = 1..dialed
  BY DEF TalkInv, TalkTypes
<1>2. /\ there /\ status \in {"idle", "error", "finished"} /\ dialed' = dialed + 1
      /\ lines' = Append(lines, V!NewLine) /\ status' = "connecting" /\ wrapUp' = V!NoSummary
      /\ shownTurns' = <<>> /\ UNCHANGED <<there, line, miscounted, stranded, late>>
  BY DEF V!connect, V!Begin, V!Server
<1> DEFINE l == V!NewLine
<1>3. <<>> \in Seq(News) /\ <<>> \in Seq({"start", "turn", "finish"}) /\ <<>> \in Seq(Nat) /\ DOMAIN <<>> = {}
  OBVIOUS
<1>4. /\ l \in Lines /\ l.net = "asking" /\ l.down = <<>> /\ ~l.runs /\ l.row = "none" /\ l.turn = 0 /\ l.kept = 0
  BY <1>3 DEF Lines, V!NewLine
<1> HIDE DEF l
<1>5. /\ lines' \in Seq(Lines) /\ Len(lines') = dialed + 1 /\ DOMAIN lines' = 1..(dialed + 1)
      /\ lines'[dialed + 1] = l /\ \A c \in 1..dialed : lines'[c] = lines[c]
  BY <1>1, <1>2, <1>4, AppendProperties DEF l
<1>6. TalkTypes'
  <2>1. shownTurns' \in Seq(Nat) /\ line' \in 0..(dialed + 1)
    BY <1>1, <1>2, <1>3
  <2> QED
    BY <1>2, <1>5, <2>1 DEF TalkInv, TalkTypes
<1>7. LinesAreOk'
  <2>1. LineOk(l, dialed + 1, miscounted', stranded')
    BY <1>3, <1>4 DEF LineOk, RowOk, DownOk
  <2>2. \A c \in 1..dialed : LineOk(lines[c], c, miscounted', stranded')
    BY <1>1, <1>2 DEF TalkInv, LinesAreOk
  <2> QED
    BY <1>1, <1>5, <2>1, <2>2 DEF LinesAreOk
<1>8. ASSUME ~late PROVE HeardAlone'
  <2>1. HeardAlone
    BY <1>8 DEF TalkInv, OneIsHeard
  <2>2. \A c \in 1..dialed : Quiet(lines[c])
    BY <1>1, <1>2, <2>1 DEF HeardAlone, PageFollows, ThisLine
  <2>3. \A c \in DOMAIN lines' : c # dialed' => Quiet(lines'[c])
    BY <1>1, <1>2, <1>5, <2>2
  <2>4. ThisLine' = l
    BY <1>2, <1>5 DEF ThisLine
  <2>5. PageFollows' /\ SummaryIsRight'
    BY <1>2, <1>4, <2>4 DEF PageFollows, SummaryIsRight
  <2>6. Counted(l, Len(shownTurns'))
    <3>1. Len(shownTurns') = 0 /\ Len(l.down) = 0
      BY <1>2, <1>4
    <3> DEFINE f == [i \in 0..Len(l.down) |-> 0]
    <3>2. f \in [0..Len(l.down) -> Nat] /\ f[0] = 0 /\ f[Len(l.down)] = 0
      BY <3>1
    <3> HIDE DEF f
    <3> QED
      BY <1>4, <3>1, <3>2 DEF Counted
  <2> QED
    BY <1>2, <1>3, <2>3, <2>4, <2>5, <2>6 DEF HeardAlone
<1> QED
  BY <1>2, <1>6, <1>7, <1>8 DEF TalkInv, OneIsHeard

\* A line is spoken on, or left.
LEMMA LineSpoken ==
    ASSUME TalkInv, NEW c \in DOMAIN lines, NEW l \in Lines, lines' = [lines EXCEPT ![c] = l],
           l.runs = lines[c].runs, l.row = lines[c].row, l.turn = lines[c].turn, l.kept = lines[c].kept,
           \/ l.net = lines[c].net /\ l.down = lines[c].down
           \/ l.net = "over" /\ l.down = <<>> /\ ~there',
           UNCHANGED <<dialed, shownTurns, wrapUp, miscounted, stranded, late>>,
           line' \in 0..dialed, there' \in BOOLEAN, there' => there /\ line' = line,
           status' \in {"idle", "error", "finished", "connecting", "ready", "thinking"},
           there' => status = "ready" /\ status' \in {"ready", "thinking"}
    PROVE  TalkInv'
<1> DEFINE x == lines[c]
<1>1. /\ x \in Lines /\ RowOk(x, c, miscounted, stranded) /\ DownOk(x)
      /\ c \in 1..dialed /\ dialed \in Nat /\ dialed # 0 /\ shownTurns \in Seq(Nat)
  BY LineHeard
<1>2. LineOk(l, c, miscounted', stranded')
  BY <1>1 DEF LineOk, RowOk, DownOk
<1>3. /\ TalkTypes' /\ LinesAreOk'
      /\ DOMAIN lines' = DOMAIN lines /\ lines'[c] = l
      /\ \A d \in DOMAIN lines : d # c => lines'[d] = lines[d]
  <2>1. shownTurns' \in Seq(Nat) /\ miscounted \subseteq miscounted' /\ stranded \subseteq stranded'
    BY <1>1
  <2> QED
    BY <1>2, <2>1, LineChange
<1>4. ASSUME ~late PROVE HeardAlone'
  <2>1. HeardAlone
    BY <1>4 DEF TalkInv, OneIsHeard
  <2>2. Quiet(x) => Quiet(l)
    BY DEF Quiet
  <2>3. \A d \in DOMAIN lines' : d # dialed' => Quiet(lines'[d])
    BY <1>3, <2>1, <2>2 DEF HeardAlone
  <2>4. dialed \in DOMAIN lines
    BY <1>1 DEF TalkInv, TalkTypes
  <2>5. Quiet(ThisLine) => Quiet(ThisLine')
    BY <1>3, <2>2, <2>4 DEF ThisLine
  <2>6. PageFollows'
    <3>1. CASE ~there'
      BY <3>1 DEF PageFollows
    <3>2. CASE there'
      <4>1. ThisLine'.net = ThisLine.net
        BY <1>3, <2>4, <3>2 DEF ThisLine
      <4>2. there /\ status = "ready" /\ PageFollows
        BY <1>1, <2>1, <3>2 DEF HeardAlone
      <4> QED
        BY <3>2, <4>1, <4>2 DEF PageFollows
    <3> QED
      BY <3>1, <3>2
  <2>7. SummaryIsRight'
    BY <2>1, <2>5 DEF HeardAlone, SummaryIsRight
  <2>8. ThisLine'.net \in {"asking", "dialing", "open"} => Counted(ThisLine', Len(shownTurns'))
    <3>1. CASE c = dialed
      <4>1. l.net \in {"asking", "dialing", "open"} => l.net = x.net /\ l.down = x.down
        OBVIOUS
      <4>2. Counted(x, Len(shownTurns)) /\ l.down = x.down => Counted(l, Len(shownTurns))
        BY DEF Counted
      <4>3. x.net \in {"asking", "dialing", "open"} => Counted(x, Len(shownTurns))
        BY <1>1, <2>1, <3>1 DEF HeardAlone, ThisLine
      <4> QED
        BY <1>3, <3>1, <4>1, <4>2, <4>3 DEF ThisLine
    <3>2. CASE c # dialed
      BY <1>1, <1>3, <2>1, <2>4, <3>2 DEF HeardAlone, ThisLine
    <3> QED
      BY <3>1, <3>2
  <2>9. \A i \in DOMAIN shownTurns' : shownTurns'[i] = dialed'
    BY <2>1 DEF HeardAlone
  <2> QED
    BY <2>3, <2>6, <2>7, <2>8, <2>9 DEF HeardAlone
<1> QED
  BY <1>3, <1>4 DEF TalkInv, OneIsHeard

LEMMA TalkStep == TalkInv /\ [Next]_pageVars => TalkInv'
<1> SUFFICES ASSUME TalkInv, [Next]_pageVars PROVE TalkInv'
  OBVIOUS
<1>1. V!TalkNext \/ UNCHANGED live
  BY PageSteps
<1>2. /\ lines \in Seq(Lines) /\ dialed = Len(lines) /\ dialed \in Nat /\ line \in 0..dialed /\ there \in BOOLEAN
      /\ status \in {"idle", "error", "finished", "connecting", "ready", "thinking"}
  BY DEF TalkInv, TalkTypes
<1>3. ASSUME UNCHANGED live PROVE TalkInv'
  BY <1>3 DEF live, TalkInv, TalkTypes, LinesAreOk, OneIsHeard, HeardAlone, PageFollows, SummaryIsRight, ThisLine
<1>4. ASSUME V!sendTurn PROVE TalkInv'
  <2>1. /\ there /\ status = "ready" /\ V!Up /\ status' = "thinking" /\ V!Send(line, "turn")
        /\ UNCHANGED <<there, dialed, line, shownTurns, wrapUp, miscounted, stranded, late>>
    BY <1>4 DEF V!sendTurn, V!Server
  <2>2. line \in DOMAIN lines
    BY <1>2, <2>1 DEF V!Up
  <2> DEFINE l == [lines[line] EXCEPT !.up = Append(lines[line].up, "turn")]
  <2>3. lines' = [lines EXCEPT ![line] = l]
    BY <2>1 DEF V!Send
  <2>4. /\ l \in Lines /\ l.runs = lines[line].runs /\ l.row = lines[line].row /\ l.turn = lines[line].turn
        /\ l.kept = lines[line].kept /\ l.net = lines[line].net /\ l.down = lines[line].down
    <3>1. lines[line] \in Lines /\ Append(lines[line].up, "turn") \in Seq({"start", "turn", "finish"})
      <4>1. lines[line] \in Lines
        BY <1>2, <2>2
      <4>2. lines[line].up \in Seq({"start", "turn", "finish"})
        BY <4>1 DEF Lines
      <4> QED
        BY <4>1, <4>2, AppendProperties
    <3> QED
      BY <3>1 DEF Lines
  <2> HIDE DEF l
  <2>5. line' \in 0..dialed /\ there' \in BOOLEAN
    BY <1>2, <2>1
  <2> QED
    BY <2>1, <2>2, <2>3, <2>4, <2>5, LineSpoken
<1>5. ASSUME V!finish PROVE TalkInv'
  <2>1. /\ there /\ status = "ready"
        /\ UNCHANGED <<there, dialed, line, shownTurns, wrapUp, miscounted, stranded, late>>
    BY <1>5 DEF V!finish, V!Server
  <2>2. CASE V!Up
    <3>1. V!Send(line, "finish") /\ status' = status
      BY <1>5, <2>2 DEF V!finish
    <3>2. line \in DOMAIN lines
      BY <1>2, <2>2 DEF V!Up
    <3> DEFINE l == [lines[line] EXCEPT !.up = Append(lines[line].up, "finish")]
    <3>3. lines' = [lines EXCEPT ![line] = l]
      BY <3>1 DEF V!Send
    <3>4. /\ l \in Lines /\ l.runs = lines[line].runs /\ l.row = lines[line].row /\ l.turn = lines[line].turn
          /\ l.kept = lines[line].kept /\ l.net = lines[line].net /\ l.down = lines[line].down
      <4>1. lines[line] \in Lines /\ Append(lines[line].up, "finish") \in Seq({"start", "turn", "finish"})
        <5>1. lines[line] \in Lines
          BY <1>2, <3>2
        <5>2. lines[line].up \in Seq({"start", "turn", "finish"})
          BY <5>1 DEF Lines
        <5> QED
          BY <5>1, <5>2, AppendProperties
      <4> QED
        BY <4>1 DEF Lines
    <3> HIDE DEF l
    <3>5. line' \in 0..dialed /\ there' \in BOOLEAN
      BY <1>2, <2>1
    <3> QED
      BY <2>1, <3>1, <3>2, <3>3, <3>4, <3>5, LineSpoken
  <2>3. CASE ~V!Up
    <3>1. status' = "finished" /\ lines' = lines
      BY <1>5, <2>3 DEF V!finish
    <3>2. TalkTypes' /\ LinesAreOk'
      BY <2>1, <3>1 DEF TalkInv, TalkTypes, LinesAreOk
    <3>3. ASSUME ~late PROVE HeardAlone'
      <4>1. HeardAlone
        BY <3>3 DEF TalkInv, OneIsHeard
      <4>2. dialed # 0 => Quiet(ThisLine)
        <5> SUFFICES ASSUME dialed # 0 PROVE Quiet(ThisLine)
          OBVIOUS
        <5>1. PageFollows /\ ThisLine \in Lines
          BY <1>2, <4>1 DEF HeardAlone, ThisLine
        <5>2. ThisLine.net \notin {"asking", "dialing"}
          BY <2>1, <5>1 DEF PageFollows
        <5>3. ThisLine.net \in {"open", "down"} => line = dialed
          BY <2>1, <5>1 DEF PageFollows
        <5>4. ThisLine.net # "open"
          BY <2>3, <5>3 DEF V!Up, ThisLine
        <5> QED
          BY <5>1, <5>2, <5>4 DEF Quiet, Lines
      <4>3. ThisLine' = ThisLine
        BY <2>1, <3>1 DEF ThisLine
      <4>4. dialed # 0 => PageFollows'
        BY <2>1, <3>1, <4>1, <4>2, <4>3 DEF HeardAlone, PageFollows
      <4>5. SummaryIsRight'
        BY <2>1, <4>1, <4>3 DEF HeardAlone, SummaryIsRight
      <4> QED
        BY <2>1, <3>1, <4>1, <4>3, <4>4, <4>5 DEF HeardAlone
    <3> QED
      BY <2>1, <3>2, <3>3 DEF TalkInv, OneIsHeard
  <2> QED
    BY <2>2, <2>3
<1>6. ASSUME V!Leave PROVE TalkInv'
  <2>1. /\ there' = FALSE /\ line' = 0
        /\ UNCHANGED <<status, dialed, shownTurns, wrapUp, miscounted, stranded, late>>
    BY <1>6 DEF V!Leave, V!Server
  <2>2. CASE line = 0
    <3>1. lines' = lines
      BY <1>6, <2>2 DEF V!Leave
    <3>2. TalkTypes' /\ LinesAreOk'
      <4>1. 0 \in 0..dialed
        BY <1>2
      <4>2. there' \in BOOLEAN
        BY <2>1
      <4>3. TalkTypes'
        BY <2>1, <3>1, <4>1, <4>2 DEF TalkInv, TalkTypes
      <4> QED
        BY <2>1, <3>1, <4>3 DEF TalkInv, LinesAreOk
    <3>3. ASSUME ~late PROVE HeardAlone'
      <4>1. HeardAlone
        BY <3>3 DEF TalkInv, OneIsHeard
      <4>2. ThisLine' = ThisLine /\ PageFollows'
        BY <2>1, <3>1 DEF ThisLine, PageFollows
      <4>3. SummaryIsRight'
        BY <2>1, <4>1, <4>2 DEF HeardAlone, SummaryIsRight
      <4> QED
        BY <2>1, <3>1, <4>1, <4>2, <4>3 DEF HeardAlone
    <3> QED
      BY <2>1, <3>2, <3>3 DEF TalkInv, OneIsHeard
  <2>3. CASE line # 0
    <3>1. line \in DOMAIN lines
      BY <1>2, <2>3
    <3> DEFINE l == [lines[line] EXCEPT !.net = "over", !.down = <<>>]
    <3>2. lines' = [lines EXCEPT ![line] = l]
      BY <1>6, <2>3 DEF V!Leave
    <3>3. /\ l \in Lines /\ l.runs = lines[line].runs /\ l.row = lines[line].row /\ l.turn = lines[line].turn
          /\ l.kept = lines[line].kept /\ l.net = "over" /\ l.down = <<>>
      <4>1. lines[line] \in Lines /\ <<>> \in Seq(News)
        BY <1>2, <3>1
      <4> QED
        BY <4>1 DEF Lines
    <3> HIDE DEF l
    <3>4. line' \in 0..dialed /\ ~there' /\ there' \in BOOLEAN
      <4>1. 0 \in 0..dialed
        BY <1>2
      <4> QED
        BY <2>1, <4>1
    <3>5. status' \in {"idle", "error", "finished", "connecting", "ready", "thinking"}
      BY <1>2, <2>1
    <3> QED
      BY <2>1, <3>1, <3>2, <3>3, <3>4, <3>5, LineSpoken
  <2> QED
    BY <2>2, <2>3
<1> QED
  BY <1>1, <1>3, <1>4, <1>5, <1>6, TalkBegins, SocketOpens, MessageHeard, SocketCloses, SessionStep
     DEF V!TalkNext

(* A conversation that is said to be saved is the one on the page: the     *)
(* turns shown are its own, as many as its summary counts, and what the    *)
(* server is done with is completed if a turn was kept and gone otherwise  *)
(* (live-speaking.ts and its view; finishSession of live_speaking.go).     *)
THEOREM SavedHolds == Spec => []SavedIsTheTalk
<1>1. TalkInv => V!SavedIsTheTalk
  <2> SUFFICES ASSUME TalkInv PROVE V!SavedIsTheTalk
    OBVIOUS
  <2>1. ASSUME wrapUp # V!NoSummary, ~late
        PROVE  /\ wrapUp.of = dialed /\ V!Range(shownTurns) \subseteq {dialed}
               /\ Len(shownTurns) = wrapUp.turns \/ dialed \in miscounted
    <3>1. HeardAlone
      BY <2>1 DEF TalkInv, OneIsHeard
    <3> QED
      BY <2>1, <3>1 DEF HeardAlone, SummaryIsRight, V!Range
  <2>2. ASSUME NEW c \in DOMAIN lines, ~lines[c].runs
        PROVE  CASE lines[c].row = "open" -> c \in stranded
                 [] lines[c].row = "completed" -> lines[c].kept > 0 \/ c \in miscounted
                 [] lines[c].row = "gone" -> lines[c].kept = 0
                 [] OTHER -> TRUE
    <3>1. lines[c] \in Lines /\ RowOk(lines[c], c, miscounted, stranded)
      BY DEF TalkInv, TalkTypes, LinesAreOk, LineOk
    <3>2. lines[c].kept \in Nat /\ lines[c].turn \in Nat
      BY <3>1 DEF Lines
    <3>3. lines[c].row = "open" => c \in stranded
      BY <2>2, <3>1 DEF RowOk
    <3>4. lines[c].row = "completed" => lines[c].kept > 0 \/ c \in miscounted
      BY <3>1, <3>2 DEF RowOk
    <3>5. lines[c].row = "gone" => lines[c].kept = 0
      BY <3>1, <3>2 DEF RowOk
    <3> QED
      BY <3>3, <3>4, <3>5
  <2> QED
    BY <2>1, <2>2 DEF V!SavedIsTheTalk
<1>2. TalkInv => SavedIsTheTalk
  BY <1>1 DEF SavedIsTheTalk
<1> QED
  BY <1>2, TalkStart, TalkStep, PTL DEF Spec

-----------------------------------------------------------------------------
(* The conversation with the live coach.                                   *)

Signals == [type : {"start", "turn", "finish", "close"}, n : Nat]
Told == [type : {"ready", "turn", "summary", "error", "reconnect"}, n : Nat] \union {L!Close}
Sides == [state : {"none", "connecting", "open", "closing", "closed"}, up : Seq(Signals), down : Seq(Told)]
SessionRows == {"none", "in_progress", "completed", "deleted"}
Handlers == [at : {"none", "waiting", "judging", "finishing", "over"}, row : SessionRows, turn : Nat]

HandlerTypes == ws \in [Sockets -> Sides] /\ srv \in [Sockets -> Handlers] /\ socket \in Sockets \union {0}

\* The row that is left of a conversation with so many turns.
Outcome(row0, turns) ==
    IF turns > 0 THEN "completed" ELSE IF row0 = "none" THEN "none" ELSE "deleted"

\* A handler without a row reads a start first, or that the page has gone.
HandlerOk(w, v, lost, s) ==
    /\ w.state \in {"none", "connecting"} => v.at = "none"
    /\ v.at = "none" => v.row = "none" /\ v.turn = 0
    /\ v.at \in {"waiting", "judging", "finishing"} => v.row \in {"none", "in_progress"}
    /\ v.at \in {"judging", "finishing"} => v.row = "in_progress"
    /\ v.row = "none" => v.turn = 0
    /\ v.at = "waiting" /\ v.row = "none" => w.up # <<>> /\ Head(w.up).type \in {"start", "close"}
    /\ v.at = "over" /\ s \notin lost => v.row = Outcome(v.row, v.turn)

HandlerInv == HandlerTypes /\ \A s \in Sockets : HandlerOk(ws[s], srv[s], unsaved, s)

LEMMA HandlerStart == Init => HandlerInv
<1> SUFFICES ASSUME L!CoachInit PROVE HandlerInv
  BY DEF Init
<1>1. <<>> \in Seq(Signals) /\ <<>> \in Seq(Told)
  OBVIOUS
<1>2. /\ socket = 0 /\ ws = [s \in Sockets |-> L!Closed]
      /\ srv = [s \in Sockets |-> [at |-> "none", row |-> "none", turn |-> 0]]
  BY DEF L!CoachInit
<1>3. L!Closed \in Sides /\ [at |-> "none", row |-> "none", turn |-> 0] \in Handlers
  BY <1>1 DEF L!Closed, Sides, Handlers, SessionRows
<1>4. HandlerTypes
  BY <1>2, <1>3 DEF HandlerTypes
<1>5. ASSUME NEW s \in Sockets PROVE HandlerOk(ws[s], srv[s], unsaved, s)
  BY <1>2 DEF HandlerOk
<1> QED
  BY <1>4, <1>5 DEF HandlerInv

\* The page, or the network, does something to a socket.
Touched(w, z) ==
    /\ z.state \in {"none", "connecting"} => w.state \in {"none", "connecting"}
    /\ \/ z.up = w.up
       \/ \E m \in Signals : z.up = Append(w.up, m)
       \/ z.up # <<>> /\ Head(z.up).type = "close"
       \/ w.state \in {"none", "connecting"}

LEMMA TouchKeeps ==
    ASSUME HandlerInv, ws' \in [Sockets -> Sides], \A r \in Sockets : Touched(ws[r], ws'[r]),
           srv' = srv, unsaved' = unsaved, socket' \in Sockets \union {0}
    PROVE  HandlerInv'
<1>1. HandlerTypes'
  BY DEF HandlerInv, HandlerTypes
<1>2. ASSUME NEW r \in Sockets PROVE HandlerOk(ws'[r], srv[r], unsaved, r)
  <2> DEFINE w == ws[r]
  <2> DEFINE z == ws'[r]
  <2>1. HandlerOk(w, srv[r], unsaved, r) /\ Touched(w, z) /\ w \in Sides /\ z \in Sides
    BY DEF HandlerInv, HandlerTypes
  <2>2. ASSUME srv[r].at = "waiting", srv[r].row = "none"
        PROVE  z.up # <<>> /\ Head(z.up).type \in {"start", "close"}
    <3>1. w.up # <<>> /\ Head(w.up).type \in {"start", "close"} /\ w.state \notin {"none", "connecting"}
      BY <2>1, <2>2 DEF HandlerOk
    <3>2. ASSUME NEW m \in Signals, z.up = Append(w.up, m) PROVE z.up # <<>> /\ Head(z.up) = Head(w.up)
      <4>1. w.up \in Seq(Signals)
        BY <2>1 DEF Sides
      <4> QED
        BY <3>1, <3>2, <4>1
    <3> QED
      BY <2>1, <3>1, <3>2 DEF Touched
  <2> HIDE DEF w, z
  <2>3. z.state \in {"none", "connecting"} => srv[r].at = "none"
    BY <2>1 DEF HandlerOk, Touched
  <2>4. HandlerOk(z, srv[r], unsaved, r)
    BY <2>1, <2>2, <2>3 DEF HandlerOk
  <2> QED
    BY <2>4 DEF z
<1> QED
  BY <1>1, <1>2 DEF HandlerInv

\* What the page sends, and how it shuts a socket.
LEMMA UpTouches ==
    ASSUME ws \in [Sockets -> Sides], NEW s \in Sockets, NEW m \in Signals
    PROVE  L!Up(s, m) \in [Sockets -> Sides] /\ \A r \in Sockets : Touched(ws[r], L!Up(s, m)[r])
<1>1. ws[s] \in Sides /\ Append(ws[s].up, m) \in Seq(Signals)
  BY AppendProperties DEF Sides
<1>2. CASE ws[s].state = "open" /\ srv[s].at # "over"
  <2> DEFINE z == [ws EXCEPT ![s].up = Append(ws[s].up, m)]
  <2>1. L!Up(s, m) = z
    BY <1>2 DEF L!Up
  <2>2. z \in [Sockets -> Sides] /\ z[s].up = Append(ws[s].up, m) /\ z[s].state = ws[s].state
        /\ \A r \in Sockets : r # s => z[r] = ws[r]
    BY <1>1 DEF Sides
  <2> HIDE DEF z
  <2>3. \A r \in Sockets : Touched(ws[r], z[r])
    BY <2>2 DEF Touched
  <2> QED
    BY <2>1, <2>2, <2>3
<1>3. CASE ~(ws[s].state = "open" /\ srv[s].at # "over")
  <2>1. L!Up(s, m) = ws
    BY <1>3 DEF L!Up
  <2> QED
    BY <2>1 DEF Touched
<1> QED
  BY <1>2, <1>3

LEMMA ShutTouches ==
    ASSUME NEW w \in [Sockets -> Sides], NEW s \in Sockets \union {0}
    PROVE  L!Shut(w, s) \in [Sockets -> Sides] /\ \A r \in Sockets : Touched(w[r], L!Shut(w, s)[r])
<1>1. L!Close \in Signals /\ L!Close \in Told /\ <<L!Close>> \in Seq(Told) /\ <<>> \in Seq(Signals)
  BY DEF L!Close, L!Msg, Signals, Told
<1>2. CASE s # 0 /\ w[s].state = "open"
  <2> DEFINE e == [state |-> "closing", up |-> Append(w[s].up, L!Close), down |-> <<L!Close>>]
  <2>1. L!Shut(w, s) = [w EXCEPT ![s] = e]
    BY <1>2 DEF L!Shut
  <2>2. s \in Sockets /\ w[s] \in Sides
    BY <1>2
  <2>3. w[s].up \in Seq(Signals)
    BY <2>2 DEF Sides
  <2>4. e \in Sides /\ e.up = Append(w[s].up, L!Close) /\ e.state = "closing"
    BY <1>1, <2>3, AppendProperties DEF Sides
  <2> HIDE DEF e
  <2> QED
    BY <1>1, <2>1, <2>2, <2>4 DEF Touched
<1>3. CASE s # 0 /\ w[s].state = "connecting"
  <2> DEFINE e == [state |-> "closing", up |-> <<>>, down |-> <<L!Close>>]
  <2>1. L!Shut(w, s) = [w EXCEPT ![s] = e]
    BY <1>3 DEF L!Shut
  <2>2. s \in Sockets
    BY <1>3
  <2>3. e \in Sides /\ e.state = "closing"
    BY <1>1 DEF Sides
  <2> HIDE DEF e
  <2> QED
    BY <1>3, <2>1, <2>2, <2>3 DEF Touched
<1>4. CASE ~(s # 0 /\ w[s].state \in {"open", "connecting"})
  <2>1. L!Shut(w, s) = w
    BY <1>4 DEF L!Shut
  <2> QED
    BY <2>1 DEF Touched
<1> QED
  BY <1>2, <1>3, <1>4

\* The page takes a step of its own.
LEMMA PageTakes ==
    ASSUME HandlerInv,
           \/ L!ConnectFails \/ L!StatusOk \/ L!MicOn \/ L!Render \/ L!Said \/ L!startAnswer
           \/ L!Stopped \/ L!End \/ L!retry \/ L!Leave
    PROVE  HandlerInv'
<1>1. ws \in [Sockets -> Sides] /\ socket \in Sockets \union {0}
  BY DEF HandlerInv, HandlerTypes
<1>2. srv' = srv /\ unsaved' = unsaved
  BY DEF L!ConnectFails, L!StatusOk, L!MicOn, L!Render, L!Said, L!startAnswer, L!Stopped, L!End, L!retry, L!Leave
<1>3. socket' \in Sockets \union {0}
  BY <1>1 DEF L!ConnectFails, L!StatusOk, L!MicOn, L!Render, L!Said, L!startAnswer, L!Stopped, L!End,
     L!retry, L!Leave
<1>4. L!Msg("turn", 0) \in Signals /\ L!Msg("finish", 0) \in Signals
  BY DEF L!Msg, Signals
<1>5. \/ ws' = ws \/ ws' = L!Shut(ws, socket)
      \/ socket # 0 /\ ws' \in {L!Up(socket, L!Msg("turn", 0)), L!Up(socket, L!Msg("finish", 0))}
  <2>1. CASE L!ConnectFails \/ L!StatusOk \/ L!MicOn \/ L!Render \/ L!startAnswer \/ L!retry
    BY <2>1 DEF L!ConnectFails, L!StatusOk, L!MicOn, L!Render, L!startAnswer, L!retry
  <2>2. CASE L!Said
    BY <2>2 DEF L!Said, L!askNext, L!finish
  <2>3. CASE L!Stopped
    BY <2>3 DEF L!Stopped
  <2>4. CASE L!End
    BY <2>4 DEF L!End, L!finish
  <2>5. CASE L!Leave
    BY <2>5 DEF L!Leave
  <2> QED
    BY <2>1, <2>2, <2>3, <2>4, <2>5
<1>6. ws' \in [Sockets -> Sides] /\ \A r \in Sockets : Touched(ws[r], ws'[r])
  <2>1. CASE ws' = ws
    BY <1>1, <2>1 DEF Touched
  <2>2. CASE ws' = L!Shut(ws, socket)
    BY <1>1, <2>2, ShutTouches
  <2>3. CASE socket # 0 /\ ws' = L!Up(socket, L!Msg("turn", 0))
    BY <1>1, <1>4, <2>3, UpTouches
  <2>4. CASE socket # 0 /\ ws' = L!Up(socket, L!Msg("finish", 0))
    BY <1>1, <1>4, <2>4, UpTouches
  <2> QED
    BY <1>5, <2>1, <2>2, <2>3, <2>4
<1> QED
  BY <1>2, <1>3, <1>6, TouchKeeps

\* The page hears a message, or the end of a socket; or the network goes.
LEMMA PageHears ==
    ASSUME HandlerInv, NEW s \in Sockets, L!Receive(s) \/ L!OnClose(s) \/ L!Break(s) \/ L!OpenSocket(s)
    PROVE  HandlerInv'
<1>1. ws \in [Sockets -> Sides] /\ socket \in Sockets \union {0} /\ ws[s] \in Sides
  BY DEF HandlerInv, HandlerTypes
<1>2. ws[s].up \in Seq(Signals) /\ ws[s].down \in Seq(Told)
  BY <1>1 DEF Sides
<1>3. srv' = srv /\ unsaved' = unsaved
  BY DEF L!Receive, L!OnClose, L!Break, L!OpenSocket
<1>4. socket' \in Sockets \union {0}
  BY <1>1 DEF L!Receive, L!OnClose, L!Break, L!OpenSocket, L!page
<1>5. L!Close \in Signals /\ L!Close.type = "close" /\ L!Close \in Told
  BY DEF L!Close, L!Msg, Signals, Told
<1>6. ASSUME NEW z \in Sides, ws' = [ws EXCEPT ![s] = z], Touched(ws[s], z) PROVE HandlerInv'
  <2>1. ws' \in [Sockets -> Sides] /\ ws'[s] = z /\ \A r \in Sockets : r # s => ws'[r] = ws[r]
    BY <1>1, <1>6
  <2>2. \A r \in Sockets : Touched(ws[r], ws'[r])
    BY <1>6, <2>1 DEF Touched
  <2> QED
    BY <1>3, <1>4, <2>1, <2>2, TouchKeeps
<1>7. ASSUME L!Receive(s) PROVE HandlerInv'
  <2> DEFINE z == [ws[s] EXCEPT !.down = Tail(ws[s].down)]
  <2> DEFINE w == [ws EXCEPT ![s] = z]
  <2> DEFINE m == Head(ws[s].down)
  <2>1. ws[s].down # <<>> /\ m # L!Close /\ L!OnMessage(s, m)
    BY <1>7 DEF L!Receive
  <2>2. m \in Told /\ Tail(ws[s].down) \in Seq(Told)
    BY <1>2, <2>1
  <2>3. z \in Sides /\ z.up = ws[s].up /\ z.state = ws[s].state
    BY <1>1, <2>2 DEF Sides
  <2>4. m.type \in {"ready", "turn", "summary", "error", "reconnect"}
    BY <2>1, <2>2 DEF Told
  <2>5. w = [ws EXCEPT ![s].down = Tail(@)]
    OBVIOUS
  <2> HIDE DEF z, w, m
  <2>6. ws' = w \/ ws' = L!Shut(w, socket)
    <3>1. CASE ~here
      BY <2>1, <2>5, <3>1 DEF L!OnMessage
    <3>2. CASE here /\ m.type = "ready"
      BY <2>1, <2>5, <3>2 DEF L!OnMessage, L!OnReady
    <3>3. CASE here /\ m.type = "turn"
      BY <2>1, <2>5, <3>3 DEF L!OnMessage, L!OnTurn, L!askNext, L!finish
    <3>4. CASE here /\ m.type = "summary"
      BY <2>1, <2>5, <3>4 DEF L!OnMessage, L!OnSummary, L!finish
    <3>5. CASE here /\ m.type = "error"
      BY <2>1, <2>5, <3>5 DEF L!OnMessage, L!OnError
    <3>6. CASE here /\ m.type = "reconnect"
      BY <2>1, <2>5, <3>6 DEF L!OnMessage, L!OnReconnect
    <3> QED
      BY <2>4, <3>1, <3>2, <3>3, <3>4, <3>5, <3>6
  <2>7. w \in [Sockets -> Sides] /\ \A r \in Sockets : w[r].up = ws[r].up /\ w[r].state = ws[r].state
    BY <1>1, <2>3 DEF w
  <2>8. L!Shut(w, socket) \in [Sockets -> Sides] /\ \A r \in Sockets : Touched(w[r], L!Shut(w, socket)[r])
    BY <1>1, <2>7, ShutTouches
  <2>9. ws' \in [Sockets -> Sides] /\ \A r \in Sockets : Touched(ws[r], ws'[r])
    <3>1. CASE ws' = w
      BY <2>7, <3>1 DEF Touched
    <3>2. CASE ws' = L!Shut(w, socket)
      BY <2>7, <2>8, <3>2 DEF Touched
    <3> QED
      BY <2>6, <3>1, <3>2
  <2> QED
    BY <1>3, <1>4, <2>9, TouchKeeps
<1>8. ASSUME L!OnClose(s) PROVE HandlerInv'
  <2> DEFINE z == [state |-> "closed", up |-> ws[s].up, down |-> <<>>]
  <2>1. ws' = [ws EXCEPT ![s] = z]
    BY <1>8 DEF L!OnClose
  <2>2. z \in Sides
    BY <1>2 DEF Sides
  <2> QED
    BY <1>6, <2>1, <2>2 DEF Touched
<1>9. ASSUME L!Break(s) PROVE HandlerInv'
  <2> DEFINE z == [state |-> "closing", up |-> <<L!Close>>, down |-> <<L!Close>>]
  <2>1. ws' = [ws EXCEPT ![s] = z]
    BY <1>9 DEF L!Break
  <2>2. z \in Sides
    BY <1>5 DEF Sides
  <2>3. Touched(ws[s], z)
    BY <1>5 DEF Touched
  <2> HIDE DEF z
  <2> QED
    BY <1>6, <2>1, <2>2, <2>3
<1>10. ASSUME L!OpenSocket(s) PROVE HandlerInv'
  <2> DEFINE z == [ws[s] EXCEPT !.state = "connecting"]
  <2>1. ws' = [ws EXCEPT ![s] = z] /\ ws[s].state = "none"
    BY <1>10 DEF L!OpenSocket
  <2>2. z \in Sides /\ Touched(ws[s], z)
    BY <1>1, <2>1 DEF Sides, Touched
  <2> HIDE DEF z
  <2> QED
    BY <1>6, <2>1, <2>2
<1> QED
  BY <1>7, <1>8, <1>9, <1>10

\* What a handler sends down its socket.
LEMMA DownKeeps ==
    ASSUME ws \in [Sockets -> Sides], NEW s \in Sockets, NEW ms \in Seq(Told)
    PROVE  /\ L!Down(s, ms) \in [Sockets -> Sides]
           /\ \A r \in Sockets : L!Down(s, ms)[r].up = ws[r].up /\ L!Down(s, ms)[r].state = ws[r].state
           /\ \A r \in Sockets : r # s => L!Down(s, ms)[r] = ws[r]
<1>1. CASE ws[s].state = "open"
  <2> DEFINE z == [ws EXCEPT ![s].down = ws[s].down \o ms]
  <2>1. ws[s] \in Sides
    OBVIOUS
  <2>2. ws[s].down \o ms \in Seq(Told)
    BY <2>1, ConcatProperties DEF Sides
  <2>3. L!Down(s, ms) = z
    BY <1>1 DEF L!Down
  <2>4. z \in [Sockets -> Sides] /\ z[s].up = ws[s].up /\ z[s].state = ws[s].state
        /\ \A r \in Sockets : r # s => z[r] = ws[r]
    BY <2>1, <2>2 DEF Sides
  <2> HIDE DEF z
  <2> QED
    BY <2>3, <2>4
<1>2. CASE ws[s].state # "open"
  <2>1. L!Down(s, ms) = ws
    BY <1>2 DEF L!Down
  <2> QED
    BY <2>1
<1> QED
  BY <1>1, <1>2

\* A step of the handler of one socket.
LEMMA HandlerKeeps ==
    ASSUME HandlerInv, NEW s \in Sockets, NEW v \in Handlers, srv' = [srv EXCEPT ![s] = v],
           ws' \in [Sockets -> Sides], \A r \in Sockets : r # s => ws'[r] = ws[r],
           unsaved \subseteq unsaved', socket' = socket, HandlerOk(ws'[s], v, unsaved', s)
    PROVE  HandlerInv'
<1>1. srv \in [Sockets -> Handlers] /\ socket \in Sockets \union {0}
  BY DEF HandlerInv, HandlerTypes
<1>2. HandlerTypes'
  BY <1>1 DEF HandlerTypes
<1>3. ASSUME NEW r \in Sockets PROVE HandlerOk(ws'[r], srv'[r], unsaved', r)
  <2>1. CASE r = s
    BY <1>1, <2>1
  <2>2. CASE r # s
    <3>1. HandlerOk(ws[r], srv[r], unsaved, r) /\ ws'[r] = ws[r] /\ srv'[r] = srv[r]
      BY <1>1, <2>2 DEF HandlerInv
    <3> QED
      BY <3>1 DEF HandlerOk
  <2> QED
    BY <2>1, <2>2
<1> QED
  BY <1>2, <1>3 DEF HandlerInv

\* A handler that returns leaves its row as it should be, or is told apart.
LEMMA HandlerEnds ==
    ASSUME HandlerInv, NEW s \in Sockets, NEW left0 \in SessionRows, NEW ms \in Seq(Told),
           srv[s].at \in {"waiting", "finishing"}, L!HandlerOver(s, left0, ms),
           unsaved \subseteq unsaved', socket' = socket, left0 = "none" => srv[s].turn = 0,
           s \notin unsaved' => left0 = Outcome(left0, srv[s].turn)
    PROVE  HandlerInv'
<1>1. ws \in [Sockets -> Sides] /\ srv[s] \in Handlers /\ HandlerOk(ws[s], srv[s], unsaved, s)
  BY DEF HandlerInv, HandlerTypes
<1> DEFINE v == [srv[s] EXCEPT !.at = "over", !.row = left0]
<1> DEFINE d == L!Down(s, Append(ms, L!Close))
<1>2. srv' = [srv EXCEPT ![s] = v] /\ ws' = [d EXCEPT ![s].up = <<>>]
  <2>1. srv' = [srv EXCEPT ![s].at = "over", ![s].row = left0]
    BY DEF L!HandlerOver
  <2>2. srv \in [Sockets -> Handlers]
    BY DEF HandlerInv, HandlerTypes
  <2> QED
    BY <2>1, <2>2 DEF L!HandlerOver, Handlers
<1>3. v \in Handlers /\ v.at = "over" /\ v.row = left0 /\ v.turn = srv[s].turn
  BY <1>1 DEF Handlers
<1>4. L!Close \in Told /\ Append(ms, L!Close) \in Seq(Told) /\ <<>> \in Seq(Signals)
  BY AppendProperties DEF Told
<1>5. /\ d \in [Sockets -> Sides] /\ d[s].state = ws[s].state /\ \A r \in Sockets : r # s => d[r] = ws[r]
  BY <1>1, <1>4, DownKeeps
<1> HIDE DEF v, d
<1>6. /\ ws' \in [Sockets -> Sides] /\ ws'[s].state = ws[s].state
      /\ \A r \in Sockets : r # s => ws'[r] = ws[r]
  <2>1. d[s] \in Sides
    BY <1>5
  <2>2. [d[s] EXCEPT !.up = <<>>] \in Sides /\ [d[s] EXCEPT !.up = <<>>].state = d[s].state
    BY <1>4, <2>1 DEF Sides
  <2> QED
    BY <1>2, <1>5, <2>2
<1>7. HandlerOk(ws'[s], v, unsaved', s)
  BY <1>1, <1>3, <1>6 DEF HandlerOk
<1> QED
  BY <1>2, <1>3, <1>6, <1>7, HandlerKeeps

\* The two ways a conversation ends.
LEMMA SessionEnds ==
    ASSUME HandlerInv, NEW s \in Sockets, srv[s].at \in {"waiting", "finishing"}, socket' = socket,
           L!finishSession(s) \/ \E ms \in Seq(Told) : L!abandon(s, ms)
    PROVE  HandlerInv'
<1>1. srv[s] \in Handlers /\ HandlerOk(ws[s], srv[s], unsaved, s)
  BY DEF HandlerInv, HandlerTypes
<1>2. srv[s].turn \in Nat /\ srv[s].row \in SessionRows
  BY <1>1 DEF Handlers
<1>3. {"none", "deleted", "completed", "in_progress"} \subseteq SessionRows
  BY DEF SessionRows
<1>4. ASSUME NEW ms \in Seq(Told), L!HandlerOver(s, "deleted", ms), srv[s].turn = 0, unsaved' = unsaved
      PROVE  HandlerInv'
  <2>1. "deleted" = Outcome("deleted", srv[s].turn)
    BY <1>4 DEF Outcome
  <2> QED
    BY <1>3, <1>4, <2>1, HandlerEnds
<1>5. ASSUME NEW ms \in Seq(Told), L!HandlerOver(s, "completed", ms), srv[s].turn # 0, unsaved' = unsaved
      PROVE  HandlerInv'
  <2>1. "completed" = Outcome("completed", srv[s].turn)
    BY <1>2, <1>5 DEF Outcome
  <2> QED
    BY <1>3, <1>5, <2>1, HandlerEnds
<1>6. ASSUME NEW ms \in Seq(Told), L!HandlerOver(s, "in_progress", ms), unsaved' = unsaved \union {s}
      PROVE  HandlerInv'
  <2>1. unsaved \subseteq unsaved' /\ s \in unsaved'
    BY <1>6
  <2> QED
    BY <1>3, <1>6, <2>1, HandlerEnds
<1>7. ASSUME NEW ms \in Seq(Told), L!HandlerOver(s, "none", ms), srv[s].row = "none", unsaved' = unsaved
      PROVE  HandlerInv'
  <2>1. srv[s].turn = 0
    BY <1>1, <1>7 DEF HandlerOk
  <2>2. "none" = Outcome("none", srv[s].turn)
    BY <2>1 DEF Outcome
  <2> QED
    BY <1>3, <1>7, <2>1, <2>2, HandlerEnds
<1>8. \A n \in Nat : <<L!Msg("summary", n)>> \in Seq(Told) /\ <<L!Msg("error", n)>> \in Seq(Told)
  BY DEF L!Msg, Told
<1>9. CASE L!finishSession(s)
  <2>1. CASE srv[s].turn = 0
    <3>1. L!HandlerOver(s, "deleted", <<L!Msg("summary", 0)>>) /\ unsaved' = unsaved
      BY <1>9, <2>1 DEF L!finishSession
    <3>2. <<L!Msg("summary", 0)>> \in Seq(Told)
      BY <1>8
    <3> QED
      BY <1>4, <2>1, <3>1, <3>2
  <2>2. CASE srv[s].turn # 0
    <3>1. \/ L!HandlerOver(s, "completed", <<L!Msg("summary", srv[s].turn)>>) /\ unsaved' = unsaved
          \/ L!HandlerOver(s, "in_progress", <<L!Msg("error", 0)>>) /\ unsaved' = unsaved \union {s}
      BY <1>9, <2>2 DEF L!finishSession
    <3>2. <<L!Msg("summary", srv[s].turn)>> \in Seq(Told) /\ <<L!Msg("error", 0)>> \in Seq(Told)
      BY <1>2, <1>8
    <3>3. CASE L!HandlerOver(s, "completed", <<L!Msg("summary", srv[s].turn)>>) /\ unsaved' = unsaved
      BY <1>5, <2>2, <3>2, <3>3
    <3>4. CASE L!HandlerOver(s, "in_progress", <<L!Msg("error", 0)>>) /\ unsaved' = unsaved \union {s}
      BY <1>6, <3>2, <3>4
    <3> QED
      BY <3>1, <3>3, <3>4
  <2> QED
    BY <2>1, <2>2
<1>10. ASSUME NEW ms \in Seq(Told), L!abandon(s, ms) PROVE HandlerInv'
  <2>1. CASE srv[s].row = "none"
    <3>1. L!HandlerOver(s, "none", ms) /\ unsaved' = unsaved
      BY <1>10, <2>1 DEF L!abandon
    <3> QED
      BY <1>7, <2>1, <3>1
  <2>2. CASE srv[s].row # "none" /\ srv[s].turn = 0
    <3>1. L!HandlerOver(s, "deleted", ms) /\ unsaved' = unsaved
      BY <1>10, <2>2 DEF L!abandon
    <3> QED
      BY <1>4, <2>2, <3>1
  <2>3. CASE srv[s].row # "none" /\ srv[s].turn # 0
    <3>1. \/ L!HandlerOver(s, "completed", ms) /\ unsaved' = unsaved
          \/ L!HandlerOver(s, "in_progress", ms) /\ unsaved' = unsaved \union {s}
      BY <1>10, <2>3 DEF L!abandon
    <3> QED
      BY <1>5, <1>6, <2>3, <3>1
  <2> QED
    BY <2>1, <2>2, <2>3
<1> QED
  BY <1>9, <1>10

\* What the handler does between its start and its end.
LEMMA HandlerGoes ==
    ASSUME HandlerInv, NEW s \in Sockets,
           \/ L!Admit(s) \/ L!TakeStart(s) \/ L!TakeTurn(s) \/ L!Judge(s) \/ L!JudgeFails(s) \/ L!TooLong(s)
    PROVE  HandlerInv'
<1> DEFINE w == ws[s]
<1>1. /\ ws \in [Sockets -> Sides] /\ srv \in [Sockets -> Handlers] /\ socket \in Sockets \union {0}
      /\ w \in Sides /\ srv[s] \in Handlers /\ HandlerOk(w, srv[s], unsaved, s)
  BY DEF HandlerInv, HandlerTypes
<1>2. w.up \in Seq(Signals) /\ w.down \in Seq(Told) /\ srv[s].turn \in Nat /\ srv[s].row \in SessionRows
  BY <1>1 DEF Sides, Handlers
<1>3. socket' = socket
  BY DEF L!Admit, L!TakeStart, L!TakeTurn, L!Judge, L!JudgeFails, L!TooLong, L!page
<1>4. /\ L!Msg("start", 0) \in Signals /\ L!Close \in Told /\ L!Msg("ready", 0) \in Told
      /\ L!Msg("turn", 0) \in Told /\ L!Msg("turn", 1) \in Told /\ L!Msg("error", 0) \in Told
      /\ <<>> \in Seq(Signals) /\ <<>> \in Seq(Told)
  BY DEF L!Msg, Signals, Told
<1>5. ASSUME L!Admit(s) PROVE HandlerInv'
  <2>1. w.state = "connecting" /\ unsaved' = unsaved /\ srv[s].at = "none" /\ srv[s].row = "none" /\ srv[s].turn = 0
    BY <1>1, <1>5 DEF L!Admit, HandlerOk
  <2>2. ASSUME ws' = [ws EXCEPT ![s] = [state |-> "open", up |-> <<L!Msg("start", 0)>>, down |-> <<>>]],
               srv' = [srv EXCEPT ![s].at = "waiting"]
        PROVE  HandlerInv'
    <3> DEFINE z == [state |-> "open", up |-> <<L!Msg("start", 0)>>, down |-> <<>>]
    <3> DEFINE v == [srv[s] EXCEPT !.at = "waiting"]
    <3>1. z \in Sides /\ z.up # <<>> /\ Head(z.up).type = "start" /\ z.state = "open"
      BY <1>4 DEF Sides, L!Msg
    <3>2. v \in Handlers /\ v.at = "waiting" /\ v.row = "none" /\ v.turn = 0
      BY <1>1, <2>1 DEF Handlers
    <3>3. ws' = [ws EXCEPT ![s] = z] /\ srv' = [srv EXCEPT ![s] = v]
      BY <2>2
    <3> HIDE DEF z, v
    <3>4. HandlerOk(z, v, unsaved', s)
      BY <3>1, <3>2 DEF HandlerOk
    <3> QED
      BY <1>1, <1>3, <2>1, <3>1, <3>2, <3>3, <3>4, HandlerKeeps
  <2>3. ASSUME ws' = [ws EXCEPT ![s] = [state |-> "closing", up |-> <<>>, down |-> <<L!Close>>]], srv' = srv
        PROVE  HandlerInv'
    <3> DEFINE z == [state |-> "closing", up |-> <<>>, down |-> <<L!Close>>]
    <3>1. z \in Sides
      BY <1>4 DEF Sides
    <3>2. ws' = [ws EXCEPT ![s] = z] /\ Touched(w, z)
      BY <2>1, <2>3 DEF Touched
    <3> HIDE DEF z
    <3>3. ws' \in [Sockets -> Sides] /\ \A r \in Sockets : Touched(ws[r], ws'[r])
      BY <1>1, <3>1, <3>2 DEF Touched
    <3> QED
      BY <1>1, <1>3, <2>1, <2>3, <3>3, TouchKeeps
  <2> QED
    BY <1>5, <2>2, <2>3 DEF L!Admit
<1>6. ASSUME L!TakeStart(s) PROVE HandlerInv'
  <2> DEFINE v == [srv[s] EXCEPT !.row = "in_progress"]
  <2> DEFINE t == [w EXCEPT !.up = Tail(w.up)]
  <2>1. /\ srv[s].at = "waiting" /\ w.up # <<>> /\ unsaved' = unsaved
        /\ srv' = [srv EXCEPT ![s] = v]
    BY <1>6 DEF L!TakeStart, L!Read
  <2>2. L!Taken(s) = [ws EXCEPT ![s] = t]
    BY DEF L!Taken
  <2>3. t \in Sides /\ t.state = w.state /\ t.down = w.down
    <3>1. Tail(w.up) \in Seq(Signals)
      BY <1>2, <2>1
    <3> QED
      BY <1>1, <3>1 DEF Sides
  <2> DEFINE z == [t EXCEPT !.down = Append(t.down, L!Msg("ready", 0))]
  <2>4. z \in Sides /\ z.state = w.state
    <3>1. Append(t.down, L!Msg("ready", 0)) \in Seq(Told)
      BY <1>2, <1>4, <2>3, AppendProperties
    <3> QED
      BY <2>3, <3>1 DEF Sides
  <2>5. ws' = [ws EXCEPT ![s] = z] \/ ws' = [ws EXCEPT ![s] = t]
    <3>1. CASE w.state = "open"
      <4>1. ws' = [L!Taken(s) EXCEPT ![s].down = Append(@, L!Msg("ready", 0))]
        BY <1>6, <3>1 DEF L!TakeStart
      <4> QED
        BY <1>1, <2>2, <4>1
    <3>2. CASE w.state # "open"
      BY <1>6, <2>2, <3>2 DEF L!TakeStart
    <3> QED
      BY <3>1, <3>2
  <2>6. v \in Handlers /\ v.at = "waiting" /\ v.row = "in_progress"
    BY <1>1, <2>1 DEF Handlers, SessionRows
  <2> HIDE DEF v, t, z
  <2>7. \A x \in Sides : x.state = w.state => HandlerOk(x, v, unsaved', s)
    BY <1>1, <2>1, <2>6 DEF HandlerOk
  <2> QED
    BY <1>1, <1>3, <2>1, <2>3, <2>4, <2>5, <2>6, <2>7, HandlerKeeps
<1>7. ASSUME L!TakeTurn(s) PROVE HandlerInv'
  <2> DEFINE v == [srv[s] EXCEPT !.at = "judging"]
  <2> DEFINE t == [w EXCEPT !.up = Tail(w.up)]
  <2>1. /\ srv[s].at = "waiting" /\ w.up # <<>> /\ Head(w.up).type = "turn" /\ unsaved' = unsaved
        /\ srv' = [srv EXCEPT ![s] = v] /\ ws' = [ws EXCEPT ![s] = t]
    BY <1>7 DEF L!TakeTurn, L!Read, L!Word, L!Taken
  <2>2. t \in Sides /\ t.state = w.state
    <3>1. Tail(w.up) \in Seq(Signals)
      BY <1>2, <2>1
    <3> QED
      BY <1>1, <3>1 DEF Sides
  <2>3. srv[s].row = "in_progress"
    BY <1>1, <2>1 DEF HandlerOk
  <2>4. v \in Handlers /\ v.at = "judging" /\ v.row = "in_progress"
    BY <1>1, <2>3 DEF Handlers
  <2> HIDE DEF v, t
  <2>5. HandlerOk(t, v, unsaved', s)
    BY <1>1, <2>1, <2>2, <2>4 DEF HandlerOk
  <2> QED
    BY <1>1, <1>3, <2>1, <2>2, <2>4, <2>5, HandlerKeeps
<1>8. ASSUME L!Judge(s) \/ L!JudgeFails(s) PROVE HandlerInv'
  <2>1. PICK n \in Nat, at0 \in {"waiting", "finishing"}, m \in Told :
          srv' = [srv EXCEPT ![s].turn = n, ![s].at = at0] /\ ws' = L!Down(s, <<m>>)
    <3>1. CASE L!Judge(s)
      <4>1. PICK spoke \in {0, 1} :
              /\ srv' = [srv EXCEPT ![s].turn = @ + 1,
                                    ![s].at = IF srv[s].turn + 1 < MaxTurns THEN "waiting" ELSE "finishing"]
              /\ ws' = L!Down(s, <<L!Msg("turn", spoke)>>)
        BY <3>1 DEF L!Judge
      <4>2. L!Msg("turn", spoke) \in Told /\ srv[s].turn + 1 \in Nat
        BY <1>2, <1>4
      <4>3. srv' = [srv EXCEPT ![s].turn = srv[s].turn + 1,
                               ![s].at = IF srv[s].turn + 1 < MaxTurns THEN "waiting" ELSE "finishing"]
        BY <1>1, <4>1
      <4> QED
        BY <4>1, <4>2, <4>3
    <3>2. CASE L!JudgeFails(s)
      <4>1. PICK more \in {0, 1} :
              srv' = [srv EXCEPT ![s].turn = @ + more, ![s].at = "waiting"]
        BY <3>2 DEF L!JudgeFails
      <4>2. srv' = [srv EXCEPT ![s].turn = srv[s].turn + more, ![s].at = "waiting"] /\ srv[s].turn + more \in Nat
        BY <1>1, <1>2, <4>1
      <4>3. ws' = L!Down(s, <<L!Msg("error", 0)>>)
        BY <3>2 DEF L!JudgeFails
      <4> QED
        BY <1>4, <4>2, <4>3
    <3> QED
      BY <1>8, <3>1, <3>2
  <2> DEFINE v == [srv[s] EXCEPT !.turn = n, !.at = at0]
  <2>2. srv[s].at = "judging" /\ unsaved' = unsaved
    BY <1>8 DEF L!Judge, L!JudgeFails
  <2>3. srv' = [srv EXCEPT ![s] = v]
    BY <1>1, <2>1
  <2>4. v \in Handlers /\ v.at = at0 /\ v.row = "in_progress"
    BY <1>1, <2>1, <2>2 DEF Handlers, HandlerOk
  <2> HIDE DEF v
  <2>5. /\ ws' \in [Sockets -> Sides] /\ ws'[s].state = w.state /\ \A r \in Sockets : r # s => ws'[r] = ws[r]
    <3>1. <<m>> \in Seq(Told)
      OBVIOUS
    <3> QED
      BY <1>1, <2>1, <3>1, DownKeeps
  <2>6. HandlerOk(ws'[s], v, unsaved', s)
    BY <1>1, <2>2, <2>4, <2>5 DEF HandlerOk
  <2> QED
    BY <1>3, <2>2, <2>3, <2>4, <2>5, <2>6, HandlerKeeps
<1>9. ASSUME L!TooLong(s) PROVE HandlerInv'
  <2>1. /\ srv[s].at = "waiting" /\ unsaved' = unsaved \union {s}
        /\ L!HandlerOver(s, srv[s].row, <<L!Msg("error", 0)>>)
    BY <1>9 DEF L!TooLong
  <2>2. <<L!Msg("error", 0)>> \in Seq(Told) /\ s \in unsaved' /\ unsaved \subseteq unsaved'
    BY <1>4, <2>1
  <2>3. srv[s].row = "none" => srv[s].turn = 0
    BY <1>1 DEF HandlerOk
  <2> QED
    BY <1>2, <1>3, <2>1, <2>2, <2>3, HandlerEnds
<1> QED
  BY <1>5, <1>6, <1>7, <1>8, <1>9

LEMMA HandlerStep == HandlerInv /\ [Next]_pageVars => HandlerInv'
<1> SUFFICES ASSUME HandlerInv, [Next]_pageVars PROVE HandlerInv'
  OBVIOUS
<1>1. L!CoachNext \/ UNCHANGED coach
  BY PageSteps
<1>2. ASSUME UNCHANGED coach PROVE HandlerInv'
  BY <1>2 DEF coach, HandlerInv, HandlerTypes
<1>3. ASSUME NEW s \in Sockets,
             \/ L!TakeFinish(s) \/ L!TakeClose(s) \/ L!IdleTimeout(s) \/ L!FinishAll(s) \/ L!Drain(s)
      PROVE  HandlerInv'
  <2>1. srv[s].at \in {"waiting", "finishing"} /\ socket' = socket
    BY <1>3 DEF L!TakeFinish, L!TakeClose, L!IdleTimeout, L!FinishAll, L!Drain, L!Read, L!page
  <2>2. <<>> \in Seq(Told) /\ <<L!Msg("reconnect", 0)>> \in Seq(Told)
    BY DEF Told, L!Msg
  <2>3. L!finishSession(s) \/ L!abandon(s, <<>>) \/ L!abandon(s, <<L!Msg("reconnect", 0)>>)
    BY <1>3 DEF L!TakeFinish, L!TakeClose, L!IdleTimeout, L!FinishAll, L!Drain
  <2> QED
    BY <2>1, <2>2, <2>3, SessionEnds
<1> QED
  BY <1>1, <1>2, <1>3, PageTakes, PageHears, HandlerGoes DEF L!CoachNext, L!Handle, L!Hears

(* The turns already spoken are kept: the row of a conversation that ends  *)
(* is completed if a turn was judged and removed if none, however it ends: *)
(* finished, left, timed out, drained or cut off, unless the write that    *)
(* says so fails (use-coach-live.ts; live_speaking.go).                    *)
THEOREM TurnsHold == Spec => []TurnsAreKept
<1>1. HandlerInv => L!TurnsAreKept
  BY DEF HandlerInv, HandlerOk, Outcome, L!TurnsAreKept
<1>2. HandlerInv => TurnsAreKept
  BY <1>1 DEF TurnsAreKept
<1> QED
  BY <1>2, HandlerStart, HandlerStep, PTL DEF Spec
=============================================================================
