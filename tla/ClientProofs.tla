---------------------------- MODULE ClientProofs ----------------------------
(***************************************************************************)
(* Theorems about the pages of Pages that save what a learner does, for    *)
(* any questions, edits and failures: what a page promises is kept by its  *)
(* own steps, and the other pages leave it alone.                          *)
(***************************************************************************)
EXTENDS Pages, SequenceTheorems, TLAPS

\* While one page is looked at, the others stay as they are.
LEMMA PageSteps ==
    ASSUME [Next]_pageVars
    PROVE  /\ S!SectionNext \/ UNCHANGED sections
           /\ D!DialogNext \/ UNCHANGED dialog
           /\ B!BuilderNext \/ UNCHANGED builder
           /\ F!FormsNext \/ UNCHANGED forms
           /\ W!WordsNext \/ UNCHANGED words
<1>1. CASE UNCHANGED pageVars
  BY <1>1 DEF pageVars
<1> QED
  BY <1>1 DEF Next, Section, Grammar, Coach, Builder, Word, Form, Task, List, Rounds, Ask, Talk,
     Exam, Mocks, Code, Speak, Live, Joining, Test, Shell, Looking, Stays

-----------------------------------------------------------------------------
(* A section of the placement test.                                        *)

Answers == [item : Items, edit : Nat]

Flights == [item : Items, edit : Nat, at : {"sent", "stored", "refused"}]

Texts == [Items -> Nat]

SectionTypes ==
    /\ pending \in Seq(Answers) /\ flight \in Flights \union {Nothing}
    /\ shown \in Texts /\ stored \in Texts /\ cached \in Texts \union {Nothing}
    /\ edits \in Nat /\ touched \subseteq Items

\* No answer is newer than the last edit.
EditsBound ==
    \A i \in Items : shown[i] <= edits /\ stored[i] <= edits /\ (cached # Nothing => cached[i] <= edits)

Closed == section # "in_progress" \/ clock = "late"

Sending(i) == flight # Nothing /\ flight.item = i /\ flight.at = "sent"

(* What waits is what is shown, and what is under way too unless the newer  *)
(* waits; an answer given on this page waits, is being sent, is stored or   *)
(* came too late.                                                           *)
Follows(p) ==
    /\ \A k \in DOMAIN p : p[k].edit = shown[p[k].item]
    /\ flight # Nothing =>
           /\ flight.edit <= shown[flight.item]
           /\ S!Waits(p, flight.item) \/ flight.edit = shown[flight.item]
    /\ page = "open" =>
           \A i \in touched : S!Waits(p, i) \/ Sending(i) \/ stored[i] = shown[i] \/ Closed

SavedIsIdle == note = "saved" => flight = Nothing /\ pending = <<>>

\* On a page that opened with what was stored, the newer is on its way.
NewerFollows ==
    ~stale => /\ \A i \in Items : stored[i] <= shown[i]
              /\ flight # Nothing => stored[flight.item] <= flight.edit

SectionInv == SectionTypes /\ EditsBound /\ Follows(pending) /\ SavedIsIdle /\ NewerFollows

LEMMA SectionStart == Init => SectionInv
<1> SUFFICES ASSUME S!SectionInit PROVE SectionInv
  BY DEF Init
<1>1. /\ pending = <<>> /\ flight = Nothing /\ shown = S!Blank /\ stored = S!Blank /\ cached = S!Blank
      /\ edits = 0 /\ touched = {} /\ note = "idle"
  BY DEF S!SectionInit
<1>2. S!Blank \in Texts /\ \A i \in Items : S!Blank[i] = 0
  BY DEF S!Blank, Texts
<1>3. SectionTypes
  BY <1>1, <1>2 DEF SectionTypes
<1>4. EditsBound /\ Follows(pending) /\ SavedIsIdle /\ NewerFollows
  BY <1>1, <1>2 DEF EditsBound, Follows, SavedIsIdle, NewerFollows
<1> QED
  BY <1>3, <1>4 DEF SectionInv

\* What Put does to the answers that wait, whether one of the item was there or not.
LEMMA PutKeeps ==
    ASSUME NEW p \in Seq(Answers), NEW i \in Items, NEW e \in Nat
    PROVE  /\ S!Put(p, i, e) \in Seq(Answers) /\ S!Put(p, i, e) # <<>>
           /\ S!Waits(S!Put(p, i, e), i)
           /\ \A j \in Items : S!Waits(p, j) => S!Waits(S!Put(p, i, e), j)
           /\ \A k \in DOMAIN S!Put(p, i, e) :
                  IF S!Put(p, i, e)[k].item = i THEN S!Put(p, i, e)[k].edit = e
                  ELSE k \in DOMAIN p /\ S!Put(p, i, e)[k] = p[k]
<1>1. CASE S!Waits(p, i)
  <2>1. PICK q : q = [k \in DOMAIN p |-> IF p[k].item = i THEN [p[k] EXCEPT !.edit = e] ELSE p[k]]
    OBVIOUS
  <2>2. S!Put(p, i, e) = q
    BY <1>1, <2>1 DEF S!Put
  <2>3. ASSUME NEW k \in DOMAIN p
        PROVE  q[k] \in Answers /\ q[k].item = p[k].item /\ (IF q[k].item = i THEN q[k].edit = e ELSE q[k] = p[k])
    <3>1. p[k] \in Answers
      BY ElementOfSeq
    <3> QED
      BY <2>1, <3>1 DEF Answers
  <2>4. DOMAIN q = DOMAIN p /\ q \in Seq(Answers)
    <3>1. DOMAIN p = 1..Len(p) /\ Len(p) \in Nat
      BY LenProperties
    <3>2. q \in [1..Len(p) -> Answers]
      BY <2>1, <2>3, <3>1
    <3> QED
      BY <2>1, <3>1, <3>2, SeqDef
  <2>5. PICK k \in DOMAIN p : p[k].item = i
    BY <1>1 DEF S!Waits
  <2>6. q # <<>>
    BY <2>4, <2>5
  <2>7. \A j \in Items : S!Waits(p, j) => S!Waits(q, j)
    BY <2>3, <2>4 DEF S!Waits
  <2> QED
    BY <1>1, <2>2, <2>3, <2>4, <2>6, <2>7
<1>2. CASE ~S!Waits(p, i)
  <2>1. PICK a : a = [item |-> i, edit |-> e]
    OBVIOUS
  <2>2. a \in Answers /\ a.item = i /\ a.edit = e
    BY <2>1 DEF Answers
  <2>3. PICK q : q = Append(p, a)
    OBVIOUS
  <2>4. S!Put(p, i, e) = q
    BY <1>2, <2>1, <2>3 DEF S!Put
  <2>5. /\ q \in Seq(Answers) /\ Len(q) = Len(p) + 1 /\ q[Len(p) + 1] = a
        /\ \A k \in 1..Len(p) : q[k] = p[k]
    BY <2>2, <2>3, AppendProperties
  <2>6. /\ DOMAIN q = 1..(Len(p) + 1) /\ DOMAIN p = 1..Len(p) /\ Len(p) \in Nat
    BY <2>5, LenProperties
  <2>7. q # <<>> /\ S!Waits(q, i)
    BY <2>2, <2>5, <2>6 DEF S!Waits
  <2>8. \A j \in Items : S!Waits(p, j) => S!Waits(q, j)
    BY <2>5, <2>6 DEF S!Waits
  <2>9. \A k \in DOMAIN q : IF q[k].item = i THEN q[k].edit = e ELSE k \in DOMAIN p /\ q[k] = p[k]
    <3>1. \A k \in DOMAIN p : p[k].item # i
      BY <1>2 DEF S!Waits
    <3> QED
      BY <2>2, <2>5, <2>6, <3>1
  <2> QED
    BY <2>4, <2>5, <2>7, <2>8, <2>9
<1> QED
  BY <1>1, <1>2

\* The first of the answers that wait goes, and the others wait on.
LEMMA HeadGoes ==
    ASSUME NEW p \in Seq(Answers), p # <<>>
    PROVE  /\ Head(p) \in Answers /\ Tail(p) \in Seq(Answers) /\ 1 \in DOMAIN p /\ Head(p) = p[1]
           /\ \A k \in DOMAIN Tail(p) : \E l \in DOMAIN p : Tail(p)[k] = p[l]
           /\ \A i \in Items : S!Waits(p, i) => Head(p).item = i \/ S!Waits(Tail(p), i)
<1>1. /\ Len(p) \in Nat \ {0} /\ DOMAIN p = 1..Len(p)
  BY LenProperties, EmptySeq
<1>2. /\ Head(p) = p[1] /\ Head(p) \in Answers
  BY <1>1, HeadTailProperties
<1>3. PICK q : q = Tail(p)
  OBVIOUS
<1>4. /\ q \in Seq(Answers) /\ Len(q) = Len(p) - 1 /\ \A k \in 1..Len(q) : q[k] = p[k + 1]
  BY <1>3, HeadTailProperties
<1>5. DOMAIN q = 1..(Len(p) - 1)
  BY <1>4, LenProperties
<1>6. ASSUME NEW k \in DOMAIN q PROVE \E l \in DOMAIN p : q[k] = p[l]
  <2>1. k + 1 \in DOMAIN p /\ q[k] = p[k + 1]
    BY <1>1, <1>4, <1>5
  <2> QED
    BY <2>1
<1>7. ASSUME NEW i \in Items, S!Waits(p, i) PROVE p[1].item = i \/ S!Waits(q, i)
  <2>1. PICK l \in DOMAIN p : p[l].item = i
    BY <1>7 DEF S!Waits
  <2>2. CASE l # 1
    <3>1. l - 1 \in DOMAIN q /\ q[l - 1] = p[(l - 1) + 1] /\ (l - 1) + 1 = l
      BY <1>1, <1>4, <1>5, <2>2
    <3> QED
      BY <2>1, <3>1 DEF S!Waits
  <2> QED
    BY <2>1, <2>2
<1> QED
  BY <1>1, <1>2, <1>3, <1>4, <1>6, <1>7

\* What the page shows and what the API has, while the queue moves.
Screens == <<shown, stored, section, clock, touched, stale, page, edits, cached>>

\* The first of the answers in p goes out, and nothing is lost on the way.
LEMMA TakingKeeps ==
    ASSUME SectionTypes, EditsBound, NEW p \in Seq(Answers), p # <<>>, Follows(p), NewerFollows,
           flight = Nothing \/ flight.at # "sent",
           flight' = S!Sent(Head(p)), pending' = Tail(p), note' # "saved", UNCHANGED Screens
    PROVE  SectionInv'
<1> USE DEF Screens
<1>1. PICK a : a = Head(p)
  OBVIOUS
<1>2. /\ a \in Answers /\ pending' \in Seq(Answers) /\ 1 \in DOMAIN p /\ a = p[1]
      /\ \A k \in DOMAIN pending' : \E l \in DOMAIN p : pending'[k] = p[l]
      /\ \A i \in Items : S!Waits(p, i) => a.item = i \/ S!Waits(pending', i)
  BY <1>1, HeadGoes
<1>3. flight' = [item |-> a.item, edit |-> a.edit, at |-> "sent"]
  BY <1>1 DEF S!Sent
<1>4. flight' \in Flights /\ flight'.item = a.item /\ flight'.edit = a.edit /\ flight'.at = "sent"
  BY <1>2, <1>3 DEF Answers, Flights
<1>5. flight' # Nothing
  BY <1>4, PagesAssumption DEF Flights
<1>6. a.edit = shown[a.item] /\ a.item \in Items /\ shown[a.item] \in Nat
  BY <1>2 DEF Answers, Follows, SectionTypes, Texts
<1>7. SectionTypes'
  BY <1>2, <1>4 DEF SectionTypes
<1>8. EditsBound'
  BY DEF EditsBound
<1>9. Follows(pending)'
  <2>1. \A k \in DOMAIN pending' : pending'[k].edit = shown[pending'[k].item]
    BY <1>2 DEF Follows
  <2>2. page = "open" => \A i \in touched : S!Waits(p, i) \/ stored[i] = shown[i] \/ Closed
    BY DEF Follows, Sending
  <2>3. ASSUME page = "open", NEW i \in touched
        PROVE  S!Waits(pending', i) \/ Sending(i)' \/ stored[i] = shown[i] \/ Closed
    <3>1. i \in Items
      BY DEF SectionTypes
    <3> QED
      BY <1>2, <1>4, <1>5, <2>2, <2>3, <3>1 DEF Sending
  <2> QED
    BY <1>4, <1>5, <1>6, <2>1, <2>3 DEF Follows, Closed
<1>10. SavedIsIdle'
  BY DEF SavedIsIdle
<1>11. NewerFollows'
  BY <1>4, <1>6 DEF NewerFollows
<1> QED
  BY <1>7, <1>8, <1>9, <1>10, <1>11 DEF SectionInv

\* drain loses nothing, whatever is given it to send.
LEMMA DrainKeeps ==
    ASSUME SectionTypes, EditsBound, NEW p \in Seq(Answers), NEW w, Follows(p), NewerFollows,
           note = "saved" => flight = Nothing, S!drain(p, w), UNCHANGED Screens
    PROVE  SectionInv'
<1>1. CASE flight # Nothing
  <2>1. pending' = p /\ UNCHANGED <<flight, note>>
    BY <1>1 DEF S!drain
  <2>2. SectionTypes' /\ EditsBound' /\ NewerFollows'
    BY <2>1 DEF SectionTypes, EditsBound, NewerFollows, Screens
  <2>3. Follows(pending)'
    BY <2>1 DEF Follows, Sending, Closed, Screens
  <2>4. SavedIsIdle'
    BY <1>1, <2>1 DEF SavedIsIdle
  <2> QED
    BY <2>2, <2>3, <2>4 DEF SectionInv
<1>2. CASE flight = Nothing /\ p # <<>>
  <2>1. flight' = S!Sent(Head(p)) /\ pending' = Tail(p) /\ note' = "saving"
    BY <1>2 DEF S!drain
  <2> QED
    BY <1>2, <2>1, TakingKeeps
<1>3. CASE flight = Nothing /\ p = <<>>
  <2>1. pending' = p /\ UNCHANGED flight
    BY <1>3 DEF S!drain
  <2>2. SectionTypes' /\ EditsBound' /\ NewerFollows'
    BY <2>1 DEF SectionTypes, EditsBound, NewerFollows, Screens
  <2>3. Follows(pending)'
    BY <2>1 DEF Follows, Sending, Closed, Screens
  <2>4. SavedIsIdle'
    BY <1>3, <2>1 DEF SavedIsIdle
  <2> QED
    BY <2>2, <2>3, <2>4 DEF SectionInv
<1> QED
  BY <1>1, <1>2, <1>3

\* finish hands the text in as it is shown, and then drains.
LEMMA FinishKeeps ==
    ASSUME SectionInv, NEW w, S!finish(w), UNCHANGED Screens
    PROVE  SectionInv'
<1> USE DEF SectionInv
<1>1. pending \in Seq(Answers) /\ (note = "saved" => flight = Nothing)
  BY DEF SectionTypes, SavedIsIdle
<1>2. CASE kind # "writing"
  <2>1. S!drain(pending, w)
    BY <1>2 DEF S!finish
  <2> QED
    BY <1>1, <2>1, DrainKeeps
<1>3. CASE kind = "writing"
  <2>1. PICK i : i = CHOOSE j \in S!Asked : TRUE
    OBVIOUS
  <2>2. PICK p : p = S!Put(pending, i, shown[i])
    OBVIOUS
  <2>3. S!drain(p, w)
    BY <1>3, <2>1, <2>2 DEF S!finish
  <2>4. i \in Items
    <3>1. S!Asked # {} /\ S!Asked \subseteq Items
      BY <1>3, PagesAssumption DEF S!Asked
    <3> QED
      BY <2>1, <3>1
  <2>5. shown[i] \in Nat
    BY <2>4 DEF SectionTypes, Texts
  <2>6. /\ p \in Seq(Answers) /\ S!Waits(p, i)
        /\ \A j \in Items : S!Waits(pending, j) => S!Waits(p, j)
        /\ \A k \in DOMAIN p : IF p[k].item = i THEN p[k].edit = shown[i]
                               ELSE k \in DOMAIN pending /\ p[k] = pending[k]
    <3>1. PICK e \in Nat : e = shown[i]
      BY <2>5
    <3>2. /\ S!Put(pending, i, e) \in Seq(Answers) /\ S!Waits(S!Put(pending, i, e), i)
          /\ \A j \in Items : S!Waits(pending, j) => S!Waits(S!Put(pending, i, e), j)
          /\ \A k \in DOMAIN S!Put(pending, i, e) :
                 IF S!Put(pending, i, e)[k].item = i THEN S!Put(pending, i, e)[k].edit = e
                 ELSE k \in DOMAIN pending /\ S!Put(pending, i, e)[k] = pending[k]
      BY <1>1, <2>4, PutKeeps, ZenonT(30)
    <3>3. p = S!Put(pending, i, e)
      BY <2>2, <3>1
    <3> QED
      BY <3>1, <3>2, <3>3
  <2>7. Follows(p)
    <3>1. \A k \in DOMAIN p : p[k].edit = shown[p[k].item]
      BY <2>6 DEF Follows
    <3>2. flight # Nothing => flight.item \in Items
      BY DEF SectionTypes, Flights
    <3>3. touched \subseteq Items
      BY DEF SectionTypes
    <3> QED
      BY <2>6, <3>1, <3>2, <3>3 DEF Follows
  <2> QED
    BY <1>1, <2>3, <2>6, <2>7, DrainKeeps
<1> QED
  BY <1>2, <1>3

\* The answer just given is the newest there is, and waits.
LEMMA ChooseKeeps ==
    ASSUME SectionInv, NEW i \in Items, S!Choose(i)
    PROVE  SectionInv'
<1> USE DEF SectionInv
<1>1. PICK e : e = edits + 1
  OBVIOUS
<1>2. PICK p : p = S!Put(pending, i, e)
  OBVIOUS
<1>3. /\ edits' = e /\ shown' = [shown EXCEPT ![i] = e] /\ touched' = touched \cup {i} /\ pending' = p
      /\ note' = "saving" /\ UNCHANGED <<page, cached, stale, flight, stored, section, clock>>
  BY <1>1, <1>2 DEF S!Choose, S!server
<1>4. e \in Nat /\ e > edits /\ edits \in Nat /\ pending \in Seq(Answers) /\ touched \subseteq Items
  BY <1>1 DEF SectionTypes
<1>5. /\ p \in Seq(Answers) /\ S!Waits(p, i)
      /\ \A j \in Items : S!Waits(pending, j) => S!Waits(p, j)
      /\ \A k \in DOMAIN p : IF p[k].item = i THEN p[k].edit = e
                             ELSE k \in DOMAIN pending /\ p[k] = pending[k]
  <2>1. /\ S!Put(pending, i, e) \in Seq(Answers) /\ S!Waits(S!Put(pending, i, e), i)
        /\ \A j \in Items : S!Waits(pending, j) => S!Waits(S!Put(pending, i, e), j)
        /\ \A k \in DOMAIN S!Put(pending, i, e) :
               IF S!Put(pending, i, e)[k].item = i THEN S!Put(pending, i, e)[k].edit = e
               ELSE k \in DOMAIN pending /\ S!Put(pending, i, e)[k] = pending[k]
    BY <1>4, PutKeeps, ZenonT(30)
  <2> QED
    BY <1>2, <2>1
<1>6. /\ shown' \in Texts /\ shown'[i] = e
      /\ \A j \in Items : j # i => shown'[j] = shown[j]
      /\ \A j \in Items : shown[j] \in Nat /\ shown[j] <= edits
      /\ \A j \in Items : stored[j] \in Nat /\ stored[j] <= edits
      /\ cached # Nothing => \A j \in Items : cached[j] \in Nat /\ cached[j] <= edits
  BY <1>3, <1>4 DEF SectionTypes, EditsBound, Texts
<1>7. SectionTypes'
  BY <1>3, <1>4, <1>5, <1>6 DEF SectionTypes
<1>8. EditsBound'
  <2>1. ASSUME NEW j \in Items PROVE shown'[j] <= e /\ stored[j] <= e /\ (cached # Nothing => cached[j] <= e)
    BY <1>4, <1>6
  <2> QED
    BY <1>3, <2>1 DEF EditsBound
<1>9. Follows(pending)'
  <2>1. \A k \in DOMAIN p : p[k].edit = shown'[p[k].item]
    <3>1. ASSUME NEW k \in DOMAIN p PROVE p[k].edit = shown'[p[k].item]
      <4>1. p[k] \in Answers
        BY <1>5, ElementOfSeq
      <4>2. p[k].item \in Items
        BY <4>1 DEF Answers
      <4> QED
        BY <1>5, <1>6, <4>2 DEF Follows
    <3> QED
      BY <3>1
  <2>2. flight # Nothing => /\ flight.edit <= shown'[flight.item]
                            /\ S!Waits(p, flight.item) \/ flight.edit = shown'[flight.item]
    <3> SUFFICES ASSUME flight # Nothing
                 PROVE  /\ flight.edit <= shown'[flight.item]
                        /\ S!Waits(p, flight.item) \/ flight.edit = shown'[flight.item]
      OBVIOUS
    <3>1. flight.item \in Items /\ flight.edit \in Nat /\ flight.edit <= shown[flight.item]
      BY DEF SectionTypes, Flights, Follows
    <3>2. CASE flight.item = i
      BY <1>4, <1>5, <1>6, <3>1, <3>2
    <3>3. CASE flight.item # i
      BY <1>5, <1>6, <3>1, <3>3 DEF Follows
    <3> QED
      BY <3>2, <3>3
  <2>3. page = "open" => \A j \in touched' :
            S!Waits(p, j) \/ Sending(j)' \/ stored'[j] = shown'[j] \/ Closed'
    BY <1>3, <1>4, <1>5, <1>6 DEF Follows, Sending, Closed
  <2> QED
    BY <1>3, <2>1, <2>2, <2>3 DEF Follows
<1>10. SavedIsIdle'
  BY <1>3 DEF SavedIsIdle
<1>11. NewerFollows'
  <2>1. \A j \in Items : stored[j] <= e
    BY <1>4, <1>6
  <2> QED
    BY <1>3, <1>6, <2>1 DEF NewerFollows
<1> QED
  BY <1>7, <1>8, <1>9, <1>10, <1>11

\* What is stored is what was sent, or the answer came too late.
LEMMA SavingKeeps ==
    ASSUME SectionInv, S!SaveAnswer
    PROVE  SectionInv' /\ (~stale => \A i \in Items : stored'[i] >= stored[i])
<1> USE DEF SectionInv
<1>1. /\ flight # Nothing /\ flight.at = "sent"
      /\ UNCHANGED <<page, cached, shown, touched, stale, pending, note, section, clock, edits>>
  BY DEF S!SaveAnswer, S!screen
<1>2. PICK i \in Items, e \in Nat : flight = [item |-> i, edit |-> e, at |-> "sent"]
  BY <1>1 DEF SectionTypes, Flights
<1>3. /\ stored \in Texts /\ shown \in Texts /\ touched \subseteq Items /\ shown[i] \in Nat
      /\ e <= shown[i] /\ (S!Waits(pending, i) \/ e = shown[i])
      /\ shown[i] <= edits /\ edits \in Nat
  BY <1>1, <1>2 DEF SectionTypes, Follows, EditsBound, Texts
<1>4. CASE ~Closed
  <2>1. /\ stored' = [stored EXCEPT ![i] = e] /\ flight' = [item |-> i, edit |-> e, at |-> "stored"]
    BY <1>2, <1>4 DEF S!SaveAnswer, Closed
  <2>2. /\ stored' \in Texts /\ stored'[i] = e /\ \A j \in Items : j # i => stored'[j] = stored[j]
    BY <1>2, <1>3, <2>1 DEF Texts
  <2>3. flight' \in Flights /\ flight'.item = i /\ flight'.edit = e
    BY <1>2, <2>1 DEF Flights
  <2>4. SectionTypes'
    BY <1>1, <2>2, <2>3 DEF SectionTypes
  <2>5. EditsBound'
    <3>1. e <= edits
      BY <1>3
    <3> QED
      BY <1>1, <2>2, <3>1 DEF EditsBound
  <2>6. Follows(pending)'
    <3>1. ASSUME page = "open", NEW j \in touched
          PROVE  S!Waits(pending, j) \/ stored'[j] = shown[j] \/ Closed
      BY <1>2, <1>3, <2>2, <3>1 DEF Follows, Sending
    <3> QED
      BY <1>1, <1>3, <2>3, <3>1 DEF Follows, Closed
  <2>7. SavedIsIdle'
    BY <1>1 DEF SavedIsIdle
  <2>8. NewerFollows' /\ (~stale => \A j \in Items : stored'[j] >= stored[j])
    <3> SUFFICES ASSUME ~stale PROVE NewerFollows' /\ \A j \in Items : stored'[j] >= stored[j]
      BY <1>1 DEF NewerFollows
    <3>1. stored[i] <= e /\ \A j \in Items : stored[j] <= shown[j] /\ stored[j] \in Nat
      BY <1>1, <1>2, <1>3 DEF NewerFollows, Texts
    <3> QED
      BY <1>1, <1>3, <2>2, <2>3, <3>1 DEF NewerFollows
  <2> QED
    BY <2>4, <2>5, <2>6, <2>7, <2>8
<1>5. CASE Closed
  <2>1. stored' = stored /\ flight' = [item |-> i, edit |-> e, at |-> "refused"]
    BY <1>2, <1>5 DEF S!SaveAnswer, Closed
  <2>2. flight' \in Flights /\ flight'.item = i /\ flight'.edit = e
    BY <1>2, <2>1 DEF Flights
  <2>3. SectionTypes' /\ EditsBound'
    BY <1>1, <2>1, <2>2 DEF SectionTypes, EditsBound
  <2>4. Follows(pending)'
    BY <1>1, <1>3, <1>5, <2>1, <2>2 DEF Follows, Closed
  <2>5. SavedIsIdle'
    BY <1>1 DEF SavedIsIdle
  <2>6. NewerFollows' /\ \A j \in Items : stored'[j] >= stored[j]
    BY <1>1, <1>2, <1>3, <2>1, <2>2 DEF NewerFollows, Texts
  <2> QED
    BY <2>3, <2>4, <2>5, <2>6
<1> QED
  BY <1>4, <1>5

\* The answer of a save: the next one goes, or all is saved.
LEMMA SavedKeeps ==
    ASSUME SectionInv, S!Saved
    PROVE  SectionInv'
<1> USE DEF SectionInv
<1>1. /\ flight # Nothing /\ flight.at # "sent" /\ UNCHANGED Screens /\ pending \in Seq(Answers)
  BY DEF S!Saved, S!screen, S!server, Screens, SectionTypes
<1>2. CASE pending # <<>>
  <2>1. flight' = S!Sent(Head(pending)) /\ pending' = Tail(pending) /\ note' = note
    BY <1>2 DEF S!Saved
  <2>2. note' # "saved"
    BY <1>2, <2>1 DEF SavedIsIdle
  <2> QED
    BY <1>1, <1>2, <2>1, <2>2, TakingKeeps
<1>3. CASE pending = <<>>
  <2>1. flight' = Nothing /\ pending' = pending
    BY <1>3 DEF S!Saved
  <2>2. SectionTypes' /\ EditsBound' /\ NewerFollows'
    BY <1>1, <2>1 DEF SectionTypes, EditsBound, NewerFollows, Screens
  <2>3. Follows(pending)'
    <3>1. page = "open" => \A i \in touched : S!Waits(pending, i) \/ stored[i] = shown[i] \/ Closed
      BY <1>1 DEF Follows, Sending
    <3> QED
      BY <1>1, <2>1, <3>1 DEF Follows, Closed, Screens
  <2>4. SavedIsIdle'
    BY <1>3, <2>1 DEF SavedIsIdle
  <2> QED
    BY <2>2, <2>3, <2>4
<1> QED
  BY <1>2, <1>3

\* The answer whose save failed waits again, unless a newer one does.
LEMMA FailingKeeps ==
    ASSUME SectionInv, S!SaveFails
    PROVE  SectionInv'
<1> USE DEF SectionInv
<1>1. /\ flight # Nothing /\ flight' = Nothing /\ note' = "error" /\ UNCHANGED Screens
      /\ pending' = S!requeue(flight) /\ pending \in Seq(Answers)
  BY DEF S!SaveFails, S!screen, S!server, Screens, SectionTypes
<1>2. PICK i \in Items, e \in Nat, t \in {"sent", "stored", "refused"} :
          flight = [item |-> i, edit |-> e, at |-> t]
  BY <1>1 DEF SectionTypes, Flights
<1>3. S!Waits(pending, i) \/ e = shown[i]
  BY <1>1, <1>2 DEF Follows
<1>4. /\ pending' \in Seq(Answers) /\ S!Waits(pending', i)
      /\ \A j \in Items : S!Waits(pending, j) => S!Waits(pending', j)
      /\ \A k \in DOMAIN pending' : pending'[k].edit = shown[pending'[k].item]
  <2>1. CASE S!Waits(pending, i)
    <3>1. pending' = pending
      BY <1>1, <1>2, <2>1 DEF S!requeue
    <3> QED
      BY <1>1, <2>1, <3>1 DEF Follows
  <2>2. CASE ~S!Waits(pending, i)
    <3>1. PICK a : a = [item |-> i, edit |-> e]
      OBVIOUS
    <3>2. a \in Answers /\ a.item = i /\ a.edit = e
      BY <3>1 DEF Answers
    <3>3. PICK q : q = Append(pending, a)
      OBVIOUS
    <3>4. pending' = q
      BY <1>1, <1>2, <2>2, <3>1, <3>3 DEF S!requeue
    <3>5. /\ q \in Seq(Answers) /\ Len(q) = Len(pending) + 1 /\ q[Len(pending) + 1] = a
          /\ \A k \in 1..Len(pending) : q[k] = pending[k]
      BY <1>1, <3>2, <3>3, AppendProperties
    <3>6. DOMAIN q = 1..(Len(pending) + 1) /\ DOMAIN pending = 1..Len(pending) /\ Len(pending) \in Nat
      BY <1>1, <3>5, LenProperties
    <3>7. S!Waits(q, i) /\ \A j \in Items : S!Waits(pending, j) => S!Waits(q, j)
      BY <3>2, <3>5, <3>6 DEF S!Waits
    <3>8. \A k \in DOMAIN q : q[k].edit = shown[q[k].item]
      <4>1. \A k \in DOMAIN pending : pending[k].edit = shown[pending[k].item]
        BY DEF Follows
      <4>2. e = shown[i]
        BY <1>3, <2>2
      <4> QED
        BY <3>2, <3>5, <3>6, <4>1, <4>2
    <3> QED
      BY <3>4, <3>5, <3>7, <3>8
  <2> QED
    BY <2>1, <2>2
<1>5. SectionTypes' /\ EditsBound' /\ NewerFollows'
  BY <1>1, <1>4 DEF SectionTypes, EditsBound, NewerFollows, Screens
<1>6. Follows(pending)'
  <2>1. ASSUME page = "open", NEW j \in touched
        PROVE  S!Waits(pending', j) \/ stored[j] = shown[j] \/ Closed
    <3>1. j \in Items
      BY DEF SectionTypes
    <3> QED
      BY <1>2, <1>4, <2>1, <3>1 DEF Follows, Sending
  <2> QED
    BY <1>1, <1>4, <2>1 DEF Follows, Closed, Screens
<1>7. SavedIsIdle'
  BY <1>1 DEF SavedIsIdle
<1> QED
  BY <1>5, <1>6, <1>7

\* The page opens with the content in the cache, or else with what is stored.
LEMMA OpeningKeeps ==
    ASSUME SectionInv, S!Open
    PROVE  SectionInv'
<1> USE DEF SectionInv
<1>1. PICK c : c = IF cached = Nothing THEN stored ELSE cached
  OBVIOUS
<1>2. /\ shown' = c /\ cached' = c /\ pending' = <<>> /\ flight = Nothing /\ flight' = Nothing /\ note' = "idle"
      /\ touched' = {} /\ stale' = (c # stored) /\ UNCHANGED <<stored, edits>>
  BY <1>1 DEF S!Open, S!server
<1>3. c \in Texts /\ stored \in Texts /\ \A i \in Items : c[i] <= edits /\ stored[i] <= edits
  BY <1>1 DEF SectionTypes, EditsBound
<1>4. SectionTypes' /\ EditsBound'
  BY <1>2, <1>3 DEF SectionTypes, EditsBound
<1>5. Follows(pending)' /\ SavedIsIdle'
  BY <1>2 DEF Follows, SavedIsIdle
<1>6. NewerFollows'
  <2>1. ~stale' => shown' = stored
    BY <1>2
  <2>2. \A i \in Items : stored[i] <= stored[i]
    BY <1>3 DEF Texts
  <2> QED
    BY <1>2, <2>1, <2>2 DEF NewerFollows
<1> QED
  BY <1>4, <1>5, <1>6

\* A page given up or loaded again has nothing left to answer for.
LEMMA RestKeeps ==
    ASSUME SectionInv,
           S!Submit \/ S!Submitted \/ S!SubmitFails \/ S!Refetch \/ S!Clock \/ S!ServerExpires \/ S!Leave
               \/ S!Evict \/ S!Reload
    PROVE  SectionInv' /\ UNCHANGED stored
<1> USE DEF SectionInv, S!screen, S!saver, S!server
<1>1. /\ UNCHANGED <<shown, stored, edits, touched, stale, note>>
      /\ UNCHANGED cached \/ cached' = Nothing
      /\ UNCHANGED <<pending, flight>> \/ (pending' = <<>> /\ flight' = Nothing /\ page' # "open")
      /\ page' = "open" => page = "open"
      /\ Closed => Closed'
  BY DEF S!Submit, S!Submitted, S!SubmitFails, S!Refetch, S!Clock, S!ServerExpires, S!Leave, S!Evict,
         S!Reload, Closed
<1>2. CASE UNCHANGED <<pending, flight>>
  <2>1. SectionTypes' /\ EditsBound'
    BY <1>1, <1>2 DEF SectionTypes, EditsBound
  <2>2. Follows(pending)'
    BY <1>1, <1>2 DEF Follows, Sending
  <2>3. SavedIsIdle' /\ NewerFollows'
    BY <1>1, <1>2 DEF SavedIsIdle, NewerFollows
  <2> QED
    BY <1>1, <2>1, <2>2, <2>3
<1>3. CASE pending' = <<>> /\ flight' = Nothing /\ page' # "open"
  <2>1. SectionTypes' /\ EditsBound'
    BY <1>1, <1>3 DEF SectionTypes, EditsBound
  <2>2. Follows(pending)'
    BY <1>3 DEF Follows
  <2>3. SavedIsIdle' /\ NewerFollows'
    BY <1>1, <1>3 DEF SavedIsIdle, NewerFollows
  <2> QED
    BY <1>1, <2>1, <2>2, <2>3
<1> QED
  BY <1>1, <1>2, <1>3

\* Every step keeps the invariant, and none stores an older answer over a newer.
LEMMA SectionStep ==
    ASSUME SectionInv, [Next]_pageVars
    PROVE  SectionInv' /\ (~stale => \A i \in Items : stored'[i] >= stored[i])
<1>1. \A i \in Items : stored[i] \in Nat
  BY DEF SectionInv, SectionTypes, Texts
<1>2. pending \in Seq(Answers) /\ Follows(pending) /\ (note = "saved" => flight = Nothing)
  BY DEF SectionInv, SectionTypes, SavedIsIdle
<1>3. CASE UNCHANGED sections
  <2>1. SectionInv'
    BY <1>3 DEF sections, SectionInv, SectionTypes, EditsBound, Follows, Sending, Closed, SavedIsIdle,
                NewerFollows
  <2> QED
    BY <1>1, <1>3, <2>1 DEF sections
<1>4. ASSUME NEW i \in Items, S!Choose(i) PROVE SectionInv' /\ UNCHANGED stored
  BY <1>4, ChooseKeeps DEF S!Choose, S!server
<1>5. CASE S!Tick \/ S!Blur
  <2>1. UNCHANGED Screens /\ \E w : S!drain(pending, w)
    BY <1>5 DEF S!Tick, S!Blur, Screens, S!screen, S!server
  <2>2. SectionInv' /\ UNCHANGED stored
    BY <1>2, <2>1, DrainKeeps DEF SectionInv, Screens
  <2> QED
    BY <1>1, <2>2
<1>6. CASE S!Finish \/ S!Expire
  <2>1. UNCHANGED Screens /\ \E w : S!finish(w)
    BY <1>6 DEF S!Finish, S!Expire, Screens, S!screen, S!server
  <2>2. SectionInv' /\ UNCHANGED stored
    BY <2>1, FinishKeeps DEF Screens
  <2> QED
    BY <1>1, <2>2
<1>7. CASE S!SaveAnswer
  BY <1>7, SavingKeeps
<1>8. CASE S!Saved \/ S!SaveFails
  <2>1. SectionInv' /\ UNCHANGED stored
    BY <1>8, SavedKeeps, FailingKeeps DEF S!Saved, S!SaveFails, S!server
  <2> QED
    BY <1>1, <2>1
<1>9. CASE S!Open
  <2>1. SectionInv' /\ UNCHANGED stored
    BY <1>9, OpeningKeeps DEF S!Open, S!server
  <2> QED
    BY <1>1, <2>1
<1>10. CASE S!Submit \/ S!Submitted \/ S!SubmitFails \/ S!Refetch \/ S!Clock \/ S!ServerExpires \/ S!Leave
            \/ S!Evict \/ S!Reload
  <2>1. SectionInv' /\ UNCHANGED stored
    BY <1>10, RestKeeps
  <2> QED
    BY <1>1, <2>1
<1> QED
  BY <1>1, <1>3, <1>4, <1>5, <1>6, <1>7, <1>8, <1>9, <1>10, PageSteps DEF S!SectionNext

LEMMA SectionSafe == Spec => []SectionInv
<1>1. Init => SectionInv
  BY SectionStart
<1>2. SectionInv /\ [Next]_pageVars => SectionInv'
  BY SectionStep
<1> QED
  BY <1>1, <1>2, PTL DEF Spec

(* Whatever is chosen, sent, lost or retried, the save indicator tells the *)
(* truth: when it says saved, every answer given on the page is the one    *)
(* the API has, or came too late for it.                                   *)
THEOREM SavedIsStored == Spec => []SavedMeansStored
<1>1. SectionInv => SavedMeansStored
  <2> SUFFICES ASSUME SectionInv, page = "open", note = "saved", ~Closed, NEW i \in touched
               PROVE  stored[i] = shown[i]
    BY DEF SavedMeansStored, S!SavedMeansStored, Closed
  <2>1. flight = Nothing /\ pending = <<>>
    BY DEF SectionInv, SavedIsIdle
  <2>2. S!Waits(pending, i) \/ Sending(i) \/ stored[i] = shown[i]
    BY DEF SectionInv, Follows
  <2> QED
    BY <2>1, <2>2 DEF S!Waits, Sending
<1> QED
  BY <1>1, SectionSafe, PTL

(* No save, retry, blur or finish puts an older answer over a newer one,   *)
(* on a page that opened with what was stored.                             *)
THEOREM LatestStays == Spec => LatestWins
<1>1. SectionInv /\ [Next]_pageVars =>
          [~stale => \A i \in Items : stored'[i] >= stored[i]]_(S!sectionVars)
  BY SectionStep
<1> QED
  BY <1>1, SectionSafe, PTL DEF Spec, LatestWins, S!LatestWins

-----------------------------------------------------------------------------
(* The dialog of a word.                                                   *)

Typed == Terms \union {Nothing}

Filled == [term : Typed, pos : Parts, wrote : [D!FillFields -> Typed \union {"owner"}],
           touched : SUBSET D!FillFields, suggestedFor : Typed,
           pause : [on : BOOLEAN, pending : BOOLEAN, asked : Typed],
           look : {"no", "due", "asked"}, looked : Typed]

Sights == [term : Typed, touched : SUBSET D!FillFields] \union {Nothing}

Suggestions == [term : Terms, at : {"sent", "answered", "done"}, held : SUBSET Parts, saw : Sights]

DialogTypes == form \in Filled \union {Nothing} /\ suggests \in Seq(Suggestions)

\* A field says that its owner wrote it only where it is known as touched.
Owned(f) == \A x \in D!FillFields : f.wrote[x] = "owner" => x \in f.touched

\* The last of the calls is told of every change of the form.
LastIsTold(cs) == cs # <<>> => cs[Len(cs)].saw = Nothing

DialogInv == /\ DialogTypes /\ LastIsTold(suggests)
             /\ form # Nothing \/ suggests # <<>> => form \in Filled /\ Owned(form)

\* No field of its owner is written over but by an older call.
Spared == D!WrittenOver => D!TakesOlder

\* A change of the form that leaves who wrote its fields.
LEMMA ChangeSpares ==
    ASSUME DialogInv, form # Nothing, NEW f \in Filled,
           f.wrote = form.wrote, form.touched \subseteq f.touched, form' = f
    PROVE  form' \in Filled /\ Owned(form') /\ ~D!WrittenOver
<1>1. form \in Filled /\ Owned(form)
  BY DEF DialogInv, DialogTypes
<1>2. Owned(f)
  BY <1>1 DEF Owned
<1> QED
  BY <1>1, <1>2 DEF D!WrittenOver

\* A call is added at the end, and those before keep what was shown to them.
LEMMA OvertakingTells ==
    ASSUME NEW cs \in Seq(Suggestions), NEW f \in Filled, NEW t \in Terms
    PROVE  LET more == Append(D!Overtaken(cs, f), D!Call(t))
           IN  more \in Seq(Suggestions) /\ LastIsTold(more)
<1>1. DOMAIN cs = 1..Len(cs) /\ Len(cs) \in Nat
  BY LenProperties
<1>2. PICK g : g = [term |-> f.term, touched |-> f.touched]
  OBVIOUS
<1>3. g \in Sights
  BY <1>2 DEF Filled, Sights
<1>4. PICK q : q = [i \in DOMAIN cs |->
                       IF cs[i].saw = Nothing THEN [cs[i] EXCEPT !.saw = g] ELSE cs[i]]
  OBVIOUS
<1>5. ASSUME NEW i \in DOMAIN cs PROVE q[i] \in Suggestions
  <2>1. cs[i] \in Suggestions
    BY ElementOfSeq
  <2> QED
    BY <1>3, <1>4, <2>1 DEF Suggestions
<1>6. q \in Seq(Suggestions)
  <2>1. q \in [1..Len(cs) -> Suggestions]
    BY <1>1, <1>4, <1>5
  <2> QED
    BY <1>1, <2>1, SeqDef
<1>7. D!Overtaken(cs, f) = q
  BY <1>2, <1>4 DEF D!Overtaken
<1>8. PICK c : c = D!Call(t)
  OBVIOUS
<1>9. c \in Suggestions /\ c.saw = Nothing
  BY <1>8 DEF D!Call, Suggestions, Sights
<1>10. PICK more : more = Append(q, c)
  OBVIOUS
<1>11. more \in Seq(Suggestions) /\ Len(more) = Len(q) + 1 /\ more[Len(q) + 1] = c
  BY <1>6, <1>9, <1>10, AppendProperties
<1> QED
  BY <1>7, <1>8, <1>9, <1>10, <1>11 DEF LastIsTold

\* askAI changes the form as its caller did, and may call.
LEMMA AskingSpares ==
    ASSUME DialogInv, form # Nothing, NEW f \in Filled,
           f.wrote = form.wrote, form.touched \subseteq f.touched,
           NEW u, NEW t, D!askAI(f, u, t)
    PROVE  DialogInv' /\ Spared
<1>1. suggests \in Seq(Suggestions) /\ LastIsTold(suggests)
  BY DEF DialogInv, DialogTypes
<1>2. CASE UNCHANGED suggests /\ form' = f
  <2>1. form' \in Filled /\ Owned(form') /\ ~D!WrittenOver
    BY <1>2, ChangeSpares
  <2> QED
    BY <1>1, <1>2, <2>1 DEF DialogInv, DialogTypes, Spared
<1>3. CASE ~(UNCHANGED suggests /\ form' = f)
  <2>1. /\ f.term # Nothing /\ suggests' = Append(D!Overtaken(suggests, f), D!Call(f.term))
        /\ form' = [f EXCEPT !.suggestedFor = f.term]
    BY <1>3 DEF D!askAI, D!Change
  <2>2. f.term \in Terms
    BY <2>1 DEF Filled, Typed
  <2>3. suggests' \in Seq(Suggestions) /\ LastIsTold(suggests)'
    <3>1. PICK k \in Terms : k = f.term
      BY <2>2
    <3>2. /\ Append(D!Overtaken(suggests, f), D!Call(k)) \in Seq(Suggestions)
          /\ LastIsTold(Append(D!Overtaken(suggests, f), D!Call(k)))
      BY <1>1, OvertakingTells
    <3> QED
      BY <2>1, <3>1, <3>2
  <2>4. PICK g : g = [f EXCEPT !.suggestedFor = f.term]
    OBVIOUS
  <2>5. g \in Filled /\ g.wrote = f.wrote /\ g.touched = f.touched
    BY <2>4 DEF Filled
  <2>6. form' \in Filled /\ Owned(form') /\ ~D!WrittenOver
    <3>1. form' = g /\ g.wrote = form.wrote /\ form.touched \subseteq g.touched
      BY <2>1, <2>4, <2>5
    <3> QED
      BY <2>5, <3>1, ChangeSpares
  <2> QED
    BY <2>3, <2>6 DEF DialogInv, DialogTypes, Spared
<1> QED
  BY <1>2, <1>3

\* What is typed, looked up and asked for.
LEMMA TypingSpares ==
    ASSUME DialogInv,
           \/ \E t \in Typed : D!TypeTerm(t)
           \/ \E x \in D!FillFields : D!own(x)
           \/ D!Lookup \/ D!existingWord \/ D!LookupFails \/ D!LookAgain
    PROVE  DialogInv' /\ Spared
<1> USE DEF DialogInv
<1>1. form # Nothing /\ form \in Filled /\ Owned(form) /\ UNCHANGED suggests
  BY DEF D!TypeTerm, D!own, D!Lookup, D!existingWord, D!LookupFails, D!LookAgain, DialogTypes
<1>2. CASE UNCHANGED suggests /\ \E f \in Filled : f.wrote = form.wrote /\ f.touched = form.touched /\ form' = f
  <2>1. PICK f \in Filled : f.wrote = form.wrote /\ f.touched = form.touched /\ form' = f
    BY <1>2
  <2>2. form' \in Filled /\ Owned(form') /\ ~D!WrittenOver
    BY <1>1, <2>1, ChangeSpares
  <2> QED
    BY <1>1, <2>2 DEF DialogTypes, Spared
<1>3. ASSUME NEW t \in Typed, D!TypeTerm(t)
      PROVE  \E f \in Filled : f.wrote = form.wrote /\ f.touched = form.touched /\ form' = f
  <2>1. PICK b \in BOOLEAN : b = D!pending
    BY DEF D!pending
  <2>2. PICK e : e = [on |-> TRUE, pending |-> b, asked |-> form.suggestedFor]
    OBVIOUS
  <2>3. e \in [on : BOOLEAN, pending : BOOLEAN, asked : Typed]
    BY <1>1, <2>2 DEF Filled
  <2>4. form' = [form EXCEPT !.term = t, !.look = "due", !.pause = e]
    BY <1>3, <2>1, <2>2 DEF D!TypeTerm, D!Change
  <2>5. PICK f : f = [form EXCEPT !.term = t, !.look = "due", !.pause = e]
    OBVIOUS
  <2>6. f \in Filled /\ f.wrote = form.wrote /\ f.touched = form.touched
    BY <1>1, <2>3, <2>5 DEF Filled
  <2> QED
    BY <2>4, <2>5, <2>6
<1>4. ASSUME NEW x \in D!FillFields, D!own(x) PROVE DialogInv' /\ Spared
  <2>1. PICK q \in Parts :
            form' = [form EXCEPT !.pos = q, !.wrote[x] = "owner", !.touched = @ \cup {x}]
    BY <1>1, <1>4 DEF D!own, D!Change, Filled
  <2>2. PICK f : f = [form EXCEPT !.pos = q, !.wrote = [form.wrote EXCEPT ![x] = "owner"],
                                  !.touched = form.touched \union {x}]
    OBVIOUS
  <2>3. form' = f
    BY <1>1, <2>1, <2>2 DEF Filled
  <2>4. f \in Filled /\ f.touched = form.touched \union {x} /\ f.wrote = [form.wrote EXCEPT ![x] = "owner"]
    BY <1>1, <2>2 DEF Filled
  <2>5. \A y \in D!FillFields : f.wrote[y] = IF y = x THEN "owner" ELSE form.wrote[y]
    BY <1>1, <2>4 DEF Filled
  <2>6. Owned(f) /\ \A y \in D!FillFields : form.wrote[y] = "owner" => f.wrote[y] = "owner"
    BY <1>1, <2>4, <2>5 DEF Owned
  <2> QED
    BY <1>1, <2>3, <2>4, <2>6 DEF DialogTypes, Spared, D!WrittenOver
<1>5. ASSUME D!Lookup \/ D!existingWord \/ D!LookupFails \/ D!LookAgain
      PROVE  \E f \in Filled : f.wrote = form.wrote /\ f.touched = form.touched /\ form' = f
  <2>1. \E l \in {"no", "asked"} :
            form' = [form EXCEPT !.look = l, !.looked = form.term] \/ form' = [form EXCEPT !.look = l]
    BY <1>5 DEF D!Lookup, D!existingWord, D!LookupFails, D!LookAgain, D!Change
  <2> QED
    BY <1>1, <2>1 DEF Filled
<1> QED
  BY <1>1, <1>2, <1>3, <1>4, <1>5

\* One call changes, and neither their number nor what they were shown.
LEMMA OneCallTells ==
    ASSUME suggests \in Seq(Suggestions), LastIsTold(suggests), NEW i \in DOMAIN suggests,
           NEW c \in Suggestions, c.saw = suggests[i].saw, suggests' = [suggests EXCEPT ![i] = c]
    PROVE  suggests' \in Seq(Suggestions) /\ LastIsTold(suggests)' /\ suggests'[i] = c
<1>1. /\ suggests' \in Seq(Suggestions) /\ Len(suggests') = Len(suggests)
      /\ \A j \in DOMAIN suggests : suggests'[j] = IF j = i THEN c ELSE suggests[j]
  BY ExceptSeq
<1>2. DOMAIN suggests = 1..Len(suggests) /\ Len(suggests) \in Nat /\ Len(suggests) \in DOMAIN suggests
  BY LenProperties
<1> QED
  BY <1>1, <1>2 DEF LastIsTold

LEMMA CallsSpare ==
    ASSUME DialogInv, NEW i \in DOMAIN suggests, D!suggestWord(i) \/ D!SuggestFails(i)
    PROVE  DialogInv' /\ Spared
<1>1. suggests \in Seq(Suggestions) /\ LastIsTold(suggests) /\ suggests[i] \in Suggestions /\ UNCHANGED form
  BY ElementOfSeq DEF DialogInv, DialogTypes, D!suggestWord, D!SuggestFails
<1>2. PICK h : h = D!Held(suggests[i].term)
  OBVIOUS
<1>3. h \subseteq Parts
  BY <1>2 DEF D!Held
<1>4. PICK c \in Suggestions : c.saw = suggests[i].saw /\ suggests' = [suggests EXCEPT ![i] = c]
  <2>1. CASE D!suggestWord(i)
    <3>1. PICK c : c = [suggests[i] EXCEPT !.at = "answered", !.held = h]
      OBVIOUS
    <3>2. c \in Suggestions /\ c.saw = suggests[i].saw
      BY <1>1, <1>3, <3>1 DEF Suggestions
    <3>3. suggests' = [suggests EXCEPT ![i] = c]
      BY <1>1, <1>2, <2>1, <3>1 DEF D!suggestWord, Suggestions
    <3> QED
      BY <3>2, <3>3
  <2>2. CASE D!SuggestFails(i)
    <3>1. PICK c : c = [suggests[i] EXCEPT !.at = "done"]
      OBVIOUS
    <3>2. c \in Suggestions /\ c.saw = suggests[i].saw
      BY <1>1, <3>1 DEF Suggestions
    <3>3. suggests' = [suggests EXCEPT ![i] = c]
      BY <1>1, <2>2, <3>1 DEF D!SuggestFails, D!Done
    <3> QED
      BY <3>2, <3>3
  <2> QED
    BY <2>1, <2>2
<1>5. suggests' \in Seq(Suggestions) /\ LastIsTold(suggests)'
  BY <1>1, <1>4, OneCallTells
<1>6. suggests # <<>>
  OBVIOUS
<1> QED
  BY <1>1, <1>5, <1>6 DEF DialogInv, DialogTypes, Spared, D!WrittenOver

\* The answer of the last call spares what was touched; one of an older call is excused.
LEMMA AnswerSpares ==
    ASSUME DialogInv, NEW i \in DOMAIN suggests, D!Suggested(i)
    PROVE  DialogInv' /\ Spared
<1>1. /\ suggests \in Seq(Suggestions) /\ LastIsTold(suggests) /\ suggests[i] \in Suggestions
      /\ form \in Filled /\ Owned(form)
  <2>1. suggests # <<>>
    OBVIOUS
  <2> QED
    BY <2>1, ElementOfSeq DEF DialogInv, DialogTypes
<1>2. PICK c : c = [suggests[i] EXCEPT !.at = "done"]
  OBVIOUS
<1>3. c \in Suggestions /\ c.saw = suggests[i].saw /\ c.at = "done"
  BY <1>1, <1>2 DEF Suggestions
<1>4. suggests' = [suggests EXCEPT ![i] = c] /\ suggests[i].at = "answered"
  BY <1>2 DEF D!Suggested, D!Done
<1>5. suggests' \in Seq(Suggestions) /\ LastIsTold(suggests)' /\ suggests'[i] = c
  BY <1>1, <1>3, <1>4, OneCallTells
<1>6. CASE UNCHANGED form
  BY <1>1, <1>5, <1>6 DEF DialogInv, DialogTypes, Spared, D!WrittenOver
<1>7. CASE ~UNCHANGED form
  <2>1. PICK has \in SUBSET D!FillFields, p \in Parts \union {form.pos} :
            form' = [form EXCEPT !.pos = p,
                           !.wrote = [x \in D!FillFields |->
                              IF x \in has \ D!Seen(i).touched THEN suggests[i].term ELSE form.wrote[x]]]
    BY <1>7 DEF D!Suggested
  <2>2. p \in Parts /\ suggests[i].term \in Terms
    BY <1>1, <2>1 DEF Filled, Suggestions
  <2>3. PICK w : w = [x \in D!FillFields |->
                        IF x \in has \ D!Seen(i).touched THEN suggests[i].term ELSE form.wrote[x]]
    OBVIOUS
  <2>4. w \in [D!FillFields -> Typed \union {"owner"}]
    BY <1>1, <2>2, <2>3 DEF Filled, Typed
  <2>5. PICK f : f = [form EXCEPT !.pos = p, !.wrote = w]
    OBVIOUS
  <2>6. f \in Filled /\ f.wrote = w /\ f.touched = form.touched /\ form' = f
    BY <1>1, <2>1, <2>2, <2>3, <2>4, <2>5 DEF Filled
  <2>7. Owned(f)
    <3>1. suggests[i].term # "owner"
      BY <2>2, PagesAssumption
    <3> QED
      BY <1>1, <2>3, <2>6, <3>1 DEF Owned
  <2>8. ASSUME D!WrittenOver PROVE D!TakesOlder
    <3>1. i # Len(suggests)
      <4> SUFFICES ASSUME i = Len(suggests) PROVE FALSE
        OBVIOUS
      <4>1. suggests[i].saw = Nothing
        BY <1>1 DEF LastIsTold
      <4>2. D!Seen(i).touched = form.touched
        BY <4>1 DEF D!Seen
      <4>3. PICK x \in D!FillFields : form.wrote[x] = "owner" /\ w[x] # "owner"
        BY <2>6, <2>8 DEF D!WrittenOver
      <4> QED
        BY <1>1, <2>3, <4>2, <4>3 DEF Owned
    <3>2. i < Len(suggests)
      BY <1>1, <3>1, LenProperties
    <3>3. suggests'[i] # suggests[i]
      BY <1>3, <1>4, <1>5
    <3> QED
      BY <3>2, <3>3 DEF D!TakesOlder
  <2> QED
    BY <1>5, <2>6, <2>7, <2>8 DEF DialogInv, DialogTypes, Spared
<1> QED
  BY <1>6, <1>7

LEMMA DialogStart == Init => DialogInv
  BY DEF Init, D!DialogInit, DialogInv, DialogTypes, LastIsTold

\* The form opens blank, and what closes it forgets its calls.
LEMMA OpeningSpares ==
    ASSUME DialogInv, D!OpenForm \/ D!CloseForm \/ D!Saved \/ D!Reload
    PROVE  DialogInv' /\ Spared
<1> USE DEF DialogInv
<1>1. CASE D!OpenForm
  <2>1. PICK f : f = D!Blank
    OBVIOUS
  <2>2. f \in Filled
    <3>1. FirstPart \in Parts
      BY PagesAssumption
    <3> QED
      BY <2>1, <3>1 DEF D!Blank, D!NoPause, Filled, Typed
  <2>3. Owned(f)
    <3>1. "owner" # Nothing
      BY PagesAssumption
    <3> QED
      BY <2>1, <3>1 DEF D!Blank, Owned
  <2>4. form' = f /\ form = Nothing /\ UNCHANGED suggests
    BY <1>1, <2>1 DEF D!OpenForm, D!Change
  <2> QED
    BY <2>2, <2>3, <2>4 DEF DialogTypes, Spared, D!WrittenOver
<1>2. CASE form' = Nothing /\ suggests' = <<>>
  BY <1>2 DEF DialogTypes, LastIsTold, Spared, D!WrittenOver
<1>3. CASE UNCHANGED <<form, suggests>>
  BY <1>3 DEF DialogTypes, Spared, D!WrittenOver
<1>4. CASE D!Saved /\ form # Nothing /\ form' = [form EXCEPT !.look = "asked"] /\ UNCHANGED suggests
  <2>1. PICK f : f = [form EXCEPT !.look = "asked"]
    OBVIOUS
  <2>2. f \in Filled /\ f.wrote = form.wrote /\ f.touched = form.touched
    BY <1>4, <2>1 DEF Filled
  <2>3. form' \in Filled /\ Owned(form') /\ ~D!WrittenOver
    BY <1>4, <2>1, <2>2, ChangeSpares
  <2> QED
    BY <1>4, <2>3 DEF DialogTypes, Spared
<1> QED
  BY <1>1, <1>2, <1>3, <1>4 DEF D!CloseForm, D!Change, D!Saved, D!Reload

LEMMA DialogStep ==
    ASSUME DialogInv, [Next]_pageVars
    PROVE  DialogInv' /\ Spared
<1>1. CASE UNCHANGED <<form, suggests>>
  BY <1>1 DEF DialogInv, DialogTypes, Spared, D!WrittenOver
<1>2. CASE D!Pause
  <2>1. form # Nothing /\ form \in Filled
    BY <1>2 DEF D!Pause, DialogInv
  <2>2. PICK f : f = [form EXCEPT !.pause = D!NoPause]
    OBVIOUS
  <2>3. f \in Filled /\ f.wrote = form.wrote /\ form.touched \subseteq f.touched
    BY <2>1, <2>2 DEF Filled, D!NoPause, Typed
  <2>4. \E u, t : D!askAI(f, u, t)
    BY <1>2, <2>2 DEF D!Pause
  <2> QED
    BY <2>1, <2>3, <2>4, AskingSpares
<1>3. CASE D!Blur
  <2>1. form # Nothing /\ form \in Filled
    BY <1>3 DEF D!Blur, DialogInv
  <2>2. \E u, t : D!askAI(form, u, t)
    BY <1>3 DEF D!Blur
  <2> QED
    BY <2>1, <2>2, AskingSpares
<1>4. CASE \/ \E t \in Typed : D!TypeTerm(t)
           \/ \E x \in D!FillFields : D!own(x)
           \/ D!Lookup \/ D!existingWord \/ D!LookupFails \/ D!LookAgain
  BY <1>4, TypingSpares
<1>5. ASSUME NEW i \in DOMAIN suggests, D!suggestWord(i) \/ D!SuggestFails(i) \/ D!Suggested(i)
      PROVE  DialogInv' /\ Spared
  BY <1>5, CallsSpare, AnswerSpares
<1>6. CASE D!OpenForm \/ D!CloseForm \/ D!Saved \/ D!Reload
  BY <1>6, OpeningSpares
<1>7. CASE D!Save \/ D!createWord \/ D!SaveFails \/ \E e \in D!Entries : D!deleteWord(e) \/ D!storeGeneratedWord(e)
  <2>1. UNCHANGED <<form, suggests>>
    BY <1>7 DEF D!Save, D!createWord, D!SaveFails, D!deleteWord, D!storeGeneratedWord
  <2> QED
    BY <1>1, <2>1
<1> QED
  BY <1>1, <1>2, <1>3, <1>4, <1>5, <1>6, <1>7, PageSteps DEF D!DialogNext, dialog, Typed

(* An answer of the model spares the fields that the owner has typed into, *)
(* however long it is on its way and whatever is typed, looked up or lost  *)
(* meanwhile, unless a newer call was made before it came.                 *)
THEOREM OwnersAreSpared == Spec => OwnFieldsSpared
<1>1. Init => DialogInv
  BY DialogStart
<1>2. DialogInv /\ [Next]_pageVars => DialogInv' /\ Spared
  BY DialogStep
<1>3. Spared => [D!WrittenOver => D!TakesOlder]_(D!dialog)
  BY DEF Spared
<1> QED
  BY <1>1, <1>2, <1>3, PTL DEF Spec, OwnFieldsSpared, D!OwnFieldsSpared

-----------------------------------------------------------------------------
(* The page on which a grammar topic is written.                           *)

\* A version, whatever its rows are.
Versions(Lines) == [rows : Lines, source : {"ai", "curated"}, status : {"draft", "published", "archived"}]

Saves(Lines, C) == [at : {"idle", "sent", "stored", "answered"}, rows : Lines, test : BOOLEAN, heard : BOOLEAN,
                answer : C]

BuilderTypes ==
    /\ \E Lines : versions \in Seq(Versions(Lines))
    /\ \E Lines, C : save \in Saves(Lines, C)
    /\ start \in [at : {"idle", "sent", "accepted", "refused"}, overwrite : BOOLEAN]
    /\ job \in [at : {"none", "running", "stored", "succeeded", "failed", "stuck"}, overwrite : BOOLEAN]
    /\ tab \in {"editor", "test"}

\* What the model wrote is not by hand.
ByTheModel(vs) == \A v \in DOMAIN vs : vs[v].source = "ai" => ~B!ByHand(vs[v].rows)

\* While a text is being written there is no editor, and one is written at a time.
Hidden ==
    /\ B!Writing(start, active) => editor = Nothing
    /\ active => start.at = "idle"

(* Of the page that wrote a job nothing is saved but tests until the job   *)
(* is over, so that the newest version is still not by hand when it ends,  *)
(* unless the owner said that it may be replaced.                          *)
Guarded ==
    /\ ~unguarded /\ (start.at = "sent" \/ job.at = "running") => save.at = "idle" \/ save.test
    /\ ~unguarded /\ job.at = "running" =>
           /\ start.at = "accepted" \/ active
           /\ job.overwrite \/ versions = <<>> \/ ~B!ByHand(versions[Len(versions)].rows)

BuilderInv == BuilderTypes /\ ByTheModel(versions) /\ Hidden /\ Guarded

\* A step that stores a text of the model over what is by hand was allowed to.
Asked ==
    (versions # <<>> /\ Len(versions') > Len(versions) /\ B!Last(versions').source = "ai")
        => ~B!ByHand(B!Newest.rows) \/ job.overwrite \/ unguarded

LEMMA BuilderStart == Init => BuilderInv
<1> SUFFICES ASSUME Init PROVE BuilderInv
  OBVIOUS
<1>1. B!BuilderInit
  BY DEF Init
<1>2. save = B!Idle /\ start = B!NoStart /\ job = B!NoJob /\ tab = "editor" /\ ~active
  BY <1>1 DEF B!BuilderInit
<1>3. save \in Saves({<<>>}, {Nothing})
  BY <1>2 DEF B!Idle, Saves
<1>4. /\ start \in [at : {"idle", "sent", "accepted", "refused"}, overwrite : BOOLEAN] /\ start.at = "idle"
      /\ job \in [at : {"none", "running", "stored", "succeeded", "failed", "stuck"}, overwrite : BOOLEAN]
      /\ job.at = "none"
  BY <1>2 DEF B!NoStart, B!NoJob
<1>5. ~B!ByHand(B!Drafted)
  BY PagesAssumption DEF B!ByHand, B!Drafted, B!Row
<1>6. versions \in Seq(Versions({B!Drafted})) /\ ByTheModel(versions)
  <2>1. CASE versions = <<>>
    BY <2>1 DEF ByTheModel
  <2>2. ASSUME NEW s \in {"draft", "published"},
               versions = <<[rows |-> B!Drafted, source |-> "ai", status |-> s]>>
        PROVE  versions \in Seq(Versions({B!Drafted})) /\ ByTheModel(versions)
    <3>1. PICK v : v = [rows |-> B!Drafted, source |-> "ai", status |-> s]
      OBVIOUS
    <3>2. v \in Versions({B!Drafted}) /\ v.rows = B!Drafted
      BY <3>1 DEF Versions
    <3>3. versions = <<v>>
      BY <2>2, <3>1
    <3> QED
      BY <3>2, <3>3, <1>5 DEF ByTheModel
  <2> QED
    BY <1>1, <2>1, <2>2 DEF B!BuilderInit
<1> QED
  BY <1>2, <1>3, <1>4, <1>6 DEF BuilderInv, BuilderTypes, Hidden, Guarded, B!Writing

\* A version more.
LEMMA VersionMore ==
    ASSUME NEW Lines, versions \in Seq(Versions(Lines)), ByTheModel(versions), NEW rs, NEW by \in {"ai", "curated"},
           by = "ai" => ~B!ByHand(rs),
           versions' = Append(versions, [rows |-> rs, source |-> by, status |-> "draft"])
    PROVE  /\ \E Others : versions' \in Seq(Versions(Others))
           /\ ByTheModel(versions') /\ versions' # <<>> /\ Len(versions') = Len(versions) + 1
           /\ versions'[Len(versions')].rows = rs /\ B!Last(versions').source = by
<1>1. PICK v : v = [rows |-> rs, source |-> by, status |-> "draft"]
  OBVIOUS
<1>2. v \in Versions(Lines \union {rs}) /\ v.rows = rs /\ v.source = by
  BY <1>1 DEF Versions
<1>3. versions \in Seq(Versions(Lines \union {rs}))
  <2>1. Versions(Lines) \subseteq Versions(Lines \union {rs})
    BY DEF Versions
  <2> QED
    BY <2>1, SeqMonotonic
<1>4. PICK vs : vs = Append(versions, v)
  OBVIOUS
<1>5. /\ vs \in Seq(Versions(Lines \union {rs})) /\ Len(vs) = Len(versions) + 1
      /\ \A i \in 1..Len(versions) : vs[i] = versions[i]
      /\ vs[Len(versions) + 1] = v
  BY <1>2, <1>3, <1>4, AppendProperties
<1>6. Len(versions) \in Nat /\ DOMAIN versions = 1..Len(versions) /\ DOMAIN vs = 1..Len(vs)
  BY <1>3, <1>5, LenProperties
<1>7. ByTheModel(vs)
  <2> SUFFICES ASSUME NEW i \in 1..Len(vs), vs[i].source = "ai" PROVE ~B!ByHand(vs[i].rows)
    BY <1>6 DEF ByTheModel
  <2>1. CASE i \in 1..Len(versions)
    BY <2>1, <1>5, <1>6 DEF ByTheModel
  <2>2. CASE i = Len(versions) + 1
    BY <2>2, <1>2, <1>5
  <2> QED
    BY <2>1, <2>2, <1>5, <1>6
<1>8. vs # <<>> /\ vs[Len(vs)].rows = rs /\ B!Last(vs).source = by
  BY <1>2, <1>5, <1>6 DEF B!Last
<1>9. versions' = vs
  BY <1>1, <1>4
<1> QED
  BY <1>5, <1>7, <1>8, <1>9

\* Publishing changes which version is the published one, and nothing else of any.
LEMMA PublishKeeps ==
    ASSUME NEW Lines, versions \in Seq(Versions(Lines)), NEW vs, vs = B!publishLanguage(versions)
    PROVE  /\ vs \in Seq(Versions(Lines)) /\ Len(vs) = Len(versions)
           /\ \A v \in DOMAIN vs : vs[v].rows = versions[v].rows /\ vs[v].source = versions[v].source
<1>1. CASE B!Drafts(versions) = {}
  BY <1>1 DEF B!publishLanguage
<1>2. CASE B!Drafts(versions) # {}
  <2> DEFINE d == CHOOSE v \in B!Drafts(versions) : \A w \in B!Drafts(versions) : w <= v
  <2>1. vs = [v \in DOMAIN versions |-> [versions[v] EXCEPT !.status =
                CASE v = d -> "published"
                  [] @ = "published" \/ (@ = "draft" /\ v < d) -> "archived"
                  [] OTHER -> @]]
    BY <1>2 DEF B!publishLanguage
  <2> HIDE DEF d
  <2>2. Len(versions) \in Nat /\ DOMAIN versions = 1..Len(versions)
        /\ \A v \in 1..Len(versions) : versions[v] \in Versions(Lines)
    BY LenProperties, ElementOfSeq
  <2>3. ASSUME NEW v \in 1..Len(versions)
        PROVE  vs[v] \in Versions(Lines) /\ vs[v].rows = versions[v].rows /\ vs[v].source = versions[v].source
    <3>1. PICK w : w = versions[v]
      OBVIOUS
    <3>2. PICK s : s = CASE v = d -> "published"
                         [] w.status = "published" \/ (w.status = "draft" /\ v < d) -> "archived"
                         [] OTHER -> w.status
      OBVIOUS
    <3>3. w \in Versions(Lines) /\ s \in {"draft", "published", "archived"}
      BY <2>2, <3>1, <3>2 DEF Versions
    <3>4. vs[v] = [w EXCEPT !.status = s]
      BY <2>1, <2>2, <3>1, <3>2
    <3>5. PICK u : u = [w EXCEPT !.status = s]
      OBVIOUS
    <3>6. u \in Versions(Lines) /\ u.rows = w.rows /\ u.source = w.source
      BY <3>3, <3>5 DEF Versions
    <3> QED
      BY <3>1, <3>4, <3>5, <3>6
  <2>4. vs = [v \in 1..Len(versions) |-> vs[v]]
    BY <2>1, <2>2
  <2>5. vs \in [1..Len(versions) -> Versions(Lines)]
    BY <2>3, <2>4
  <2>6. vs \in Seq(Versions(Lines))
    BY <2>2, <2>5, SeqDef
  <2>7. Len(vs) = Len(versions)
    BY <2>2, <2>5, <2>6, LenProperties
  <2> QED
    BY <2>2, <2>3, <2>4, <2>6, <2>7
<1> QED
  BY <1>1, <1>2

\* A step that only changes what is on the screen.
LEMMA ScreenStep ==
    ASSUME BuilderInv, UNCHANGED <<versions, job, save, start, active, unguarded>>,
           tab' \in {"editor", "test"}, B!Writing(start, active) => editor' = Nothing
    PROVE  BuilderInv' /\ Asked
<1>1. Len(versions) \in Nat
  BY LenProperties DEF BuilderInv, BuilderTypes
<1>2. Asked
  BY <1>1 DEF Asked
<1> QED
  BY <1>2 DEF BuilderInv, BuilderTypes, ByTheModel, Hidden, Guarded, B!Writing, B!ByHand

\* A draft is saved.
LEMMA SavingGuards ==
    ASSUME BuilderInv, B!persist \/ B!saveGrammarLevel \/ B!SaveAnswers \/ B!Saved \/ B!SaveFails
    PROVE  BuilderInv' /\ Asked
<1>0. PICK Lines, Others, C : versions \in Seq(Versions(Lines)) /\ save \in Saves(Others, C)
  BY DEF BuilderInv, BuilderTypes
<1>1. Len(versions) \in Nat /\ DOMAIN versions = 1..Len(versions)
  BY <1>0, LenProperties
<1>2. CASE B!persist
  <2>1. PICK s : s = [at |-> "sent", rows |-> IF tab = "test" THEN <<>> ELSE editor.rows,
                      test |-> tab = "test", heard |-> TRUE, answer |-> Nothing]
    OBVIOUS
  <2>2. s \in Saves({s.rows}, {Nothing}) /\ s.at = "sent" /\ (s.test <=> tab = "test")
    BY <2>1 DEF Saves
  <2>3. save' = s /\ UNCHANGED <<versions, job, start, active, tab, editor, unguarded>>
    BY <1>2, <2>1 DEF B!persist, B!server
  <2>4. B!Writing(start, active) => s.test
    BY <1>2, <2>2 DEF B!persist, BuilderInv, BuilderTypes, Hidden
  <2>5. Guarded'
    BY <2>3, <2>4 DEF BuilderInv, Guarded, B!Writing, B!ByHand
  <2>6. BuilderTypes' /\ Asked
    BY <1>1, <2>2, <2>3 DEF BuilderInv, BuilderTypes, Asked
  <2> QED
    BY <2>3, <2>5, <2>6 DEF BuilderInv, ByTheModel, Hidden, B!Writing, B!ByHand
<1>3. CASE B!saveGrammarLevel
  <2>1. PICK rs : rs = IF save.test THEN B!Loaded.rows ELSE save.rows
    OBVIOUS
  <2>2. PICK s : s = [save EXCEPT !.at = "stored"]
    OBVIOUS
  <2>3. s \in Saves(Others, C) /\ s.at = "stored" /\ s.test = save.test
    BY <1>0, <2>2 DEF Saves
  <2>4. /\ save.at = "sent" /\ save' = s
        /\ UNCHANGED <<job, start, active, tab, editor, unguarded>>
        /\ versions' = Append(versions, [rows |-> rs, source |-> "curated", status |-> "draft"])
    BY <1>3, <2>1, <2>2 DEF B!saveGrammarLevel
  <2>5. /\ \E M : versions' \in Seq(Versions(M))
        /\ ByTheModel(versions') /\ versions' # <<>> /\ Len(versions') = Len(versions) + 1
        /\ versions'[Len(versions')].rows = rs /\ B!Last(versions').source = "curated"
    BY <1>0, <2>4, VersionMore DEF BuilderInv
  <2>6. save.test => rs = IF versions = <<>> THEN <<>> ELSE versions[Len(versions)].rows
    BY <2>1 DEF B!Loaded, B!Newest, B!Last
  <2>7. ASSUME ~unguarded, job.at = "running", ~job.overwrite PROVE ~B!ByHand(rs)
    <3>1. save.test /\ (versions = <<>> \/ ~B!ByHand(versions[Len(versions)].rows))
      BY <2>4, <2>7 DEF BuilderInv, Guarded
    <3>2. ~B!ByHand(<<>>)
      BY DEF B!ByHand
    <3> QED
      BY <2>6, <3>1, <3>2
  <2>8. Guarded'
    BY <2>3, <2>4, <2>5, <2>7 DEF BuilderInv, Guarded
  <2>9. BuilderTypes' /\ Asked
    BY <2>3, <2>4, <2>5 DEF BuilderInv, BuilderTypes, Asked
  <2> QED
    BY <2>4, <2>5, <2>8, <2>9 DEF BuilderInv, Hidden, B!Writing
<1>4. CASE B!SaveAnswers
  <2>1. PICK s : s = [save EXCEPT !.at = "answered", !.answer = B!Loaded]
    OBVIOUS
  <2>2. s \in Saves(Others, {B!Loaded}) /\ s.test = save.test
    BY <1>0, <2>1 DEF Saves
  <2>3. save' = s /\ save.at = "stored" /\ UNCHANGED <<versions, job, start, active, tab, editor, unguarded>>
    BY <1>4, <2>1 DEF B!SaveAnswers, B!server
  <2>4. Guarded'
    BY <2>2, <2>3 DEF BuilderInv, Guarded, B!ByHand
  <2>5. BuilderTypes' /\ Asked
    BY <1>1, <2>2, <2>3 DEF BuilderInv, BuilderTypes, Asked
  <2> QED
    BY <2>3, <2>4, <2>5 DEF BuilderInv, ByTheModel, Hidden, B!Writing, B!ByHand
<1>5. CASE B!Saved \/ B!SaveFails
  <2>1. save' = B!Idle /\ UNCHANGED <<versions, job, start, active, tab, unguarded>>
    BY <1>5 DEF B!Saved, B!SaveFails, B!server
  <2>2. save' \in Saves({<<>>}, {Nothing}) /\ save'.at = "idle"
    BY <2>1 DEF B!Idle, Saves
  <2>3. B!Writing(start, active) => editor' = Nothing
    BY <1>5 DEF B!Saved, B!SaveFails, B!Shown, BuilderInv, Hidden
  <2>4. BuilderTypes' /\ Asked
    BY <1>1, <2>1, <2>2 DEF BuilderInv, BuilderTypes, Asked
  <2> QED
    BY <2>1, <2>2, <2>3, <2>4 DEF BuilderInv, ByTheModel, Hidden, Guarded, B!Writing, B!ByHand
<1> QED
  BY <1>2, <1>3, <1>4, <1>5

\* A generation is asked for, and queued or refused.
LEMMA StartingGuards ==
    ASSUME BuilderInv, \/ \E o \in BOOLEAN : B!runGenerate(o)
                       \/ B!generateGrammarContent \/ B!Started \/ B!StartFails
    PROVE  BuilderInv' /\ Asked
<1>0. PICK Lines : versions \in Seq(Versions(Lines))
  BY DEF BuilderInv, BuilderTypes
<1>1. Len(versions) \in Nat /\ DOMAIN versions = 1..Len(versions)
  BY <1>0, LenProperties
<1>2. UNCHANGED <<versions, save, tab>> /\ Asked
  BY <1>1 DEF B!runGenerate, B!generateGrammarContent, B!Started, B!StartFails, B!server, Asked
<1>3. (B!Writing(start, active) => editor = Nothing) /\ (active => start.at = "idle")
      /\ (start.at = "idle" \/ start.at = "sent" \/ start.at = "accepted" \/ start.at = "refused")
  BY DEF BuilderInv, BuilderTypes, Hidden
<1>4. ASSUME NEW o \in BOOLEAN, B!runGenerate(o) PROVE BuilderInv'
  <2>1. PICK s : s = [at |-> "sent", overwrite |-> o]
    OBVIOUS
  <2>2. s \in [at : {"idle", "sent", "accepted", "refused"}, overwrite : BOOLEAN] /\ s.at = "sent"
    BY <2>1
  <2>3. /\ start' = s /\ ~active /\ job.at # "running" /\ unguarded' = (save.at # "idle")
        /\ UNCHANGED <<job, active>>
    BY <1>4, <2>1 DEF B!runGenerate, B!server, B!Writing
  <2>4. editor' = Nothing
    BY <1>4, <2>2, <2>3 DEF B!runGenerate, B!Shown, B!Writing
  <2>5. Guarded' /\ Hidden'
    BY <1>2, <2>2, <2>3, <2>4 DEF Guarded, Hidden
  <2>6. BuilderTypes'
    BY <1>2, <2>2, <2>3 DEF BuilderInv, BuilderTypes
  <2> QED
    BY <1>2, <2>5, <2>6 DEF BuilderInv, ByTheModel, B!ByHand
<1>5. CASE B!generateGrammarContent
  <2>1. start.at = "sent" /\ ~active /\ editor = Nothing /\ UNCHANGED <<active, editor, unguarded>>
    BY <1>3, <1>5 DEF B!generateGrammarContent, B!Writing
  <2>2. PICK s : s = [start EXCEPT !.at = "accepted"]
    OBVIOUS
  <2>3. PICK r : r = [start EXCEPT !.at = "refused"]
    OBVIOUS
  <2>4. PICK j : j = [at |-> "running", overwrite |-> start.overwrite]
    OBVIOUS
  <2>5. /\ s \in [at : {"idle", "sent", "accepted", "refused"}, overwrite : BOOLEAN] /\ s.at = "accepted"
        /\ r \in [at : {"idle", "sent", "accepted", "refused"}, overwrite : BOOLEAN] /\ r.at = "refused"
        /\ j \in [at : {"none", "running", "stored", "succeeded", "failed", "stuck"}, overwrite : BOOLEAN]
        /\ j.at = "running" /\ j.overwrite = start.overwrite
    BY <2>2, <2>3, <2>4 DEF BuilderInv, BuilderTypes
  <2>6. CASE start' = r /\ UNCHANGED job
    <3>1. Guarded' /\ Hidden'
      BY <1>2, <2>1, <2>5, <2>6 DEF BuilderInv, Guarded, Hidden, B!Writing, B!ByHand
    <3>2. BuilderTypes'
      BY <1>2, <2>5, <2>6 DEF BuilderInv, BuilderTypes
    <3> QED
      BY <1>2, <3>1, <3>2 DEF BuilderInv, ByTheModel, B!ByHand
  <2>7. CASE start' = s /\ job' = j /\ (B!Loaded.source = "curated" => start.overwrite)
    <3>1. start.overwrite \/ versions = <<>> \/ ~B!ByHand(versions[Len(versions)].rows)
      <4> SUFFICES ASSUME ~start.overwrite, versions # <<>>
                   PROVE  ~B!ByHand(versions[Len(versions)].rows)
        OBVIOUS
      <4>1. Len(versions) \in DOMAIN versions
        BY <1>0, <1>1, EmptySeq
      <4>2. versions[Len(versions)].source # "curated"
        BY <2>7 DEF B!Loaded, B!Newest, B!Last
      <4>3. versions[Len(versions)] \in Versions(Lines)
        BY <1>0, <1>1, <4>1, ElementOfSeq
      <4> QED
        BY <4>1, <4>2, <4>3 DEF BuilderInv, ByTheModel, Versions
    <3>2. Guarded' /\ Hidden'
      BY <1>2, <2>1, <2>5, <2>7, <3>1 DEF BuilderInv, Guarded, Hidden, B!Writing, B!ByHand
    <3>3. BuilderTypes'
      BY <1>2, <2>5, <2>7 DEF BuilderInv, BuilderTypes
    <3> QED
      BY <1>2, <3>2, <3>3 DEF BuilderInv, ByTheModel, B!ByHand
  <2> QED
    BY <1>5, <2>2, <2>3, <2>4, <2>6, <2>7 DEF B!generateGrammarContent
<1>6. CASE B!Started \/ B!StartFails
  <2>1. PICK s : s = B!NoStart
    OBVIOUS
  <2>2. s \in [at : {"idle", "sent", "accepted", "refused"}, overwrite : BOOLEAN] /\ s.at = "idle"
    BY <2>1 DEF B!NoStart
  <2>3. start' = s /\ UNCHANGED job
    BY <1>6, <2>1 DEF B!Started, B!StartFails, B!server
  <2>4. Hidden'
    BY <1>6, <2>2, <2>3 DEF B!Started, B!StartFails, B!Shown, B!Writing, Hidden
  <2>5. ASSUME B!Started PROVE Guarded'
    <3>1. start.at \in {"accepted", "refused"} /\ UNCHANGED unguarded
          /\ (start.at = "accepted" => active')
      BY <2>5 DEF B!Started
    <3>2. ASSUME ~unguarded, job.at = "running" PROVE active'
      BY <1>3, <3>1, <3>2 DEF BuilderInv, Guarded
    <3> QED
      BY <1>2, <2>2, <2>3, <3>1, <3>2 DEF BuilderInv, Guarded, B!ByHand
  <2>6. ASSUME B!StartFails PROVE Guarded'
    BY <2>6 DEF B!StartFails, Guarded
  <2>7. BuilderTypes'
    BY <1>2, <2>2, <2>3 DEF BuilderInv, BuilderTypes
  <2> QED
    BY <1>2, <1>6, <2>4, <2>5, <2>6, <2>7 DEF BuilderInv, ByTheModel, B!ByHand
<1> QED
  BY <1>2, <1>4, <1>5, <1>6

\* A worker writes the text, and the page waits for it.
LEMMA WorkingGuards ==
    ASSUME BuilderInv, B!storeGenerated \/ B!Finish \/ B!GenerationFails
    PROVE  BuilderInv' /\ Asked
<1>0. PICK Lines : versions \in Seq(Versions(Lines))
  BY DEF BuilderInv, BuilderTypes
<1>1. Len(versions) \in Nat /\ DOMAIN versions = 1..Len(versions)
  BY <1>0, LenProperties
<1>2. ASSUME NEW from, NEW to \in {"stored", "succeeded", "failed", "stuck"}, B!Work(from, to)
      PROVE  /\ Guarded' /\ Hidden' /\ job.at = from
             /\ job' \in [at : {"none", "running", "stored", "succeeded", "failed", "stuck"}, overwrite : BOOLEAN]
             /\ UNCHANGED <<save, start, tab>>
  <2>1. PICK j : j = [job EXCEPT !.at = to]
    OBVIOUS
  <2>2. j \in [at : {"none", "running", "stored", "succeeded", "failed", "stuck"}, overwrite : BOOLEAN]
        /\ j.at = to
    BY <2>1 DEF BuilderInv, BuilderTypes
  <2>3. job.at = from /\ job' = j /\ UNCHANGED <<save, start, tab, active, editor, unguarded>>
    BY <1>2, <2>1 DEF B!Work
  <2>4. Guarded'
    BY <2>2, <2>3 DEF BuilderInv, Guarded
  <2> QED
    BY <2>2, <2>3, <2>4 DEF BuilderInv, Hidden, B!Writing
<1>3. CASE B!storeGenerated
  <2>1. /\ Guarded' /\ Hidden' /\ job.at = "running"
        /\ job' \in [at : {"none", "running", "stored", "succeeded", "failed", "stuck"}, overwrite : BOOLEAN]
        /\ UNCHANGED <<save, start, tab>>
    BY <1>2, <1>3 DEF B!storeGenerated
  <2>2. versions' = Append(versions, [rows |-> B!Drafted, source |-> "ai", status |-> "draft"])
    BY <1>3 DEF B!storeGenerated
  <2>3. ~B!ByHand(B!Drafted)
    BY PagesAssumption DEF B!ByHand, B!Drafted, B!Row
  <2>4. /\ \E M : versions' \in Seq(Versions(M))
        /\ ByTheModel(versions')
    BY <1>0, <2>2, <2>3, VersionMore DEF BuilderInv
  <2>5. ~unguarded => job.overwrite \/ versions = <<>> \/ ~B!ByHand(versions[Len(versions)].rows)
    BY <2>1 DEF BuilderInv, Guarded
  <2>6. Asked
    BY <2>5 DEF Asked, B!Newest, B!Last
  <2> QED
    BY <2>1, <2>4, <2>6 DEF BuilderInv, BuilderTypes
<1>4. CASE B!Finish \/ B!GenerationFails
  <2>1. UNCHANGED versions /\ Guarded' /\ Hidden' /\ UNCHANGED <<save, start, tab>>
        /\ job' \in [at : {"none", "running", "stored", "succeeded", "failed", "stuck"}, overwrite : BOOLEAN]
    BY <1>2, <1>4 DEF B!Finish, B!GenerationFails
  <2> QED
    BY <1>1, <2>1 DEF BuilderInv, BuilderTypes, Asked, ByTheModel, B!ByHand
<1> QED
  BY <1>3, <1>4

\* The page stops waiting for a job, or is loaded again.
LEMMA WaitingGuards ==
    ASSUME BuilderInv, B!Poll \/ B!PollFails \/ B!GiveUp \/ B!Reload
    PROVE  BuilderInv' /\ Asked
<1>1. Len(versions) \in Nat
  BY LenProperties DEF BuilderInv, BuilderTypes
<1>2. CASE B!Poll \/ B!PollFails \/ B!GiveUp
  <2>1. UNCHANGED <<versions, job, save, start, tab>> /\ active' = FALSE
    BY <1>2 DEF B!Poll, B!PollFails, B!GiveUp, B!EndWaiting, B!server
  <2>2. Hidden'
    BY <1>2, <2>1 DEF B!Poll, B!PollFails, B!GiveUp, B!EndWaiting, B!Shown, B!Writing, Hidden
  <2>3. unguarded' = TRUE \/ (job.at # "running" /\ active /\ UNCHANGED unguarded)
    BY <1>2 DEF B!Poll, B!PollFails, B!GiveUp, B!EndWaiting
  <2>4. start.at # "sent" \/ unguarded' = TRUE
    BY <2>3 DEF BuilderInv, Hidden
  <2>5. Guarded'
    BY <2>1, <2>3, <2>4 DEF Guarded
  <2> QED
    BY <1>1, <2>1, <2>2, <2>5 DEF BuilderInv, BuilderTypes, ByTheModel, Asked
<1>3. CASE B!Reload
  <2>0. PICK Others, C : save \in Saves(Others, C)
    BY DEF BuilderInv, BuilderTypes
  <2>1. PICK s : s = [save EXCEPT !.heard = FALSE]
    OBVIOUS
  <2>2. s \in Saves(Others, C) /\ s.at = save.at /\ s.test = save.test
    BY <2>0, <2>1 DEF Saves
  <2>3. PICK n : n = B!NoStart
    OBVIOUS
  <2>4. n \in [at : {"idle", "sent", "accepted", "refused"}, overwrite : BOOLEAN] /\ n.at = "idle"
    BY <2>3 DEF B!NoStart
  <2>5. UNCHANGED <<versions, job, active>> /\ save' = s /\ start' = n /\ tab' = "editor"
        /\ unguarded' = (unguarded \/ start.at # "idle") /\ (active => editor' = Nothing)
    BY <1>3, <2>1, <2>3 DEF B!Reload, B!server
  <2>6. Guarded' /\ Hidden'
    BY <2>2, <2>4, <2>5 DEF BuilderInv, Guarded, Hidden, B!Writing
  <2>7. BuilderTypes'
    BY <2>2, <2>4, <2>5 DEF BuilderInv, BuilderTypes
  <2> QED
    BY <1>1, <2>5, <2>6, <2>7 DEF BuilderInv, ByTheModel, Asked
<1> QED
  BY <1>2, <1>3

\* A text goes live, or all of a language is deleted.
LEMMA ReleasingGuards ==
    ASSUME BuilderInv, B!publishGrammarContent \/ B!deleteGrammarContent
    PROVE  BuilderInv' /\ Asked
<1>0. PICK Lines : versions \in Seq(Versions(Lines))
  BY DEF BuilderInv, BuilderTypes
<1>1. UNCHANGED <<job, save, start, active, tab, editor, unguarded>>
  BY DEF B!publishGrammarContent, B!deleteGrammarContent
<1>2. Len(versions) \in Nat /\ DOMAIN versions = 1..Len(versions)
  BY <1>0, LenProperties
<1>3. PICK vs : vs = versions'
  OBVIOUS
<1>4. /\ vs \in Seq(Versions(Lines)) /\ Len(vs) <= Len(versions) /\ ByTheModel(vs)
      /\ vs = <<>> \/ (versions # <<>> /\ vs[Len(vs)].rows = versions[Len(versions)].rows)
  <2>1. CASE vs = <<>>
    BY <1>2, <2>1 DEF ByTheModel
  <2>2. CASE B!publishGrammarContent /\ vs # <<>>
    <3>1. vs = B!publishLanguage(versions)
      BY <1>3, <2>2 DEF B!publishGrammarContent
    <3>2. /\ vs \in Seq(Versions(Lines)) /\ Len(vs) = Len(versions)
          /\ \A v \in DOMAIN vs : vs[v].rows = versions[v].rows /\ vs[v].source = versions[v].source
      BY <1>0, <3>1, PublishKeeps
    <3>3. DOMAIN vs = 1..Len(vs) /\ Len(vs) \in Nat \ {0}
      BY <2>2, <3>2, LenProperties, EmptySeq
    <3>4. ByTheModel(vs)
      BY <1>2, <3>2, <3>3 DEF BuilderInv, ByTheModel
    <3>5. Len(vs) \in DOMAIN vs /\ versions # <<>>
      BY <1>2, <3>2, <3>3, EmptySeq
    <3> QED
      BY <1>2, <3>2, <3>4, <3>5
  <2> QED
    BY <1>3, <2>1, <2>2 DEF B!deleteGrammarContent
<1>5. BuilderTypes' /\ ByTheModel(versions') /\ Len(versions') <= Len(versions)
  BY <1>1, <1>3, <1>4 DEF BuilderInv, BuilderTypes
<1>6. versions' = <<>> \/ (versions # <<>> /\ versions'[Len(versions')].rows = versions[Len(versions)].rows)
  BY <1>3, <1>4
<1>7. Guarded' /\ Hidden'
  BY <1>1, <1>6 DEF BuilderInv, Guarded, Hidden, B!Writing
<1>8. Len(vs) \in Nat
  BY <1>4, LenProperties
<1>9. Asked
  BY <1>2, <1>3, <1>5, <1>8 DEF Asked
<1> QED
  BY <1>5, <1>7, <1>9 DEF BuilderInv

LEMMA BuilderStep ==
    ASSUME BuilderInv, [Next]_pageVars
    PROVE  BuilderInv' /\ Asked
<1>1. tab \in {"editor", "test"} /\ (B!Writing(start, active) => editor = Nothing)
  BY DEF BuilderInv, BuilderTypes, Hidden
<1>2. CASE UNCHANGED builder
  BY <1>1, <1>2, ScreenStep DEF builder
<1>3. CASE B!Rows
  <2>1. editor # Nothing /\ UNCHANGED <<versions, job, save, start, active, unguarded, tab>>
    BY <1>3 DEF B!Rows, B!TypeRow, B!RemoveRow, B!runItem, B!AddRow, B!runRefine, B!refineGrammarLevel,
       B!RefineFails, B!TakeProposal, B!Edit, B!server
  <2> QED
    BY <1>1, <2>1, ScreenStep
<1>4. CASE B!SetTab \/ B!Read \/ B!Refetched \/ B!FetchFails
  <2>1. UNCHANGED <<versions, job, save, start, active, unguarded>> /\ tab' \in {"editor", "test"}
    BY <1>1, <1>4 DEF B!SetTab, B!Read, B!Refetched, B!FetchFails, B!server
  <2>2. B!Writing(start, active) => editor' = Nothing
    BY <1>1, <1>4 DEF B!SetTab, B!Read, B!Refetched, B!FetchFails, B!Shown
  <2> QED
    BY <2>1, <2>2, ScreenStep
<1>5. CASE (\E k \in {"publish", "delete"} : B!Release(k)) \/ B!Released \/ B!ReleaseFails
  <2>1. UNCHANGED <<versions, job, save, start, active, unguarded, tab, editor>>
    BY <1>5 DEF B!Release, B!Released, B!ReleaseFails, B!server
  <2> QED
    BY <1>1, <2>1, ScreenStep
<1>6. CASE B!persist \/ B!saveGrammarLevel \/ B!SaveAnswers \/ B!Saved \/ B!SaveFails
  BY <1>6, SavingGuards
<1>7. CASE \/ \E o \in BOOLEAN : B!runGenerate(o)
           \/ B!generateGrammarContent \/ B!Started \/ B!StartFails
  BY <1>7, StartingGuards
<1>8. CASE B!storeGenerated \/ B!Finish \/ B!GenerationFails
  BY <1>8, WorkingGuards
<1>9. CASE B!Poll \/ B!PollFails \/ B!GiveUp \/ B!Reload
  BY <1>9, WaitingGuards
<1>10. CASE B!publishGrammarContent \/ B!deleteGrammarContent
  BY <1>10, ReleasingGuards
<1> QED
  BY <1>2, <1>3, <1>4, <1>5, <1>6, <1>7, <1>8, <1>9, <1>10, PageSteps DEF B!BuilderNext

(* What is written by hand is not generated over: from the moment a job is *)
(* queued until its text is stored the page that asked for it saves        *)
(* nothing but tests, whatever fails, unless the owner let it be replaced, *)
(* the page stopped waiting or never heard of the job, or a draft was on   *)
(* its way when it was asked for.                                          *)
THEOREM HandsAreSpared == Spec => HandEditsSurvive
<1>1. BuilderInv /\ [Next]_pageVars => BuilderInv'
  BY BuilderStep
<1>2. BuilderInv /\ [Next]_pageVars => [Asked]_builder
  BY BuilderStep
<1>3. [Asked]_builder => [(versions # <<>> /\ Len(versions') > Len(versions) /\ B!Last(versions').source = "ai")
        => ~B!ByHand(B!Newest.rows) \/ job.overwrite \/ unguarded]_builder
  BY DEF Asked
<1> QED
  BY <1>1, <1>2, <1>3, BuilderStart, PTL DEF Spec, HandEditsSurvive, B!HandEditsSurvive, B!builder, builder

-----------------------------------------------------------------------------
(* Words learned in rounds.                                                *)

MarkSends == [word : Words, mark : W!Ratings \union {"known", "right", "wrong"}, at : {"sent", "stored"},
              here : BOOLEAN]

WordTypes ==
    /\ round \in Seq(Words) /\ place \in Nat \ {0} /\ sends \in Seq(MarkSends) /\ faults \in Nat
    /\ learned = [w \in Words |-> learned[w]] /\ meant = [w \in Words |-> meant[w]]

\* Unless a mark overtook another, at most one mark of a word is under way.
OneMarkEach(ss) == \A i, j \in DOMAIN ss : ss[i].word = ss[j].word => i = j

\* What is known of a word is what was meant, but for the mark that is under way.
CountedTo(ss, w) ==
    \/ learned[w] = meant[w] /\ \A i \in DOMAIN ss : ss[i].word = w => ss[i].at = "stored"
    \/ \E i \in DOMAIN ss : /\ ss[i].word = w /\ ss[i].at = "sent"
                            /\ meant[w] = W!Recorded(learned[w], ss[i].mark)

WordInv ==
    /\ WordTypes
    /\ ~overlap => OneMarkEach(sends) /\ (faults = 0 => \A w \in Words : CountedTo(sends, w))

LEMMA WordStart == Init => WordInv
<1> SUFFICES ASSUME Init PROVE WordInv
  OBVIOUS
<1>1. W!WordsInit
  BY DEF Init
<1>2. PICK Counts : learned \in [Words -> Counts]
  BY <1>1 DEF W!WordsInit
<1>3. sends = <<>> /\ round = <<>> /\ place = 1 /\ faults = 0 /\ meant = learned
  BY <1>1 DEF W!WordsInit
<1>4. learned = [w \in Words |-> learned[w]] /\ meant = [w \in Words |-> meant[w]]
  BY <1>2, <1>3
<1>5. round \in Seq(Words) /\ sends \in Seq(MarkSends)
  BY <1>3
<1>6. DOMAIN sends = {}
  BY <1>3
<1>7. OneMarkEach(sends) /\ \A w \in Words : CountedTo(sends, w)
  BY <1>3, <1>6 DEF OneMarkEach, CountedTo
<1> QED
  BY <1>3, <1>4, <1>5, <1>7 DEF WordInv, WordTypes

\* The sequence without one of its elements.
LEMMA WithoutOne ==
    ASSUME NEW Elem, NEW s \in Seq(Elem), NEW i \in 1..Len(s), NEW t, t = W!RemoveAt(s, i)
    PROVE  /\ t \in Seq(Elem) /\ Len(t) = Len(s) - 1
           /\ \A j \in 1..Len(t) : t[j] = IF j < i THEN s[j] ELSE s[j + 1]
<1>1. Len(s) \in Nat
  BY LenProperties
<1>2. PICK a, b : a = SubSeq(s, 1, i - 1) /\ b = SubSeq(s, i + 1, Len(s))
  OBVIOUS
<1>3. /\ a \in Seq(Elem) /\ Len(a) = i - 1 /\ \A j \in 1..(i - 1) : a[j] = s[j]
      /\ b \in Seq(Elem) /\ Len(b) = Len(s) - i /\ \A j \in 1..(Len(s) - i) : b[j] = s[i + j]
  BY <1>1, <1>2, SubSeqProperties
<1>4. t = a \o b
  BY <1>2 DEF W!RemoveAt
<1>5. /\ t \in Seq(Elem) /\ Len(t) = Len(a) + Len(b)
      /\ \A j \in 1..Len(a) + Len(b) : t[j] = IF j <= Len(a) THEN a[j] ELSE b[j - Len(a)]
  <2>1. a \in Seq(Elem) /\ b \in Seq(Elem)
    BY <1>3
  <2>2. /\ a \o b \in Seq(Elem) /\ Len(a \o b) = Len(a) + Len(b)
        /\ \A j \in 1..Len(a) + Len(b) : (a \o b)[j] = IF j <= Len(a) THEN a[j] ELSE b[j - Len(a)]
    BY <2>1, ConcatProperties
  <2> QED
    BY <1>4, <2>2
<1>6. Len(a) + Len(b) = Len(s) - 1
  BY <1>1, <1>3
<1>7. ASSUME NEW j \in 1..(Len(s) - 1) PROVE t[j] = IF j < i THEN s[j] ELSE s[j + 1]
  <2>1. t[j] = IF j <= Len(a) THEN a[j] ELSE b[j - Len(a)]
    BY <1>5, <1>6
  <2>2. CASE j < i
    <3>1. j <= Len(a) /\ j \in 1..(i - 1)
      BY <1>1, <1>3, <2>2
    <3> QED
      BY <1>3, <2>1, <2>2, <3>1
  <2>3. CASE ~(j < i)
    <3>1. ~(j <= Len(a)) /\ j - Len(a) \in 1..(Len(s) - i) /\ i + (j - Len(a)) = j + 1
      BY <1>1, <1>3, <2>3
    <3>2. t[j] = b[j - Len(a)] /\ b[j - Len(a)] = s[i + (j - Len(a))]
      BY <1>3, <2>1, <3>1
    <3> QED
      BY <2>3, <3>1, <3>2
  <2> QED
    BY <2>2, <2>3
<1>8. Len(t) = Len(s) - 1
  BY <1>5, <1>6
<1> QED
  BY <1>5, <1>7, <1>8

\* A step after which the same marks are under way, whether or not they are heard of.
LEMMA SameMarks ==
    ASSUME WordInv, UNCHANGED <<learned, meant, overlap>>, NEW ss, sends' = ss,
           ss = sends \/ ss = W!Left,
           round' \in Seq(Words), place' \in Nat \ {0}, faults' \in Nat, faults' = 0 => faults = 0
    PROVE  WordInv'
<1>1. Len(sends) \in Nat /\ DOMAIN sends = 1..Len(sends) /\ \A i \in 1..Len(sends) : sends[i] \in MarkSends
  BY LenProperties, ElementOfSeq DEF WordInv, WordTypes
<1>2. /\ ss \in Seq(MarkSends) /\ DOMAIN ss = DOMAIN sends
      /\ \A i \in DOMAIN ss : ss[i].word = sends[i].word /\ ss[i].mark = sends[i].mark /\ ss[i].at = sends[i].at
  <2>1. CASE ss = sends
    BY <2>1 DEF WordInv, WordTypes
  <2>2. CASE ss = W!Left
    <3>1. ss = [i \in DOMAIN sends |-> [sends[i] EXCEPT !.here = FALSE]]
      BY <2>2 DEF W!Left
    <3>2. ASSUME NEW i \in 1..Len(sends)
          PROVE  /\ ss[i] \in MarkSends /\ ss[i].word = sends[i].word /\ ss[i].mark = sends[i].mark
                 /\ ss[i].at = sends[i].at
      <4>1. PICK q : q = [sends[i] EXCEPT !.here = FALSE]
        OBVIOUS
      <4>2. q \in MarkSends /\ q.word = sends[i].word /\ q.mark = sends[i].mark /\ q.at = sends[i].at
        BY <1>1, <4>1 DEF MarkSends
      <4> QED
        BY <1>1, <3>1, <4>1, <4>2
    <3>3. ss \in [1..Len(sends) -> MarkSends]
      BY <1>1, <3>1, <3>2
    <3>4. ss \in Seq(MarkSends)
      BY <1>1, <3>3, SeqDef
    <3> QED
      BY <1>1, <3>2, <3>3, <3>4
  <2> QED
    BY <2>1, <2>2
<1>3. WordTypes'
  BY <1>2 DEF WordInv, WordTypes
<1>4. ASSUME ~overlap PROVE OneMarkEach(ss)
  BY <1>2, <1>4 DEF WordInv, OneMarkEach
<1>5. ASSUME ~overlap, faults = 0, NEW w \in Words PROVE CountedTo(ss, w)
  <2>1. CountedTo(sends, w)
    BY <1>5 DEF WordInv
  <2> QED
    BY <1>2, <2>1 DEF CountedTo
<1> QED
  BY <1>3, <1>4, <1>5 DEF WordInv, OneMarkEach, CountedTo

\* A mark is given: its learner waits for the word's last one, if it was heard of.
LEMMA MarkGiven ==
    ASSUME WordInv, NEW w \in Words, NEW m \in W!Ratings \union {"known", "right", "wrong"}, W!Send(w, m),
           \A i \in DOMAIN sends : sends[i].here => sends[i].word # w,
           round' \in Seq(Words), place' \in Nat \ {0}
    PROVE  WordInv'
<1>1. Len(sends) \in Nat /\ DOMAIN sends = 1..Len(sends) /\ \A i \in 1..Len(sends) : sends[i] \in MarkSends
  BY LenProperties, ElementOfSeq DEF WordInv, WordTypes
<1>2. PICK c : c = [word |-> w, mark |-> m, at |-> "sent", here |-> TRUE]
  OBVIOUS
<1>3. c \in MarkSends /\ c.word = w /\ c.mark = m /\ c.at = "sent"
  BY <1>2 DEF MarkSends
<1>4. PICK ss : ss = Append(sends, c)
  OBVIOUS
<1>5. /\ ss \in Seq(MarkSends) /\ Len(ss) = Len(sends) + 1 /\ DOMAIN ss = 1..(Len(sends) + 1)
      /\ \A i \in 1..Len(sends) : ss[i] = sends[i]
      /\ ss[Len(sends) + 1] = c
  BY <1>1, <1>3, <1>4, AppendProperties, LenProperties DEF WordInv, WordTypes
<1>6. /\ sends' = ss /\ meant' = [meant EXCEPT ![w] = W!Recorded(@, m)] /\ UNCHANGED <<learned, faults>>
      /\ ~overlap' => ~overlap /\ \A i \in DOMAIN sends : sends[i].word = w => sends[i].here
  BY <1>2, <1>4 DEF W!Send
<1>7. WordTypes'
  BY <1>5, <1>6 DEF WordInv, WordTypes
<1>8. ASSUME ~overlap' PROVE ~overlap /\ \A i \in DOMAIN sends : sends[i].word # w
  BY <1>6, <1>8
<1>9. ASSUME ~overlap' PROVE OneMarkEach(ss)
  BY <1>1, <1>3, <1>5, <1>8, <1>9 DEF WordInv, OneMarkEach
<1>10. /\ meant'[w] = W!Recorded(meant[w], m)
       /\ \A v \in Words \ {w} : meant'[v] = meant[v]
  BY <1>6 DEF WordInv, WordTypes
<1>11. ASSUME ~overlap', faults = 0, NEW v \in Words PROVE CountedTo(ss, v)'
  <2>1. CountedTo(sends, v)
    BY <1>8, <1>11 DEF WordInv
  <2>2. CASE v = w
    <3>1. learned[w] = meant[w]
      BY <1>8, <1>11, <2>1, <2>2 DEF CountedTo
    <3>2. Len(sends) + 1 \in DOMAIN ss
      BY <1>1, <1>5
    <3> QED
      BY <1>3, <1>5, <1>6, <1>10, <2>2, <3>1, <3>2 DEF CountedTo
  <2>3. CASE v # w
    <3>1. ASSUME learned[v] = meant[v], \A i \in DOMAIN sends : sends[i].word = v => sends[i].at = "stored",
                 NEW i \in DOMAIN ss, ss[i].word = v
          PROVE  ss[i].at = "stored"
      BY <1>1, <1>3, <1>5, <2>3, <3>1
    <3>2. ASSUME NEW i \in DOMAIN sends, sends[i].word = v, sends[i].at = "sent",
                 meant[v] = W!Recorded(learned[v], sends[i].mark)
          PROVE  i \in DOMAIN ss /\ ss[i].word = v /\ ss[i].at = "sent"
                 /\ meant[v] = W!Recorded(learned[v], ss[i].mark)
      BY <1>1, <1>5, <3>2
    <3> QED
      BY <1>6, <1>10, <2>1, <2>3, <3>1, <3>2 DEF CountedTo
  <2> QED
    BY <2>2, <2>3
<1> QED
  BY <1>6, <1>7, <1>9, <1>11 DEF WordInv, OneMarkEach, CountedTo

\* The server records a mark.
LEMMA MarkStored ==
    ASSUME WordInv, NEW k \in DOMAIN sends, W!Store(k)
    PROVE  WordInv'
<1>1. Len(sends) \in Nat /\ DOMAIN sends = 1..Len(sends) /\ \A i \in 1..Len(sends) : sends[i] \in MarkSends
  BY LenProperties, ElementOfSeq DEF WordInv, WordTypes
<1>2. PICK c : c = [sends[k] EXCEPT !.at = "stored"]
  OBVIOUS
<1>3. c \in MarkSends /\ c.word = sends[k].word /\ c.at = "stored"
  BY <1>1, <1>2 DEF MarkSends
<1>4. PICK ss : ss = [sends EXCEPT ![k] = c]
  OBVIOUS
<1>5. /\ ss \in Seq(MarkSends) /\ DOMAIN ss = DOMAIN sends /\ ss[k] = c
      /\ \A i \in DOMAIN ss \ {k} : ss[i] = sends[i]
  BY <1>1, <1>3, <1>4, ExceptSeq, LenProperties DEF WordInv, WordTypes
<1>6. PICK w \in Words : w = sends[k].word
  BY <1>1 DEF MarkSends
<1>7. /\ sends[k].at = "sent" /\ sends' = ss /\ UNCHANGED <<round, place, meant, overlap, faults>>
      /\ learned' = [learned EXCEPT ![w] = W!Recorded(@, sends[k].mark)]
  BY <1>2, <1>4, <1>6 DEF W!Store
<1>8. /\ learned'[w] = W!Recorded(learned[w], sends[k].mark)
      /\ \A v \in Words \ {w} : learned'[v] = learned[v]
  BY <1>7 DEF WordInv, WordTypes
<1>9. WordTypes'
  BY <1>5, <1>7 DEF WordInv, WordTypes
<1>10. ASSUME ~overlap PROVE OneMarkEach(ss)
  BY <1>3, <1>5, <1>10 DEF WordInv, OneMarkEach
<1>11. ASSUME ~overlap, faults = 0, NEW v \in Words PROVE CountedTo(ss, v)'
  <2>1. CountedTo(sends, v)
    BY <1>11 DEF WordInv
  <2>2. CASE v = w
    <3>1. \A i \in DOMAIN sends : sends[i].word = w => i = k
      BY <1>6, <1>11 DEF WordInv, OneMarkEach
    <3>2. meant[w] = W!Recorded(learned[w], sends[k].mark)
      BY <1>6, <1>7, <2>1, <2>2, <3>1 DEF CountedTo
    <3>3. \A i \in DOMAIN ss : ss[i].word = w => ss[i].at = "stored"
      BY <1>3, <1>5, <3>1
    <3> QED
      BY <1>7, <1>8, <2>2, <3>2, <3>3 DEF CountedTo
  <2>3. CASE v # w
    <3>1. \A i \in DOMAIN ss : ss[i].word = v => ss[i] = sends[i]
      BY <1>3, <1>5, <1>6, <2>3
    <3>2. \A i \in DOMAIN sends : sends[i].word = v => ss[i] = sends[i]
      BY <1>5, <1>6, <2>3
    <3> QED
      BY <1>5, <1>7, <1>8, <2>1, <2>3, <3>1, <3>2 DEF CountedTo
  <2> QED
    BY <2>2, <2>3
<1> QED
  BY <1>7, <1>9, <1>10, <1>11 DEF WordInv, OneMarkEach, CountedTo

\* A mark is heard of, or lost.
LEMMA MarkOver ==
    ASSUME WordInv, NEW k \in DOMAIN sends, W!Heard(k) \/ W!Lose(k)
    PROVE  WordInv'
<1>1. Len(sends) \in Nat /\ DOMAIN sends = 1..Len(sends) /\ k \in 1..Len(sends) /\ sends \in Seq(MarkSends)
  BY LenProperties, SMTT(30) DEF WordInv, WordTypes
<1>2. PICK ss : ss = W!RemoveAt(sends, k)
  OBVIOUS
<1>3. /\ ss \in Seq(MarkSends) /\ Len(ss) = Len(sends) - 1
      /\ \A j \in 1..Len(ss) : ss[j] = IF j < k THEN sends[j] ELSE sends[j + 1]
  BY <1>1, <1>2, WithoutOne, ZenonT(30)
<1>4. DOMAIN ss = 1..Len(ss) /\ Len(ss) \in Nat
  BY <1>3, LenProperties
<1>5. \A j \in DOMAIN ss : \E i \in DOMAIN sends : i # k /\ ss[j] = sends[i] /\ i = IF j < k THEN j ELSE j + 1
  BY <1>1, <1>3, <1>4
<1>6. \A i \in DOMAIN sends \ {k} : \E j \in DOMAIN ss : ss[j] = sends[i]
  <2> SUFFICES ASSUME NEW i \in 1..Len(sends), i # k PROVE \E j \in DOMAIN ss : ss[j] = sends[i]
    BY <1>1
  <2>1. CASE i < k
    BY <1>1, <1>3, <1>4, <2>1
  <2>2. CASE i > k
    <3>1. i - 1 \in DOMAIN ss /\ ~(i - 1 < k) /\ (i - 1) + 1 = i
      BY <1>1, <1>3, <1>4, <2>2
    <3> QED
      BY <1>3, <1>4, <3>1
  <2> QED
    BY <1>1, <2>1, <2>2
<1>7. /\ sends' = ss /\ UNCHANGED <<learned, meant, overlap, round, place>>
      /\ \/ UNCHANGED faults /\ sends[k].at = "stored"
         \/ faults' = faults + 1
  BY <1>2 DEF W!Heard, W!Lose, W!Server, W!Fault
<1>8. WordTypes'
  BY <1>3, <1>7 DEF WordInv, WordTypes
<1>9. ASSUME ~overlap PROVE OneMarkEach(ss)
  <2> SUFFICES ASSUME NEW i \in DOMAIN ss, NEW j \in DOMAIN ss, ss[i].word = ss[j].word PROVE i = j
    BY DEF OneMarkEach
  <2>1. PICK a \in DOMAIN sends : ss[i] = sends[a] /\ a = IF i < k THEN i ELSE i + 1
    BY <1>5
  <2>2. PICK b \in DOMAIN sends : ss[j] = sends[b] /\ b = IF j < k THEN j ELSE j + 1
    BY <1>5
  <2>3. a = b
    BY <1>9, <2>1, <2>2 DEF WordInv, OneMarkEach
  <2> QED
    BY <1>1, <1>4, <2>1, <2>2, <2>3
<1>10. ASSUME ~overlap, faults' = 0, NEW w \in Words PROVE CountedTo(ss, w)
  <2>1. faults = 0 /\ sends[k].at = "stored"
    BY <1>7, <1>10 DEF WordInv, WordTypes
  <2>2. CountedTo(sends, w)
    BY <1>10, <2>1 DEF WordInv
  <2>3. ASSUME NEW i \in DOMAIN sends, sends[i].at = "sent" PROVE i # k
    BY <2>1, <2>3
  <2> QED
    BY <1>5, <1>6, <2>2, <2>3 DEF CountedTo
<1> QED
  BY <1>7, <1>8, <1>9, <1>10 DEF WordInv, OneMarkEach, CountedTo

\* A round is one of words.
LEMMA RoundsOfWords == ASSUME NEW r \in W!Rounds PROVE r \in Seq(Words)
<1> DEFINE due == {w \in Words : learned[w].due}
           forgotten == {w \in Words \ due : learned[w].days = 0}
           mistakes == {w \in Words : learned[w].wrong > 0 /\ learned[w].streak = 0}
           from == IF game = "verbs" THEN {Words, mistakes} ELSE {due \union f : f \in SUBSET forgotten}
<1>1. \A c \in from : c \subseteq Words
  OBVIOUS
<1>2. \E c \in from : \E n \in 0..Limit : r \in [1..n -> c]
  <2> DEFINE all(c) == UNION {[1..n -> c] : n \in 0..Limit}
             some(c) == {x \in all(c) : Len(x) = W!AtMost(W!Cardinality(c), Limit) /\ W!IsInjective(x)}
  <2>1. W!Rounds = UNION {some(c) : c \in from}
    BY Zenon DEF W!Rounds
  <2> HIDE DEF from, some
  <2>2. PICK c \in from : r \in some(c)
    BY <2>1
  <2>3. r \in all(c)
    BY <2>2 DEF some
  <2> QED
    BY <2>3
<1> HIDE DEF from
<1>3. PICK c \in from, n \in 0..Limit : r \in [1..n -> c]
  BY <1>2
<1>4. n \in Nat /\ r \in [1..n -> Words]
  BY <1>1, <1>3
<1> QED
  BY <1>4, SeqDef

LEMMA WordStep ==
    ASSUME WordInv, [Next]_pageVars
    PROVE  WordInv'
<1>0. /\ round \in Seq(Words) /\ place \in Nat \ {0} /\ faults \in Nat
      /\ Len(round) \in Nat /\ \A p \in 1..Len(round) : round[p] \in Words
  BY LenProperties, ElementOfSeq DEF WordInv, WordTypes
<1>1. CASE UNCHANGED <<round, place, sends, learned, meant, overlap, faults>>
  BY <1>0, <1>1, SameMarks
<1>2. CASE W!startReview \/ W!Turn \/ W!StartFails
  <2>1. UNCHANGED <<round, place, sends, learned, meant, overlap>> /\ faults' \in Nat
        /\ (faults' = 0 => faults = 0)
    BY <1>0, <1>2 DEF W!startReview, W!Turn, W!StartFails, W!Server, W!Fault
  <2> QED
    BY <1>0, <2>1, SameMarks
<1>3. ASSUME NEW r \in W!Rounds, W!RoundComes(r) PROVE WordInv'
  <2>1. UNCHANGED <<learned, meant, overlap, faults>> /\ (sends' = sends \/ sends' = W!Left)
        /\ (round' = r \/ round' = round) /\ (place' = 1 \/ place' = place)
    BY <1>3 DEF W!RoundComes, W!Server
  <2> QED
    BY <1>0, <2>1, RoundsOfWords, SameMarks
<1>4. CASE W!onDone
  <2>1. UNCHANGED <<round, place, learned, meant, overlap, faults>> /\ sends' = W!Left
    BY <1>4 DEF W!onDone, W!Server
  <2> QED
    BY <1>0, <2>1, SameMarks
<1>5. CASE W!Next
  <2>1. UNCHANGED <<round, sends, learned, meant, overlap, faults>> /\ place' = place + 1
    BY <1>5 DEF W!Next, W!Server
  <2> QED
    BY <1>0, <2>1, SameMarks
<1>6. ASSUME NEW rating \in W!Ratings, W!rate(rating) PROVE WordInv'
  <2>1. W!Word \in Words /\ W!Send(W!Word, rating) /\ ~W!Pending /\ place' = place + 1
        /\ (round' = round \/ round' = Append(round, W!Word))
    BY <1>0, <1>6 DEF W!rate, W!Rated, W!AtEnd, W!Word
  <2>2. round' \in Seq(Words) /\ place' \in Nat \ {0}
    BY <1>0, <2>1, AppendProperties
  <2> QED
    BY <2>1, <2>2, MarkGiven DEF W!Pending
<1>7. ASSUME NEW right \in BOOLEAN, W!submit(right) PROVE WordInv'
  <2>1. PICK m : m = IF right THEN "right" ELSE "wrong"
    OBVIOUS
  <2>2. W!Word \in Words /\ W!Send(W!Word, m) /\ ~W!Pending /\ UNCHANGED <<round, place>>
    BY <1>0, <1>7, <2>1 DEF W!submit, W!AtEnd, W!Word
  <2>3. m \in W!Ratings \union {"known", "right", "wrong"}
    BY <2>1
  <2> QED
    BY <1>0, <2>2, <2>3, MarkGiven DEF W!Pending
<1>8. ASSUME NEW w \in Words, W!known(w) PROVE WordInv'
  <2>1. W!Send(w, "known") /\ UNCHANGED <<round, place>>
        /\ \A i \in DOMAIN sends : sends[i].here => sends[i].word # w
    BY <1>8 DEF W!known
  <2> QED
    BY <1>0, <2>1, MarkGiven
<1>9. ASSUME NEW i \in DOMAIN sends, W!Store(i) \/ W!Heard(i) \/ W!Lose(i) PROVE WordInv'
  BY <1>9, MarkStored, MarkOver
<1>10. CASE UNCHANGED words
  BY <1>1, <1>10 DEF words
<1> QED
  BY <1>2, <1>3, <1>4, <1>5, <1>6, <1>7, <1>8, <1>9, <1>10, PageSteps DEF W!WordsNext

(* What the server knows of each word is what its learner's marks come to  *)
(* in the order they were given: no two marks of a word are under way, so  *)
(* that a forgotten card that comes back in its round cannot overtake what *)
(* was said of it before, unless the round was left meanwhile.             *)
THEOREM MarksCount == Spec => []MarksCountInOrder
<1>1. WordInv => MarksCountInOrder
  <2> SUFFICES ASSUME WordInv, sends = <<>>, faults = 0, ~overlap PROVE learned = meant
    BY DEF MarksCountInOrder, W!MarksCountInOrder
  <2>1. \A w \in Words : learned[w] = meant[w]
    BY DEF WordInv, CountedTo
  <2> QED
    BY <2>1 DEF WordInv, WordTypes
<1>2. WordInv /\ [Next]_pageVars => WordInv'
  BY WordStep
<1> QED
  BY <1>1, <1>2, WordStart, PTL DEF Spec

-----------------------------------------------------------------------------
(* The forms of the console and of the profile.                            *)

\* What is so of every one of them.
Fits(p) ==
    /\ p.gate # "none" \/ p.fills = "never"
    /\ p.gate = "form" \/ p.gate = "page" \/ p.gate = "none"
    /\ p.fills = "opening" \/ p.fills = "blank" \/ p.fills = "never"
    /\ p.after = "reread" \/ p.after = "mark" \/ p.after = "replace"
    /\ p.refills => p.fills = "opening" /\ p.after = "replace"
    /\ p.keyed => p.after = "mark"
    /\ p.wipes => p.keeps

LEMMA PoliciesFit == ASSUME NEW p \in F!Policies PROVE Fits(p)
<1>1. Fits(F!ContentEditor) /\ Fits(F!Dialog) /\ Fits(F!QuestionEditor) /\ Fits(F!VerbDialog)
      /\ Fits(F!GrammarCreateView) /\ Fits(F!PlanPricingDialog)
  BY DEF Fits, F!ContentEditor, F!Dialog, F!QuestionEditor, F!VerbDialog, F!GrammarCreateView,
     F!PlanPricingDialog, F!Policy
<1>2. Fits(F!PageForm) /\ Fits(F!ProfileForm) /\ Fits(F!TaskEditor)
  BY DEF Fits, F!PageForm, F!ProfileForm, F!TaskEditor, F!Policy
<1>3. Fits(F!Confirm) /\ Fits(F!RevokeOthers) /\ Fits(F!AddStaffDialog) /\ Fits(F!ResetStaffPassword)
      /\ Fits(F!SuspendDialog) /\ Fits(F!SetPasswordDialog)
  BY DEF Fits, F!Confirm, F!RevokeOthers, F!AddStaffDialog, F!ResetStaffPassword, F!SuspendDialog,
     F!SetPasswordDialog, F!Kept, F!Policy
<1>4. Fits(F!StaffRole) /\ Fits(F!VerbStatus) /\ Fits(F!WallpaperLibrary) /\ Fits(F!General)
      /\ Fits(F!NotificationSettings)
  BY DEF Fits, F!StaffRole, F!VerbStatus, F!WallpaperLibrary, F!General, F!NotificationSettings,
     F!Control, F!Policy
<1> QED
  BY <1>1, <1>2, <1>3, <1>4, Zenon DEF F!Policies, F!RevisionHistory, F!EditAccessDialog, F!EditorForm,
     F!TemplateEditor, F!SettingsGroup, F!RoleDialog, F!ContentStatus, F!TopicStatus, F!ActivateConfig,
     F!RemoveStaff, F!SuspendOne, F!ChangePasswordDialog, F!Reactivate, F!QuestionStatus, F!WallpaperCard,
     F!WallpaperPicker, F!AvatarUploader, F!Language, F!Appearance, F!Sidebar, F!Sessions,
     F!LanguageSettings, F!Alerts, F!AccessibilitySection

TextsOf == [Fields -> Nat]

Copies == [Records -> TextsOf]

Inputs == UNION {[g -> Nat] : g \in SUBSET Fields}

Sheets == [row : Records \union {Nothing}, draft : TextsOf, typed : SUBSET (Records \X Fields),
           sure : BOOLEAN, wiping : BOOLEAN]

Posted == [row : Records \union {Nothing}, input : Inputs \union {Nothing},
           typed : SUBSET (Records \X Fields), sure : BOOLEAN, at : {"sent", "served", "rereads", "over"},
           heard : {"form", "page", "no"}, answer : Copies \union {Nothing}, crossed : BOOLEAN]

Reads == [at : {"no", "asked", "read"}, what : Copies \union {Nothing}, old : BOOLEAN]

PostTypes ==
    /\ posts \in Seq(Posted)
    /\ \A i \in DOMAIN posts :
           /\ F!InFlight(posts[i]) => posts[i].row \in Records /\ posts[i].input \in Inputs
           /\ policy.after = "replace" /\ posts[i].at = "served" => posts[i].answer \in Copies
           /\ policy.after # "reread" => posts[i].at # "rereads"

FormTypes ==
    /\ policy \in F!Policies /\ records \in Copies /\ copy \in Copies /\ sheet \in Sheets /\ texts \in Nat
    /\ reading \in Reads /\ (reading.at = "read" => reading.what \in Copies)
    /\ PostTypes

\* Two requests under way at once have crossed.
PairsCross ==
    \A i, j \in DOMAIN posts :
        i # j /\ F!InFlight(posts[i]) /\ F!InFlight(posts[j]) => posts[i].crossed

\* The answer to a request that none crossed is what is stored.
AnswersAreNew ==
    \A i \in DOMAIN posts :
        policy.after = "replace" /\ posts[i].at = "served" /\ ~posts[i].crossed => posts[i].answer = records

Steady == policy.after # "mark" /\ ~policy.keeps /\ ~policy.restores

(* What is sent, if the form was opened with what was stored and nothing   *)
(* crossed the request, is what is stored, but for what was typed.         *)
InputIsNew ==
    Steady => \A i \in DOMAIN posts :
        posts[i].at = "sent" /\ posts[i].sure /\ ~posts[i].crossed =>
            \A f \in DOMAIN posts[i].input :
                <<posts[i].row, f>> \in posts[i].typed \/ posts[i].input[f] = records[posts[i].row][f]

ServedOnes == {i \in DOMAIN posts : posts[i].at = "served"}

(* The page shows what is stored, and a read under way will bring it, but  *)
(* for a change whose answer has still to come.                            *)
CopyIsNew ==
    /\ ~doubt /\ (policy.after = "mark" => reading.at = "no") /\ ServedOnes = {} /\ F!Waiting = {}
           => copy = records
    /\ reading.at = "read" /\ ~reading.old /\ ServedOnes = {} => reading.what = records

SheetIsEmpty ==
    /\ sheet.row # Nothing => policy.fills # "never"
    /\ ~policy.keeps => ~sheet.wiping /\ (sheet.row = Nothing => sheet = F!Shut)

(* While a form is open that was filled with what is stored, nothing is    *)
(* under way but what was sent from it, one request at a time; and what    *)
(* was not typed in it is still what is stored.                            *)
SureAlone ==
    Steady /\ sheet.row # Nothing /\ sheet.sure =>
        \A i \in DOMAIN posts : F!InFlight(posts[i]) =>
            /\ posts[i].heard = "form" /\ posts[i].row = sheet.row /\ posts[i].sure /\ ~posts[i].crossed
            /\ posts[i].typed \subseteq sheet.typed

DraftIsNew ==
    Steady /\ sheet.row # Nothing /\ sheet.sure =>
        \A f \in Fields : \/ <<sheet.row, f>> \in sheet.typed
                          \/ sheet.draft[f] = IF policy.fills = "blank" THEN 0 ELSE records[sheet.row][f]

PostsInv == PairsCross /\ AnswersAreNew /\ InputIsNew

SheetInv == SheetIsEmpty /\ SureAlone /\ DraftIsNew

FormInv == FormTypes /\ PostsInv /\ CopyIsNew /\ SheetInv

\* A step that serves a careful request changes what was typed, and nothing else.
TypedOnly ==
    \A i \in DOMAIN posts :
        (F!Careful /\ posts[i].at = "sent" /\ posts'[i].at = "served" /\ posts[i].sure /\ ~posts[i].crossed) =>
            \A r \in Records, f \in Fields : records'[r][f] # records[r][f] => <<r, f>> \in posts[i].typed

LEMMA ShutSheet == /\ F!Shut \in Sheets /\ F!Shut.row = Nothing /\ F!Shut.typed = {} /\ F!Shut.wiping = FALSE
                   /\ F!Shut.draft = [f \in Fields |-> 0]
<1>1. PICK n : n = F!NoText
  OBVIOUS
<1>2. n \in TextsOf /\ n = [f \in Fields |-> 0]
  BY <1>1 DEF F!NoText, TextsOf
<1>3. PICK s : s = F!Shut
  OBVIOUS
<1>4. s \in Sheets /\ s.row = Nothing /\ s.typed = {} /\ s.wiping = FALSE /\ s.draft = n
  BY <1>1, <1>2, <1>3 DEF F!Shut, Sheets
<1> QED
  BY <1>2, <1>3, <1>4

LEMMA FormStart == Init => FormInv
<1> SUFFICES ASSUME Init PROVE FormInv
  OBVIOUS
<1>1. F!FormsInit
  BY DEF Init
<1>2. Records # {} /\ Nothing \notin Records
  BY PagesAssumption
<1>3. PICK n : n = F!NoText
  OBVIOUS
<1>4. n \in TextsOf /\ n = [f \in Fields |-> 0]
  BY <1>3 DEF F!NoText, TextsOf
<1>5. records \in Copies /\ copy = records
  BY <1>1, <1>3, <1>4 DEF F!FormsInit, Copies
<1>6. PICK s : s = F!Shut
  OBVIOUS
<1>7. s \in Sheets /\ s.row = Nothing
  BY <1>3, <1>4, <1>6 DEF F!Shut, Sheets
<1>8. PICK r : r = F!Idle
  OBVIOUS
<1>9. r \in Reads /\ r.at = "no"
  BY <1>8 DEF F!Idle, Reads
<1>10. policy \in F!Policies /\ sheet = s /\ reading = r /\ posts = <<>> /\ texts = 0
  BY <1>1, <1>6, <1>8 DEF F!FormsInit
<1>11. posts \in Seq(Posted) /\ DOMAIN posts = {}
  BY <1>10
<1>12. FormTypes
  BY <1>5, <1>7, <1>9, <1>10, <1>11 DEF FormTypes, PostTypes
<1>13. PostsInv
  BY <1>11 DEF PostsInv, PairsCross, AnswersAreNew, InputIsNew
<1>14. CopyIsNew
  BY <1>5, <1>9, <1>10 DEF CopyIsNew
<1>15. SheetInv
  BY <1>6, <1>7, <1>10, ShutSheet DEF SheetInv, SheetIsEmpty, SureAlone, DraftIsNew
<1> QED
  BY <1>12, <1>13, <1>14, <1>15 DEF FormInv

\* A request may be over, be no longer heard of, or wait for a read: it stays what it is.
Later(p, q) ==
    \/ q.at = "over"
    \/ /\ q.row = p.row /\ q.input = p.input /\ q.typed = p.typed /\ q.sure = p.sure
       /\ q.answer = p.answer /\ q.crossed = p.crossed
       /\ q.at = p.at \/ (p.at = "served" /\ q.at = "rereads" /\ policy.after = "reread")

LaterPosts(ps) ==
    ps \in Seq(Posted) /\ DOMAIN ps = DOMAIN posts /\ \A i \in DOMAIN posts : Later(posts[i], ps[i])

LEMMA LaterKeeps ==
    ASSUME FormInv, UNCHANGED <<policy, records>>, LaterPosts(posts')
    PROVE  PostTypes' /\ PostsInv' /\ TypedOnly
<1>1. ASSUME NEW i \in DOMAIN posts'
      PROVE  /\ i \in DOMAIN posts
             /\ F!InFlight(posts'[i]) =>
                    /\ F!InFlight(posts[i]) /\ posts'[i].row = posts[i].row /\ posts'[i].input = posts[i].input
                    /\ posts'[i].typed = posts[i].typed /\ posts'[i].sure = posts[i].sure
                    /\ posts'[i].answer = posts[i].answer /\ posts'[i].crossed = posts[i].crossed
             /\ posts'[i].at = "sent" => posts[i].at = "sent"
             /\ posts'[i].at = "served" => posts[i].at = "served"
             /\ posts'[i].at = "rereads" => posts[i].at = "rereads" \/ policy.after = "reread"
  BY <1>1 DEF LaterPosts, Later, F!InFlight
<1>2. PostTypes'
  <2> SUFFICES ASSUME NEW i \in DOMAIN posts'
               PROVE  /\ F!InFlight(posts'[i]) => posts'[i].row \in Records /\ posts'[i].input \in Inputs
                      /\ policy.after = "replace" /\ posts'[i].at = "served" => posts'[i].answer \in Copies
                      /\ policy.after # "reread" => posts'[i].at # "rereads"
    BY DEF PostTypes, LaterPosts, F!InFlight
  <2>1. posts'[i].at = "served" => F!InFlight(posts'[i])
    BY DEF F!InFlight
  <2> QED
    BY <1>1, <2>1 DEF FormInv, FormTypes, PostTypes
<1>3. PairsCross'
  BY <1>1 DEF FormInv, PostsInv, PairsCross, F!InFlight
<1>4. AnswersAreNew'
  BY <1>1 DEF FormInv, PostsInv, AnswersAreNew, F!InFlight
<1>5. InputIsNew'
  BY <1>1 DEF FormInv, PostsInv, InputIsNew, Steady, F!InFlight
<1>6. TypedOnly
  BY <1>1 DEF TypedOnly, LaterPosts
<1> QED
  BY <1>2, <1>3, <1>4, <1>5, <1>6 DEF PostsInv

\* A form that is closed is no longer told.
LEMMA UnheardPosts ==
    ASSUME NEW ps \in Seq(Posted), NEW us, us = F!Unheard(ps)
    PROVE  /\ us \in Seq(Posted) /\ DOMAIN us = DOMAIN ps
           /\ \A i \in DOMAIN ps :
                  /\ us[i].row = ps[i].row /\ us[i].input = ps[i].input /\ us[i].typed = ps[i].typed
                  /\ us[i].sure = ps[i].sure /\ us[i].answer = ps[i].answer /\ us[i].crossed = ps[i].crossed
                  /\ us[i].at = ps[i].at
<1>1. Len(ps) \in Nat /\ DOMAIN ps = 1..Len(ps) /\ \A i \in 1..Len(ps) : ps[i] \in Posted
  BY LenProperties, ElementOfSeq
<1>2. CASE policy.keeps
  BY <1>2 DEF F!Unheard
<1>3. CASE ~policy.keeps
  <2>1. us = [i \in DOMAIN ps |-> [ps[i] EXCEPT !.heard = IF @ = "form" THEN "page" ELSE @]]
    BY <1>3 DEF F!Unheard
  <2>2. ASSUME NEW i \in 1..Len(ps)
        PROVE  /\ us[i] \in Posted
               /\ us[i].row = ps[i].row /\ us[i].input = ps[i].input /\ us[i].typed = ps[i].typed
               /\ us[i].sure = ps[i].sure /\ us[i].answer = ps[i].answer /\ us[i].crossed = ps[i].crossed
               /\ us[i].at = ps[i].at
    <3>1. PICK p : p = ps[i]
      OBVIOUS
    <3>2. PICK q : q = [p EXCEPT !.heard = IF p.heard = "form" THEN "page" ELSE p.heard]
      OBVIOUS
    <3>3. q \in Posted /\ q.row = p.row /\ q.input = p.input /\ q.typed = p.typed /\ q.sure = p.sure
          /\ q.answer = p.answer /\ q.crossed = p.crossed /\ q.at = p.at
      BY <1>1, <3>1, <3>2 DEF Posted
    <3>4. us[i] = q
      BY <1>1, <2>1, <3>1, <3>2
    <3> QED
      BY <3>1, <3>3, <3>4
  <2>3. us \in [1..Len(ps) -> Posted]
    BY <1>1, <2>1, <2>2
  <2>4. us \in Seq(Posted)
    BY <1>1, <2>3, SeqDef
  <2> QED
    BY <1>1, <2>2, <2>3, <2>4
<1> QED
  BY <1>2, <1>3

\* The form is closed, or stays as it is.
LEMMA SheetStays ==
    ASSUME FormInv, UNCHANGED <<policy, records>>, LaterPosts(posts'),
           \/ sheet' = F!Closed \/ sheet' = F!Shut
           \/ sheet' = sheet /\ \A i \in DOMAIN posts : F!InFlight(posts'[i]) => posts'[i].heard = posts[i].heard
    PROVE  sheet' \in Sheets /\ SheetInv'
<1>1. CASE sheet' = F!Closed /\ policy.keeps
  <2>1. PICK s : s = [sheet EXCEPT !.row = Nothing]
    OBVIOUS
  <2>2. s \in Sheets /\ s.row = Nothing
    BY <2>1 DEF FormInv, FormTypes, Sheets
  <2>3. sheet' = s
    BY <1>1, <2>1 DEF F!Closed
  <2> QED
    BY <1>1, <2>2, <2>3 DEF SheetInv, SheetIsEmpty, SureAlone, DraftIsNew
<1>2. CASE sheet' = F!Shut \/ (sheet' = F!Closed /\ ~policy.keeps)
  <2>1. sheet' = F!Shut
    BY <1>2 DEF F!Closed
  <2> QED
    BY <2>1, ShutSheet DEF SheetInv, SheetIsEmpty, SureAlone, DraftIsNew, F!Shut, F!NoText
<1>3. CASE sheet' = sheet /\ \A i \in DOMAIN posts : F!InFlight(posts'[i]) => posts'[i].heard = posts[i].heard
  <2>1. SheetIsEmpty'
    BY <1>3 DEF FormInv, SheetInv, SheetIsEmpty, F!Shut, F!NoText
  <2>2. SureAlone'
    <3> SUFFICES ASSUME Steady, sheet.row # Nothing, sheet.sure, NEW i \in DOMAIN posts', F!InFlight(posts'[i])
                 PROVE  /\ posts'[i].heard = "form" /\ posts'[i].row = sheet.row /\ posts'[i].sure
                        /\ ~posts'[i].crossed /\ posts'[i].typed \subseteq sheet.typed
      BY <1>3 DEF SureAlone, Steady, F!InFlight
    <3>1. i \in DOMAIN posts /\ F!InFlight(posts[i]) /\ posts'[i].heard = posts[i].heard
          /\ posts'[i].row = posts[i].row /\ posts'[i].typed = posts[i].typed
          /\ posts'[i].sure = posts[i].sure /\ posts'[i].crossed = posts[i].crossed
      BY <1>3 DEF LaterPosts, Later, F!InFlight
    <3> QED
      BY <3>1 DEF FormInv, SheetInv, SureAlone
  <2>3. DraftIsNew'
    BY <1>3 DEF FormInv, SheetInv, DraftIsNew, Steady
  <2> QED
    BY <1>3, <2>1, <2>2, <2>3 DEF FormInv, FormTypes, SheetInv
<1> QED
  BY <1>1, <1>2, <1>3

\* Or it is filled with what was saved from it.
LEMMA SheetRefills ==
    ASSUME FormInv, UNCHANGED <<policy, records>>, LaterPosts(posts'), copy' \in Copies,
           policy.refills, sheet.row # Nothing,
           sheet' = [sheet EXCEPT !.draft = copy'[sheet.row], !.typed = {}],
           Steady /\ sheet.sure => copy' = records /\ \A i \in DOMAIN posts : ~F!InFlight(posts'[i])
    PROVE  sheet' \in Sheets /\ SheetInv'
<1>1. sheet \in Sheets /\ sheet.row \in Records /\ policy.fills = "opening"
  BY PoliciesFit DEF FormInv, FormTypes, Sheets, Fits
<1>2. PICK d : d = copy'[sheet.row]
  OBVIOUS
<1>3. d \in TextsOf
  BY <1>1, <1>2 DEF Copies
<1>4. PICK s : s = [sheet EXCEPT !.draft = d, !.typed = {}]
  OBVIOUS
<1>5. s \in Sheets /\ s.draft = d /\ s.row = sheet.row /\ s.sure = sheet.sure /\ s.wiping = sheet.wiping
  BY <1>1, <1>3, <1>4 DEF Sheets
<1>6. sheet' = s
  BY <1>2, <1>4
<1>7. SureAlone'
  <2> SUFFICES ASSUME Steady, sheet.sure, NEW i \in DOMAIN posts', F!InFlight(posts'[i]) PROVE FALSE
    BY <1>5, <1>6 DEF SureAlone, Steady, F!InFlight
  <2> QED
    BY DEF LaterPosts
<1>8. DraftIsNew'
  BY <1>1, <1>2, <1>5, <1>6 DEF DraftIsNew, Steady
<1> QED
  BY <1>5, <1>6, <1>7, <1>8 DEF FormInv, SheetInv, SheetIsEmpty

\* The requests of Ended are over, and the form is told.
LEMMA ToldKeeps ==
    ASSUME FormInv, UNCHANGED <<policy, records>>, copy' \in Copies, NEW Ended \in SUBSET DOMAIN posts, NEW ps,
           F!Told(Ended, ps), LaterPosts(ps),
           \A i \in DOMAIN posts : ps[i].heard = posts[i].heard,
           policy.refills /\ Steady /\ sheet.row # Nothing /\ sheet.sure /\ (\E i \in Ended : ps[i].heard = "form")
               => copy' = records /\ \A i \in DOMAIN posts \ Ended : ~F!InFlight(ps[i])
    PROVE  /\ sheet' \in Sheets /\ SheetInv' /\ LaterPosts(posts')
           /\ \A i \in Ended : posts'[i].at = "over"
           /\ \A i \in DOMAIN posts \ Ended : posts'[i].at = ps[i].at
<1>1. PICK os : os = [i \in DOMAIN ps |-> IF i \in Ended THEN F!Over ELSE ps[i]]
  OBVIOUS
<1>2. PICK o : o = F!Over
  OBVIOUS
<1>3. o \in Posted /\ o.at = "over"
  BY <1>2 DEF F!Over, Posted
<1>4. Len(ps) \in Nat /\ DOMAIN ps = 1..Len(ps) /\ \A i \in 1..Len(ps) : ps[i] \in Posted
  BY LenProperties, ElementOfSeq DEF LaterPosts
<1>5. os \in [1..Len(ps) -> Posted] /\ \A i \in DOMAIN ps : os[i] = IF i \in Ended THEN o ELSE ps[i]
  BY <1>1, <1>2, <1>3, <1>4
<1>6. os \in Seq(Posted) /\ DOMAIN os = DOMAIN posts /\ DOMAIN ps = DOMAIN posts
  BY <1>4, <1>5, SeqDef DEF LaterPosts
<1>7. LaterPosts(os) /\ (\A i \in Ended : os[i].at = "over") /\ \A i \in DOMAIN posts \ Ended : os[i].at = ps[i].at
  BY <1>3, <1>5, <1>6 DEF LaterPosts, Later
<1>8. \/ sheet' = F!Closed /\ posts' = F!Unheard(os)
      \/ /\ policy.refills /\ sheet.row # Nothing /\ \E i \in Ended : ps[i].heard = "form"
         /\ sheet' = [sheet EXCEPT !.draft = copy'[sheet.row], !.typed = {}] /\ posts' = os
      \/ sheet' = sheet /\ posts' = os
  BY <1>1 DEF F!Told
<1>9. CASE sheet' = F!Closed /\ posts' = F!Unheard(os)
  <2>1. PICK us : us = F!Unheard(os)
    OBVIOUS
  <2>2. us \in Seq(Posted) /\ DOMAIN us = DOMAIN os /\ \A i \in DOMAIN os :
                  /\ us[i].row = os[i].row /\ us[i].input = os[i].input /\ us[i].typed = os[i].typed
                  /\ us[i].sure = os[i].sure /\ us[i].answer = os[i].answer /\ us[i].crossed = os[i].crossed
                  /\ us[i].at = os[i].at
    BY <1>6, <2>1, UnheardPosts
  <2>3. LaterPosts(us) /\ \A i \in DOMAIN posts : us[i].at = os[i].at
    BY <1>6, <1>7, <2>2 DEF LaterPosts, Later
  <2>4. posts' = us
    BY <1>9, <2>1
  <2>5. sheet' \in Sheets /\ SheetInv'
    BY <1>9, <2>3, <2>4, SheetStays
  <2> QED
    BY <1>7, <2>3, <2>4, <2>5
<1>10. CASE /\ policy.refills /\ sheet.row # Nothing /\ \E i \in Ended : ps[i].heard = "form"
            /\ sheet' = [sheet EXCEPT !.draft = copy'[sheet.row], !.typed = {}] /\ posts' = os
  <2>1. Steady /\ sheet.sure => copy' = records /\ \A i \in DOMAIN posts : ~F!InFlight(posts'[i])
    BY <1>7, <1>10 DEF F!InFlight
  <2>2. sheet' \in Sheets /\ SheetInv'
    BY <1>7, <1>10, <2>1, SheetRefills
  <2> QED
    BY <1>7, <1>10, <2>2
<1>11. CASE sheet' = sheet /\ posts' = os
  <2>1. \A i \in DOMAIN posts : F!InFlight(posts'[i]) => posts'[i].heard = posts[i].heard
    BY <1>3, <1>5, <1>6, <1>11 DEF F!InFlight
  <2>2. sheet' \in Sheets /\ SheetInv'
    BY <1>7, <1>11, <2>1, SheetStays
  <2> QED
    BY <1>7, <1>11, <2>2
<1> QED
  BY <1>8, <1>9, <1>10, <1>11

\* What is shown stays as new as it is while as much is under way.
LEMMA CopyStays ==
    ASSUME FormInv, UNCHANGED <<policy, records, copy, reading, doubt>>, DOMAIN posts' = DOMAIN posts,
           \A i \in DOMAIN posts : posts'[i].at = posts[i].at
    PROVE  CopyIsNew'
<1>1. ServedOnes' = ServedOnes /\ F!Waiting' = F!Waiting
  BY DEF ServedOnes, F!Waiting
<1> QED
  BY <1>1 DEF FormInv, CopyIsNew

LEMMA LaterSame == FormInv => LaterPosts(posts)
  BY DEF FormInv, FormTypes, PostTypes, LaterPosts, Later

\* What is done with a form before anything is sent from it.
LEMMA FillingKeeps ==
    ASSUME FormInv, \/ \E r \in Records : F!Open(r)
                    \/ \E f \in Fields : F!Type(f)
                    \/ F!Wipe
    PROVE  FormInv' /\ TypedOnly
<1>0. sheet \in Sheets /\ texts \in Nat /\ copy \in Copies /\ Nothing \notin Records
  BY PagesAssumption DEF FormInv, FormTypes
<1>1. UNCHANGED <<policy, records, copy, reading, posts, doubt>> /\ texts' \in Nat
  <2>1. UNCHANGED <<policy, records, copy, reading, posts, doubt>>
    BY DEF F!Open, F!Type, F!Wipe, F!Server
  <2>2. texts' = texts \/ texts' = texts + 1
    BY DEF F!Open, F!Type, F!Wipe
  <2> QED
    BY <1>0, <2>1, <2>2
<1>2. PostTypes' /\ PostsInv' /\ TypedOnly /\ CopyIsNew'
  BY <1>1, LaterSame, LaterKeeps, CopyStays
<1>3. ASSUME NEW r \in Records, F!Open(r) PROVE sheet' \in Sheets /\ SheetInv'
  <2>1. PICK b \in BOOLEAN : b <=> (F!Quiet /\ ~doubt)
    OBVIOUS
  <2>2. PICK d : d = IF policy.fills = "opening" THEN copy[r] ELSE sheet.draft
    OBVIOUS
  <2>3. d \in TextsOf
    BY <1>0, <2>2 DEF Copies, Sheets
  <2>4. PICK s : s = [sheet EXCEPT !.row = r, !.sure = b, !.draft = d]
    OBVIOUS
  <2>5. s \in Sheets /\ s.row = r /\ s.sure = b /\ s.draft = d /\ s.typed = sheet.typed /\ s.wiping = sheet.wiping
    BY <1>0, <2>3, <2>4 DEF Sheets
  <2>6. sheet' = s /\ sheet.row = Nothing /\ policy.fills # "never"
    BY <1>3, <2>1, <2>2, <2>4 DEF F!Open
  <2>7. SheetIsEmpty'
    BY <1>0, <1>1, <2>5, <2>6 DEF FormInv, SheetInv, SheetIsEmpty
  <2>8. SureAlone'
    BY <1>1, <2>1, <2>5, <2>6 DEF SureAlone, F!Quiet
  <2>9. ASSUME Steady, b PROVE \A f \in Fields : d[f] = IF policy.fills = "blank" THEN 0 ELSE records[r][f]
    <3>1. CASE policy.fills = "opening"
      <4>1. ServedOnes = {} /\ F!Waiting = {}
        BY <2>1, <2>9 DEF F!Quiet, F!InFlight, ServedOnes, F!Waiting
      <4>2. copy = records
        BY <2>1, <2>9, <4>1 DEF FormInv, CopyIsNew, Steady
      <4> QED
        BY <2>2, <3>1, <4>2
    <3>2. CASE policy.fills = "blank"
      <4>1. sheet = F!Shut
        BY <2>6, <2>9 DEF FormInv, SheetInv, SheetIsEmpty, Steady
      <4> QED
        BY <2>2, <3>2, <4>1, ShutSheet
    <3> QED
      BY <2>6, <3>1, <3>2, PoliciesFit DEF FormInv, FormTypes, Fits
  <2>10. DraftIsNew'
    BY <1>1, <2>5, <2>6, <2>9 DEF DraftIsNew, Steady
  <2> QED
    BY <2>5, <2>6, <2>7, <2>8, <2>10 DEF SheetInv
<1>4. ASSUME NEW f \in Fields, F!Type(f) PROVE sheet' \in Sheets /\ SheetInv'
  <2>1. PICK d : d = [sheet.draft EXCEPT ![f] = texts']
    OBVIOUS
  <2>2. d \in TextsOf /\ \A g \in Fields \ {f} : d[g] = sheet.draft[g]
    BY <1>0, <1>1, <2>1 DEF TextsOf, Sheets
  <2>3. PICK t : t = sheet.typed \cup {<<sheet.row, f>>}
    OBVIOUS
  <2>4. sheet.row \in Records /\ sheet.typed \subseteq t /\ <<sheet.row, f>> \in t /\ t \subseteq Records \X Fields
    <3>1. sheet.row \in Records /\ sheet.typed \in SUBSET (Records \X Fields)
      BY <1>0, <1>4 DEF F!Type, Sheets
    <3>2. <<sheet.row, f>> \in Records \X Fields
      BY <3>1
    <3> QED
      BY <2>3, <3>1, <3>2
  <2>5. PICK s : s = [sheet EXCEPT !.draft = d, !.typed = t]
    OBVIOUS
  <2>6. s \in Sheets /\ s.row = sheet.row /\ s.sure = sheet.sure /\ s.draft = d /\ s.typed = t
        /\ s.wiping = sheet.wiping
    BY <1>0, <2>2, <2>4, <2>5 DEF Sheets
  <2>7. sheet' = s
    BY <1>4, <2>1, <2>3, <2>5 DEF F!Type
  <2>8. SheetIsEmpty'
    BY <1>0, <1>1, <2>4, <2>6, <2>7 DEF FormInv, SheetInv, SheetIsEmpty
  <2>9. SureAlone'
    BY <1>1, <2>4, <2>6, <2>7 DEF FormInv, SheetInv, SureAlone, Steady
  <2>10. DraftIsNew'
    BY <1>1, <2>2, <2>4, <2>6, <2>7 DEF FormInv, SheetInv, DraftIsNew, Steady
  <2> QED
    BY <2>6, <2>7, <2>8, <2>9, <2>10 DEF SheetInv
<1>5. CASE F!Wipe
  <2>1. policy.keeps
    BY <1>5 DEF F!Wipe, FormInv, SheetInv, SheetIsEmpty
  <2>2. PICK h : h = F!Shut
    OBVIOUS
  <2>3. PICK s : s = [h EXCEPT !.row = sheet.row, !.sure = sheet.sure]
    OBVIOUS
  <2>4. s \in Sheets /\ s.row = sheet.row
    BY <1>0, <2>2, <2>3, ShutSheet DEF Sheets
  <2>5. sheet' = s
    BY <1>5, <2>2, <2>3 DEF F!Wipe
  <2>6. SheetInv'
    BY <1>1, <2>1, <2>4, <2>5 DEF FormInv, SheetInv, SheetIsEmpty, SureAlone, DraftIsNew, Steady
  <2>7. sheet' \in Sheets /\ SheetInv'
    BY <2>4, <2>5, <2>6
  <2> QED
    BY <1>1, <1>2, <2>7 DEF FormInv, FormTypes
<1> QED
  BY <1>1, <1>2, <1>3, <1>4, <1>5 DEF FormInv, FormTypes

LEMMA ClosingKeeps ==
    ASSUME FormInv, F!Close \/ F!Turn
    PROVE  FormInv' /\ TypedOnly
<1>1. UNCHANGED <<policy, records, copy, reading, doubt, texts>>
  BY DEF F!Close, F!Turn, F!Server
<1>2. Len(posts) \in Nat /\ DOMAIN posts = 1..Len(posts) /\ posts \in Seq(Posted)
      /\ \A i \in 1..Len(posts) : posts[i] \in Posted
  BY LenProperties, ElementOfSeq DEF FormInv, FormTypes, PostTypes
<1>3. PICK ps : ps = posts'
  OBVIOUS
<1>4. LaterPosts(ps) /\ \A i \in DOMAIN posts : ps[i].at = posts[i].at
  <2>1. CASE F!Close
    <3>1. ps = F!Unheard(posts)
      BY <1>3, <2>1 DEF F!Close
    <3>2. ps \in Seq(Posted) /\ DOMAIN ps = DOMAIN posts /\ \A i \in DOMAIN posts :
                  /\ ps[i].row = posts[i].row /\ ps[i].input = posts[i].input /\ ps[i].typed = posts[i].typed
                  /\ ps[i].sure = posts[i].sure /\ ps[i].answer = posts[i].answer
                  /\ ps[i].crossed = posts[i].crossed /\ ps[i].at = posts[i].at
      BY <1>2, <3>1, UnheardPosts
    <3> QED
      BY <3>2 DEF LaterPosts, Later
  <2>2. CASE F!Turn
    <3>1. ps = [i \in DOMAIN posts |-> [posts[i] EXCEPT !.heard = "no"]]
      BY <1>3, <2>2 DEF F!Turn
    <3>2. ASSUME NEW i \in 1..Len(posts)
          PROVE  ps[i] \in Posted /\ Later(posts[i], ps[i]) /\ ps[i].at = posts[i].at
      <4>1. PICK q : q = [posts[i] EXCEPT !.heard = "no"]
        OBVIOUS
      <4>2. q \in Posted /\ Later(posts[i], q) /\ q.at = posts[i].at
        BY <1>2, <4>1 DEF Posted, Later
      <4> QED
        BY <1>2, <3>1, <4>1, <4>2
    <3>3. ps \in [1..Len(posts) -> Posted]
      BY <1>2, <3>1, <3>2
    <3>4. ps \in Seq(Posted)
      BY <1>2, <3>3, SeqDef
    <3> QED
      BY <1>2, <3>2, <3>3, <3>4 DEF LaterPosts
  <2> QED
    BY <2>1, <2>2
<1>5. DOMAIN posts' = DOMAIN posts /\ LaterPosts(posts') /\ \A i \in DOMAIN posts : posts'[i].at = posts[i].at
  BY <1>3, <1>4 DEF LaterPosts
<1>6. PostTypes' /\ PostsInv' /\ TypedOnly /\ CopyIsNew'
  BY <1>1, <1>5, LaterKeeps, CopyStays
<1>7. sheet' \in Sheets /\ SheetInv'
  <2>1. CASE F!Turn
    BY <1>1, <1>5, <2>1, SheetStays DEF F!Turn
  <2>2. CASE F!Close
    <3>1. PICK w \in IF policy.wipes THEN BOOLEAN ELSE {FALSE} : sheet' = [F!Closed EXCEPT !.wiping = @ \/ w]
      BY <2>2 DEF F!Close
    <3>2. CASE policy.keeps
      <4>1. PICK c : c = F!Closed
        OBVIOUS
      <4>2. c \in Sheets /\ c.row = Nothing
        BY <3>2, <4>1 DEF F!Closed, FormInv, FormTypes, Sheets
      <4>3. PICK b \in BOOLEAN : b <=> (c.wiping \/ w)
        OBVIOUS
      <4>4. PICK s : s = [c EXCEPT !.wiping = b]
        OBVIOUS
      <4>5. s \in Sheets /\ s.row = Nothing
        BY <4>2, <4>4 DEF Sheets
      <4>6. sheet' = s
        <5>1. w \in BOOLEAN /\ c.wiping \in BOOLEAN
          BY <3>1, <4>2 DEF Sheets
        <5>2. b = (c.wiping \/ w)
          BY <4>3, <5>1
        <5> QED
          BY <3>1, <4>1, <4>4, <5>2
      <4> QED
        BY <1>1, <3>2, <4>5, <4>6 DEF SheetInv, SheetIsEmpty, SureAlone, DraftIsNew
    <3>3. CASE ~policy.keeps
      <4>1. ~w
        BY <3>1, <3>3, PoliciesFit DEF FormInv, FormTypes, Fits
      <4>2. sheet' = F!Shut
        <5>1. PICK h : h = F!Shut
          OBVIOUS
        <5>2. h \in Sheets /\ h.wiping = FALSE
          BY <5>1, ShutSheet
        <5>3. (h.wiping \/ w) = FALSE
          BY <4>1, <5>2
        <5>4. sheet' = [h EXCEPT !.wiping = h.wiping \/ w]
          BY <3>1, <3>3, <5>1 DEF F!Closed
        <5>5. [h EXCEPT !.wiping = FALSE] = h
          BY <5>2 DEF Sheets
        <5> QED
          BY <5>1, <5>3, <5>4, <5>5
      <4> QED
        BY <1>1, <1>5, <4>2, SheetStays
    <3> QED
      BY <3>2, <3>3
  <2> QED
    BY <2>1, <2>2
<1> QED
  BY <1>1, <1>6, <1>7 DEF FormInv, FormTypes

\* A request is sent.
LEMMA SendingKeeps ==
    ASSUME FormInv, UNCHANGED <<policy, records, copy, reading, doubt>>, NEW p \in Posted, F!Send(p),
           p.at = "sent", p.row \in Records, p.input \in Inputs, p.crossed <=> ~F!Quiet,
           Steady /\ p.sure /\ F!Quiet =>
               \A f \in DOMAIN p.input : <<p.row, f>> \in p.typed \/ p.input[f] = records[p.row][f]
    PROVE  /\ PostTypes' /\ PostsInv' /\ TypedOnly /\ CopyIsNew'
           /\ \A i \in DOMAIN posts' : (i \in DOMAIN posts /\ posts'[i].at = posts[i].at) \/ posts'[i] = p
<1>1. Len(posts) \in Nat /\ DOMAIN posts = 1..Len(posts) /\ \A i \in 1..Len(posts) : posts[i] \in Posted
  BY LenProperties, ElementOfSeq DEF FormInv, FormTypes, PostTypes
<1>2. PICK cs : cs = [i \in DOMAIN posts |-> [posts[i] EXCEPT !.crossed = @ \/ F!InFlight(posts[i])]]
  OBVIOUS
<1>3. ASSUME NEW i \in 1..Len(posts)
      PROVE  /\ cs[i] \in Posted /\ cs[i].row = posts[i].row /\ cs[i].input = posts[i].input
             /\ cs[i].typed = posts[i].typed /\ cs[i].sure = posts[i].sure /\ cs[i].at = posts[i].at
             /\ cs[i].answer = posts[i].answer /\ (cs[i].crossed <=> posts[i].crossed \/ F!InFlight(posts[i]))
  <2>1. PICK b \in BOOLEAN : b <=> (posts[i].crossed \/ F!InFlight(posts[i]))
    OBVIOUS
  <2>2. PICK q : q = [posts[i] EXCEPT !.crossed = b]
    OBVIOUS
  <2>3. /\ q \in Posted /\ q.row = posts[i].row /\ q.input = posts[i].input
        /\ q.typed = posts[i].typed /\ q.sure = posts[i].sure /\ q.at = posts[i].at
        /\ q.answer = posts[i].answer /\ q.crossed = b
    BY <1>1, <2>2 DEF Posted
  <2>4. (posts[i].crossed \/ F!InFlight(posts[i])) = b
    BY <1>1, <2>1 DEF Posted
  <2>5. cs[i] = q
    BY <1>1, <1>2, <2>2, <2>4
  <2> QED
    BY <2>1, <2>3, <2>5
<1>4. cs \in [1..Len(posts) -> Posted]
  BY <1>1, <1>2, <1>3
<1>5. cs \in Seq(Posted) /\ Len(cs) = Len(posts) /\ DOMAIN cs = DOMAIN posts
  BY <1>1, <1>4, SeqDef, LenProperties
<1>6. PICK ps : ps = Append(cs, p)
  OBVIOUS
<1>7. /\ ps \in Seq(Posted) /\ Len(ps) = Len(posts) + 1 /\ DOMAIN ps = 1..(Len(posts) + 1)
      /\ \A i \in 1..Len(posts) : ps[i] = cs[i]
      /\ ps[Len(posts) + 1] = p
  BY <1>1, <1>5, <1>6, AppendProperties, LenProperties
<1>8. posts' = ps
  BY <1>2, <1>6 DEF F!Send
<1>9. ASSUME NEW i \in DOMAIN ps
      PROVE  \/ /\ i \in DOMAIN posts /\ ps[i].row = posts[i].row /\ ps[i].input = posts[i].input
                /\ ps[i].typed = posts[i].typed /\ ps[i].sure = posts[i].sure /\ ps[i].at = posts[i].at
                /\ ps[i].answer = posts[i].answer /\ (ps[i].crossed <=> posts[i].crossed \/ F!InFlight(posts[i]))
             \/ i = Len(posts) + 1 /\ ps[i] = p
  BY <1>1, <1>3, <1>7
<1>10. PostTypes'
  BY <1>1, <1>7, <1>8, <1>9 DEF FormInv, FormTypes, PostTypes, F!InFlight
<1>11. PairsCross'
  <2> SUFFICES ASSUME NEW i \in DOMAIN ps, NEW j \in DOMAIN ps, i # j, F!InFlight(ps[i]), F!InFlight(ps[j])
               PROVE  ps[i].crossed
    BY <1>8 DEF PairsCross, F!InFlight
  <2>1. CASE i \in DOMAIN posts
    BY <1>1, <1>9, <2>1 DEF F!InFlight
  <2>2. CASE i = Len(posts) + 1
    <3>1. j \in DOMAIN posts /\ F!InFlight(posts[j])
      BY <1>1, <1>9, <2>2 DEF F!InFlight
    <3> QED
      BY <1>7, <2>2, <3>1 DEF F!Quiet
  <2> QED
    BY <1>9, <2>1, <2>2
<1>12. AnswersAreNew'
  <2> SUFFICES ASSUME NEW i \in DOMAIN ps, policy.after = "replace", ps[i].at = "served", ~ps[i].crossed
               PROVE  ps[i].answer = records
    BY <1>8 DEF AnswersAreNew
  <2> QED
    BY <1>9 DEF FormInv, PostsInv, AnswersAreNew
<1>13. InputIsNew'
  <2> SUFFICES ASSUME Steady, NEW i \in DOMAIN ps, ps[i].at = "sent", ps[i].sure, ~ps[i].crossed,
                      NEW f \in DOMAIN ps[i].input
               PROVE  <<ps[i].row, f>> \in ps[i].typed \/ ps[i].input[f] = records[ps[i].row][f]
    BY <1>8 DEF InputIsNew, Steady
  <2> QED
    BY <1>9 DEF FormInv, PostsInv, InputIsNew
<1>14. TypedOnly
  BY <1>1, <1>3, <1>7, <1>8 DEF TypedOnly
<1>15. CopyIsNew'
  <2>1. ServedOnes' = ServedOnes /\ F!Waiting' = F!Waiting
    BY <1>1, <1>3, <1>7, <1>8 DEF ServedOnes, F!Waiting
  <2> QED
    BY <2>1 DEF FormInv, CopyIsNew
<1> QED
  BY <1>8, <1>9, <1>10, <1>11, <1>12, <1>13, <1>14, <1>15 DEF PostsInv

\* What a request is made of.
LEMMA PostIs ==
    ASSUME NEW r \in Records, NEW t \in Inputs, NEW typed \in SUBSET (Records \X Fields), NEW sure \in BOOLEAN,
           NEW h \in {"form", "page"}
    PROVE  \E p \in Posted :
               /\ p = [F!Post(r, t, typed, sure) EXCEPT !.heard = h]
               /\ h = "form" => p = F!Post(r, t, typed, sure)
               /\ p.row = r /\ p.input = t /\ p.typed = typed /\ p.sure = sure /\ p.at = "sent" /\ p.heard = h
               /\ p.crossed <=> ~F!Quiet
<1>1. PICK c \in BOOLEAN : c = ~F!Quiet
  BY Zenon DEF F!Quiet
<1>2. PICK q : q = [row |-> r, input |-> t, typed |-> typed, sure |-> sure, at |-> "sent", heard |-> "form",
                    answer |-> Nothing, crossed |-> c]
  OBVIOUS
<1>3. q = F!Post(r, t, typed, sure)
  BY <1>1, <1>2 DEF F!Post
<1>4. q \in Posted /\ q.row = r /\ q.input = t /\ q.typed = typed /\ q.sure = sure /\ q.at = "sent"
      /\ q.heard = "form" /\ q.crossed = c
  BY <1>2 DEF Posted
<1>5. PICK p : p = [q EXCEPT !.heard = h]
  OBVIOUS
<1>6. p \in Posted /\ p.row = r /\ p.input = t /\ p.typed = typed /\ p.sure = sure /\ p.at = "sent"
      /\ p.heard = h /\ p.crossed = c
  BY <1>4, <1>5 DEF Posted
<1>7. h = "form" => p = q
  BY <1>4, <1>5 DEF Posted
<1> QED
  BY <1>1, <1>3, <1>5, <1>6, <1>7

\* The button of a form is pressed.
LEMMA PressKeeps ==
    ASSUME FormInv, F!Press
    PROVE  FormInv' /\ TypedOnly
<1>1. /\ UNCHANGED <<policy, records, copy, reading, doubt, texts>> /\ sheet \in Sheets /\ sheet.row \in Records
      /\ sheet.draft \in TextsOf /\ sheet.typed \in SUBSET (Records \X Fields) /\ sheet.sure \in BOOLEAN
      /\ ~F!Waits /\ (policy.fills = "blank" => \A f \in Fields : sheet.draft[f] # 0)
      /\ policy.gate = "form" \/ policy.gate = "page"
  <2>1. sheet \in Sheets /\ sheet.row # Nothing
    BY DEF F!Press, FormInv, FormTypes
  <2>2. policy.gate = "form" \/ policy.gate = "page"
    BY <2>1, PoliciesFit DEF FormInv, FormTypes, SheetInv, SheetIsEmpty, Fits
  <2> QED
    BY <2>1, <2>2 DEF F!Press, F!Server, Sheets
<1>2. PICK t : t = IF policy.sends = "all" THEN [f \in Fields |-> sheet.draft[f]]
                   ELSE [f \in {g \in Fields : <<sheet.row, g>> \in sheet.typed} |-> sheet.draft[f]]
  OBVIOUS
<1>3. /\ t \in Inputs
      /\ \A f \in DOMAIN t : f \in Fields /\ t[f] = sheet.draft[f]
             /\ (policy.sends # "all" => <<sheet.row, f>> \in sheet.typed)
  <2>1. CASE policy.sends = "all"
    <3>1. t \in [Fields -> Nat] /\ DOMAIN t = Fields /\ \A f \in Fields : t[f] = sheet.draft[f]
      BY <1>1, <1>2, <2>1 DEF TextsOf
    <3> QED
      BY <2>1, <3>1 DEF Inputs
  <2>2. CASE policy.sends # "all"
    <3> DEFINE Own == {g \in Fields : <<sheet.row, g>> \in sheet.typed}
    <3>1. t \in [Own -> Nat] /\ DOMAIN t = Own /\ \A f \in Own : t[f] = sheet.draft[f]
      BY <1>1, <1>2, <2>2 DEF TextsOf
    <3>2. Own \in SUBSET Fields
      OBVIOUS
    <3>3. t \in Inputs
      BY <3>1, <3>2 DEF Inputs
    <3> QED
      BY <3>1, <3>3
  <2> QED
    BY <2>1, <2>2
<1>4. PICK h \in {"form", "page"} : h = IF policy.closes = "press" THEN "page" ELSE "form"
  OBVIOUS
<1>5. PICK p \in Posted :
               /\ p = [F!Post(sheet.row, t, sheet.typed, sheet.sure) EXCEPT !.heard = h]
               /\ h = "form" => p = F!Post(sheet.row, t, sheet.typed, sheet.sure)
               /\ p.row = sheet.row /\ p.input = t /\ p.typed = sheet.typed /\ p.sure = sheet.sure
               /\ p.at = "sent" /\ p.heard = h
               /\ p.crossed <=> ~F!Quiet
  BY <1>1, <1>3, PostIs
<1>6. F!Send(p) /\ IF policy.closes = "press" THEN sheet' = F!Shut ELSE sheet' = sheet
  BY <1>2, <1>4, <1>5 DEF F!Press
<1>7. ASSUME Steady, sheet.sure, NEW f \in DOMAIN t
      PROVE  <<sheet.row, f>> \in sheet.typed \/ t[f] = records[sheet.row][f]
  <2>1. <<sheet.row, f>> \in sheet.typed \/ sheet.draft[f] = IF policy.fills = "blank" THEN 0 ELSE records[sheet.row][f]
    BY <1>1, <1>3, <1>7, PagesAssumption DEF FormInv, SheetInv, DraftIsNew
  <2> QED
    BY <1>1, <1>3, <1>7, <2>1
<1>8. /\ PostTypes' /\ PostsInv' /\ TypedOnly /\ CopyIsNew'
      /\ \A i \in DOMAIN posts' : (i \in DOMAIN posts /\ posts'[i].at = posts[i].at) \/ posts'[i] = p
  <2>1. /\ p.row \in Records /\ p.input \in Inputs
        /\ Steady /\ p.sure /\ F!Quiet =>
               \A f \in DOMAIN p.input : <<p.row, f>> \in p.typed \/ p.input[f] = records[p.row][f]
    BY <1>1, <1>3, <1>5, <1>7
  <2> QED
    BY <1>1, <1>5, <1>6, <2>1, SendingKeeps
<1>9. sheet' \in Sheets /\ SheetInv'
  <2>1. CASE sheet' = F!Shut
    BY <1>1, <2>1, ShutSheet DEF SheetInv, SheetIsEmpty, SureAlone, DraftIsNew, F!Shut, F!NoText
  <2>2. CASE sheet' = sheet /\ policy.closes # "press"
    <3>1. SheetIsEmpty' /\ DraftIsNew'
      BY <1>1, <2>2 DEF FormInv, SheetInv, SheetIsEmpty, DraftIsNew, Steady, F!Shut, F!NoText
    <3>2. ASSUME Steady, sheet.sure PROVE F!Quiet
      <4> SUFFICES ASSUME NEW i \in DOMAIN posts, F!InFlight(posts[i]) PROVE FALSE
        BY DEF F!Quiet
      <4>1. posts[i].heard = "form"
        BY <1>1, <3>2, PagesAssumption DEF FormInv, SheetInv, SureAlone
      <4> QED
        BY <1>1, <4>1 DEF F!Waits
    <3>3. SureAlone'
      <4> SUFFICES ASSUME Steady, sheet.sure, NEW i \in DOMAIN posts', F!InFlight(posts'[i])
                   PROVE  /\ posts'[i].heard = "form" /\ posts'[i].row = sheet.row /\ posts'[i].sure
                          /\ ~posts'[i].crossed /\ posts'[i].typed \subseteq sheet.typed
        BY <1>1, <2>2 DEF SureAlone, Steady, F!InFlight
      <4>1. posts'[i] = p
        BY <1>8, <3>2 DEF F!Quiet, F!InFlight
      <4> QED
        BY <1>4, <1>5, <2>2, <3>2, <4>1
    <3> QED
      BY <1>1, <2>2, <3>1, <3>3 DEF SheetInv
  <2> QED
    BY <1>6, <2>1, <2>2
<1> QED
  BY <1>1, <1>8, <1>9 DEF FormInv, FormTypes

\* A control is switched, or an older version put back.
LEMMA SwitchingKeeps ==
    ASSUME FormInv, F!Restore \/ \E r \in Records, f \in Fields : F!Flip(r, f)
    PROVE  FormInv' /\ TypedOnly
<1>1. UNCHANGED <<policy, records, copy, reading, doubt, texts, sheet>> /\ sheet \in Sheets /\ copy \in Copies
  BY DEF F!Restore, F!Flip, F!Server, FormInv, FormTypes
<1>2. SheetInv' /\ PostTypes' /\ PostsInv' /\ TypedOnly /\ CopyIsNew'
  <2>1. SheetIsEmpty' /\ DraftIsNew'
    BY <1>1 DEF FormInv, SheetInv, SheetIsEmpty, DraftIsNew, Steady, F!Shut, F!NoText
  <2>2. CASE F!Restore
    <3>1. PICK t : t = F!NoText
      OBVIOUS
    <3>2. t \in Inputs
      <4>1. t \in [Fields -> Nat]
        BY <3>1 DEF F!NoText
      <4> QED
        BY <4>1 DEF Inputs
    <3>3. ~Steady /\ sheet.row \in Records /\ sheet.sure \in BOOLEAN
      BY <1>1, <2>2 DEF F!Restore, Steady, Sheets
    <3>4. PICK typed : typed = {sheet.row} \X Fields
      OBVIOUS
    <3>5. typed \in SUBSET (Records \X Fields)
      BY <3>3, <3>4
    <3>6. PICK p \in Posted :
               /\ p = [F!Post(sheet.row, t, typed, sheet.sure) EXCEPT !.heard = "page"]
               /\ p.row = sheet.row /\ p.input = t /\ p.at = "sent"
               /\ p.crossed <=> ~F!Quiet
      BY <3>2, <3>3, <3>5, PostIs
    <3>7. F!Send(p)
      BY <2>2, <3>1, <3>4, <3>6 DEF F!Restore
    <3>8. PostTypes' /\ PostsInv' /\ TypedOnly /\ CopyIsNew'
      BY <1>1, <3>2, <3>3, <3>6, <3>7, SendingKeeps
    <3>9. SureAlone'
      BY <1>1, <3>3 DEF SureAlone, Steady
    <3> QED
      BY <2>1, <3>8, <3>9 DEF SheetInv
  <2>3. ASSUME NEW r \in Records, NEW f \in Fields, F!Flip(r, f)
        PROVE  SheetInv' /\ PostTypes' /\ PostsInv' /\ TypedOnly /\ CopyIsNew'
    <3>1. PICK o \in Nat : o = IF copy[r][f] = 0 THEN 1 ELSE 0
      OBVIOUS
    <3>2. PICK t : t = IF policy.sends = "all" THEN [copy[r] EXCEPT ![f] = o] ELSE [g \in {f} |-> o]
      OBVIOUS
    <3>3. t \in Inputs /\ \A g \in DOMAIN t : g = f \/ (g \in Fields /\ t[g] = copy[r][g])
      <4>1. CASE policy.sends = "all"
        <5>1. copy[r] \in [Fields -> Nat]
          BY <1>1 DEF Copies, TextsOf
        <5>2. t \in [Fields -> Nat] /\ \A g \in Fields \ {f} : t[g] = copy[r][g]
          BY <3>2, <4>1, <5>1
        <5> QED
          BY <5>2 DEF Inputs
      <4>2. CASE policy.sends # "all"
        <5>1. t \in [{f} -> Nat] /\ {f} \in SUBSET Fields
          BY <3>2, <4>2
        <5> QED
          BY <5>1 DEF Inputs
      <4> QED
        BY <4>1, <4>2
    <3>4. PICK b \in BOOLEAN : b = (F!Quiet /\ ~doubt)
      BY Zenon DEF F!Quiet
    <3>5. {<<r, f>>} \in SUBSET (Records \X Fields)
      OBVIOUS
    <3>6. PICK p \in Posted :
               /\ p = [F!Post(r, t, {<<r, f>>}, b) EXCEPT !.heard = "form"]
               /\ "form" = "form" => p = F!Post(r, t, {<<r, f>>}, b)
               /\ p.row = r /\ p.input = t /\ p.typed = {<<r, f>>} /\ p.sure = b /\ p.at = "sent"
               /\ p.heard = "form"
               /\ p.crossed <=> ~F!Quiet
      <4>1. "form" \in {"form", "page"} /\ b \in BOOLEAN
        BY <3>4
      <4> QED
        BY <3>3, <3>5, <4>1, PostIs
    <3>7. F!Send(p) /\ policy.fills = "never"
      <4>1. /\ policy.fills = "never"
            /\ F!Send(F!Post(r, IF policy.sends = "all" THEN [copy[r] EXCEPT ![f] = IF copy[r][f] = 0 THEN 1 ELSE 0]
                               ELSE [g \in {f} |-> IF copy[r][f] = 0 THEN 1 ELSE 0],
                            {<<r, f>>}, F!Quiet /\ ~doubt))
        BY <2>3 DEF F!Flip
      <4>2. t = IF policy.sends = "all" THEN [copy[r] EXCEPT ![f] = IF copy[r][f] = 0 THEN 1 ELSE 0]
                ELSE [g \in {f} |-> IF copy[r][f] = 0 THEN 1 ELSE 0]
        BY <3>1, <3>2
      <4>3. F!Send(F!Post(r, t, {<<r, f>>}, b))
        BY <3>4, <4>1, <4>2, Zenon
      <4> QED
        BY <3>6, <4>1, <4>3
    <3>8. ASSUME Steady, b PROVE copy = records
      <4>1. ServedOnes = {} /\ F!Waiting = {}
        BY <3>4, <3>8 DEF F!Quiet, F!InFlight, ServedOnes, F!Waiting
      <4> QED
        BY <3>4, <3>8, <4>1 DEF FormInv, CopyIsNew, Steady
    <3>9. Steady /\ p.sure /\ F!Quiet =>
               \A g \in DOMAIN p.input : <<p.row, g>> \in p.typed \/ p.input[g] = records[p.row][g]
      BY <3>3, <3>6, <3>8
    <3>10. PostTypes' /\ PostsInv' /\ TypedOnly /\ CopyIsNew'
      BY <1>1, <3>3, <3>6, <3>7, <3>9, SendingKeeps
    <3>11. SureAlone'
      BY <1>1, <3>7 DEF FormInv, SheetInv, SheetIsEmpty, SureAlone
    <3> QED
      BY <2>1, <3>10, <3>11 DEF SheetInv
  <2> QED
    BY <2>2, <2>3
<1> QED
  BY <1>1, <1>2 DEF FormInv, FormTypes

\* The server does what a request asks for.
LEMMA ServingKeeps ==
    ASSUME FormInv, NEW k \in DOMAIN posts, F!Serve(k)
    PROVE  FormInv' /\ TypedOnly
<1>1. Len(posts) \in Nat /\ DOMAIN posts = 1..Len(posts) /\ posts \in Seq(Posted) /\ posts[k] \in Posted
  BY LenProperties, ElementOfSeq DEF FormInv, FormTypes, PostTypes
<1>2. /\ posts[k].at = "sent" /\ F!InFlight(posts[k]) /\ posts[k].row \in Records /\ posts[k].input \in Inputs
      /\ records \in Copies /\ UNCHANGED <<policy, sheet, texts, copy, reading, doubt>>
  BY DEF F!Serve, F!Screen, F!InFlight, FormInv, FormTypes, PostTypes
<1>3. PICK r, t : r = posts[k].row /\ t = posts[k].input
  OBVIOUS
<1>4. PICK n : n = [f \in Fields |-> IF f \in DOMAIN t THEN t[f] ELSE records[r][f]]
  OBVIOUS
<1>5. n \in TextsOf /\ \A f \in Fields : n[f] = IF f \in DOMAIN t THEN t[f] ELSE records[r][f]
  <2>1. \A f \in DOMAIN t : t[f] \in Nat
    BY <1>2, <1>3 DEF Inputs
  <2>2. \A f \in Fields : records[r][f] \in Nat
    BY <1>2, <1>3 DEF Copies, TextsOf
  <2> QED
    BY <1>4, <2>1, <2>2 DEF TextsOf
<1>6. records' = [records EXCEPT ![r] = n]
  BY <1>3, <1>4 DEF F!Serve
<1>7. records' \in Copies /\ records'[r] = n /\ \A q \in Records \ {r} : records'[q] = records[q]
  BY <1>2, <1>3, <1>5, <1>6 DEF Copies
<1>8. PICK a : a = IF policy.after = "replace" THEN records' ELSE Nothing
  OBVIOUS
<1>9. a \in Copies \union {Nothing}
  BY <1>7, <1>8
<1>10. PICK c : c = [posts[k] EXCEPT !.at = "served", !.answer = a]
  OBVIOUS
<1>11. /\ c \in Posted /\ c.at = "served" /\ c.answer = a /\ c.row = r /\ c.input = t
       /\ c.typed = posts[k].typed /\ c.sure = posts[k].sure /\ c.crossed = posts[k].crossed
       /\ c.heard = posts[k].heard
  BY <1>1, <1>3, <1>9, <1>10 DEF Posted
<1>12. PICK ps : ps = [posts EXCEPT ![k] = c]
  OBVIOUS
<1>13. ps \in Seq(Posted) /\ DOMAIN ps = DOMAIN posts /\ ps[k] = c
       /\ \A i \in DOMAIN posts \ {k} : ps[i] = posts[i]
  BY <1>1, <1>11, <1>12, ExceptSeq, LenProperties
<1>14. posts' = ps
  BY <1>8, <1>10, <1>12 DEF F!Serve
<1>15. \A i \in DOMAIN posts \ {k} : F!InFlight(posts[i]) => posts[i].crossed /\ posts[k].crossed
  BY <1>2 DEF FormInv, PostsInv, PairsCross
<1>16. PostTypes'
  <2> SUFFICES ASSUME NEW i \in DOMAIN ps
               PROVE  /\ F!InFlight(ps[i]) => ps[i].row \in Records /\ ps[i].input \in Inputs
                      /\ policy.after = "replace" /\ ps[i].at = "served" => ps[i].answer \in Copies
                      /\ policy.after # "reread" => ps[i].at # "rereads"
    BY <1>2, <1>13, <1>14 DEF PostTypes, F!InFlight
  <2>1. CASE i = k
    BY <1>2, <1>3, <1>7, <1>8, <1>11, <1>13, <2>1
  <2>2. CASE i # k
    BY <1>13, <2>2 DEF FormInv, FormTypes, PostTypes
  <2> QED
    BY <2>1, <2>2
<1>17. PairsCross'
  <2> SUFFICES ASSUME NEW i \in DOMAIN ps, NEW j \in DOMAIN ps, i # j, F!InFlight(ps[i]), F!InFlight(ps[j])
               PROVE  ps[i].crossed
    BY <1>14 DEF PairsCross, F!InFlight
  <2>1. F!InFlight(posts[i]) /\ F!InFlight(posts[j]) /\ ps[i].crossed = posts[i].crossed
    BY <1>2, <1>11, <1>13
  <2> QED
    BY <1>13, <2>1 DEF FormInv, PostsInv, PairsCross
<1>18. AnswersAreNew'
  <2> SUFFICES ASSUME NEW i \in DOMAIN ps, policy.after = "replace", ps[i].at = "served", ~ps[i].crossed
               PROVE  ps[i].answer = records'
    BY <1>2, <1>14 DEF AnswersAreNew
  <2>1. i = k
    BY <1>13, <1>15 DEF F!InFlight
  <2> QED
    BY <1>8, <1>11, <1>13, <2>1
<1>19. InputIsNew'
  <2> SUFFICES ASSUME NEW i \in DOMAIN ps, ps[i].at = "sent", ~ps[i].crossed PROVE FALSE
    BY <1>2, <1>14 DEF InputIsNew, Steady
  <2> QED
    BY <1>11, <1>13, <1>15 DEF F!InFlight
<1>20. CopyIsNew'
  <2>1. k \in ServedOnes'
    BY <1>11, <1>13, <1>14 DEF ServedOnes
  <2> QED
    BY <2>1 DEF CopyIsNew
<1>21. ASSUME Steady, posts[k].sure, ~posts[k].crossed, NEW f \in Fields, n[f] # records[r][f]
       PROVE  <<r, f>> \in posts[k].typed
  BY <1>2, <1>3, <1>5, <1>21 DEF FormInv, PostsInv, InputIsNew
<1>22. SheetInv'
  <2>1. SheetIsEmpty'
    BY <1>2 DEF FormInv, SheetInv, SheetIsEmpty, F!Shut, F!NoText
  <2>2. SureAlone'
    <3> SUFFICES ASSUME Steady, sheet.row # Nothing, sheet.sure, NEW i \in DOMAIN ps, F!InFlight(ps[i])
                 PROVE  /\ ps[i].heard = "form" /\ ps[i].row = sheet.row /\ ps[i].sure
                        /\ ~ps[i].crossed /\ ps[i].typed \subseteq sheet.typed
      BY <1>2, <1>14 DEF SureAlone, Steady, F!InFlight
    <3>1. F!InFlight(posts[i]) /\ ps[i].heard = posts[i].heard /\ ps[i].row = posts[i].row
          /\ ps[i].sure = posts[i].sure /\ ps[i].crossed = posts[i].crossed /\ ps[i].typed = posts[i].typed
      BY <1>2, <1>3, <1>11, <1>13
    <3> QED
      BY <1>13, <3>1 DEF FormInv, SheetInv, SureAlone
  <2>3. DraftIsNew'
    <3> SUFFICES ASSUME Steady, sheet.row # Nothing, sheet.sure, NEW f \in Fields, <<sheet.row, f>> \notin sheet.typed
                 PROVE  sheet.draft[f] = IF policy.fills = "blank" THEN 0 ELSE records'[sheet.row][f]
      BY <1>2 DEF DraftIsNew, Steady
    <3>1. posts[k].row = sheet.row /\ posts[k].sure /\ ~posts[k].crossed /\ posts[k].typed \subseteq sheet.typed
      BY <1>2 DEF FormInv, SheetInv, SureAlone
    <3>2. n[f] = records[r][f]
      BY <1>3, <1>21, <3>1
    <3> QED
      BY <1>3, <1>7, <3>1, <3>2 DEF FormInv, SheetInv, DraftIsNew
  <2> QED
    BY <2>1, <2>2, <2>3 DEF SheetInv
<1>23. TypedOnly
  <2> SUFFICES ASSUME NEW i \in DOMAIN posts, F!Careful, posts[i].at = "sent", posts'[i].at = "served",
                      posts[i].sure, ~posts[i].crossed, NEW q \in Records, NEW f \in Fields,
                      records'[q][f] # records[q][f]
               PROVE  <<q, f>> \in posts[i].typed
    BY DEF TypedOnly
  <2>1. i = k /\ q = r /\ n[f] # records[r][f]
    BY <1>7, <1>13, <1>14
  <2> QED
    BY <1>21, <2>1 DEF F!Careful, Steady
<1> QED
  BY <1>2, <1>7, <1>16, <1>17, <1>18, <1>19, <1>20, <1>22, <1>23 DEF FormInv, FormTypes, PostsInv

\* After a doubt nothing is promised of what is shown, nor of what is being read.
LEMMA DoubtIs ==
    ASSUME FormInv, UNCHANGED policy, F!Doubt
    PROVE  reading' \in Reads /\ (reading'.at = "read" => reading'.what \in Copies) /\ CopyIsNew'
<1>1. PICK b \in BOOLEAN : b <=> reading.at # "no"
  OBVIOUS
<1>2. PICK r : r = [reading EXCEPT !.old = b]
  OBVIOUS
<1>3. r \in Reads /\ r.at = reading.at /\ r.what = reading.what /\ r.old = b
  BY <1>2 DEF FormInv, FormTypes, Reads
<1>4. reading' = r /\ doubt'
  BY <1>1, <1>2 DEF F!Doubt
<1>5. CopyIsNew'
  BY <1>1, <1>3, <1>4 DEF CopyIsNew
<1> QED
  BY <1>3, <1>4, <1>5 DEF FormInv, FormTypes

LEMMA AskedIs ==
    ASSUME reading' = F!Asked
    PROVE  reading' \in Reads /\ reading'.at = "asked"
<1>1. PICK r : r = F!Asked
  OBVIOUS
<1>2. r \in Reads /\ r.at = "asked"
  BY <1>1 DEF F!Asked, F!Idle, Reads
<1> QED
  BY <1>1, <1>2

\* A request is refused, or its answer is lost.
LEMMA LosingKeeps ==
    ASSUME FormInv, NEW k \in DOMAIN posts, F!Fail(k)
    PROVE  FormInv' /\ TypedOnly
<1>1. UNCHANGED <<policy, records, copy, sheet, texts>> /\ posts[k].at \in {"sent", "served"}
  BY DEF F!Fail, F!Screen
<1>2. PICK o : o = F!Over
  OBVIOUS
<1>3. o \in Posted /\ o.at = "over"
  BY <1>2 DEF F!Over, Posted
<1>4. /\ posts' = [posts EXCEPT ![k] = o] /\ posts' \in Seq(Posted) /\ DOMAIN posts' = DOMAIN posts
      /\ posts'[k] = o /\ \A i \in DOMAIN posts \ {k} : posts'[i] = posts[i]
  <2>1. posts' = [posts EXCEPT ![k] = o] /\ posts \in Seq(Posted)
    BY <1>2 DEF F!Fail, FormInv, FormTypes, PostTypes
  <2> QED
    BY <1>3, <2>1, ExceptSeq, LenProperties
<1>5. LaterPosts(posts')
  BY <1>3, <1>4 DEF LaterPosts, Later
<1>6. PostTypes' /\ PostsInv' /\ TypedOnly
  BY <1>1, <1>5, LaterKeeps
<1>7. sheet' \in Sheets /\ SheetInv'
  <2>1. \A i \in DOMAIN posts : F!InFlight(posts'[i]) => posts'[i].heard = posts[i].heard
    BY <1>3, <1>4 DEF F!InFlight
  <2> QED
    BY <1>1, <1>5, <2>1, SheetStays
<1>8. reading' \in Reads /\ (reading'.at = "read" => reading'.what \in Copies) /\ CopyIsNew'
  <2>1. CASE posts[k].at = "served"
    <3>1. F!Doubt
      BY <2>1 DEF F!Fail
    <3> QED
      BY <1>1, <3>1, DoubtIs
  <2>2. CASE posts[k].at = "sent"
    <3>1. UNCHANGED <<reading, doubt>>
      BY <2>2 DEF F!Fail
    <3>2. ServedOnes' = ServedOnes /\ F!Waiting' = F!Waiting
      BY <1>3, <1>4, <2>2 DEF ServedOnes, F!Waiting
    <3>3. CopyIsNew'
      BY <1>1, <3>1, <3>2 DEF FormInv, CopyIsNew
    <3> QED
      BY <3>1, <3>3 DEF FormInv, FormTypes
  <2> QED
    BY <1>1, <2>1, <2>2
<1>9. FormTypes'
  BY <1>1, <1>6, <1>7, <1>8 DEF FormInv, FormTypes
<1> QED
  BY <1>6, <1>7, <1>8, <1>9 DEF FormInv

\* What a step that serves nothing has to keep.
LEMMA AllKeep ==
    ASSUME FormInv, UNCHANGED <<policy, records, texts>>, sheet' \in Sheets, SheetInv', LaterPosts(posts'),
           copy' \in Copies, reading' \in Reads, reading'.at = "read" => reading'.what \in Copies, CopyIsNew'
    PROVE  FormInv' /\ TypedOnly
<1>1. PostTypes' /\ PostsInv' /\ TypedOnly
  BY LaterKeeps
<1>2. FormTypes'
  BY <1>1 DEF FormInv, FormTypes
<1> QED
  BY <1>1, <1>2 DEF FormInv

\* A change is answered: it is put into the cache, or the records are read again.
LEMMA AnsweringKeeps ==
    ASSUME FormInv, NEW k \in DOMAIN posts, F!Answer(k)
    PROVE  FormInv' /\ TypedOnly
<1>1. /\ UNCHANGED <<policy, records, texts>> /\ posts[k].at = "served" /\ F!InFlight(posts[k])
      /\ copy \in Copies /\ {k} \in SUBSET DOMAIN posts /\ LaterPosts(posts)
  BY LaterSame DEF F!Answer, F!InFlight, FormInv, FormTypes
<1>2. Fits(policy)
  BY PoliciesFit DEF FormInv, FormTypes
<1>3. ASSUME sheet' \in Sheets, SheetInv', LaterPosts(posts'), copy' \in Copies, reading' \in Reads,
             reading'.at = "read" => reading'.what \in Copies, CopyIsNew'
      PROVE  FormInv' /\ TypedOnly
  BY <1>1, <1>3, AllKeep
<1>4. CASE policy.after = "replace"
  <2>1. F!ReplaceWith(k) /\ posts[k].answer \in Copies
    BY <1>1, <1>4 DEF F!Answer, FormInv, FormTypes, PostTypes
  <2>2. copy' = posts[k].answer /\ F!Told({k}, posts)
    BY <2>1 DEF F!ReplaceWith
  <2>3. ~posts[k].crossed => copy' = records /\ \A i \in DOMAIN posts \ {k} : ~F!InFlight(posts[i])
    BY <1>1, <1>4, <2>2 DEF FormInv, PostsInv, AnswersAreNew, PairsCross
  <2>4. Steady /\ sheet.row # Nothing /\ sheet.sure => ~posts[k].crossed
    BY <1>1 DEF FormInv, SheetInv, SureAlone
  <2>5. policy.refills /\ Steady /\ sheet.row # Nothing /\ sheet.sure /\ (\E i \in {k} : posts[i].heard = "form")
            => copy' = records /\ \A i \in DOMAIN posts \ {k} : ~F!InFlight(posts[i])
    BY <2>3, <2>4
  <2>6. copy' \in Copies
    BY <2>1, <2>2
  <2>7. sheet' \in Sheets /\ SheetInv' /\ LaterPosts(posts')
    BY <1>1, <2>2, <2>5, <2>6, ToldKeeps
  <2>8. reading' \in Reads /\ (reading'.at = "read" => reading'.what \in Copies) /\ CopyIsNew'
    <3>1. CASE posts[k].crossed \/ reading.at # "no"
      <4>1. F!Doubt
        BY <2>1, <3>1 DEF F!ReplaceWith
      <4> QED
        BY <1>1, <4>1, DoubtIs
    <3>2. CASE ~(posts[k].crossed \/ reading.at # "no")
      <4>1. UNCHANGED <<reading, doubt>> /\ reading.at = "no"
        BY <2>1, <3>2 DEF F!ReplaceWith
      <4>2. CopyIsNew'
        BY <1>1, <2>3, <3>2, <4>1 DEF CopyIsNew
      <4> QED
        BY <4>1, <4>2 DEF FormInv, FormTypes
    <3> QED
      BY <3>1, <3>2
  <2> QED
    BY <1>3, <2>6, <2>7, <2>8
<1>5. CASE policy.after = "mark"
  <2>1. reading' = F!Asked /\ UNCHANGED copy /\ F!Told({k}, posts)
    BY <1>5 DEF F!Answer, F!Invalidate
  <2>2. ~policy.refills
    BY <1>2, <1>5 DEF Fits
  <2>3. sheet' \in Sheets /\ SheetInv' /\ LaterPosts(posts')
    BY <1>1, <2>1, <2>2, ToldKeeps
  <2>4. reading' \in Reads /\ reading'.at = "asked"
    BY <2>1, AskedIs
  <2>5. CopyIsNew'
    BY <1>1, <1>5, <2>4 DEF CopyIsNew
  <2> QED
    BY <1>1, <1>3, <2>1, <2>3, <2>4, <2>5
<1>6. CASE policy.after = "reread"
  <2>1. PICK c : c = [posts[k] EXCEPT !.at = "rereads"]
    OBVIOUS
  <2>2. PICK ps : ps = [posts EXCEPT ![k] = c]
    OBVIOUS
  <2>3. reading' = F!Asked /\ UNCHANGED copy /\ F!Told(F!Waiting, ps)
    <3>1. ps = [posts EXCEPT ![k].at = "rereads"]
      BY <2>1, <2>2
    <3> QED
      BY <1>6, <3>1 DEF F!Answer, F!Invalidate
  <2>4. /\ posts \in Seq(Posted) /\ posts[k] \in Posted
    BY LenProperties, ElementOfSeq DEF FormInv, FormTypes, PostTypes
  <2>5. /\ c \in Posted /\ c.at = "rereads" /\ c.row = posts[k].row /\ c.input = posts[k].input
        /\ c.typed = posts[k].typed /\ c.sure = posts[k].sure /\ c.answer = posts[k].answer
        /\ c.crossed = posts[k].crossed /\ c.heard = posts[k].heard
    BY <2>1, <2>4 DEF Posted
  <2>6. ps \in Seq(Posted) /\ DOMAIN ps = DOMAIN posts /\ ps[k] = c
        /\ \A i \in DOMAIN posts \ {k} : ps[i] = posts[i]
    BY <2>2, <2>4, <2>5, ExceptSeq, LenProperties
  <2>7. LaterPosts(ps) /\ \A i \in DOMAIN posts : ps[i].heard = posts[i].heard
    BY <1>1, <1>6, <2>5, <2>6 DEF LaterPosts, Later
  <2>8. ~policy.refills
    BY <1>2, <1>6 DEF Fits
  <2>9. F!Waiting \in SUBSET DOMAIN posts /\ k \notin F!Waiting
    BY <1>1 DEF F!Waiting
  <2>10. /\ sheet' \in Sheets /\ SheetInv' /\ LaterPosts(posts')
         /\ \A i \in DOMAIN posts \ F!Waiting : posts'[i].at = ps[i].at
    BY <1>1, <2>3, <2>7, <2>8, <2>9, ToldKeeps
  <2>11. F!Waiting' # {}
    <3>1. k \in DOMAIN posts' /\ posts'[k].at = "rereads"
      BY <2>5, <2>6, <2>9, <2>10 DEF LaterPosts
    <3> QED
      BY <3>1 DEF F!Waiting
  <2>12. reading' \in Reads /\ reading'.at = "asked"
    BY <2>3, AskedIs
  <2>13. CopyIsNew'
    BY <2>11, <2>12 DEF CopyIsNew
  <2> QED
    BY <1>1, <1>3, <2>3, <2>10, <2>12, <2>13
<1> QED
  BY <1>2, <1>4, <1>5, <1>6 DEF Fits

\* Nobody waits for a read but after a change that has the records read again.
LEMMA NobodyWaits == FormInv /\ policy.after # "reread" => F!Waiting = {}
  BY DEF FormInv, FormTypes, PostTypes, F!Waiting

\* The records are read again: it is asked for, served, arrives or fails.
LEMMA LookingKeeps ==
    ASSUME FormInv, F!Look \/ F!Read
    PROVE  FormInv' /\ TypedOnly
<1>1. UNCHANGED <<policy, records, copy, sheet, texts, posts, doubt>> /\ records \in Copies /\ copy \in Copies
  BY DEF F!Look, F!Read, F!Invalidate, F!Screen, FormInv, FormTypes
<1>2. LaterPosts(posts')
  BY <1>1, LaterSame DEF LaterPosts, Later
<1>3. sheet' \in Sheets /\ SheetInv'
  BY <1>1, <1>2, SheetStays
<1>4. ServedOnes' = ServedOnes /\ F!Waiting' = F!Waiting
  BY <1>1 DEF ServedOnes, F!Waiting
<1>5. reading' \in Reads /\ reading'.at \in {"asked", "read"} /\ (reading'.at = "read" => reading'.what = records)
  <2>1. CASE F!Look
    <3>1. reading' \in Reads /\ reading'.at = "asked"
      BY <2>1, AskedIs DEF F!Look, F!Invalidate
    <3> QED
      BY <3>1
  <2>2. CASE F!Read
    <3>1. PICK r : r = [reading EXCEPT !.at = "read", !.what = records]
      OBVIOUS
    <3>2. r \in Reads /\ r.at = "read" /\ r.what = records
      BY <1>1, <3>1 DEF FormInv, FormTypes, Reads
    <3>3. reading' = r
      BY <2>2, <3>1 DEF F!Read
    <3> QED
      BY <3>2, <3>3
  <2> QED
    BY <2>1, <2>2
<1>6. CopyIsNew'
  BY <1>1, <1>4, <1>5 DEF FormInv, CopyIsNew
<1> QED
  BY <1>1, <1>2, <1>3, <1>5, <1>6, AllKeep

LEMMA ReadingKeeps ==
    ASSUME FormInv, F!Arrive \/ F!ReadFails
    PROVE  FormInv' /\ TypedOnly
<1>1. UNCHANGED <<policy, records, texts>> /\ records \in Copies /\ copy \in Copies /\ LaterPosts(posts)
  BY LaterSame DEF F!Arrive, F!ReadFails, FormInv, FormTypes
<1>2. Fits(policy)
  BY PoliciesFit DEF FormInv, FormTypes
<1>3. copy' \in Copies
  BY <1>1 DEF F!Arrive, F!ReadFails, FormInv, FormTypes
<1>4. PICK r : r = F!Idle
  OBVIOUS
<1>5. r \in Reads /\ r.at = "no"
  BY <1>4 DEF F!Idle, Reads
<1>6. reading' = r
  BY <1>4 DEF F!Arrive, F!ReadFails
<1>7. ASSUME F!Told(F!Waiting, posts)
      PROVE  sheet' \in Sheets /\ SheetInv' /\ LaterPosts(posts') /\ (ServedOnes' = {} => ServedOnes = {})
  <2>1. F!Waiting \in SUBSET DOMAIN posts
    BY DEF F!Waiting
  <2>2. policy.refills => F!Waiting = {}
    BY <1>2, NobodyWaits DEF Fits
  <2>3. /\ sheet' \in Sheets /\ SheetInv' /\ LaterPosts(posts')
        /\ \A i \in DOMAIN posts \ F!Waiting : posts'[i].at = posts[i].at
    BY <1>1, <1>3, <1>7, <2>1, <2>2, ToldKeeps
  <2>4. \A i \in ServedOnes : i \in DOMAIN posts \ F!Waiting
    BY DEF ServedOnes, F!Waiting
  <2>5. ServedOnes' = {} => ServedOnes = {}
    BY <2>3, <2>4 DEF ServedOnes, LaterPosts
  <2> QED
    BY <2>3, <2>5
<1>8. ASSUME F!Remade
      PROVE  sheet' \in Sheets /\ SheetInv' /\ LaterPosts(posts') /\ (ServedOnes' = {} => ServedOnes = {})
  <2>1. ~Steady /\ sheet.row # Nothing /\ sheet \in Sheets /\ sheet.row \in Records
    BY <1>2, <1>8 DEF F!Remade, Steady, Fits, FormInv, FormTypes, Sheets
  <2>2. PICK d : d = copy'[sheet.row]
    OBVIOUS
  <2>3. d \in TextsOf
    BY <1>3, <2>1, <2>2 DEF Copies
  <2>4. PICK b \in BOOLEAN : b = (F!Quiet /\ ~doubt')
    BY Zenon DEF F!Quiet
  <2>5. PICK s : s = [sheet EXCEPT !.draft = d, !.typed = {}, !.sure = b]
    OBVIOUS
  <2>6. s \in Sheets /\ s.row = sheet.row /\ s.wiping = sheet.wiping
    BY <2>1, <2>3, <2>4, <2>5 DEF Sheets
  <2>7. sheet' = s
    <3>1. sheet' = [sheet EXCEPT !.draft = copy'[sheet.row], !.typed = {}, !.sure = (F!Quiet /\ ~doubt')]
      BY <1>8 DEF F!Remade
    <3> QED
      BY <2>2, <2>4, <2>5, <3>1, Zenon
  <2>8. SheetInv'
    BY <1>1, <2>1, <2>6, <2>7 DEF FormInv, SheetInv, SheetIsEmpty, SureAlone, DraftIsNew, Steady
  <2>9. PICK us : us = F!Unheard(posts)
    OBVIOUS
  <2>10. us \in Seq(Posted) /\ DOMAIN us = DOMAIN posts /\ \A i \in DOMAIN posts :
             /\ us[i].row = posts[i].row /\ us[i].input = posts[i].input /\ us[i].typed = posts[i].typed
             /\ us[i].sure = posts[i].sure /\ us[i].answer = posts[i].answer /\ us[i].crossed = posts[i].crossed
             /\ us[i].at = posts[i].at
    BY <1>1, <2>9, UnheardPosts DEF LaterPosts
  <2>11. posts' = us
    BY <1>8, <2>9 DEF F!Remade
  <2>12. LaterPosts(posts') /\ (ServedOnes' = {} => ServedOnes = {})
    BY <2>10, <2>11 DEF LaterPosts, Later, ServedOnes
  <2> QED
    BY <2>6, <2>7, <2>8, <2>12
<1>9. CASE F!Arrive
  <2>1. /\ F!Told(F!Waiting, posts) \/ F!Remade
        /\ reading.at = "read" /\ copy' = reading.what /\ (doubt' <=> reading.old)
    BY <1>9 DEF F!Arrive
  <2>2. sheet' \in Sheets /\ SheetInv' /\ LaterPosts(posts') /\ (ServedOnes' = {} => ServedOnes = {})
    BY <1>7, <1>8, <2>1
  <2>3. CopyIsNew'
    BY <1>1, <1>5, <1>6, <2>1, <2>2 DEF FormInv, CopyIsNew
  <2> QED
    BY <1>1, <1>3, <1>5, <1>6, <2>2, <2>3, AllKeep
<1>10. CASE F!ReadFails
  <2>1. F!Told(F!Waiting, posts) /\ doubt'
    BY <1>10 DEF F!ReadFails
  <2>2. CopyIsNew'
    BY <1>5, <1>6, <2>1 DEF CopyIsNew
  <2> QED
    BY <1>1, <1>3, <1>5, <1>6, <1>7, <2>1, <2>2, AllKeep
<1> QED
  BY <1>9, <1>10

LEMMA FormStep ==
    ASSUME FormInv, [Next]_pageVars
    PROVE  FormInv' /\ (TypedOnly \/ UNCHANGED forms)
<1>1. CASE UNCHANGED forms
  <2>1. UNCHANGED <<policy, records, copy, reading, sheet, posts, texts, doubt>>
    BY <1>1 DEF forms
  <2>2. LaterPosts(posts') /\ CopyIsNew'
    BY <2>1, LaterSame, CopyStays DEF LaterPosts, Later
  <2>3. sheet' \in Sheets /\ SheetInv'
    BY <2>1, <2>2, SheetStays
  <2>4. copy' \in Copies /\ reading' \in Reads /\ (reading'.at = "read" => reading'.what \in Copies)
    BY <2>1 DEF FormInv, FormTypes
  <2> QED
    BY <1>1, <2>1, <2>2, <2>3, <2>4, AllKeep
<1>2. CASE (\E r \in Records : F!Open(r)) \/ (\E f \in Fields : F!Type(f)) \/ F!Wipe
  BY <1>2, FillingKeeps
<1>3. CASE F!Close \/ F!Turn
  BY <1>3, ClosingKeeps
<1>4. CASE F!Press
  BY <1>4, PressKeeps
<1>5. CASE F!Restore \/ \E r \in Records, f \in Fields : F!Flip(r, f)
  BY <1>5, SwitchingKeeps
<1>6. CASE \E i \in DOMAIN posts : F!Serve(i) \/ F!Fail(i) \/ F!Answer(i)
  BY <1>6, ServingKeeps, LosingKeeps, AnsweringKeeps
<1>7. CASE F!Look \/ F!Read
  BY <1>7, LookingKeeps
<1>8. CASE F!Arrive \/ F!ReadFails
  BY <1>8, ReadingKeeps
<1> QED
  BY <1>1, <1>2, <1>3, <1>4, <1>5, <1>6, <1>7, <1>8, PageSteps DEF F!FormsNext

(* No save puts an old text back: a form that was opened with what was     *)
(* stored, and whose request none crossed, changes in its record what was  *)
(* typed into it, whatever else it sends.                                  *)
THEOREM OnlyTheTyped == Spec => OnlyWhatWasTyped
<1>1. FormInv /\ [Next]_pageVars => FormInv'
  BY FormStep
<1>2. FormInv /\ [Next]_pageVars => [TypedOnly]_forms
  BY FormStep
<1>3. [TypedOnly]_forms =>
        [ \A i \in DOMAIN posts :
            (F!Careful /\ posts[i].at = "sent" /\ posts'[i].at = "served"
             /\ posts[i].sure /\ ~posts[i].crossed) =>
                \A r \in Records, f \in Fields :
                    records'[r][f] # records[r][f] => <<r, f>> \in posts[i].typed ]_forms
  BY DEF TypedOnly
<1> QED
  BY <1>1, <1>2, <1>3, FormStart, PTL DEF Spec, OnlyWhatWasTyped, F!OnlyWhatWasTyped, F!forms, forms

(* Once every change has been answered, or read back, the page shows what  *)
(* is stored: no answer and no read that passed another leaves it behind,  *)
(* unless one was lost, or two crossed that are put into the cache as they *)
(* come.                                                                   *)
THEOREM QuietIsShown == Spec => []QuietMeansShown
<1>1. FormInv => QuietMeansShown
  <2> SUFFICES ASSUME FormInv, F!Quiet, reading.at = "no", ~doubt PROVE copy = records
    BY DEF QuietMeansShown, F!QuietMeansShown
  <2>1. ServedOnes = {} /\ F!Waiting = {}
    BY DEF F!Quiet, F!InFlight, ServedOnes, F!Waiting
  <2> QED
    BY <2>1 DEF FormInv, CopyIsNew
<1>2. FormInv /\ [Next]_pageVars => FormInv'
  BY FormStep
<1> QED
  BY <1>1, <1>2, FormStart, PTL DEF Spec
=============================================================================
