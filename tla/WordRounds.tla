------------------------------ MODULE WordRounds ------------------------------
(***************************************************************************)
(* Words learned in rounds: the flashcards of the learner's list, whose    *)
(* ratings decide when a word comes back (internal/vocabulary/review.go),  *)
(* and the irregular verbs, whose answers are marked (irregular.go).  A    *)
(* card is left as soon as it is rated, a verb once its answer is marked.  *)
(***************************************************************************)
EXTENDS Integers, Sequences, FiniteSets, SequencesExt

CONSTANTS
    Words,
    Limit,          \* the words of one round
    MaxMarks,       \* bound: ratings and answers
    MaxStarts,      \* bound: rounds
    MaxFaults       \* bound: requests and answers that are lost

VARIABLES
    game,           \* "cards" or "verbs"
    round, place,   \* the words of the round and the one in front of the learner
    going,          \* the round is on the page, to its end screen
    starting,       \* a round was asked for
    turned,         \* the card shows its meaning, or something is typed
    check,          \* how the verb was marked, "none" before
    requeued,       \* the words of the round that came back in it
    sends,          \* the marks under way, oldest first
    learned,        \* the server: what is known of each word
    meant,          \* what would be known of it had every mark been recorded as it was given
    overlap,        \* a word was marked again while a mark of an earlier round was under way
    marks, starts, faults

words == <<game, round, place, going, starting, turned, check, requeued, sends, learned, meant, overlap,
           marks, starts, faults>>

-----------------------------------------------------------------------------
(* review.go: the schedule.  Ease in hundredths.                           *)
Quality == [again |-> 1, hard |-> 3, good |-> 4, easy |-> 5]
Ratings == DOMAIN Quality

AtLeast(a, b) == IF a < b THEN b ELSE a
AtMost(a, b) == IF a > b THEN b ELSE a
Rounded(a, b) == (2 * a + b) \div (2 * b)

NextEase(ease, q) ==
    AtLeast(130, (IF ease < 130 THEN 250 ELSE ease) + 10 - (5 - q) * (8 + (5 - q) * 2))

Interval(s, ease, reps) ==
    CASE reps = 1 -> 1 [] reps = 2 -> 3 [] OTHER -> Rounded(AtLeast(s.days, 1) * ease, 100)

Stretched(days, reps, q) ==
    CASE q = 3 -> AtLeast(1, Rounded(days * 8, 10))
      [] q = 5 -> IF reps = 1 THEN 4 ELSE Rounded(days * 13, 10)
      [] OTHER -> days

Schedule(s, rating) ==
    LET q == Quality[rating]
        ease == NextEase(s.ease, q)
        reps == IF q < 3 THEN 0 ELSE s.reps + 1
        days == IF q < 3 THEN 0 ELSE AtMost(Stretched(Interval(s, ease, reps), reps, q), 365)
    IN  [ease |-> ease, days |-> days, reps |-> reps, due |-> FALSE]

\* A word that its learner says is known.
markKnown(s) == [s EXCEPT !.days = AtLeast(s.days, 21), !.due = FALSE]

\* irregular.go: a right answer extends the streak and a wrong one resets it.
Answered(v, mark) ==
    IF mark = "right" THEN [v EXCEPT !.correct = @ + 1, !.streak = @ + 1]
    ELSE [v EXCEPT !.wrong = @ + 1, !.streak = 0]

Recorded(s, mark) ==
    CASE mark \in Ratings -> Schedule(s, mark)
      [] mark = "known" -> markKnown(s)
      [] OTHER -> Answered(s, mark)

-----------------------------------------------------------------------------
NewCard == [ease |-> 250, days |-> 0, reps |-> 0, due |-> TRUE]
OldCard == [ease |-> 250, days |-> 8, reps |-> 3, due |-> TRUE]
NewVerb == [correct |-> 0, wrong |-> 0, streak |-> 0]

WordsInit ==
    /\ game \in {"cards", "verbs"}
    /\ learned \in [Words -> IF game = "cards" THEN {NewCard, OldCard} ELSE {NewVerb}] /\ meant = learned
    /\ round = <<>> /\ place = 1 /\ going = FALSE /\ starting = FALSE /\ turned = FALSE /\ check = "none"
    /\ requeued = {} /\ sends = <<>> /\ overlap = FALSE /\ marks = 0 /\ starts = 0 /\ faults = 0

Word == round[place]
AtEnd == place > Len(round)
Pending == \E i \in DOMAIN sends : sends[i].here
Fault == faults < MaxFaults /\ faults' = faults + 1

\* What leaves the page is not heard of again.
Left == [i \in DOMAIN sends |-> [sends[i] EXCEPT !.here = FALSE]]

Server == UNCHANGED <<game, learned, meant, overlap, marks>>

-----------------------------------------------------------------------------
(* A round is asked for from the list or from the end of the last one.     *)
startReview ==
    /\ ~starting /\ starts < MaxStarts /\ (going => AtEnd)
    /\ starting' = TRUE /\ starts' = starts + 1
    /\ Server /\ UNCHANGED <<round, place, going, turned, check, requeued, sends, faults>>

(* reviewQueue: the words that are due, and of those forgotten the ones    *)
(* whose ten minutes are over.  irregularPractice: any verbs, or those     *)
(* answered wrong last.                                                    *)
Rounds ==
    LET due == {w \in Words : learned[w].due}
        forgotten == {w \in Words \ due : learned[w].days = 0}
        mistakes == {w \in Words : learned[w].wrong > 0 /\ learned[w].streak = 0}
        from == IF game = "verbs" THEN {Words, mistakes} ELSE {due \union f : f \in SUBSET forgotten}
    IN  UNION {{r \in UNION {[1..n -> c] : n \in 0..Limit} :
                   /\ Len(r) = AtMost(Cardinality(c), Limit) /\ IsInjective(r)} : c \in from}

\* An empty round is the end screen of the cards, and a word of regret for the verbs.
RoundComes(r) ==
    /\ starting /\ starting' = FALSE
    /\ IF game = "verbs" /\ r = <<>> THEN UNCHANGED <<round, place, going, turned, check, requeued, sends>>
       ELSE round' = r /\ place' = 1 /\ going' = TRUE /\ turned' = FALSE /\ check' = "none" /\ requeued' = {}
            /\ sends' = Left
    /\ Server /\ UNCHANGED <<starts, faults>>

StartFails ==
    /\ starting /\ starting' = FALSE /\ Fault
    /\ Server /\ UNCHANGED <<round, place, going, turned, check, requeued, sends, starts>>

\* End, Back to my list, Settings: a round that is asked for comes all the same.
onDone ==
    /\ going /\ going' = FALSE
    /\ turned' = FALSE /\ check' = "none" /\ sends' = Left
    /\ Server /\ UNCHANGED <<round, place, starting, requeued, starts, faults>>

-----------------------------------------------------------------------------
\* A card is turned; the two forms of a verb are typed.
Turn ==
    /\ going /\ ~AtEnd /\ ~turned /\ turned' = TRUE
    /\ Server /\ UNCHANGED <<round, place, going, starting, check, requeued, sends, starts, faults>>

Send(w, mark) ==
    /\ marks < MaxMarks /\ marks' = marks + 1
    /\ sends' = Append(sends, [word |-> w, mark |-> mark, at |-> "sent", here |-> TRUE])
    /\ meant' = [meant EXCEPT ![w] = Recorded(@, mark)]
    /\ overlap' = (overlap \/ \E i \in DOMAIN sends : sends[i].word = w /\ ~sends[i].here)
    /\ UNCHANGED <<game, learned, starting, starts, faults>>

(* A rating is counted and the next card is there at once; a word that was *)
(* forgotten comes back at the end, once.                                  *)
Rated(rating) ==
    /\ game = "cards" /\ going /\ ~AtEnd /\ turned
    /\ Send(Word, rating)
    /\ LET comesBack == rating = "again" /\ Word \notin requeued
       IN  /\ round' = IF comesBack THEN Append(round, Word) ELSE round
           /\ requeued' = IF comesBack THEN requeued \union {Word} ELSE requeued
    /\ place' = place + 1 /\ turned' = FALSE
    /\ UNCHANGED <<going, check>>

RateAtOnce(rating) ==       \* mutant: it does not wait for the rating before
    Rated(rating)

rate(rating) == ~Pending /\ Rated(rating)

\* The answer of a verb waits for its marking, and for its learner to go on.
submit(right) ==
    /\ game = "verbs" /\ going /\ ~AtEnd /\ turned /\ check = "none" /\ ~Pending
    /\ Send(Word, IF right THEN "right" ELSE "wrong")
    /\ UNCHANGED <<round, place, going, turned, check, requeued>>

Next ==
    /\ game = "verbs" /\ going /\ check # "none"
    /\ place' = place + 1 /\ turned' = FALSE /\ check' = "none"
    /\ Server /\ UNCHANGED <<round, going, starting, requeued, sends, starts, faults>>

\* I know it, on a card of the list; each card waits for itself only.
known(w) ==
    /\ game = "cards" /\ ~going
    /\ learned[w].days < 21 /\ ~\E i \in DOMAIN sends : sends[i].here /\ sends[i].word = w
    /\ Send(w, "known")
    /\ UNCHANGED <<round, place, going, turned, check, requeued>>

-----------------------------------------------------------------------------
(* The server records marks in the order they reach it.                    *)
Store(i) ==
    /\ sends[i].at = "sent" /\ sends' = [sends EXCEPT ![i].at = "stored"]
    /\ learned' = [learned EXCEPT ![sends[i].word] = Recorded(@, sends[i].mark)]
    /\ UNCHANGED <<game, round, place, going, starting, turned, check, requeued, meant, overlap, marks, starts, faults>>

Heard(i) ==
    /\ sends[i].at = "stored" /\ sends' = RemoveAt(sends, i)
    /\ check' = IF game = "verbs" /\ sends[i].here THEN sends[i].mark ELSE check
    /\ Server /\ UNCHANGED <<round, place, going, starting, turned, requeued, starts, faults>>

\* Of a rating that fails its learner is told nothing; an answer may be sent again.
Lose(i) ==
    /\ Fault /\ sends' = RemoveAt(sends, i)
    /\ Server /\ UNCHANGED <<round, place, going, starting, turned, check, requeued, starts>>

-----------------------------------------------------------------------------
WordsNext ==
    \/ startReview \/ \E r \in Rounds : RoundComes(r)
    \/ StartFails \/ onDone \/ Turn \/ Next
    \/ \E rating \in Ratings : rate(rating)
    \/ \E right \in BOOLEAN : submit(right)
    \/ \E w \in Words : known(w)
    \/ \E i \in DOMAIN sends : Store(i) \/ Heard(i) \/ Lose(i)

WordsSpec == WordsInit /\ [][WordsNext]_words

-----------------------------------------------------------------------------
(* When nothing is under way and nothing was lost, the server knows of     *)
(* each word what its learner's marks come to in the order they were       *)
(* given, though a forgotten card comes back within its round.  Only a     *)
(* round left while a mark is under way lets a later one overtake it.      *)
MarksCountInOrder == sends = <<>> /\ faults = 0 /\ ~overlap => learned = meant
=============================================================================
