--------------------------------- MODULE Asks ---------------------------------
(***************************************************************************)
(* What learners ask the model for on a page: the difference between words *)
(* and the ladder of one (internal/vocabulary), the explanation of a topic *)
(* and its diagram (internal/grammar/ai.go), the notes on a word that has  *)
(* none.  What is written is kept for everyone who asks the same.          *)
(***************************************************************************)
EXTENDS Naturals, FiniteSets

CONSTANTS
    Askers,         \* the learners, each with a page open
    Topics,         \* what can be asked about
    Allowance,      \* what the plan of each allows
    MaxAsks,        \* bound: questions asked
    MaxFlops,       \* bound: calls, statements and answers that fail
    Nothing

VARIABLES
    desk,           \* which of the panels
    latest,         \* what each page asked last
    waits,          \* the pages that wait for the answer to it
    heard,          \* the answer on the page
    picked,         \* the pages whose quick check, under the answer, was taken
    inquiries,      \* the questions under way
    kept,           \* the text kept for everyone, known by the question it was written for
    locked,         \* the words whose notes are being written
    wrote,          \* the questions a text was written for
    spent,          \* what was charged and not given back
    asked, flops

asks == <<desk, latest, waits, heard, picked, inquiries, kept, locked, wrote, spent, asked, flops>>

-----------------------------------------------------------------------------
(* The panels.  Some can be asked again while they wait, others only once  *)
(* they failed.  A diagram that cannot be kept is not shown; the notes are *)
(* free, and one request at a time writes them.                            *)
ComparePanel == [again |-> TRUE, strict |-> FALSE, free |-> FALSE]
LadderPanel  == ComparePanel
ExplainPanel == [ComparePanel EXCEPT !.again = FALSE]
VisualPanel  == [ExplainPanel EXCEPT !.strict = TRUE]
WordSheet    == [ExplainPanel EXCEPT !.free = TRUE]

AsksInit ==
    /\ desk \in {ComparePanel, LadderPanel, ExplainPanel, VisualPanel, WordSheet}
    /\ latest = [a \in Askers |-> [id |-> 0, of |-> Nothing]]
    /\ waits = {} /\ heard = [a \in Askers |-> Nothing] /\ picked = {}
    /\ inquiries = {} /\ kept = [t \in Topics |-> 0] /\ locked = {} /\ wrote = {}
    /\ spent = [a \in Askers |-> 0] /\ asked = 0 /\ flops = 0

Flop == flops < MaxFlops /\ flops' = flops + 1

Becomes(r, what) == inquiries' = (inquiries \ {r}) \union {what}
Answer(r, text) == Becomes(r, [r EXCEPT !.at = "answered", !.text = text])
FailRequest(r) == Becomes(r, [r EXCEPT !.at = "failed"])

-----------------------------------------------------------------------------
(* The pages.  A page waits for its last question only.                    *)
Client == UNCHANGED <<desk, kept, locked, wrote, spent>>

run(a, t) ==
    /\ asked < MaxAsks /\ asked' = asked + 1
    /\ desk.again \/ (a \notin waits /\ heard[a] = Nothing /\ latest[a].of \in {Nothing, t})
    /\ latest' = [latest EXCEPT ![a] = [id |-> asked', of |-> t]] /\ waits' = waits \union {a}
    /\ heard' = [heard EXCEPT ![a] = Nothing] /\ picked' = picked \ {a}
    /\ inquiries' = inquiries \union {[id |-> asked', by |-> a, of |-> t, at |-> "sent", text |-> 0, alone |-> FALSE]}
    /\ Client /\ UNCHANGED flops

HearAny(r) ==       \* mutant: whichever answer comes is shown
    /\ r.at \in {"answered", "failed"} /\ inquiries' = inquiries \ {r}
    /\ waits' = waits \ {r.by}
    /\ heard' = IF r.at = "failed" THEN heard
                ELSE [heard EXCEPT ![r.by] = [of |-> r.of, text |-> r.text, alone |-> r.alone]]
    /\ Client /\ UNCHANGED <<latest, picked, asked, flops>>

Hear(r) ==
    /\ r.at \in {"answered", "failed"} /\ inquiries' = inquiries \ {r}
    /\ IF r.id # latest[r.by].id THEN UNCHANGED <<waits, heard>>
       ELSE /\ waits' = waits \ {r.by}
            /\ heard' = IF r.at = "failed" THEN heard
                        ELSE [heard EXCEPT ![r.by] = [of |-> r.of, text |-> r.text, alone |-> r.alone]]
    /\ Client /\ UNCHANGED <<latest, picked, asked, flops>>

LoseAnswer(r) ==
    /\ r.at = "answered" /\ Flop /\ FailRequest(r)
    /\ Client /\ UNCHANGED <<latest, waits, heard, picked, asked>>

\* What stands under the question.
ComparisonResult(a) == ~desk.free /\ ~desk.strict /\ a \notin waits /\ heard[a] # Nothing

\* The check under an explanation is taken once, the quiz of a comparison again.
MiniCheck(a) ==
    /\ ComparisonResult(a) /\ a \notin picked /\ picked' = picked \union {a}
    /\ Client /\ UNCHANGED <<latest, waits, heard, inquiries, asked, flops>>

Quiz(a) ==
    /\ ComparisonResult(a) /\ desk.again /\ a \in picked /\ picked' = picked \ {a}
    /\ Client /\ UNCHANGED <<latest, waits, heard, inquiries, asked, flops>>

-----------------------------------------------------------------------------
(* The server.  A text that is kept is free; another is charged first, and *)
(* the charge given back when nothing usable was written.                  *)
Server == UNCHANGED <<desk, latest, waits, heard, picked, asked>>

Lookup(r) ==
    /\ r.at = "sent"
    /\ \/ kept[r.of] # 0 /\ Answer(r, kept[r.of]) /\ UNCHANGED <<locked, spent>>
       \/ /\ kept[r.of] = 0 /\ ~desk.free /\ UNCHANGED locked
          /\ IF spent[r.by] < Allowance
             THEN spent' = [spent EXCEPT ![r.by] = @ + 1] /\ Becomes(r, [r EXCEPT !.at = "charged"])
             ELSE FailRequest(r) /\ UNCHANGED spent
       \/ /\ kept[r.of] = 0 /\ desk.free /\ UNCHANGED spent
          /\ IF r.of \in locked THEN Answer(r, 0) /\ UNCHANGED locked
             ELSE locked' = locked \union {r.of} /\ Becomes(r, [r EXCEPT !.at = "charged"])
    /\ Server /\ UNCHANGED <<kept, wrote, flops>>

Write(r) ==
    /\ r.at = "charged" /\ wrote' = wrote \union {[id |-> r.id, by |-> r.by]}
    /\ Becomes(r, [r EXCEPT !.at = "written", !.text = r.id])
    /\ Server /\ UNCHANGED <<kept, locked, spent, flops>>

\* The model failed, or says that these are no words.
Refuse(r) ==
    /\ r.at = "charged" /\ Flop
    /\ IF desk.free THEN Answer(r, 0) /\ UNCHANGED spent
       ELSE FailRequest(r) /\ spent' = [spent EXCEPT ![r.by] = @ - 1]
    /\ Server /\ UNCHANGED <<kept, locked, wrote>>

\* A text that is there already stays, and the page shows its own; a diagram fails.
KeepOver(r) ==      \* mutant: the last one written is kept
    /\ r.at = "written" /\ kept' = [kept EXCEPT ![r.of] = r.id] /\ Answer(r, r.id)
    /\ Server /\ UNCHANGED <<locked, wrote, spent, flops>>

Keep(r) ==
    /\ r.at = "written"
    /\ IF kept[r.of] = 0 THEN kept' = [kept EXCEPT ![r.of] = r.id] /\ Answer(r, r.id)
       ELSE /\ UNCHANGED kept
            /\ IF desk.strict THEN FailRequest(r)
               ELSE Becomes(r, [r EXCEPT !.at = "answered", !.alone = TRUE])
    /\ Server /\ UNCHANGED <<locked, wrote, spent, flops>>

KeepFails(r) ==
    /\ r.at = "written" /\ Flop
    /\ IF desk.strict THEN FailRequest(r) ELSE Becomes(r, [r EXCEPT !.at = "answered", !.alone = TRUE])
    /\ Server /\ UNCHANGED <<kept, locked, wrote, spent>>

\* The lock of a word outlasts the call it was taken for.
Unlock(t) ==
    /\ t \in locked /\ \A r \in inquiries : r.of = t => r.at # "charged"
    /\ locked' = locked \ {t}
    /\ Server /\ UNCHANGED <<inquiries, kept, wrote, spent, flops>>

-----------------------------------------------------------------------------
AsksNext ==
    \/ \E a \in Askers : MiniCheck(a) \/ Quiz(a) \/ \E t \in Topics : run(a, t)
    \/ \E r \in inquiries : Hear(r) \/ LoseAnswer(r) \/ Lookup(r) \/ Write(r) \/ Refuse(r) \/ Keep(r) \/ KeepFails(r)
    \/ \E t \in Topics : Unlock(t)

AsksSpec == AsksInit /\ [][AsksNext]_asks

-----------------------------------------------------------------------------
(* The answer on a page is to the question it asked last, and the one that *)
(* everyone is shown who asks the same; a text of its own it shows only    *)
(* when it was written while another was being written too, or could not   *)
(* be kept.  A learner is charged for what was written for them.           *)
AnswersAreShared ==
    \A a \in Askers :
        /\ heard[a] # Nothing => /\ heard[a].of = latest[a].of
                                 /\ heard[a].text \in {0, kept[heard[a].of]} \/ heard[a].alone
        /\ ~desk.free => spent[a] = Cardinality({w \in wrote : w.by = a})
                                    + Cardinality({r \in inquiries : r.by = a /\ r.at = "charged"})
=============================================================================
