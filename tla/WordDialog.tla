------------------------------ MODULE WordDialog ------------------------------
(***************************************************************************)
(* The dialog with which an owner adds a word to the lexicon (WordDialog   *)
(* in features/owner/views/vocabulary-view.tsx) and the handlers it calls  *)
(* (internal/admin).  It asks the model for the fields as soon as the term *)
(* is typed; a generation, or somebody else, may add entries meanwhile.    *)
(***************************************************************************)
EXTENDS Naturals, Sequences

CONSTANTS
    Terms, Parts, FirstPart,    \* parts of speech, the one a new form starts from
    Stocks,         \* bound: what the library may hold at first
    MaxKeys,        \* bound: terms and fields typed, entries removed or added by others
    MaxSuggests,    \* bound: suggestions one form asks for
    MaxSlips,       \* bound: calls failing, pages loaded again
    Nothing

VARIABLES
    library,    \* vocabulary: the terms and parts of speech that have an entry
    form,       \* what the dialog holds, when a new word is being added
    suggests,   \* the calls of the form's suggest mutation, oldest first
    saving,     \* the new word on its way to the server
    known,      \* the query cache: what the library is known to hold under a term
    keys, slips

dialog == <<library, form, suggests, saving, known, keys, slips>>

\* The fields the model fills: the others are like the second of these.
FillFields == {"part_of_speech", "explanation"}

Entries == Terms \X Parts
Held(t) == {p \in Parts : <<t, p>> \in library}

NoSave == [at |-> "idle", entry |-> Nothing, heard |-> FALSE]
NoPause == [on |-> FALSE, pending |-> FALSE, asked |-> Nothing]

Blank == [term |-> Nothing, pos |-> FirstPart, wrote |-> [f \in FillFields |-> Nothing],
          touched |-> {}, suggestedFor |-> Nothing, pause |-> NoPause, look |-> "no", looked |-> Nothing]

Key  == keys < MaxKeys /\ keys' = keys + 1
Slip == slips < MaxSlips /\ slips' = slips + 1

-----------------------------------------------------------------------------
DialogInit ==
    /\ library \in Stocks
    /\ form = Nothing /\ suggests = <<>> /\ saving = NoSave
    /\ known = [t \in Terms |-> Nothing] /\ keys = 0 /\ slips = 0

-----------------------------------------------------------------------------
(* The dialog: the term, the fields, and when the model is asked.          *)
Change(f) ==
    /\ form' = f
    /\ UNCHANGED <<library, saving, known>>

OpenForm ==
    /\ form = Nothing
    /\ Change(Blank) /\ UNCHANGED <<suggests, keys, slips>>

\* The calls of a form that is gone fill nothing any more.
CloseForm ==
    /\ form # Nothing
    /\ Change(Nothing) /\ suggests' = <<>> /\ UNCHANGED <<keys, slips>>

pending == suggests # <<>> /\ suggests[Len(suggests)].at # "done"

\* The pause after typing acts on what the page showed when the term was typed.
TypeTerm(t) ==
    /\ form # Nothing /\ form.term # t /\ Key
    /\ Change([form EXCEPT !.term = t, !.look = "due",
                           !.pause = [on |-> TRUE, pending |-> pending, asked |-> form.suggestedFor]])
    /\ UNCHANGED <<suggests, slips>>

own(f) ==
    /\ form # Nothing /\ Key
    /\ \E p \in IF f = "part_of_speech" THEN Parts \ {form.pos} ELSE {form.pos} :
         Change([form EXCEPT !.pos = p, !.wrote[f] = "owner", !.touched = @ \cup {f}])
    /\ UNCHANGED <<suggests, slips>>

Call(t) == [term |-> t, at |-> "sent", held |-> {}, saw |-> Nothing]

(* A call that another one follows keeps what the page showed just then;   *)
(* the last one is told of every change.                                   *)
Overtaken(calls, f) ==
    [i \in DOMAIN calls |->
        IF calls[i].saw = Nothing THEN [calls[i] EXCEPT !.saw = [term |-> f.term, touched |-> f.touched]]
        ELSE calls[i]]

\* askAI, where the page shows that a call is under way and what was asked last.
askAI(f, underWay, asked) ==
    IF /\ f.term # Nothing /\ f.term # asked /\ ~underWay
       /\ known[f.term] \in {Nothing, {}} /\ Len(suggests) < MaxSuggests
    THEN /\ suggests' = Append(Overtaken(suggests, f), Call(f.term))
         /\ Change([f EXCEPT !.suggestedFor = f.term])
    ELSE Change(f) /\ UNCHANGED suggests

Pause ==
    /\ form # Nothing /\ form.pause.on
    /\ askAI([form EXCEPT !.pause = NoPause], form.pause.pending, form.pause.asked)
    /\ UNCHANGED <<keys, slips>>

Blur ==
    /\ form # Nothing
    /\ askAI(form, pending, form.suggestedFor)
    /\ UNCHANGED <<keys, slips>>

-----------------------------------------------------------------------------
(* What the library holds under the term, asked for as it is typed.        *)
Lookup ==
    /\ form # Nothing /\ form.look = "due"
    /\ \E look \in IF form.term = Nothing THEN {"no"}
                   ELSE IF known[form.term] = Nothing THEN {"asked"} ELSE {"asked", "no"} :
         Change([form EXCEPT !.look = look, !.looked = form.term])
    /\ UNCHANGED <<suggests, keys, slips>>

existingWord ==
    /\ form # Nothing /\ form.look = "asked"
    /\ known' = [known EXCEPT ![form.looked] = Held(form.looked)]
    /\ form' = [form EXCEPT !.look = "no"]
    /\ UNCHANGED <<library, suggests, saving, keys, slips>>

LookupFails ==
    /\ form # Nothing /\ form.look = "asked" /\ Slip
    /\ Change([form EXCEPT !.look = "no"]) /\ UNCHANGED <<suggests, keys>>

existing == IF form.looked # Nothing /\ form.looked = form.term THEN known[form.looked] ELSE Nothing
duplicate == existing # Nothing /\ form.pos \in existing

-----------------------------------------------------------------------------
(* suggestWord: nothing is written for a term the library already holds.   *)
suggestWord(i) ==
    /\ suggests[i].at = "sent"
    /\ suggests' = [suggests EXCEPT ![i].at = "answered", ![i].held = Held(suggests[i].term)]
    /\ UNCHANGED <<library, form, saving, known, keys, slips>>

Done(i) == suggests' = [suggests EXCEPT ![i].at = "done"]

SuggestFails(i) ==
    /\ suggests[i].at # "done" /\ Slip
    /\ Done(i) /\ UNCHANGED <<library, form, saving, known, keys>>

FillsAll(i) ==          \* mutant: an answer does not look at what was typed
    [term |-> form.term, touched |-> {}]

\* What the function that takes the answer of call i sees of the form.
Seen(i) ==
    IF suggests[i].saw # Nothing THEN suggests[i].saw
    ELSE [term |-> form.term, touched |-> form.touched]

Suggested(i) ==
    LET c == suggests[i]
    IN  /\ c.at = "answered" /\ Done(i)
        /\ IF c.held # {}
           THEN known' = [known EXCEPT ![c.term] = c.held] /\ UNCHANGED form
           ELSE /\ UNCHANGED known
                /\ IF Seen(i).term # c.term THEN UNCHANGED form
                   ELSE \E has \in SUBSET FillFields :
                          LET take == has \ Seen(i).touched
                          IN  \E p \in IF "part_of_speech" \in take THEN Parts ELSE {form.pos} :
                                form' = [form EXCEPT !.pos = p,
                                           !.wrote = [f \in FillFields |->
                                                        IF f \in take THEN c.term ELSE form.wrote[f]]]
        /\ UNCHANGED <<library, saving, keys, slips>>

-----------------------------------------------------------------------------
(* Adding the word.  The dialog can be closed while it is being saved;     *)
(* bound: one word at a time.                                              *)
ready == form.term # Nothing /\ form.wrote["explanation"] # Nothing /\ ~duplicate

Save ==
    /\ form # Nothing /\ ready /\ saving.at = "idle"
    /\ saving' = [at |-> "sent", entry |-> <<form.term, form.pos>>, heard |-> TRUE]
    /\ UNCHANGED <<library, form, suggests, known, keys, slips>>

createWord ==
    /\ saving.at = "sent"
    /\ IF saving.entry \in library
       THEN saving' = [saving EXCEPT !.at = "conflict"] /\ UNCHANGED library
       ELSE /\ library' = library \cup {saving.entry}
            /\ saving' = [saving EXCEPT !.at = "stored"]
    /\ UNCHANGED <<form, suggests, known, keys, slips>>

\* onSaved closes the dialog that is open; a conflict makes it look again.
Saved ==
    /\ saving.at \in {"stored", "conflict"} /\ saving' = NoSave
    /\ CASE saving.heard /\ saving.at = "stored" -> form' = Nothing /\ suggests' = <<>>
         [] saving.heard /\ saving.at = "conflict" /\ form # Nothing /\ form.looked # Nothing ->
              form' = [form EXCEPT !.look = "asked"] /\ UNCHANGED suggests
         [] OTHER -> UNCHANGED <<form, suggests>>
    /\ UNCHANGED <<library, known, keys, slips>>

SaveFails ==
    /\ saving.at # "idle" /\ Slip /\ saving' = NoSave
    /\ UNCHANGED <<library, form, suggests, known, keys>>

\* The dialog is modal: the list behind it is out of reach.
deleteWord(e) ==
    /\ form = Nothing /\ e \in library /\ Key
    /\ library' = library \ {e}
    /\ UNCHANGED <<form, suggests, saving, known, slips>>

(* A generation stores an entry; at its end what is looked up is read      *)
(* again, and so it is when the window is come back to.                    *)
storeGeneratedWord(e) ==
    /\ e \notin library /\ Key
    /\ library' = library \cup {e}
    /\ UNCHANGED <<form, suggests, saving, known, slips>>

LookAgain ==
    /\ form # Nothing /\ form.looked # Nothing /\ form.look = "no"
    /\ Change([form EXCEPT !.look = "asked"]) /\ UNCHANGED <<suggests, keys, slips>>

Reload ==
    /\ Slip
    /\ form' = Nothing /\ suggests' = <<>> /\ known' = [t \in Terms |-> Nothing]
    /\ saving' = [saving EXCEPT !.heard = FALSE]
    /\ UNCHANGED <<library, keys>>

-----------------------------------------------------------------------------
DialogNext ==
    \/ OpenForm \/ CloseForm \/ Pause \/ Blur
    \/ \E t \in Terms \cup {Nothing} : TypeTerm(t)
    \/ \E f \in FillFields : own(f)
    \/ Lookup \/ existingWord \/ LookupFails
    \/ \E i \in DOMAIN suggests : suggestWord(i) \/ SuggestFails(i) \/ Suggested(i)
    \/ Save \/ createWord \/ Saved \/ SaveFails
    \/ \E e \in Entries : deleteWord(e) \/ storeGeneratedWord(e)
    \/ LookAgain \/ Reload

DialogSpec == DialogInit /\ [][DialogNext]_dialog

-----------------------------------------------------------------------------
\* The form stays open and a field the owner typed into is written over.
WrittenOver ==
    /\ form # Nothing /\ form' # Nothing
    /\ \E f \in FillFields : form.wrote[f] = "owner" /\ form'.wrote[f] # "owner"

(* A field the owner has typed into is theirs and is never overwritten: so *)
(* the comment on FillField says, and the one inside WordDialog.           *)
OwnFieldsKept == [][~WrittenOver]_dialog

(* It holds for the answer of the form's last call, however the owner      *)
(* types while it is on its way.                                           *)
TakesOlder == \E i \in DOMAIN suggests : i < Len(suggests) /\ suggests'[i] # suggests[i]
OwnFieldsSpared == [][WrittenOver => TakesOlder]_dialog
=============================================================================
