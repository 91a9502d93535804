------------------------------ MODULE EmailCodes ------------------------------
(***************************************************************************)
(* The six-digit codes sent to an address (internal/auth/email_signup.go)  *)
(* and the forms that ask for them: signing up, the owner's sign-in, the   *)
(* deletion of an account.  An address has one open code for a purpose; a  *)
(* new one takes its place in the same row, and requests of several        *)
(* windows read that row and write it in statements of their own.          *)
(***************************************************************************)
EXTENDS Naturals, Sequences, FiniteSets

CONSTANTS
    Windows,            \* the windows that show a form
    Cooldown, Lifetime, \* how long until another code may be asked for, and how long one lasts
    MaxWrong, Sends,    \* wrong codes taken against one, and codes sent in an hour
    MaxCodes, MaxTries, MaxMisses       \* bounds: codes asked for, codes tried, failures

VARIABLES
    purpose,            \* what the codes are for
    issued,             \* how many codes were issued: a code is known by its number
    row,                \* the open row: its id, its code and its age, wrong ones taken, codes sent; or one that is spent
    inbox,              \* the codes that were mailed
    windows,            \* each form: its step, and the code that waits to be confirmed
    posted,             \* the requests under way
    uses,               \* how often each code was accepted
    strays,             \* codes accepted though another had been issued before they were checked
    acted,              \* accounts created or deleted, or sessions begun
    sent, misses        \* requests made, to be sent a code and to try one

codes == <<purpose, issued, row, inbox, windows, posted, uses, strays, acted, sent, misses>>

-----------------------------------------------------------------------------
(* The forms.  Signing up and signing in try a code when its last digit is *)
(* typed; a deletion asks once more.  Their countdowns are not modelled:   *)
(* the server decides.                                                     *)
VerifyEmailForm == [auto |-> TRUE, strict |-> FALSE, resend |-> "resend", once |-> TRUE]
OwnerCodeForm   == [VerifyEmailForm EXCEPT !.strict = TRUE, !.resend = "start", !.once = FALSE]
DeleteAccountDialog == [VerifyEmailForm EXCEPT !.auto = FALSE]

NoCode == 0

CodesInit ==
    /\ purpose \in {VerifyEmailForm, OwnerCodeForm, DeleteAccountDialog}
    /\ issued = 0 /\ inbox = {}
    /\ row = [id |-> 0, open |-> FALSE, code |-> NoCode, age |-> 0, tries |-> 0, sends |-> 0]
    /\ windows = [w \in Windows |-> [step |-> "address", typed |-> NoCode]]
    /\ posted = {} /\ uses = [c \in 1..MaxCodes |-> 0] /\ strays = {} /\ acted = 0
    /\ sent = [asked |-> 0, tried |-> 0] /\ misses = 0

Cooling == row.open /\ row.age < Cooldown
Expired == row.age >= Lifetime

Waits(w, what) == \E r \in posted : r.by = w /\ r.what \in what
Miss == misses < MaxMisses /\ misses' = misses + 1

Becomes(r, what) == posted' = (posted \ {r}) \union {what}
Fail(r) == Becomes(r, [r EXCEPT !.at = "failed"])

-----------------------------------------------------------------------------
(* The windows.                                                            *)
Client == UNCHANGED <<purpose, issued, row, inbox, uses, strays, acted>>

Post(w, what, code) ==
    /\ IF what = "verify" THEN sent.tried < MaxTries /\ sent' = [sent EXCEPT !.tried = @ + 1]
       ELSE sent.asked < MaxCodes /\ sent' = [sent EXCEPT !.asked = @ + 1]
    /\ posted' = posted \union {[by |-> w, what |-> what, at |-> "sent", code |-> code, id |-> 0,
                                crossed |-> FALSE]}

sendCode(w) ==
    /\ windows[w].step = "address" /\ ~Waits(w, {"start"}) /\ Post(w, "start", NoCode)
    /\ Client /\ UNCHANGED <<windows, misses>>

onResend(w) ==
    /\ windows[w].step = "code" /\ ~Waits(w, {"start", "resend"})
    /\ (purpose.strict => ~Waits(w, {"verify"}))
    /\ Post(w, purpose.resend, NoCode)
    /\ Client /\ UNCHANGED <<windows, misses>>

\* The code read from the mail, or a wrong one.
OtpInput(w, c) ==
    /\ windows[w].step = "code" /\ ~Waits(w, {"verify"})
    /\ (purpose.strict => ~Waits(w, {"start"}))
    /\ IF purpose.auto THEN Post(w, "verify", c) /\ UNCHANGED windows
       ELSE /\ windows' = [windows EXCEPT ![w].typed = c, ![w].step = "confirm"]
            /\ UNCHANGED <<posted, sent>>
    /\ Client /\ UNCHANGED misses

deleteNow(w) ==
    /\ windows[w].step = "confirm" /\ ~Waits(w, {"verify"})
    /\ Post(w, "verify", windows[w].typed)
    /\ Client /\ UNCHANGED <<windows, misses>>

\* What was asked for goes on.
Back(w) ==
    /\ windows[w].step \in {"code", "confirm"}
    /\ windows' = [windows EXCEPT ![w].step = IF @ = "confirm" THEN "code" ELSE "address", ![w].typed = NoCode]
    /\ Client /\ UNCHANGED <<posted, sent, misses>>

HearSent(r) ==
    /\ r.what # "verify" /\ r.at \in {"answered", "failed"} /\ posted' = posted \ {r}
    /\ windows' = IF r.at = "failed" THEN windows
                  ELSE [windows EXCEPT ![r.by].step = IF r.what = "start" THEN "code" ELSE @]
    /\ Client /\ UNCHANGED <<sent, misses>>

HearVerified(r) ==
    /\ r.what = "verify" /\ r.at \in {"answered", "failed"} /\ posted' = posted \ {r}
    /\ windows' = IF r.at = "answered" THEN [windows EXCEPT ![r.by].step = "over"]
                  ELSE [windows EXCEPT ![r.by].typed = NoCode,
                                       ![r.by].step = IF purpose.auto THEN @ ELSE "code"]
    /\ Client /\ UNCHANGED <<sent, misses>>

LoseAnswer(r) ==
    /\ r.at = "answered" /\ Miss /\ Fail(r)
    /\ Client /\ UNCHANGED <<windows, sent>>

-----------------------------------------------------------------------------
(* Sending a code.  Asked for again within the cooldown, the first request *)
(* is answered with the code that is out, and an explicit one refused.     *)
Server == UNCHANGED <<purpose, windows, sent>>

Taken == purpose.once /\ acted > 0      \* the address has an account, or has none any more

StartEmailChallenge(r) ==
    /\ r.what = "start" /\ r.at = "sent"
    /\ IF Taken THEN Fail(r)
       ELSE IF Cooling /\ ~Expired THEN Becomes(r, [r EXCEPT !.at = "answered", !.code = row.code])
       ELSE Becomes(r, [r EXCEPT !.at = "issue"])
    /\ Server /\ UNCHANGED <<issued, row, inbox, uses, strays, acted, misses>>

ResendEmailChallenge(r) ==
    /\ r.what = "resend" /\ r.at = "sent"
    /\ IF Taken \/ (row.open /\ (Cooling \/ row.sends >= Sends)) THEN Fail(r)
       ELSE Becomes(r, [r EXCEPT !.at = "issue"])
    /\ Server /\ UNCHANGED <<issued, row, inbox, uses, strays, acted, misses>>

\* The code is stored before it is mailed: the one before it no longer
\* counts, whether or not the mail goes out.
issueEmailCode(r) ==
    /\ r.at = "issue" /\ issued' = issued + 1
    /\ row' = [id |-> IF row.open THEN row.id ELSE row.id + 1, open |-> TRUE, code |-> issued', age |-> 0,
               tries |-> 0, sends |-> IF row.open THEN row.sends + 1 ELSE 1]
    /\ \E mailed \in BOOLEAN :
           /\ IF mailed THEN inbox' = inbox \union {issued'} /\ UNCHANGED misses ELSE Miss /\ UNCHANGED inbox
           /\ posted' = {IF q.at = "checked" THEN [q EXCEPT !.crossed = TRUE] ELSE q : q \in posted \ {r}}
                        \union {[r EXCEPT !.at = IF mailed THEN "answered" ELSE "failed", !.code = issued']}
    /\ Server /\ UNCHANGED <<uses, strays, acted>>

-----------------------------------------------------------------------------
(* Trying one: the row is read and compared, and then spent, or a wrong    *)
(* code counted, by its id.                                                *)
ConsumeEmailCode(r) ==
    /\ r.what = "verify" /\ r.at = "sent"
    /\ IF ~row.open \/ Expired \/ row.tries >= MaxWrong \/ (~purpose.auto /\ Taken) THEN Fail(r)
       ELSE Becomes(r, [r EXCEPT !.at = IF r.code = row.code THEN "checked" ELSE "wrong", !.id = row.id])
    /\ Server /\ UNCHANGED <<issued, row, inbox, uses, strays, acted, misses>>

IncrementAttempts(r) ==
    /\ r.at = "wrong" /\ Fail(r)
    /\ row' = IF row.id = r.id THEN [row EXCEPT !.tries = @ + 1] ELSE row
    /\ Server /\ UNCHANGED <<issued, inbox, uses, strays, acted, misses>>

Accept(r) ==
    /\ row' = [row EXCEPT !.open = FALSE] /\ Becomes(r, [r EXCEPT !.at = "spent"])
    /\ uses' = [uses EXCEPT ![r.code] = @ + 1]
    /\ strays' = IF r.code = issued \/ r.crossed THEN strays ELSE strays \union {r.code}

ConsumeAgain(r) ==      \* mutant: spent without asking whether it was
    /\ r.at = "checked"
    /\ IF row.id = r.id THEN Accept(r) ELSE Fail(r) /\ UNCHANGED <<row, uses, strays>>
    /\ Server /\ UNCHANGED <<issued, inbox, acted, misses>>

Consume(r) ==
    /\ r.at = "checked"
    /\ IF row.open /\ row.id = r.id THEN Accept(r) ELSE Fail(r) /\ UNCHANGED <<row, uses, strays>>
    /\ Server /\ UNCHANGED <<issued, inbox, acted, misses>>

\* What the code was for: done once to an address, or a session each time.
VerifyEmailSignup(r) ==
    /\ r.at = "spent"
    /\ IF Taken THEN Fail(r) /\ UNCHANGED acted ELSE acted' = acted + 1 /\ Becomes(r, [r EXCEPT !.at = "answered"])
    /\ Server /\ UNCHANGED <<issued, row, inbox, uses, strays, misses>>

ActFails(r) ==
    /\ r.at = "spent" /\ Miss /\ Fail(r)
    /\ Server /\ UNCHANGED <<issued, row, inbox, uses, strays, acted>>

Pass ==
    /\ row.open /\ ~Expired /\ row' = [row EXCEPT !.age = @ + 1]
    /\ UNCHANGED <<purpose, issued, inbox, windows, posted, uses, strays, acted, sent, misses>>

-----------------------------------------------------------------------------
CodesNext ==
    \/ \E w \in Windows : sendCode(w) \/ onResend(w) \/ deleteNow(w) \/ Back(w)
                          \/ \E c \in inbox \union {NoCode} : OtpInput(w, c)
    \/ \E r \in posted :
           \/ HearSent(r) \/ HearVerified(r) \/ LoseAnswer(r)
           \/ StartEmailChallenge(r) \/ ResendEmailChallenge(r) \/ issueEmailCode(r)
           \/ ConsumeEmailCode(r) \/ IncrementAttempts(r) \/ Consume(r) \/ VerifyEmailSignup(r) \/ ActFails(r)
    \/ Pass

CodesSpec == CodesInit /\ [][CodesNext]_codes

-----------------------------------------------------------------------------
(* A code counts once, however many windows try it at once, and only while *)
(* it is the last that was issued, or until another is issued in the       *)
(* moment between its check and its use.  What it was for is done at most  *)
(* once for each code.                                                     *)
CodesCountOnce ==
    /\ (\A c \in DOMAIN uses : uses[c] <= 1) /\ strays = {}
    /\ acted <= Cardinality({c \in DOMAIN uses : uses[c] > 0})
=============================================================================
