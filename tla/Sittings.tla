------------------------------- MODULE Sittings -------------------------------
(***************************************************************************)
(* The full mock exam (internal/ielts/module.go) and the page that opens   *)
(* it (learner/ielts-view.tsx).  A sitting is paid for, opened once, takes *)
(* the sections that are handed in, and is closed with a band.  Requests   *)
(* of one learner come from several clients and their statements mix.      *)
(***************************************************************************)
EXTENDS Naturals, Sequences, FiniteSets

CONSTANTS
    Papers,             \* the sections of the exam
    Quota,              \* what the plan allows
    MaxSittings, MaxOrders, MaxHands,   \* bounds: sittings, requests that take several steps, sections handed in
    MaxBlows            \* bound: statements and answers that fail

VARIABLES
    sittings,           \* each: whether it is open, what was handed in, and of which work its band is
    orders,             \* the requests under way
    paid,               \* sittings charged
    moved,              \* sittings a section was handed in to while they were being closed
    ordered, hands, blows,
    opening,            \* the page waits for its sitting to be opened
    listed              \* the sittings as the page knows them

sitting == <<sittings, orders, paid, moved, ordered, hands, blows, opening, listed>>

-----------------------------------------------------------------------------
NoSection == [p \in Papers |-> 0]        \* no section; a section is known by when it was handed in

OpenOnes == {i \in DOMAIN sittings : sittings[i].open}

SittingsInit ==
    /\ sittings = <<>> /\ orders = {} /\ paid = 0 /\ moved = {}
    /\ ordered = 0 /\ hands = 0 /\ blows = 0
    /\ opening = FALSE /\ listed = <<>>

Page == UNCHANGED <<opening, listed>>
Becomes(o, what) == orders' = (orders \ {o}) \union {what}
Blow == blows < MaxBlows /\ blows' = blows + 1

-----------------------------------------------------------------------------
(* Opening a sitting: charged first, then one that is open is looked for,  *)
(* and only then is one inserted; the table holds one open sitting only.   *)
startAttempt(page) ==
    /\ ordered < MaxOrders /\ ordered' = ordered + 1
    /\ IF page THEN ~opening /\ opening' = TRUE ELSE UNCHANGED opening
    /\ orders' = orders \union {[id |-> ordered', what |-> "start", at |-> "sent", page |-> page, of |-> 0, read |-> NoSection]}
    /\ UNCHANGED <<sittings, paid, moved, hands, blows, listed>>

ConsumeUsage(o) ==
    /\ o.at = "sent"
    /\ IF paid < Quota THEN paid' = paid + 1 /\ Becomes(o, [o EXCEPT !.at = "charged"])
       ELSE UNCHANGED paid /\ Becomes(o, [o EXCEPT !.at = "failed"])
    /\ UNCHANGED <<sittings, moved, ordered, hands, blows>> /\ Page

FindOpen(o) ==
    /\ o.at = "charged"
    /\ Becomes(o, [o EXCEPT !.at = IF OpenOnes = {} THEN "none" ELSE "answered"])
    /\ UNCHANGED <<sittings, paid, moved, ordered, hands, blows>> /\ Page

Insert(o) ==
    /\ o.at = "none" /\ Len(sittings) < MaxSittings
    /\ IF OpenOnes = {}
       THEN /\ sittings' = Append(sittings, [open |-> TRUE, sections |-> NoSection, band |-> NoSection])
            /\ Becomes(o, [o EXCEPT !.at = "answered"])
       ELSE UNCHANGED sittings /\ Becomes(o, [o EXCEPT !.at = "failed"])
    /\ UNCHANGED <<paid, moved, ordered, hands, blows>> /\ Page

-----------------------------------------------------------------------------
(* A section is handed in to a sitting that is open, in one statement.     *)
Record(i, p) ==
    /\ hands < MaxHands /\ hands' = hands + 1
    /\ sittings' = [sittings EXCEPT ![i].sections[p] = hands']
    /\ moved' = IF \E o \in orders : o.at = "read" /\ o.of = i THEN moved \union {i} ELSE moved
    /\ UNCHANGED <<orders, paid, ordered, blows>> /\ Page

SubmitAnyway(i, p) ==       \* mutant: whatever the status
    i \in DOMAIN sittings /\ Record(i, p)

submitSection(i, p) == i \in OpenOnes /\ Record(i, p)

(* Closing one reads it first.  One that is closed is answered as it is,   *)
(* and one without a section is refused.                                   *)
completeAttempt(i) ==
    /\ ordered < MaxOrders /\ ordered' = ordered + 1
    /\ i \in OpenOnes /\ sittings[i].sections # NoSection
    /\ orders' = orders \union {[id |-> ordered', what |-> "complete", at |-> "read", page |-> FALSE, of |-> i,
                                 read |-> sittings[i].sections]}
    /\ UNCHANGED <<sittings, paid, moved, hands, blows>> /\ Page

Close(o) ==
    /\ o.at = "read" /\ orders' = orders \ {o}
    /\ sittings' = [sittings EXCEPT ![o.of].open = FALSE, ![o.of].band = o.read]
    /\ UNCHANGED <<paid, moved, ordered, hands, blows>> /\ Page

\* A statement fails, or an answer does not arrive.
Break(o) ==
    /\ o.at \in {"charged", "none", "read", "answered"} /\ Blow
    /\ IF o.what = "start" THEN Becomes(o, [o EXCEPT !.at = "failed"]) ELSE orders' = orders \ {o}
    /\ UNCHANGED <<sittings, paid, moved, ordered, hands>> /\ Page

-----------------------------------------------------------------------------
(* The page: one request of its own at a time, and the list as it was     *)
(* when it was last read.                                                  *)
Settled(o) ==
    /\ o.at \in {"answered", "failed"} /\ orders' = orders \ {o}
    /\ opening' = (opening /\ ~o.page)
    /\ listed' = IF o.page /\ o.at = "answered" THEN sittings ELSE listed
    /\ UNCHANGED <<sittings, paid, moved, ordered, hands, blows>>

attempts == listed' = sittings /\ UNCHANGED <<sittings, orders, paid, moved, ordered, hands, blows, opening>>

\* The sitting whose bands the page shows.
Latest == {i \in DOMAIN listed : ~listed[i].open /\ \A j \in DOMAIN listed : j > i => listed[j].open}

-----------------------------------------------------------------------------
SittingsNext ==
    \/ \E page \in BOOLEAN : startAttempt(page)
    \/ \E o \in orders : ConsumeUsage(o) \/ FindOpen(o) \/ Insert(o) \/ Close(o) \/ Break(o) \/ Settled(o)
    \/ \E i \in DOMAIN sittings : completeAttempt(i) \/ \E p \in Papers : submitSection(i, p)
    \/ attempts

SittingsSpec == SittingsInit /\ [][SittingsNext]_sitting

-----------------------------------------------------------------------------
(* The bands of a sitting are final.  There is one open sitting at a time, *)
(* each was paid for, and one that is closed has the band of all that was  *)
(* handed in to it, the band the page shows from then on; unless a section *)
(* was handed in while it was being closed.                                *)
BandsAreFinal ==
    /\ Cardinality(OpenOnes) <= 1 /\ Len(sittings) <= paid
    /\ \A i \in DOMAIN sittings \ (OpenOnes \union moved) :
           sittings[i].band = sittings[i].sections /\ sittings[i].band # NoSection
    /\ \A i \in Latest \ moved : listed[i] = sittings[i]
=============================================================================
