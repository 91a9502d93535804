--------------------------------- MODULE Lists ---------------------------------
(***************************************************************************)
(* The lists of the console and of the learner's pages: a search box,      *)
(* filters, pages, and what the server answers for them, kept for each     *)
(* combination that was asked for.  The order of the rows is left out.     *)
(***************************************************************************)
EXTENDS Naturals

CONSTANTS
    Searches,       \* what may be in the search box, "" for nothing
    Choices,        \* the filters, taken together, or the period of the page
    MaxLeaves,      \* bound: pages of a list
    MaxLooks,       \* bound: times a control is used
    MaxSnags,       \* bound: reads and changes that fail
    Nothing

Unfiltered == CHOOSE c \in Choices : TRUE

Keys == [sought : Searches, choice : Choices, leaf : 1..MaxLeaves]

VARIABLES
    listing,                        \* which of the lists, and its ways
    draft,                          \* the search box
    sought, choice, leaf,           \* what is asked for
    stock,                          \* the server: the pages there are of each search and choice
    fetched, fresh, failed,         \* what was read, what of it need not be read again, and where the read failed
    asking, served,                 \* the reads under way, and what the server has answered to them
    before,                         \* the last rows there were, shown while others are read
    acting,                         \* a row is being changed
    strayed,                        \* the page was not chosen from the rows it belongs to
    behind,                         \* a change that the cache was not told of
    looks, snags

list == <<listing, draft, sought, choice, leaf, stock, fetched, fresh, failed, asking, served, before,
          acting, strayed, behind, looks, snags>>

-----------------------------------------------------------------------------
(* The lists.  A search box hands on what was typed after a pause, or at   *)
(* once; the period around a list, or a topic, filters it and keeps its    *)
(* page; a next page is that after the page shown, or the page asked for.  *)
Learners == [search |-> "settled", filters |-> TRUE, period |-> FALSE, pages |-> TRUE, next |-> "shown", acts |-> TRUE,
              keeps |-> TRUE]

OwnerPayments  == [Learners EXCEPT !.acts = FALSE]
OwnerCms       == Learners
QuestionBank   == Learners
GrammarContent == Learners
LevelSection   == [Learners EXCEPT !.period = TRUE, !.next = "asked"]
OwnerAudit     == [OwnerPayments EXCEPT !.search = "none"]
DeliveryLog    == OwnerAudit
Attempts       == [OwnerAudit EXCEPT !.period = TRUE]
Failures       == [Attempts EXCEPT !.filters = FALSE]
IrregularVerbs == [Learners EXCEPT !.pages = FALSE]
OwnerMap       == IrregularVerbs

Library  == [Learners EXCEPT !.search = "at once", !.next = "asked"]
VerbTable == [Library EXCEPT !.pages = FALSE, !.acts = FALSE]
Deck     == [Library EXCEPT !.search = "none"]
Mistakes == [Deck EXCEPT !.acts = FALSE]
AdminContent == Mistakes
AdminUsers   == [Mistakes EXCEPT !.filters = FALSE]
GrammarLibrary == [VerbTable EXCEPT !.search = "settled", !.filters = FALSE]

Analytics == [Failures EXCEPT !.pages = FALSE]
Dashboard == Analytics
AIUsage   == Analytics
Stats     == Analytics
TeamActivity == [Analytics EXCEPT !.filters = TRUE]
AdminUsage == Analytics
AdminCosts == Analytics
GrammarTopic == Analytics       \* in one of its languages

\* Pages that show nothing until what they ask for was read, and those that ask for one thing only.
Comparison == [Analytics EXCEPT !.keeps = FALSE]
CategoryFolder == Comparison
WordPage   == [Comparison EXCEPT !.acts = TRUE]

Reading == [Comparison EXCEPT !.period = FALSE]
Progress == Reading
Forecast == Reading
Results  == Reading
LearnerMap == Reading
Home     == Reading
Overview == Reading
PlanList == Reading
CurrentPlan == Reading
Skills   == Reading
Profile  == Reading
AdminOverview == Reading
LearnerDetail == [Reading EXCEPT !.acts = TRUE]
Plans    == LearnerDetail

ListsInit ==
    /\ listing \in {Learners, OwnerPayments, OwnerCms, QuestionBank, GrammarContent, LevelSection, OwnerAudit,
                    DeliveryLog, Attempts, Failures, IrregularVerbs, OwnerMap, Library, VerbTable, Deck, Mistakes,
                    AdminContent, AdminUsers, GrammarLibrary, Analytics, Dashboard, AIUsage, Stats, TeamActivity,
                    AdminUsage, AdminCosts, GrammarTopic, Comparison, CategoryFolder, WordPage, Progress, Forecast,
                    Results, LearnerMap, Home, Overview, PlanList, CurrentPlan, Skills, Profile, AdminOverview,
                    LearnerDetail, Plans}
    /\ draft = "" /\ sought = "" /\ choice = Unfiltered /\ leaf = 1
    /\ \E n \in 0..MaxLeaves - 1 :
          stock = [p \in Searches \X Choices |-> IF p = <<"", Unfiltered>> THEN MaxLeaves ELSE n]
    /\ fetched = [k \in Keys |-> Nothing] /\ fresh = {} /\ failed = {} /\ before = Nothing
    /\ asking = {[sought |-> sought, choice |-> choice, leaf |-> leaf]} /\ served = [k \in Keys |-> Nothing]
    /\ acting = FALSE /\ strayed = FALSE /\ behind = FALSE /\ looks = 0 /\ snags = 0

-----------------------------------------------------------------------------
Key == [sought |-> sought, choice |-> choice, leaf |-> leaf]

\* What is answered for a key: its rows, of which there may be none on that page.
Rows(k) ==
    LET pages == stock[<<k.sought, k.choice>>] IN [key |-> k, pages |-> pages, some |-> k.leaf <= pages]

\* The rows on the page; none while an error is shown, or nothing was read yet.
Shown == IF Key \in failed THEN Nothing ELSE IF fetched[Key] # Nothing THEN fetched[Key]
         ELSE IF listing.keeps THEN before ELSE Nothing

Look == looks < MaxLooks /\ looks' = looks + 1
Hitch == snags < MaxSnags /\ snags' = snags + 1

(* The controls decide a key, whose rows are read unless they are fresh or *)
(* under way; until they come the rows of before stay.                     *)
Goto(s, c, l) ==
    LET k == [sought |-> s, choice |-> c, leaf |-> l]
        reads == k \notin fresh /\ k \notin asking
    IN  /\ sought' = s /\ choice' = c /\ leaf' = l
        /\ asking' = IF reads THEN asking \union {k} ELSE asking
        /\ failed' = IF reads /\ fetched[k] = Nothing THEN failed \ {k} ELSE failed
        /\ before' = IF fetched[Key] # Nothing THEN fetched[Key] ELSE before
        /\ UNCHANGED <<listing, stock, fetched, fresh, served, acting, behind, snags>>

\* Handed on at once, a search is a filter like the others.
Type(s) ==
    /\ s # draft /\ draft' = s /\ Look
    /\ \/ listing.search = "at once" /\ Goto(s, choice, 1) /\ strayed' = FALSE
       \/ /\ listing.search = "settled"
          /\ UNCHANGED <<listing, sought, choice, leaf, stock, fetched, fresh, failed, asking, served, before,
                         acting, strayed, behind, snags>>

HandOnHere ==       \* mutant: the page is not turned back to the first
    /\ listing.search = "settled" /\ draft # sought
    /\ Goto(draft, choice, leaf) /\ UNCHANGED <<draft, strayed, looks>>

HandOn ==
    /\ listing.search = "settled" /\ draft # sought
    /\ Goto(draft, choice, 1) /\ strayed' = FALSE /\ UNCHANGED <<draft, looks>>

\* Escape, and the button in the box.
Clear ==
    /\ listing.search = "settled" /\ draft # "" /\ Look
    /\ draft' = "" /\ Goto("", choice, 1) /\ strayed' = FALSE

Filter(c) ==
    /\ listing.filters /\ c # choice /\ Look
    /\ Goto(sought, c, 1) /\ strayed' = FALSE /\ UNCHANGED draft

(* The box follows a search that is taken away; text that was not handed   *)
(* on stays in it, and is handed on after the reset.                       *)
Reset ==
    /\ Look /\ (listing.filters \/ listing.search = "settled")
    /\ Goto("", Unfiltered, 1) /\ strayed' = FALSE
    /\ draft' = IF sought # "" THEN "" ELSE draft

\* The period of the page around the list, or a topic.
Period(c) ==
    /\ listing.period /\ c # choice /\ Look
    /\ Goto(sought, c, leaf) /\ strayed' = (leaf # 1) /\ UNCHANGED draft

(* Next and Previous, which count from the rows that are shown though they *)
(* may be those of other filters.                                          *)
Turn(n) ==
    /\ listing.pages /\ Shown # Nothing /\ Look
    /\ Shown.pages > IF listing.next = "shown" THEN 0 ELSE 1
    /\ LET at == IF listing.next = "shown" THEN Shown.key.leaf ELSE leaf
       IN  /\ n \in {at - 1, at + 1} /\ n >= 1 /\ n <= Shown.pages
           /\ Goto(sought, choice, n)
    /\ strayed' = (n # 1 /\ (strayed \/ Shown.pages # stock[<<sought, choice>>]))
    /\ UNCHANGED draft

Retry ==
    /\ Key \in failed /\ Key \notin asking /\ Look
    /\ Goto(sought, choice, leaf) /\ UNCHANGED <<draft, strayed>>

-----------------------------------------------------------------------------
(* The reads.                                                              *)
Controls == UNCHANGED <<listing, draft, sought, choice, leaf, before, looks>>

Serve(k) ==
    /\ k \in asking /\ served[k] = Nothing /\ served' = [served EXCEPT ![k] = Rows(k)]
    /\ Controls /\ UNCHANGED <<stock, fetched, fresh, failed, asking, acting, strayed, behind, snags>>

Arrive(k) ==
    /\ k \in asking /\ served[k] # Nothing
    /\ fetched' = [fetched EXCEPT ![k] = served[k]] /\ fresh' = fresh \union {k} /\ failed' = failed \ {k}
    /\ asking' = asking \ {k} /\ served' = [served EXCEPT ![k] = Nothing]
    /\ Controls /\ UNCHANGED <<stock, acting, strayed, behind, snags>>

Fail(k) ==
    /\ k \in asking /\ Hitch
    /\ failed' = failed \union {k}
    /\ asking' = asking \ {k} /\ served' = [served EXCEPT ![k] = Nothing]
    /\ Controls /\ UNCHANGED <<stock, fetched, fresh, acting, strayed, behind>>

-----------------------------------------------------------------------------
(* A row is changed so that it leaves the rows it was found among.         *)
Act ==
    /\ listing.acts /\ ~acting /\ Shown # Nothing /\ Shown.some /\ Look
    /\ LET k == Shown.key
       IN  /\ stock[<<k.sought, k.choice>>] # 0 /\ stock' = [stock EXCEPT ![<<k.sought, k.choice>>] = @ - 1]
           /\ strayed' = (strayed \/ leaf > stock'[<<sought, choice>>])
    /\ acting' = TRUE
    /\ UNCHANGED <<listing, draft, sought, choice, leaf, fetched, fresh, failed, asking, served, before, behind, snags>>

(* Told of it, the page reads what it shows again, and the rest when it is *)
(* next asked for; but what was under way for another page is kept as new. *)
Told ==
    /\ acting /\ acting' = FALSE
    /\ fresh' = {}
    /\ asking' = asking \union {Key} /\ served' = [served EXCEPT ![Key] = Nothing]
    /\ behind' = (behind \/ \E k \in asking \ {Key} : served[k] \notin {Nothing, Rows(k)})
    /\ Controls /\ UNCHANGED <<stock, fetched, failed, strayed, snags>>

Unheard ==
    /\ acting /\ acting' = FALSE /\ Hitch
    /\ behind' = TRUE
    /\ Controls /\ UNCHANGED <<stock, fetched, fresh, failed, asking, served, strayed>>

-----------------------------------------------------------------------------
ListsNext ==
    \/ \E s \in Searches : Type(s)
    \/ HandOn \/ Clear \/ Reset \/ Retry \/ Act \/ Told \/ Unheard
    \/ \E c \in Choices : Filter(c) \/ Period(c)
    \/ \E n \in 1..MaxLeaves : Turn(n)
    \/ \E k \in Keys : Serve(k) \/ Arrive(k) \/ Fail(k)

ListsSpec == ListsInit /\ [][ListsNext]_list

-----------------------------------------------------------------------------
(* A list at rest, with no text waiting to be handed on, shows what there  *)
(* is for the search, the filters and the page it says it shows; and it    *)
(* shows no empty page where there are rows, unless the page was turned on *)
(* rows of other filters or of before a change, kept in a new period, or   *)
(* emptied.  Of a change whose answer was lost, or was crossed by a read,  *)
(* it knows later.                                                         *)
RowsAreTheAnswer ==
    Key \notin asking /\ Key \notin failed /\ draft = sought /\ ~acting /\ ~behind =>
        /\ Shown = Rows(Key)
        /\ ~strayed /\ stock[<<sought, choice>>] # 0 => Shown.some
=============================================================================
