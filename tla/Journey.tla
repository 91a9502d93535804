-------------------------------- MODULE Journey --------------------------------
(***************************************************************************)
(* The journey of a new learner as the web client shows it                 *)
(* (features/onboarding, profile-setup-form.tsx): each page offers the     *)
(* requests of one step, keeps the state that the last answer brought, and *)
(* is left when the guard sees that the step is another page's.  The step  *)
(* of the server is that of Onboarding, up to where the test begins.       *)
(***************************************************************************)
EXTENDS Naturals, Sequences, Functions

CONSTANTS
    MaxPresses, MaxMisfires     \* bounds: buttons pressed, on this device or another; calls that fail

VARIABLES
    server,             \* the step, and how often it was changed
    reported,           \* what the client has of it, and whether that is a second old
    loading, unloaded,  \* the read that is under way: what it brings; and whether the last one failed
    confirming,         \* the guard waits for a read before it leads elsewhere
    where,              \* the page
    pressing,           \* the requests under way
    presses, misfires,
    adrift,           \* an older answer came last, a read failed, or another device wrote
    refused             \* a button of the step the learner is at was refused

journey == <<server, reported, loading, unloaded, confirming, where, pressing, presses, misfires, adrift,
             refused>>

-----------------------------------------------------------------------------
stepOrder == <<"PROFILE", "WELCOME", "GOAL_SELECTION", "DAILY_TIME", "LEVEL_SELECTION", "PLACEMENT_INTRO",
               "PLACEMENT_START_LEVEL", "TEST", "PERSONALIZED_PLAN", "COMPLETED">>
rank(s) == CHOOSE n \in DOMAIN stepOrder : stepOrder[n] = s
Between(s, a, b) == rank(s) \in rank(a)..rank(b)

journeyPath(s) ==
    CASE s = "PROFILE" -> "/setup-profile"
      [] Between(s, "WELCOME", "DAILY_TIME") -> "/onboarding"
      [] Between(s, "LEVEL_SELECTION", "PLACEMENT_START_LEVEL") \/ s = "PERSONALIZED_PLAN" -> "/level"
      [] s = "TEST" -> "/placement-test"
      [] s = "COMPLETED" -> "/app"

(* The requests that the buttons of each step make; one for a step carries *)
(* its name.                                                               *)
ProfileSetupFields == {"setup"}
WelcomeStep        == {"start"}
GoalsStep          == {"setGoals"}
DailyTimeStep      == {"setDailyTime", "GOAL_SELECTION"}
LevelChoice        == {"chooseLevel", "choosePlacement", "DAILY_TIME"}
PlacementIntro     == {"PLACEMENT_START_LEVEL", "LEVEL_SELECTION"}
StartLevel         == {"startPlacement", "PLACEMENT_INTRO"}
SelfReportedPlan   == {"complete", "LEVEL_SELECTION"}

Offers(s) ==
    CASE s = "PROFILE" -> ProfileSetupFields
      [] s = "WELCOME" -> WelcomeStep
      [] s = "GOAL_SELECTION" -> GoalsStep
      [] s = "DAILY_TIME" -> DailyTimeStep
      [] s = "LEVEL_SELECTION" -> LevelChoice
      [] s = "PLACEMENT_INTRO" -> PlacementIntro
      [] s = "PLACEMENT_START_LEVEL" -> StartLevel
      [] s = "PERSONALIZED_PLAN" -> SelfReportedPlan
      [] OTHER -> {}

-----------------------------------------------------------------------------
(* What the server takes, by the step it is at, and the step that makes:   *)
(* a request made again is answered as it is.                              *)
InSetup(s) == Between(s, "GOAL_SELECTION", "PLACEMENT_START_LEVEL")

BackOnly(s, target) == (InSetup(s) \/ s = "PERSONALIZED_PLAN") /\ rank(target) <= rank(s)   \* mutant: never on

Navigable(s, target) ==
    \/ s = "PLACEMENT_INTRO" /\ target = "PLACEMENT_START_LEVEL"
    \/ (InSetup(s) \/ s = "PERSONALIZED_PLAN") /\ rank(target) <= rank(s)

Takes(what, s) ==
    CASE what = "setup" -> TRUE
      [] what = "start" -> s # "PROFILE"
      [] what = "setGoals" -> Between(s, "WELCOME", "PLACEMENT_START_LEVEL")
      [] what = "setDailyTime" -> InSetup(s) /\ s # "GOAL_SELECTION"
      [] what = "chooseLevel" -> Between(s, "LEVEL_SELECTION", "PLACEMENT_START_LEVEL") \/ s = "PERSONALIZED_PLAN"
      [] what = "choosePlacement" -> Between(s, "LEVEL_SELECTION", "PLACEMENT_START_LEVEL")
      [] what = "startPlacement" -> Between(s, "PLACEMENT_INTRO", "TEST")
      [] what = "complete" -> s \in {"PERSONALIZED_PLAN", "COMPLETED"}
      [] OTHER -> Navigable(s, what)

Makes(what, s) ==
    CASE what = "setup" -> IF s = "PROFILE" THEN "WELCOME" ELSE s
      [] what = "start" -> IF s = "WELCOME" THEN "GOAL_SELECTION" ELSE s
      [] what = "setGoals" -> IF rank(s) <= rank("GOAL_SELECTION") THEN "DAILY_TIME" ELSE s
      [] what = "setDailyTime" -> IF s = "DAILY_TIME" THEN "LEVEL_SELECTION" ELSE s
      [] what = "chooseLevel" -> "PERSONALIZED_PLAN"
      [] what = "choosePlacement" -> IF s = "LEVEL_SELECTION" THEN "PLACEMENT_INTRO" ELSE s
      [] what = "startPlacement" -> "TEST"
      [] what = "complete" -> "COMPLETED"
      [] OTHER -> what

-----------------------------------------------------------------------------
Nowhere == [step |-> "", ver |-> 0]
NoRead == [at |-> "none", got |-> Nowhere]
Ask == loading' = [NoRead EXCEPT !.at = "asked"]

JourneyInit ==
    \E s \in {"PROFILE", "LEVEL_SELECTION"} :
        /\ server = [step |-> s, ver |-> 1] /\ reported = [step |-> s, ver |-> 1, old |-> FALSE]
        /\ where = journeyPath(s)
        /\ loading = NoRead /\ unloaded = FALSE /\ confirming = FALSE
        /\ pressing = {} /\ presses = 0 /\ misfires = 0 /\ adrift = FALSE /\ refused = FALSE

Misfire == misfires < MaxMisfires /\ misfires' = misfires + 1
Shown == ~unloaded /\ where = journeyPath(reported.step)        \* what the guard lets be seen
Same == UNCHANGED <<server, where, presses, misfires, refused>>

\* An answer is what the client has from then on, in the order they come.
\* A button of a step that is not shown any more does not wait for it.
Has(st) ==
    /\ reported' = [step |-> st.step, ver |-> st.ver, old |-> FALSE]
    /\ adrift' = IF st.ver = server.ver THEN FALSE ELSE adrift \/ st.ver < reported.ver

Unless(s, calls) == IF s = reported.step THEN calls ELSE {[c EXCEPT !.on = FALSE] : c \in calls}

Written(what) ==
    LET s == Makes(what, server.step) IN
        IF s = server.step THEN server ELSE [step |-> s, ver |-> server.ver + 1]

Press(what) ==
    /\ Shown /\ what \in Offers(reported.step) /\ presses < MaxPresses /\ presses' = presses + 1
    /\ ~\E c \in pressing : c.on /\ (c.what = what \/ {c.what, what} \subseteq Range(stepOrder))
    /\ (what = "setup" => loading = NoRead)
    /\ pressing' = pressing \union {[id |-> presses', what |-> what, at |-> "sent", on |-> TRUE, from |-> reported.ver,
                                     got |-> Nowhere]}
    /\ UNCHANGED <<server, reported, loading, unloaded, confirming, where, misfires, adrift, refused>>

\* The plan may not be there yet.
Write(c) ==
    /\ c.at = "sent"
    /\ \E ready \in BOOLEAN :
           LET taken == Takes(c.what, server.step) /\ (c.what = "complete" => ready) IN
             /\ (c.what # "complete" => ready)
             /\ server' = IF taken THEN Written(c.what) ELSE server
             /\ pressing' = (pressing \ {c}) \union {[c EXCEPT !.at = IF taken THEN "written" ELSE "failed"]}
             /\ refused' = (refused \/ (ready /\ ~taken /\ c.from = server.ver))
    /\ UNCHANGED <<reported, loading, unloaded, confirming, where, presses, misfires, adrift>>

\* The answer is read once the step is written.
Read(c) ==
    /\ c.at = "written"
    /\ pressing' = (pressing \ {c}) \union {[c EXCEPT !.at = "answered", !.got = server]}
    /\ UNCHANGED <<reported, loading, unloaded, confirming, adrift>> /\ Same

\* The profile's form asks for the step by itself.
Answer(c) ==
    /\ c.at = "answered"
    /\ IF c.what = "setup"
       THEN /\ pressing' = pressing \ {c} /\ Ask
            /\ UNCHANGED <<reported, unloaded, confirming, adrift>>
       ELSE /\ Has(c.got) /\ pressing' = Unless(c.got.step, pressing \ {c})
            /\ unloaded' = FALSE /\ confirming' = FALSE /\ UNCHANGED loading
    /\ Same

\* After a failure, whatever it was, the state is read again; the profile's
\* form only says so.
Fails(c) ==
    /\ c.at = "failed" /\ pressing' = pressing \ {c}
    /\ IF c.what = "setup" THEN adrift' = TRUE /\ UNCHANGED loading ELSE Ask /\ UNCHANGED adrift
    /\ UNCHANGED <<reported, unloaded, confirming>> /\ Same

Lose(c) ==
    /\ c.at = "answered" /\ Misfire
    /\ pressing' = (pressing \ {c}) \union {[c EXCEPT !.at = "failed"]}
    /\ UNCHANGED <<server, reported, loading, unloaded, confirming, where, presses, adrift, refused>>

-----------------------------------------------------------------------------
(* Reading the state.                                                      *)
Get ==
    /\ loading.at = "asked" /\ loading' = [at |-> "read", got |-> server]
    /\ UNCHANGED <<reported, unloaded, confirming, pressing, adrift>> /\ Same

Got ==
    /\ loading.at = "read" /\ loading' = NoRead
    /\ Has(loading.got) /\ pressing' = Unless(loading.got.step, pressing)
    /\ unloaded' = FALSE /\ confirming' = FALSE /\ Same

NotGot ==
    /\ loading.at = "asked" /\ Misfire /\ loading' = NoRead /\ unloaded' = TRUE /\ adrift' = TRUE
    /\ UNCHANGED <<server, reported, confirming, where, pressing, presses, refused>>

Retry ==
    /\ unloaded /\ loading = NoRead /\ Ask
    /\ UNCHANGED <<reported, unloaded, confirming, pressing, adrift>> /\ Same

Grow ==
    /\ ~reported.old /\ reported' = [reported EXCEPT !.old = TRUE]
    /\ UNCHANGED <<loading, unloaded, confirming, pressing, adrift>> /\ Same

-----------------------------------------------------------------------------
(* The guard: a page that is not the step's is left, after a read if what  *)
(* the client has is a second old.                                         *)
JourneyGuard ==
    /\ where # journeyPath(reported.step) /\ ~confirming
    /\ IF reported.old THEN confirming' = TRUE /\ Ask /\ UNCHANGED where
       ELSE where' = journeyPath(reported.step) /\ UNCHANGED <<confirming, loading>>
    /\ UNCHANGED <<server, reported, unloaded, pressing, presses, misfires, adrift, refused>>

\* The learner goes on, or back, on another device.
Elsewhere(what) ==
    /\ what \in Offers(server.step) /\ presses < MaxPresses /\ presses' = presses + 1
    /\ server' = Written(what) /\ adrift' = TRUE
    /\ UNCHANGED <<reported, loading, unloaded, confirming, where, pressing, misfires, refused>>

-----------------------------------------------------------------------------
JourneyNext ==
    \/ \E what \in Offers(reported.step) : Press(what)
    \/ \E what \in Offers(server.step) : Elsewhere(what)
    \/ \E c \in pressing : Write(c) \/ Read(c) \/ Answer(c) \/ Fails(c) \/ Lose(c)
    \/ Get \/ Got \/ NotGot \/ Retry \/ Grow \/ JourneyGuard

JourneySpec == JourneyInit /\ [][JourneyNext]_journey

-----------------------------------------------------------------------------
(* A page at rest shows the step the server is at, also after an answer    *)
(* was lost, unless an older answer came last, a read or the form of the   *)
(* profile failed, or another device went on.  And no button of the step   *)
(* the learner is at is refused, though the client offers it by one table  *)
(* and the server takes it by another.                                     *)
StepIsTheServers ==
    /\ pressing = {} /\ loading = NoRead /\ ~unloaded /\ ~adrift => reported.ver = server.ver
    /\ ~refused
=============================================================================
