-------------------------- MODULE OnboardingProofs --------------------------
(***************************************************************************)
(* The learner is never sent ahead of the test: for any tests, any number  *)
(* of requests at once, and calls of the assessment module lost or made in *)
(* any order.                                                              *)
(***************************************************************************)
EXTENDS Onboarding, TLAPS

Later == {"PLACEMENT_PROCESSING", "PLACEMENT_RESULTS", "plan"}

(* The sections' steps are different ones, and none of the others.         *)
LEMMA StepNames ==
    /\ DOMAIN SectionSteps = 1..Sections
    /\ \A i, j \in 1..Sections : SectionSteps[i] = SectionSteps[j] => i = j
    /\ SectionSteps[1] = "PLACEMENT_READING"
    /\ \A i \in 1..Sections :
          SectionSteps[i] \notin Later \cup setupSteps \cup {"NOT_STARTED", "PERSONALIZED_PLAN", "COMPLETED"}
    /\ placementTestSteps = {SectionSteps[i] : i \in 1..Sections}
    /\ setupSteps \cap (Later \cup {"NOT_STARTED", "PERSONALIZED_PLAN", "COMPLETED"}) = {}
    /\ {"GOAL_SELECTION", "DAILY_TIME", "LEVEL_SELECTION", "PLACEMENT_INTRO"} \subseteq setupSteps
<1> DEFINE names == <<"PLACEMENT_READING", "PLACEMENT_LISTENING", "PLACEMENT_WRITING", "PLACEMENT_SPEAKING">>
<1>1. setupSteps = {"GOAL_SELECTION", "DAILY_TIME", "LEVEL_SELECTION", "PLACEMENT_INTRO", "PLACEMENT_START_LEVEL"}
  <2>1. DOMAIN Setup = 1..5
    BY DEF Setup
  <2>2. \A i \in 1..5 : i = 1 \/ i = 2 \/ i = 3 \/ i = 4 \/ i = 5
    OBVIOUS
  <2> QED
    BY <2>1, <2>2 DEF setupSteps, ToSet, Setup
<1>2. /\ names \in Seq({"PLACEMENT_READING", "PLACEMENT_LISTENING", "PLACEMENT_WRITING", "PLACEMENT_SPEAKING"})
      /\ Len(names) = 4
  OBVIOUS
<1>3. DOMAIN SectionSteps = 1..Sections /\ \A i \in 1..Sections : SectionSteps[i] = names[i]
  <2>1. Sections \in Nat /\ Sections <= 4 /\ Sections >= 1
    BY SectionsAssumption
  <2> QED
    BY <1>2, <2>1 DEF SectionSteps
<1>4. \A i \in 1..Sections : i = 1 \/ i = 2 \/ i = 3 \/ i = 4
  BY SectionsAssumption
<1>5. placementTestSteps = {SectionSteps[i] : i \in 1..Sections}
  BY <1>3 DEF placementTestSteps, ToSet
<1>6. 1 \in 1..Sections
  BY SectionsAssumption
<1> QED
  BY <1>1, <1>3, <1>4, <1>5, <1>6 DEF Later

(* What the assessment module says of a test when it names a step.         *)
Says(t, s) ==
    \/ \E i \in 1..Sections : s = SectionSteps[i] /\ handed[t] >= i - 1
    \/ s = "PLACEMENT_PROCESSING" /\ stage[t] \in {"submitted", "published"}
    \/ s \in {"PLACEMENT_RESULTS", "plan"} /\ stage[t] = "published"

TestsOK ==
    /\ stage \in [Tests -> {"none", "taking", "submitted", "published", "closed"}]
    /\ handed \in [Tests -> 0..Sections]
    /\ begun \in [Tests -> 0..Sections]
    /\ \A t \in Tests : stage[t] \in {"none", "taking"} => handed[t] < Sections

\* Every call that is still to be made is true of its test.
CallsTrue == \A call \in calls : \E t \in Tests, s \in Later \cup placementTestSteps :
                call = <<t, s>> /\ Says(t, s)

RequestsOK ==
    req \in [Clients -> {<<"idle">>, <<"open">>, <<"closed">>} \cup ({"started", "close"} \X Tests)]

\* And so is what the row says.
RowTrue ==
    /\ linked \in Tests \cup {None}
    /\ step \in {"PLACEMENT_PROCESSING", "PLACEMENT_RESULTS"} \cup placementTestSteps =>
          linked \in Tests /\ Says(linked, step)
    /\ step \in {"PERSONALIZED_PLAN", "COMPLETED"} =>
          path = "self_reported" \/ (linked \in Tests /\ stage[linked] = "published")

-----------------------------------------------------------------------------
(* A test only moves on: what was said of it stays true.                   *)
MovesOn ==
    \A t \in Tests : /\ handed'[t] >= handed[t]
                     /\ stage[t] = "published" => stage'[t] = "published"
                     /\ stage[t] = "submitted" => stage'[t] \in {"submitted", "published"}

TestsMove ==
    \/ UNCHANGED tests
    \/ \E t \in Tests : \/ Life!Begin(t) \/ Life!HandIn(t) \/ Life!Publish(t) \/ Life!Close(t)
                        \/ \E i \in 1..Sections : Life!Grade(t, i)

LEMMA TestsMoveOn == ASSUME TestsOK, TestsMove PROVE MovesOn
<1>a. \A t \in Tests : handed[t] \in Nat
  BY SectionsAssumption DEF TestsOK
<1>1. CASE UNCHANGED tests
  BY <1>a, <1>1 DEF tests, MovesOn
<1>2. ASSUME NEW t \in Tests, Life!Begin(t) \/ Life!Publish(t) \/ Life!Close(t)
      PROVE  MovesOn
  BY <1>a, <1>2 DEF MovesOn, TestsOK, Life!Begin, Life!Publish, Life!Close
<1>3. ASSUME NEW t \in Tests, Life!HandIn(t) PROVE MovesOn
  BY <1>a, <1>3 DEF MovesOn, TestsOK, Life!HandIn
<1>4. ASSUME NEW t \in Tests, NEW i \in 1..Sections, Life!Grade(t, i) PROVE MovesOn
  BY <1>a, <1>4 DEF MovesOn, TestsOK, Life!Grade
<1> QED
  BY <1>1, <1>2, <1>3, <1>4 DEF TestsMove

LEMMA SaidStays ==
    ASSUME TestsOK, MovesOn, TestsOK', NEW t \in Tests, NEW s, Says(t, s)
    PROVE  Says(t, s)'
<1>1. \A i \in 1..Sections : i \in Nat /\ (handed[t] >= i - 1 => handed'[t] >= i - 1)
  BY SectionsAssumption DEF TestsOK, MovesOn
<1>2. stage[t] \in {"submitted", "published"} => stage'[t] \in {"submitted", "published"}
  BY DEF MovesOn
<1>3. SectionSteps' = SectionSteps
  BY DEF SectionSteps
<1> QED
  BY <1>1, <1>2, <1>3 DEF MovesOn, Says

LEMMA TestsStep == ASSUME TestsOK, RequestsOK, [Next]_vars PROVE TestsOK' /\ TestsMove
<1>a. Sections \in Nat /\ Sections >= 1
  BY SectionsAssumption
<1>1. ASSUME NEW t \in Tests, StartSection(t) PROVE TestsOK' /\ TestsMove
  <2>1. begun[t] + 1 \in 0..Sections
    BY <1>a, <1>1 DEF StartSection, TestsOK
  <2> QED
    BY <1>1, <2>1 DEF StartSection, TestsOK, TestsMove, tests
<1>2. ASSUME NEW t \in Tests, SubmitSection(t) PROVE TestsOK' /\ TestsMove
  <2>1. stage[t] = "taking" /\ handed[t] < Sections /\ handed[t] \in 0..Sections
    BY <1>2 DEF SubmitSection, Life!HandIn, TestsOK
  <2>2. handed' = [handed EXCEPT ![t] = handed[t] + 1] /\ handed[t] + 1 \in 0..Sections
    BY <1>a, <1>2, <2>1 DEF SubmitSection, Life!HandIn
  <2>3. handed'[t] = handed[t] + 1
    BY <2>2 DEF TestsOK
  <2>4. stage' = [stage EXCEPT ![t] = IF handed[t] + 1 = Sections THEN "submitted" ELSE "taking"]
    BY <1>2, <2>1, <2>3 DEF SubmitSection, Life!HandIn
  <2>5. \A u \in Tests : stage'[u] \in {"none", "taking"} => handed'[u] < Sections
    BY <1>a, <2>1, <2>2, <2>3, <2>4 DEF TestsOK
  <2>6. begun' = begun /\ TestsMove
    BY <1>2 DEF SubmitSection, TestsMove
  <2> QED
    BY <2>2, <2>4, <2>5, <2>6 DEF TestsOK
<1>3. ASSUME NEW t \in Tests, Life!Begin(t) \/ Life!Close(t), begun' = begun
      PROVE  TestsOK' /\ TestsMove
  <2>1. TestsOK'
    BY <1>3 DEF TestsOK, Life!Begin, Life!Close
  <2> QED
    BY <1>3, <2>1 DEF TestsMove
<1>4. ASSUME NEW t \in Tests, Evaluated(t) PROVE TestsOK' /\ TestsMove
  <2>1. PICK i \in 1..Sections : Life!Grade(t, i)
    BY <1>4 DEF Evaluated
  <2>2. UNCHANGED <<stage, handed, begun>>
    BY <1>4, <2>1 DEF Evaluated, Life!Grade
  <2>3. TestsMove
    BY <2>1 DEF TestsMove
  <2> QED
    BY <2>2, <2>3 DEF TestsOK
<1>5. ASSUME NEW t \in Tests, Publish(t) PROVE TestsOK' /\ TestsMove
  <2>1. Life!Publish(t) /\ begun' = begun
    BY <1>5 DEF Publish
  <2>2. TestsOK'
    BY <2>1 DEF TestsOK, Life!Publish
  <2> QED
    BY <2>1, <2>2 DEF TestsMove
<1>6. CASE UNCHANGED <<tests, begun>>
  BY <1>6 DEF TestsOK, TestsMove, tests
<1>7. ASSUME NEW c \in Clients, OpenTest(c) \/ CloseTest(c) PROVE TestsOK' /\ TestsMove
  <2>1. req[c][1] = "close" => req[c][2] \in Tests
    BY DEF RequestsOK
  <2> QED
    BY <1>3, <1>6, <1>7, <2>1 DEF OpenTest, CloseTest
<1> QED
  BY <1>1, <1>2, <1>3, <1>4, <1>5, <1>6, <1>7
  DEF Next, vars, Start, SetGoals, SetDailyTime, ChooseLevel, ChoosePlacement, Navigate, CheckStart,
      RecordStart, CheckAbandon, RecordAbandon, Retake, CloseRetake, Tell, GeneratePlan,
      PlacementProgressed, ResultsViewed, RegeneratePlan, Complete

LEMMA RequestsStep == ASSUME RequestsOK, RowTrue, [Next]_vars PROVE RequestsOK'
<1>1. ASSUME NEW c \in Clients, CheckStart(c) \/ RecordStart(c) \/ RecordAbandon(c)
      PROVE  RequestsOK'
  BY <1>1 DEF CheckStart, RecordStart, RecordAbandon, RequestsOK
<1>2. ASSUME NEW c \in Clients, OpenTest(c) PROVE RequestsOK'
  BY <1>2 DEF OpenTest, RequestsOK
<1>3. ASSUME NEW c \in Clients, CheckAbandon(c) PROVE RequestsOK'
  BY <1>3 DEF CheckAbandon, RequestsOK, RowTrue
<1>4. ASSUME NEW c \in Clients, CloseTest(c) PROVE RequestsOK'
  BY <1>4 DEF CloseTest, RequestsOK
<1>5. CASE UNCHANGED req
  BY <1>5 DEF RequestsOK
<1> QED
  BY <1>1, <1>2, <1>3, <1>4, <1>5
  DEF Next, vars, Start, SetGoals, SetDailyTime, ChooseLevel, ChoosePlacement, Navigate, Retake,
      CloseRetake, StartSection, SubmitSection, Evaluated, Publish, Tell, GeneratePlan,
      PlacementProgressed, ResultsViewed, RegeneratePlan, Complete

-----------------------------------------------------------------------------
OnboardingInv == TestsOK /\ RequestsOK /\ CallsTrue /\ RowTrue

(* A call that is made is true of the test it names.                       *)
LEMMA CallIsTrue ==
    ASSUME CallsTrue, NEW t, NEW s, <<t, s>> \in calls
    PROVE  t \in Tests /\ s \in Later \cup placementTestSteps /\ Says(t, s)
  BY DEF CallsTrue

LEMMA CallsStep == ASSUME OnboardingInv, [Next]_vars PROVE CallsTrue'
<1>a. TestsOK /\ TestsOK' /\ MovesOn /\ CallsTrue
  BY TestsStep, TestsMoveOn DEF OnboardingInv
<1>b. placementTestSteps' = placementTestSteps /\ SectionSteps' = SectionSteps
  BY DEF placementTestSteps, SectionSteps
<1> DEFINE True(call) == \E t \in Tests, s \in Later \cup placementTestSteps : call = <<t, s>> /\ Says(t, s)'
<1>1. \A call \in calls : True(call)
  BY <1>a, SaidStays DEF CallsTrue
<1>2. ASSUME NEW call, calls' \subseteq calls \cup {call}, True(call) PROVE CallsTrue'
  BY <1>1, <1>2, <1>b DEF CallsTrue
<1>3. CASE calls' \subseteq calls
  BY <1>1, <1>3, <1>b DEF CallsTrue
<1>4. ASSUME NEW t \in Tests, StartSection(t) PROVE CallsTrue'
  <2>1. begun'[t] = handed[t] + 1 /\ begun'[t] \in 1..Sections /\ handed' = handed /\ handed[t] \in Nat
    BY <1>a, <1>4, SectionsAssumption DEF StartSection, TestsOK, tests
  <2>2. SectionSteps[begun'[t]] \in placementTestSteps
    BY <2>1, StepNames
  <2>3. Says(t, SectionSteps[begun[t]])'
    BY <1>b, <2>1 DEF Says
  <2>4. PICK s : s = SectionSteps[begun'[t]]
    OBVIOUS
  <2>5. True(<<t, s>>)
    BY <1>b, <2>2, <2>3, <2>4 DEF Says
  <2>6. calls' = calls \cup {<<t, s>>}
    BY <1>4, <2>4 DEF StartSection
  <2> QED
    BY <1>2, <2>5, <2>6
<1>5. ASSUME NEW t \in Tests, SubmitSection(t) PROVE CallsTrue'
  <2>1. handed'[t] \in 0..Sections /\ handed'[t] = handed[t] + 1 /\ handed[t] \in 0..Sections
        /\ stage'[t] = IF handed'[t] = Sections THEN "submitted" ELSE stage[t]
    BY <1>a, <1>5 DEF SubmitSection, Life!HandIn, TestsOK
  <2>2. PICK s : s = StepAfter(handed'[t])
    OBVIOUS
  <2>3. s \in Later \cup placementTestSteps /\ Says(t, s)'
    <3>1. CASE handed'[t] < Sections
      <4>1. s = SectionSteps[handed'[t] + 1] /\ handed'[t] + 1 \in 1..Sections /\ handed'[t] \in Nat
        BY <2>1, <2>2, <3>1, SectionsAssumption DEF StepAfter
      <4>2. handed'[t] >= (handed'[t] + 1) - 1
        BY <4>1
      <4> QED
        BY <1>b, <4>1, <4>2, StepNames DEF Says
    <3>2. CASE handed'[t] = Sections
      <4>1. s = "PLACEMENT_PROCESSING"
        BY <2>2, <3>2, SectionsAssumption DEF StepAfter
      <4> QED
        BY <2>1, <3>2, <4>1 DEF Says, Later
    <3> QED
      BY <2>1, <3>1, <3>2, SectionsAssumption
  <2>4. calls' = calls \cup {<<t, s>>}
    BY <1>5, <2>2 DEF SubmitSection
  <2> QED
    BY <1>2, <2>3, <2>4
<1>6. ASSUME NEW t \in Tests, Publish(t) PROVE CallsTrue'
  <2>1. stage'[t] = "published" /\ calls' = calls \cup {<<t, "plan">>}
    BY <1>a, <1>6 DEF Publish, Life!Publish, TestsOK
  <2> QED
    BY <1>2, <2>1 DEF Says, Later
<1>7. ASSUME NEW t \in Tests, GeneratePlan(t) PROVE CallsTrue'
  <2>1. Says(t, "plan") /\ calls' \subseteq calls \cup {<<t, "PLACEMENT_RESULTS">>}
    BY <1>a, <1>7, CallIsTrue DEF GeneratePlan
  <2>2. stage[t] = "published"
    BY <2>1, StepNames DEF Says, Later
  <2>3. Says(t, "PLACEMENT_RESULTS")'
    BY <1>a, <2>2 DEF Says, MovesOn
  <2> QED
    BY <1>2, <2>1, <2>3 DEF Later
<1>8. ASSUME NEW t \in Tests, NEW s, PlacementProgressed(t, s) PROVE CallsTrue'
  BY <1>3, <1>8 DEF PlacementProgressed
<1> QED
  BY <1>3, <1>4, <1>5, <1>6, <1>7, <1>8
  DEF Next, vars, Start, SetGoals, SetDailyTime, ChooseLevel, ChoosePlacement, Navigate, CheckStart,
      OpenTest, RecordStart, CheckAbandon, CloseTest, RecordAbandon, Retake, CloseRetake, Evaluated,
      Tell, ResultsViewed, RegeneratePlan, Complete

(* The row is written by the learner's requests and by the calls: a step   *)
(* of the test comes from a true call or from opening it, and the plan's   *)
(* from the learner's choice or from the results.                          *)
LEMMA RowStep == ASSUME OnboardingInv, [Next]_vars PROVE RowTrue'
<1>a. TestsOK /\ TestsOK' /\ MovesOn /\ CallsTrue /\ RowTrue
  BY TestsStep, TestsMoveOn DEF OnboardingInv
<1>b. placementTestSteps' = placementTestSteps /\ SectionSteps' = SectionSteps
  BY DEF placementTestSteps, SectionSteps
<1>c. ASSUME NEW t, t \in Tests, NEW s, Says(t, s) PROVE Says(t, s)'
  BY <1>a, <1>c, SaidStays
<1>1. ASSUME UNCHANGED progress PROVE RowTrue'
  <2>1. Says(linked, step) /\ linked \in Tests => Says(linked, step)'
    <3>1. ASSUME Says(linked, step), linked \in Tests PROVE Says(linked, step)'
      <4>1. PICK t, s : t = linked /\ s = step
        OBVIOUS
      <4>2. Says(t, s)'
        BY <1>c, <3>1, <4>1
      <4> QED
        BY <1>1, <4>1, <4>2 DEF Says, progress
    <3> QED
      BY <3>1
  <2> QED
    BY <1>1, <1>a, <1>b, <2>1 DEF RowTrue, progress, MovesOn
<1>2. ASSUME step' \in setupSteps, linked' \in Tests \cup {None} PROVE RowTrue'
  BY <1>2, <1>b, StepNames DEF RowTrue, Later
<1>3. ASSUME step' \in {"PERSONALIZED_PLAN", "COMPLETED"}, linked' \in Tests \cup {None},
             path' = "self_reported" \/ (linked' \in Tests /\ stage'[linked'] = "published")
      PROVE  RowTrue'
  BY <1>3, <1>b, StepNames DEF RowTrue, Later
<1>4. ASSUME NEW c \in Clients, RecordStart(c) PROVE RowTrue'
  <2>1. PICK t \in Tests : t = req[c][2]
    BY <1>4 DEF RecordStart, OnboardingInv, RequestsOK
  <2>2. linked' = t /\ step' = SectionSteps[1]
    BY <1>4, <2>1, StepNames DEF RecordStart, Sets
  <2>3. handed'[t] \in Nat /\ 1 \in 1..Sections
    BY <1>a, SectionsAssumption DEF TestsOK
  <2>4. Says(linked, step)'
    BY <1>b, <2>2, <2>3 DEF Says
  <2> QED
    BY <2>2, <2>3, <2>4, StepNames, <1>b DEF RowTrue
<1>5. ASSUME NEW t \in Tests, NEW s, PlacementProgressed(t, s) PROVE RowTrue'
  <2>1. CASE t = linked /\ setStep(s)
    <3>1. /\ Says(t, s)' /\ linked' = t /\ step' = s
          /\ s \in {"PLACEMENT_PROCESSING", "PLACEMENT_RESULTS"} \cup placementTestSteps
      BY <1>5, <1>a, <1>c, <2>1, CallIsTrue DEF PlacementProgressed, setStep, Sets, Later
    <3>2. Says(linked, step)'
      BY <1>b, <3>1 DEF Says
    <3> QED
      BY <3>1, <3>2, StepNames, <1>b DEF RowTrue
  <2> QED
    BY <1>1, <1>5, <2>1 DEF PlacementProgressed
<1>6. ASSUME ResultsViewed PROVE RowTrue'
  <2>1. linked \in Tests /\ stage[linked] = "published"
    BY <1>6, <1>a, StepNames DEF ResultsViewed, RowTrue, Says, Later
  <2> QED
    BY <1>3, <1>6, <2>1 DEF ResultsViewed, setStep, Sets, tests
<1>7. ASSUME Complete PROVE RowTrue'
  BY <1>3, <1>7, <1>a DEF Complete, setStep, Sets, tests, RowTrue
<1>8. ASSUME ChooseLevel PROVE RowTrue'
  BY <1>3, <1>8 DEF ChooseLevel, Sets
<1>9. ASSUME NEW target \in setupSteps, Navigate(target) PROVE RowTrue'
  BY <1>2, <1>9, <1>a DEF Navigate, Sets, RowTrue
<1>10. ASSUME Start \/ SetGoals \/ SetDailyTime \/ ChoosePlacement PROVE RowTrue'
  BY <1>2, <1>10, <1>a, StepNames DEF Start, SetGoals, SetDailyTime, ChoosePlacement, setStep, Sets, RowTrue
<1>11. ASSUME NEW c \in Clients, RecordAbandon(c) PROVE RowTrue'
  BY <1>2, <1>11, StepNames DEF RecordAbandon, Sets
<1> QED
  BY <1>1, <1>4, <1>5, <1>6, <1>7, <1>8, <1>9, <1>10, <1>11
  DEF Next, vars, CheckStart, OpenTest, CheckAbandon, CloseTest, Retake, CloseRetake, StartSection,
      SubmitSection, Evaluated, Publish, Tell, GeneratePlan, RegeneratePlan

-----------------------------------------------------------------------------
LEMMA OnboardingInvariant == Spec => []OnboardingInv
<1>1. Init => OnboardingInv
  <2> SUFFICES ASSUME Init PROVE OnboardingInv
    OBVIOUS
  <2>1. TestsOK /\ RequestsOK /\ CallsTrue
    BY SectionsAssumption DEF Init, Life!Init, TestsOK, RequestsOK, CallsTrue
  <2>2. RowTrue
    BY StepNames DEF Init, RowTrue
  <2> QED
    BY <2>1, <2>2 DEF OnboardingInv
<1>2. OnboardingInv /\ [Next]_vars => OnboardingInv'
  BY TestsStep, RequestsStep, CallsStep, RowStep DEF OnboardingInv
<1> QED
  BY <1>1, <1>2, PTL DEF Spec

(* The learner is never ahead of the test, whatever is lost or late.       *)
THEOREM LearnerIsNeverAhead == Spec => []NeverAhead
<1>1. OnboardingInv => NeverAhead
  <2> SUFFICES ASSUME TestsOK, RowTrue PROVE NeverAhead
    BY DEF OnboardingInv
  <2>1. ASSUME NEW i \in 1..Sections, step = SectionSteps[i] PROVE handed[linked] >= i - 1
    <3>1. linked \in Tests /\ Says(linked, step)
      BY <2>1, StepNames DEF RowTrue
    <3> QED
      BY <2>1, <3>1, StepNames DEF Says, Later
  <2>2. step = "PLACEMENT_PROCESSING" => stage[linked] \in {"submitted", "published"}
    BY StepNames DEF RowTrue, Says, Later
  <2>3. step = "PLACEMENT_RESULTS" => stage[linked] = "published"
    BY StepNames DEF RowTrue, Says, Later
  <2> QED
    BY <2>1, <2>2, <2>3, NoneAssumption DEF NeverAhead, RowTrue
<1> QED
  BY <1>1, OnboardingInvariant, PTL
=============================================================================
