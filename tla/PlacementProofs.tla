-------------------------- MODULE PlacementProofs --------------------------
(***************************************************************************)
(* Theorems about Placement, for any numbers of tests, sections, requests, *)
(* workers and attempts: the test drives its queue as JobQueue says, so    *)
(* JobQueue's theorems hold of the evaluation jobs; results are whole; a   *)
(* section has one evaluation under way at most; nothing waits for nobody; *)
(* and the tests do only what TestLife allows.                             *)
(***************************************************************************)
EXTENDS Placement, FiniteSetTheorems, SequenceTheorems, TLAPS

Queue == INSTANCE JobQueueProofs WITH Unknown <- {}, Total <- 0, Lanes <- 1

LEMMA QueueAssumptions ==
    Queue!AttemptsAssumption /\ Queue!StepsAssumption /\ Queue!FaultsAssumption
  BY QueueAssumption DEF Queue!AttemptsAssumption, Queue!StepsAssumption,
     Queue!FaultsAssumption, Queue!Commands, Q!Commands

-----------------------------------------------------------------------------
(* The queue.                                                              *)

\* What a step of the test does to the queue: nothing, or a step of JobQueue.
QueueMoves == Queue!Next \/ UNCHANGED jobs

LEMMA WorkMoves ==
    ASSUME NEW w \in Workers, Evaluate(w) \/ WorkerDies(w) \/ StopWorker(w)
    PROVE  QueueMoves
<1>1. CASE Run(w)
  BY <1>1 DEF Run, QueueMoves, Queue!Next, Queue!Work, Q!SetRunning, Queue!SetRunning,
     Q!Drop, Queue!Drop, Q!local, Queue!local, Q!StateOf, Queue!StateOf
<1>2. CASE Return(w)
  BY <1>2 DEF Return, QueueMoves, Queue!Next, Queue!Work, Q!Execute, Queue!Execute,
     Q!redis, Queue!redis, Q!tracker, Queue!tracker
<1>3. CASE WorkerDies(w)
  BY <1>3 DEF WorkerDies, QueueMoves, Queue!Next, Q!Crash, Queue!Crash,
     Q!redis, Queue!redis, Q!history, Queue!history
<1>4. CASE StopWorker(w)
  BY <1>4 DEF StopWorker, QueueMoves, Queue!Next, Q!Stop, Queue!Stop, Q!local, Queue!local,
     Q!redis, Queue!redis, Q!history, Queue!history, Q!tracker, Queue!tracker
<1>5. CASE Q!Reserve(w)
  BY <1>5 DEF QueueMoves, Queue!Next, Queue!Work, Q!Reserve, Queue!Reserve,
     Q!history, Queue!history, Q!tracker, Queue!tracker
<1>6. CASE Q!Finish(w)
  BY <1>6 DEF QueueMoves, Queue!Next, Queue!Work, Q!Finish, Queue!Finish, Q!Drop, Queue!Drop,
     Q!redis, Queue!redis, Q!history, Queue!history, Q!tracker, Queue!tracker,
     Q!Raw, Queue!Raw, Q!StateOf, Queue!StateOf
<1>7. CASE Q!Leave(w) \/ Q!Start(w)
  BY <1>7 DEF QueueMoves, Queue!Next, Q!Leave, Queue!Leave, Q!Start, Queue!Start,
     Q!local, Queue!local, Q!redis, Queue!redis, Q!history, Queue!history,
     Q!tracker, Queue!tracker
<1>8. CASE Read(w) \/ Load(w) \/ Save(w) \/ Score(w) \/ FinalizeJob(w) \/ MarkJob(w)
  BY <1>8 DEF Read, Load, Save, Score, FinalizeJob, MarkJob, QueueMoves
<1> QED
  BY <1>1, <1>2, <1>3, <1>4, <1>5, <1>6, <1>7, <1>8 DEF Evaluate, Plumbing

LEMMA RequestsMove ==
    ASSUME NEW c \in Clients, Serve(c) \/ Die(c)
    PROVE  QueueMoves
<1>1. CASE EnqueueEvaluation(c)
  <2>1. PICK j \in Jobs : Q!Enqueue(j) \/ Q!EnqueueRefused(j)
    BY <1>1 DEF EnqueueEvaluation
  <2>2. Queue!Enqueue(j) \/ Queue!EnqueueRefused(j)
    BY <2>1 DEF Q!Enqueue, Queue!Enqueue, Q!EnqueueRefused, Queue!EnqueueRefused,
       Q!local, Queue!local, Q!redis, Queue!redis, Q!history, Queue!history,
       Q!tracker, Queue!tracker, Q!StateOf, Queue!StateOf
  <2> QED
    BY <2>2 DEF QueueMoves, Queue!Next
<1>2. CASE FollowUp(c) \/ Die(c)
  BY <1>2 DEF FollowUp, Die, QueueMoves
<1> QED
  BY <1>1, <1>2 DEF Serve

LEMMA QueueStep == [Next]_vars => QueueMoves
<1> SUFFICES ASSUME [Next]_vars PROVE QueueMoves
  OBVIOUS
<1>1. CASE UNCHANGED vars
  BY <1>1 DEF vars, QueueMoves
<1>2. ASSUME NEW t \in Tests, StartPlacement(t) \/ AbandonPlacement(t) PROVE QueueMoves
  BY <1>2 DEF StartPlacement, AbandonPlacement, QueueMoves
<1>3. ASSUME NEW t \in Tests, NEW i \in Skills, StartSection(t, i) PROVE QueueMoves
  BY <1>3 DEF StartSection, QueueMoves
<1>4. ASSUME NEW c \in Clients, NEW t \in Tests, NEW i \in Skills,
             Submit(c, t, i) \/ RetryEvaluation(c, t, i)
      PROVE  QueueMoves
  BY <1>4 DEF Submit, RetryEvaluation, QueueMoves
<1> QED
  BY <1>1, <1>2, <1>3, <1>4, RequestsMove, WorkMoves DEF Next

LEMMA QueueInit == Init => Queue!Init
  BY DEF Init, Q!Init, Queue!Init

(* The steps of a test, its requests and its evaluations, are steps of the *)
(* queue: what JobQueue's theorems say holds of the evaluation jobs.       *)
THEOREM DrivesTheQueue == Spec => Queue!Spec
<1>1. [Next]_vars => [Queue!Next]_(Queue!vars)
  BY QueueStep DEF QueueMoves, jobs, Queue!vars, Queue!redis, Queue!local, Queue!tracker,
     Queue!history
<1> QED
  BY <1>1, QueueInit, PTL DEF Spec, Queue!Spec

(* An evaluation job is never lost and never there twice, no two workers   *)
(* have it, and it is run at most MaxAttempts times, never again once it   *)
(* has succeeded: whatever the test does, fails or loses.                  *)
THEOREM JobsAreKept ==
    Spec => [](Queue!KeptOnce /\ Queue!OneWorkerPerJob /\ Queue!RunsBounded)
<1>1. Queue!Spec => []Queue!KeptOnce
  BY QueueAssumptions, Queue!Kept
<1>2. Queue!Spec => []Queue!OneWorkerPerJob
  BY QueueAssumptions, Queue!OneWorker
<1>3. Queue!Spec => []Queue!RunsBounded
  BY QueueAssumptions, Queue!RunsAreBounded
<1> QED
  BY <1>1, <1>2, <1>3, DrivesTheQueue, PTL

-----------------------------------------------------------------------------
(* Types.                                                                  *)

LEMMA QueueTypes == ASSUME Queue!TypeOK, QueueMoves PROVE Queue!TypeOK'
<1>1. [Queue!Next]_(Queue!vars)
  BY DEF QueueMoves, jobs, Queue!vars, Queue!redis, Queue!local, Queue!tracker, Queue!history
<1> QED
  BY <1>1, QueueAssumptions, Queue!TypeStep

LEMMA QueueTypesInit == ASSUME Init PROVE Queue!TypeOK
  BY QueueInit, QueueAssumptions, Queue!TypeInit

(* What a worker holds, and what waits, is about a section of a test.      *)
LEMMA Held ==
    ASSUME Queue!TypeOK, NEW w \in Workers, Q!Busy(w)
    PROVE  /\ held[w] \in Q!Entry /\ held[w].job \in Jobs
           /\ Test(w) \in Tests /\ Skill(w) \in Skills
<1>1. held[w] \in Q!Entry
  BY DEF Queue!TypeOK, Queue!Busy, Q!Busy, Queue!Entry, Q!Entry
<1>2. held[w].job \in Jobs
  BY <1>1 DEF Q!Entry
<1> QED
  BY <1>1, <1>2 DEF Test, Skill, Jobs

\* What a request may have left to do.
Plans == {<<>>, <<"enqueue">>, <<"mark">>, <<"finalize">>,
          <<"enqueue", "finalize">>, <<"mark", "finalize">>}

LEMMA PlanTails ==
    ASSUME NEW p \in Plans, p # <<>>
    PROVE  /\ Head(p) \in {"enqueue", "mark", "finalize"}
           /\ Tail(p) \in {<<>>, <<"finalize">>}
           /\ Head(p) = "finalize" => Tail(p) = <<>>
           /\ Head(p) = "enqueue" => p \in {<<"enqueue">>, <<"enqueue", "finalize">>}
           /\ Head(p) = "mark" => p \in {<<"mark">>, <<"mark", "finalize">>}
<1>1. \A a : Head(<<a>>) = a /\ Tail(<<a>>) = <<>>
  OBVIOUS
<1>2. \A a, b : Head(<<a, b>>) = a /\ Tail(<<a, b>>) = <<b>>
  OBVIOUS
<1>3. \/ p \in {<<"enqueue">>, <<"mark">>, <<"finalize">>}
      \/ p \in {<<"enqueue", "finalize">>, <<"mark", "finalize">>}
  BY DEF Plans
<1>4. CASE p \in {<<"enqueue">>, <<"mark">>, <<"finalize">>}
  BY <1>1, <1>4, Zenon
<1>5. CASE p = <<"enqueue", "finalize">>
  <2>1. Head(p) = "enqueue" /\ Tail(p) = <<"finalize">>
    BY <1>2, <1>5
  <2> QED
    BY <2>1, <1>5
<1>6. CASE p = <<"mark", "finalize">>
  <2>1. Head(p) = "mark" /\ Tail(p) = <<"finalize">>
    BY <1>2, <1>6
  <2> QED
    BY <2>1, <1>6
<1> QED
  BY <1>3, <1>4, <1>5, <1>6

LEMMA Joined == ASSUME NEW a, NEW b PROVE <<a>> \o <<b>> = <<a, b>>
<1> DEFINE S == {a, b}
<1>1. /\ <<a>> \in Seq(S) /\ Len(<<a>>) = 1 /\ <<a>>[1] = a
      /\ <<b>> \in Seq(S) /\ Len(<<b>>) = 1 /\ <<b>>[1] = b
      /\ <<a, b>> \in Seq(S) /\ Len(<<a, b>>) = 2 /\ <<a, b>>[1] = a /\ <<a, b>>[2] = b
  OBVIOUS
<1> HIDE DEF S
<1>2. PICK j : j = <<a>> \o <<b>>
  OBVIOUS
<1>3. PICK p : p = <<a, b>>
  OBVIOUS
<1>4. /\ j \in Seq(S) /\ Len(j) = 1 + 1
      /\ \A i \in 1..1 + 1 : j[i] = IF i <= 1 THEN <<a>>[i] ELSE <<b>>[i - 1]
  BY <1>1, <1>2, ConcatProperties
<1>5. Len(j) = 2 /\ j[1] = a /\ j[2] = b
  BY <1>1, <1>4
<1>6. p \in Seq(S) /\ Len(p) = 2 /\ p[1] = a /\ p[2] = b
  BY <1>1, <1>3
<1>7. \A i \in 1..2 : i = 1 \/ i = 2
  OBVIOUS
<1>8. \A i \in 1..Len(j) : j[i] = p[i]
  BY <1>4, <1>5, <1>6, <1>7
<1>9. j = p
  BY <1>4, <1>5, <1>6, <1>8, SeqEqual
<1> QED
  BY <1>2, <1>3, <1>9

(* What a request plans is one of the plans.                               *)
LEMMA PlansJoin ==
    ASSUME NEW a \in {<<>>, <<"enqueue">>, <<"mark">>}, NEW b \in {<<>>, <<"finalize">>}
    PROVE  /\ a \o b \in Plans
           /\ a = <<>> => a \o b = b
           /\ a = <<"enqueue">> => a \o b \in {<<"enqueue">>, <<"enqueue", "finalize">>}
           /\ a = <<"mark">> => a \o b \in {<<"mark">>, <<"mark", "finalize">>}
<1>0. <<>> \o <<>> = <<>>
  OBVIOUS
<1>1. \A x : <<x>> \o <<>> = <<x>> /\ <<>> \o <<x>> = <<x>>
  OBVIOUS
<1>2. /\ <<"enqueue">> \o <<"finalize">> = <<"enqueue", "finalize">>
      /\ <<"mark">> \o <<"finalize">> = <<"mark", "finalize">>
  BY Joined
<1>3. (a = <<>> \/ a = <<"enqueue">> \/ a = <<"mark">>) /\ (b = <<>> \/ b = <<"finalize">>)
  OBVIOUS
<1>4. CASE a = <<>> /\ b = <<>>
  BY <1>0, <1>4 DEF Plans
<1>5. CASE a = <<>> /\ b = <<"finalize">>
  BY <1>1, <1>5 DEF Plans
<1>6. CASE a = <<"enqueue">> /\ b = <<>>
  BY <1>1, <1>6 DEF Plans
<1>7. CASE a = <<"enqueue">> /\ b = <<"finalize">>
  BY <1>2, <1>7 DEF Plans
<1>8. CASE a = <<"mark">> /\ b = <<>>
  BY <1>1, <1>8 DEF Plans
<1>9. CASE a = <<"mark">> /\ b = <<"finalize">>
  BY <1>2, <1>9 DEF Plans
<1> QED
  BY <1>3, <1>4, <1>5, <1>6, <1>7, <1>8, <1>9

(* One section of one test is given another value.                         *)
LEMMA Placed ==
    ASSUME NEW S, NEW f \in [Tests -> [Skills -> S]], NEW t \in Tests, NEW i \in Skills, NEW v \in S
    PROVE  /\ [f EXCEPT ![t][i] = v] \in [Tests -> [Skills -> S]]
           /\ \A u \in Tests, k \in Skills :
                 [f EXCEPT ![t][i] = v][u][k] = IF u = t /\ k = i THEN v ELSE f[u][k]
  OBVIOUS

TestOK ==
    /\ status \in [Tests -> Statuses]
    /\ sec \in [Tests -> [Skills -> SectionStatuses]]
    /\ result \in SUBSET Tests
    /\ analyses \in [Tests -> [Skills -> Nat]]

RequestsOK ==
    /\ on \in [Clients -> (Tests \X Skills) \cup {None}]
    /\ todo \in [Clients -> Plans]
    /\ \A c \in Clients : todo[c] # <<>> => on[c] \in Tests \X Skills

StepsOK ==
    /\ step \in [Workers -> {"none", "load", "end"} \cup Steps]
    /\ \A w \in Workers : step[w] # "none" => pc[w] = "running"
    /\ verdict \in [Workers -> {"ok", "error", "permanent"}]

Types == TestOK /\ RequestsOK /\ StepsOK /\ Queue!TypeOK

LEMMA TypesInit == Init => Types
<1> SUFFICES ASSUME Init PROVE Types
  OBVIOUS
<1>1. TestOK
  BY DEF Init, TestOK, Statuses, SectionStatuses
<1>2. RequestsOK
  BY DEF Init, RequestsOK, Plans
<1>3. StepsOK
  BY DEF Init, StepsOK
<1> QED
  BY <1>1, <1>2, <1>3, QueueTypesInit DEF Types

(* What a step does to the tests.                                          *)
TestMoves ==
    \/ UNCHANGED test
    \/ \E t \in Tests : \/ StartPlacement(t) \/ AbandonPlacement(t) \/ Finalize(t)
                        \/ \E i \in Skills : StartSection(t, i) \/ MarkFailed(t, i)
    \/ \E c \in Clients, t \in Tests, i \in Skills : Submit(c, t, i) \/ RetryEvaluation(c, t, i)
    \/ \E w \in Workers : Save(w) \/ Score(w)

LEMMA Running ==
    ASSUME Types, NEW w \in Workers, NEW s, At(w, s)
    PROVE  Q!Busy(w) /\ Test(w) \in Tests /\ Skill(w) \in Skills
  BY Held DEF At, Q!Busy, Types

LEMMA RequestAbout ==
    ASSUME Types, NEW c \in Clients, todo[c] # <<>>
    PROVE  on[c] = <<on[c][1], on[c][2]>> /\ on[c][1] \in Tests /\ on[c][2] \in Skills
  BY DEF Types, RequestsOK

LEMMA TestCases == ASSUME Types, [Next]_vars PROVE TestMoves
<1>1. CASE UNCHANGED vars
  BY <1>1 DEF vars, TestMoves
<1>2. ASSUME NEW t \in Tests, StartPlacement(t) \/ AbandonPlacement(t) PROVE TestMoves
  BY <1>2 DEF TestMoves
<1>3. ASSUME NEW t \in Tests, NEW i \in Skills, StartSection(t, i) PROVE TestMoves
  BY <1>3 DEF TestMoves
<1>4. ASSUME NEW c \in Clients, NEW t \in Tests, NEW i \in Skills,
             Submit(c, t, i) \/ RetryEvaluation(c, t, i)
      PROVE  TestMoves
  BY <1>4 DEF TestMoves
<1>5. ASSUME NEW c \in Clients, EnqueueEvaluation(c) \/ Die(c) PROVE TestMoves
  BY <1>5 DEF EnqueueEvaluation, Die, TestMoves
<1>6. ASSUME NEW c \in Clients, FollowUp(c) PROVE TestMoves
  <2>1. on[c][1] \in Tests /\ on[c][2] \in Skills
    BY <1>6, RequestAbout DEF FollowUp
  <2>2. \/ MarkFailed(on[c][1], on[c][2]) \/ Finalize(on[c][1])
        \/ UNCHANGED test
    BY <1>6 DEF FollowUp
  <2> QED
    BY <2>1, <2>2 DEF TestMoves
<1>7. ASSUME NEW w \in Workers, Save(w) \/ Score(w) PROVE TestMoves
  BY <1>7 DEF TestMoves
<1>8. ASSUME NEW w \in Workers, FinalizeJob(w) PROVE TestMoves
  <2>1. Test(w) \in Tests
    BY <1>8, Running DEF FinalizeJob
  <2>2. Finalize(Test(w)) \/ UNCHANGED test
    BY <1>8 DEF FinalizeJob
  <2> QED
    BY <2>1, <2>2 DEF TestMoves
<1>9. ASSUME NEW w \in Workers, MarkJob(w) PROVE TestMoves
  <2>1. Test(w) \in Tests /\ Skill(w) \in Skills
    BY <1>9, Running DEF MarkJob
  <2> QED
    BY <1>9, <2>1 DEF MarkJob, TestMoves
<1>10. ASSUME NEW w \in Workers,
              \/ Run(w) \/ Read(w) \/ Load(w) \/ Return(w)
              \/ Plumbing(w) \/ WorkerDies(w) \/ StopWorker(w)
       PROVE  TestMoves
  BY <1>10 DEF Run, Read, Load, Return, Plumbing, WorkerDies, StopWorker, TestMoves
<1> QED
  BY <1>1, <1>2, <1>3, <1>4, <1>5, <1>6, <1>7, <1>8, <1>9, <1>10 DEF Next, Serve, Evaluate

LEMMA TestTypes == ASSUME Types, TestMoves PROVE TestOK'
<1> USE DEF TestOK, Types
<1>1. CASE UNCHANGED test
  BY <1>1 DEF test
<1>2. ASSUME NEW t \in Tests, StartPlacement(t) PROVE TestOK'
  BY <1>2 DEF StartPlacement, Statuses, SectionStatuses
<1>3. ASSUME NEW t \in Tests, AbandonPlacement(t) \/ Finalize(t) PROVE TestOK'
  BY <1>3 DEF AbandonPlacement, Finalize, Statuses
<1>4. ASSUME NEW t \in Tests, NEW i \in Skills, StartSection(t, i) PROVE TestOK'
  BY <1>4 DEF StartSection, SetSection, SectionStatuses
<1>5. ASSUME NEW t \in Tests, NEW i \in Skills, MarkFailed(t, i) PROVE TestOK'
  <2>1. PICK v : v = IF sec[t][i] = "evaluating" THEN "failed" ELSE sec[t][i]
    OBVIOUS
  <2>2. v \in SectionStatuses
    BY <2>1 DEF SectionStatuses
  <2>3. [sec EXCEPT ![t][i] = v] \in [Tests -> [Skills -> SectionStatuses]]
    BY <2>2, Placed
  <2> QED
    BY <1>5, <2>1, <2>3 DEF MarkFailed, SetSection, test
<1>6. ASSUME NEW c \in Clients, NEW t \in Tests, NEW i \in Skills, Submit(c, t, i)
      PROVE  TestOK'
  <2>1. Unlocking(t, i) \in [Skills -> SectionStatuses]
    BY DEF Unlocking, SectionStatuses
  <2> QED
    BY <1>6, <2>1 DEF Submit, Statuses
<1>7. ASSUME NEW c \in Clients, NEW t \in Tests, NEW i \in Skills, RetryEvaluation(c, t, i)
      PROVE  TestOK'
  BY <1>7 DEF RetryEvaluation, SetSection, SectionStatuses
<1>8. ASSUME NEW w \in Workers, Save(w) PROVE TestOK'
  <2>1. Test(w) \in Tests /\ Skill(w) \in Skills
    BY <1>8, Running DEF Save
  <2>2. analyses[Test(w)][Skill(w)] + 1 \in Nat
    BY <2>1
  <2>3. [analyses EXCEPT ![Test(w)][Skill(w)] = analyses[Test(w)][Skill(w)] + 1]
           \in [Tests -> [Skills -> Nat]]
    BY <2>1, <2>2, Placed
  <2> QED
    BY <1>8, <2>3 DEF Save
<1>9. ASSUME NEW w \in Workers, Score(w) PROVE TestOK'
  <2>1. Test(w) \in Tests /\ Skill(w) \in Skills
    BY <1>9, Running DEF Score
  <2>2. [sec EXCEPT ![Test(w)][Skill(w)] = "completed"] \in [Tests -> [Skills -> SectionStatuses]]
    BY <2>1, Placed DEF SectionStatuses
  <2> QED
    BY <1>9, <2>2 DEF Score, SetSection
<1> QED
  BY <1>1, <1>2, <1>3, <1>4, <1>5, <1>6, <1>7, <1>8, <1>9 DEF TestMoves

-----------------------------------------------------------------------------
(* Requests and evaluations keep their types.                              *)

LEMMA PlansBegin ==
    ASSUME NEW c \in Clients, NEW t \in Tests, NEW i \in Skills, NEW p \in Plans,
           Types, Goes(c, t, i, p)
    PROVE  RequestsOK'
<1>1. on' \in [Clients -> (Tests \X Skills) \cup {None}] /\ todo' \in [Clients -> Plans]
  BY DEF Goes, Types, RequestsOK
<1>2. \A d \in Clients : todo'[d] # <<>> => on'[d] \in Tests \X Skills
  BY DEF Goes, Types, RequestsOK
<1> QED
  BY <1>1, <1>2 DEF RequestsOK

LEMMA RequestTypes == ASSUME Types, [Next]_vars PROVE RequestsOK'
<1> USE DEF Types, RequestsOK
<1>1. CASE UNCHANGED requests
  BY <1>1 DEF requests
<1>2. ASSUME NEW c \in Clients, NEW t \in Tests, NEW i \in Skills, Submit(c, t, i)
      PROVE  RequestsOK'
  <2>1. PICK last \in BOOLEAN :
           Goes(c, t, i, (IF i \in Objective THEN <<>> ELSE <<"enqueue">>)
                         \o (IF last \/ i \in Objective THEN <<"finalize">> ELSE <<>>))
    BY <1>2 DEF Submit
  <2>2. PICK a, b : /\ a = IF i \in Objective THEN <<>> ELSE <<"enqueue">>
                    /\ b = IF last \/ i \in Objective THEN <<"finalize">> ELSE <<>>
    OBVIOUS
  <2>3. a \o b \in Plans
    BY <2>2, PlansJoin
  <2> QED
    BY <2>1, <2>2, <2>3, PlansBegin
<1>3. ASSUME NEW c \in Clients, NEW t \in Tests, NEW i \in Skills, RetryEvaluation(c, t, i)
      PROVE  RequestsOK'
  BY <1>3, PlansBegin DEF RetryEvaluation, Plans
<1>4. ASSUME NEW c \in Clients, NEW p \in Plans, todo[c] # <<>>,
             todo' = [todo EXCEPT ![c] = p], UNCHANGED on
      PROVE  RequestsOK'
  BY <1>4
<1>5. ASSUME NEW c \in Clients, EnqueueEvaluation(c) PROVE RequestsOK'
  <2>1. PICK first \in {<<>>, <<"mark">>} : todo' = [todo EXCEPT ![c] = first \o Tail(todo[c])]
    BY <1>5 DEF EnqueueEvaluation
  <2>2. Tail(todo[c]) \in {<<>>, <<"finalize">>}
    BY <1>5, PlanTails DEF EnqueueEvaluation
  <2>3. first \o Tail(todo[c]) \in Plans
    BY <2>2, PlansJoin
  <2> QED
    BY <1>4, <1>5, <2>1, <2>3 DEF EnqueueEvaluation
<1>6. ASSUME NEW c \in Clients, FollowUp(c) PROVE RequestsOK'
  <2>1. Tail(todo[c]) \in Plans
    BY <1>6, PlanTails DEF FollowUp, Plans
  <2> QED
    BY <1>4, <1>6, <2>1 DEF FollowUp
<1>7. ASSUME NEW c \in Clients, Die(c) PROVE RequestsOK'
  BY <1>4, <1>7 DEF Die, Plans
<1>8. ASSUME NEW t \in Tests, StartPlacement(t) \/ AbandonPlacement(t) PROVE RequestsOK'
  BY <1>1, <1>8 DEF StartPlacement, AbandonPlacement
<1>9. ASSUME NEW t \in Tests, NEW i \in Skills, StartSection(t, i) PROVE RequestsOK'
  BY <1>1, <1>9 DEF StartSection
<1>10. ASSUME NEW w \in Workers, Evaluate(w) \/ WorkerDies(w) \/ StopWorker(w) PROVE RequestsOK'
  BY <1>1, <1>10 DEF Evaluate, WorkerDies, StopWorker, Run, Read, Load, Save, Score,
     FinalizeJob, MarkJob, Return, Plumbing
<1>11. CASE UNCHANGED vars
  BY <1>1, <1>11 DEF vars
<1> QED
  BY <1>2, <1>3, <1>5, <1>6, <1>7, <1>8, <1>9, <1>10, <1>11 DEF Next, Serve

\* What a step of a worker does to where its evaluation is.
StepMoves(w) ==
    \/ /\ pc[w] = "running" /\ UNCHANGED pc
       /\ step' \in {[step EXCEPT ![w] = s] : s \in {"load", "end"} \cup Steps}
       /\ \/ UNCHANGED verdict
          \/ verdict' \in {[verdict EXCEPT ![w] = k] : k \in {"error", "permanent"}}
    \/ /\ step' = [step EXCEPT ![w] = "read"] /\ UNCHANGED verdict
       /\ pc'[w] = "running" /\ \A v \in Workers \ {w} : pc'[v] = pc[v]
    \/ /\ step' = [step EXCEPT ![w] = "none"]
       /\ verdict' = [verdict EXCEPT ![w] = "ok"]
       /\ \A v \in Workers \ {w} : pc'[v] = pc[v]
    \/ /\ UNCHANGED handlers
       /\ pc[w] # "running" /\ \A v \in Workers \ {w} : pc'[v] = pc[v]

LEMMA StepCases ==
    ASSUME Types, NEW w \in Workers, Evaluate(w) \/ WorkerDies(w)
    PROVE  StepMoves(w)
<1>a. pc \in [Workers -> {"off", "idle", "reserved", "running", "finish"}]
  BY DEF Types, Queue!TypeOK
<1>1. CASE Run(w)
  <2>1. /\ pc[w] = "reserved"
        /\ \A v \in Workers \ {w} : pc'[v] = pc[v]
    BY <1>a, <1>1 DEF Run, Q!SetRunning, Q!Drop
  <2> QED
    BY <1>1, <2>1 DEF Run, Then, StepMoves
<1>2. CASE Read(w) \/ Load(w) \/ Save(w) \/ Score(w) \/ FinalizeJob(w) \/ MarkJob(w)
  <2>1. pc[w] = "running" /\ UNCHANGED pc
    BY <1>2 DEF Read, Load, Save, Score, FinalizeJob, MarkJob, At, jobs
  <2>2. \/ \E s \in {"load", "end"} \cup Steps : Then(w, s)
        \/ Fails(w, "error") \/ Fails(w, "permanent")
    BY <1>2 DEF Read, Load, Save, Score, FinalizeJob, MarkJob, Steps
  <2>3. CASE \E s \in {"load", "end"} \cup Steps : Then(w, s)
    BY <2>1, <2>3 DEF Then, StepMoves
  <2>4. ASSUME NEW k \in {"error", "permanent"}, Fails(w, k) PROVE StepMoves(w)
    <3>1. step' \in {[step EXCEPT ![w] = s] : s \in {"load", "end"} \cup Steps}
      BY <2>4 DEF Fails, Steps
    <3> QED
      BY <2>1, <2>4, <3>1 DEF Fails, StepMoves
  <2> QED
    BY <2>2, <2>3, <2>4
<1>3. CASE Return(w)
  BY <1>a, <1>3 DEF Return, Q!Execute, StepMoves
<1>4. CASE WorkerDies(w)
  BY <1>a, <1>4 DEF WorkerDies, Q!Crash, StepMoves
<1>5. CASE Plumbing(w)
  <2>1. pc[w] # "running" /\ \A v \in Workers \ {w} : pc'[v] = pc[v]
    BY <1>a, <1>5 DEF Plumbing, Q!Reserve, Q!Finish, Q!Leave, Q!Start, Q!Drop
  <2> QED
    BY <1>5, <2>1 DEF Plumbing, StepMoves
<1> QED
  BY <1>1, <1>2, <1>3, <1>4, <1>5 DEF Evaluate

LEMMA StepTypes == ASSUME Types, [Next]_vars PROVE StepsOK'
<1> USE DEF Types, StepsOK
<1>1. CASE UNCHANGED <<handlers, pc>>
  BY <1>1 DEF handlers
<1>2. ASSUME NEW w \in Workers, Evaluate(w) \/ WorkerDies(w) PROVE StepsOK'
  BY <1>2, StepCases DEF StepMoves, handlers, Steps
<1>3. ASSUME NEW w \in Workers, StopWorker(w) PROVE StepsOK'
  BY <1>1, <1>3 DEF StopWorker, Q!Stop
<1>4. ASSUME NEW c \in Clients, Serve(c) \/ Die(c) PROVE StepsOK'
  BY <1>1, <1>4 DEF Serve, EnqueueEvaluation, Q!Enqueue, Q!EnqueueRefused, FollowUp, Die, jobs
<1>5. ASSUME NEW t \in Tests, StartPlacement(t) \/ AbandonPlacement(t) PROVE StepsOK'
  BY <1>1, <1>5 DEF StartPlacement, AbandonPlacement, jobs
<1>6. ASSUME NEW t \in Tests, NEW i \in Skills, StartSection(t, i) PROVE StepsOK'
  BY <1>1, <1>6 DEF StartSection, jobs
<1>7. ASSUME NEW c \in Clients, NEW t \in Tests, NEW i \in Skills,
             Submit(c, t, i) \/ RetryEvaluation(c, t, i)
      PROVE  StepsOK'
  BY <1>1, <1>7 DEF Submit, RetryEvaluation, jobs
<1>8. CASE UNCHANGED vars
  BY <1>1, <1>8 DEF vars, jobs
<1> QED
  BY <1>2, <1>3, <1>4, <1>5, <1>6, <1>7, <1>8 DEF Next

LEMMA TypesStep == Types /\ [Next]_vars => Types'
<1> SUFFICES ASSUME Types, [Next]_vars PROVE Types'
  OBVIOUS
<1>1. TestOK'
  BY TestCases, TestTypes
<1>2. Queue!TypeOK'
  BY QueueStep, QueueTypes DEF Types
<1> QED
  BY <1>1, <1>2, RequestTypes, StepTypes DEF Types

LEMMA TypesHold == Spec => []Types
  BY TypesInit, TypesStep, PTL DEF Spec

-----------------------------------------------------------------------------
(* The sections of a test, in their order.                                 *)

\* The first k sections are handed in, and the learner is at the next.
Ranked(t, k) ==
    /\ \A i \in Skills : sec[t][i] \in Submitted <=> i <= k
    /\ status[t] = "absent" => \A i \in Skills : sec[t][i] = "none"
    /\ status[t] = "in_progress" =>
          /\ k < Sections
          /\ sec[t][k + 1] \in {"available", "in_progress"}
          /\ \A i \in Skills : i > k + 1 => sec[t][i] = "locked"
    /\ status[t] \in {"processing", "completed"} => k = Sections

InOrder == \A t \in Tests : \E k \in 0..Sections : Ranked(t, k)

\* Nobody is at work on a section that was not handed in.
WorkIsSubmitted ==
    /\ \A n \in DOMAIN queue : sec[queue[n].job[1]][queue[n].job[2]] \in Submitted
    /\ \A w \in Workers : Q!Busy(w) => sec[Test(w)][Skill(w)] \in Submitted
    /\ \A c \in Clients : todo[c] # <<>> => sec[on[c][1]][on[c][2]] \in Submitted

Base == Types /\ InOrder /\ WorkIsSubmitted

\* Only what a section is within the handed in, or within the others, changes.
LEMMA RankedStays ==
    ASSUME NEW t \in Tests, NEW k \in 0..Sections, Ranked(t, k),
           status'[t] \in {status[t], "abandoned"},
           \A i \in Skills : \/ sec'[t][i] = sec[t][i]
                             \/ sec[t][i] \in Submitted /\ sec'[t][i] \in Submitted
                             \/ sec[t][i] = "available" /\ sec'[t][i] = "in_progress"
    PROVE  Ranked(t, k)'
<1>1. \A i \in Skills : sec'[t][i] \in Submitted <=> i <= k
  BY DEF Ranked, Submitted
<1>2. status'[t] = "absent" => \A i \in Skills : sec'[t][i] = "none"
  BY DEF Ranked, Submitted
<1>3. ASSUME status'[t] = "in_progress"
      PROVE  /\ k < Sections
             /\ sec'[t][k + 1] \in {"available", "in_progress"}
             /\ \A i \in Skills : i > k + 1 => sec'[t][i] = "locked"
  <2>1. k < Sections /\ k + 1 \in Skills /\ sec[t][k + 1] \in {"available", "in_progress"}
    BY <1>3, SectionsAssumption DEF Ranked, Skills
  <2>2. \A i \in Skills : i > k + 1 => sec[t][i] = "locked"
    BY <1>3 DEF Ranked
  <2> QED
    BY <2>1, <2>2 DEF Submitted
<1>4. status'[t] \in {"processing", "completed"} => k = Sections
  BY DEF Ranked
<1> QED
  BY <1>1, <1>2, <1>3, <1>4 DEF Ranked

\* The section being taken is the one after the k handed in.
LEMMA AtNext ==
    ASSUME NEW t \in Tests, NEW k \in 0..Sections, Ranked(t, k), status[t] = "in_progress",
           NEW i \in Skills, sec[t][i] \in {"available", "in_progress"}
    PROVE  i = k + 1
<1>1. ~(i <= k) /\ ~(i > k + 1)
  BY DEF Ranked, Submitted
<1> QED
  BY <1>1, SectionsAssumption DEF Skills

(* Handing a section in unlocks the next; after the last one the test is   *)
(* to be evaluated.                                                        *)
LEMMA HandsInNext ==
    ASSUME Types, NEW c \in Clients, NEW t \in Tests, NEW i \in Skills, Submit(c, t, i),
           NEW k \in 0..Sections, Ranked(t, k)
    PROVE  /\ i = k + 1
           /\ Ranked(t, k + 1)'
           /\ status' = [status EXCEPT ![t] = IF k + 1 = Sections THEN "processing" ELSE @]
           /\ \A u \in Tests : u # t => sec'[u] = sec[u]
           /\ \A j \in Skills : sec'[t][j] = Unlocking(t, i)[j]
<1> USE DEF Types, TestOK
<1>a. k \in Nat /\ Sections \in Nat /\ Skills = 1..Sections /\ i \in Nat
  BY SectionsAssumption DEF Skills
<1>1. i = k + 1
  BY AtNext DEF Submit
<1>b. \A j \in Skills : /\ j < i => j <= k /\ j # i /\ j # i + 1
                        /\ j = i + 1 => j > i /\ j # i
                        /\ j > i + 1 => j > i /\ j # i /\ j # i + 1
                        /\ j <= k + 1 <=> j < i \/ j = i
                        /\ j > k + 1 => j = i + 1 \/ j > i + 1
  BY <1>a, <1>1
<1>2. \A j \in Skills : sec'[t][j] = Unlocking(t, i)[j]
  BY DEF Submit
<1>c. \A j \in Skills : sec'[t][j] =
          IF j = i THEN IF i \in Objective THEN "completed" ELSE "evaluating"
          ELSE IF j = i + 1 /\ sec[t][j] = "locked" THEN "available" ELSE sec[t][j]
  BY <1>2 DEF Unlocking
<1>3. /\ sec[t][i] = "in_progress" /\ status[t] = "in_progress"
      /\ \A j \in Skills : j > i => sec[t][j] = "locked"
      /\ \A j \in Skills : sec[t][j] \in Submitted <=> j <= k
  BY <1>1 DEF Submit, Ranked
<1>4. \A j \in Skills : /\ j < i => sec'[t][j] \in Submitted
                        /\ j = i => sec'[t][j] \in Submitted
                        /\ j = i + 1 => sec'[t][j] = "available"
                        /\ j > i + 1 => sec'[t][j] = "locked"
  BY <1>b, <1>c, <1>3 DEF Submitted
<1>5. (\A j \in Skills : sec'[t][j] \notin Answerable) <=> i = Sections
  <2>1. i # Sections => i + 1 \in Skills
    BY <1>a
  <2>2. i = Sections => \A j \in Skills : j < i \/ j = i
    BY <1>a
  <2> QED
    BY <1>4, <2>1, <2>2 DEF Answerable, Submitted
<1>6. status' = [status EXCEPT ![t] = IF k + 1 = Sections THEN "processing" ELSE @]
  BY <1>1, <1>5 DEF Submit
<1>7. Ranked(t, k + 1)'
  <2>1. \A j \in Skills : sec'[t][j] \in Submitted <=> j <= k + 1
    <3>1. \A j \in Skills : j > k + 1 => sec'[t][j] \notin Submitted
      BY <1>b, <1>4 DEF Submitted
    <3>2. \A j \in Skills : j <= k + 1 \/ j > k + 1
      BY <1>a
    <3> QED
      BY <1>b, <1>4, <3>1, <3>2
  <2>2. status'[t] \in {"in_progress", "processing"}
        /\ (status'[t] = "processing" <=> k + 1 = Sections)
    BY <1>3, <1>6
  <2>3. k + 1 # Sections => k + 1 < Sections /\ k + 2 \in Skills /\ k + 1 + 1 = i + 1
    BY <1>a, <1>1
  <2> QED
    BY <1>a, <1>1, <1>4, <2>1, <2>2, <2>3 DEF Ranked
<1>8. \A u \in Tests : u # t => sec'[u] = sec[u]
  BY DEF Submit
<1> QED
  BY <1>1, <1>2, <1>6, <1>7, <1>8

-----------------------------------------------------------------------------
(* Where the work on a section is: with a request, in the queue, or with a *)
(* worker.                                                                 *)

Of(e) == <<e.job[1], e.job[2]>>

\* The worker is past its last word on the section: the job is not tried again.
Spent(w) ==
    \/ pc[w] = "running" /\ step[w] = "end"
       /\ (verdict[w] = "permanent" \/ (verdict[w] = "error" /\ LastAttempt(w)))
    \/ pc[w] = "finish" /\ out[w] = "failed"

Carries(w) == Q!Busy(w) /\ ~Spent(w)

\* A worker goes on with its job or lets go of it, and is not given another one.
Stays(w) == Q!Busy(w)' => Q!Busy(w) /\ held'[w] = held[w] /\ (Spent(w) => Spent(w)')

Pops == queue # <<>> /\ queue' = Tail(queue)

Takes(w) == /\ Pops
            /\ ~Q!Busy(w) /\ Q!Busy(w)' /\ ~Spent(w)'
            /\ Of(held'[w]) = Of(Head(queue))
            /\ \A v \in Workers \ {w} : Stays(v)

Gives(w) == /\ queue' = Append(queue, held[w])
            /\ Carries(w) /\ ~Q!Busy(w)'
            /\ \A v \in Workers \ {w} : Stays(v)

\* What a step of a worker, and any step, does to the queue and to the workers.
WorkerMoves ==
    \/ (UNCHANGED queue \/ ("reserve" \in CanLose /\ Pops)) /\ \A w \in Workers : Stays(w)
    \/ \E w \in Workers : Takes(w) \/ Gives(w)

JobMoves ==
    \/ WorkerMoves
    \/ /\ \E c \in Clients : EnqueueEvaluation(c)
       /\ \A w \in Workers : Stays(w)

LEMMA StayPut ==
    ASSUME NEW w, pc'[w] = pc[w], held'[w] = held[w], step'[w] = step[w],
           verdict'[w] = verdict[w], out'[w] = out[w]
    PROVE  Stays(w)
  BY DEF Stays, Q!Busy, Spent, LastAttempt

LEMMA EvaluationMoves ==
    ASSUME Types, NEW w \in Workers, Evaluate(w) \/ WorkerDies(w)
    PROVE  WorkerMoves
<1>a. /\ pc \in [Workers -> {"off", "idle", "reserved", "running", "finish"}]
      /\ held \in [Workers -> Queue!Entry \cup {None}]
      /\ out \in [Workers -> Queue!Outcomes \cup {None}]
      /\ step \in [Workers -> {"none", "load", "end"} \cup Steps]
      /\ verdict \in [Workers -> {"ok", "error", "permanent"}]
  BY DEF Types, Queue!TypeOK, StepsOK
<1>1. CASE Read(w) \/ Load(w) \/ Save(w) \/ Score(w) \/ FinalizeJob(w) \/ MarkJob(w)
  <2>1. /\ UNCHANGED jobs /\ step[w] # "end"
        /\ \A v \in Workers \ {w} : step'[v] = step[v] /\ verdict'[v] = verdict[v]
    BY <1>a, <1>1 DEF Read, Load, Save, Score, FinalizeJob, MarkJob, At, Then, Fails
  <2>2. UNCHANGED <<queue, pc, held, out>>
    BY <2>1 DEF jobs
  <2>3. pc[w] = "running"
    BY <1>1 DEF Read, Load, Save, Score, FinalizeJob, MarkJob, At
  <2>4. Stays(w)
    BY <2>1, <2>2, <2>3 DEF Stays, Q!Busy, Spent
  <2> QED
    BY <2>1, <2>2, <2>4, StayPut DEF WorkerMoves
<1>2. CASE Run(w)
  <2>1. /\ pc[w] = "reserved" /\ UNCHANGED queue
        /\ pc'[w] \in {"idle", "running"}
        /\ pc'[w] = "running" => held'[w] = held[w]
        /\ \A v \in Workers \ {w} : /\ pc'[v] = pc[v] /\ held'[v] = held[v] /\ out'[v] = out[v]
                                    /\ step'[v] = step[v] /\ verdict'[v] = verdict[v]
    BY <1>a, <1>2 DEF Run, Q!SetRunning, Q!Drop, Q!local, Then, handlers
  <2>2. Stays(w)
    BY <2>1 DEF Stays, Q!Busy, Spent
  <2> QED
    BY <2>1, <2>2, StayPut DEF WorkerMoves
<1>3. CASE Return(w)
  <2>1. /\ pc[w] = "running" /\ step[w] = "end" /\ pc'[w] = "finish" /\ UNCHANGED <<queue, held>>
        /\ \A v \in Workers \ {w} : /\ pc'[v] = pc[v] /\ out'[v] = out[v]
                                    /\ step'[v] = step[v] /\ verdict'[v] = verdict[v]
    BY <1>a, <1>3 DEF Return, At, Q!Execute, Q!redis
  <2>2. verdict[w] = "permanent" \/ (verdict[w] = "error" /\ LastAttempt(w)) => out'[w] = "failed"
    BY <1>3 DEF Return
  <2>3. Stays(w)
    BY <2>1, <2>2 DEF Stays, Q!Busy, Spent
  <2> QED
    BY <2>1, <2>3, StayPut DEF WorkerMoves
<1>4. CASE WorkerDies(w)
  <2>1. /\ pc'[w] = "off" /\ UNCHANGED queue
        /\ \A v \in Workers \ {w} : /\ pc'[v] = pc[v] /\ held'[v] = held[v] /\ out'[v] = out[v]
                                    /\ step'[v] = step[v] /\ verdict'[v] = verdict[v]
    BY <1>a, <1>4 DEF WorkerDies, Q!Crash, Q!redis
  <2>2. Stays(w)
    BY <2>1 DEF Stays, Q!Busy
  <2> QED
    BY <2>1, <2>2, StayPut DEF WorkerMoves
<1>5. CASE Plumbing(w)
  <2>a. UNCHANGED <<step, verdict>>
    BY <1>5 DEF Plumbing, handlers
  <2>1. CASE Q!Leave(w) \/ Q!Start(w)
    <3>1. /\ pc'[w] \in {"off", "idle"} /\ UNCHANGED queue
          /\ \A v \in Workers \ {w} : pc'[v] = pc[v] /\ held'[v] = held[v] /\ out'[v] = out[v]
      BY <1>a, <2>1 DEF Q!Leave, Q!Start, Q!redis, Q!local
    <3>2. Stays(w)
      BY <3>1 DEF Stays, Q!Busy
    <3> QED
      BY <2>a, <3>1, <3>2, StayPut DEF WorkerMoves
  <2>2. CASE Q!Finish(w)
    <3>1. /\ pc[w] = "finish" /\ pc'[w] = "idle"
          /\ \/ UNCHANGED queue
             \/ out[w] = "retrying" /\ queue' = Append(queue, held[w])
          /\ \A v \in Workers \ {w} : pc'[v] = pc[v] /\ held'[v] = held[v] /\ out'[v] = out[v]
      BY <1>a, <2>2 DEF Q!Finish, Q!Drop, Q!redis
    <3>2. Stays(w) /\ ~Q!Busy(w)'
      BY <3>1 DEF Stays, Q!Busy
    <3>3. \A v \in Workers \ {w} : Stays(v)
      BY <2>a, <3>1, StayPut
    <3>4. out[w] = "retrying" => Carries(w)
      BY <3>1 DEF Carries, Q!Busy, Spent
    <3> QED
      BY <3>1, <3>2, <3>3, <3>4 DEF WorkerMoves, Gives
  <2>3. CASE Q!Reserve(w)
    <3>1. /\ pc[w] = "idle" /\ Pops
          /\ \A v \in Workers \ {w} : pc'[v] = pc[v] /\ held'[v] = held[v] /\ out'[v] = out[v]
          /\ \/ /\ pc'[w] = "reserved"
                /\ held'[w] = [Head(queue) EXCEPT !.attempts = @ + 1]
             \/ "reserve" \in CanLose /\ UNCHANGED pc
      BY <1>a, <2>3 DEF Q!Reserve, Pops
    <3>2. \A v \in Workers \ {w} : Stays(v)
      BY <2>a, <3>1, StayPut
    <3>3. CASE "reserve" \in CanLose /\ UNCHANGED pc
      <4>1. Stays(w)
        BY <3>1, <3>3 DEF Stays, Q!Busy
      <4> QED
        BY <3>1, <3>2, <3>3, <4>1 DEF WorkerMoves
    <3>4. CASE pc'[w] = "reserved" /\ held'[w] = [Head(queue) EXCEPT !.attempts = @ + 1]
      <4>1. Head(queue) \in Queue!Entry
        BY <3>1, HeadTailProperties DEF Types, Queue!TypeOK, Pops
      <4>2. held'[w].job = Head(queue).job
        BY <3>4, <4>1 DEF Queue!Entry
      <4>3. ~Q!Busy(w) /\ Q!Busy(w)' /\ ~Spent(w)'
        BY <3>1, <3>4 DEF Q!Busy, Spent
      <4> QED
        BY <3>1, <3>2, <4>2, <4>3 DEF WorkerMoves, Takes, Of
    <3> QED
      BY <3>1, <3>3, <3>4
  <2> QED
    BY <1>5, <2>1, <2>2, <2>3 DEF Plumbing
<1> QED
  BY <1>1, <1>2, <1>3, <1>4, <1>5 DEF Evaluate

LEMMA JobCases == ASSUME Types, [Next]_vars PROVE JobMoves
<1>1. CASE UNCHANGED <<queue, pc, held, out, step, verdict>>
  BY <1>1, StayPut DEF JobMoves, WorkerMoves
<1>2. ASSUME NEW w \in Workers, Evaluate(w) \/ WorkerDies(w) PROVE JobMoves
  BY <1>2, EvaluationMoves DEF JobMoves
<1>3. ASSUME NEW w \in Workers, StopWorker(w) PROVE JobMoves
  BY <1>1, <1>3 DEF StopWorker, Q!Stop, Q!redis, Q!local, handlers
<1>4. ASSUME NEW c \in Clients, EnqueueEvaluation(c) PROVE JobMoves
  <2>1. UNCHANGED <<pc, held, out, step, verdict>>
    BY <1>4 DEF EnqueueEvaluation, Q!Enqueue, Q!EnqueueRefused, Q!local, handlers
  <2> QED
    BY <1>4, <2>1, StayPut DEF JobMoves, WorkerMoves
<1>5. ASSUME NEW c \in Clients, FollowUp(c) \/ Die(c) PROVE JobMoves
  BY <1>1, <1>5 DEF FollowUp, Die, jobs, handlers
<1>6. ASSUME NEW t \in Tests, StartPlacement(t) \/ AbandonPlacement(t) PROVE JobMoves
  BY <1>1, <1>6 DEF StartPlacement, AbandonPlacement, jobs, handlers
<1>7. ASSUME NEW t \in Tests, NEW i \in Skills, StartSection(t, i) PROVE JobMoves
  BY <1>1, <1>7 DEF StartSection, jobs, handlers
<1>8. ASSUME NEW c \in Clients, NEW t \in Tests, NEW i \in Skills,
             Submit(c, t, i) \/ RetryEvaluation(c, t, i)
      PROVE  JobMoves
  BY <1>1, <1>8 DEF Submit, RetryEvaluation, jobs, handlers
<1>9. CASE UNCHANGED vars
  BY <1>1, <1>9 DEF vars, jobs, handlers
<1> QED
  BY <1>2, <1>3, <1>4, <1>5, <1>6, <1>7, <1>8, <1>9 DEF Next, Serve

-----------------------------------------------------------------------------
(* The order of the sections is kept, and work is on what was handed in.   *)

\* How a section of a test that has begun may change, and no other does.
SectionMoves ==
    \A u \in Tests, k \in Skills :
        \/ sec'[u][k] = sec[u][k]
        \/ status[u] = "absent" /\ sec[u][k] = "none" /\ sec'[u][k] \in {"locked", "available"}
        \/ sec[u][k] = "locked" /\ sec'[u][k] = "available"
        \/ sec[u][k] = "available" /\ sec'[u][k] = "in_progress"
        \/ sec[u][k] = "in_progress" /\ sec'[u][k] \in {"evaluating", "completed"}
        \/ sec[u][k] = "evaluating" /\ sec'[u][k] \in {"failed", "completed"}
        \/ sec[u][k] = "failed" /\ sec'[u][k] \in {"evaluating", "completed"}

LEMMA ScoresHandedIn ==
    ASSUME Base, NEW w \in Workers, Score(w)
    PROVE  /\ Test(w) \in Tests /\ Skill(w) \in Skills
           /\ sec[Test(w)][Skill(w)] \in Submitted
           /\ \/ UNCHANGED sec
              \/ sec' = [sec EXCEPT ![Test(w)][Skill(w)] = "completed"]
<1>1. Q!Busy(w) /\ Test(w) \in Tests /\ Skill(w) \in Skills
  BY Running DEF Score, Base
<1> QED
  BY <1>1 DEF Base, WorkIsSubmitted, Score, SetSection

LEMMA SectionCases == ASSUME Base, TestMoves PROVE SectionMoves
<1>a. sec \in [Tests -> [Skills -> SectionStatuses]]
  BY DEF Base, Types, TestOK
<1>1. CASE UNCHANGED sec
  BY <1>1 DEF SectionMoves
<1>2. ASSUME NEW t \in Tests, StartPlacement(t) PROVE SectionMoves
  <2>1. status[t] = "absent" /\ \A i \in Skills : sec[t][i] = "none"
    BY <1>2 DEF StartPlacement, Base, InOrder, Ranked
  <2> QED
    BY <1>a, <1>2, <2>1 DEF StartPlacement, SectionMoves
<1>3. ASSUME NEW t \in Tests, AbandonPlacement(t) \/ Finalize(t) PROVE SectionMoves
  BY <1>1, <1>3 DEF AbandonPlacement, Finalize
<1>4. ASSUME NEW t \in Tests, NEW i \in Skills, StartSection(t, i) PROVE SectionMoves
  <2>1. \A u \in Tests, k \in Skills :
           sec'[u][k] = IF u = t /\ k = i THEN "in_progress" ELSE sec[u][k]
    BY <1>a, <1>4, Placed DEF StartSection, SetSection, SectionStatuses
  <2> QED
    BY <1>4, <2>1 DEF StartSection, SectionMoves
<1>5. ASSUME NEW t \in Tests, NEW i \in Skills, MarkFailed(t, i) PROVE SectionMoves
  <2>1. PICK v \in SectionStatuses :
           v = IF sec[t][i] = "evaluating" THEN "failed" ELSE sec[t][i]
    BY <1>a DEF SectionStatuses
  <2>2. \/ UNCHANGED sec
        \/ sec' = [sec EXCEPT ![t][i] = v]
    BY <1>5, <2>1 DEF MarkFailed, SetSection, test
  <2>3. CASE sec' = [sec EXCEPT ![t][i] = v]
    <3>1. \A u \in Tests, k \in Skills : sec'[u][k] = IF u = t /\ k = i THEN v ELSE sec[u][k]
      BY <1>a, <2>3, Placed
    <3> QED
      BY <2>1, <3>1 DEF SectionMoves
  <2> QED
    BY <1>1, <2>2, <2>3
<1>6. ASSUME NEW c \in Clients, NEW t \in Tests, NEW i \in Skills, Submit(c, t, i)
      PROVE  SectionMoves
  <2>1. /\ \A u \in Tests : u # t => sec'[u] = sec[u]
        /\ \A k \in Skills : sec'[t][k] = Unlocking(t, i)[k]
    BY <1>a, <1>6 DEF Submit
  <2>2. sec[t][i] = "in_progress"
    BY <1>6 DEF Submit
  <2> QED
    BY <2>1, <2>2 DEF Unlocking, SectionMoves
<1>7. ASSUME NEW c \in Clients, NEW t \in Tests, NEW i \in Skills, RetryEvaluation(c, t, i)
      PROVE  SectionMoves
  <2>1. \A u \in Tests, k \in Skills :
           sec'[u][k] = IF u = t /\ k = i THEN "evaluating" ELSE sec[u][k]
    BY <1>a, <1>7, Placed DEF RetryEvaluation, SetSection, SectionStatuses
  <2> QED
    BY <1>7, <2>1 DEF RetryEvaluation, SectionMoves
<1>8. ASSUME NEW w \in Workers, Save(w) PROVE SectionMoves
  BY <1>1, <1>8 DEF Save
<1>9. ASSUME NEW w \in Workers, Score(w) PROVE SectionMoves
  <2>1. CASE sec' = [sec EXCEPT ![Test(w)][Skill(w)] = "completed"]
    <3>1. \A u \in Tests, k \in Skills :
             sec'[u][k] = IF u = Test(w) /\ k = Skill(w) THEN "completed" ELSE sec[u][k]
      BY <1>a, <1>9, <2>1, ScoresHandedIn, Placed DEF SectionStatuses
    <3> QED
      BY <1>9, <3>1, ScoresHandedIn DEF SectionMoves, Submitted
  <2> QED
    BY <1>1, <1>9, <2>1, ScoresHandedIn
<1>10. CASE UNCHANGED test
  BY <1>1, <1>10 DEF test
<1> QED
  BY <1>2, <1>3, <1>4, <1>5, <1>6, <1>7, <1>8, <1>9, <1>10 DEF TestMoves

LEMMA SubmittedStays ==
    ASSUME SectionMoves, NEW t \in Tests, NEW i \in Skills
    PROVE  /\ sec[t][i] \in Submitted => sec'[t][i] \in Submitted
           /\ sec[t][i] = "completed" => sec'[t][i] = "completed"
  BY DEF SectionMoves, Submitted

LEMMA OrderStep == ASSUME Base, TestMoves PROVE InOrder'
<1> USE DEF Base, Types, TestOK
<1>a. SectionMoves
  BY SectionCases
<1>b. ASSUME NEW u \in Tests, status'[u] \in {status[u], "abandoned"},
             \A i \in Skills : \/ sec'[u][i] = sec[u][i]
                               \/ sec[u][i] \in Submitted /\ sec'[u][i] \in Submitted
                               \/ sec[u][i] = "available" /\ sec'[u][i] = "in_progress"
      PROVE  \E k \in 0..Sections : Ranked(u, k)'
  <2>1. PICK k \in 0..Sections : Ranked(u, k)
    BY DEF InOrder
  <2>2. Ranked(u, k)'
    BY <1>b, <2>1, RankedStays
  <2> QED
    BY <2>2
<1>1. ASSUME UNCHANGED <<status, sec>> PROVE InOrder'
  BY <1>b, <1>1 DEF InOrder
<1>2. ASSUME NEW t \in Tests, StartPlacement(t) PROVE InOrder'
  <2>1. /\ \A u \in Tests : u # t => status'[u] = status[u] /\ sec'[u] = sec[u]
        /\ status'[t] = "in_progress"
        /\ \A i \in Skills : sec'[t][i] = IF i = 1 THEN "available" ELSE "locked"
    BY <1>2 DEF StartPlacement
  <2>2. Ranked(t, 0)'
    <3>1. \A i \in Skills : ~(i <= 0) /\ (i > 0 + 1 => i # 1)
      BY SectionsAssumption DEF Skills
    <3>2. 0 < Sections /\ 0 + 1 \in Skills /\ 0 + 1 = 1
      BY SectionsAssumption DEF Skills
    <3> QED
      BY <2>1, <3>1, <3>2 DEF Ranked, Submitted
  <2>3. 0 \in 0..Sections
    BY SectionsAssumption
  <2> QED
    BY <1>b, <2>1, <2>2, <2>3 DEF InOrder
<1>3. ASSUME NEW t \in Tests, AbandonPlacement(t) PROVE InOrder'
  BY <1>b, <1>3 DEF AbandonPlacement, InOrder
<1>4. ASSUME NEW t \in Tests, Finalize(t) PROVE InOrder'
  <2>1. CASE status[t] = "processing" /\ Whole(t)
    <3>1. /\ \A u \in Tests : u # t => status'[u] = status[u]
          /\ status'[t] = "completed" /\ UNCHANGED sec
      BY <1>4, <2>1 DEF Finalize
    <3>2. PICK k \in 0..Sections : Ranked(t, k)
      BY DEF InOrder
    <3>3. Ranked(t, k)'
      BY <2>1, <3>1, <3>2 DEF Ranked
    <3> QED
      BY <1>b, <3>1, <3>3 DEF InOrder
  <2> QED
    BY <1>1, <1>4, <2>1 DEF Finalize
<1>5. ASSUME NEW t \in Tests, NEW i \in Skills, StartSection(t, i) \/ MarkFailed(t, i)
      PROVE  InOrder'
  <2>1. UNCHANGED status
    BY <1>5 DEF StartSection, MarkFailed, test
  <2>2. \A u \in Tests, k \in Skills :
           \/ sec'[u][k] = sec[u][k]
           \/ sec[u][k] \in Submitted /\ sec'[u][k] \in Submitted
           \/ sec[u][k] = "available" /\ sec'[u][k] = "in_progress"
    <3>1. CASE UNCHANGED sec
      BY <3>1
    <3>2. PICK v : /\ v \in SectionStatuses
                   /\ sec' = [sec EXCEPT ![t][i] = v] \/ UNCHANGED sec
                   /\ \/ v = sec[t][i]
                      \/ sec[t][i] = "evaluating" /\ v = "failed"
                      \/ sec[t][i] = "available" /\ v = "in_progress"
      <4>1. CASE StartSection(t, i)
        BY <4>1 DEF StartSection, SetSection, SectionStatuses
      <4>2. CASE MarkFailed(t, i)
        BY <4>2 DEF MarkFailed, SetSection, SectionStatuses, test
      <4> QED
        BY <1>5, <4>1, <4>2
    <3>3. CASE sec' = [sec EXCEPT ![t][i] = v]
      <4>1. \A u \in Tests, k \in Skills : sec'[u][k] = IF u = t /\ k = i THEN v ELSE sec[u][k]
        BY <3>2, <3>3, Placed
      <4> QED
        BY <3>2, <4>1 DEF Submitted
    <3> QED
      BY <3>1, <3>2, <3>3
  <2> QED
    BY <1>b, <2>1, <2>2 DEF InOrder
<1>6. ASSUME NEW c \in Clients, NEW t \in Tests, NEW i \in Skills, Submit(c, t, i) PROVE InOrder'
  <2>1. PICK k \in 0..Sections : Ranked(t, k)
    BY DEF InOrder
  <2>2. Ranked(t, k + 1)' /\ i = k + 1
    BY <1>6, <2>1, HandsInNext
  <2>3. k + 1 \in 0..Sections
    BY <2>2, SectionsAssumption DEF Skills
  <2>4. \A u \in Tests : u # t => status'[u] = status[u] /\ sec'[u] = sec[u]
    BY <1>6, <2>1, HandsInNext
  <2> QED
    BY <1>b, <2>2, <2>3, <2>4 DEF InOrder
<1>7. ASSUME NEW c \in Clients, NEW t \in Tests, NEW i \in Skills, RetryEvaluation(c, t, i)
      PROVE  InOrder'
  <2>1. \A u \in Tests, k \in Skills :
           sec'[u][k] = IF u = t /\ k = i THEN "evaluating" ELSE sec[u][k]
    BY <1>7, Placed DEF RetryEvaluation, SetSection, SectionStatuses
  <2> QED
    BY <1>b, <1>7, <2>1 DEF InOrder, RetryEvaluation, Submitted
<1>8. ASSUME NEW w \in Workers, Save(w) PROVE InOrder'
  BY <1>1, <1>8 DEF Save
<1>9. ASSUME NEW w \in Workers, Score(w) PROVE InOrder'
  <2>1. UNCHANGED status
    BY <1>9 DEF Score
  <2>2. CASE sec' = [sec EXCEPT ![Test(w)][Skill(w)] = "completed"]
    <3>1. \A u \in Tests, k \in Skills :
             sec'[u][k] = IF u = Test(w) /\ k = Skill(w) THEN "completed" ELSE sec[u][k]
      BY <1>9, <2>2, ScoresHandedIn, Placed DEF SectionStatuses
    <3> QED
      BY <1>b, <1>9, <2>1, <3>1, ScoresHandedIn DEF InOrder, Submitted
  <2> QED
    BY <1>1, <1>9, <2>1, <2>2, ScoresHandedIn
<1>10. CASE UNCHANGED test
  BY <1>1, <1>10 DEF test
<1> QED
  BY <1>2, <1>3, <1>4, <1>5, <1>6, <1>7, <1>8, <1>9, <1>10 DEF TestMoves

\* How a request comes to have something to do: it had already, or it begins.
RequestMoves ==
    \A c \in Clients :
        \/ todo'[c] = <<>>
        \/ todo[c] # <<>> /\ on'[c] = on[c]
        \/ \E t \in Tests, i \in Skills :
              /\ Submit(c, t, i) \/ RetryEvaluation(c, t, i)
              /\ todo[c] = <<>> /\ on'[c] = <<t, i>>

LEMMA RequestCases == ASSUME Types, [Next]_vars PROVE RequestMoves
<1> USE DEF Types, RequestsOK
<1>1. CASE UNCHANGED requests
  BY <1>1 DEF requests, RequestMoves
<1>2. ASSUME NEW c \in Clients, NEW t \in Tests, NEW i \in Skills,
             Submit(c, t, i) \/ RetryEvaluation(c, t, i)
      PROVE  RequestMoves
  <2>1. /\ todo[c] = <<>> /\ on'[c] = <<t, i>>
        /\ \A d \in Clients \ {c} : on'[d] = on[d] /\ todo'[d] = todo[d]
    BY <1>2 DEF Submit, RetryEvaluation, Goes
  <2> QED
    BY <1>2, <2>1 DEF RequestMoves
<1>3. ASSUME NEW c \in Clients, EnqueueEvaluation(c) \/ FollowUp(c) \/ Die(c) PROVE RequestMoves
  <2>1. /\ todo[c] # <<>> /\ UNCHANGED on
        /\ \A d \in Clients \ {c} : todo'[d] = todo[d]
    BY <1>3 DEF EnqueueEvaluation, FollowUp, Die
  <2> QED
    BY <2>1 DEF RequestMoves
<1>4. ASSUME NEW t \in Tests, StartPlacement(t) \/ AbandonPlacement(t) PROVE RequestMoves
  BY <1>1, <1>4 DEF StartPlacement, AbandonPlacement
<1>5. ASSUME NEW t \in Tests, NEW i \in Skills, StartSection(t, i) PROVE RequestMoves
  BY <1>1, <1>5 DEF StartSection
<1>6. ASSUME NEW w \in Workers, Evaluate(w) \/ WorkerDies(w) \/ StopWorker(w) PROVE RequestMoves
  BY <1>1, <1>6 DEF Evaluate, WorkerDies, StopWorker, Run, Read, Load, Save, Score,
     FinalizeJob, MarkJob, Return, Plumbing
<1>7. CASE UNCHANGED vars
  BY <1>1, <1>7 DEF vars
<1> QED
  BY <1>2, <1>3, <1>4, <1>5, <1>6, <1>7 DEF Next, Serve

\* Entries of the queue are about sections; a pop or a push keeps the others.
LEMMA Entries ==
    ASSUME Queue!TypeOK
    PROVE  \A n \in DOMAIN queue : /\ queue[n] \in Queue!Entry /\ queue[n].job \in Jobs
                                   /\ queue[n].job[1] \in Tests /\ queue[n].job[2] \in Skills
<1>1. queue \in Seq(Queue!Entry)
  BY DEF Queue!TypeOK
<1>2. \A n \in DOMAIN queue : queue[n] \in Queue!Entry
  BY <1>1, ElementOfSeq, LenProperties
<1> QED
  BY <1>2 DEF Queue!Entry, Jobs

LEMMA AfterPop ==
    ASSUME Queue!TypeOK, Pops
    PROVE  /\ 1 \in DOMAIN queue /\ Head(queue) = queue[1]
           /\ \A n \in DOMAIN queue' :
                 n \in Nat /\ n > 0 /\ n + 1 \in DOMAIN queue /\ queue'[n] = queue[n + 1]
           /\ \A n \in DOMAIN queue : n # 1 => n - 1 \in DOMAIN queue' /\ queue'[n - 1] = queue[n]
  BY QueueAssumptions, Queue!Popped DEF Queue!TypeOK, Pops

LEMMA AfterPush ==
    ASSUME Queue!TypeOK, NEW e \in Queue!Entry, queue' = Append(queue, e)
    PROVE  /\ \A n \in DOMAIN queue : n \in DOMAIN queue' /\ queue'[n] = queue[n]
           /\ \E m \in DOMAIN queue' :
                 /\ m \notin DOMAIN queue
                 /\ queue'[m] = e
                 /\ DOMAIN queue' = DOMAIN queue \cup {m}
  BY QueueAssumptions, Queue!Pushed DEF Queue!TypeOK

\* The job a request creates is about the section it is about.
LEMMA Enqueues ==
    ASSUME Types, NEW c \in Clients, EnqueueEvaluation(c)
    PROVE  /\ \/ UNCHANGED queue
              \/ \E e \in Queue!Entry : queue' = Append(queue, e) /\ Of(e) = on[c]
           /\ \/ todo' = [todo EXCEPT ![c] = <<>> \o Tail(todo[c])]
              \/ todo' = [todo EXCEPT ![c] = <<"mark">> \o Tail(todo[c])]
<1>1. PICK j \in Jobs : /\ Q!Enqueue(j) \/ Q!EnqueueRefused(j)
                        /\ j = Fresh(on[c][1], on[c][2])
  BY DEF EnqueueEvaluation
<1>2. j[1] = on[c][1] /\ j[2] = on[c][2]
  BY <1>1 DEF Fresh
<1>3. on[c] = <<on[c][1], on[c][2]>>
  BY RequestAbout DEF EnqueueEvaluation
<1>4. \/ UNCHANGED queue
      \/ queue' = Append(queue, [job |-> j, attempts |-> 0])
  BY <1>1 DEF Q!Enqueue, Q!EnqueueRefused, Q!redis
<1>5. [job |-> j, attempts |-> 0] \in Queue!Entry /\ Of([job |-> j, attempts |-> 0]) = on[c]
  BY <1>2, <1>3 DEF Queue!Entry, Of
<1> QED
  BY <1>4, <1>5 DEF EnqueueEvaluation

LEMMA WorkStep == ASSUME Base, [Next]_vars PROVE WorkIsSubmitted'
<1> USE DEF Base
<1>a. SectionMoves /\ JobMoves /\ RequestMoves
  BY TestCases, SectionCases, JobCases, RequestCases
<1>b. \A t \in Tests, i \in Skills : sec[t][i] \in Submitted => sec'[t][i] \in Submitted
  BY <1>a, SubmittedStays
<1>c. Queue!TypeOK /\ Types'
  BY TypesStep DEF Types
<1>d. \A n \in DOMAIN queue : /\ queue[n].job[1] \in Tests /\ queue[n].job[2] \in Skills
                              /\ sec[queue[n].job[1]][queue[n].job[2]] \in Submitted
  BY <1>c, Entries DEF WorkIsSubmitted
<1>e. \A w \in Workers : Q!Busy(w) => sec'[Test(w)][Skill(w)] \in Submitted
  BY <1>b, <1>c, Held DEF WorkIsSubmitted
<1>1. \A c \in Clients : todo'[c] # <<>> => sec'[on'[c][1]][on'[c][2]] \in Submitted
  <2>1. ASSUME NEW c \in Clients, todo[c] # <<>>, on'[c] = on[c]
        PROVE  sec'[on'[c][1]][on'[c][2]] \in Submitted
    BY <1>b, <2>1, RequestAbout DEF WorkIsSubmitted
  <2>2. ASSUME NEW c \in Clients, NEW t \in Tests, NEW i \in Skills,
               Submit(c, t, i), on'[c] = <<t, i>>
        PROVE  sec'[on'[c][1]][on'[c][2]] \in Submitted
    <3>1. sec'[t] = Unlocking(t, i)
      BY <2>2 DEF Submit, Types, TestOK
    <3> QED
      BY <2>2, <3>1 DEF Unlocking, Submitted
  <2>3. ASSUME NEW c \in Clients, NEW t \in Tests, NEW i \in Skills,
               RetryEvaluation(c, t, i), on'[c] = <<t, i>>
        PROVE  sec'[on'[c][1]][on'[c][2]] \in Submitted
    <3>1. sec[t][i] \in Submitted
      BY <2>3 DEF RetryEvaluation, Submitted
    <3> QED
      BY <1>b, <2>3, <3>1
  <2> QED
    BY <1>a, <2>1, <2>2, <2>3 DEF RequestMoves
<1>2. /\ \A n \in DOMAIN queue' : sec'[queue'[n].job[1]][queue'[n].job[2]] \in Submitted
      /\ \A w \in Workers : Q!Busy(w)' => sec'[Test(w)'][Skill(w)'] \in Submitted
  <2>a. ASSUME NEW w \in Workers, Stays(w), Q!Busy(w)'
        PROVE  sec'[Test(w)'][Skill(w)'] \in Submitted
    BY <1>e, <2>a DEF Stays, Test, Skill
  <2>b. ASSUME Pops PROVE \A n \in DOMAIN queue' : sec'[queue'[n].job[1]][queue'[n].job[2]] \in Submitted
    BY <1>b, <1>c, <1>d, <2>b, AfterPop
  <2>c. ASSUME UNCHANGED queue
        PROVE  \A n \in DOMAIN queue' : sec'[queue'[n].job[1]][queue'[n].job[2]] \in Submitted
    BY <1>b, <1>d, <2>c
  <2>d. ASSUME NEW e \in Queue!Entry, queue' = Append(queue, e),
               sec'[e.job[1]][e.job[2]] \in Submitted
        PROVE  \A n \in DOMAIN queue' : sec'[queue'[n].job[1]][queue'[n].job[2]] \in Submitted
    BY <1>b, <1>c, <1>d, <2>d, AfterPush
  <2>1. CASE (UNCHANGED queue \/ Pops) /\ \A w \in Workers : Stays(w)
    BY <2>1, <2>a, <2>b, <2>c
  <2>2. ASSUME NEW w \in Workers, Takes(w)
        PROVE  /\ \A n \in DOMAIN queue' : sec'[queue'[n].job[1]][queue'[n].job[2]] \in Submitted
               /\ \A v \in Workers : Q!Busy(v)' => sec'[Test(v)'][Skill(v)'] \in Submitted
    <3>1. sec'[Test(w)'][Skill(w)'] \in Submitted
      <4>1. Of(held'[w]) = Of(queue[1]) /\ 1 \in DOMAIN queue
        BY <1>c, <2>2, AfterPop DEF Takes
      <4>2. Test(w)' = queue[1].job[1] /\ Skill(w)' = queue[1].job[2]
        BY <4>1 DEF Of, Test, Skill
      <4> QED
        BY <1>b, <1>d, <4>1, <4>2
    <3> QED
      BY <2>2, <2>a, <2>b, <3>1 DEF Takes
  <2>3. ASSUME NEW w \in Workers, Gives(w)
        PROVE  /\ \A n \in DOMAIN queue' : sec'[queue'[n].job[1]][queue'[n].job[2]] \in Submitted
               /\ \A v \in Workers : Q!Busy(v)' => sec'[Test(v)'][Skill(v)'] \in Submitted
    <3>1. held[w] \in Queue!Entry
      BY <1>c, <2>3 DEF Gives, Carries, Queue!TypeOK, Queue!Busy, Q!Busy
    <3>2. sec'[held[w].job[1]][held[w].job[2]] \in Submitted
      BY <1>e, <2>3 DEF Gives, Carries, Test, Skill
    <3> QED
      BY <2>3, <2>a, <2>d, <3>1, <3>2 DEF Gives
  <2>4. ASSUME NEW c \in Clients, EnqueueEvaluation(c), \A w \in Workers : Stays(w)
        PROVE  /\ \A n \in DOMAIN queue' : sec'[queue'[n].job[1]][queue'[n].job[2]] \in Submitted
               /\ \A v \in Workers : Q!Busy(v)' => sec'[Test(v)'][Skill(v)'] \in Submitted
    <3>1. /\ on[c] = <<on[c][1], on[c][2]>> /\ sec'[on[c][1]][on[c][2]] \in Submitted
      BY <1>b, <2>4, RequestAbout DEF WorkIsSubmitted, EnqueueEvaluation
    <3>2. ASSUME NEW e \in Queue!Entry, queue' = Append(queue, e), Of(e) = on[c]
          PROVE  sec'[e.job[1]][e.job[2]] \in Submitted
      BY <3>1, <3>2 DEF Of
    <3> QED
      BY <2>4, <2>a, <2>c, <2>d, <3>2, Enqueues
  <2> QED
    BY <1>a, <2>1, <2>2, <2>3, <2>4 DEF JobMoves, WorkerMoves
<1> QED
  BY <1>1, <1>2 DEF WorkIsSubmitted

LEMMA BaseInit == Init => Base
<1> SUFFICES ASSUME Init PROVE Base
  OBVIOUS
<1>1. InOrder
  <2>1. \A t \in Tests : Ranked(t, 0)
    BY SectionsAssumption DEF Init, Ranked, Submitted, Skills
  <2> QED
    BY <2>1, SectionsAssumption DEF InOrder
<1>2. WorkIsSubmitted
  BY DEF Init, Q!Init, WorkIsSubmitted, Q!Busy
<1> QED
  BY <1>1, <1>2, TypesInit DEF Base

LEMMA BaseStep == Base /\ [Next]_vars => Base'
<1> SUFFICES ASSUME Base, [Next]_vars PROVE Base'
  OBVIOUS
<1>1. Types' /\ TestMoves
  BY TypesStep, TestCases DEF Base
<1> QED
  BY <1>1, OrderStep, WorkStep DEF Base

LEMMA BaseHolds == Spec => []Base
  BY BaseInit, BaseStep, PTL DEF Spec

-----------------------------------------------------------------------------
(* Results.                                                                *)

LEMMA ResultStep == ASSUME Base, ResultIsWhole, [Next]_vars PROVE ResultIsWhole'
<1> USE DEF Base, Types, TestOK
<1>a. TestMoves /\ SectionMoves
  BY TestCases, SectionCases
<1>b. \A t \in Tests : Whole(t) => Whole(t)'
  BY <1>a, SubmittedStays DEF Whole
<1>1. ASSUME UNCHANGED <<status, result>> PROVE ResultIsWhole'
  BY <1>b, <1>1 DEF ResultIsWhole
<1>2. ASSUME NEW t \in Tests, NEW s \in {"in_progress", "abandoned", "processing"},
             status[t] # "completed", status' = [status EXCEPT ![t] = s], UNCHANGED result
      PROVE  ResultIsWhole'
  BY <1>b, <1>2 DEF ResultIsWhole
<1>3. ASSUME NEW t \in Tests, Finalize(t) PROVE ResultIsWhole'
  BY <1>b, <1>1, <1>3 DEF ResultIsWhole, Finalize, Whole
<1>4. ASSUME NEW c \in Clients, NEW t \in Tests, NEW i \in Skills, Submit(c, t, i)
      PROVE  ResultIsWhole'
  <2>1. /\ status[t] = "in_progress" /\ UNCHANGED result
        /\ \E s \in {"in_progress", "processing"} : status' = [status EXCEPT ![t] = s]
    BY <1>4 DEF Submit
  <2> QED
    BY <1>2, <2>1
<1>5. ASSUME NEW t \in Tests, StartPlacement(t) \/ AbandonPlacement(t) PROVE ResultIsWhole'
  BY <1>2, <1>5 DEF StartPlacement, AbandonPlacement
<1>6. ASSUME NEW t \in Tests, NEW i \in Skills, StartSection(t, i) \/ MarkFailed(t, i)
      PROVE  ResultIsWhole'
  BY <1>1, <1>6 DEF StartSection, MarkFailed, test
<1>7. ASSUME NEW c \in Clients, NEW t \in Tests, NEW i \in Skills, RetryEvaluation(c, t, i)
      PROVE  ResultIsWhole'
  BY <1>1, <1>7 DEF RetryEvaluation
<1>8. ASSUME NEW w \in Workers, Save(w) \/ Score(w) PROVE ResultIsWhole'
  BY <1>1, <1>8 DEF Save, Score
<1>9. CASE UNCHANGED test
  BY <1>1, <1>9 DEF test
<1> QED
  BY <1>a, <1>3, <1>4, <1>5, <1>6, <1>7, <1>8, <1>9 DEF TestMoves

(* A test has a result exactly when it is completed, and then every        *)
(* section of it is graded: with any number of submissions, evaluations    *)
(* and retries at once, whatever fails, is lost or dies.                   *)
THEOREM ResultsAreWhole == Spec => []ResultIsWhole
<1>1. Init => ResultIsWhole
  BY DEF Init, ResultIsWhole
<1>2. Base /\ ResultIsWhole /\ [Next]_vars => ResultIsWhole'
  BY ResultStep
<1> QED
  BY <1>1, <1>2, BaseHolds, PTL DEF Spec

-----------------------------------------------------------------------------
(* The life of the tests.                                                  *)

Stages == [t \in Tests |-> Stage(t)]
Hands  == [t \in Tests |-> Cardinality({i \in Skills : sec[t][i] \in Submitted})]
Grades == [t \in Tests |-> {i \in Skills : sec[t][i] = "completed"}]

\* How many sections are handed in is where the learner is.
LEMMA HandsAre ==
    ASSUME NEW sections, NEW k \in 0..Sections,
           \A i \in Skills : sections[i] \in Submitted <=> i <= k
    PROVE  Cardinality({i \in Skills : sections[i] \in Submitted}) = k
<1>a. k \in Nat /\ Sections \in Nat /\ k <= Sections /\ Skills = 1..Sections
  BY SectionsAssumption DEF Skills
<1>1. {i \in Skills : sections[i] \in Submitted} = 1..k
  <2>1. \A i : i \in 1..k <=> i \in Skills /\ i <= k
    BY <1>a
  <2> QED
    BY <2>1
<1>2. Cardinality(1..k) = IF 1 > k THEN 0 ELSE k - 1 + 1
  BY <1>a, FS_Interval
<1>3. Cardinality(1..k) = k
  BY <1>a, <1>2
<1> QED
  BY <1>1, <1>3

LEMMA StageOf ==
    ASSUME NEW t \in Tests, status[t] \in Statuses
    PROVE  /\ status[t] = "absent"      <=> Stages[t] = "none"
           /\ status[t] = "in_progress" <=> Stages[t] = "taking"
           /\ status[t] = "processing"  <=> Stages[t] = "submitted"
           /\ status[t] = "completed"   <=> Stages[t] = "published"
           /\ status[t] = "abandoned"   <=> Stages[t] = "closed"
  BY DEF Stages, Stage, Statuses

LEMMA StageOfNext ==
    ASSUME NEW t \in Tests, status'[t] \in Statuses
    PROVE  /\ status'[t] = "absent"      <=> Stages'[t] = "none"
           /\ status'[t] = "in_progress" <=> Stages'[t] = "taking"
           /\ status'[t] = "processing"  <=> Stages'[t] = "submitted"
           /\ status'[t] = "completed"   <=> Stages'[t] = "published"
           /\ status'[t] = "abandoned"   <=> Stages'[t] = "closed"
  BY DEF Stages, Stage, Statuses

\* Sections that stay on their side are handed in, and graded, as they were.
LEMMA SameHands ==
    ASSUME NEW t \in Tests,
           \A i \in Skills : sec'[t][i] \in Submitted <=> sec[t][i] \in Submitted
    PROVE  Hands'[t] = Hands[t]
<1>1. {i \in Skills : sec'[t][i] \in Submitted} = {i \in Skills : sec[t][i] \in Submitted}
  OBVIOUS
<1> QED
  BY <1>1 DEF Hands

LEMMA SameGrades ==
    ASSUME NEW t \in Tests,
           \A i \in Skills : sec'[t][i] = "completed" <=> sec[t][i] = "completed"
    PROVE  Grades'[t] = Grades[t]
<1>1. {i \in Skills : sec'[t][i] = "completed"} = {i \in Skills : sec[t][i] = "completed"}
  OBVIOUS
<1> QED
  BY <1>1 DEF Grades

LEMMA SameStage ==
    ASSUME NEW t \in Tests, status[t] \in Statuses, status'[t] = status[t]
    PROVE  Stages'[t] = Stages[t]
  BY StageOf, StageOfNext DEF Statuses

LEMMA LifeFunctions ==
    /\ Stages = [t \in Tests |-> Stages[t]] /\ Stages' = [t \in Tests |-> Stages'[t]]
    /\ Hands = [t \in Tests |-> Hands[t]]   /\ Hands' = [t \in Tests |-> Hands'[t]]
    /\ Grades = [t \in Tests |-> Grades[t]] /\ Grades' = [t \in Tests |-> Grades'[t]]
  BY DEF Stages, Hands, Grades

\* The abstract variables, and its actions in their terms.
LEMMA LifeActions ==
    ASSUME NEW t \in Tests
    PROVE  /\ Life!life = <<Stages, Hands, Grades>>
           /\ Life!Begin(t) <=>
                 /\ Stages[t] = "none"
                 /\ \A u \in Tests : Stages[u] \notin {"taking", "submitted"}
                 /\ Stages' = [Stages EXCEPT ![t] = "taking"]
                 /\ Hands' = Hands /\ Grades' = Grades
           /\ Life!HandIn(t) <=>
                 /\ Stages[t] = "taking"
                 /\ Hands' = [Hands EXCEPT ![t] = @ + 1]
                 /\ Stages' = [Stages EXCEPT ![t] = IF Hands'[t] = Sections THEN "submitted" ELSE @]
                 /\ \/ Grades' = Grades
                    \/ Grades' = [Grades EXCEPT ![t] = @ \cup {Hands'[t]}]
           /\ \A i : Life!Grade(t, i) <=>
                 /\ i <= Hands[t] /\ i \notin Grades[t]
                 /\ Grades' = [Grades EXCEPT ![t] = @ \cup {i}]
                 /\ Stages' = Stages /\ Hands' = Hands
           /\ Life!Publish(t) <=>
                 /\ Stages[t] = "submitted" /\ Grades[t] = 1..Sections
                 /\ Stages' = [Stages EXCEPT ![t] = "published"]
                 /\ Hands' = Hands /\ Grades' = Grades
           /\ Life!Close(t) <=>
                 /\ Stages[t] = "taking"
                 /\ Stages' = [Stages EXCEPT ![t] = "closed"]
                 /\ Hands' = Hands /\ Grades' = Grades
  BY DEF Stages, Hands, Grades, Life!life, Life!Begin, Life!HandIn, Life!Grade, Life!Publish, Life!Close

LEMMA LifeStep == ASSUME Base, [Next]_vars PROVE [Life!Next]_(Life!life)
<1> USE DEF Base, Types, TestOK
<1>a. TestMoves /\ SectionMoves /\ TestOK'
  BY TestCases, SectionCases, TestTypes
<1>b. /\ \A u \in Tests : status[u] \in Statuses /\ status'[u] \in Statuses
      /\ \A u \in Tests : status'[u] = status[u] => Stages'[u] = Stages[u]
  BY <1>a, SameStage DEF TestOK
<1>c. \A u \in Tests : sec'[u] = sec[u] => Hands'[u] = Hands[u] /\ Grades'[u] = Grades[u]
  BY SameHands, SameGrades
<1>0. ASSUME \A u \in Tests : Stages'[u] = Stages[u] /\ Hands'[u] = Hands[u] /\ Grades'[u] = Grades[u]
      PROVE  UNCHANGED Life!life
  <2>1. Stages' = Stages /\ Hands' = Hands /\ Grades' = Grades
    BY <1>0, LifeFunctions
  <2>2. Life!life = <<Stages, Hands, Grades>> /\ (Life!life)' = <<Stages', Hands', Grades'>>
    BY DEF Stages, Hands, Grades, Life!life
  <2> QED
    BY <2>1, <2>2
<1>1. ASSUME UNCHANGED <<status, sec>> PROVE UNCHANGED Life!life
  BY <1>0, <1>1, <1>b, <1>c
<1>2. ASSUME NEW t \in Tests, StartPlacement(t) PROVE Life!Begin(t)
  <2>1. /\ status[t] = "absent" /\ status'[t] = "in_progress"
        /\ \A u \in Tests : status[u] \notin Open
        /\ \A u \in Tests : u # t => status'[u] = status[u] /\ sec'[u] = sec[u]
        /\ \A i \in Skills : sec'[t][i] \in {"available", "locked"}
    BY <1>2 DEF StartPlacement
  <2>2. \A i \in Skills : sec[t][i] = "none"
    BY <2>1 DEF InOrder, Ranked
  <2>3. Hands'[t] = Hands[t] /\ Grades'[t] = Grades[t]
    BY <2>1, <2>2, SameHands, SameGrades DEF Submitted
  <2>4. Hands' = Hands /\ Grades' = Grades
    BY <1>c, <2>1, <2>3, LifeFunctions
  <2>5. /\ Stages[t] = "none" /\ Stages'[t] = "taking"
        /\ \A u \in Tests : Stages[u] \notin {"taking", "submitted"}
    BY <1>b, <2>1, StageOf, StageOfNext DEF Open
  <2>6. Stages' = [Stages EXCEPT ![t] = "taking"]
    BY <1>b, <2>1, <2>5, LifeFunctions
  <2> QED
    BY <2>4, <2>5, <2>6, LifeActions
<1>3. ASSUME NEW t \in Tests, AbandonPlacement(t) PROVE Life!Close(t)
  <2>1. /\ status[t] = "in_progress" /\ status'[t] = "abandoned" /\ UNCHANGED sec
        /\ \A u \in Tests : u # t => status'[u] = status[u]
    BY <1>3 DEF AbandonPlacement
  <2>2. Hands' = Hands /\ Grades' = Grades
    BY <1>c, <2>1, LifeFunctions
  <2>3. Stages[t] = "taking" /\ Stages'[t] = "closed"
    BY <1>b, <2>1, StageOf, StageOfNext
  <2>4. Stages' = [Stages EXCEPT ![t] = "closed"]
    BY <1>b, <2>1, <2>3, LifeFunctions
  <2> QED
    BY <2>2, <2>3, <2>4, LifeActions
<1>4. ASSUME NEW t \in Tests, Finalize(t), status[t] = "processing", Whole(t) PROVE Life!Publish(t)
  <2>1. /\ status'[t] = "completed" /\ UNCHANGED sec
        /\ \A u \in Tests : u # t => status'[u] = status[u]
    BY <1>4 DEF Finalize
  <2>2. Hands' = Hands /\ Grades' = Grades
    BY <1>c, <2>1, LifeFunctions
  <2>3. Stages[t] = "submitted" /\ Stages'[t] = "published"
    BY <1>b, <1>4, <2>1, StageOf, StageOfNext
  <2>4. Stages' = [Stages EXCEPT ![t] = "published"]
    BY <1>b, <2>1, <2>3, LifeFunctions
  <2>5. Grades[t] = 1..Sections
    BY <1>4 DEF Grades, Whole, Skills
  <2> QED
    BY <2>2, <2>3, <2>4, <2>5, LifeActions
<1>5. ASSUME UNCHANGED status,
             \A u \in Tests, i \in Skills :
                /\ sec'[u][i] \in Submitted <=> sec[u][i] \in Submitted
                /\ sec'[u][i] = "completed" <=> sec[u][i] = "completed"
      PROVE  UNCHANGED Life!life
  BY <1>0, <1>b, <1>5, SameHands, SameGrades
<1>6. ASSUME NEW t \in Tests, NEW i \in Skills, NEW v, UNCHANGED status,
             v \in SectionStatuses, sec' = [sec EXCEPT ![t][i] = v],
             v \in Submitted <=> sec[t][i] \in Submitted,
             v = "completed" <=> sec[t][i] = "completed"
      PROVE  UNCHANGED Life!life
  <2>1. \A u \in Tests, k \in Skills : sec'[u][k] = IF u = t /\ k = i THEN v ELSE sec[u][k]
    BY <1>6, Placed
  <2> QED
    BY <1>5, <1>6, <2>1
<1>7. ASSUME NEW t \in Tests, NEW i \in Skills, StartSection(t, i) PROVE UNCHANGED Life!life
  BY <1>6, <1>7 DEF StartSection, SetSection, SectionStatuses, Submitted
<1>8. ASSUME NEW t \in Tests, NEW i \in Skills, MarkFailed(t, i) PROVE UNCHANGED Life!life
  <2>1. PICK v \in SectionStatuses :
           v = IF sec[t][i] = "evaluating" THEN "failed" ELSE sec[t][i]
    BY DEF SectionStatuses
  <2>2. UNCHANGED status /\ (UNCHANGED sec \/ sec' = [sec EXCEPT ![t][i] = v])
    BY <1>8, <2>1 DEF MarkFailed, SetSection, test
  <2> QED
    BY <1>1, <1>6, <2>1, <2>2 DEF Submitted
<1>9. ASSUME NEW c \in Clients, NEW t \in Tests, NEW i \in Skills, RetryEvaluation(c, t, i)
      PROVE  UNCHANGED Life!life
  BY <1>6, <1>9 DEF RetryEvaluation, SetSection, SectionStatuses, Submitted
<1>10. ASSUME NEW c \in Clients, NEW t \in Tests, NEW i \in Skills, Submit(c, t, i)
       PROVE  Life!HandIn(t)
  <2>1. PICK k \in 0..Sections : Ranked(t, k)
    BY DEF InOrder
  <2>2. /\ i = k + 1 /\ Ranked(t, k + 1)'
        /\ status' = [status EXCEPT ![t] = IF k + 1 = Sections THEN "processing" ELSE @]
        /\ \A u \in Tests : u # t => sec'[u] = sec[u]
        /\ \A j \in Skills : sec'[t][j] = Unlocking(t, i)[j]
    BY <1>10, <2>1, HandsInNext
  <2>3. k + 1 \in 0..Sections /\ status[t] = "in_progress" /\ sec[t][i] = "in_progress"
    BY <1>10, <2>2, SectionsAssumption DEF Submit, Skills
  <2>4. Hands[t] = k /\ Hands'[t] = k + 1
    <3>1. Cardinality({j \in Skills : sec[t][j] \in Submitted}) = k
      BY <2>1, HandsAre DEF Ranked
    <3>2. Cardinality({j \in Skills : sec'[t][j] \in Submitted}) = k + 1
      BY <2>2, <2>3, HandsAre DEF Ranked
    <3> QED
      BY <3>1, <3>2 DEF Hands
  <2>5. Hands' = [Hands EXCEPT ![t] = @ + 1]
    BY <1>c, <2>2, <2>4, LifeFunctions
  <2>6. Stages[t] = "taking" /\ Stages' = [Stages EXCEPT ![t] = IF k + 1 = Sections THEN "submitted" ELSE @]
    <3>1. Stages[t] = "taking"
      BY <1>b, <2>3, StageOf
    <3>2. \A u \in Tests : u # t => Stages'[u] = Stages[u]
      BY <1>b, <2>2
    <3>3. Stages'[t] = IF k + 1 = Sections THEN "submitted" ELSE Stages[t]
      BY <1>b, <2>2, <2>3, <3>1, StageOfNext
    <3> QED
      BY <3>1, <3>2, <3>3, LifeFunctions
  <2>7. Grades' = Grades \/ Grades' = [Grades EXCEPT ![t] = @ \cup {k + 1}]
    <3>1. \A j \in Skills : sec'[t][j] = "completed" <=>
                \/ sec[t][j] = "completed"
                \/ j = k + 1 /\ i \in Objective
      BY <2>2, <2>3 DEF Unlocking
    <3>2. \A u \in Tests : u # t => Grades'[u] = Grades[u]
      BY <1>c, <2>2
    <3>3. CASE i \in Objective
      <4>1. Grades'[t] = Grades[t] \cup {k + 1}
        <5>1. {j \in Skills : sec'[t][j] = "completed"} =
              {j \in Skills : sec[t][j] = "completed"} \cup {k + 1}
          BY <2>2, <3>1, <3>3
        <5> QED
          BY <5>1 DEF Grades
      <4> QED
        BY <3>2, <4>1, LifeFunctions
    <3>4. CASE i \notin Objective
      <4>1. Grades'[t] = Grades[t]
        BY <3>1, <3>4, SameGrades
      <4> QED
        BY <3>2, <4>1, LifeFunctions
    <3> QED
      BY <3>3, <3>4
  <2> QED
    BY <2>4, <2>5, <2>6, <2>7, LifeActions
<1>11. ASSUME NEW w \in Workers, Score(w)
       PROVE  UNCHANGED Life!life \/ \E t \in Tests, i \in 1..Sections : Life!Grade(t, i)
  <2>1. PICK t \in Tests, i \in Skills : t = Test(w) /\ i = Skill(w)
    BY <1>11, ScoresHandedIn
  <2>2. sec[t][i] \in Submitted /\ UNCHANGED status
    BY <1>11, <2>1, ScoresHandedIn DEF Score
  <2>3. CASE UNCHANGED sec
    BY <1>1, <2>2, <2>3
  <2>4. CASE sec' = [sec EXCEPT ![t][i] = "completed"] /\ sec[t][i] = "completed"
    <3>1. "completed" \in SectionStatuses /\ "completed" \in Submitted
      BY DEF SectionStatuses, Submitted
    <3> QED
      BY <1>6, <2>2, <2>4, <3>1
  <2>5. CASE sec' = [sec EXCEPT ![t][i] = "completed"] /\ sec[t][i] # "completed"
    <3>1. \A u \in Tests, k \in Skills :
             sec'[u][k] = IF u = t /\ k = i THEN "completed" ELSE sec[u][k]
      BY <2>5, Placed DEF SectionStatuses
    <3>2. Hands' = Hands
      <4>1. \A u \in Tests, k \in Skills : sec'[u][k] \in Submitted <=> sec[u][k] \in Submitted
        BY <2>2, <3>1 DEF Submitted
      <4> QED
        BY <4>1, SameHands, LifeFunctions
    <3>3. Stages' = Stages
      BY <1>b, <2>2, LifeFunctions
    <3>4. Grades'[t] = Grades[t] \cup {i} /\ i \notin Grades[t]
      <4>1. {j \in Skills : sec'[t][j] = "completed"} =
            {j \in Skills : sec[t][j] = "completed"} \cup {i}
        BY <3>1
      <4> QED
        BY <2>5, <4>1 DEF Grades
    <3>5. \A u \in Tests : u # t => Grades'[u] = Grades[u]
      BY <3>1, SameGrades
    <3>6. Grades' = [Grades EXCEPT ![t] = @ \cup {i}]
      BY <3>4, <3>5, LifeFunctions
    <3>7. i <= Hands[t]
      <4>1. PICK k \in 0..Sections : Ranked(t, k)
        BY DEF InOrder
      <4>2. Hands[t] = k
        BY <4>1, HandsAre DEF Ranked, Hands
      <4> QED
        BY <2>2, <4>1, <4>2 DEF Ranked
    <3>8. Life!Grade(t, i)
      BY <3>2, <3>3, <3>4, <3>6, <3>7, LifeActions
    <3> QED
      BY <3>8 DEF Skills
  <2> QED
    BY <1>11, <2>1, <2>3, <2>4, <2>5, ScoresHandedIn
<1>12. ASSUME NEW t \in Tests, Finalize(t), ~(status[t] = "processing" /\ Whole(t))
       PROVE  UNCHANGED Life!life
  BY <1>1, <1>12 DEF Finalize
<1>13. ASSUME NEW w \in Workers, Save(w) PROVE UNCHANGED Life!life
  BY <1>1, <1>13 DEF Save
<1>14. CASE UNCHANGED test
  BY <1>1, <1>14 DEF test
<1> QED
  BY <1>a, <1>2, <1>3, <1>4, <1>7, <1>8, <1>9, <1>10, <1>11, <1>12, <1>13, <1>14
     DEF TestMoves, Life!Next

LEMMA LifeInit == Init => Life!Init
<1> SUFFICES ASSUME Init PROVE Life!Init
  OBVIOUS
<1>1. \A t \in Tests : /\ {i \in Skills : sec[t][i] \in Submitted} = {}
                       /\ {i \in Skills : sec[t][i] = "completed"} = {}
                       /\ Stage(t) = "none"
  BY DEF Init, Submitted, Stage
<1>2. Cardinality({}) = 0
  BY FS_EmptySet
<1> QED
  BY <1>1, <1>2 DEF Life!Init

(* The tests do only what TestLife allows: one is open at a time, its      *)
(* sections are handed in once and in order, each is graded once, and a    *)
(* result is published of nothing but a whole test.                        *)
THEOREM ImplementsTestLife == Spec => TestLifeSpec
  BY LifeInit, LifeStep, BaseHolds, PTL DEF Spec, TestLifeSpec, Life!Spec

-----------------------------------------------------------------------------
(* One evaluation of a section at a time.                                  *)

\* A request that is to create the section's job, or to say that it failed.
Asks(c) == todo[c] \notin {<<>>, <<"finalize">>}

\* Whatever has the section has it alone: a request, an entry or a worker.
Alone ==
    /\ \A m, n \in DOMAIN queue : Of(queue[m]) = Of(queue[n]) => m = n
    /\ \A v, w \in Workers : Carries(v) /\ Carries(w) /\ Of(held[v]) = Of(held[w]) => v = w
    /\ \A c, d \in Clients : Asks(c) /\ Asks(d) /\ on[c] = on[d] => c = d
    /\ \A n \in DOMAIN queue, w \in Workers : Carries(w) => Of(queue[n]) # Of(held[w])
    /\ \A n \in DOMAIN queue, c \in Clients : Asks(c) => Of(queue[n]) # on[c]
    /\ \A w \in Workers, c \in Clients : Carries(w) /\ Asks(c) => Of(held[w]) # on[c]

\* Nothing has the section.
Free(s) ==
    /\ \A n \in DOMAIN queue : Of(queue[n]) # s
    /\ \A w \in Workers : Carries(w) => Of(held[w]) # s
    /\ \A c \in Clients : Asks(c) => on[c] # s

\* So that a retry finds nobody at work.
FailedIsFree == \A t \in Tests, i \in Skills : sec[t][i] = "failed" => Free(<<t, i>>)

\* An error that is marked is the last of the job.
MarkedIsLast ==
    \A w \in Workers : step[w] = "mark" =>
        verdict[w] = "permanent" \/ (verdict[w] = "error" /\ LastAttempt(w))

\* Who is about to store an analysis is the first to.
Unsaved == \A w \in Workers : step[w] = "save" => analyses[Test(w)][Skill(w)] = 0

OnceInv == Base /\ Alone /\ FailedIsFree /\ MarkedIsLast /\ Unsaved /\ EvaluatedOnce

Keeps(c) == Asks(c)' => Asks(c) /\ on'[c] = on[c]

HandsOver(c) ==
    /\ Asks(c) /\ ~Asks(c)'
    /\ \E e \in Queue!Entry : queue' = Append(queue, e) /\ Of(e) = on[c]
    /\ \A w \in Workers : Stays(w)
    /\ \A d \in Clients \ {c} : Keeps(d)

Begins(c, t, i) ==
    /\ sec[t][i] = "in_progress" \/ sec[t][i] = "failed"
    /\ sec'[t][i] # "failed"
    /\ ~Asks(c) /\ on'[c] = <<t, i>>
    /\ UNCHANGED queue
    /\ \A w \in Workers : Stays(w)
    /\ \A d \in Clients \ {c} : Keeps(d)

\* Who has a section: how a step passes it on.
Passes ==
    \/ WorkerMoves /\ \A c \in Clients : Keeps(c)
    \/ \E c \in Clients : HandsOver(c)
    \/ \E c \in Clients, t \in Tests, i \in Skills : Begins(c, t, i)

LEMMA PlansAsk ==
    /\ <<"enqueue">> # <<>> /\ <<"enqueue">> # <<"finalize">>
    /\ <<"mark">> # <<>> /\ <<"mark">> # <<"finalize">>
    /\ <<"enqueue", "finalize">> \notin {<<>>, <<"finalize">>}
    /\ <<"mark", "finalize">> \notin {<<>>, <<"finalize">>}
  OBVIOUS

LEMMA Passing == ASSUME Types, "enqueue" \notin CanLose, [Next]_vars PROVE Passes
<1> USE DEF Types, RequestsOK
<1>a. ASSUME UNCHANGED requests PROVE \A c \in Clients : Keeps(c)
  BY <1>a DEF requests, Keeps, Asks
<1>b. ASSUME UNCHANGED <<queue, pc, held, out, step, verdict>>
      PROVE  UNCHANGED queue /\ \A w \in Workers : Stays(w)
  BY <1>b, StayPut
<1>1. ASSUME NEW w \in Workers, Evaluate(w) \/ WorkerDies(w) PROVE Passes
  <2>1. UNCHANGED requests
    BY <1>1 DEF Evaluate, WorkerDies, Run, Read, Load, Save, Score, FinalizeJob, MarkJob,
       Return, Plumbing
  <2> QED
    BY <1>1, <1>a, <2>1, EvaluationMoves DEF Passes
<1>2. ASSUME UNCHANGED <<queue, pc, held, out, step, verdict>>, \A c \in Clients : Keeps(c)
      PROVE  Passes
  BY <1>2, <1>b DEF Passes, WorkerMoves
<1>3. ASSUME NEW w \in Workers, StopWorker(w) PROVE Passes
  BY <1>2, <1>3, <1>a DEF StopWorker, Q!Stop, Q!redis, Q!local, handlers
<1>4. ASSUME NEW c \in Clients, EnqueueEvaluation(c) PROVE Passes
  <2>1. /\ UNCHANGED <<pc, held, out, step, verdict, on>>
        /\ \A w \in Workers : Stays(w)
    <3>1. UNCHANGED <<pc, held, out, step, verdict, on>>
      BY <1>4 DEF EnqueueEvaluation, Q!Enqueue, Q!EnqueueRefused, Q!local, handlers
    <3> QED
      BY <3>1, StayPut
  <2>2. /\ todo[c] # <<>> /\ Tail(todo[c]) \in {<<>>, <<"finalize">>} /\ Asks(c)
        /\ \A d \in Clients \ {c} : todo'[d] = todo[d]
    <3>1. /\ todo[c] # <<>> /\ Head(todo[c]) = "enqueue" /\ todo[c] \in Plans
          /\ \A d \in Clients \ {c} : todo'[d] = todo[d]
      BY <1>4 DEF EnqueueEvaluation
    <3>2. todo[c] \in {<<"enqueue">>, <<"enqueue", "finalize">>} /\ Tail(todo[c]) \in {<<>>, <<"finalize">>}
      BY <3>1, PlanTails
    <3> QED
      BY <3>1, <3>2, PlansAsk DEF Asks
  <2>3. \A d \in Clients \ {c} : Keeps(d)
    BY <2>1, <2>2 DEF Keeps, Asks
  <2>4. PICK j \in Jobs : /\ Q!Enqueue(j) \/ Q!EnqueueRefused(j)
                          /\ j = Fresh(on[c][1], on[c][2])
                          /\ todo' = [todo EXCEPT ![c] =
                                (IF told'[j] = "accepted" THEN <<>> ELSE <<"mark">>) \o Tail(@)]
    BY <1>4 DEF EnqueueEvaluation
  <2>5. CASE Q!EnqueueRefused(j)
    <3>1. UNCHANGED queue
      BY <2>5 DEF Q!EnqueueRefused, Q!redis
    <3>2. Keeps(c)
      BY <2>1, <2>2 DEF Keeps
    <3> QED
      BY <1>2, <2>1, <2>3, <3>1, <3>2
  <2>6. CASE Q!Enqueue(j)
    <3>1. told'[j] = "accepted"
      BY <2>6 DEF Q!Enqueue, Queue!TypeOK
    <3>2. PICK rest \in {<<>>, <<"finalize">>} : rest = Tail(todo[c])
      BY <2>2
    <3>3. todo'[c] = <<>> \o rest
      BY <2>4, <3>1, <3>2
    <3>4. <<>> \o rest = rest
      BY PlansJoin
    <3>5. ~Asks(c)'
      BY <3>3, <3>4 DEF Asks
    <3>6. j[1] = on[c][1] /\ j[2] = on[c][2] /\ on[c] = <<on[c][1], on[c][2]>>
      BY <2>2, <2>4, RequestAbout DEF Fresh
    <3>7. [job |-> j, attempts |-> 0] \in Queue!Entry /\ Of([job |-> j, attempts |-> 0]) = on[c]
      BY <3>6 DEF Queue!Entry, Of
    <3>8. queue' = Append(queue, [job |-> j, attempts |-> 0])
      BY <2>6 DEF Q!Enqueue
    <3>9. HandsOver(c)
      BY <2>1, <2>2, <2>3, <3>5, <3>7, <3>8 DEF HandsOver
    <3> QED
      BY <3>9 DEF Passes
  <2> QED
    BY <2>4, <2>5, <2>6
<1>5. ASSUME NEW c \in Clients, FollowUp(c) \/ Die(c) PROVE Passes
  <2>1. /\ todo[c] # <<>> /\ todo[c] \in Plans /\ UNCHANGED on
        /\ todo'[c] = Tail(todo[c]) \/ todo'[c] = <<>>
        /\ \A d \in Clients \ {c} : todo'[d] = todo[d]
    BY <1>5 DEF FollowUp, Die
  <2>2. ~Asks(c)'
    BY <2>1, PlanTails DEF Asks
  <2>3. \A d \in Clients : Keeps(d)
    BY <2>1, <2>2 DEF Keeps, Asks
  <2> QED
    BY <1>2, <1>5, <2>3 DEF FollowUp, Die, jobs, handlers
<1>6. ASSUME NEW c \in Clients, NEW t \in Tests, NEW i \in Skills,
             Submit(c, t, i) \/ RetryEvaluation(c, t, i)
      PROVE  Passes
  <2>1. /\ todo[c] = <<>> /\ on'[c] = <<t, i>>
        /\ \A d \in Clients \ {c} : on'[d] = on[d] /\ todo'[d] = todo[d]
    BY <1>6 DEF Submit, RetryEvaluation, Goes
  <2>2. /\ sec[t][i] = "in_progress" \/ sec[t][i] = "failed"
        /\ sec'[t][i] # "failed"
    BY <1>6 DEF Submit, RetryEvaluation, Unlocking, SetSection, TestOK
  <2>3. UNCHANGED <<queue, pc, held, out, step, verdict>>
    BY <1>6 DEF Submit, RetryEvaluation, jobs, handlers
  <2>4. Begins(c, t, i)
    BY <1>b, <2>1, <2>2, <2>3 DEF Begins, Keeps, Asks
  <2> QED
    BY <2>4 DEF Passes
<1>7. ASSUME NEW t \in Tests, StartPlacement(t) \/ AbandonPlacement(t) PROVE Passes
  BY <1>2, <1>7, <1>a DEF StartPlacement, AbandonPlacement, jobs, handlers
<1>8. ASSUME NEW t \in Tests, NEW i \in Skills, StartSection(t, i) PROVE Passes
  BY <1>2, <1>8, <1>a DEF StartSection, jobs, handlers
<1>9. CASE UNCHANGED vars
  BY <1>2, <1>9, <1>a DEF vars, jobs, handlers
<1> QED
  BY <1>1, <1>3, <1>4, <1>5, <1>6, <1>7, <1>8, <1>9 DEF Next, Serve

LEMMA CarriesStays ==
    ASSUME NEW w, Stays(w), Carries(w)'
    PROVE  Carries(w) /\ held'[w] = held[w]
  BY DEF Stays, Carries

\* A retry, or a first submission, finds nobody at work on the section.
LEMMA BegunIsFree ==
    ASSUME Base, FailedIsFree, NEW t \in Tests, NEW i \in Skills,
           sec[t][i] = "in_progress" \/ sec[t][i] = "failed"
    PROVE  Free(<<t, i>>)
<1>1. CASE sec[t][i] = "failed"
  BY <1>1 DEF FailedIsFree
<1>2. CASE sec[t][i] = "in_progress"
  <2>1. sec[t][i] \notin Submitted
    BY <1>2 DEF Submitted
  <2>2. ASSUME NEW n \in DOMAIN queue PROVE Of(queue[n]) # <<t, i>>
    BY <2>1 DEF Base, WorkIsSubmitted, Of
  <2>3. ASSUME NEW w \in Workers, Carries(w) PROVE Of(held[w]) # <<t, i>>
    BY <2>1, <2>3 DEF Base, WorkIsSubmitted, Of, Carries, Test, Skill
  <2>4. ASSUME NEW c \in Clients, Asks(c) PROVE on[c] # <<t, i>>
    BY <2>1, <2>4 DEF Base, WorkIsSubmitted, Asks
  <2> QED
    BY <2>2, <2>3, <2>4 DEF Free
<1> QED
  BY <1>1, <1>2

LEMMA AloneStep == ASSUME Base, Alone, FailedIsFree, Passes PROVE Alone'
<1>t. Queue!TypeOK
  BY DEF Base, Types
<1>w. \A w \in Workers : Stays(w) /\ Carries(w)' => Carries(w) /\ held'[w] = held[w]
  BY CarriesStays
<1>1. ASSUME UNCHANGED queue \/ Pops, \A w \in Workers : Stays(w), \A c \in Clients : Keeps(c)
      PROVE  Alone'
  <2>1. \A m \in DOMAIN queue' : \E n \in DOMAIN queue : queue'[m] = queue[n]
    BY <1>1, <1>t, AfterPop
  <2>2. \A m, n \in DOMAIN queue' : Of(queue'[m]) = Of(queue'[n]) => m = n
    <3>1. CASE UNCHANGED queue
      BY <3>1 DEF Alone
    <3>2. CASE Pops
      <4>1. \A m, n \in DOMAIN queue' : Of(queue'[m]) = Of(queue'[n]) => m + 1 = n + 1
        BY <1>t, <3>2, AfterPop DEF Alone
      <4> QED
        BY <1>t, <3>2, <4>1, AfterPop
    <3> QED
      BY <1>1, <3>1, <3>2
  <2> QED
    BY <1>1, <1>w, <2>1, <2>2 DEF Alone, Keeps, Of
<1>2. ASSUME NEW w \in Workers, Takes(w), \A c \in Clients : Keeps(c) PROVE Alone'
  <2>1. /\ 1 \in DOMAIN queue /\ Of(held'[w]) = Of(queue[1]) /\ Pops
        /\ \A v \in Workers \ {w} : Carries(v)' => Carries(v) /\ held'[v] = held[v]
    BY <1>2, <1>t, <1>w, AfterPop DEF Takes
  <2>2. \A m \in DOMAIN queue' : m \in Nat /\ m > 0 /\ m + 1 \in DOMAIN queue /\ queue'[m] = queue[m + 1]
    BY <1>t, <2>1, AfterPop
  <2>3. \A m \in DOMAIN queue' : \E n \in DOMAIN queue : n # 1 /\ queue'[m] = queue[n]
    BY <2>2
  <2>4. \A m, n \in DOMAIN queue' : Of(queue'[m]) = Of(queue'[n]) => m = n
    <3>1. \A m, n \in DOMAIN queue' : Of(queue'[m]) = Of(queue'[n]) => m + 1 = n + 1
      BY <2>2 DEF Alone
    <3> QED
      BY <2>2, <3>1
  <2>5. \A n \in DOMAIN queue' : /\ Of(queue'[n]) # Of(held'[w])
                                 /\ \A v \in Workers : Carries(v)' => Of(queue'[n]) # Of(held'[v])
                                 /\ \A c \in Clients : Asks(c)' => Of(queue'[n]) # on'[c]
    BY <1>2, <2>1, <2>3 DEF Alone, Keeps
  <2>6. \A u, v \in Workers : Carries(u)' /\ Carries(v)' /\ Of(held'[u]) = Of(held'[v]) => u = v
    BY <2>1 DEF Alone
  <2>7. \A v \in Workers, c \in Clients : Carries(v)' /\ Asks(c)' => Of(held'[v]) # on'[c]
    BY <1>2, <2>1 DEF Alone, Keeps
  <2>8. \A c, d \in Clients : Asks(c)' /\ Asks(d)' /\ on'[c] = on'[d] => c = d
    BY <1>2 DEF Alone, Keeps
  <2> QED
    BY <2>4, <2>5, <2>6, <2>7, <2>8 DEF Alone, Of
<1>3. ASSUME NEW e \in Queue!Entry, queue' = Append(queue, e),
             \A w \in Workers : Carries(w)' => Carries(w) /\ held'[w] = held[w] /\ Of(held[w]) # Of(e),
             \A c \in Clients : Asks(c)' => Asks(c) /\ on'[c] = on[c] /\ on[c] # Of(e),
             \A n \in DOMAIN queue : Of(queue[n]) # Of(e)
      PROVE  Alone'
  <2>1. PICK k \in DOMAIN queue' : /\ k \notin DOMAIN queue /\ queue'[k] = e
                                   /\ DOMAIN queue' = DOMAIN queue \cup {k}
    BY <1>t, <1>3, AfterPush
  <2>2. \A n \in DOMAIN queue : queue'[n] = queue[n]
    BY <1>t, <1>3, AfterPush
  <2>3. \A m, n \in DOMAIN queue' : Of(queue'[m]) = Of(queue'[n]) => m = n
    BY <1>3, <2>1, <2>2 DEF Alone
  <2>4. \A n \in DOMAIN queue' : /\ \A w \in Workers : Carries(w)' => Of(queue'[n]) # Of(held'[w])
                                 /\ \A c \in Clients : Asks(c)' => Of(queue'[n]) # on'[c]
    BY <1>3, <2>1, <2>2 DEF Alone
  <2>5. /\ \A v, w \in Workers : Carries(v)' /\ Carries(w)' /\ Of(held'[v]) = Of(held'[w]) => v = w
        /\ \A c, d \in Clients : Asks(c)' /\ Asks(d)' /\ on'[c] = on'[d] => c = d
        /\ \A w \in Workers, c \in Clients : Carries(w)' /\ Asks(c)' => Of(held'[w]) # on'[c]
    BY <1>3 DEF Alone
  <2> QED
    BY <2>3, <2>4, <2>5 DEF Alone, Of
<1>4. ASSUME NEW w \in Workers, Gives(w), \A c \in Clients : Keeps(c) PROVE Alone'
  <2>1. held[w] \in Queue!Entry
    BY <1>4, <1>t DEF Gives, Carries, Queue!TypeOK, Queue!Busy, Q!Busy
  <2>2. /\ Carries(w) /\ ~Carries(w)'
        /\ \A v \in Workers \ {w} : Carries(v)' => Carries(v) /\ held'[v] = held[v]
    BY <1>4, <1>w DEF Gives, Carries
  <2> QED
    BY <1>3, <1>4, <2>1, <2>2 DEF Gives, Alone, Keeps
<1>5. ASSUME NEW c \in Clients, HandsOver(c) PROVE Alone'
  <2>1. PICK e \in Queue!Entry : queue' = Append(queue, e) /\ Of(e) = on[c]
    BY <1>5 DEF HandsOver
  <2>2. /\ Asks(c) /\ ~Asks(c)'
        /\ \A v \in Workers : Carries(v)' => Carries(v) /\ held'[v] = held[v]
        /\ \A d \in Clients \ {c} : Asks(d)' => Asks(d) /\ on'[d] = on[d]
    BY <1>5, <1>w DEF HandsOver, Keeps
  <2> QED
    BY <1>3, <2>1, <2>2 DEF Alone
<1>6. ASSUME NEW c \in Clients, NEW t \in Tests, NEW i \in Skills, Begins(c, t, i) PROVE Alone'
  <2>1. Free(<<t, i>>)
    BY <1>6, BegunIsFree DEF Begins
  <2>2. /\ on'[c] = <<t, i>> /\ UNCHANGED queue
        /\ \A v \in Workers : Carries(v)' => Carries(v) /\ held'[v] = held[v]
        /\ \A d \in Clients \ {c} : Asks(d)' => Asks(d) /\ on'[d] = on[d]
    BY <1>6, <1>w DEF Begins, Keeps
  <2>3. \A n \in DOMAIN queue : Of(queue[n]) # on'[c]
    BY <2>1, <2>2 DEF Free
  <2>4. \A w \in Workers : Carries(w) => Of(held[w]) # on'[c]
    BY <2>1, <2>2 DEF Free
  <2>5. \A d \in Clients : Asks(d) => on[d] # on'[c]
    BY <2>1, <2>2 DEF Free
  <2>6. \A d, f \in Clients : Asks(d)' /\ Asks(f)' /\ on'[d] = on'[f] => d = f
    BY <2>2, <2>5 DEF Alone
  <2>7. \A w \in Workers, d \in Clients : Carries(w)' /\ Asks(d)' => Of(held'[w]) # on'[d]
    BY <2>2, <2>4 DEF Alone
  <2>8. \A n \in DOMAIN queue', d \in Clients : Asks(d)' => Of(queue'[n]) # on'[d]
    BY <2>2, <2>3 DEF Alone
  <2>9. \A n \in DOMAIN queue', w \in Workers : Carries(w)' => Of(queue'[n]) # Of(held'[w])
    BY <2>2 DEF Alone
  <2>10. /\ \A m, n \in DOMAIN queue' : Of(queue'[m]) = Of(queue'[n]) => m = n
         /\ \A v, w \in Workers : Carries(v)' /\ Carries(w)' /\ Of(held'[v]) = Of(held'[w]) => v = w
    BY <2>2 DEF Alone
  <2> QED
    BY <2>6, <2>7, <2>8, <2>9, <2>10 DEF Alone, Of
<1> QED
  BY <1>1, <1>2, <1>4, <1>5, <1>6 DEF Passes, WorkerMoves

\* A section nothing has stays so, unless a request begins on it.
LEMMA FreeStays ==
    ASSUME Base, Passes, NEW s, Free(s),
           \A c \in Clients, t \in Tests, i \in Skills : Begins(c, t, i) => <<t, i>> # s
    PROVE  Free(s)'
<1>t. Queue!TypeOK
  BY DEF Base, Types
<1>w. \A w \in Workers : Stays(w) /\ Carries(w)' => Carries(w) /\ held'[w] = held[w]
  BY CarriesStays
<1>p. Pops => \A n \in DOMAIN queue' : Of(queue'[n]) # s
  BY <1>t, AfterPop DEF Free
<1>1. ASSUME UNCHANGED queue \/ Pops, \A w \in Workers : Stays(w), \A c \in Clients : Keeps(c)
      PROVE  Free(s)'
  <2>1. \A n \in DOMAIN queue' : Of(queue'[n]) # s
    BY <1>1, <1>p DEF Free
  <2> QED
    BY <1>1, <1>w, <2>1 DEF Free, Keeps, Of
<1>2. ASSUME NEW w \in Workers, Takes(w), \A c \in Clients : Keeps(c) PROVE Free(s)'
  <2>1. Of(held'[w]) = Of(queue[1]) /\ 1 \in DOMAIN queue /\ Pops
    BY <1>2, <1>t, AfterPop DEF Takes
  <2>2. \A v \in Workers : Carries(v)' => Of(held'[v]) # s
    BY <1>2, <1>w, <2>1 DEF Takes, Free
  <2>3. \A c \in Clients : Asks(c)' => on'[c] # s
    BY <1>2 DEF Keeps, Free
  <2> QED
    BY <1>p, <2>1, <2>2, <2>3 DEF Free, Of
<1>3. ASSUME NEW e \in Queue!Entry, queue' = Append(queue, e), Of(e) # s
      PROVE  \A n \in DOMAIN queue' : Of(queue'[n]) # s
  BY <1>3, <1>t, AfterPush DEF Free
<1>4. ASSUME NEW w \in Workers, Gives(w), \A c \in Clients : Keeps(c) PROVE Free(s)'
  <2>1. held[w] \in Queue!Entry /\ Of(held[w]) # s
    BY <1>4, <1>t DEF Gives, Carries, Queue!TypeOK, Queue!Busy, Q!Busy, Free
  <2>2. \A n \in DOMAIN queue' : Of(queue'[n]) # s
    BY <1>3, <1>4, <2>1 DEF Gives
  <2>3. \A v \in Workers : Carries(v)' => Of(held'[v]) # s
    BY <1>4, <1>w DEF Gives, Carries, Free
  <2>4. \A c \in Clients : Asks(c)' => on'[c] # s
    BY <1>4 DEF Keeps, Free
  <2> QED
    BY <2>2, <2>3, <2>4 DEF Free, Of
<1>5. ASSUME NEW c \in Clients, HandsOver(c) PROVE Free(s)'
  <2>1. \A n \in DOMAIN queue' : Of(queue'[n]) # s
    BY <1>3, <1>5 DEF HandsOver, Free
  <2>2. \A v \in Workers : Carries(v)' => Of(held'[v]) # s
    BY <1>5, <1>w DEF HandsOver, Free
  <2>3. \A d \in Clients : Asks(d)' => on'[d] # s
    BY <1>5 DEF HandsOver, Keeps, Free
  <2> QED
    BY <2>1, <2>2, <2>3 DEF Free, Of
<1>6. ASSUME NEW c \in Clients, NEW t \in Tests, NEW i \in Skills, Begins(c, t, i) PROVE Free(s)'
  <2>1. \A n \in DOMAIN queue' : Of(queue'[n]) # s
    BY <1>6 DEF Begins, Free
  <2>2. \A v \in Workers : Carries(v)' => Of(held'[v]) # s
    BY <1>6, <1>w DEF Begins, Free
  <2>3. \A d \in Clients : Asks(d)' => on'[d] # s
    BY <1>6 DEF Begins, Keeps, Free
  <2> QED
    BY <2>1, <2>2, <2>3 DEF Free, Of
<1> QED
  BY <1>1, <1>2, <1>4, <1>5, <1>6 DEF Passes, WorkerMoves

\* A step of one worker, and of none.
Same(w) == /\ pc'[w] = pc[w] /\ held'[w] = held[w] /\ out'[w] = out[w]
           /\ step'[w] = step[w] /\ verdict'[w] = verdict[w]

LEMMA OthersSame ==
    ASSUME Types, NEW w \in Workers, Evaluate(w) \/ WorkerDies(w), NEW v \in Workers \ {w}
    PROVE  Same(v)
<1>a. /\ pc \in [Workers -> {"off", "idle", "reserved", "running", "finish"}]
      /\ held \in [Workers -> Queue!Entry \cup {None}]
      /\ out \in [Workers -> Queue!Outcomes \cup {None}]
      /\ step \in [Workers -> {"none", "load", "end"} \cup Steps]
      /\ verdict \in [Workers -> {"ok", "error", "permanent"}]
  BY DEF Types, Queue!TypeOK, StepsOK
<1>1. CASE Read(w) \/ Load(w) \/ Save(w) \/ Score(w) \/ FinalizeJob(w) \/ MarkJob(w)
  BY <1>a, <1>1 DEF Read, Load, Save, Score, FinalizeJob, MarkJob, Then, Fails, jobs, Same
<1>2. CASE Run(w) \/ Return(w) \/ WorkerDies(w)
  BY <1>a, <1>2 DEF Run, Return, WorkerDies, Q!SetRunning, Q!Drop, Q!local, Q!Execute, Q!Crash,
     Then, handlers, Same
<1>3. CASE Plumbing(w)
  BY <1>a, <1>3 DEF Plumbing, Q!Reserve, Q!Finish, Q!Leave, Q!Start, Q!Drop, Q!local, handlers, Same
<1> QED
  BY <1>1, <1>2, <1>3 DEF Evaluate

LEMMA WorkerActs ==
    ASSUME Types, [Next]_vars
    PROVE  \/ \A w \in Workers : Same(w)
           \/ \E w \in Workers : /\ Evaluate(w) \/ WorkerDies(w)
                                 /\ \A v \in Workers \ {w} : Same(v)
<1>1. ASSUME UNCHANGED <<pc, held, out, step, verdict>> PROVE \A w \in Workers : Same(w)
  BY <1>1 DEF Same
<1>2. ASSUME NEW w \in Workers, StopWorker(w) PROVE \A v \in Workers : Same(v)
  BY <1>1, <1>2 DEF StopWorker, Q!Stop, Q!local, handlers
<1>3. ASSUME NEW c \in Clients, Serve(c) \/ Die(c) PROVE \A v \in Workers : Same(v)
  BY <1>1, <1>3 DEF Serve, EnqueueEvaluation, Q!Enqueue, Q!EnqueueRefused, Q!local, FollowUp,
     Die, jobs, handlers
<1>4. ASSUME NEW t \in Tests, StartPlacement(t) \/ AbandonPlacement(t) PROVE \A v \in Workers : Same(v)
  BY <1>1, <1>4 DEF StartPlacement, AbandonPlacement, jobs, handlers
<1>5. ASSUME NEW t \in Tests, NEW i \in Skills, StartSection(t, i) PROVE \A v \in Workers : Same(v)
  BY <1>1, <1>5 DEF StartSection, jobs, handlers
<1>6. ASSUME NEW c \in Clients, NEW t \in Tests, NEW i \in Skills,
             Submit(c, t, i) \/ RetryEvaluation(c, t, i)
      PROVE  \A v \in Workers : Same(v)
  BY <1>1, <1>6 DEF Submit, RetryEvaluation, jobs, handlers
<1>7. CASE UNCHANGED vars
  BY <1>1, <1>7 DEF vars, jobs, handlers
<1> QED
  BY <1>2, <1>3, <1>4, <1>5, <1>6, <1>7, OthersSame DEF Next

\* A section comes to have failed by the word of a request or of a worker.
LEMMA WhoFails ==
    ASSUME Base, [Next]_vars, NEW t \in Tests, NEW i \in Skills,
           sec[t][i] # "failed", sec'[t][i] = "failed"
    PROVE  \/ \E c \in Clients : FollowUp(c) /\ Head(todo[c]) = "mark" /\ on[c] = <<t, i>>
           \/ \E w \in Workers : MarkJob(w) /\ Test(w) = t /\ Skill(w) = i
<1> USE DEF Base, Types, TestOK
<1>m. ASSUME NEW u \in Tests, NEW k \in Skills, MarkFailed(u, k) PROVE u = t /\ k = i
  <2>1. PICK v \in SectionStatuses :
           v = IF sec[u][k] = "evaluating" THEN "failed" ELSE sec[u][k]
    BY DEF SectionStatuses
  <2>2. UNCHANGED sec \/ sec' = [sec EXCEPT ![u][k] = v]
    BY <1>m, <2>1 DEF MarkFailed, SetSection, test
  <2> QED
    BY <2>2, Placed
<1>1. ASSUME NEW u \in Tests, NEW k \in Skills, NEW v \in SectionStatuses, v # "failed",
             sec' = [sec EXCEPT ![u][k] = v]
      PROVE  FALSE
  BY <1>1, Placed
<1>2. ASSUME NEW c \in Clients, FollowUp(c)
      PROVE  Head(todo[c]) = "mark" /\ on[c] = <<t, i>>
  <2>1. on[c] = <<on[c][1], on[c][2]>> /\ on[c][1] \in Tests /\ on[c][2] \in Skills
    BY <1>2, RequestAbout DEF FollowUp
  <2>2. Head(todo[c]) = "mark" /\ MarkFailed(on[c][1], on[c][2])
    BY <1>2 DEF FollowUp, Finalize, test
  <2> QED
    BY <1>m, <2>1, <2>2
<1>3. ASSUME NEW w \in Workers, MarkJob(w) PROVE Test(w) = t /\ Skill(w) = i
  BY <1>m, <1>3, Running DEF MarkJob
<1>4. ASSUME NEW w \in Workers, Score(w) PROVE FALSE
  BY <1>1, <1>4, ScoresHandedIn DEF SectionStatuses
<1>5. ASSUME NEW w \in Workers, Save(w) \/ FinalizeJob(w) PROVE FALSE
  BY <1>5 DEF Save, FinalizeJob, Finalize, test
<1>6. ASSUME NEW w \in Workers, \/ Run(w) \/ Read(w) \/ Load(w) \/ Return(w)
                                \/ Plumbing(w) \/ WorkerDies(w) \/ StopWorker(w)
      PROVE  FALSE
  BY <1>6 DEF Run, Read, Load, Return, Plumbing, WorkerDies, StopWorker, test
<1>7. ASSUME NEW c \in Clients, EnqueueEvaluation(c) \/ Die(c) PROVE FALSE
  BY <1>7 DEF EnqueueEvaluation, Die, test
<1>8. ASSUME NEW u \in Tests, StartPlacement(u) \/ AbandonPlacement(u) PROVE FALSE
  BY <1>8 DEF StartPlacement, AbandonPlacement
<1>9. ASSUME NEW u \in Tests, NEW k \in Skills, StartSection(u, k) PROVE FALSE
  BY <1>1, <1>9 DEF StartSection, SetSection, SectionStatuses
<1>10. ASSUME NEW c \in Clients, NEW u \in Tests, NEW k \in Skills, Submit(c, u, k) PROVE FALSE
  <2>1. sec' = [sec EXCEPT ![u] = Unlocking(u, k)]
    BY <1>10 DEF Submit
  <2> QED
    BY <2>1 DEF Unlocking
<1>11. ASSUME NEW c \in Clients, NEW u \in Tests, NEW k \in Skills, RetryEvaluation(c, u, k)
       PROVE  FALSE
  BY <1>1, <1>11 DEF RetryEvaluation, SetSection, SectionStatuses
<1>12. CASE UNCHANGED vars
  BY <1>12 DEF vars, test
<1> QED
  BY <1>2, <1>3, <1>4, <1>5, <1>6, <1>7, <1>8, <1>9, <1>10, <1>11, <1>12 DEF Next, Serve, Evaluate

\* Who marks a section failed lets go of it by that.
LEMMA MarkFrees ==
    ASSUME Base, Alone, MarkedIsLast, Passes, [Next]_vars, NEW t \in Tests, NEW i \in Skills,
           sec[t][i] # "failed", sec'[t][i] = "failed"
    PROVE  Free(<<t, i>>)'
<1> USE DEF Base, Types
<1>1. ASSUME NEW c \in Clients, FollowUp(c), Head(todo[c]) = "mark", on[c] = <<t, i>>
      PROVE  Free(<<t, i>>)'
  <2>1. /\ todo[c] # <<>> /\ todo[c] \in Plans /\ Asks(c)
        /\ todo'[c] = Tail(todo[c]) /\ UNCHANGED on
        /\ \A d \in Clients \ {c} : todo'[d] = todo[d]
        /\ UNCHANGED <<queue, pc, held, out, step, verdict>>
    <3>1. /\ todo[c] # <<>> /\ todo[c] \in Plans
          /\ todo'[c] = Tail(todo[c]) /\ UNCHANGED on
          /\ \A d \in Clients \ {c} : todo'[d] = todo[d]
          /\ UNCHANGED <<queue, pc, held, out, step, verdict>>
      BY <1>1 DEF FollowUp, RequestsOK, jobs, handlers
    <3>2. Asks(c)
      BY <1>1, <3>1, PlanTails, PlansAsk DEF Asks
    <3> QED
      BY <3>1, <3>2
  <2>2. ~Asks(c)'
    BY <2>1, PlanTails DEF Asks
  <2>3. \A d \in Clients : Asks(d)' => on'[d] # <<t, i>>
    BY <1>1, <2>1, <2>2 DEF Alone, Asks
  <2>4. \A w \in Workers : Stays(w)
    BY <2>1, StayPut
  <2>5. \A w \in Workers : Carries(w)' => Of(held'[w]) # <<t, i>>
    BY <1>1, <2>1, <2>4, CarriesStays DEF Alone
  <2>6. \A n \in DOMAIN queue' : Of(queue'[n]) # <<t, i>>
    BY <1>1, <2>1 DEF Alone
  <2> QED
    BY <2>3, <2>5, <2>6 DEF Free, Of
<1>2. ASSUME NEW w \in Workers, MarkJob(w), Test(w) = t, Skill(w) = i
      PROVE  Free(<<t, i>>)'
  <2>1. /\ pc[w] = "running" /\ step[w] = "mark" /\ step'[w] = "end" /\ verdict'[w] = verdict[w]
        /\ UNCHANGED <<queue, pc, held, on, todo>>
    BY <1>2 DEF MarkJob, At, Then, StepsOK, jobs, requests
  <2>2. Carries(w) /\ ~Carries(w)' /\ Of(held[w]) = <<t, i>>
    BY <1>2, <2>1 DEF MarkedIsLast, Carries, Spent, Q!Busy, LastAttempt, Of, Test, Skill
  <2>3. \A v \in Workers \ {w} : Stays(v)
    <3>1. Evaluate(w)
      BY <1>2 DEF Evaluate
    <3> QED
      BY <3>1, OthersSame, StayPut DEF Same
  <2>4. \A v \in Workers : Carries(v)' => Of(held'[v]) # <<t, i>>
    BY <2>2, <2>3, CarriesStays DEF Alone
  <2>5. \A n \in DOMAIN queue' : Of(queue'[n]) # <<t, i>>
    BY <2>1, <2>2 DEF Alone
  <2>6. \A c \in Clients : Asks(c)' => on'[c] # <<t, i>>
    BY <2>1, <2>2 DEF Alone, Asks
  <2> QED
    BY <2>4, <2>5, <2>6 DEF Free, Of
<1> QED
  BY <1>1, <1>2, WhoFails

LEMMA FailedStep ==
    ASSUME OnceInv, Passes, [Next]_vars
    PROVE  FailedIsFree'
<1> USE DEF OnceInv
<1>1. ASSUME NEW t \in Tests, NEW i \in Skills, sec'[t][i] = "failed" PROVE Free(<<t, i>>)'
  <2>1. CASE sec[t][i] # "failed"
    BY <1>1, <2>1, MarkFrees
  <2>2. CASE sec[t][i] = "failed"
    <3>1. Free(<<t, i>>)
      BY <2>2 DEF FailedIsFree
    <3>2. \A c \in Clients, u \in Tests, k \in Skills : Begins(c, u, k) => <<u, k>> # <<t, i>>
      BY <1>1 DEF Begins
    <3> QED
      BY <3>1, <3>2, FreeStays
  <2> QED
    BY <2>1, <2>2
<1> QED
  BY <1>1 DEF FailedIsFree

LEMMA MarkedStep == ASSUME Types, MarkedIsLast, [Next]_vars PROVE MarkedIsLast'
<1>a. /\ step \in [Workers -> {"none", "load", "end"} \cup Steps]
      /\ verdict \in [Workers -> {"ok", "error", "permanent"}]
  BY DEF Types, StepsOK
<1>1. ASSUME NEW w \in Workers, Same(w), step'[w] = "mark"
      PROVE  verdict'[w] = "permanent" \/ (verdict'[w] = "error" /\ LastAttempt(w)')
  BY <1>1 DEF Same, MarkedIsLast, LastAttempt
<1>2. ASSUME NEW w \in Workers, Evaluate(w) \/ WorkerDies(w), step'[w] = "mark"
      PROVE  verdict'[w] = "permanent" \/ (verdict'[w] = "error" /\ LastAttempt(w)')
  <2>1. CASE Read(w) \/ Load(w) \/ Save(w) \/ Score(w) \/ FinalizeJob(w) \/ MarkJob(w)
    <3>1. (Fails(w, "error") \/ Fails(w, "permanent")) /\ UNCHANGED held
      BY <1>a, <1>2, <2>1 DEF Read, Load, Save, Score, FinalizeJob, MarkJob, Then, jobs
    <3> QED
      BY <1>a, <1>2, <3>1 DEF Fails, LastAttempt
  <2>2. CASE Return(w) \/ WorkerDies(w)
    BY <1>a, <1>2, <2>2 DEF Return, WorkerDies
  <2>3. CASE Run(w)
    <3>1. step[w] = "mark"
      BY <1>a, <1>2, <2>3 DEF Run, Then, handlers
    <3>2. pc[w] = "reserved"
      BY <2>3 DEF Run, Q!SetRunning
    <3> QED
      BY <3>1, <3>2 DEF Types, StepsOK
  <2>4. CASE Plumbing(w)
    <3>1. step[w] = "mark"
      BY <1>2, <2>4 DEF Plumbing, handlers
    <3>2. pc[w] # "running"
      BY <2>4 DEF Plumbing, Q!Reserve, Q!Finish, Q!Leave, Q!Start
    <3> QED
      BY <3>1, <3>2 DEF Types, StepsOK
  <2> QED
    BY <1>2, <2>1, <2>2, <2>3, <2>4 DEF Evaluate
<1> QED
  BY <1>1, <1>2, WorkerActs DEF MarkedIsLast

\* Analyses are stored by Save and by nothing else.
LEMMA Stores == ASSUME TestMoves PROVE UNCHANGED analyses \/ \E w \in Workers : Save(w)
  BY DEF TestMoves, test, StartPlacement, AbandonPlacement, Finalize, StartSection, MarkFailed,
     Submit, RetryEvaluation, Score

LEMMA Saves ==
    ASSUME OnceInv, NEW w \in Workers, Save(w)
    PROVE  /\ Test(w) \in Tests /\ Skill(w) \in Skills
           /\ Carries(w) /\ step[w] = "save" /\ step'[w] # "save" /\ UNCHANGED held
           /\ \/ UNCHANGED analyses
              \/ /\ analyses[Test(w)][Skill(w)] = 0
                 /\ \A t \in Tests, i \in Skills :
                       analyses'[t][i] = IF t = Test(w) /\ i = Skill(w) THEN 1 ELSE analyses[t][i]
<1> USE DEF OnceInv, Base
<1>1. Q!Busy(w) /\ Test(w) \in Tests /\ Skill(w) \in Skills
  BY Running DEF Save
<1>2. step[w] = "save" /\ pc[w] = "running" /\ UNCHANGED held
  BY DEF Save, At, jobs
<1>3. Carries(w)
  BY <1>1, <1>2 DEF Carries, Spent
<1>4. step'[w] # "save"
  BY DEF Save, Then, Fails, Types, StepsOK
<1>5. analyses[Test(w)][Skill(w)] = 0 /\ analyses \in [Tests -> [Skills -> Nat]]
  BY <1>2 DEF Unsaved, Types, TestOK
<1>6. \/ UNCHANGED analyses
      \/ analyses' = [analyses EXCEPT ![Test(w)][Skill(w)] = 1]
  <2>1. analyses[Test(w)][Skill(w)] + 1 = 1
    BY <1>5
  <2>2. \/ UNCHANGED analyses
        \/ analyses' = [analyses EXCEPT ![Test(w)][Skill(w)] = analyses[Test(w)][Skill(w)] + 1]
    BY DEF Save
  <2> QED
    BY <2>1, <2>2
<1>7. ASSUME analyses' = [analyses EXCEPT ![Test(w)][Skill(w)] = 1]
      PROVE  \A t \in Tests, i \in Skills :
                analyses'[t][i] = IF t = Test(w) /\ i = Skill(w) THEN 1 ELSE analyses[t][i]
  BY <1>1, <1>5, <1>7, Placed
<1> QED
  BY <1>1, <1>2, <1>3, <1>4, <1>5, <1>6, <1>7

LEMMA OnceKept == ASSUME OnceInv, TestMoves PROVE EvaluatedOnce'
<1>1. CASE UNCHANGED analyses
  BY <1>1 DEF OnceInv, EvaluatedOnce
<1>2. ASSUME NEW w \in Workers, Save(w) PROVE EvaluatedOnce'
  BY <1>2, Saves DEF OnceInv, EvaluatedOnce
<1> QED
  BY <1>1, <1>2, Stores

LEMMA UnsavedStep == ASSUME OnceInv, [Next]_vars, TestMoves PROVE Unsaved'
<1> USE DEF OnceInv, Base
<1>a. Types'
  BY TypesStep
<1>b. step \in [Workers -> {"none", "load", "end"} \cup Steps]
  BY DEF Types, StepsOK
<1>1. ASSUME NEW w \in Workers, Same(w), step'[w] = "save"
      PROVE  analyses'[Test(w)'][Skill(w)'] = 0
  <2>1. /\ step[w] = "save" /\ held'[w] = held[w] /\ pc[w] = "running"
        /\ analyses[Test(w)][Skill(w)] = 0
        /\ Test(w)' = Test(w) /\ Skill(w)' = Skill(w)
    BY <1>1 DEF Same, Unsaved, Types, StepsOK, Test, Skill
  <2>2. Carries(w) /\ Test(w) \in Tests /\ Skill(w) \in Skills
    BY <2>1, Held DEF Carries, Spent, Q!Busy, Types
  <2>3. ASSUME NEW v \in Workers, Save(v) PROVE analyses'[Test(w)][Skill(w)] = 0
    <3>1. v # w
      BY <1>1, <2>3, Saves
    <3>2. Of(held[v]) # Of(held[w])
      BY <2>2, <2>3, <3>1, Saves DEF Alone
    <3>3. ~(Test(w) = Test(v) /\ Skill(w) = Skill(v))
      BY <3>2 DEF Of, Test, Skill
    <3> QED
      BY <2>1, <2>2, <2>3, <3>3, Saves
  <2> QED
    BY <2>1, <2>3, Stores
<1>2. ASSUME NEW w \in Workers, Evaluate(w) \/ WorkerDies(w), step'[w] = "save"
      PROVE  analyses'[Test(w)'][Skill(w)'] = 0
  <2>1. CASE Load(w)
    <3>1. /\ UNCHANGED <<analyses, held>> /\ ~(analyses[Test(w)][Skill(w)] > 0)
          /\ Test(w) \in Tests /\ Skill(w) \in Skills
      BY <1>b, <1>2, <2>1, Running DEF Load, Then, Fails, test, jobs
    <3>2. analyses[Test(w)][Skill(w)] \in Nat
      BY <3>1 DEF Types, TestOK
    <3> QED
      BY <3>1, <3>2 DEF Test, Skill
  <2>2. CASE Read(w) \/ Save(w) \/ Score(w) \/ FinalizeJob(w) \/ MarkJob(w) \/ Return(w) \/ WorkerDies(w)
    BY <1>b, <1>2, <2>2 DEF Read, Save, Score, FinalizeJob, MarkJob, Return, WorkerDies, Then, Fails
  <2>3. CASE Run(w)
    <3>1. step[w] = "save"
      BY <1>b, <1>2, <2>3 DEF Run, Then, handlers
    <3>2. pc[w] = "reserved"
      BY <2>3 DEF Run, Q!SetRunning
    <3> QED
      BY <3>1, <3>2 DEF Types, StepsOK
  <2>4. CASE Plumbing(w)
    <3>1. step[w] = "save"
      BY <1>2, <2>4 DEF Plumbing, handlers
    <3>2. pc[w] # "running"
      BY <2>4 DEF Plumbing, Q!Reserve, Q!Finish, Q!Leave, Q!Start
    <3> QED
      BY <3>1, <3>2 DEF Types, StepsOK
  <2> QED
    BY <1>2, <2>1, <2>2, <2>3, <2>4 DEF Evaluate
<1> QED
  BY <1>1, <1>2, WorkerActs DEF Unsaved

LEMMA OnceInit == Init => OnceInv
<1> SUFFICES ASSUME Init PROVE OnceInv
  OBVIOUS
<1>1. Alone
  BY DEF Init, Q!Init, Alone, Carries, Q!Busy, Asks
<1>2. FailedIsFree /\ MarkedIsLast /\ Unsaved /\ EvaluatedOnce
  BY DEF Init, FailedIsFree, MarkedIsLast, Unsaved, EvaluatedOnce
<1> QED
  BY <1>1, <1>2, BaseInit DEF OnceInv

LEMMA OnceStep ==
    ASSUME "enqueue" \notin CanLose PROVE OnceInv /\ [Next]_vars => OnceInv'
<1> SUFFICES ASSUME OnceInv, [Next]_vars PROVE OnceInv'
  OBVIOUS
<1>1. Base' /\ TestMoves /\ Passes
  BY BaseStep, TestCases, Passing DEF OnceInv, Base
<1>2. Alone' /\ FailedIsFree'
  BY <1>1, AloneStep, FailedStep DEF OnceInv
<1>3. MarkedIsLast' /\ Unsaved' /\ EvaluatedOnce'
  BY <1>1, MarkedStep, UnsavedStep, OnceKept DEF OnceInv, Base
<1> QED
  BY <1>1, <1>2, <1>3 DEF OnceInv

LEMMA OnceHolds == ASSUME "enqueue" \notin CanLose PROVE Spec => []OnceInv
  BY OnceInit, OnceStep, PTL DEF Spec

(* A response is evaluated, and paid for, once, whatever is retried,       *)
(* refused or dies, as long as the answer of Enqueue is what it did: a     *)
(* request told of a failure that was none would have the section's job    *)
(* and a retry of it at work at once.                                      *)
THEOREM EvaluationsAreSingle == ASSUME "enqueue" \notin CanLose PROVE Spec => []EvaluatedOnce
<1>1. OnceInv => EvaluatedOnce
  BY DEF OnceInv
<1> QED
  BY <1>1, OnceHolds, PTL

-----------------------------------------------------------------------------
(* Nothing waits for nobody.                                               *)

(* No command but Enqueue is refused, an answer is what the command did,   *)
(* nobody dies or is stopped, and the statements that mark and finalize    *)
(* go through.  Without any of these the test may wait for ever.           *)
Steady ==
    /\ CanLose \cap {"enqueue", "reserve", "state"} = {}
    /\ CanFail \cap {"state", "finish"} = {}
    /\ ~CanStop /\ ~CanCrash
    /\ Refused \cap {"mark", "finalize"} = {}

EvaluatingIsHeld == \A t \in Tests, i \in Skills : sec[t][i] = "evaluating" => ~Free(<<t, i>>)

\* The evaluation has come to an end that leaves nothing to be tried again.
Settled(w) ==
    \/ pc[w] = "running" /\ (step[w] = "finalize" \/ (step[w] = "end" /\ verdict[w] = "ok"))
    \/ pc[w] = "finish" /\ out[w] = "succeeded"

SettledIsGraded == \A w \in Workers : Settled(w) => sec[Test(w)][Skill(w)] = "completed"

\* Whose next step on the test is to publish its result.
Publishes(w, t) == At(w, "finalize") /\ Test(w) = t

EndsByPublishing == {<<"finalize">>, <<"enqueue", "finalize">>, <<"mark", "finalize">>}

WillPublish(c, t) == todo[c] \in EndsByPublishing /\ on[c][1] = t

WholeIsPublished ==
    \A t \in Tests : status[t] = "processing" /\ Whole(t) =>
        (\E w \in Workers : Publishes(w, t)) \/ (\E c \in Clients : WillPublish(c, t))

AttendedInv == /\ OnceInv /\ stopping = {}
               /\ EvaluatingIsHeld /\ SettledIsGraded /\ WholeIsPublished

\* What a graded section is stays.
LEMMA GradedStays ==
    ASSUME Base, [Next]_vars, NEW t \in Tests, NEW i \in Skills, sec[t][i] = "completed"
    PROVE  sec'[t][i] = "completed"
<1>1. SectionMoves
  BY TestCases, SectionCases DEF Base
<1> QED
  BY <1>1 DEF SectionMoves

LEMMA StoppingStep == ASSUME Steady, stopping = {}, [Next]_vars PROVE stopping' = {}
<1>1. ASSUME NEW w \in Workers, Evaluate(w) PROVE stopping' = {}
  <2>1. CASE Run(w) \/ Return(w)
    BY <2>1 DEF Run, Return, Q!SetRunning, Q!Execute
  <2>2. CASE Plumbing(w)
    BY <2>2 DEF Plumbing, Q!Reserve, Q!Finish, Q!Leave, Q!Start
  <2>3. CASE Read(w) \/ Load(w) \/ Save(w) \/ Score(w) \/ FinalizeJob(w) \/ MarkJob(w)
    BY <2>3 DEF Read, Load, Save, Score, FinalizeJob, MarkJob, jobs
  <2> QED
    BY <1>1, <2>1, <2>2, <2>3 DEF Evaluate
<1>2. ASSUME NEW w \in Workers, WorkerDies(w) \/ StopWorker(w) PROVE FALSE
  BY <1>2 DEF WorkerDies, StopWorker, Q!Crash, Q!Stop, Steady
<1>3. ASSUME NEW c \in Clients, Serve(c) \/ Die(c) PROVE stopping' = {}
  BY <1>3 DEF Serve, EnqueueEvaluation, Q!Enqueue, Q!EnqueueRefused, FollowUp, Die, jobs
<1>4. ASSUME NEW t \in Tests, StartPlacement(t) \/ AbandonPlacement(t) PROVE stopping' = {}
  BY <1>4 DEF StartPlacement, AbandonPlacement, jobs
<1>5. ASSUME NEW t \in Tests, NEW i \in Skills, StartSection(t, i) PROVE stopping' = {}
  BY <1>5 DEF StartSection, jobs
<1>6. ASSUME NEW c \in Clients, NEW t \in Tests, NEW i \in Skills,
             Submit(c, t, i) \/ RetryEvaluation(c, t, i)
      PROVE  stopping' = {}
  BY <1>6 DEF Submit, RetryEvaluation, jobs
<1>7. CASE UNCHANGED vars
  BY <1>7 DEF vars, jobs
<1> QED
  BY <1>1, <1>2, <1>3, <1>4, <1>5, <1>6, <1>7 DEF Next

(* What a step of a worker that runs makes of where its evaluation is.     *)
LEMMA RunsOn ==
    ASSUME Base, MarkedIsLast, Steady, NEW w \in Workers,
           Read(w) \/ Load(w) \/ Save(w) \/ Score(w) \/ FinalizeJob(w) \/ MarkJob(w)
    PROVE  /\ pc[w] = "running" /\ step[w] # "end" /\ UNCHANGED <<pc, held, out>>
           /\ \/ /\ step[w] = "finalize" /\ step'[w] = "end" /\ UNCHANGED verdict
                 /\ Finalize(Test(w))
              \/ /\ step[w] = "mark" /\ step'[w] = "end" /\ UNCHANGED verdict
                 /\ verdict[w] # "ok" /\ MarkFailed(Test(w), Skill(w))
              \/ /\ step'[w] = "finalize" /\ UNCHANGED verdict
                 /\ sec'[Test(w)][Skill(w)] = "completed"
              \/ step'[w] \in {"load", "save", "score", "mark"}
              \/ step'[w] = "end" /\ verdict'[w] = "error" /\ ~LastAttempt(w)
<1>a. /\ step \in [Workers -> {"none", "load", "end"} \cup Steps]
      /\ verdict \in [Workers -> {"ok", "error", "permanent"}]
      /\ sec \in [Tests -> [Skills -> SectionStatuses]]
  BY DEF Base, Types, StepsOK, TestOK
<1>b. pc[w] = "running" /\ step[w] # "end" /\ UNCHANGED <<pc, held, out>>
  BY DEF Read, Load, Save, Score, FinalizeJob, MarkJob, At, jobs
<1>c. Test(w) \in Tests /\ Skill(w) \in Skills
  BY <1>b, Running DEF Base, At
<1>d. ASSUME NEW k \in {"error", "permanent"}, Fails(w, k)
      PROVE  \/ step'[w] \in {"load", "save", "score", "mark"}
             \/ step'[w] = "end" /\ verdict'[w] = "error" /\ ~LastAttempt(w)
  BY <1>a, <1>d DEF Fails
<1>1. CASE Read(w)
  <2>1. CASE sec[Test(w)][Skill(w)] = "completed" /\ Then(w, "finalize")
    BY <1>1, <1>a, <1>b, <2>1 DEF Read, Then, test
  <2>2. CASE Then(w, "load")
    BY <1>a, <1>b, <2>2 DEF Then
  <2> QED
    BY <1>1, <1>b, <1>d, <2>1, <2>2 DEF Read
<1>2. CASE Load(w)
  <2>1. CASE Then(w, "score") \/ Then(w, "save")
    BY <1>a, <1>b, <2>1 DEF Then
  <2> QED
    BY <1>2, <1>b, <1>d, <2>1 DEF Load
<1>3. CASE Save(w)
  <2>1. CASE Then(w, "score")
    BY <1>a, <1>b, <2>1 DEF Then
  <2> QED
    BY <1>3, <1>b, <1>d, <2>1 DEF Save
<1>4. CASE Score(w)
  <2>1. CASE SetSection(Test(w), Skill(w), "completed") /\ Then(w, "finalize")
    BY <1>a, <1>b, <1>c, <2>1 DEF Then, SetSection
  <2> QED
    BY <1>4, <1>b, <1>d, <2>1 DEF Score
<1>5. CASE FinalizeJob(w)
  BY <1>5, <1>a, <1>b DEF FinalizeJob, At, Then, Steady
<1>6. CASE MarkJob(w)
  BY <1>6, <1>a, <1>b DEF MarkJob, At, Then, MarkedIsLast
<1> QED
  BY <1>1, <1>2, <1>3, <1>4, <1>5, <1>6

(* What the queue makes of a worker.                                       *)
LEMMA Plumbs ==
    ASSUME Base, Steady, stopping = {}, NEW w \in Workers, Run(w) \/ Return(w) \/ Plumbing(w)
    PROVE  \/ /\ pc[w] = "reserved" /\ pc'[w] = "running" /\ step'[w] = "read"
              /\ UNCHANGED <<held, out>>
           \/ /\ pc[w] = "running" /\ step[w] = "end" /\ pc'[w] = "finish" /\ UNCHANGED held
              /\ out'[w] = "succeeded" <=> verdict[w] = "ok"
              /\ out'[w] = "failed" <=> \/ verdict[w] = "permanent"
                                        \/ verdict[w] = "error" /\ LastAttempt(w)
           \/ /\ pc[w] = "finish" /\ pc'[w] = "idle"
              /\ out[w] = "retrying" => queue' = Append(queue, held[w])
           \/ ~Q!Busy(w) /\ pc'[w] \in {"idle", "off", "reserved"}
<1>a. /\ step \in [Workers -> {"none", "load", "end"} \cup Steps]
      /\ verdict \in [Workers -> {"ok", "error", "permanent"}]
      /\ pc \in [Workers -> {"off", "idle", "reserved", "running", "finish"}]
      /\ out \in [Workers -> Queue!Outcomes \cup {None}]
  BY DEF Base, Types, StepsOK, Queue!TypeOK
<1>1. CASE Run(w)
  <2>1. pc[w] = "reserved" /\ pc' = [pc EXCEPT ![w] = "running"] /\ UNCHANGED <<held, out>>
    BY <1>1 DEF Run, Q!SetRunning, Q!local, Steady
  <2> QED
    BY <1>1, <1>a, <2>1 DEF Run, Then
<1>2. CASE Return(w)
  <2>1. pc[w] = "running" /\ step[w] = "end" /\ pc'[w] = "finish" /\ UNCHANGED held
    BY <1>2, <1>a DEF Return, At, Q!Execute
  <2>2. out'[w] = CASE verdict[w] = "ok" -> "succeeded"
                    [] verdict[w] = "error" /\ ~LastAttempt(w) -> "retrying"
                    [] OTHER -> "failed"
    BY <1>2 DEF Return
  <2>3. verdict[w] \in {"ok", "error", "permanent"}
    BY <1>a
  <2> QED
    BY <2>1, <2>2, <2>3
<1>3. CASE Q!Reserve(w)
  BY <1>3, <1>a DEF Q!Reserve, Q!Busy
<1>4. CASE Q!Finish(w)
  BY <1>4, <1>a DEF Q!Finish, Q!Drop, Steady
<1>5. CASE Q!Leave(w) \/ Q!Start(w)
  BY <1>5, <1>a DEF Q!Leave, Q!Start, Q!Busy
<1> QED
  BY <1>1, <1>2, <1>3, <1>4, <1>5 DEF Plumbing

LEMMA SettledStep ==
    ASSUME AttendedInv, Steady, [Next]_vars
    PROVE  SettledIsGraded'
<1> USE DEF AttendedInv, OnceInv
<1>t. Types
  BY DEF Base
<1>1. ASSUME NEW w \in Workers, Settled(w), UNCHANGED held
      PROVE  sec'[Test(w)'][Skill(w)'] = "completed"
  <2>1. Test(w) \in Tests /\ Skill(w) \in Skills
    BY <1>t, <1>1, Held DEF Settled, Q!Busy, Types
  <2>2. sec'[Test(w)][Skill(w)] = "completed"
    BY <1>1, <2>1, GradedStays DEF SettledIsGraded
  <2> QED
    BY <1>1, <2>2 DEF Test, Skill
<1>2. ASSUME NEW w \in Workers, Same(w), Settled(w)'
      PROVE  sec'[Test(w)'][Skill(w)'] = "completed"
  <2>1. Settled(w) /\ Test(w)' = Test(w) /\ Skill(w)' = Skill(w)
    BY <1>2 DEF Same, Settled, Test, Skill
  <2>2. Test(w) \in Tests /\ Skill(w) \in Skills
    BY <1>t, <2>1, Held DEF Settled, Q!Busy, Types
  <2> QED
    BY <2>1, <2>2, GradedStays DEF SettledIsGraded
<1>3. ASSUME NEW w \in Workers, Evaluate(w), Settled(w)'
      PROVE  sec'[Test(w)'][Skill(w)'] = "completed"
  <2>1. CASE Read(w) \/ Load(w) \/ Save(w) \/ Score(w) \/ FinalizeJob(w) \/ MarkJob(w)
    <3>1. UNCHANGED held
      BY <2>1, RunsOn
    <3>2. CASE step'[w] = "finalize" /\ sec'[Test(w)][Skill(w)] = "completed"
      BY <3>1, <3>2 DEF Test, Skill
    <3>3. CASE step[w] = "finalize"
      <4>1. Settled(w)
        BY <2>1, <3>3, RunsOn DEF Settled
      <4> QED
        BY <1>1, <3>1, <4>1
    <3> QED
      BY <1>3, <2>1, <3>2, <3>3, RunsOn DEF Settled
  <2>2. CASE Run(w) \/ Return(w) \/ Plumbing(w)
    <3>1. CASE pc[w] = "running" /\ step[w] = "end" /\ verdict[w] = "ok" /\ UNCHANGED held
      BY <1>1, <3>1 DEF Settled
    <3> QED
      BY <1>3, <2>2, <3>1, Plumbs DEF Settled
  <2> QED
    BY <1>3, <2>1, <2>2 DEF Evaluate
<1>4. ASSUME NEW w \in Workers PROVE ~WorkerDies(w)
  BY DEF WorkerDies, Q!Crash, Steady
<1> QED
  BY <1>t, <1>2, <1>3, <1>4, WorkerActs DEF SettledIsGraded

\* Whoever of the three has a section, somebody has it after the step.
LEMMA EntryGoesOn ==
    ASSUME AttendedInv, Steady, [Next]_vars, NEW s,
           NEW n \in DOMAIN queue, Of(queue[n]) = s
    PROVE  ~Free(s)'
<1> USE DEF AttendedInv, OnceInv, Base
<1>t. Types /\ Queue!TypeOK
  BY DEF Types
<1>1. CASE UNCHANGED queue
  BY <1>1 DEF Free, Of
<1>2. ASSUME NEW e \in Queue!Entry, queue' = Append(queue, e) PROVE ~Free(s)'
  <2>1. n \in DOMAIN queue' /\ queue'[n] = queue[n]
    BY <1>t, <1>2, AfterPush
  <2> QED
    BY <2>1 DEF Free, Of
<1>3. ASSUME NEW w \in Workers, Takes(w) PROVE ~Free(s)'
  <2>1. CASE n = 1
    <3>1. Of(held'[w]) = s /\ Carries(w)'
      BY <1>t, <1>3, <2>1, AfterPop DEF Takes, Carries
    <3> QED
      BY <3>1 DEF Free, Of
  <2>2. CASE n # 1
    <3>1. n - 1 \in DOMAIN queue' /\ queue'[n - 1] = queue[n]
      BY <1>t, <1>3, <2>2, AfterPop DEF Takes
    <3> QED
      BY <3>1 DEF Free, Of
  <2> QED
    BY <2>1, <2>2
<1>4. ASSUME NEW w \in Workers, Gives(w) PROVE ~Free(s)'
  <2>1. held[w] \in Queue!Entry
    BY <1>t, <1>4 DEF Gives, Carries, Queue!TypeOK, Queue!Busy, Q!Busy
  <2> QED
    BY <1>2, <1>4, <2>1 DEF Gives
<1>5. ASSUME NEW c \in Clients, EnqueueEvaluation(c) PROVE ~Free(s)'
  BY <1>1, <1>2, <1>5, <1>t, Enqueues
<1> QED
  BY <1>1, <1>3, <1>4, <1>5, <1>t, JobCases DEF JobMoves, WorkerMoves, Steady

LEMMA WorkerGoesOn ==
    ASSUME AttendedInv, Steady, [Next]_vars, NEW t \in Tests, NEW i \in Skills,
           sec[t][i] = "evaluating", sec'[t][i] = "evaluating",
           NEW w \in Workers, Carries(w), Of(held[w]) = <<t, i>>
    PROVE  ~Free(<<t, i>>)'
<1> USE DEF AttendedInv, OnceInv, Base
<1>t. Types /\ Queue!TypeOK
  BY DEF Types
<1>a. Test(w) = t /\ Skill(w) = i /\ ~Settled(w) /\ Q!Busy(w)
  BY DEF Of, Test, Skill, SettledIsGraded, Carries
<1>b. ASSUME Carries(w)', UNCHANGED held PROVE ~Free(<<t, i>>)'
  BY <1>b DEF Free, Of
<1>1. CASE Same(w)
  BY <1>1 DEF Same, Carries, Q!Busy, Spent, LastAttempt, Free, Of
<1>2. CASE Evaluate(w)
  <2>1. CASE Read(w) \/ Load(w) \/ Save(w) \/ Score(w) \/ FinalizeJob(w) \/ MarkJob(w)
    <3>1. pc'[w] = "running" /\ UNCHANGED held /\ pc[w] = "running"
      BY <2>1, RunsOn
    <3>2. CASE MarkFailed(Test(w), Skill(w))
      <4>1. sec'[t][i] = "failed"
        BY <1>a, <3>2, Placed DEF MarkFailed, SetSection, Steady, Types, TestOK, SectionStatuses
      <4> QED
        BY <4>1
    <3>3. CASE step'[w] \in {"load", "save", "score", "mark"}
      BY <1>b, <3>1, <3>3 DEF Carries, Q!Busy, Spent
    <3>4. CASE step'[w] = "end" /\ verdict'[w] = "error" /\ ~LastAttempt(w)
      <4>1. Carries(w)'
        BY <3>1, <3>4 DEF Carries, Q!Busy, Spent, LastAttempt
      <4> QED
        BY <1>b, <3>1, <4>1
    <3>5. step[w] # "finalize"
      BY <1>a, <3>1 DEF Settled
    <3> QED
      BY <1>a, <2>1, <3>2, <3>3, <3>4, <3>5, RunsOn
  <2>2. CASE Run(w) \/ Return(w) \/ Plumbing(w)
    <3>1. CASE pc'[w] = "running" /\ step'[w] = "read" /\ UNCHANGED held
      BY <1>b, <3>1 DEF Carries, Q!Busy, Spent
    <3>2. CASE /\ pc[w] = "running" /\ step[w] = "end" /\ pc'[w] = "finish" /\ UNCHANGED held
               /\ out'[w] = "failed" <=> \/ verdict[w] = "permanent"
                                         \/ verdict[w] = "error" /\ LastAttempt(w)
      <4>1. out'[w] # "failed"
        BY <3>2 DEF Carries, Spent
      <4>2. Carries(w)'
        BY <3>2, <4>1 DEF Carries, Q!Busy, Spent
      <4> QED
        BY <1>b, <3>2, <4>2
    <3>3. CASE pc[w] = "finish" /\ (out[w] = "retrying" => queue' = Append(queue, held[w]))
      <4>1. out[w] \in {"succeeded", "retrying", "failed"}
        BY <1>t, <3>3 DEF Queue!TypeOK, Queue!Outcomes
      <4>2. out[w] = "retrying"
        BY <1>a, <3>3, <4>1 DEF Carries, Spent, Settled
      <4>3. held[w] \in Queue!Entry
        BY <1>t, <1>a DEF Queue!TypeOK, Queue!Busy, Q!Busy
      <4>4. PICK m \in DOMAIN queue' : queue'[m] = held[w]
        BY <1>t, <3>3, <4>2, <4>3, AfterPush
      <4> QED
        BY <4>4 DEF Free, Of
    <3> QED
      BY <1>a, <2>2, <3>1, <3>2, <3>3, Plumbs
  <2> QED
    BY <1>2, <2>1, <2>2 DEF Evaluate
<1>3. \A v \in Workers : ~WorkerDies(v)
  BY DEF WorkerDies, Q!Crash, Steady
<1> QED
  BY <1>t, <1>1, <1>2, <1>3, WorkerActs

\* A request that has something to do does its next step, or nothing.
LEMMA RequestActs ==
    ASSUME Types, Steady, [Next]_vars, NEW c \in Clients, todo[c] # <<>>
    PROVE  \/ EnqueueEvaluation(c) \/ FollowUp(c)
           \/ todo'[c] = todo[c] /\ on'[c] = on[c]
<1> USE DEF Types, RequestsOK
<1>1. CASE UNCHANGED requests
  BY <1>1 DEF requests
<1>2. ASSUME NEW d \in Clients, NEW t \in Tests, NEW i \in Skills,
             Submit(d, t, i) \/ RetryEvaluation(d, t, i)
      PROVE  todo'[c] = todo[c] /\ on'[c] = on[c]
  BY <1>2 DEF Submit, RetryEvaluation, Goes
<1>3. ASSUME NEW d \in Clients, d # c, EnqueueEvaluation(d) \/ FollowUp(d)
      PROVE  todo'[c] = todo[c] /\ on'[c] = on[c]
  BY <1>3 DEF EnqueueEvaluation, FollowUp
<1>4. ASSUME NEW d \in Clients, Die(d) PROVE FALSE
  BY <1>4 DEF Die, Steady
<1>5. ASSUME NEW t \in Tests, StartPlacement(t) \/ AbandonPlacement(t) PROVE UNCHANGED requests
  BY <1>5 DEF StartPlacement, AbandonPlacement
<1>6. ASSUME NEW t \in Tests, NEW i \in Skills, StartSection(t, i) PROVE UNCHANGED requests
  BY <1>6 DEF StartSection
<1>7. ASSUME NEW w \in Workers, Evaluate(w) \/ WorkerDies(w) \/ StopWorker(w)
      PROVE  UNCHANGED requests
  BY <1>7 DEF Evaluate, WorkerDies, StopWorker, Run, Read, Load, Save, Score, FinalizeJob,
     MarkJob, Return, Plumbing
<1>8. CASE UNCHANGED vars
  BY <1>1, <1>8 DEF vars
<1> QED
  BY <1>1, <1>2, <1>3, <1>4, <1>5, <1>6, <1>7, <1>8 DEF Next, Serve

\* Creating the job, or being refused: what is left to do.
LEMMA AfterEnqueue ==
    ASSUME Types, NEW c \in Clients, EnqueueEvaluation(c)
    PROVE  /\ UNCHANGED on
           /\ \/ todo[c] = <<"enqueue">> /\ todo'[c] \in {<<>>, <<"mark">>}
              \/ /\ todo[c] = <<"enqueue", "finalize">>
                 /\ todo'[c] \in {<<"finalize">>, <<"mark", "finalize">>}
<1> USE DEF Types, RequestsOK
<1>1. /\ todo[c] \in Plans /\ todo[c] # <<>> /\ Head(todo[c]) = "enqueue" /\ UNCHANGED on
  BY DEF EnqueueEvaluation
<1>2. \/ todo'[c] = <<>> \o Tail(todo[c])
      \/ todo'[c] = <<"mark">> \o Tail(todo[c])
  BY Enqueues
<1>3. CASE todo[c] = <<"enqueue">>
  <2>1. Tail(todo[c]) = <<>>
    BY <1>3
  <2> QED
    BY <1>1, <1>2, <1>3, <2>1
<1>4. CASE todo[c] = <<"enqueue", "finalize">>
  <2>1. Tail(todo[c]) = <<"finalize">>
    BY <1>4
  <2> QED
    BY <1>1, <1>2, <1>4, <2>1, Joined
<1> QED
  BY <1>1, <1>3, <1>4, PlanTails

LEMMA RequestGoesOn ==
    ASSUME AttendedInv, Steady, [Next]_vars, NEW t \in Tests, NEW i \in Skills,
           sec[t][i] = "evaluating", sec'[t][i] = "evaluating",
           NEW c \in Clients, Asks(c), on[c] = <<t, i>>
    PROVE  ~Free(<<t, i>>)'
<1> USE DEF AttendedInv, OnceInv, Base
<1>t. Types /\ Queue!TypeOK
  BY DEF Types
<1>a. todo[c] # <<>> /\ todo[c] # <<"finalize">> /\ todo[c] \in Plans
  BY <1>t DEF Asks, Types, RequestsOK
<1>1. CASE todo'[c] = todo[c] /\ on'[c] = on[c]
  BY <1>1 DEF Asks, Free
<1>2. CASE EnqueueEvaluation(c)
  <2>1. PICK j \in Jobs : /\ Q!Enqueue(j) \/ Q!EnqueueRefused(j)
                          /\ j = Fresh(on[c][1], on[c][2])
                          /\ todo' = [todo EXCEPT ![c] =
                                (IF told'[j] = "accepted" THEN <<>> ELSE <<"mark">>) \o Tail(@)]
    BY <1>2 DEF EnqueueEvaluation
  <2>2. CASE Q!EnqueueRefused(j)
    <3>1. told'[j] # "accepted"
      BY <1>t, <2>2 DEF Q!EnqueueRefused, Queue!TypeOK
    <3>2. todo'[c] = <<"mark">> \o Tail(todo[c])
      BY <1>t, <2>1, <3>1 DEF Types, RequestsOK
    <3>3. todo'[c] # <<>> /\ todo'[c] # <<"finalize">>
      <4>1. Tail(todo[c]) \in {<<>>, <<"finalize">>}
        BY <1>a, PlanTails
      <4>2. todo'[c] \in {<<"mark">>, <<"mark", "finalize">>}
        BY <3>2, <4>1, PlansJoin
      <4> QED
        BY <4>2, PlansAsk
    <3>4. Asks(c)' /\ on'[c] = <<t, i>>
      BY <1>2, <3>3 DEF Asks, EnqueueEvaluation
    <3> QED
      BY <3>4 DEF Free
  <2>3. CASE Q!Enqueue(j)
    <3>1. [job |-> j, attempts |-> 0] \in Queue!Entry /\ queue' = Append(queue, [job |-> j, attempts |-> 0])
      BY <2>3 DEF Queue!Entry, Q!Enqueue
    <3>2. PICK m \in DOMAIN queue' : queue'[m] = [job |-> j, attempts |-> 0]
      BY <1>t, <3>1, AfterPush
    <3>3. j[1] = t /\ j[2] = i
      BY <2>1 DEF Fresh
    <3> QED
      BY <3>2, <3>3 DEF Free, Of
  <2> QED
    BY <2>1, <2>2, <2>3
<1>3. CASE FollowUp(c)
  <2>1. Head(todo[c]) # "finalize"
    BY <1>a, PlanTails DEF Plans
  <2>2. MarkFailed(t, i)
    BY <1>3, <2>1 DEF FollowUp
  <2>3. sec'[t][i] = "failed"
    BY <1>t, <2>2, Placed DEF MarkFailed, SetSection, Steady, Types, TestOK, SectionStatuses
  <2> QED
    BY <2>3
<1> QED
  BY <1>t, <1>a, <1>1, <1>2, <1>3, RequestActs

\* A section comes to be evaluated when a request hands it in or retries it.
LEMMA WhoEvaluates ==
    ASSUME Base, TestMoves, NEW t \in Tests, NEW i \in Skills,
           sec[t][i] # "evaluating", sec'[t][i] = "evaluating"
    PROVE  \E c \in Clients : /\ Submit(c, t, i) \/ RetryEvaluation(c, t, i)
                              /\ i \notin Objective \/ RetryEvaluation(c, t, i)
<1> USE DEF Base, Types, TestOK
<1>1. ASSUME NEW u \in Tests, NEW k \in Skills, NEW v \in SectionStatuses, v # "evaluating",
             sec' = [sec EXCEPT ![u][k] = v]
      PROVE  FALSE
  BY <1>1, Placed
<1>2. ASSUME NEW u \in Tests, NEW k \in Skills, MarkFailed(u, k) PROVE FALSE
  <2>1. PICK v \in SectionStatuses :
           v = IF sec[u][k] = "evaluating" THEN "failed" ELSE sec[u][k]
    BY DEF SectionStatuses
  <2>2. sec' = [sec EXCEPT ![u][k] = v] \/ UNCHANGED sec
    BY <1>2, <2>1 DEF MarkFailed, SetSection, test
  <2>3. sec' = [sec EXCEPT ![u][k] = v]
    BY <2>2
  <2>4. v = "evaluating" => sec[u][k] = "evaluating" /\ v = "failed"
    BY <2>1
  <2> QED
    BY <1>1, <2>3, <2>4
<1>3. ASSUME NEW u \in Tests, StartPlacement(u) PROVE FALSE
  BY <1>3 DEF StartPlacement
<1>4. ASSUME NEW u \in Tests, AbandonPlacement(u) \/ Finalize(u) PROVE FALSE
  BY <1>4 DEF AbandonPlacement, Finalize
<1>5. ASSUME NEW u \in Tests, NEW k \in Skills, StartSection(u, k) PROVE FALSE
  BY <1>1, <1>5 DEF StartSection, SetSection, SectionStatuses
<1>6. ASSUME NEW c \in Clients, NEW u \in Tests, NEW k \in Skills, RetryEvaluation(c, u, k)
      PROVE  u = t /\ k = i
  <2>1. sec' = [sec EXCEPT ![u][k] = "evaluating"] /\ "evaluating" \in SectionStatuses
    BY <1>6 DEF RetryEvaluation, SetSection, SectionStatuses
  <2> QED
    BY <2>1, Placed
<1>7. ASSUME NEW c \in Clients, NEW u \in Tests, NEW k \in Skills, Submit(c, u, k)
      PROVE  u = t /\ k = i /\ i \notin Objective
  <2>1. sec' = [sec EXCEPT ![u] = Unlocking(u, k)]
    BY <1>7 DEF Submit
  <2>2. u = t
    BY <2>1
  <2>3. sec'[t][i] = IF i = k THEN IF k \in Objective THEN "completed" ELSE "evaluating"
                     ELSE IF i = k + 1 /\ sec[t][i] = "locked" THEN "available" ELSE sec[t][i]
    BY <2>1, <2>2 DEF Unlocking
  <2> QED
    BY <2>2, <2>3
<1>8. ASSUME NEW w \in Workers, Save(w) \/ Score(w) PROVE FALSE
  BY <1>1, <1>8, ScoresHandedIn DEF Save, SectionStatuses
<1> QED
  BY <1>2, <1>3, <1>4, <1>5, <1>6, <1>7, <1>8 DEF TestMoves, test

LEMMA EvaluatingStep ==
    ASSUME AttendedInv, Steady, [Next]_vars
    PROVE  EvaluatingIsHeld'
<1> USE DEF AttendedInv, OnceInv, Base
<1>t. Types /\ TestMoves
  BY TestCases
<1>1. ASSUME NEW t \in Tests, NEW i \in Skills, sec[t][i] = "evaluating", sec'[t][i] = "evaluating"
      PROVE  ~Free(<<t, i>>)'
  <2>1. ~Free(<<t, i>>)
    BY <1>1 DEF EvaluatingIsHeld
  <2> QED
    BY <1>1, <2>1, EntryGoesOn, WorkerGoesOn, RequestGoesOn DEF Free
<1>2. ASSUME NEW t \in Tests, NEW i \in Skills, sec[t][i] # "evaluating", sec'[t][i] = "evaluating"
      PROVE  ~Free(<<t, i>>)'
  <2>1. PICK c \in Clients : /\ Submit(c, t, i) \/ RetryEvaluation(c, t, i)
                             /\ i \notin Objective \/ RetryEvaluation(c, t, i)
    BY <1>2, <1>t, WhoEvaluates
  <2>2. on'[c] = <<t, i>>
    BY <1>t, <2>1 DEF Submit, RetryEvaluation, Goes, Types, RequestsOK
  <2>3. todo'[c] # <<>> /\ todo'[c] # <<"finalize">>
    <3>1. CASE RetryEvaluation(c, t, i)
      <4>1. todo'[c] = <<"enqueue">>
        BY <1>t, <3>1 DEF RetryEvaluation, Goes, Types, RequestsOK
      <4> QED
        BY <4>1, PlansAsk
    <3>2. CASE Submit(c, t, i) /\ i \notin Objective
      <4>1. PICK rest \in {<<>>, <<"finalize">>} : todo'[c] = <<"enqueue">> \o rest
        BY <1>t, <3>2 DEF Submit, Goes, Types, RequestsOK
      <4>2. todo'[c] \in {<<"enqueue">>, <<"enqueue", "finalize">>}
        BY <4>1, PlansJoin
      <4> QED
        BY <4>2, PlansAsk
    <3> QED
      BY <2>1, <3>1, <3>2
  <2> QED
    BY <2>2, <2>3 DEF Free, Asks
<1> QED
  BY <1>1, <1>2 DEF EvaluatingIsHeld

LEMMA FinalizesWhole ==
    ASSUME Types, NEW t \in Tests, status[t] = "processing", Whole(t), Finalize(t)
    PROVE  status'[t] = "completed"
  BY DEF Finalize, Types, TestOK

\* Who is to publish the result is so until it is published.
LEMMA WorkerPublishes ==
    ASSUME AttendedInv, Steady, [Next]_vars, NEW t \in Tests,
           status[t] = "processing", Whole(t), status'[t] = "processing",
           NEW w \in Workers, Publishes(w, t)
    PROVE  Publishes(w, t)'
<1> USE DEF AttendedInv, OnceInv, Base
<1>t. Types
  OBVIOUS
<1>a. pc[w] = "running" /\ step[w] = "finalize" /\ Test(w) = t
  BY DEF Publishes, At
<1>1. CASE Same(w)
  BY <1>a, <1>1 DEF Same, Publishes, At, Test
<1>2. ASSUME Evaluate(w) PROVE FALSE
  <2>1. FinalizeJob(w)
    BY <1>a, <1>2 DEF Evaluate, Run, Read, Load, Save, Score, MarkJob, Return, Plumbing, At,
       Q!SetRunning, Q!Reserve, Q!Finish, Q!Leave, Q!Start
  <2>2. Finalize(t)
    BY <1>a, <2>1 DEF FinalizeJob, Steady
  <2> QED
    BY <1>t, <2>2, FinalizesWhole
<1>3. \A v \in Workers : ~WorkerDies(v)
  BY DEF WorkerDies, Q!Crash, Steady
<1> QED
  BY <1>t, <1>1, <1>2, <1>3, WorkerActs

LEMMA RequestPublishes ==
    ASSUME AttendedInv, Steady, [Next]_vars, NEW t \in Tests,
           status[t] = "processing", Whole(t), status'[t] = "processing",
           NEW c \in Clients, WillPublish(c, t)
    PROVE  WillPublish(c, t)'
<1> USE DEF AttendedInv, OnceInv, Base
<1>t. Types /\ todo[c] \in EndsByPublishing /\ on[c][1] = t
  BY DEF WillPublish
<1>d. /\ <<"enqueue">> # <<"finalize">> /\ <<"enqueue">> # <<"mark", "finalize">>
      /\ <<"enqueue">> # <<"enqueue", "finalize">>
      /\ <<>> \notin EndsByPublishing
  BY DEF EndsByPublishing
<1>a. todo[c] # <<>>
  BY <1>t, <1>d
<1>1. CASE todo'[c] = todo[c] /\ on'[c] = on[c]
  BY <1>1, <1>t DEF WillPublish
<1>2. CASE EnqueueEvaluation(c)
  <2>1. todo[c] # <<"enqueue">>
    BY <1>t, <1>d DEF EndsByPublishing
  <2>2. on' = on /\ todo'[c] \in {<<"finalize">>, <<"mark", "finalize">>}
    BY <1>t, <1>2, <2>1, AfterEnqueue
  <2> QED
    BY <1>t, <2>2 DEF WillPublish, EndsByPublishing
<1>3. CASE FollowUp(c)
  <2>1. todo'[c] = Tail(todo[c]) /\ on' = on
    BY <1>t, <1>3 DEF FollowUp, Types, RequestsOK
  <2>2. CASE todo[c] = <<"finalize">>
    <3>1. Head(todo[c]) = "finalize"
      BY <2>2
    <3>2. Finalize(t)
      BY <1>t, <1>3, <3>1 DEF FollowUp, Steady
    <3> QED
      BY <1>t, <3>2, FinalizesWhole
  <2>3. CASE todo[c] \in {<<"enqueue", "finalize">>, <<"mark", "finalize">>}
    <3>1. \A a, b : Tail(<<a, b>>) = <<b>>
      OBVIOUS
    <3>2. Tail(todo[c]) = <<"finalize">>
      BY <2>3, <3>1
    <3> QED
      BY <1>t, <2>1, <3>2 DEF WillPublish, EndsByPublishing
  <2> QED
    BY <1>t, <2>2, <2>3 DEF EndsByPublishing
<1> QED
  BY <1>t, <1>a, <1>1, <1>2, <1>3, RequestActs

\* The last section is graded, or the last is handed in: who does it is to publish.
LEMMA BecomesWhole ==
    ASSUME AttendedInv, Steady, [Next]_vars, NEW t \in Tests,
           ~(status[t] = "processing" /\ Whole(t)), status'[t] = "processing", Whole(t)'
    PROVE  (\E w \in Workers : Publishes(w, t)') \/ (\E c \in Clients : WillPublish(c, t)')
<1> USE DEF AttendedInv, OnceInv, Base
<1>t. Types /\ TestMoves
  BY TestCases
<1>a. status \in [Tests -> Statuses] /\ sec \in [Tests -> [Skills -> SectionStatuses]]
  BY <1>t DEF Types, TestOK
<1>b. ASSUME UNCHANGED <<status, sec>> PROVE FALSE
  BY <1>b DEF Whole
<1>c. ASSUME NEW u \in Tests, NEW k \in Skills, NEW v \in SectionStatuses, v # "completed",
             sec' = [sec EXCEPT ![u][k] = v], UNCHANGED status
      PROVE  FALSE
  <2>1. \A i \in Skills : sec'[t][i] = IF t = u /\ i = k THEN v ELSE sec[t][i]
    BY <1>a, <1>c, Placed
  <2> QED
    BY <1>c, <2>1 DEF Whole
<1>1. ASSUME NEW u \in Tests, StartPlacement(u) \/ AbandonPlacement(u) \/ Finalize(u) PROVE FALSE
  <2>1. CASE StartPlacement(u)
    BY <1>a, <2>1, SectionsAssumption DEF StartPlacement, Whole
  <2>2. CASE AbandonPlacement(u)
    BY <1>a, <2>2 DEF AbandonPlacement, Whole
  <2>3. CASE Finalize(u)
    BY <1>a, <2>3 DEF Finalize, Whole
  <2> QED
    BY <1>1, <2>1, <2>2, <2>3
<1>2. ASSUME NEW u \in Tests, NEW k \in Skills, StartSection(u, k) PROVE FALSE
  BY <1>2, <1>c DEF StartSection, SetSection, SectionStatuses
<1>3. ASSUME NEW u \in Tests, NEW k \in Skills, MarkFailed(u, k) PROVE FALSE
  <2>1. CASE sec[u][k] = "evaluating"
    BY <1>3, <1>b, <1>c, <2>1 DEF MarkFailed, SetSection, SectionStatuses, test
  <2>2. CASE sec[u][k] # "evaluating"
    <3>1. sec' = [sec EXCEPT ![u][k] = sec[u][k]] \/ UNCHANGED sec
      BY <1>3, <2>2 DEF MarkFailed, SetSection, test
    <3>2. sec' = sec
      BY <1>a, <3>1
    <3> QED
      BY <1>3, <1>b, <3>2 DEF MarkFailed, test
  <2> QED
    BY <2>1, <2>2
<1>4. ASSUME NEW c \in Clients, NEW u \in Tests, NEW k \in Skills, RetryEvaluation(c, u, k)
      PROVE  FALSE
  BY <1>4, <1>c DEF RetryEvaluation, SetSection, SectionStatuses
<1>5. ASSUME NEW c \in Clients, NEW u \in Tests, NEW k \in Skills, Submit(c, u, k)
      PROVE  WillPublish(c, t)'
  <2>1. \A i \in Skills : sec'[t][i] = "completed"
    BY DEF Whole
  <2>2. /\ status[u] = "in_progress" /\ sec' = [sec EXCEPT ![u] = Unlocking(u, k)]
        /\ status' = [status EXCEPT ![u] =
              IF \A i \in Skills : sec'[u][i] \notin Answerable THEN "processing" ELSE @]
        /\ todo[c] = <<>> /\ on' = [on EXCEPT ![c] = <<u, k>>]
    BY <1>5 DEF Submit, Goes
  <2>3. u = t
    BY <1>a, <2>2 DEF Whole
  <2>4. \A i \in Skills : sec'[u][i] \notin Answerable
    BY <2>1, <2>3 DEF Answerable
  <2>5. k \in Objective
    BY <1>a, <2>1, <2>2, <2>3 DEF Unlocking
  <2>6. todo'[c] = <<>> \o <<"finalize">>
    BY <1>5, <1>t, <2>4, <2>5 DEF Submit, Goes, Types, RequestsOK
  <2>7. todo'[c] = <<"finalize">> /\ on'[c] = <<u, k>>
    BY <1>t, <2>2, <2>6 DEF Types, RequestsOK
  <2> QED
    BY <2>3, <2>7 DEF WillPublish, EndsByPublishing
<1>6. ASSUME NEW w \in Workers, Score(w) PROVE Publishes(w, t)'
  <2>1. sec' # sec /\ UNCHANGED status
    BY <1>6, <1>b DEF Score
  <2>2. SetSection(Test(w), Skill(w), "completed") /\ Then(w, "finalize") /\ UNCHANGED jobs
    BY <1>6, <2>1 DEF Score
  <2>3. Test(w) = t
    <3>1. sec'[t] # sec[t]
      BY <2>1 DEF Whole
    <3> QED
      BY <1>a, <2>2, <3>1 DEF SetSection
  <2>4. step'[w] = "finalize"
    BY <1>t, <2>2 DEF Then, Types, StepsOK
  <2> QED
    BY <1>6, <2>2, <2>3, <2>4 DEF Score, Publishes, At, Test, jobs
<1>7. ASSUME NEW w \in Workers, Save(w) PROVE FALSE
  BY <1>7, <1>b DEF Save
<1> QED
  BY <1>t, <1>b, <1>1, <1>2, <1>3, <1>4, <1>5, <1>6, <1>7 DEF TestMoves, test

LEMMA PublishedStep ==
    ASSUME AttendedInv, Steady, [Next]_vars PROVE WholeIsPublished'
<1>1. ASSUME NEW t \in Tests, status'[t] = "processing", Whole(t)'
      PROVE  (\E w \in Workers : Publishes(w, t)') \/ (\E c \in Clients : WillPublish(c, t)')
  <2>1. CASE status[t] = "processing" /\ Whole(t)
    <3>1. (\E w \in Workers : Publishes(w, t)) \/ (\E c \in Clients : WillPublish(c, t))
      BY <2>1 DEF AttendedInv, WholeIsPublished
    <3> QED
      BY <1>1, <2>1, <3>1, WorkerPublishes, RequestPublishes
  <2> QED
    BY <1>1, <2>1, BecomesWhole
<1> QED
  BY <1>1 DEF WholeIsPublished

LEMMA AttendedStep == ASSUME Steady PROVE AttendedInv /\ [Next]_vars => AttendedInv'
<1> SUFFICES ASSUME AttendedInv, [Next]_vars PROVE AttendedInv'
  OBVIOUS
<1>1. OnceInv'
  BY OnceStep DEF AttendedInv, Steady
<1>2. stopping' = {}
  BY StoppingStep DEF AttendedInv
<1> QED
  BY <1>1, <1>2, EvaluatingStep, SettledStep, PublishedStep DEF AttendedInv

LEMMA AttendedInit == Init => AttendedInv
<1> SUFFICES ASSUME Init PROVE AttendedInv
  OBVIOUS
<1>1. stopping = {} /\ EvaluatingIsHeld /\ SettledIsGraded /\ WholeIsPublished
  BY DEF Init, Q!Init, EvaluatingIsHeld, SettledIsGraded, Settled, WholeIsPublished
<1> QED
  BY <1>1, OnceInit DEF AttendedInv

LEMMA Planned ==
    /\ \A p \in Plans \ {<<>>, <<"finalize">>} : Contains(p, "enqueue") \/ Contains(p, "mark")
    /\ \A p \in EndsByPublishing : Contains(p, "finalize")
<1>1. \A a : Contains(<<a>>, a)
  BY DEF Contains
<1>2. \A a, b : Contains(<<a, b>>, a) /\ Contains(<<a, b>>, b)
  BY DEF Contains
<1> QED
  BY <1>1, <1>2 DEF Plans, EndsByPublishing

(* A section being evaluated has someone to evaluate it or to say that it  *)
(* failed, and a test whose every section is graded has someone to publish *)
(* its result, as long as the system is steady.                            *)
THEOREM NothingWaitsForNobody == ASSUME Steady PROVE Spec => []WaitingIsAttended
<1>1. ASSUME AttendedInv PROVE WaitingIsAttended
  <2>t. Types /\ Queue!TypeOK
    BY <1>1 DEF AttendedInv, OnceInv, Base, Types
  <2>1. ASSUME NEW t \in Tests, NEW i \in Skills, sec[t][i] = "evaluating"
        PROVE  HasJob(t, i) \/ Pursued(t, i, "enqueue") \/ Pursued(t, i, "mark")
    <3>1. ~Free(<<t, i>>)
      BY <1>1, <2>1 DEF AttendedInv, EvaluatingIsHeld
    <3>2. ASSUME NEW n \in DOMAIN queue, Of(queue[n]) = <<t, i>> PROVE HasJob(t, i)
      BY <3>2 DEF HasJob, Q!Waiting, Of
    <3>3. ASSUME NEW w \in Workers, Carries(w), Of(held[w]) = <<t, i>> PROVE HasJob(t, i)
      BY <3>3 DEF HasJob, Carries, Of, Test, Skill
    <3>4. ASSUME NEW c \in Clients, Asks(c), on[c] = <<t, i>>
          PROVE  Pursued(t, i, "enqueue") \/ Pursued(t, i, "mark")
      BY <2>t, <3>4, Planned DEF Asks, Pursued, Types, RequestsOK
    <3> QED
      BY <3>1, <3>2, <3>3, <3>4 DEF Free
  <2>2. ASSUME NEW t \in Tests, status[t] = "processing", Whole(t)
        PROVE  \E i \in Skills : HasJob(t, i) \/ Pursued(t, i, "finalize")
    <3>1. ASSUME NEW w \in Workers, Publishes(w, t)
          PROVE  \E i \in Skills : HasJob(t, i)
      BY <2>t, <3>1, Running DEF Publishes, At, HasJob
    <3>2. ASSUME NEW c \in Clients, WillPublish(c, t)
          PROVE  \E i \in Skills : Pursued(t, i, "finalize")
      <4>1. todo[c] # <<>>
        BY <3>2 DEF WillPublish, EndsByPublishing
      <4>2. on[c] = <<t, on[c][2]>> /\ on[c][2] \in Skills
        BY <2>t, <3>2, <4>1, RequestAbout DEF WillPublish
      <4> QED
        BY <3>2, <4>2, Planned DEF WillPublish, Pursued
    <3> QED
      BY <1>1, <2>2, <3>1, <3>2 DEF AttendedInv, WholeIsPublished
  <2> QED
    BY <2>1, <2>2 DEF WaitingIsAttended
<1> QED
  BY <1>1, AttendedInit, AttendedStep, PTL DEF Spec
=============================================================================
