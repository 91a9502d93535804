--------------------------- MODULE JobQueueProofs ---------------------------
(* Theorems about JobQueue, for every value of its constants.               *)
EXTENDS JobQueue, SequenceTheorems, TLAPS

-----------------------------------------------------------------------------
(* Entries: counting an attempt, and the list they wait in.                *)

(* The entry a worker holds is the one it moved, with an attempt counted.  *)
LEMMA Counting ==
    ASSUME NEW e \in Entry
    PROVE  /\ [e EXCEPT !.attempts = @ + 1] \in Entry
           /\ [e EXCEPT !.attempts = @ + 1].attempts = e.attempts + 1
           /\ [e EXCEPT !.attempts = @ + 1].job = e.job
           /\ Raw([e EXCEPT !.attempts = @ + 1]) = e
<1> DEFINE f == [e EXCEPT !.attempts = @ + 1]
<1>1. /\ f = [job |-> e.job, attempts |-> e.attempts + 1]
      /\ e = [job |-> e.job, attempts |-> e.attempts]
      /\ e.job \in Jobs /\ e.attempts \in Nat
  BY DEF Entry
<1>2. f \in Entry /\ f.attempts = e.attempts + 1 /\ f.job = e.job
  BY <1>1 DEF Entry
<1> HIDE DEF f
<1>3. Raw(f) = [job |-> e.job, attempts |-> e.attempts + 1 - 1]
  BY <1>1 DEF Raw
<1>4. Raw(f) = e
  BY <1>1, <1>3
<1> QED
  BY <1>2, <1>4 DEF f

LEMMA RawIsEntry ==
    ASSUME NEW e \in Entry, e.attempts > 0
    PROVE  /\ Raw(e) \in Entry
           /\ Raw(e).job = e.job
           /\ Raw(e).attempts = e.attempts - 1
  BY DEF Entry, Raw

LEMMA StateTypes ==
    ASSUME NEW e \in Entry, NEW s \in Status
    PROVE  /\ StateOf(e, s) \in State
           /\ StateOf(e, s).status = s
  BY DEF Entry, State, StateOf

(* LMOVE takes the first entry and leaves the others in their order.       *)
LEMMA Popped ==
    ASSUME queue \in Seq(Entry), queue # <<>>
    PROVE  /\ Head(queue) \in Entry
           /\ Head(queue) = queue[1] /\ 1 \in DOMAIN queue
           /\ Tail(queue) \in Seq(Entry)
           /\ \A i \in DOMAIN Tail(queue) :
                 i \in Nat /\ i > 0 /\ i + 1 \in DOMAIN queue /\ Tail(queue)[i] = queue[i + 1]
           /\ \A i \in DOMAIN queue : i # 1 =>
                 i - 1 \in DOMAIN Tail(queue) /\ Tail(queue)[i - 1] = queue[i]
<1>1. /\ Head(queue) \in Entry
      /\ Tail(queue) \in Seq(Entry)
      /\ Len(Tail(queue)) = Len(queue) - 1
      /\ \A i \in 1..Len(Tail(queue)) : Tail(queue)[i] = queue[i + 1]
  BY HeadTailProperties
<1>2. /\ Len(queue) \in Nat \ {0} /\ DOMAIN queue = 1..Len(queue)
      /\ DOMAIN Tail(queue) = 1..(Len(queue) - 1)
  BY <1>1, EmptySeq, LenProperties
<1>3. Head(queue) = queue[1]
  OBVIOUS
<1> QED
  BY <1>1, <1>2, <1>3

(* A push adds its entry after the others.                                 *)
LEMMA Pushed ==
    ASSUME queue \in Seq(Entry), NEW e \in Entry
    PROVE  /\ Append(queue, e) \in Seq(Entry)
           /\ DOMAIN queue \subseteq DOMAIN Append(queue, e)
           /\ \A i \in DOMAIN queue : Append(queue, e)[i] = queue[i]
           /\ \E n \in DOMAIN Append(queue, e) :
                 /\ n \notin DOMAIN queue
                 /\ Append(queue, e)[n] = e
                 /\ DOMAIN Append(queue, e) = DOMAIN queue \cup {n}
<1>1. /\ Len(queue) \in Nat /\ DOMAIN queue = 1..Len(queue)
      /\ Append(queue, e) \in Seq(Entry)
      /\ Len(Append(queue, e)) = Len(queue) + 1
      /\ DOMAIN Append(queue, e) = 1..(Len(queue) + 1)
      /\ \A i \in 1..Len(queue) : Append(queue, e)[i] = queue[i]
      /\ Append(queue, e)[Len(queue) + 1] = e
  BY LenProperties, AppendProperties
<1>2. /\ Len(queue) + 1 \in DOMAIN Append(queue, e)
      /\ Len(queue) + 1 \notin DOMAIN queue
      /\ DOMAIN Append(queue, e) = DOMAIN queue \cup {Len(queue) + 1}
  BY <1>1
<1> QED
  BY <1>1, <1>2

-----------------------------------------------------------------------------
(* Types.                                                                  *)

(* A busy worker holds an entry of a job, with an attempt counted.         *)
LEMMA Holding ==
    ASSUME TypeOK, NEW w \in Workers, Busy(w)
    PROVE  /\ held[w] \in Entry /\ held[w].job \in Jobs
           /\ held[w].attempts \in Nat /\ held[w].attempts > 0
           /\ Raw(held[w]) \in Entry
           /\ Raw(held[w]).job = held[w].job
           /\ Raw(held[w]).attempts = held[w].attempts - 1
<1>1. held[w] \in Entry /\ held[w].attempts > 0
  BY DEF TypeOK
<1>2. held[w].job \in Jobs /\ held[w].attempts \in Nat
  BY <1>1 DEF Entry
<1> QED
  BY <1>1, <1>2, RawIsEntry

(* What is stored in Redis keeps its type.                                 *)
RedisOK ==
    /\ queue \in Seq(Entry)
    /\ processing \in SUBSET Entry
    /\ dead \in SUBSET Entry
    /\ state \in [Jobs -> State]
    /\ told \in [Jobs -> {"new", "accepted", "refused"}]

LEMMA RedisStep ==
    ASSUME TypeOK, [Next]_vars
    PROVE  RedisOK'
<1> USE DEF RedisOK
<1>0. RedisOK
  BY DEF TypeOK
<1>1. CASE UNCHANGED vars
  BY <1>0, <1>1 DEF vars, redis
<1>2. ASSUME NEW j \in Jobs, Enqueue(j) PROVE RedisOK'
  <2>1. [job |-> j, attempts |-> 0] \in Entry
    BY DEF Entry
  <2>2. StateOf([job |-> j, attempts |-> 0], "queued") \in State
    BY <2>1, StateTypes DEF Status
  <2> QED
    BY <1>0, <1>2, <2>1, <2>2, Pushed DEF Enqueue
<1>3. ASSUME NEW j \in Jobs, EnqueueRefused(j) PROVE RedisOK'
  BY <1>0, <1>3 DEF EnqueueRefused, redis
<1>4. ASSUME NEW w \in Workers, Reserve(w) PROVE RedisOK'
  BY <1>0, <1>4, Popped DEF Reserve
<1>5. ASSUME NEW w \in Workers, SetRunning(w) PROVE RedisOK'
  <2>1. Busy(w)
    BY <1>5 DEF SetRunning, Busy
  <2>2. held[w].job \in Jobs /\ StateOf(held[w], "running") \in State
    BY <2>1, Holding, StateTypes DEF Status
  <2> QED
    BY <1>0, <1>5, <2>2 DEF SetRunning
<1>6. ASSUME NEW w \in Workers, NEW n \in unsent[w], SetProgress(w, n) PROVE RedisOK'
  <2>1. Busy(w) /\ n \in Nat
    BY <1>6 DEF TypeOK, Busy
  <2>2. held[w].job \in Jobs /\ StateOf(held[w], "running") \in State
    BY <2>1, Holding, StateTypes DEF Status
  <2>3. [StateOf(held[w], "running") EXCEPT !.progress = n] \in State
    BY <2>1, <2>2 DEF State
  <2> QED
    BY <1>0, <1>6, <2>2, <2>3 DEF SetProgress
<1>7. ASSUME NEW w \in Workers, Finish(w) PROVE RedisOK'
  <2>1. Busy(w) /\ out[w] \in Status
    BY <1>7 DEF Finish, Busy, TypeOK, Outcomes, Status
  <2>2. /\ held[w] \in Entry /\ held[w].job \in Jobs /\ Raw(held[w]) \in Entry
        /\ StateOf(held[w], out[w]) \in State
    BY <2>1, Holding, StateTypes
  <2>3. Append(queue, held[w]) \in Seq(Entry)
    BY <1>0, <2>2, Pushed
  <2> QED
    BY <1>0, <1>7, <2>2, <2>3 DEF Finish, redis
<1>8. ASSUME NEW w \in Workers,
             Step(w) \/ Execute(w) \/ Stop(w) \/ Leave(w) \/ Crash(w) \/ Start(w)
      PROVE  RedisOK'
  BY <1>0, <1>8 DEF Step, Execute, Stop, Leave, Crash, Start, redis
<1> QED
  BY <1>1, <1>2, <1>3, <1>4, <1>5, <1>6, <1>7, <1>8 DEF Next, Work

(* What a worker remembers keeps its type.                                 *)
WorkersOK ==
    /\ pc \in [Workers -> {"off", "idle", "reserved", "running", "finish"}]
    /\ held \in [Workers -> Entry \cup {None}]
    /\ \A w \in Workers : Busy(w) => held[w] \in Entry /\ held[w].attempts > 0
    /\ out \in [Workers -> Outcomes \cup {None}]
    /\ \A w \in Workers : pc[w] = "finish" => out[w] \in Outcomes

LEMMA WorkersStep ==
    ASSUME TypeOK, [Next]_vars
    PROVE  WorkersOK'
<1> USE DEF WorkersOK, Busy
<1>0. WorkersOK
  BY DEF TypeOK
<1>1. CASE UNCHANGED vars
  BY <1>0, <1>1 DEF vars, local
<1>2. ASSUME NEW j \in Jobs, Enqueue(j) \/ EnqueueRefused(j) PROVE WorkersOK'
  BY <1>0, <1>2 DEF Enqueue, EnqueueRefused, local
<1>3. ASSUME NEW w \in Workers, Reserve(w) PROVE WorkersOK'
  <2> DEFINE e == [Head(queue) EXCEPT !.attempts = @ + 1]
  <2>1. queue \in Seq(Entry) /\ queue # <<>>
    BY <1>3 DEF Reserve, TypeOK
  <2>2. Head(queue) \in Entry
    BY <2>1, Popped
  <2>3. e \in Entry /\ e.attempts = Head(queue).attempts + 1 /\ Head(queue).attempts \in Nat
    BY <2>2, Counting DEF Entry
  <2>4. e.attempts > 0
    BY <2>3
  <2> QED
    BY <1>0, <1>3, <2>3, <2>4 DEF Reserve
<1>4. ASSUME NEW w \in Workers, SetRunning(w) PROVE WorkersOK'
  BY <1>0, <1>4 DEF SetRunning, Drop, local
<1>5. ASSUME NEW w \in Workers, NEW n \in unsent[w], SetProgress(w, n) PROVE WorkersOK'
  BY <1>0, <1>5 DEF SetProgress, local
<1>6. ASSUME NEW w \in Workers, Execute(w) PROVE WorkersOK'
  BY <1>0, <1>6 DEF Execute, Outcomes
<1>7. ASSUME NEW w \in Workers, Finish(w) PROVE WorkersOK'
  BY <1>0, <1>7 DEF Finish, Drop
<1>8. ASSUME NEW w \in Workers, Leave(w) \/ Crash(w) \/ Start(w) PROVE WorkersOK'
  BY <1>0, <1>8 DEF Leave, Crash, Start, local
<1>9. ASSUME NEW w \in Workers, Step(w) \/ Stop(w) PROVE WorkersOK'
  BY <1>0, <1>9 DEF Step, Stop, local
<1> QED
  BY <1>1, <1>2, <1>3, <1>4, <1>5, <1>6, <1>7, <1>8, <1>9 DEF Next, Work

(* The tracker and the histories keep their types.                         *)
CountersOK ==
    /\ done \in [Workers -> Nat]
    /\ unsent \in [Workers -> SUBSET Nat]
    /\ \A w \in Workers : unsent[w] # {} => pc[w] = "running"
    /\ stopping \in SUBSET Workers
    /\ runs \in [Jobs -> Nat]
    /\ successes \in [Jobs -> Nat]

LEMMA CountersStep ==
    ASSUME TypeOK, [Next]_vars
    PROVE  CountersOK'
<1> USE DEF CountersOK
<1>0. CountersOK /\ pc \in [Workers -> {"off", "idle", "reserved", "running", "finish"}]
  BY DEF TypeOK
<1>1. CASE UNCHANGED vars
  BY <1>0, <1>1 DEF vars, tracker, history
<1>2. ASSUME NEW j \in Jobs, Enqueue(j) \/ EnqueueRefused(j) PROVE CountersOK'
  BY <1>0, <1>2 DEF Enqueue, EnqueueRefused, tracker, history
<1>3. ASSUME NEW w \in Workers, Reserve(w) PROVE CountersOK'
  BY <1>0, <1>3 DEF Reserve, tracker, history
<1>4. ASSUME NEW w \in Workers, SetRunning(w) PROVE CountersOK'
  <2>1. held[w].job \in Jobs
    BY <1>4, Holding DEF SetRunning, Busy
  <2> QED
    BY <1>0, <1>4, <2>1 DEF SetRunning, Drop
<1>5. ASSUME NEW w \in Workers, NEW n \in unsent[w], SetProgress(w, n) PROVE CountersOK'
  BY <1>0, <1>5 DEF SetProgress, history
<1>6. ASSUME NEW w \in Workers, Execute(w) PROVE CountersOK'
  <2>1. held[w].job \in Jobs
    BY <1>6, Holding DEF Execute, Busy
  <2> QED
    BY <1>0, <1>6, <2>1 DEF Execute, tracker
<1>7. ASSUME NEW w \in Workers, Finish(w) PROVE CountersOK'
  BY <1>0, <1>7 DEF Finish, Drop, tracker, history
<1>8. ASSUME NEW w \in Workers, Leave(w) \/ Crash(w) \/ Start(w) PROVE CountersOK'
  BY <1>0, <1>8 DEF Leave, Crash, Start, tracker, history
<1>9. ASSUME NEW w \in Workers, Step(w) \/ Stop(w) PROVE CountersOK'
  BY <1>0, <1>9 DEF Step, Stop, tracker, history
<1> QED
  BY <1>1, <1>2, <1>3, <1>4, <1>5, <1>6, <1>7, <1>8, <1>9 DEF Next, Work

LEMMA TypeInit == Init => TypeOK
<1> SUFFICES ASSUME Init PROVE TypeOK
  OBVIOUS
<1>1. <<>> \in Seq(Entry)
  OBVIOUS
<1> QED
  BY <1>1 DEF Init, TypeOK, State, Status, Busy

LEMMA TypeStep == TypeOK /\ [Next]_vars => TypeOK'
<1> SUFFICES ASSUME TypeOK, [Next]_vars PROVE TypeOK'
  OBVIOUS
<1>1. RedisOK' /\ WorkersOK' /\ CountersOK'
  BY RedisStep, WorkersStep, CountersStep
<1> QED
  BY <1>1 DEF TypeOK, RedisOK, WorkersOK, CountersOK

(* Every variable holds a value of its type, whatever fails or dies, for   *)
(* any number of jobs and workers.                                         *)
THEOREM QueueTypes == Spec => []TypeOK
  BY TypeInit, TypeStep, PTL DEF Spec

-----------------------------------------------------------------------------
(* Where jobs are.                                                         *)

Waits(j)  == \E i \in DOMAIN queue : queue[i].job = j
Taken(j)  == \E e \in processing : e.job = j
Buried(j) == \E e \in dead : e.job = j

(* No list holds two entries of one job.                                   *)
Distinct ==
    /\ \A i, k \in DOMAIN queue : queue[i].job = queue[k].job => i = k
    /\ \A e, f \in processing : e.job = f.job => e = f
    /\ \A e, f \in dead : e.job = f.job => e = f

(* No job is in two lists, or in one and over, and none that was queued is *)
(* nowhere.                                                                *)
Apart ==
    \A j \in Jobs :
        /\ Waits(j) => ~Taken(j) /\ ~Buried(j)
        /\ Taken(j) => ~Buried(j)
        /\ state[j].status = "succeeded" => ~Waits(j) /\ ~Taken(j) /\ ~Buried(j)
        /\ state[j].status = "failed" => Buried(j)
        /\ state[j].status = "absent" => ~Waits(j) /\ ~Taken(j) /\ ~Buried(j)
        /\ state[j].status \in {"queued", "running", "retrying"} =>
              Waits(j) \/ Taken(j)
        /\ told[j] = "new" => state[j].status = "absent"

(* A worker at work has the entry it moved kept in processing.             *)
Tethered == \A w \in Workers : Busy(w) => Raw(held[w]) \in processing

QueueInv == TypeOK /\ Distinct /\ Apart /\ Tethered /\ OneWorkerPerJob

(* The job of a busy worker is in processing, and its entry the only one   *)
(* of that job; it is over for nobody.                                     *)
LEMMA AtWork ==
    ASSUME QueueInv, NEW w \in Workers, Busy(w)
    PROVE  /\ held[w].job \in Jobs
           /\ Taken(held[w].job) /\ ~Waits(held[w].job) /\ ~Buried(held[w].job)
           /\ state[held[w].job].status \in {"queued", "running", "retrying"}
           /\ Raw(held[w]) \in processing /\ Raw(held[w]).job = held[w].job
           /\ \A e \in processing : e.job = held[w].job => e = Raw(held[w])
<1>1. held[w].job \in Jobs /\ Raw(held[w]).job = held[w].job /\ Raw(held[w]) \in processing
  BY Holding DEF QueueInv, Tethered
<1>2. Taken(held[w].job)
  BY <1>1 DEF Taken
<1>3. state[held[w].job].status \in Status
  BY <1>1 DEF QueueInv, TypeOK, State
<1>4. \A e \in processing : e.job = held[w].job => e = Raw(held[w])
  BY <1>1 DEF QueueInv, Distinct
<1> QED
  BY <1>1, <1>2, <1>3, <1>4 DEF QueueInv, Apart, Status

(* What each command does to the places of jobs.                           *)
LEMMA EnqueueMoves ==
    ASSUME QueueInv, NEW j \in Jobs, Enqueue(j)
    PROVE  /\ Distinct'
           /\ \A k \in Jobs : Waits(k)' <=> Waits(k) \/ k = j
           /\ \A k \in Jobs : (Taken(k)' <=> Taken(k)) /\ (Buried(k)' <=> Buried(k))
           /\ state'[j].status = "queued"
           /\ \A k \in Jobs \ {j} : state'[k] = state[k] /\ told'[k] = told[k]
           /\ told'[j] # "new"
<1> DEFINE e == [job |-> j, attempts |-> 0]
<1>1. e \in Entry /\ e.job = j
  BY DEF Entry
<1>2. queue \in Seq(Entry) /\ queue' = Append(queue, e) /\ processing' = processing /\ dead' = dead
  BY DEF Enqueue, QueueInv, TypeOK
<1>3. ~Waits(j)
  BY DEF Enqueue, QueueInv, Apart
<1>4. PICK n \in DOMAIN queue' :
         /\ n \notin DOMAIN queue /\ queue'[n] = e
         /\ DOMAIN queue' = DOMAIN queue \cup {n}
         /\ \A i \in DOMAIN queue : queue'[i] = queue[i]
  BY <1>1, <1>2, Pushed
<1>5. Distinct'
  BY <1>1, <1>2, <1>3, <1>4 DEF QueueInv, Distinct, Waits
<1>6. \A k \in Jobs : Waits(k)' <=> Waits(k) \/ k = j
  BY <1>1, <1>4 DEF Waits
<1>7. \A k \in Jobs : (Taken(k)' <=> Taken(k)) /\ (Buried(k)' <=> Buried(k))
  BY <1>2 DEF Taken, Buried
<1>8. state'[j] = StateOf(e, "queued") /\ \A k \in Jobs \ {j} : state'[k] = state[k]
  BY DEF Enqueue, QueueInv, TypeOK
<1>9. told'[j] # "new" /\ \A k \in Jobs \ {j} : told'[k] = told[k]
  BY DEF Enqueue, QueueInv, TypeOK
<1> QED
  BY <1>1, <1>5, <1>6, <1>7, <1>8, <1>9, StateTypes DEF Status

LEMMA ReserveMoves ==
    ASSUME QueueInv, NEW w \in Workers, Reserve(w)
    PROVE  /\ Distinct'
           /\ Head(queue) \in Entry /\ Waits(Head(queue).job)
           /\ Head(queue) \in processing' /\ processing \subseteq processing'
           /\ \A k \in Jobs : Waits(k)' <=> Waits(k) /\ k # Head(queue).job
           /\ \A k \in Jobs : Taken(k)' <=> Taken(k) \/ k = Head(queue).job
           /\ \A k \in Jobs : Buried(k)' <=> Buried(k)
<1>1. /\ queue \in Seq(Entry) /\ queue # <<>> /\ queue' = Tail(queue)
      /\ processing' = processing \cup {Head(queue)} /\ dead' = dead
  BY DEF Reserve, QueueInv, TypeOK
<1>2. /\ Head(queue) \in Entry /\ Head(queue) = queue[1] /\ 1 \in DOMAIN queue
      /\ \A i \in DOMAIN queue' :
            i \in Nat /\ i > 0 /\ i + 1 \in DOMAIN queue /\ queue'[i] = queue[i + 1]
      /\ \A i \in DOMAIN queue : i # 1 => i - 1 \in DOMAIN queue' /\ queue'[i - 1] = queue[i]
  BY <1>1, Popped
<1>3. Waits(Head(queue).job) /\ Head(queue).job \in Jobs
  BY <1>2 DEF Waits, Entry
<1>4. ~Taken(Head(queue).job)
  BY <1>3 DEF QueueInv, Apart
<1>5. \A i, k \in DOMAIN queue' : queue'[i].job = queue'[k].job => i = k
  BY <1>2 DEF QueueInv, Distinct
<1>6. \A e, f \in processing' : e.job = f.job => e = f
  BY <1>1, <1>4 DEF QueueInv, Distinct, Taken
<1>7. Distinct'
  BY <1>1, <1>5, <1>6 DEF QueueInv, Distinct
<1>8. \A k \in Jobs : Waits(k)' <=> Waits(k) /\ k # Head(queue).job
  <2> SUFFICES ASSUME NEW k \in Jobs PROVE Waits(k)' <=> Waits(k) /\ k # Head(queue).job
    OBVIOUS
  <2>1. ASSUME NEW i \in DOMAIN queue', queue'[i].job = k PROVE Waits(k) /\ k # Head(queue).job
    <3>1. i + 1 # 1
      BY <1>2, <2>1
    <3> QED
      BY <1>2, <2>1, <3>1 DEF QueueInv, Distinct, Waits
  <2>2. ASSUME NEW i \in DOMAIN queue, queue[i].job = k, k # Head(queue).job PROVE Waits(k)'
    BY <1>2, <2>2 DEF Waits
  <2> QED
    BY <2>1, <2>2 DEF Waits
<1>9. \A k \in Jobs : (Taken(k)' <=> Taken(k) \/ k = Head(queue).job) /\ (Buried(k)' <=> Buried(k))
  BY <1>1 DEF Taken, Buried
<1> QED
  BY <1>1, <1>2, <1>3, <1>7, <1>8, <1>9

(* SetRunning and SetProgress write a state of the worker's own job only.  *)
LEMMA RunningMoves ==
    ASSUME QueueInv, NEW w \in Workers,
           SetRunning(w) \/ \E n \in unsent[w] : SetProgress(w, n)
    PROVE  /\ Busy(w)
           /\ queue' = queue /\ processing' = processing /\ dead' = dead /\ told' = told
           /\ \A k \in Jobs : k # held[w].job => state'[k] = state[k]
           /\ state'[held[w].job].status \in {"queued", "running", "retrying"}
           /\ \A v \in Workers : Busy(v)' => Busy(v) /\ held'[v] = held[v]
<1>1. CASE SetRunning(w)
  <2>1. Busy(w)
    BY <1>1 DEF SetRunning, Busy
  <2>2. held[w] \in Entry /\ held[w].job \in Jobs
    BY <2>1, Holding DEF QueueInv
  <2>3. state[held[w].job].status \in {"queued", "running", "retrying"}
    BY <2>1, AtWork
  <2>4. StateOf(held[w], "running").status = "running"
    BY <2>2, StateTypes DEF Status
  <2>5. \A v \in Workers : Busy(v)' => Busy(v) /\ held'[v] = held[v]
    BY <1>1 DEF SetRunning, Drop, local, Busy, QueueInv, TypeOK
  <2> QED
    BY <1>1, <2>1, <2>2, <2>3, <2>4, <2>5 DEF SetRunning, QueueInv, TypeOK
<1>2. ASSUME NEW n \in unsent[w], SetProgress(w, n)
      PROVE  /\ Busy(w)
             /\ queue' = queue /\ processing' = processing /\ dead' = dead /\ told' = told
             /\ \A k \in Jobs : k # held[w].job => state'[k] = state[k]
             /\ state'[held[w].job].status \in {"queued", "running", "retrying"}
             /\ \A v \in Workers : Busy(v)' => Busy(v) /\ held'[v] = held[v]
  <2>1. Busy(w)
    BY <1>2 DEF Busy, QueueInv, TypeOK
  <2>2. held[w] \in Entry /\ held[w].job \in Jobs
    BY <2>1, Holding DEF QueueInv
  <2>3. state[held[w].job].status \in {"queued", "running", "retrying"}
    BY <2>1, AtWork
  <2>4. [StateOf(held[w], "running") EXCEPT !.progress = n].status = "running"
    BY <2>2, StateTypes DEF State, Status
  <2>5. \A v \in Workers : Busy(v)' => Busy(v) /\ held'[v] = held[v]
    BY <1>2 DEF SetProgress, local, Busy
  <2> QED
    BY <1>2, <2>1, <2>2, <2>3, <2>4, <2>5 DEF SetProgress, QueueInv, TypeOK
<1> QED
  BY <1>1, <1>2

(* Finish takes the job out of processing, and pushes, buries or ends it;  *)
(* or it is refused and moves nothing.                                     *)
LEMMA FinishMoves ==
    ASSUME QueueInv, NEW w \in Workers, Finish(w), ~UNCHANGED redis
    PROVE  /\ Distinct'
           /\ processing' = processing \ {Raw(held[w])}
           /\ \A k \in Jobs : Waits(k)' <=> Waits(k) \/ (k = held[w].job /\ out[w] = "retrying")
           /\ \A k \in Jobs : Taken(k)' <=> Taken(k) /\ k # held[w].job
           /\ \A k \in Jobs : Buried(k)' <=> Buried(k) \/ (k = held[w].job /\ out[w] = "failed")
           /\ state'[held[w].job].status = out[w]
           /\ \A k \in Jobs : k # held[w].job => state'[k] = state[k]
<1> DEFINE e == held[w]
<1>1. Busy(w) /\ out[w] \in Outcomes /\ queue \in Seq(Entry)
  BY DEF Finish, Busy, QueueInv, TypeOK
<1>2. /\ e \in Entry /\ e.job \in Jobs /\ Raw(e) \in Entry /\ Raw(e).job = e.job
  BY <1>1, Holding DEF QueueInv
<1>3. /\ Taken(e.job) /\ ~Waits(e.job) /\ ~Buried(e.job)
      /\ Raw(e) \in processing
      /\ \A f \in processing : f.job = e.job => f = Raw(e)
  BY <1>1, AtWork
<1>4. /\ processing' = processing \ {Raw(e)}
      /\ state' = [state EXCEPT ![e.job] = StateOf(e, out[w])]
      /\ queue' = IF out[w] = "retrying" THEN Append(queue, e) ELSE queue
      /\ dead' = IF out[w] = "failed" THEN dead \cup {Raw(e)} ELSE dead
  BY DEF Finish
<1>5. \A k \in Jobs : Taken(k)' <=> Taken(k) /\ k # e.job
  BY <1>2, <1>3, <1>4 DEF Taken
<1>6. \A k \in Jobs : Buried(k)' <=> Buried(k) \/ (k = e.job /\ out[w] = "failed")
  BY <1>2, <1>4 DEF Buried
<1>7. /\ \A k \in Jobs : Waits(k)' <=> Waits(k) \/ (k = e.job /\ out[w] = "retrying")
      /\ \A i, k \in DOMAIN queue' : queue'[i].job = queue'[k].job => i = k
  <2>1. CASE out[w] = "retrying"
    <3>1. PICK n \in DOMAIN queue' :
             /\ n \notin DOMAIN queue /\ queue'[n] = e
             /\ DOMAIN queue' = DOMAIN queue \cup {n}
             /\ \A i \in DOMAIN queue : queue'[i] = queue[i]
      BY <1>1, <1>2, <1>4, <2>1, Pushed
    <3>2. \A i, k \in DOMAIN queue' : queue'[i].job = queue'[k].job => i = k
      BY <1>3, <3>1 DEF QueueInv, Distinct, Waits
    <3> QED
      BY <2>1, <3>1, <3>2 DEF Waits
  <2>2. CASE out[w] # "retrying"
    BY <1>4, <2>2 DEF Waits, QueueInv, Distinct
  <2> QED
    BY <2>1, <2>2
<1>8. \A f, g \in processing' : f.job = g.job => f = g
  BY <1>4 DEF QueueInv, Distinct
<1>9. \A f, g \in dead' : f.job = g.job => f = g
  BY <1>2, <1>3, <1>4 DEF QueueInv, Distinct, Buried
<1>10. Distinct'
  BY <1>7, <1>8, <1>9 DEF Distinct
<1>11. state'[e.job].status = out[w] /\ \A k \in Jobs : k # e.job => state'[k] = state[k]
  BY <1>1, <1>2, <1>4, StateTypes DEF QueueInv, TypeOK, Status, Outcomes
<1> QED
  BY <1>4, <1>5, <1>6, <1>7, <1>10, <1>11

-----------------------------------------------------------------------------
(* The invariant is inductive.                                             *)

(* Every other step moves nothing and leaves busy workers what they hold.  *)
Quiet ==
    /\ UNCHANGED redis
    /\ \A j \in Jobs : told'[j] = "new" => told[j] = "new"
    /\ \A v \in Workers : Busy(v)' => Busy(v) /\ held'[v] = held[v]

LEMMA QuietSteps ==
    ASSUME TypeOK
    PROVE  /\ UNCHANGED vars => Quiet
           /\ \A j \in Jobs : EnqueueRefused(j) => Quiet
           /\ \A w \in Workers :
                 \/ Step(w) \/ Execute(w) \/ Stop(w) \/ Leave(w) \/ Crash(w) \/ Start(w)
                 \/ Finish(w) /\ UNCHANGED redis
                 => Quiet
<1>1. UNCHANGED vars => Quiet
  BY DEF vars, local, Quiet, Busy
<1>2. ASSUME NEW j \in Jobs, EnqueueRefused(j) PROVE Quiet
  BY <1>2 DEF EnqueueRefused, local, Quiet, Busy, TypeOK
<1>3. ASSUME NEW w \in Workers, Step(w) \/ Execute(w) \/ Stop(w) PROVE Quiet
  BY <1>3 DEF Step, Execute, Stop, local, Quiet, Busy, TypeOK
<1>4. ASSUME NEW w \in Workers, Leave(w) \/ Crash(w) \/ Start(w) PROVE Quiet
  BY <1>4 DEF Leave, Crash, Start, local, Quiet, Busy, TypeOK
<1>5. ASSUME NEW w \in Workers, Finish(w), UNCHANGED redis PROVE Quiet
  BY <1>5 DEF Finish, Drop, Quiet, Busy, TypeOK
<1> QED
  BY <1>1, <1>2, <1>3, <1>4, <1>5

LEMMA QueueStep ==
    ASSUME QueueInv, [Next]_vars
    PROVE  (Distinct /\ Apart /\ Tethered /\ OneWorkerPerJob)'
<1>0. TypeOK /\ TypeOK'
  BY TypeStep DEF QueueInv
<1>1. CASE Quiet
  <2>1. Distinct'
    BY <1>1 DEF Quiet, redis, QueueInv, Distinct
  <2>2. Apart'
    BY <1>1 DEF Quiet, redis, QueueInv, Apart, Waits, Taken, Buried
  <2>3. Tethered' /\ OneWorkerPerJob'
    BY <1>1 DEF Quiet, redis, QueueInv, Tethered, OneWorkerPerJob
  <2> QED
    BY <2>1, <2>2, <2>3
<1>2. ASSUME NEW j \in Jobs, Enqueue(j)
      PROVE  (Distinct /\ Apart /\ Tethered /\ OneWorkerPerJob)'
  <2>1. Distinct'
    BY <1>2, EnqueueMoves
  <2>2. ~Waits(j) /\ ~Taken(j) /\ ~Buried(j)
    BY <1>2 DEF Enqueue, QueueInv, Apart
  <2>3. Apart'
    BY <1>2, <2>2, EnqueueMoves DEF QueueInv, Apart
  <2>4. Tethered' /\ OneWorkerPerJob'
    BY <1>2 DEF Enqueue, local, QueueInv, Tethered, OneWorkerPerJob, Busy
  <2> QED
    BY <2>1, <2>3, <2>4
<1>3. ASSUME NEW w \in Workers, Reserve(w)
      PROVE  (Distinct /\ Apart /\ Tethered /\ OneWorkerPerJob)'
  <2> DEFINE e == Head(queue)
  <2>1. /\ e \in Entry /\ e.job \in Jobs /\ e \in processing'
        /\ Waits(e.job) /\ ~Taken(e.job) /\ ~Buried(e.job)
        /\ state' = state /\ told' = told
    BY <1>3, ReserveMoves DEF Reserve, Entry, QueueInv, Apart
  <2>2. Distinct'
    BY <1>3, ReserveMoves
  <2>3. state[e.job].status \in {"queued", "running", "retrying"}
    BY <1>0, <2>1 DEF QueueInv, Apart, TypeOK, State, Status
  <2>4. Apart'
    BY <1>3, <2>1, <2>3, ReserveMoves DEF QueueInv, Apart
  <2>5. \A v \in Workers : Busy(v) => held[v].job # e.job
    BY <2>1, AtWork
  <2>6. /\ \A v \in Workers \ {w} : (Busy(v)' <=> Busy(v)) /\ held'[v] = held[v]
        /\ Busy(w)' => held'[w] = [e EXCEPT !.attempts = @ + 1]
    BY <1>0, <1>3 DEF Reserve, Busy, TypeOK
  <2>7. Tethered'
    BY <1>3, <2>1, <2>6, Counting, ReserveMoves DEF QueueInv, Tethered
  <2>8. Busy(w)' => held'[w].job = e.job
    BY <2>1, <2>6, Counting
  <2>9. OneWorkerPerJob'
    BY <2>5, <2>6, <2>8 DEF QueueInv, OneWorkerPerJob
  <2> QED
    BY <2>2, <2>4, <2>7, <2>9
<1>4. ASSUME NEW w \in Workers, SetRunning(w) \/ \E n \in unsent[w] : SetProgress(w, n)
      PROVE  (Distinct /\ Apart /\ Tethered /\ OneWorkerPerJob)'
  <2>1. /\ queue' = queue /\ processing' = processing /\ dead' = dead /\ told' = told
        /\ \A k \in Jobs : k # held[w].job => state'[k] = state[k]
        /\ state'[held[w].job].status \in {"queued", "running", "retrying"}
        /\ \A v \in Workers : Busy(v)' => Busy(v) /\ held'[v] = held[v]
        /\ Busy(w)
    BY <1>4, RunningMoves
  <2>2. /\ Taken(held[w].job) /\ ~Waits(held[w].job) /\ ~Buried(held[w].job)
        /\ state[held[w].job].status \in {"queued", "running", "retrying"}
        /\ held[w].job \in Jobs
    BY <2>1, AtWork
  <2>3. \A k \in Jobs : (Waits(k)' <=> Waits(k)) /\ (Taken(k)' <=> Taken(k)) /\ (Buried(k)' <=> Buried(k))
    BY <2>1 DEF Waits, Taken, Buried
  <2>4. Distinct'
    BY <2>1 DEF QueueInv, Distinct
  <2>5. Apart'
    BY <2>1, <2>2, <2>3 DEF QueueInv, Apart
  <2>6. Tethered' /\ OneWorkerPerJob'
    BY <2>1 DEF QueueInv, Tethered, OneWorkerPerJob
  <2> QED
    BY <2>4, <2>5, <2>6
<1>5. ASSUME NEW w \in Workers, Finish(w), ~UNCHANGED redis
      PROVE  (Distinct /\ Apart /\ Tethered /\ OneWorkerPerJob)'
  <2> DEFINE j == held[w].job
  <2>1. Busy(w) /\ told' = told /\ out[w] \in Outcomes
    BY <1>0, <1>5 DEF Finish, Busy, TypeOK
  <2>2. /\ Taken(j) /\ ~Waits(j) /\ ~Buried(j) /\ j \in Jobs
        /\ state[j].status \in {"queued", "running", "retrying"}
        /\ Raw(held[w]) \in processing /\ Raw(held[w]).job = j
    BY <2>1, AtWork
  <2>3. Distinct'
    BY <1>5, FinishMoves
  <2>4. Apart'
    BY <1>5, <2>1, <2>2, FinishMoves DEF QueueInv, Apart, Outcomes
  <2>5. \A v \in Workers : Busy(v)' => v # w /\ Busy(v) /\ held'[v] = held[v]
    BY <1>0, <1>5 DEF Finish, Drop, Busy, TypeOK
  <2>6. ASSUME NEW v \in Workers, Busy(v)' PROVE Raw(held'[v]) \in processing'
    <3>1. held[v].job # j /\ held'[v] = held[v]
      BY <2>1, <2>5, <2>6 DEF QueueInv, OneWorkerPerJob
    <3>2. Raw(held[v]) \in processing /\ Raw(held[v]).job = held[v].job
      BY <2>5, <2>6, AtWork
    <3> QED
      BY <1>5, <2>2, <3>1, <3>2, FinishMoves
  <2>7. Tethered' /\ OneWorkerPerJob'
    BY <2>5, <2>6 DEF QueueInv, Tethered, OneWorkerPerJob
  <2> QED
    BY <2>3, <2>4, <2>7
<1> QED
  BY <1>0, <1>1, <1>2, <1>3, <1>4, <1>5, QuietSteps DEF Next, Work

LEMMA QueueInit == Init => Distinct /\ Apart /\ Tethered /\ OneWorkerPerJob
  BY DEF Init, Distinct, Apart, Tethered, OneWorkerPerJob, Waits, Taken, Buried, Busy

LEMMA QueueInvariant == Spec => []QueueInv
<1>1. Init => QueueInv
  BY QueueInit, TypeInit DEF QueueInv
<1>2. QueueInv /\ [Next]_vars => QueueInv'
  BY QueueStep, TypeStep DEF QueueInv
<1> QED
  BY <1>1, <1>2, PTL DEF Spec

(* However many workers drain the queue and however they fail, no two have *)
(* the same job.                                                           *)
THEOREM OneWorker == Spec => []OneWorkerPerJob
<1>1. QueueInv => OneWorkerPerJob
  BY DEF QueueInv
<1> QED
  BY <1>1, QueueInvariant, PTL

(* An entry's own place, and no other, is where its job is.                *)
LEMMA InOnePlace == QueueInv => KeptOnce
<1> SUFFICES ASSUME QueueInv PROVE KeptOnce
  OBVIOUS
<1>1. ASSUME NEW j \in Jobs
      PROVE  IF state[j].status = "absent" THEN Places(j) = {}
             ELSE \E p \in Places(j) : Places(j) = {p}
  <2> DEFINE Q == {<<"queue", i>> : i \in {i \in DOMAIN queue : queue[i].job = j}}
             P == {<<"processing", e.attempts>> : e \in {e \in processing : e.job = j}}
             D == {<<"dead", e.attempts>> : e \in {e \in dead : e.job = j}}
             S == IF state[j].status = "succeeded" THEN {<<"succeeded", 0>>} ELSE {}
  <2>1. Places(j) = Q \cup P \cup D \cup S
    BY DEF Places
  <2>2. (~Waits(j) => Q = {}) /\ (Waits(j) => \E p : Q = {p})
    <3>1. ASSUME NEW i \in DOMAIN queue, queue[i].job = j PROVE Q = {<<"queue", i>>}
      <4>1. \A k \in DOMAIN queue : queue[k].job = j => k = i
        BY <3>1 DEF QueueInv, Distinct
      <4> QED
        BY <3>1, <4>1
    <3>2. ~Waits(j) => Q = {}
      BY DEF Waits
    <3> QED
      BY <3>1, <3>2 DEF Waits
  <2>3. (~Taken(j) => P = {}) /\ (Taken(j) => \E p : P = {p})
    <3>1. ASSUME NEW e \in processing, e.job = j PROVE P = {<<"processing", e.attempts>>}
      BY <3>1 DEF QueueInv, Distinct
    <3> QED
      BY <3>1 DEF Taken
  <2>4. (~Buried(j) => D = {}) /\ (Buried(j) => \E p : D = {p})
    <3>1. ASSUME NEW e \in dead, e.job = j PROVE D = {<<"dead", e.attempts>>}
      BY <3>1 DEF QueueInv, Distinct
    <3> QED
      BY <3>1 DEF Buried
  <2>5. state[j].status \in Status
    BY DEF QueueInv, TypeOK, State
  <2> HIDE DEF Q, P, D
  <2>6. CASE state[j].status = "absent"
    BY <2>1, <2>2, <2>3, <2>4, <2>6 DEF QueueInv, Apart
  <2>7. CASE state[j].status = "succeeded"
    BY <2>1, <2>2, <2>3, <2>4, <2>7 DEF QueueInv, Apart
  <2>8. CASE state[j].status \notin {"absent", "succeeded"}
    <3>1. S = {} /\ (Waits(j) \/ Taken(j) \/ Buried(j))
      BY <2>5, <2>8 DEF QueueInv, Apart, Status
    <3> QED
      BY <2>1, <2>2, <2>3, <2>4, <2>8, <3>1 DEF QueueInv, Apart
  <2> QED
    BY <2>6, <2>7, <2>8
<1> QED
  BY <1>1 DEF KeptOnce, QueueInv, Tethered

(* A job that was queued is in exactly one place for ever, whatever        *)
(* command fails and whoever dies.                                         *)
THEOREM Kept == Spec => []KeptOnce
  BY InOnePlace, QueueInvariant, PTL

-----------------------------------------------------------------------------
(* Runs and outcomes.                                                      *)

(* Only SetRunning starts a handler, and only of the worker's own job.     *)
LEMMA RunsMove ==
    ASSUME QueueInv, [Next]_vars
    PROVE  \/ runs' = runs
           \/ \E w \in Workers :
                 /\ SetRunning(w) /\ pc'[w] = "running"
                 /\ runs' = [runs EXCEPT ![held[w].job] = @ + 1]
  BY DEF Next, Work, vars, history, Enqueue, EnqueueRefused, Reserve, SetRunning, Step, SetProgress,
     Execute, Finish, Stop, Leave, Crash, Start

LEMMA FinalStep ==
    ASSUME QueueInv, [Next]_vars, NEW j \in Jobs, state[j].status \in Terminal
    PROVE  state'[j] = state[j] /\ runs'[j] = runs[j]
<1>1. \A w \in Workers : Busy(w) => held[w].job # j
  BY AtWork DEF Terminal
<1>2. runs'[j] = runs[j]
  <2>1. ASSUME NEW w \in Workers, SetRunning(w) PROVE Busy(w)
    BY <2>1 DEF SetRunning, Busy
  <2> QED
    BY <1>1, <2>1, RunsMove DEF QueueInv, TypeOK
<1>3. state'[j] = state[j]
  <2>1. CASE UNCHANGED redis
    BY <2>1 DEF redis
  <2>2. ASSUME NEW k \in Jobs, Enqueue(k) PROVE state'[j] = state[j]
    <3>1. k # j
      BY <2>2 DEF Enqueue, QueueInv, Apart, Terminal
    <3> QED
      BY <2>2, <3>1, EnqueueMoves
  <2>3. ASSUME NEW w \in Workers, Reserve(w) PROVE state'[j] = state[j]
    BY <2>3 DEF Reserve
  <2>4. ASSUME NEW w \in Workers, SetRunning(w) \/ \E n \in unsent[w] : SetProgress(w, n)
        PROVE  state'[j] = state[j]
    BY <1>1, <2>4, RunningMoves
  <2>5. ASSUME NEW w \in Workers, Finish(w), ~UNCHANGED redis PROVE state'[j] = state[j]
    BY <1>1, <2>5, FinishMoves DEF Finish, Busy
  <2>6. CASE Quiet
    BY <2>6 DEF Quiet, redis
  <2> QED
    BY <2>1, <2>2, <2>3, <2>4, <2>5, <2>6, QuietSteps DEF Next, Work, QueueInv
<1> QED
  BY <1>2, <1>3

(* An outcome is final: neither late progress nor a retry nor another      *)
(* worker changes the state a client polled or runs the job again.         *)
THEOREM OutcomesAreFinal == Spec => OutcomeIsFinal
<1>1. QueueInv /\ [Next]_vars =>
        [\A j \in Jobs : state[j].status \in Terminal =>
             state'[j] = state[j] /\ runs'[j] = runs[j]]_vars
  BY FinalStep
<1> QED
  BY <1>1, QueueInvariant, PTL DEF Spec, OutcomeIsFinal

-----------------------------------------------------------------------------
(* Counting.  Each attempt is counted before the handler starts, so an     *)
(* entry never knows of fewer attempts than were started.                  *)

(* An entry to be worked on: its attempts are not used up, ...             *)
Fresh(e) == e.attempts < MaxAttempts /\ runs[e.job] <= e.attempts /\ successes[e.job] = 0

(* ... and one in processing may have one start more.                      *)
Spent(e) == e.attempts < MaxAttempts /\ runs[e.job] <= e.attempts + 1 /\ successes[e.job] <= 1

Counts(w) ==
    LET j == held[w].job IN
    /\ IF pc[w] = "reserved" THEN runs[j] < held[w].attempts ELSE runs[j] > 0
    /\ pc[w] \in {"reserved", "running"} => successes[j] = 0
    /\ pc[w] = "finish" /\ out[w] = "retrying" =>
          successes[j] = 0 /\ held[w].attempts < MaxAttempts

Counted ==
    /\ \A i \in DOMAIN queue : Fresh(queue[i])
    /\ \A e \in processing : Spent(e)
    /\ \A w \in Workers : Busy(w) => Counts(w)
    /\ \A j \in Jobs : state[j].status = "absent" => runs[j] = 0 /\ successes[j] = 0
    /\ RunsBounded

(* No other entry, and no other worker, has the job of a busy worker.      *)
LEMMA Elsewhere ==
    ASSUME QueueInv, NEW w \in Workers, Busy(w)
    PROVE  /\ \A i \in DOMAIN queue : queue[i].job # held[w].job
           /\ \A e \in processing : e # Raw(held[w]) => e.job # held[w].job
           /\ \A v \in Workers : v # w /\ Busy(v) => held[v].job # held[w].job
  BY AtWork DEF Waits, QueueInv, OneWorkerPerJob

(* What a busy worker's own entry and job say.                             *)
LEMMA AtWorkCounted ==
    ASSUME QueueInv, Counted, NEW w \in Workers, Busy(w)
    PROVE  /\ held[w].job \in Jobs /\ held[w].attempts \in Nat
           /\ held[w].attempts <= MaxAttempts
           /\ runs[held[w].job] \in Nat /\ runs[held[w].job] <= held[w].attempts
           /\ successes[held[w].job] \in Nat
           /\ Raw(held[w]) \in processing
           /\ Raw(held[w]).job = held[w].job /\ Raw(held[w]).attempts = held[w].attempts - 1
           /\ state[held[w].job].status # "absent"
           /\ Counts(w)
<1>1. /\ held[w].job \in Jobs /\ held[w].attempts \in Nat
      /\ Raw(held[w]).job = held[w].job /\ Raw(held[w]).attempts = held[w].attempts - 1
  BY Holding DEF QueueInv
<1>2. Raw(held[w]) \in processing /\ state[held[w].job].status # "absent"
  BY AtWork
<1>3. Spent(Raw(held[w])) /\ Counts(w)
  BY <1>2 DEF Counted
<1>4. runs[held[w].job] \in Nat /\ successes[held[w].job] \in Nat
  BY <1>1 DEF QueueInv, TypeOK
<1> QED
  BY <1>1, <1>2, <1>3, <1>4, AttemptsAssumption DEF Spent

LEMMA CountedStep ==
    ASSUME QueueInv, Counted, [Next]_vars
    PROVE  Counted'
<1>1. ASSUME NEW j \in Jobs, Enqueue(j) PROVE Counted'
  <2> DEFINE e == [job |-> j, attempts |-> 0]
  <2>1. runs[j] = 0 /\ successes[j] = 0 /\ e \in Entry /\ queue \in Seq(Entry)
    BY <1>1 DEF Enqueue, Counted, QueueInv, Apart, Entry, TypeOK
  <2>2. /\ queue' = Append(queue, e) /\ processing' = processing
        /\ runs' = runs /\ successes' = successes /\ pc' = pc /\ held' = held /\ out' = out
    BY <1>1 DEF Enqueue, history, local
  <2>3. PICK n \in DOMAIN queue' :
           /\ queue'[n] = e /\ DOMAIN queue' = DOMAIN queue \cup {n}
           /\ \A i \in DOMAIN queue : queue'[i] = queue[i]
    BY <2>1, <2>2, Pushed
  <2>4. Fresh(e)'
    BY <2>1, <2>2, AttemptsAssumption DEF Fresh
  <2>5. (\A i \in DOMAIN queue : Fresh(queue[i]))'
    BY <2>2, <2>3, <2>4 DEF Counted, Fresh
  <2>6. (\A f \in processing : Spent(f))'
    BY <2>2 DEF Counted, Spent
  <2>7. \A w \in Workers : Busy(w)' => Counts(w)'
    BY <2>2 DEF Counted, Counts, Busy
  <2>8. \A k \in Jobs : state'[k].status = "absent" => runs'[k] = 0 /\ successes'[k] = 0
    BY <1>1, <2>2, EnqueueMoves DEF Counted
  <2> QED
    BY <2>2, <2>5, <2>6, <2>7, <2>8 DEF Counted, RunsBounded
<1>2. ASSUME NEW w \in Workers, Reserve(w) PROVE Counted'
  <2>0. PICK e : e = Head(queue)
    OBVIOUS
  <2> DEFINE f == [e EXCEPT !.attempts = @ + 1]
  <2>1. /\ queue \in Seq(Entry) /\ queue # <<>> /\ queue' = Tail(queue)
        /\ processing' = processing \cup {e}
        /\ runs' = runs /\ successes' = successes /\ state' = state /\ out' = out
    BY <1>2, <2>0 DEF Reserve, QueueInv, TypeOK, history
  <2>2. /\ e \in Entry /\ e = queue[1] /\ 1 \in DOMAIN queue
        /\ \A i \in DOMAIN queue' : i + 1 \in DOMAIN queue /\ queue'[i] = queue[i + 1]
    BY <2>0, <2>1, Popped
  <2>3. e.job \in Jobs /\ e.attempts \in Nat /\ runs[e.job] \in Nat /\ successes[e.job] \in Nat
    BY <2>2 DEF Entry, QueueInv, TypeOK
  <2>4. Fresh(e)
    BY <2>2 DEF Counted
  <2>5. (\A i \in DOMAIN queue : Fresh(queue[i]))'
    BY <2>1, <2>2 DEF Counted, Fresh
  <2>6. Spent(e)'
    BY <2>1, <2>3, <2>4 DEF Fresh, Spent
  <2>7. (\A g \in processing : Spent(g))'
    BY <2>1, <2>6 DEF Counted, Spent
  <2>8. f.attempts = e.attempts + 1 /\ f.job = e.job
    BY <2>2, Counting
  <2>9. /\ \A v \in Workers \ {w} : pc'[v] = pc[v] /\ held'[v] = held[v]
        /\ Busy(w)' => pc'[w] = "reserved" /\ held'[w] = f
    BY <1>2, <2>0 DEF Reserve, QueueInv, TypeOK, Busy
  <2> HIDE DEF f
  <2>10. ASSUME NEW v \in Workers, Busy(v)' PROVE Counts(v)'
    <3>1. CASE v = w
      BY <2>1, <2>3, <2>4, <2>8, <2>9, <2>10, <3>1 DEF Counts, Fresh
    <3>2. CASE v # w
      BY <2>1, <2>9, <2>10, <3>2 DEF Counted, Counts, Busy
    <3> QED
      BY <3>1, <3>2
  <2> QED
    BY <2>1, <2>5, <2>7, <2>10 DEF Counted, RunsBounded
<1>3. ASSUME NEW w \in Workers, SetRunning(w) PROVE Counted'
  <2> DEFINE j == held[w].job
  <2>1. Busy(w) /\ pc[w] = "reserved" /\ Counts(w)
    BY <1>3 DEF SetRunning, Busy, Counted
  <2>2. /\ queue' = queue /\ processing' = processing /\ successes' = successes
        /\ \A v \in Workers \ {w} : pc'[v] = pc[v] /\ held'[v] = held[v] /\ out'[v] = out[v]
        /\ Busy(w)' => pc'[w] = "running" /\ held'[w] = held[w] /\ runs' = [runs EXCEPT ![j] = @ + 1]
        /\ runs' = runs \/ runs' = [runs EXCEPT ![j] = @ + 1]
    BY <1>3 DEF SetRunning, Drop, local, Busy, QueueInv, TypeOK
  <2>3. /\ \A k \in Jobs \ {j} : runs'[k] = runs[k]
        /\ runs'[j] \in Nat /\ runs'[j] <= held[w].attempts /\ held[w].attempts <= MaxAttempts
        /\ held[w].attempts \in Nat /\ j \in Jobs /\ successes[j] = 0
        /\ Busy(w)' => runs'[j] > 0
    BY <2>1, <2>2, AtWorkCounted DEF Counts, QueueInv, TypeOK
  <2>4. (\A i \in DOMAIN queue : Fresh(queue[i]))'
    <3> SUFFICES ASSUME NEW i \in DOMAIN queue, queue' = queue PROVE (Fresh(queue[i]))'
      BY <2>2
    <3>1. queue[i].job \in Jobs \ {j}
      <4>1. queue[i] \in Entry
        BY ElementOfSeq, LenProperties DEF QueueInv, TypeOK
      <4> QED
        BY <2>1, <4>1, Elsewhere DEF Entry
    <3> QED
      BY <2>2, <2>3, <3>1 DEF Counted, Fresh
  <2>5. (\A f \in processing : Spent(f))'
    <3> SUFFICES ASSUME NEW e \in processing PROVE Spent(e)'
      BY <2>2
    <3>1. CASE e = Raw(held[w])
      <4>1. e.job = j /\ e.attempts = held[w].attempts - 1 /\ held[w].attempts \in Nat
        BY <2>1, <3>1, AtWorkCounted
      <4> QED
        BY <2>2, <2>3, <4>1 DEF Counted, Spent
    <3>2. CASE e # Raw(held[w])
      <4>1. e.job \in Jobs \ {j}
        BY <2>1, <3>2, Elsewhere DEF Entry, QueueInv, TypeOK
      <4> QED
        BY <2>2, <2>3, <4>1 DEF Counted, Spent
    <3> QED
      BY <3>1, <3>2
  <2>6. ASSUME NEW v \in Workers, Busy(v)' PROVE Counts(v)'
    <3>1. CASE v = w
      BY <2>2, <2>3, <2>6, <3>1 DEF Counts
    <3>2. CASE v # w
      <4>1. Busy(v) /\ Counts(v)
        BY <2>2, <2>6, <3>2 DEF Busy, Counted
      <4>2. held[v].job \in Jobs \ {j}
        BY <2>1, <3>2, <4>1, Elsewhere, AtWork
      <4> QED
        BY <2>2, <2>3, <3>2, <4>1, <4>2 DEF Counts
    <3> QED
      BY <3>1, <3>2
  <2>7. \A k \in Jobs : state'[k].status = "absent" => runs'[k] = 0 /\ successes'[k] = 0
    BY <1>3, <2>2, <2>3, RunningMoves DEF Counted
  <2>8. RunsBounded'
    BY <2>2, <2>3, AttemptsAssumption DEF Counted, RunsBounded
  <2> QED
    BY <2>4, <2>5, <2>6, <2>7, <2>8 DEF Counted
<1>4. ASSUME NEW w \in Workers, Execute(w) PROVE Counted'
  <2> DEFINE j == held[w].job
  <2>1. Busy(w) /\ pc[w] = "running" /\ Counts(w)
    BY <1>4 DEF Execute, Busy, Counted
  <2>2. /\ queue' = queue /\ processing' = processing /\ state' = state /\ runs' = runs /\ held' = held
        /\ \A v \in Workers \ {w} : pc'[v] = pc[v] /\ out'[v] = out[v]
        /\ pc'[w] = "finish"
        /\ \/ successes' = successes /\ (out'[w] = "retrying" => held[w].attempts < MaxAttempts)
           \/ successes' = [successes EXCEPT ![j] = @ + 1] /\ out'[w] = "succeeded"
    BY <1>4 DEF Execute, redis, QueueInv, TypeOK
  <2>3. /\ j \in Jobs /\ successes[j] = 0 /\ runs[j] > 0
        /\ \A k \in Jobs \ {j} : successes'[k] = successes[k]
        /\ successes'[j] <= 1 /\ (out'[w] = "retrying" => successes'[j] = 0)
    BY <2>1, <2>2, AtWorkCounted DEF Counts, QueueInv, TypeOK
  <2>4. (\A i \in DOMAIN queue : Fresh(queue[i]))'
    <3> SUFFICES ASSUME NEW i \in DOMAIN queue, queue' = queue PROVE (Fresh(queue[i]))'
      BY <2>2
    <3>1. queue[i].job \in Jobs \ {j}
      <4>1. queue[i] \in Entry
        BY ElementOfSeq, LenProperties DEF QueueInv, TypeOK
      <4> QED
        BY <2>1, <4>1, Elsewhere DEF Entry
    <3> QED
      BY <2>2, <2>3, <3>1 DEF Counted, Fresh
  <2>5. (\A f \in processing : Spent(f))'
    <3> SUFFICES ASSUME NEW e \in processing PROVE Spent(e)'
      BY <2>2
    <3>1. e.job \in Jobs
      BY DEF Entry, QueueInv, TypeOK
    <3> QED
      BY <2>2, <2>3, <3>1 DEF Counted, Spent
  <2>6. ASSUME NEW v \in Workers, Busy(v)' PROVE Counts(v)'
    <3>1. CASE v = w
      BY <2>2, <2>3, <3>1 DEF Counts
    <3>2. CASE v # w
      <4>1. Busy(v) /\ Counts(v)
        BY <2>2, <2>6, <3>2 DEF Busy, Counted
      <4>2. held[v].job \in Jobs \ {j}
        BY <2>1, <3>2, <4>1, Elsewhere, AtWork
      <4> QED
        BY <2>2, <2>3, <3>2, <4>1, <4>2 DEF Counts
    <3> QED
      BY <3>1, <3>2
  <2>7. \A k \in Jobs : state'[k].status = "absent" => runs'[k] = 0 /\ successes'[k] = 0
    BY <2>1, <2>2, <2>3, AtWorkCounted DEF Counted
  <2>8. RunsBounded'
    BY <2>2, <2>3 DEF Counted, RunsBounded
  <2> QED
    BY <2>4, <2>5, <2>6, <2>7, <2>8 DEF Counted
<1>5. ASSUME NEW w \in Workers, Finish(w), ~UNCHANGED redis PROVE Counted'
  <2>0. PICK e : e = held[w]
    OBVIOUS
  <2>1. Busy(w) /\ pc[w] = "finish" /\ Counts(w)
    BY <1>5 DEF Finish, Busy, Counted
  <2>2. /\ queue' = IF out[w] = "retrying" THEN Append(queue, e) ELSE queue
        /\ processing' = processing \ {Raw(e)} /\ runs' = runs /\ successes' = successes
        /\ \A v \in Workers \ {w} : pc'[v] = pc[v] /\ held'[v] = held[v] /\ out'[v] = out[v]
        /\ ~Busy(w)'
    BY <1>5, <2>0 DEF Finish, Drop, history, Busy, QueueInv, TypeOK
  <2>3. e \in Entry /\ queue \in Seq(Entry)
    BY <2>0, <2>1, Holding DEF QueueInv, TypeOK
  <2>4. (\A i \in DOMAIN queue : Fresh(queue[i]))'
    <3>1. CASE out[w] = "retrying"
      <4>1. PICK n \in DOMAIN queue' :
               /\ queue'[n] = e /\ DOMAIN queue' = DOMAIN queue \cup {n}
               /\ \A i \in DOMAIN queue : queue'[i] = queue[i]
        BY <2>2, <2>3, <3>1, Pushed
      <4>2. Fresh(e)'
        BY <2>0, <2>1, <2>2, <3>1, AtWorkCounted DEF Counts, Fresh
      <4> QED
        BY <2>2, <4>1, <4>2 DEF Counted, Fresh
    <3>2. CASE out[w] # "retrying"
      BY <2>2, <3>2 DEF Counted, Fresh
    <3> QED
      BY <3>1, <3>2
  <2>5. (\A f \in processing : Spent(f))'
    BY <2>2 DEF Counted, Spent
  <2>6. \A v \in Workers : Busy(v)' => Counts(v)'
    BY <2>2 DEF Counted, Counts, Busy
  <2>7. \A k \in Jobs : state'[k].status = "absent" => runs'[k] = 0 /\ successes'[k] = 0
    <3>1. state'[e.job].status = out[w] /\ out[w] # "absent"
      BY <1>5, <2>0, <2>1, FinishMoves DEF QueueInv, TypeOK, Outcomes
    <3> QED
      BY <1>5, <2>0, <2>2, <3>1, FinishMoves DEF Counted
  <2> QED
    BY <2>2, <2>4, <2>5, <2>6, <2>7 DEF Counted, RunsBounded
<1>6. ASSUME NEW w \in Workers, NEW n \in unsent[w], SetProgress(w, n) PROVE Counted'
  <2>1. /\ queue' = queue /\ processing' = processing /\ pc' = pc /\ held' = held /\ out' = out
        /\ runs' = runs /\ successes' = successes
    BY <1>6 DEF SetProgress, local, history
  <2>2. \A k \in Jobs : state'[k].status = "absent" => state[k].status = "absent"
    BY <1>6, RunningMoves
  <2> QED
    BY <2>1, <2>2 DEF Counted, Fresh, Spent, Counts, Busy, RunsBounded
<1>7. ASSUME UNCHANGED <<redis, history>>,
             \A v \in Workers : Busy(v)' =>
                 Busy(v) /\ pc'[v] = pc[v] /\ held'[v] = held[v] /\ out'[v] = out[v]
      PROVE  Counted'
  <2>1. /\ queue' = queue /\ processing' = processing /\ state' = state
        /\ runs' = runs /\ successes' = successes
    BY <1>7 DEF redis, history
  <2>2. \A v \in Workers : Busy(v)' => Counts(v)'
    BY <1>7, <2>1 DEF Counted, Counts
  <2> QED
    BY <2>1, <2>2 DEF Counted, Fresh, Spent, RunsBounded
<1>8. ASSUME NEW w \in Workers,
             Step(w) \/ Stop(w) \/ Leave(w) \/ Crash(w) \/ Start(w) \/ (Finish(w) /\ UNCHANGED redis)
      PROVE  /\ UNCHANGED <<redis, history>>
             /\ \A v \in Workers : Busy(v)' =>
                   Busy(v) /\ pc'[v] = pc[v] /\ held'[v] = held[v] /\ out'[v] = out[v]
  <2>1. CASE Step(w) \/ Stop(w)
    BY <2>1 DEF Step, Stop, local, history, Busy
  <2>2. CASE Leave(w) \/ Crash(w) \/ Start(w)
    BY <2>2 DEF Leave, Crash, Start, local, history, Busy, QueueInv, TypeOK
  <2>3. CASE Finish(w) /\ UNCHANGED redis
    BY <2>3 DEF Finish, Drop, history, Busy, QueueInv, TypeOK
  <2> QED
    BY <1>8, <2>1, <2>2, <2>3
<1>9. ASSUME NEW j \in Jobs, EnqueueRefused(j) PROVE Counted'
  BY <1>7, <1>9 DEF EnqueueRefused, local, Busy
<1>10. CASE UNCHANGED vars
  BY <1>7, <1>10 DEF vars, local, Busy
<1> QED
  BY <1>1, <1>2, <1>3, <1>4, <1>5, <1>6, <1>7, <1>8, <1>9, <1>10 DEF Next, Work

LEMMA CountedInit == Init => Counted
<1> SUFFICES ASSUME Init PROVE Counted
  OBVIOUS
<1>1. queue = <<>> /\ processing = {} /\ \A w \in Workers : ~Busy(w)
  BY DEF Init, Busy
<1>2. \A j \in Jobs : runs[j] = 0 /\ successes[j] = 0
  BY DEF Init
<1> QED
  BY <1>1, <1>2, AttemptsAssumption DEF Counted, RunsBounded

LEMMA CountedInvariant == Spec => [](QueueInv /\ Counted)
<1>1. QueueInv /\ Counted /\ [Next]_vars => Counted'
  BY CountedStep
<1> QED
  BY <1>1, CountedInit, QueueInvariant, PTL DEF Spec

(* A job is run at most MaxAttempts times, and never after it succeeded,   *)
(* however many workers, refused commands, lost answers and deaths.        *)
THEOREM RunsAreBounded == Spec => []RunsBounded
<1>1. Counted => RunsBounded
  BY DEF Counted
<1> QED
  BY <1>1, CountedInvariant, PTL

-----------------------------------------------------------------------------
(* The queue implements JobLife.                                           *)

Stages == [j \in Jobs |-> Stage(j)]

(* A stage depends on the polled status and on being in the queue only.    *)
LEMMA StageOf ==
    ASSUME NEW j \in Jobs
    PROVE  /\ state[j].status = "absent" => Stage(j) = "none"
           /\ state[j].status \in Terminal => Stage(j) = state[j].status
           /\ state[j].status \in {"queued", "running", "retrying"} /\ Waits(j) => Stage(j) = "waiting"
           /\ state[j].status \in {"queued", "running", "retrying"} /\ ~Waits(j) => Stage(j) = "taken"
           /\ state'[j] = state[j] /\ (Waits(j)' <=> Waits(j)) => Stage(j)' = Stage(j)
<1>1. (\E e \in Waiting : e.job = j) <=> Waits(j)
  BY DEF Waiting, Waits
<1>2. (\E e \in Waiting' : e.job = j) <=> Waits(j)'
  BY DEF Waiting, Waits
<1> QED
  BY <1>1, <1>2 DEF Stage, Terminal

LEMMA StageOfNext ==
    ASSUME NEW j \in Jobs
    PROVE  /\ state'[j].status \in Terminal => Stage(j)' = state'[j].status
           /\ state'[j].status \in {"queued", "running", "retrying"} /\ Waits(j)' => Stage(j)' = "waiting"
           /\ state'[j].status \in {"queued", "running", "retrying"} /\ ~Waits(j)' => Stage(j)' = "taken"
<1>1. (\E e \in Waiting' : e.job = j) <=> Waits(j)'
  BY DEF Waiting, Waits
<1> QED
  BY <1>1 DEF Stage, Terminal

(* When no other job moves, the stages change at one job.                  *)
LEMMA OneMoves ==
    ASSUME NEW j \in Jobs, NEW from, NEW to, runs' = runs,
           Stage(j) = from, Stage(j)' = to,
           \A k \in Jobs : k # j => Stage(k)' = Stage(k)
    PROVE  Life!Move(j, from, to)
<1>1. Stages' = [Stages EXCEPT ![j] = to]
  BY DEF Stages
<1>2. Stages[j] = from
  BY DEF Stages
<1> QED
  BY <1>1, <1>2 DEF Stages, Life!Move

LEMMA LifeStep ==
    ASSUME QueueInv, Counted, [Next]_vars
    PROVE  [Life!Next]_<<Stages, runs>>
<1>1. ASSUME runs' = runs, \A k \in Jobs : Stage(k)' = Stage(k)
      PROVE  UNCHANGED <<Stages, runs>>
  BY <1>1 DEF Stages
<1>2. ASSUME Quiet, runs' = runs PROVE UNCHANGED <<Stages, runs>>
  <2>1. \A k \in Jobs : state'[k] = state[k] /\ (Waits(k)' <=> Waits(k))
    BY <1>2 DEF Quiet, redis, Waits
  <2> QED
    BY <1>1, <1>2, <2>1, StageOf
<1>3. ASSUME NEW j \in Jobs, Enqueue(j) PROVE Life!Create(j)
  <2>1. state[j].status = "absent" /\ runs' = runs
    BY <1>3 DEF Enqueue, history, QueueInv, Apart
  <2>2. Stage(j) = "none" /\ Stage(j)' = "waiting"
    BY <1>3, <2>1, EnqueueMoves, StageOf, StageOfNext
  <2>3. \A k \in Jobs : k # j => Stage(k)' = Stage(k)
    BY <1>3, EnqueueMoves, StageOf
  <2> QED
    BY <2>1, <2>2, <2>3, OneMoves DEF Life!Create
<1>4. ASSUME NEW w \in Workers, Reserve(w) PROVE \E j \in Jobs : Life!Take(j)
  <2>0. PICK j : j = Head(queue).job
    OBVIOUS
  <2>1. j \in Jobs /\ Waits(j) /\ state' = state /\ runs' = runs
    BY <1>4, <2>0, ReserveMoves DEF Entry, Reserve, history
  <2>2. state[j].status \in {"queued", "running", "retrying"}
    BY <2>1 DEF QueueInv, Apart, TypeOK, State, Status
  <2>3. Stage(j) = "waiting" /\ Stage(j)' = "taken"
    BY <1>4, <2>0, <2>1, <2>2, ReserveMoves, StageOf, StageOfNext
  <2>4. \A k \in Jobs : k # j => Stage(k)' = Stage(k)
    BY <1>4, <2>0, <2>1, ReserveMoves, StageOf
  <2> QED
    BY <2>1, <2>3, <2>4, OneMoves DEF Life!Take
<1>5. ASSUME NEW w \in Workers, SetRunning(w) \/ \E n \in unsent[w] : SetProgress(w, n)
      PROVE  \A k \in Jobs : Stage(k)' = Stage(k)
  <2>0. PICK j : j = held[w].job
    OBVIOUS
  <2>1. \A k \in Jobs : Waits(k)' <=> Waits(k)
    BY <1>5, RunningMoves DEF Waits
  <2>2. Stage(j) = "taken" /\ Stage(j)' = "taken"
    BY <1>5, <2>0, <2>1, RunningMoves, AtWork, StageOf, StageOfNext
  <2> QED
    BY <1>5, <2>0, <2>1, <2>2, RunningMoves, StageOf
<1>6. ASSUME NEW w \in Workers, SetRunning(w), pc'[w] = "running",
             runs' = [runs EXCEPT ![held[w].job] = @ + 1]
      PROVE  \E j \in Jobs : Life!Run(j)
  <2>0. PICK j : j = held[w].job
    OBVIOUS
  <2>1. Busy(w) /\ pc[w] = "reserved"
    BY <1>6 DEF SetRunning, Busy
  <2>2. j \in Jobs /\ runs[j] < MaxAttempts
    BY <2>0, <2>1, AtWorkCounted, AttemptsAssumption DEF Counts
  <2>3. Stage(j) = "taken" /\ Stages' = Stages
    BY <1>5, <1>6, <2>0, <2>1, AtWork, StageOf DEF Stages
  <2>4. Stages[j] = "taken"
    BY <2>2, <2>3 DEF Stages
  <2> QED
    BY <1>6, <2>0, <2>2, <2>3, <2>4 DEF Stages, Life!Run
<1>7. ASSUME NEW w \in Workers, Finish(w), ~UNCHANGED redis
      PROVE  \E j \in Jobs : Life!Again(j) \/ Life!End(j)
  <2>0. PICK j : j = held[w].job
    OBVIOUS
  <2>1. Busy(w) /\ pc[w] = "finish" /\ out[w] \in Outcomes /\ runs' = runs
    BY <1>7 DEF Finish, Busy, QueueInv, TypeOK, history
  <2>2. j \in Jobs /\ Stage(j) = "taken" /\ runs[j] \in Nat /\ runs[j] > 0
    BY <2>0, <2>1, AtWork, AtWorkCounted, StageOf DEF Counts
  <2>3. \A k \in Jobs : k # j => Stage(k)' = Stage(k)
    BY <1>7, <2>0, FinishMoves, StageOf
  <2>4. state'[j].status = out[w] /\ (out[w] = "retrying" => Waits(j)')
    BY <1>7, <2>0, <2>2, FinishMoves
  <2>5. CASE out[w] = "retrying"
    <3>1. runs[j] \in 1..(MaxAttempts - 1)
      BY <2>0, <2>1, <2>2, <2>5, AtWorkCounted, AttemptsAssumption DEF Counts
    <3>2. Stage(j)' = "waiting"
      BY <2>2, <2>4, <2>5, StageOfNext
    <3>3. Life!Move(j, "taken", "waiting")
      BY <2>1, <2>2, <2>3, <3>2, OneMoves
    <3> QED
      BY <2>2, <3>1, <3>3 DEF Life!Again
  <2>6. CASE out[w] \in Terminal
    <3>1. Stage(j)' = out[w]
      BY <2>2, <2>4, <2>6, StageOfNext
    <3>2. Life!Move(j, "taken", out[w])
      BY <2>1, <2>2, <2>3, <3>1, OneMoves
    <3> QED
      BY <2>2, <2>6, <3>2 DEF Life!End, Life!Outcomes, Terminal
  <2> QED
    BY <2>1, <2>5, <2>6 DEF Outcomes, Terminal
<1>8. ASSUME NEW w \in Workers, SetRunning(w) PROVE [Life!Next]_<<Stages, runs>>
  <2>1. runs' = runs \/ (pc'[w] = "running" /\ runs' = [runs EXCEPT ![held[w].job] = @ + 1])
    BY <1>8 DEF SetRunning
  <2> QED
    BY <1>1, <1>5, <1>6, <1>8, <2>1 DEF Life!Next
<1>9. ASSUME NEW w \in Workers, NEW n \in unsent[w], SetProgress(w, n)
      PROVE  UNCHANGED <<Stages, runs>>
  BY <1>1, <1>5, <1>9 DEF SetProgress, history
<1>10. ASSUME NEW w \in Workers,
              Step(w) \/ Execute(w) \/ Stop(w) \/ Leave(w) \/ Crash(w) \/ Start(w)
              \/ (Finish(w) /\ UNCHANGED redis)
       PROVE  UNCHANGED <<Stages, runs>>
  <2>1. runs' = runs
    BY <1>10 DEF Step, Execute, Stop, Leave, Crash, Start, Finish, history
  <2> QED
    BY <1>2, <1>10, <2>1, QuietSteps DEF QueueInv
<1>11. ASSUME NEW j \in Jobs, EnqueueRefused(j) PROVE UNCHANGED <<Stages, runs>>
  BY <1>2, <1>11, QuietSteps DEF EnqueueRefused, history, QueueInv
<1>12. CASE UNCHANGED vars
  BY <1>2, <1>12, QuietSteps DEF vars, history, QueueInv
<1> QED
  BY <1>3, <1>4, <1>7, <1>8, <1>9, <1>10, <1>11, <1>12 DEF Next, Work, Life!Next

(* Whatever is interleaved, refused, lost or killed, the commands and the  *)
(* workers move each job only as JobLife allows.                           *)
THEOREM ImplementsJobLife == Spec => JobLifeSpec
<1>1. Init => Life!Init
  <2> SUFFICES ASSUME Init PROVE Life!Init
    OBVIOUS
  <2>1. \A j \in Jobs : Stage(j) = "none"
    BY DEF Init, Stage
  <2> QED
    BY <2>1 DEF Init, Life!Init
<1>2. QueueInv /\ Counted /\ [Next]_vars => [Life!Next]_<<Stages, runs>>
  BY LifeStep
<1> QED
  BY <1>1, <1>2, CountedInvariant, PTL DEF Spec, JobLifeSpec, Life!Spec, Stages
=============================================================================
