------------------------------ MODULE JobQueue ------------------------------
(***************************************************************************)
(* The Redis job queue and the workers that drain it (internal/jobs):      *)
(* Enqueue, Reserve, the handler with the progress it reports, Finish.     *)
(* One step is one Redis command or one MULTI block.                       *)
(***************************************************************************)
EXTENDS Integers, Sequences, FiniteSets

CONSTANTS
    Jobs,           \* ids of the jobs producers create
    Workers,        \* the loops of Worker.Run, each in a process of its own
    MaxAttempts,    \* Job.MaxAttempts
    Unknown,        \* jobs whose type has no registered handler
    Total,          \* steps a handler reports; 0 if it reports none
    Lanes,          \* goroutines of one handler that report steps
    CanFail,        \* commands that may be refused, changing nothing
    CanLose,        \* commands that may take effect and still report an error
    CanStop,        \* whether a worker may be asked to stop (SIGTERM)
    CanCrash,       \* whether a worker may be killed
    None            \* no job

Commands == {"enqueue", "reserve", "state", "finish"}

ASSUME AttemptsAssumption == MaxAttempts \in Nat \ {0}
ASSUME StepsAssumption == Total \in Nat /\ Lanes \in Nat \ {0}
ASSUME FaultsAssumption ==
    /\ CanFail \subseteq Commands /\ CanLose \subseteq Commands
    /\ CanStop \in BOOLEAN /\ CanCrash \in BOOLEAN
    /\ Unknown \subseteq Jobs

VARIABLES
    queue,      \* the list jobs:queue, oldest entry first
    processing, \* the list jobs:processing; no two entries of it are equal
    dead,       \* the list jobs:dead
    state,      \* the polled state of each job
    told,       \* what Enqueue returned to the producer of each job
    pc,         \* where each worker is
    held,       \* the job it holds, Attempts counted; raw is kept as attempts - 1
    out,        \* the outcome its handler came to
    done,       \* Tracker.done
    unsent,     \* steps counted but not yet recorded
    stopping,   \* workers whose context is cancelled
    runs,       \* history: how often a worker went on to run each job
    successes   \* history: how often its handler returned without an error

redis   == <<queue, processing, dead, state>>
local   == <<held, out>>
tracker == <<done, unsent>>
history == <<runs, successes>>
vars    == <<redis, told, pc, local, tracker, stopping, history>>

Status == {"absent", "queued", "running", "retrying", "succeeded", "failed"}
Terminal == {"succeeded", "failed"}
Outcomes == {"succeeded", "retrying", "failed"}

\* A serialised job, and the state a client polls; progress is the recorded Done.
Entry == [job : Jobs, attempts : Nat]
State == [status : Status, attempts : Nat, progress : Nat]

StateOf(e, s) == [status |-> s, attempts |-> e.attempts, progress |-> 0]

Raw(e) == [e EXCEPT !.attempts = @ - 1]

Waiting == {queue[i] : i \in DOMAIN queue}

Busy(w) == pc[w] \in {"reserved", "running", "finish"}

-----------------------------------------------------------------------------
Init ==
    /\ queue = <<>>
    /\ processing = {}
    /\ dead = {}
    /\ state = [j \in Jobs |-> [status |-> "absent", attempts |-> 0, progress |-> 0]]
    /\ told = [j \in Jobs |-> "new"]
    /\ pc = [w \in Workers |-> "idle"]
    /\ held = [w \in Workers |-> None]
    /\ out = [w \in Workers |-> None]
    /\ done = [w \in Workers |-> 0]
    /\ unsent = [w \in Workers |-> {}]
    /\ stopping = {}
    /\ runs = [j \in Jobs |-> 0]
    /\ successes = [j \in Jobs |-> 0]

(* The worker lets go of its job and looks for another one.                *)
Drop(w) ==
    /\ pc' = [pc EXCEPT ![w] = "idle"]
    /\ held' = [held EXCEPT ![w] = None]
    /\ out' = [out EXCEPT ![w] = None]

(* Enqueue: the state and the entry, in one MULTI.                         *)
Enqueue(j) ==
    /\ told[j] = "new"
    /\ LET e == [job |-> j, attempts |-> 0] IN
         /\ queue' = Append(queue, e)
         /\ state' = [state EXCEPT ![j] = StateOf(e, "queued")]
    /\ \/ told' = [told EXCEPT ![j] = "accepted"]
       \/ "enqueue" \in CanLose /\ told' = [told EXCEPT ![j] = "refused"]
    /\ UNCHANGED <<processing, dead, pc, local, tracker, stopping, history>>

EnqueueRefused(j) ==
    /\ told[j] = "new"
    /\ "enqueue" \in CanFail
    /\ told' = [told EXCEPT ![j] = "refused"]
    /\ UNCHANGED <<redis, pc, local, tracker, stopping, history>>

(* Reserve: LMOVE from the old end of the queue to processing ...          *)
ReserveCopying(w) ==    \* mutant: the entry is read and copied, not moved
    /\ pc[w] = "idle" /\ w \notin stopping /\ queue # <<>>
    /\ processing' = processing \cup {Head(queue)}
    /\ pc' = [pc EXCEPT ![w] = "reserved"]
    /\ held' = [held EXCEPT ![w] = [Head(queue) EXCEPT !.attempts = @ + 1]]
    /\ UNCHANGED <<queue, dead, state, told, out, tracker, stopping, history>>

ReservePopping(w) ==    \* mutant: RPOP, nothing is kept in processing
    /\ pc[w] = "idle" /\ w \notin stopping /\ queue # <<>>
    /\ queue' = Tail(queue)
    /\ pc' = [pc EXCEPT ![w] = "reserved"]
    /\ held' = [held EXCEPT ![w] = [Head(queue) EXCEPT !.attempts = @ + 1]]
    /\ UNCHANGED <<processing, dead, state, told, out, tracker, stopping, history>>

Reserve(w) ==
    /\ pc[w] = "idle"
    /\ w \notin stopping
    /\ queue # <<>>
    /\ queue' = Tail(queue)
    /\ processing' = processing \cup {Head(queue)}
    /\ \/ /\ pc' = [pc EXCEPT ![w] = "reserved"]
          /\ held' = [held EXCEPT ![w] = [Head(queue) EXCEPT !.attempts = @ + 1]]
       \/ /\ "reserve" \in CanLose
          /\ UNCHANGED <<pc, held>>
    /\ UNCHANGED <<dead, state, told, out, tracker, stopping, history>>

(* ... then SET of the running state, on the same context.                 *)
SetRunning(w) ==
    /\ pc[w] = "reserved"
    /\ \/ /\ w \notin stopping
          /\ state' = [state EXCEPT ![held[w].job] = StateOf(held[w], "running")]
          /\ \/ pc' = [pc EXCEPT ![w] = "running"] /\ UNCHANGED local
             \/ "state" \in CanLose /\ Drop(w)
       \/ /\ w \in stopping \/ "state" \in CanFail
          /\ UNCHANGED state
          /\ Drop(w)
    /\ IF pc'[w] = "running"
       THEN /\ done' = [done EXCEPT ![w] = 0]
            /\ runs' = [runs EXCEPT ![held[w].job] = @ + 1]
       ELSE UNCHANGED <<done, runs>>
    /\ UNCHANGED <<queue, processing, dead, told, unsent, stopping, successes>>

(* Tracker.Step counts under its mutex and records after releasing it.     *)
Step(w) ==
    /\ pc[w] = "running"
    /\ held[w].job \notin Unknown
    /\ done[w] < Total
    /\ Cardinality(unsent[w]) < Lanes
    /\ done' = [done EXCEPT ![w] = @ + 1]
    /\ unsent' = [unsent EXCEPT ![w] = @ \cup {done[w] + 1}]
    /\ UNCHANGED <<redis, told, pc, local, stopping, history>>

(* SetProgress; an error is ignored.                                       *)
SetProgress(w, n) ==
    /\ n \in unsent[w]
    /\ unsent' = [unsent EXCEPT ![w] = @ \ {n}]
    /\ \/ state' = [state EXCEPT ![held[w].job] =
                       [StateOf(held[w], "running") EXCEPT !.progress = n]]
       \/ "state" \in CanFail /\ UNCHANGED state
    /\ UNCHANGED <<queue, processing, dead, told, pc, local, done, stopping, history>>

(* execute: the handler ends, having waited for its goroutines; its error, *)
(* and the attempts made, decide the outcome.                              *)
ExecuteForever(w) ==    \* mutant: the retry limit is compared with >
    /\ pc[w] = "running"
    /\ unsent[w] = {}
    /\ LET e == held[w] IN
         /\ out' = [out EXCEPT ![w] =
                      IF e.attempts > MaxAttempts THEN "failed" ELSE "retrying"]
         /\ pc' = [pc EXCEPT ![w] = "finish"]
    /\ UNCHANGED <<redis, told, held, tracker, stopping, history>>

Execute(w) ==
    /\ pc[w] = "running"
    /\ unsent[w] = {}
    /\ LET e == held[w] IN
         \/ /\ e.job \notin Unknown
            /\ out' = [out EXCEPT ![w] = "succeeded"]
            /\ successes' = [successes EXCEPT ![e.job] = @ + 1]
         \/ /\ e.job \notin Unknown
            /\ e.attempts < MaxAttempts
            /\ out' = [out EXCEPT ![w] = "retrying"]
            /\ UNCHANGED successes
         \/ \* permanent, out of attempts, or no handler
            /\ out' = [out EXCEPT ![w] = "failed"]
            /\ UNCHANGED successes
    /\ pc' = [pc EXCEPT ![w] = "finish"]
    /\ UNCHANGED <<redis, told, held, tracker, stopping, runs>>

(* Finish: LREM of the raw entry, the outcome and, in the same MULTI, the  *)
(* job again or its entry among the dead.  Its error is only reported.     *)
FinishRaw(w) ==         \* mutant: the raw entry goes back, without the attempt
    /\ pc[w] = "finish"
    /\ LET e == held[w] IN
         /\ processing' = processing \ {Raw(e)}
         /\ state' = [state EXCEPT ![e.job] = StateOf(e, out[w])]
         /\ queue' = IF out[w] = "retrying" THEN Append(queue, Raw(e)) ELSE queue
         /\ dead' = IF out[w] = "failed" THEN dead \cup {Raw(e)} ELSE dead
    /\ Drop(w)
    /\ UNCHANGED <<told, tracker, stopping, history>>

Finish(w) ==
    /\ pc[w] = "finish"
    /\ LET e == held[w] IN
         \/ /\ processing' = processing \ {Raw(e)}
            /\ state' = [state EXCEPT ![e.job] = StateOf(e, out[w])]
            /\ queue' = IF out[w] = "retrying" THEN Append(queue, e) ELSE queue
            /\ dead' = IF out[w] = "failed" THEN dead \cup {Raw(e)} ELSE dead
         \/ "finish" \in CanFail /\ UNCHANGED redis
    /\ Drop(w)
    /\ UNCHANGED <<told, tracker, stopping, history>>

(* SIGTERM cancels the context of the loop; a job in progress is finished. *)
Stop(w) ==
    /\ CanStop
    /\ pc[w] # "off" /\ w \notin stopping
    /\ stopping' = stopping \cup {w}
    /\ UNCHANGED <<redis, told, pc, local, tracker, history>>

Leave(w) ==
    /\ pc[w] = "idle" /\ w \in stopping
    /\ pc' = [pc EXCEPT ![w] = "off"]
    /\ UNCHANGED <<redis, told, local, tracker, stopping, history>>

Crash(w) ==
    /\ CanCrash
    /\ pc[w] # "off"
    /\ pc' = [pc EXCEPT ![w] = "off"]
    /\ held' = [held EXCEPT ![w] = None]
    /\ out' = [out EXCEPT ![w] = None]
    /\ unsent' = [unsent EXCEPT ![w] = {}]
    /\ UNCHANGED <<redis, told, done, stopping, history>>

Start(w) ==
    /\ pc[w] = "off"
    /\ pc' = [pc EXCEPT ![w] = "idle"]
    /\ stopping' = stopping \ {w}
    /\ UNCHANGED <<redis, told, local, tracker, history>>

-----------------------------------------------------------------------------
Work(w) ==
    \/ Reserve(w) \/ SetRunning(w) \/ Step(w) \/ Execute(w) \/ Finish(w)
    \/ \E n \in unsent[w] : SetProgress(w, n)

Next ==
    \/ \E j \in Jobs : Enqueue(j) \/ EnqueueRefused(j)
    \/ \E w \in Workers : Work(w) \/ Stop(w) \/ Leave(w) \/ Crash(w) \/ Start(w)

Spec == Init /\ [][Next]_vars

-----------------------------------------------------------------------------
(* Every variable holds a value of its type; a busy worker holds a job it  *)
(* has counted an attempt for.                                             *)
TypeOK ==
    /\ queue \in Seq(Entry)
    /\ processing \in SUBSET Entry
    /\ dead \in SUBSET Entry
    /\ state \in [Jobs -> State]
    /\ told \in [Jobs -> {"new", "accepted", "refused"}]
    /\ pc \in [Workers -> {"off", "idle", "reserved", "running", "finish"}]
    /\ held \in [Workers -> Entry \cup {None}]
    /\ \A w \in Workers : Busy(w) => held[w] \in Entry /\ held[w].attempts > 0
    /\ out \in [Workers -> Outcomes \cup {None}]
    /\ \A w \in Workers : pc[w] = "finish" => out[w] \in Outcomes
    /\ done \in [Workers -> Nat]
    /\ unsent \in [Workers -> SUBSET Nat]
    /\ \A w \in Workers : unsent[w] # {} => pc[w] = "running"
    /\ stopping \in SUBSET Workers
    /\ runs \in [Jobs -> Nat]
    /\ successes \in [Jobs -> Nat]

(* Where an accepted job is: waiting, taken, or over with its outcome.     *)
Places(j) ==
    {<<"queue", i>> : i \in {i \in DOMAIN queue : queue[i].job = j}}
    \cup {<<"processing", e.attempts>> : e \in {e \in processing : e.job = j}}
    \cup {<<"dead", e.attempts>> : e \in {e \in dead : e.job = j}}
    \cup (IF state[j].status = "succeeded" THEN {<<"succeeded", 0>>} ELSE {})

(* A job that was queued is in exactly one place from then on, whatever    *)
(* command fails and whoever dies: it is never lost, never there twice,    *)
(* and a worker at work on it has it kept in processing.                   *)
KeptOnce ==
    /\ \A j \in Jobs : IF state[j].status = "absent" THEN Places(j) = {}
                       ELSE \E p \in Places(j) : Places(j) = {p}
    /\ \A w \in Workers : Busy(w) => Raw(held[w]) \in processing

(* No two workers have the same job.                                       *)
OneWorkerPerJob ==
    \A v, w \in Workers : Busy(v) /\ Busy(w) /\ held[v].job = held[w].job => v = w

(* A handler is started at most MaxAttempts times, each attempt counted    *)
(* before the next, and never again once it has succeeded.                 *)
RunsBounded ==
    \A j \in Jobs : runs[j] <= MaxAttempts /\ successes[j] <= 1

(* An outcome a client has polled is final: no late progress, retry or     *)
(* second worker brings the job back.                                      *)
OutcomeIsFinal ==
    [][\A j \in Jobs : state[j].status \in Terminal =>
          state'[j] = state[j] /\ runs'[j] = runs[j]]_vars

(* A job in processing has a worker: nothing is left there unattended.     *)
NothingStranded ==
    \A e \in processing : \E w \in Workers : Busy(w) /\ held[w].job = e.job

(* Progress a client polls during one attempt does not go back.            *)
ProgressAdvances ==
    [][\A j \in Jobs :
          state[j].status = "running" /\ state'[j].status = "running"
          /\ state'[j].attempts = state[j].attempts
          => state'[j].progress >= state[j].progress]_vars

(* The queue as its producers and pollers see it: see JobLife.             *)
Stage(j) ==
    IF state[j].status = "absent" THEN "none"
    ELSE IF state[j].status \in Terminal THEN state[j].status
    ELSE IF \E e \in Waiting : e.job = j THEN "waiting"
    ELSE "taken"

Life == INSTANCE JobLife WITH stage <- [j \in Jobs |-> Stage(j)], starts <- runs

(* Interleaved, refused, lost or killed, the commands move a job only as   *)
(* JobLife allows.                                                         *)
JobLifeSpec == Life!Spec
=============================================================================
