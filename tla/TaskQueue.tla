----------------------------- MODULE TaskQueue ------------------------------
(***************************************************************************)
(* The Redis list of background tasks and the workers, one in each         *)
(* process, that pop a task, run its handler, and push it back when the    *)
(* handler fails.                                                          *)
(***************************************************************************)
EXTENDS Naturals, Sequences, FiniteSets

CONSTANTS
    Tasks,        \* what is enqueued, each once
    Unregistered, \* those no worker has a handler for
    Workers,
    MaxRetries,   \* MAX_RETRIES
    MaxDeaths,    \* bounds the deaths of workers
    Idle

ASSUME QueueAssumption == MaxRetries \in Nat \ {0} /\ MaxDeaths \in Nat
ASSUME IdleAssumption == Idle \notin [task : Tasks, retries : Nat]

VARIABLES
    queue,       \* cadencia:tasks: task and its retries
    enqueued,    \* tasks that have been enqueued
    running,     \* what each worker has popped, or Idle
    workerPc,    \* where each worker is
    runs,        \* history: how often the handler of a task was started
    finished,    \* tasks whose handler has returned
    abandoned,   \* history: tasks logged as failed, or without a handler
    lostTasks,   \* history: tasks whose worker died or could not push them back
    deaths

queueVars == <<queue, enqueued, running, workerPc, runs, finished, abandoned, lostTasks, deaths>>

QueueInit ==
    /\ queue = <<>> /\ enqueued = {}
    /\ running = [w \in Workers |-> Idle]
    /\ workerPc = [w \in Workers |-> "pop"]
    /\ runs = [t \in Tasks |-> 0]
    /\ finished = {} /\ abandoned = {} /\ lostTasks = {} /\ deaths = 0

\* RPUSH of a task that has not been tried.
Enqueue(t) ==
    /\ t \notin enqueued
    /\ enqueued' = enqueued \cup {t}
    /\ queue' = Append(queue, [task |-> t, retries |-> 0])
    /\ UNCHANGED <<running, workerPc, runs, finished, abandoned, lostTasks, deaths>>

\* BLPOP, and the lookup of the handler.
PopTask(w) ==
    /\ workerPc[w] = "pop" /\ queue # <<>>
    /\ LET t == Head(queue).task
       IN  /\ queue' = Tail(queue)
           /\ IF t \in Unregistered
              THEN abandoned' = abandoned \cup {t} /\ UNCHANGED <<running, workerPc, runs>>
              ELSE /\ running' = [running EXCEPT ![w] = Head(queue)]
                   /\ workerPc' = [workerPc EXCEPT ![w] = "run"]
                   /\ runs' = [runs EXCEPT ![t] = @ + 1]
                   /\ UNCHANGED abandoned
    /\ UNCHANGED <<enqueued, finished, lostTasks, deaths>>

WorkerPops(w) ==
    /\ running' = [running EXCEPT ![w] = Idle]
    /\ workerPc' = [workerPc EXCEPT ![w] = "pop"]

\* The handler returns.
TaskCompletes(w) ==
    /\ workerPc[w] = "run"
    /\ finished' = finished \cup {running[w].task}
    /\ WorkerPops(w)
    /\ UNCHANGED <<queue, enqueued, runs, abandoned, lostTasks, deaths>>

FailOnce(w) ==
    /\ workerPc[w] = "run"
    /\ WorkerPops(w)
    /\ UNCHANGED <<queue, enqueued, runs, finished, abandoned, lostTasks, deaths>>

\* The handler raises: one more retry, unless there have been enough.
TaskFails(w) ==
    /\ workerPc[w] = "run"
    /\ LET again == running[w].retries + 1
       IN  IF again < MaxRetries
           THEN /\ running' = [running EXCEPT ![w].retries = again]
                /\ workerPc' = [workerPc EXCEPT ![w] = "push"]
                /\ UNCHANGED abandoned
           ELSE /\ abandoned' = abandoned \cup {running[w].task}
                /\ WorkerPops(w)
    /\ UNCHANGED <<queue, enqueued, runs, finished, lostTasks, deaths>>

\* RPUSH of the retry, or a Redis error, which the loop logs.
PushRetry(w) ==
    /\ workerPc[w] = "push"
    /\ WorkerPops(w)
    /\ \/ queue' = Append(queue, running[w]) /\ UNCHANGED lostTasks
       \/ lostTasks' = lostTasks \cup {running[w].task} /\ UNCHANGED queue
    /\ UNCHANGED <<enqueued, runs, finished, abandoned, deaths>>

\* The process of a worker dies, and what it had popped with it; another starts.
WorkerDies(w) ==
    /\ deaths < MaxDeaths
    /\ deaths' = deaths + 1
    /\ lostTasks' = lostTasks \cup (IF running[w] = Idle THEN {} ELSE {running[w].task})
    /\ WorkerPops(w)
    /\ UNCHANGED <<queue, enqueued, runs, finished, abandoned>>

WorkerAdvances(w) == PopTask(w) \/ TaskCompletes(w) \/ TaskFails(w) \/ PushRetry(w)

QueueNext ==
    \/ \E t \in Tasks : Enqueue(t)
    \/ \E w \in Workers : WorkerAdvances(w) \/ WorkerDies(w)

QueueSpec == QueueInit /\ [][QueueNext]_queueVars

-----------------------------------------------------------------------------

\* The tasks that are in the list or with a worker.
Underway ==
    { queue[i].task : i \in DOMAIN queue }
       \cup { running[w].task : w \in { v \in Workers : running[v] # Idle } }

\* What was enqueued is under way, or finished, or given up, or lost with a worker:
\* and in one place only.  It is given up for want of a handler or after
\* MAX_RETRIES runs, and no handler is started more often than that
\* (task_queue.py:53-95).
EveryTaskAccounted ==
    /\ enqueued = Underway \cup finished \cup abandoned \cup lostTasks
    /\ Underway \cap (finished \cup abandoned \cup lostTasks) = {}
    /\ \A t \in abandoned : t \in Unregistered \/ runs[t] = MaxRetries
    /\ \A t \in Tasks : runs[t] <= MaxRetries
=============================================================================
