------------------------------ MODULE MlExecutor ------------------------------
(***************************************************************************)
(* The thread pool that config/AsyncConfig.java builds for the @Async      *)
(* methods: a task starts a thread while there are fewer than the core     *)
(* size, waits in a bounded queue after that, starts an extra thread when  *)
(* the queue is full, and is rejected when no more threads are allowed.    *)
(***************************************************************************)
EXTENDS Naturals, Sequences, FiniteSets

CONSTANTS
    Task,
    CorePoolSize,
    MaxPoolSize,
    QueueCapacity

ASSUME PoolAssumption ==
    /\ CorePoolSize \in Nat \ {0}
    /\ MaxPoolSize \in Nat
    /\ CorePoolSize <= MaxPoolSize
    /\ QueueCapacity \in Nat

VARIABLES
    workers,   (* the number of threads, busy or idle                        *)
    running,   (* the tasks being run, one by each busy thread               *)
    queue      (* the tasks that wait, oldest first                          *)

poolVars == <<workers, running, queue>>
-----------------------------------------------------------------------------
Waiting == {queue[i] : i \in DOMAIN queue}
Unfinished == running \cup Waiting

(* execute(task) in its four cases.                                        *)
StartCore(task) ==
    /\ workers < CorePoolSize
    /\ workers' = workers + 1
    /\ running' = running \cup {task}
    /\ UNCHANGED queue

Offer(task) ==
    /\ workers >= CorePoolSize
    /\ Len(queue) < QueueCapacity
    /\ queue' = Append(queue, task)
    /\ UNCHANGED <<workers, running>>

(* A faulty pool: extra threads are not limited.                           *)
StartExtraUnlimited(task) ==
    /\ workers >= CorePoolSize
    /\ Len(queue) >= QueueCapacity
    /\ workers' = workers + 1
    /\ running' = running \cup {task}
    /\ UNCHANGED queue

StartExtra(task) ==
    /\ workers >= CorePoolSize
    /\ Len(queue) >= QueueCapacity
    /\ workers < MaxPoolSize
    /\ workers' = workers + 1
    /\ running' = running \cup {task}
    /\ UNCHANGED queue

Accept(task) == StartCore(task) \/ Offer(task) \/ StartExtra(task)

(* AbortPolicy: TaskRejectedException in the thread that submits.          *)
Saturated ==
    /\ workers >= CorePoolSize
    /\ Len(queue) >= QueueCapacity
    /\ workers >= MaxPoolSize

(* An idle thread takes the oldest waiting task.                           *)
Take ==
    /\ Cardinality(running) < workers
    /\ queue # <<>>
    /\ running' = running \cup {Head(queue)}
    /\ queue' = Tail(queue)
    /\ UNCHANGED workers

Finish(task) ==
    /\ task \in running
    /\ running' = running \ {task}
    /\ UNCHANGED <<workers, queue>>

(* A thread beyond the core size that has waited for keepAliveTime ends.   *)
Retire ==
    /\ workers > CorePoolSize
    /\ Cardinality(running) < workers
    /\ queue = <<>>
    /\ workers' = workers - 1
    /\ UNCHANGED <<running, queue>>

PoolInit == workers = 0 /\ running = {} /\ queue = <<>>
-----------------------------------------------------------------------------
PoolTypeOK ==
    /\ workers \in 0 .. MaxPoolSize
    /\ running \in SUBSET Task
    /\ queue \in Seq(Task)
=============================================================================
