--------------------------- MODULE JobDefinitions ---------------------------
(***************************************************************************)
(* The definitions a job is made from (packages/jobs/src/definitions,      *)
(* registry/types.ts): the part of them that decides what a handler does.  *)
(* The user's functions and schemas are the nondeterminism of the          *)
(* handlers; names are left out, and so are cron expressions, of which a   *)
(* schedule keeps the time to the next run.                                *)
(***************************************************************************)
EXTENDS Backoff

Unlimited == 99         \* maxEvents, maxDuration: undefined

(* BaseRetryConfig, which JobRetryConfig extends. *)
RetryConfig ==
    [maxAttempts : Nat, delay : BackoffStrategy \union {NoDelay},
     maxDuration : Nat]

NoRetry == [maxAttempts |-> 0, delay |-> NoDelay, maxDuration |-> Unlimited]

retrying(attempts, delay, duration) ==
    [maxAttempts |-> attempts, delay |-> delay, maxDuration |-> duration]

Fields(type) ==
    [type : {type}, retry : RetryConfig, interval : Nat,
     startImmediately : BOOLEAN, maxEvents : Nat, onIdle : BOOLEAN]

ContinuousDefinition ==
    {d \in Fields("continuous") : d.maxEvents = Unlimited /\ ~d.onIdle}

DebounceDefinition ==
    {d \in Fields("debounce") : ~d.startImmediately /\ ~d.onIdle}

(* A task has no retry: its onError does what it likes. *)
TaskDefinition ==
    {d \in Fields("task") :
       d.retry = NoRetry /\ ~d.startImmediately /\ d.maxEvents = Unlimited}

(* A worker pool has a retry configuration of its own kind; nothing reads  *)
(* it. *)
WorkerPoolDefinition ==
    {d \in Fields("workerPool") :
       /\ d.retry = NoRetry /\ d.interval = 0 /\ d.maxEvents = Unlimited
       /\ ~d.startImmediately /\ ~d.onIdle}

JobDefinition ==
    ContinuousDefinition \union DebounceDefinition \union TaskDefinition
        \union WorkerPoolDefinition

(* Continuous.make with Continuous.every(interval); Debounce.make; and     *)
(* Task.make, of a task whose functions always schedule for interval.      *)
makeContinuous(interval, startImmediately, retry) ==
    [type |-> "continuous", retry |-> retry, interval |-> interval,
     startImmediately |-> startImmediately, maxEvents |-> Unlimited,
     onIdle |-> FALSE]

makeDebounce(flushAfter, maxEvents, retry) ==
    [type |-> "debounce", retry |-> retry, interval |-> flushAfter,
     startImmediately |-> FALSE, maxEvents |-> maxEvents, onIdle |-> FALSE]

makeTask(interval, onIdle) ==
    [type |-> "task", retry |-> NoRetry, interval |-> interval,
     startImmediately |-> FALSE, maxEvents |-> Unlimited, onIdle |-> onIdle]

(* A pool is made without a make function, by writing its definition. *)
makeWorkerPool ==
    [type |-> "workerPool", retry |-> NoRetry, interval |-> 0,
     startImmediately |-> FALSE, maxEvents |-> Unlimited, onIdle |-> FALSE]

(* The registry sorts definitions by type, for the handler of each type to *)
(* look them up.                                                           *)
createTypedJobRegistry(definitions) ==
    [type \in {"continuous", "debounce", "workerPool", "task"} |->
       {d \in definitions : d.type = type}]

=============================================================================
