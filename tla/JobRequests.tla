----------------------------- MODULE JobRequests -----------------------------
(***************************************************************************)
(* What a jobs client and the engine say to each other                     *)
(* (packages/jobs/src/runtime/types.ts, client): the requests and their    *)
(* answers, and what a handler tells its tracker                           *)
(* (packages/core/src/events.ts).                                          *)
(***************************************************************************)
EXTENDS Naturals

CONSTANT Absent         \* a field that is null or undefined

(* What a client of each type can be asked for. *)
ContinuousClient == {"start", "terminate", "trigger", "status", "getState"}

DebounceClient == {"add", "flush", "clear", "status", "getState"}

TaskClient == {"send", "trigger", "terminate", "status", "getState"}

WorkerPoolClient == {"enqueue", "pause", "resume", "cancel", "status", "drain"}

(* Of these a job answers the following without changing anything. *)
Reads == {"status", "getState"}

ContinuousRequest == [type : {"continuous"}, action : ContinuousClient]

DebounceRequest == [type : {"debounce"}, action : DebounceClient]

TaskRequest == [type : {"task"}, action : TaskClient]

WorkerPoolRequest == [type : {"workerPool"}, action : WorkerPoolClient]

JobRequest ==
    ContinuousRequest \union DebounceRequest \union TaskRequest
        \union WorkerPoolRequest

(* The requests of a client.  A pool's client sends each to one of the     *)
(* pool's instances, or to all: every instance gets requests like these.   *)
continuous(action) == [type |-> "continuous", action |-> action]

debounce(action) == [type |-> "debounce", action |-> action]

task(action) == [type |-> "task", action |-> action]

workerPool(action) == [type |-> "workerPool", action |-> action]

(* The client of a job: the id of the job's object is made from its type,  *)
(* so that requests of another type reach another object.                  *)
createJobsClient(type) ==
    CASE type = "continuous" -> {continuous(a) : a \in ContinuousClient}
      [] type = "debounce"   -> {debounce(a) : a \in DebounceClient}
      [] type = "task"       -> {task(a) : a \in TaskClient}
      [] type = "workerPool" -> {workerPool(a) : a \in WorkerPoolClient}

-----------------------------------------------------------------------------
(* An answer is a request's type and action, and what came of it.          *)

JobStatus == {"initializing", "running", "stopped", "terminated"}

Maybe(S) == {Absent} \union S

ContinuousResponse ==
    [type : {"continuous"}, action : {"start"},
     created : BOOLEAN, status : JobStatus]
    \union [type : {"continuous"}, action : {"terminate"}, terminated : BOOLEAN]
    \union [type : {"continuous"}, action : {"trigger"},
            triggered : BOOLEAN, terminated : BOOLEAN, retryScheduled : BOOLEAN]
    \union [type : {"continuous"}, action : {"status"},
            status : JobStatus \union {"not_found"},
            nextRunAt : Maybe(Nat), runCount : Maybe(Nat)]
    \union [type : {"continuous"}, action : {"getState"},
            state : Maybe(SUBSET Nat)]

DebounceResponse ==
    [type : {"debounce"}, action : {"add"}, created : BOOLEAN,
     willFlushAt : Maybe(Nat), retryScheduled : BOOLEAN]
    \union [type : {"debounce"}, action : {"flush"}, flushed : BOOLEAN,
            reason : {"manual", "empty"}, retryScheduled : BOOLEAN]
    \union [type : {"debounce"}, action : {"clear"}, cleared : BOOLEAN]
    \union [type : {"debounce"}, action : {"status"},
            status : {"debouncing", "idle", "not_found"},
            eventCount : Maybe(Nat), willFlushAt : Maybe(Nat)]
    \union [type : {"debounce"}, action : {"getState"}, state : Maybe(SUBSET Nat)]

TaskResponse ==
    [type : {"task"}, action : {"send"},
     created : BOOLEAN, scheduledAt : Maybe({TRUE})]
    \union [type : {"task"}, action : {"trigger"}, triggered : BOOLEAN]
    \union [type : {"task"}, action : {"terminate"}, terminated : BOOLEAN]
    \union [type : {"task"}, action : {"status"},
            status : {"active", "idle", "not_found"},
            scheduledAt : Maybe({TRUE}), eventCount : Maybe(Nat)]
    \union [type : {"task"}, action : {"getState"},
            state : Maybe(SUBSET Nat), scheduledAt : Maybe({TRUE})]

JobResponse == ContinuousResponse \union DebounceResponse \union TaskResponse

(* The client takes only the answer to its own request. *)
narrowResponse(response, request) ==
    response.type = request.type /\ response.action = request.action

(* The events of jobs.  None tells of a ctx.terminate(), of a clear or of  *)
(* the termination of a task.                                              *)
JobEvent ==
    {"job.started", "job.executed", "job.failed", "job.retryExhausted",
     "job.terminated", "debounce.started", "debounce.flushed", "task.scheduled"}

=============================================================================
