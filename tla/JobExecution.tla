---------------------------- MODULE JobExecution ----------------------------
(***************************************************************************)
(* The execution service with its retry executor and clean-up              *)
(* (packages/jobs/src/services/execution.ts, retry/executor.ts): how the   *)
(* user's function is run, and what becomes of its outcome.  A handler     *)
(* goes to "execute" and finds the result when it is at "result".          *)
(***************************************************************************)
EXTENDS JobStore

Retries == def.retry.maxAttempts > 0          \* retryConfig is given

(* Mutant: the attempt survives. *)
reset_AgeOnly == Delete("age")

(* ATTEMPT, STARTED_AT; LAST_ERROR and SCHEDULED_AT, which nothing reads,  *)
(* are written and deleted along with them.                                *)
reset == Delete("attempt") \o Delete("age")

(* maxDuration has passed since the first attempt. *)
Expired ==
    IF Retries /\ Attempt > 1 /\ store.age # Absent
    THEN store.age >= def.retry.maxDuration ELSE FALSE

ExecutionResult(h, r, ws) ==
    [hs EXCEPT ![h].pc = "result", ![h].result = r, ![h].todo = ws,
               ![h].seen = Absent, ![h].attempt = 0, ![h].plan = "none"]

(* Mutant: what is stored is left. *)
terminate_AlarmOnly == Soften(cancel)

(* CleanupService.terminate; execute ignores its failure. *)
terminate == Soften(purge)

(* The state is loaded now and saved after the function has returned. *)
Execute(h) ==
    /\ At(h, "execute")
    /\ store.state # Absent \/ def.type = "task"        \* allowNullState
    /\ ~Expired
    /\ hs' = [hs EXCEPT ![h].pc = "run",
                        ![h].seen = store.state, ![h].attempt = Attempt,
                        ![h].todo = IF Retries /\ Attempt = 1
                                    THEN Put("age", 0) ELSE <<>>]
    /\ UNCHANGED hist
    /\ Keep

(* There is no state: the job is taken to be terminated. *)
ExecuteNothing(h) ==
    /\ At(h, "execute")
    /\ store.state = Absent /\ def.type # "task"
    /\ hs' = ExecutionResult(h, "terminated", <<>>)
    /\ UNCHANGED hist
    /\ Keep

Exhausted(h) ==
    ExecutionResult(h, "terminated",
                    reset \o emitEvent("job.retryExhausted") \o terminate)

Discard(ids) == [hist EXCEPT !.settled = @ \union ids]

Seen(h) == IF hs[h].seen = Absent THEN {} ELSE hs[h].seen

ExecuteTooLate(h) ==
    /\ At(h, "execute")
    /\ store.state # Absent \/ def.type = "task"
    /\ Expired
    /\ hs' = Exhausted(h)
    /\ hist' = Discard(Contents)
    /\ Keep

-----------------------------------------------------------------------------
(* The user's function returns. *)

(* What it has taken in: something new, or nothing once the ids are used   *)
(* up; it then leaves the state alone.                                     *)
NewId == IF hist.issued < MaxIds THEN hist.issued + 1 ELSE 0

Issue == [hist EXCEPT !.issued = IF NewId = 0 THEN @ ELSE NewId]

(* The state with what handler h took in, when h has changed it. *)
Save(h, id) ==
    IF id = 0 THEN <<>> ELSE Put("state", Seen(h) \union {id})

Succeeded(h, id) ==
    (IF Retries THEN reset ELSE <<>>) \o emitEvent("job.executed") \o Save(h, id)

RunSucceeds(h) ==
    /\ At(h, "run") /\ def.type = "continuous"
    /\ hs' = [ExecutionResult(h, "success", Succeeded(h, NewId))
                EXCEPT ![h].id = NewId]
    /\ hist' = Issue
    /\ Keep

(* A flush settles the events it saw; its function cannot set the state. *)
FlushSucceeds(h) ==
    /\ At(h, "run") /\ def.type = "debounce"
    /\ hs' = ExecutionResult(h, "success", Succeeded(h, 0))
    /\ hist' = [hist EXCEPT !.settled = @ \union Seen(h),
                            !.repeated = @ \/ (~hs[h].shared /\
                                           Seen(h) \intersect hist.settled # {})]
    /\ Keep

CanRetry(h) == hs[h].attempt < def.retry.maxAttempts

(* Mutant: the attempt is counted, the alarm for it is not set. *)
ScheduleRetry_NoAlarm(h, delay) ==
    Put("attempt", hs[h].attempt + 1) \o emitEvent("job.failed")

ScheduleRetry(h, delay) ==
    Put("attempt", hs[h].attempt + 1) \o schedule(delay) \o emitEvent("job.failed")

(* resumeAt counts from the start of the attempt, so that what is left of  *)
(* the jittered delay when it fails may be anything up to all of it.       *)
RetryDelays(h) ==
    UNION {0 .. d : d \in addJitter(resolveDelay(def.retry.delay, hs[h].attempt))}

(* The function fails: it is tried again, or the job is given up, or there *)
(* is no retry and the handler fails with it.                              *)
RunFails(h) ==
    /\ At(h, "run")
    /\ budget.failures < MaxFailures
    /\ budget' = [budget EXCEPT !.failures = @ + 1]
    /\ \/ /\ Retries /\ CanRetry(h)
          /\ \E delay \in RetryDelays(h) :
               hs' = ExecutionResult(h, "retryScheduled", ScheduleRetry(h, delay))
          /\ UNCHANGED hist
       \/ /\ Retries /\ ~CanRetry(h)
          /\ hs' = Exhausted(h)
          /\ hist' = Discard(Seen(h))
       \/ /\ ~Retries
          /\ hs' = Segment(h, "fail", emitEvent("job.failed"))
          /\ UNCHANGED hist
    /\ UNCHANGED <<def, store, alarm>>

(* ctx.terminate(), of a task in onIdle as well: a debounce has none.  *)
RunTerminates(h) ==
    /\ At(h, "run") \/ At(h, "idling")
    /\ def.type # "debounce"
    /\ hs' = ExecutionResult(h, "terminated", terminate)
    /\ hist' = Discard(Seen(h) \union ({hs[h].id} \ {0}))
    /\ Keep

Execution(h) ==
    \/ Execute(h) \/ ExecuteNothing(h) \/ ExecuteTooLate(h)
    \/ RunSucceeds(h) \/ FlushSucceeds(h) \/ RunFails(h) \/ RunTerminates(h)

=============================================================================
