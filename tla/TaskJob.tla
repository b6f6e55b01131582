------------------------------ MODULE TaskJob ------------------------------
(***************************************************************************)
(* The handler of task jobs (packages/jobs/src/handlers/task): events and  *)
(* the alarm run the user's functions, which decide on the alarm           *)
(* themselves.  What they decide is a plan, kept in memory until the       *)
(* function has returned.  A function that fails and whose onError handles *)
(* the failure returns.                                                    *)
(***************************************************************************)
EXTENDS JobExecution

Task == def \in registry["task"]

incrementEventCount(n) == Put("count", Increment(n))

incrementExecuteCount == Put("other", TRUE)

(* send: the first event creates the task. *)
Send(h, valid) ==
    /\ Receive(h)
    /\ LET created == store.meta = Absent
       IN  Begin(h, [Idle EXCEPT !.op = "send", !.created = created,
                       !.pc = IF valid THEN "execute" ELSE "fail",
                       !.todo = IF created
                                THEN initialize \o updateStatus("running")
                                       \o Put("other", TRUE) \o Put("count", 0)
                                       \o incrementEventCount(0)
                                ELSE incrementEventCount(Count)])
    /\ UNCHANGED hist

(* trigger, and the alarm: the function that is executed. *)
TaskTrigger(h) ==
    /\ Receive(h) /\ store.meta # Absent
    /\ Begin(h, [Idle EXCEPT !.op = "trigger", !.found = TRUE, !.pc = "execute",
                             !.todo = incrementExecuteCount])
    /\ UNCHANGED hist

TaskAlarm ==
    /\ Task /\ Fire /\ store.meta # Absent
    /\ Begin("alarm", [Idle EXCEPT !.op = "alarm", !.pc = "execute",
                                   !.todo = incrementExecuteCount])
    /\ UNCHANGED hist

TaskTerminate(h) ==
    /\ Receive(h) /\ store.meta # Absent
    /\ Begin(h, [Idle EXCEPT !.op = "terminate", !.found = TRUE, !.pc = "return",
                             !.todo = purge])
    /\ hist' = Discard(Contents)

(* trigger and terminate of a task that does not exist. *)
TaskNothing(h, action) ==
    /\ Receive(h) /\ store.meta = Absent
    /\ Begin(h, [Idle EXCEPT !.op = action, !.pc = "return"])
    /\ UNCHANGED hist

-----------------------------------------------------------------------------
Plans == {"none", "cancel", "schedule"}

(* Mutant: the schedule is not recorded. *)
applyScheduleChanges_Unrecorded(plan) ==
    CASE plan = "none"     -> <<>>
      [] plan = "cancel"   -> cancel \o Delete("scheduledAt")
      [] plan = "schedule" -> schedule(def.interval) \o emitEvent("task.scheduled")

applyScheduleChanges(plan) ==
    CASE plan = "none"     -> <<>>
      [] plan = "cancel"   -> cancel \o Delete("scheduledAt")
      [] plan = "schedule" -> schedule(def.interval)
                                \o Put("scheduledAt", TRUE)
                                \o emitEvent("task.scheduled")

(* onEvent or execute has returned. *)
TaskReturns(h) ==
    /\ At(h, "run") /\ Task
    /\ \E plan \in Plans :
         hs' = [hs EXCEPT ![h].pc = "settle", ![h].id = NewId, ![h].plan = plan,
                          ![h].todo = applyScheduleChanges(plan)]
    /\ hist' = Issue
    /\ Keep

(* Mutant: only this function's plan counts. *)
Unscheduled_NoPlan(h) == hs[h].plan # "schedule"

(* Nothing is scheduled: what this function planned, or else what is       *)
(* stored, says so.                                                        *)
Unscheduled(h) ==
    \/ hs[h].plan = "cancel"
    \/ hs[h].plan = "none" /\ store.scheduledAt = Absent

GoIdle(h) ==
    /\ At(h, "settle") /\ def.onIdle /\ Unscheduled(h)
    /\ hs' = [hs EXCEPT ![h].pc = "idling"]
    /\ UNCHANGED hist
    /\ Keep

StayBusy(h) ==
    /\ At(h, "settle") /\ ~(def.onIdle /\ Unscheduled(h))
    /\ hs' = ExecutionResult(h, "success", Succeeded(h, hs[h].id))
    /\ UNCHANGED hist
    /\ Keep

(* onIdle has returned; it may schedule as well. *)
IdleReturns(h) ==
    /\ At(h, "idling")
    /\ \E plan \in Plans :
         hs' = ExecutionResult(h, "success",
                 applyScheduleChanges(plan) \o Succeeded(h, hs[h].id))
    /\ UNCHANGED hist
    /\ Keep

TaskEnds(h) ==
    /\ Task /\ At(h, "result")
    /\ hs' = Segment(h, "return", <<>>)
    /\ UNCHANGED hist
    /\ Keep

(* status and getState answer from what is stored, where there is          *)
(* metadata.  Neither looks at the alarm.                                  *)
taskRead(action) ==
    LET found == store.meta # Absent
        scheduledAt == IF found THEN store.scheduledAt ELSE Absent
    IN  CASE action = "status" ->
               [type |-> "task", action |-> action,
                status |-> IF ~found THEN "not_found"
                           ELSE IF scheduledAt # Absent THEN "active" ELSE "idle",
                scheduledAt |-> scheduledAt,
                eventCount |-> IF found THEN Count ELSE Absent]
          [] action = "getState" ->
               [type |-> "task", action |-> action,
                state |-> IF found THEN store.state ELSE Absent,
                scheduledAt |-> scheduledAt]

taskResponse(h) ==
    LET op == hs[h].op
    IN  CASE op = "send" ->
               [type |-> "task", action |-> op, created |-> hs[h].created,
                scheduledAt |-> store.scheduledAt]
          [] op = "trigger" ->
               [type |-> "task", action |-> op, triggered |-> hs[h].found]
          [] op = "terminate" ->
               [type |-> "task", action |-> op, terminated |-> hs[h].found]

handleTask(h, action) ==
    \/ action = "send" /\ \E valid \in BOOLEAN : Send(h, valid)
    \/ action = "trigger" /\ (TaskTrigger(h) \/ TaskNothing(h, action))
    \/ action = "terminate" /\ (TaskTerminate(h) \/ TaskNothing(h, action))

TaskStep(h) ==
    TaskReturns(h) \/ GoIdle(h) \/ StayBusy(h) \/ IdleReturns(h) \/ TaskEnds(h)

=============================================================================
