---------------------------- MODULE ContinuousJob ----------------------------
(***************************************************************************)
(* The handler of continuous jobs                                          *)
(* (packages/jobs/src/handlers/continuous/handler.ts): a function run at   *)
(* an interval, each run scheduling the next.                              *)
(***************************************************************************)
EXTENDS JobExecution

Continuous == def \in registry["continuous"]

incrementRunCount == Put("count", Increment(Count))

updateLastExecutedAt == Put("other", TRUE)

scheduleNext == schedule(def.interval)

-----------------------------------------------------------------------------
(* start: the input becomes the state, unless the job exists.              *)
StartExisting(h) ==
    /\ Receive(h) /\ store.meta # Absent
    /\ Begin(h, [Idle EXCEPT !.op = "start", !.found = TRUE, !.pc = "return"])
    /\ UNCHANGED hist

StartNew(h) ==
    /\ Receive(h) /\ store.meta = Absent
    /\ Begin(h, [Idle EXCEPT !.op = "start", !.created = TRUE,
                             !.pc = "started",
                             !.todo = initialize \o emitEvent("job.started")
                                        \o Put("state", {}) \o Put("count", 0)
                                        \o updateStatus("running")])
    /\ UNCHANGED hist

(* The job exists: its first run, or the alarm for it. *)
FirstRun(h) ==
    /\ At(h, "started")
    /\ hs' = IF def.startImmediately
             THEN Segment(h, "execute", incrementRunCount)
             ELSE Segment(h, "return", scheduleNext)
    /\ UNCHANGED hist
    /\ Keep

(* trigger: a run now, with its retries from the first again.              *)
TriggerNothing(h) ==
    /\ Receive(h) /\ store.meta = Absent
    /\ Begin(h, [Idle EXCEPT !.op = "trigger", !.pc = "return"])
    /\ UNCHANGED hist

Trigger(h) ==
    /\ Receive(h) /\ store.meta # Absent
    /\ Begin(h, [Idle EXCEPT !.op = "trigger", !.found = TRUE, !.pc = "execute",
                             !.todo = Soften(reset) \o incrementRunCount])
    /\ UNCHANGED hist

(* terminate: the alarm is cancelled and everything deleted.               *)
TerminateNothing(h) ==
    /\ Receive(h) /\ store.meta = Absent
    /\ Begin(h, [Idle EXCEPT !.op = "terminate", !.pc = "return"])
    /\ UNCHANGED hist

Terminate(h) ==
    /\ Receive(h) /\ store.meta # Absent
    /\ Begin(h, [Idle EXCEPT !.op = "terminate", !.found = TRUE, !.pc = "return",
                             !.todo = emitEvent("job.terminated") \o purge])
    /\ hist' = Discard(Contents)

(* The alarm: the next run, or the next attempt of one that failed. *)
ContinuousAlarm ==
    /\ Continuous /\ Fire /\ store.meta # Absent
    /\ Begin("alarm", [Idle EXCEPT !.op = "alarm", !.pc = "execute",
                         !.todo = IF Attempt > 1 THEN <<>>
                                  ELSE incrementRunCount])
    /\ UNCHANGED hist

-----------------------------------------------------------------------------
(* Mutant: a handler that does not look at the result. *)
ScheduleNextRun_EvenTerminated(h) ==
    /\ Continuous /\ At(h, "result")
    /\ hs[h].result \in {"success", "terminated"}
    /\ h = "alarm" => store.meta = "running"
    /\ hs' = Segment(h, "return", updateLastExecutedAt \o scheduleNext)
    /\ UNCHANGED hist
    /\ Keep

(* Mutant: only a request schedules the next run. *)
ScheduleNextRun_NotByAlarm(h) ==
    /\ Continuous /\ At(h, "result")
    /\ hs[h].result = "success"
    /\ hs' = Segment(h, "return", updateLastExecutedAt
                                  \o (IF h = "alarm" THEN <<>> ELSE scheduleNext))
    /\ UNCHANGED hist
    /\ Keep

(* The run is over: the next one is scheduled, except by an alarm handler  *)
(* that finds the job gone.                                                *)
ScheduleNextRun(h) ==
    /\ Continuous /\ At(h, "result")
    /\ hs[h].result = "success"
    /\ h = "alarm" => store.meta = "running"
    /\ hs' = Segment(h, "return", updateLastExecutedAt \o scheduleNext)
    /\ UNCHANGED hist
    /\ Keep

(* A retry is scheduled, or the job is terminated. *)
ScheduleNothing(h) ==
    /\ Continuous /\ At(h, "result")
    /\ \/ hs[h].result \in {"retryScheduled", "terminated"}
       \/ h = "alarm" /\ store.meta # "running"
    /\ hs' = Segment(h, "return", <<>>)
    /\ UNCHANGED hist
    /\ Keep

-----------------------------------------------------------------------------
(* status and getState answer from what is stored; nextRunAt is the alarm. *)
continuousRead(action) ==
    LET found == store.meta # Absent
    IN  CASE action = "status" ->
               [type |-> "continuous", action |-> action,
                status |-> IF found THEN store.meta ELSE "not_found",
                nextRunAt |-> IF found THEN alarm ELSE Absent,
                runCount |-> IF found THEN Count ELSE Absent]
          [] action = "getState" ->
               [type |-> "continuous", action |-> action, state |-> store.state]

continuousResponse(h) ==
    LET op == hs[h].op
        ended == hs[h].result = "terminated"
    IN  CASE op = "start" ->
               [type |-> "continuous", action |-> op, created |-> hs[h].created,
                status |-> IF ended THEN "terminated"
                           ELSE IF hs[h].created THEN "running" ELSE store.meta]
          [] op = "terminate" ->
               [type |-> "continuous", action |-> op, terminated |-> hs[h].found]
          [] op = "trigger" ->
               [type |-> "continuous", action |-> op, triggered |-> hs[h].found,
                terminated |-> ended,
                retryScheduled |-> hs[h].result = "retryScheduled"]

handleContinuous(h, action) ==
    \/ action = "start" /\ (StartExisting(h) \/ StartNew(h))
    \/ action = "trigger" /\ (TriggerNothing(h) \/ Trigger(h))
    \/ action = "terminate" /\ (TerminateNothing(h) \/ Terminate(h))

ContinuousStep(h) == FirstRun(h) \/ ScheduleNextRun(h) \/ ScheduleNothing(h)

=============================================================================
