--------------------------- MODULE WorkflowEngine ---------------------------
(***************************************************************************)
(* One durable workflow instance (packages/workflow): the Durable Object   *)
(* that stores its state, the single alarm it owns, the handlers that run  *)
(* in it (run/runAsync, alarm, cancel) and the workflow program they       *)
(* execute, replaying it from the start on every resume.                   *)
(*                                                                         *)
(* Every write to storage is a step of its own, so a crash may fall        *)
(* between any two of them.  While a handler waits for storage the object  *)
(* delivers no other event; it may when the handler waits for the user's   *)
(* step or for the tracker's HTTP request ("Yielding").  Time is a clock   *)
(* in milliseconds scaled to small numbers.                                *)
(***************************************************************************)
EXTENDS Integers, Sequences, WorkflowTransitions

CONSTANTS
    Program,                \* the operations of the workflow body, in order
    staleThresholdMs, recoveryDelayMs, maxRecoveryAttempts,
    purgeDelayMs,           \* NoTime when the purge option is not given
    MaxTime, MaxEffect, MaxLate,        \* bounds: clock, a step's duration,
                                        \* lateness of an alarm
    MaxRuns, MaxCrashes, MaxEvictions   \* bounds: requests and failures

NoTime == -1                            \* undefined: a time, a limit

Time == Nat \union {NoTime}

(* A step has a retry delay, and optionally retry and timeout limits; a    *)
(* sleep has a duration, a sleepUntil a timestamp.                         *)
Operation == [kind : {"step", "sleep", "sleepUntil"},
              ms : Nat,
              maxAttempts : Time, maxDuration : Time, timeout : Time]

ASSUME ProgramAssumption == Program \in Seq(Operation)

ASSUME ConfigAssumption ==
    /\ staleThresholdMs \in Nat /\ recoveryDelayMs \in Nat
    /\ maxRecoveryAttempts \in Nat \ {0}
    /\ purgeDelayMs \in Time
    /\ MaxTime \in Nat /\ MaxEffect \in Nat /\ MaxLate \in Nat
    /\ MaxRuns \in Nat /\ MaxCrashes \in Nat /\ MaxEvictions \in Nat

Ops == 1 .. Len(Program)
Steps == {i \in Ops : Program[i].kind = "step"}
Sleeps == {i \in Ops : Program[i].kind = "sleep"}

Executors == {"run", "alarm"}           \* the handlers that execute a program
Handlers == Executors \union {"cancel"}

VARIABLES
    wf,         \* the "workflow:*" keys of storage
    steps,      \* the "step:*" keys of storage
    alarm,      \* the object's alarm
    up,         \* an instance of the object is in memory
    hs,         \* its handlers in flight: where each is, and its registers
    now,
    budget,     \* requests, crashes and evictions so far
    hist        \* history, read by properties only: when each sleep was
                \* first begun, when each step's next attempt is due,
                \* how often the workflow was recovered

vars == <<wf, steps, alarm, up, hs, now, budget, hist>>

-----------------------------------------------------------------------------
(* Storage. *)

EmptyStorage ==
    [status |-> NoWorkflow, runningAt |-> NoTime, cancelled |-> FALSE,
     completedSteps |-> {}, completedPauseIndex |-> 0, currentPauseIndex |-> 0,
     pendingResumeAt |-> NoTime, recoveryAttempts |-> 0, purgeAt |-> NoTime]

EmptySteps ==
    [i \in Ops |-> [result |-> FALSE, attempt |-> 1, startedAt |-> NoTime]]

NoHistory ==
    [begun |-> [i \in Ops |-> NoTime], due |-> [i \in Ops |-> NoTime],
     recoveries |-> 0]

(* The storage after a transition was applied to the workflow's status. *)
WithStatus(t) ==
    LET s == applyTransitionToStatus(t)
    IN  [wf EXCEPT !.status = s,
                   !.runningAt = IF s = "Running" THEN now ELSE NoTime]

-----------------------------------------------------------------------------
(* Handlers. *)

IdleHandler ==
    [pc |-> "idle", op |-> 0, at |-> NoTime, exit |-> "none", resumeAt |-> NoTime]

(* Mutant: an event emitted between the reading of a status and the write. *)
Yielding_InCancel ==
    {"idle", "queued", "begin", "next", "effect", "exit", "pausing", "cleanup",
     "cancelling", "cancelled"}

(* Where a handler waits for something else than storage: the user's step, *)
(* or a tracker that sends its batch because the event just emitted fills  *)
(* it (workflow.queued, started, resumed, step.completed, step.failed,     *)
(* retry.scheduled, sleep.started, workflow.completed, cancelled ...).     *)
Yielding ==
    {"idle", "queued", "begin", "next", "effect", "exit", "pausing", "cleanup",
     "cancelled"}

Turn(h) == up /\ \A o \in Handlers \ {h} : hs[o].pc \in Yielding

At(h, p) == hs[h].pc = p /\ Turn(h)

Goto(h, p) == hs' = [hs EXCEPT ![h].pc = p]

Return(h) == hs' = [hs EXCEPT ![h] = IdleHandler]

(* Go on with the next operation of the program. *)
Advance(h) == hs' = [hs EXCEPT ![h].pc = "next", ![h].op = @ + 1]

(* Leave the program: the transition its exit is mapped to. *)
Exit(h, t) == hs' = [hs EXCEPT ![h].pc = "exit", ![h].exit = t]

(* Leave the program with a PauseSignal. *)
PauseUntil(h, t) == hs' = [hs EXCEPT ![h].pc = "pausing", ![h].resumeAt = t]

Init ==
    /\ wf = EmptyStorage
    /\ steps = EmptySteps
    /\ alarm = NoTime
    /\ up = FALSE
    /\ hs = [h \in Handlers |-> IdleHandler]
    /\ now = 1
    /\ budget = [runs |-> 0, crashes |-> 0, evictions |-> 0]
    /\ hist = NoHistory

storage == <<wf, steps, alarm>>
env == <<up, now, budget, hist>>

-----------------------------------------------------------------------------
(* run and runAsync: start or queue, unless the workflow exists already.   *)

(* Mutant: no check for an existing workflow. *)
Initialize_Unchecked(p) ==
    /\ At("run", "idle")
    /\ budget.runs < MaxRuns
    /\ wf' = [wf EXCEPT !.status = "Pending", !.completedSteps = {},
                        !.completedPauseIndex = 0, !.recoveryAttempts = 0,
                        !.cancelled = FALSE]
    /\ Goto("run", p)
    /\ budget' = [budget EXCEPT !.runs = @ + 1]
    /\ UNCHANGED <<steps, alarm, up, now, hist>>

Initialize(p) ==
    /\ At("run", "idle")
    /\ wf.status = NoWorkflow
    /\ budget.runs < MaxRuns
    /\ wf' = [wf EXCEPT !.status = "Pending", !.completedSteps = {},
                        !.completedPauseIndex = 0, !.recoveryAttempts = 0,
                        !.cancelled = FALSE]
    /\ Goto("run", p)
    /\ budget' = [budget EXCEPT !.runs = @ + 1]
    /\ UNCHANGED <<steps, alarm, up, now, hist>>

Run == Initialize("start")
RunAsync == Initialize("queue")

(* Apply a transition and go on at p. *)
Transit(h, t, p) ==
    /\ canTransition(wf.status, t)
    /\ wf' = WithStatus(t)
    /\ IF p = "idle" THEN Return(h) ELSE Goto(h, p)
    /\ UNCHANGED <<steps, alarm, env>>

Start == At("run", "start") /\ Transit("run", "Start", "begin")

Queue == At("run", "queue") /\ Transit("run", "Queue", "queued")

ScheduleQueued ==
    /\ At("run", "queued")
    /\ alarm' = now + 1
    /\ Return("run")
    /\ UNCHANGED <<wf, steps, env>>

-----------------------------------------------------------------------------
(* The executor replays the program. *)

BeginExecution(h) ==
    /\ At(h, "begin")
    /\ wf' = [wf EXCEPT !.currentPauseIndex = 0]
    /\ hs' = [hs EXCEPT ![h].pc = "next", ![h].op = 1]
    /\ UNCHANGED <<steps, alarm, env>>

(* Handler h has reached operation i of the program, of the given kind. *)
Reaches(h, i, kind) == At(h, "next") /\ hs[h].op = i /\ Program[i].kind = kind

Fresh(h, i) == Reaches(h, i, "step") /\ ~wf.cancelled /\ ~steps[i].result

Deadline(i) ==
    Program[i].timeout + (IF steps[i].startedAt = NoTime THEN now
                                                        ELSE steps[i].startedAt)

TimedOut(i) == Program[i].timeout # NoTime /\ Deadline(i) <= now

RetriesExhausted(i) ==
    /\ Program[i].maxAttempts # NoTime
    /\ \/ /\ Program[i].maxDuration # NoTime
          /\ steps[i].startedAt # NoTime
          /\ now - steps[i].startedAt >= Program[i].maxDuration
       \/ steps[i].attempt > Program[i].maxAttempts + 1

MarkStarted(i) ==
    steps' = [steps EXCEPT ![i].startedAt = IF @ = NoTime THEN now ELSE @]

StepCancelled(h, i) ==
    /\ Reaches(h, i, "step")
    /\ wf.cancelled
    /\ Exit(h, "Cancel")
    /\ UNCHANGED <<storage, env>>

StepCached(h, i) ==
    /\ Reaches(h, i, "step")
    /\ ~wf.cancelled
    /\ steps[i].result
    /\ Advance(h)
    /\ UNCHANGED <<storage, env>>

StepGivenUp(h, i) ==
    /\ Fresh(h, i)
    /\ RetriesExhausted(i) \/ TimedOut(i)
    /\ MarkStarted(i)
    /\ Exit(h, "Fail")
    /\ UNCHANGED <<wf, alarm, env>>

StepBegins(h, i) ==
    /\ Fresh(h, i)
    /\ ~RetriesExhausted(i) /\ ~TimedOut(i)
    /\ MarkStarted(i)
    /\ hs' = [hs EXCEPT ![h].pc = "effect", ![h].at = now]
    /\ UNCHANGED <<wf, alarm, env>>

(* Mutant: the result is returned but not stored. *)
EffectSucceeds_NotStored(h, i) ==
    /\ At(h, "effect") /\ hs[h].op = i
    /\ hs' = [hs EXCEPT ![h].pc = "mark", ![h].at = NoTime]
    /\ UNCHANGED <<storage, env>>

(* The user's effect: it succeeds, by its deadline if it has one ... *)
EffectSucceeds(h, i) ==
    /\ At(h, "effect") /\ hs[h].op = i
    /\ Program[i].timeout # NoTime => now <= steps[i].startedAt + Program[i].timeout
    /\ steps' = [steps EXCEPT ![i].result = TRUE]
    /\ hs' = [hs EXCEPT ![h].pc = "mark", ![h].at = NoTime]
    /\ UNCHANGED <<wf, alarm, env>>

(* ... or it fails (or is interrupted by its timeout) for good: there is   *)
(* no retry, the error is not retryable or the attempts are used up ...    *)
EffectFails(h, i) ==
    /\ At(h, "effect") /\ hs[h].op = i
    /\ hs' = [hs EXCEPT ![h].pc = "exit", ![h].exit = "Fail", ![h].at = NoTime]
    /\ UNCHANGED <<storage, env>>

(* ... or it fails with an attempt left, which is scheduled.  The delay    *)
(* counts from the beginning of the attempt that failed.                   *)
EffectRetries(h, i) ==
    /\ At(h, "effect") /\ hs[h].op = i
    /\ Program[i].maxAttempts # NoTime
    /\ steps[i].attempt <= Program[i].maxAttempts
    /\ steps' = [steps EXCEPT ![i].attempt = @ + 1]
    /\ hs' = [hs EXCEPT ![h].pc = "pausing", ![h].at = NoTime,
                        ![h].resumeAt = hs[h].at + Program[i].ms]
    /\ hist' = [hist EXCEPT !.due[i] = hs[h].at + Program[i].ms]
    /\ UNCHANGED <<wf, alarm, up, now, budget>>

(* Mutant: the list of completed steps is replaced, not extended. *)
markStepCompleted_Replaces(h, i) ==
    /\ At(h, "mark") /\ hs[h].op = i
    /\ wf' = [wf EXCEPT !.completedSteps = {i}]
    /\ Advance(h)
    /\ UNCHANGED <<steps, alarm, env>>

markStepCompleted(h, i) ==
    /\ At(h, "mark") /\ hs[h].op = i
    /\ wf' = [wf EXCEPT !.completedSteps = @ \union {i}]
    /\ Advance(h)
    /\ UNCHANGED <<steps, alarm, env>>

-----------------------------------------------------------------------------
(* sleep and sleepUntil: the pause points of the program are numbered in   *)
(* the order a replay meets them.                                          *)

pauseIndex == wf.currentPauseIndex + 1

(* Mutant: off by one, the pause after the last completed one is skipped. *)
shouldExecutePause_OffByOne == pauseIndex > wf.completedPauseIndex + 1

shouldExecutePause == pauseIndex > wf.completedPauseIndex

(* Mutant: the wake-up time itself does not count as passed. *)
ResumeTimePassed_Strict == wf.pendingResumeAt # NoTime /\ now > wf.pendingResumeAt

ResumeTimePassed == wf.pendingResumeAt # NoTime /\ now >= wf.pendingResumeAt

PausePoint(h, i) == \E k \in {"sleep", "sleepUntil"} : Reaches(h, i, k)

PauseSkipped(h, i) ==
    /\ PausePoint(h, i)
    /\ ~shouldExecutePause
    /\ wf' = [wf EXCEPT !.currentPauseIndex = pauseIndex]
    /\ Advance(h)
    /\ UNCHANGED <<steps, alarm, env>>

(* The wake-up time has passed: record the pause as completed, then forget *)
(* the time.                                                               *)
PauseOver(h, i) ==
    /\ PausePoint(h, i)
    /\ shouldExecutePause /\ ResumeTimePassed
    /\ wf' = [wf EXCEPT !.currentPauseIndex = pauseIndex,
                        !.completedPauseIndex = pauseIndex]
    /\ Goto(h, "slept")
    /\ UNCHANGED <<steps, alarm, env>>

clearPendingResumeAt(h) ==
    /\ At(h, "slept")
    /\ wf' = [wf EXCEPT !.pendingResumeAt = NoTime]
    /\ Advance(h)
    /\ UNCHANGED <<steps, alarm, env>>

SleepBegins(h, i) ==
    /\ Reaches(h, i, "sleep")
    /\ shouldExecutePause /\ ~ResumeTimePassed
    /\ wf' = [wf EXCEPT !.currentPauseIndex = pauseIndex,
                        !.pendingResumeAt = now + Program[i].ms]
    /\ PauseUntil(h, now + Program[i].ms)
    /\ hist' = [hist EXCEPT !.begun[i] = IF @ = NoTime THEN now ELSE @]
    /\ UNCHANGED <<steps, alarm, up, now, budget>>

SleepUntilBegins(h, i) ==
    /\ Reaches(h, i, "sleepUntil")
    /\ shouldExecutePause /\ ~ResumeTimePassed
    /\ Program[i].ms > now
    /\ wf' = [wf EXCEPT !.currentPauseIndex = pauseIndex,
                        !.pendingResumeAt = Program[i].ms]
    /\ PauseUntil(h, Program[i].ms)
    /\ UNCHANGED <<steps, alarm, env>>

(* A timestamp in the past: no pause, and no trace of this pause point. *)
SleepUntilPast(h, i) ==
    /\ Reaches(h, i, "sleepUntil")
    /\ shouldExecutePause /\ ~ResumeTimePassed
    /\ Program[i].ms <= now
    /\ wf' = [wf EXCEPT !.currentPauseIndex = pauseIndex]
    /\ Advance(h)
    /\ UNCHANGED <<steps, alarm, env>>

-----------------------------------------------------------------------------
(* The end of an execution.  A pause sets the alarm before the status;     *)
(* every other exit is a terminal status, then the alarm is cancelled and  *)
(* the purge scheduled.                                                    *)

ProgramEnds(h) ==
    /\ At(h, "next")
    /\ hs[h].op = Len(Program) + 1
    /\ Exit(h, "Complete")
    /\ UNCHANGED <<storage, env>>

(* Mutant: the status is stored before the alarm is set. *)
PauseAlarm_StatusFirst(h) ==
    /\ At(h, "pausing")
    /\ \/ /\ wf.status = "Running"
          /\ wf' = WithStatus("Pause")
          /\ UNCHANGED <<alarm, hs>>
       \/ /\ wf.status = "Paused"
          /\ alarm' = hs[h].resumeAt
          /\ Return(h)
          /\ UNCHANGED wf
    /\ UNCHANGED <<steps, env>>

PauseAlarm(h) ==
    /\ At(h, "pausing")
    /\ alarm' = hs[h].resumeAt
    /\ Goto(h, "pause")
    /\ UNCHANGED <<wf, steps, env>>

Pause(h) == At(h, "pause") /\ Transit(h, "Pause", "idle")

Finish(h) == At(h, "exit") /\ Transit(h, hs[h].exit, "cleanup")

CancelAlarm(h) ==
    /\ At(h, "cleanup")
    /\ alarm' = NoTime
    /\ IF purgeDelayMs = NoTime THEN Return(h) ELSE Goto(h, "purge")
    /\ UNCHANGED <<wf, steps, env>>

schedulePurge(h) ==
    /\ At(h, "purge")
    /\ wf' = [wf EXCEPT !.purgeAt = now + purgeDelayMs]
    /\ Goto(h, "purgeAlarm")
    /\ UNCHANGED <<steps, alarm, env>>

(* Mutant: the alarm is cancelled after the purge was scheduled. *)
PurgeAlarm_Cancelled(h) ==
    /\ At(h, "purgeAlarm")
    /\ alarm' = NoTime
    /\ Return(h)
    /\ UNCHANGED <<wf, steps, env>>

PurgeAlarm(h) ==
    /\ At(h, "purgeAlarm")
    /\ alarm' = wf.purgeAt
    /\ Return(h)
    /\ UNCHANGED <<wf, steps, env>>

-----------------------------------------------------------------------------
(* The constructor: check for an interrupted workflow and, unless the      *)
(* attempts are used up, move the alarm.                                   *)

(* Mutant: an interrupted Running workflow is not recognised. *)
checkRecoverability_PausedOnly ==
    wf.status = "Paused" /\ wf.pendingResumeAt # NoTime

(* Mutant: a workflow paused for a retry is taken for an interrupted one. *)
checkRecoverability_AnyPaused ==
    \/ wf.status = "Running" /\ now - wf.runningAt >= staleThresholdMs
    \/ wf.status = "Paused"

checkRecoverability ==
    \/ wf.status = "Running" /\ now - wf.runningAt >= staleThresholdMs
    \/ wf.status = "Paused" /\ wf.pendingResumeAt # NoTime

maxExceeded == wf.recoveryAttempts >= maxRecoveryAttempts

RecoveryScheduled == checkRecoverability /\ ~maxExceeded

(* A request (run, cancel, getStatus, ...) instantiates the object. *)
Construct ==
    /\ ~up
    /\ up' = TRUE
    /\ alarm' = IF RecoveryScheduled THEN now + recoveryDelayMs ELSE alarm
    /\ UNCHANGED <<wf, steps, hs, now, budget, hist>>

AlarmDue == alarm # NoTime /\ alarm <= now

(* The platform consumes a due alarm and calls alarm(). *)
DeliverAlarm ==
    /\ At("alarm", "idle")
    /\ AlarmDue
    /\ alarm' = NoTime
    /\ Goto("alarm", "alarm")
    /\ UNCHANGED <<wf, steps, env>>

(* A due alarm instantiates the object first.  When the constructor moves  *)
(* the alarm, the delivery in progress is either dropped in favour of the  *)
(* new time or goes on, and the new time stays set.                        *)
WakeByAlarm ==
    /\ ~up
    /\ AlarmDue
    /\ up' = TRUE
    /\ \/ /\ RecoveryScheduled
          /\ alarm' = now + recoveryDelayMs
          /\ UNCHANGED hs
       \/ /\ alarm' = IF RecoveryScheduled THEN now + recoveryDelayMs ELSE NoTime
          /\ Goto("alarm", "alarm")
    /\ UNCHANGED <<wf, steps, now, budget, hist>>

-----------------------------------------------------------------------------
(* alarm(): the purge if it is due, else handleAlarm. *)

(* Mutant: the purge time itself is not due. *)
PurgeDue_Strict == wf.purgeAt # NoTime /\ now > wf.purgeAt

PurgeDue == wf.purgeAt # NoTime /\ now >= wf.purgeAt

(* Mutant: the step keys survive the purge. *)
executePurge_WorkflowKeys ==
    /\ At("alarm", "alarm")
    /\ PurgeDue
    /\ wf' = EmptyStorage
    /\ hist' = NoHistory
    /\ Return("alarm")
    /\ UNCHANGED <<steps, alarm, up, now, budget>>

executePurge ==
    /\ At("alarm", "alarm")
    /\ PurgeDue
    /\ wf' = EmptyStorage
    /\ steps' = EmptySteps
    /\ hist' = NoHistory
    /\ Return("alarm")
    /\ UNCHANGED <<alarm, up, now, budget>>

handleAlarm(s) == At("alarm", "alarm") /\ ~PurgeDue /\ wf.status = s

StartQueued == handleAlarm("Queued") /\ Transit("alarm", "Start", "begin")

Resume == handleAlarm("Paused") /\ Transit("alarm", "Resume", "begin")

AlarmIgnored ==
    /\ \E s \in TerminalStatus \union {"Pending", NoWorkflow} : handleAlarm(s)
    /\ Return("alarm")
    /\ UNCHANGED <<storage, env>>

(* A Running workflow was interrupted: executeRecovery. *)
incrementRecoveryAttempts ==
    /\ handleAlarm("Running")
    /\ ~maxExceeded
    /\ wf' = [wf EXCEPT !.recoveryAttempts = @ + 1]
    /\ Goto("alarm", "recover")
    /\ UNCHANGED <<steps, alarm, env>>

Recover ==
    /\ At("alarm", "recover")
    /\ canTransition(wf.status, "Recover")
    /\ wf' = WithStatus("Recover")
    /\ Goto("alarm", "recovered")
    /\ hist' = [hist EXCEPT !.recoveries = @ + 1]
    /\ UNCHANGED <<steps, alarm, up, now, budget>>

resetRecoveryAttempts ==
    /\ At("alarm", "recovered")
    /\ wf' = [wf EXCEPT !.recoveryAttempts = 0]
    /\ Goto("alarm", "begin")
    /\ UNCHANGED <<steps, alarm, env>>

(* The attempts are used up: the workflow fails, and alarm() throws, so    *)
(* the platform delivers the alarm again.                                  *)
RecoveryExhausted ==
    /\ handleAlarm("Running")
    /\ maxExceeded
    /\ wf' = WithStatus("Fail")
    /\ alarm' = IF alarm = NoTime THEN now ELSE alarm
    /\ Return("alarm")
    /\ UNCHANGED <<steps, env>>

-----------------------------------------------------------------------------
(* cancel: set the flag; a queued or paused workflow is cancelled at once, *)
(* a running one by the check its next step makes.                         *)

(* Mutant: a running workflow is cancelled under its execution. *)
setCancelled_Running ==
    /\ At("cancel", "idle")
    /\ wf.status \in StatusTag \ TerminalStatus
    /\ wf' = [wf EXCEPT !.cancelled = TRUE]
    /\ IF wf.status \in {"Queued", "Paused", "Running"}
       THEN Goto("cancel", "cancelling") ELSE UNCHANGED hs
    /\ UNCHANGED <<steps, alarm, env>>

setCancelled ==
    /\ At("cancel", "idle")
    /\ wf.status \in StatusTag \ TerminalStatus
    /\ wf' = [wf EXCEPT !.cancelled = TRUE]
    /\ IF wf.status \in {"Queued", "Paused"} THEN Goto("cancel", "cancelling")
                                             ELSE UNCHANGED hs
    /\ UNCHANGED <<steps, alarm, env>>

CancelNow == At("cancel", "cancelling") /\ Transit("cancel", "Cancel", "cancelled")

CancelScheduled ==
    /\ At("cancel", "cancelled")
    /\ alarm' = NoTime
    /\ Return("cancel")
    /\ UNCHANGED <<wf, steps, env>>

-----------------------------------------------------------------------------
(* The platform and the clock. *)

AllIdle == \A h \in Handlers : hs[h].pc = "idle"

(* The instance is lost with whatever was in flight.  An alarm whose       *)
(* handler did not finish is delivered again, unless a later one is set.   *)
Crash ==
    /\ up
    /\ budget.crashes < MaxCrashes
    /\ ~AllIdle
    /\ up' = FALSE
    /\ hs' = [h \in Handlers |-> IdleHandler]
    /\ alarm' = IF hs["alarm"].pc # "idle" /\ alarm = NoTime THEN now ELSE alarm
    /\ budget' = [budget EXCEPT !.crashes = @ + 1]
    /\ UNCHANGED <<wf, steps, now, hist>>

(* An idle instance is evicted.  Only evictions after which a constructor  *)
(* would move an alarm that is set count against the bound.                *)
Evict ==
    /\ up
    /\ AllIdle
    /\ up' = FALSE
    /\ LET movesAlarm == RecoveryScheduled /\ alarm # NoTime
       IN  \/ ~movesAlarm /\ UNCHANGED budget
           \/ /\ movesAlarm
              /\ budget.evictions < MaxEvictions
              /\ budget' = [budget EXCEPT !.evictions = @ + 1]
    /\ UNCHANGED <<wf, steps, alarm, hs, now, hist>>

(* Time passes where something waits for it: an alarm (which may be late), *)
(* a step in progress, an interrupted workflow that is not stale yet.  A   *)
(* stretch of storage operations takes no time on this scale.              *)
Tick ==
    /\ now < MaxTime
    /\ \A h \in Handlers : hs[h].pc \in Yielding
    /\ \/ alarm # NoTime /\ now < alarm + MaxLate
       \/ \E h \in Executors : hs[h].pc = "effect" /\ now < hs[h].at + MaxEffect
       \/ /\ wf.status = "Running" /\ AllIdle
          /\ now < wf.runningAt + staleThresholdMs
    /\ now' = now + 1
    /\ UNCHANGED <<storage, up, hs, budget, hist>>

-----------------------------------------------------------------------------
Step(h, i) ==
    \/ StepCancelled(h, i) \/ StepCached(h, i) \/ StepGivenUp(h, i)
    \/ StepBegins(h, i) \/ markStepCompleted(h, i)

Effect(h, i) == EffectSucceeds(h, i) \/ EffectFails(h, i) \/ EffectRetries(h, i)

Sleep(h, i) ==
    \/ PauseSkipped(h, i) \/ PauseOver(h, i) \/ SleepBegins(h, i)
    \/ SleepUntilBegins(h, i) \/ SleepUntilPast(h, i)

Execution(h) ==
    \/ BeginExecution(h)
    \/ \E i \in Ops : Step(h, i) \/ Effect(h, i) \/ Sleep(h, i)
    \/ clearPendingResumeAt(h) \/ ProgramEnds(h)
    \/ PauseAlarm(h) \/ Pause(h)
    \/ Finish(h) \/ CancelAlarm(h) \/ schedulePurge(h) \/ PurgeAlarm(h)

RunHandler == Start \/ Queue \/ ScheduleQueued

AlarmHandler ==
    \/ executePurge \/ StartQueued \/ Resume \/ AlarmIgnored
    \/ incrementRecoveryAttempts \/ Recover \/ resetRecoveryAttempts
    \/ RecoveryExhausted

CancelHandler == CancelNow \/ CancelScheduled

Client == Run \/ RunAsync \/ setCancelled

Platform == Construct \/ DeliverAlarm \/ WakeByAlarm

Next ==
    \/ Client \/ RunHandler \/ AlarmHandler \/ CancelHandler
    \/ \E h \in Executors : Execution(h)
    \/ Platform \/ Crash \/ Evict \/ Tick

Spec == Init /\ [][Next]_vars

=============================================================================
