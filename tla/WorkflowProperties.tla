------------------------- MODULE WorkflowProperties -------------------------
(* What is claimed of WorkflowEngine. *)
EXTENDS WorkflowEngine, FiniteSets

Pcs == {"idle", "start", "queue", "queued", "begin", "next", "effect", "mark",
        "slept", "exit", "pausing", "pause", "cleanup", "purge", "purgeAlarm",
        "alarm", "recover", "recovered", "cancelling", "cancelled"}

WorkflowKeys ==
    [status : StoredStatus, runningAt : Time, cancelled : BOOLEAN,
     completedSteps : SUBSET Ops, completedPauseIndex : Nat,
     currentPauseIndex : Nat, pendingResumeAt : Time,
     recoveryAttempts : Nat, purgeAt : Time]

StepKeys == [result : BOOLEAN, attempt : Nat \ {0}, startedAt : Time]

HandlerState ==
    [pc : Pcs, op : 0 .. Len(Program) + 1, at : Time,
     exit : TransitionTag \union {"none"}, resumeAt : Time]

History == [begun : [Ops -> Time], due : [Ops -> Time], recoveries : Nat]

TypeOK ==
    /\ wf \in WorkflowKeys
    /\ steps \in [Ops -> StepKeys]
    /\ alarm \in Time
    /\ up \in BOOLEAN
    /\ hs \in [Handlers -> HandlerState]
    /\ now \in Nat
    /\ budget \in [runs : Nat, crashes : Nat, evictions : Nat]
    /\ hist \in History

ExecutionPcs == {"begin", "next", "effect", "mark", "slept",
                 "exit", "pausing", "pause"}

CleanupPcs == {"cleanup", "purge", "purgeAlarm"}

Executing(h) == hs[h].pc \in ExecutionPcs

(* A program is executed by at most one handler at a time, and only while  *)
(* the workflow is Running: no alarm resumes a workflow that a request is  *)
(* still executing, no purge or cancellation takes the status from under   *)
(* it (orchestrator.ts start and handleAlarm, engine.ts alarm).            *)
ExecutionIsExclusive ==
    \A h \in Executors :
        Executing(h) => /\ wf.status = "Running"
                        /\ \A o \in Executors \ {h} : ~Executing(o)

(* The transition a handler is about to apply, if it has decided on one. *)
Decided(h) ==
    CASE hs[h].pc = "start" -> {"Start"}
      [] hs[h].pc = "queue" -> {"Queue"}
      [] hs[h].pc = "recover" -> {"Recover"}
      [] hs[h].pc = "pause" -> {"Pause"}
      [] hs[h].pc = "exit" -> {hs[h].exit}
      [] hs[h].pc = "cancelling" -> {"Cancel"}
      [] OTHER -> {}

(* No handler ever meets an InvalidTransitionError: the transition it      *)
(* decided on from the status it read, one or many awaits ago, is still    *)
(* legal when it applies it (state/machine.ts applyTransition).            *)
TransitionsAreLegal ==
    \A h \in Handlers : \A t \in Decided(h) : canTransition(wf.status, t)

(* A paused workflow always has something to wake it: its alarm, or the    *)
(* alarm handler that has just consumed it.  handleExit sets the alarm     *)
(* before the status becomes Paused, so a crash in between is harmless     *)
(* (executor.ts handleExit).                                               *)
PausedHasAlarm ==
    wf.status = "Paused" /\ alarm = NoTime => hs["alarm"].pc # "idle"

(* A step whose result is stored is never executed again, and a step is    *)
(* executed only when every step before it has its result: whatever was    *)
(* interrupted, a replay takes the stored prefix and goes on after it      *)
(* (step.ts, phase 3).                                                     *)
ReplayResumesWhereItStopped ==
    \A h \in Executors : hs[h].pc = "effect" =>
        /\ ~steps[hs[h].op].result
        /\ \A i \in Steps : steps[i].result <=> i < hs[h].op

(* After a purge nothing is left that a later run of the same instance     *)
(* could take for its own: no key, no alarm, no execution                  *)
(* (purge/manager.ts executePurgeIfDue, engine.ts alarm).                  *)
PurgedInstanceIsClean ==
    wf.status = NoWorkflow =>
        /\ wf = EmptyStorage /\ steps = EmptySteps /\ alarm = NoTime
        /\ \A h \in Executors : ~Executing(h)

(* As long as nothing crashes, a replay passes a sleep only when its full  *)
(* duration has elapsed since the sleep was first begun (sleep.ts: the     *)
(* pause point is completed when now >= pendingResumeAt).                  *)
SleepsLast ==
    [][\A h \in Executors, i \in Sleeps :
          budget.crashes = 0 /\ hs[h].op = i /\ hs'[h].op = i + 1 =>
              /\ hist.begun[i] # NoTime
              /\ now >= hist.begun[i] + Program[i].ms]_vars

(* No crash, and no eviction after which a constructor moves an alarm. *)
Undisturbed == budget.crashes = 0 /\ budget.evictions = 0

(* A sleepUntil whose time has passed leaves no trace, so that a replay    *)
(* takes it for the pause point a later sleep is waiting at: only a sleep  *)
(* that comes before every sleepUntil keeps what it waited for.            *)
Firm(i) == \A j \in 1 .. i - 1 : Program[j].kind # "sleepUntil"

(* A sleep is begun once, as long as nothing disturbs it: it ends when its *)
(* duration has elapsed since then, and is not started over by a replay    *)
(* that meets it again (sleep.ts, phases of sleep).                        *)
SleepsAreNotRestarted ==
    \A h \in Executors : \A i \in Sleeps :
        /\ Undisturbed /\ Firm(i)
        /\ hs[h].pc \in {"pausing", "pause"} /\ hs[h].op = i
        =>
            hs[h].resumeAt = hist.begun[i] + Program[i].ms

(* "Durable sleep that survives process restarts" (sleep.ts:16) and        *)
(* replays: without the two excuses above.                                 *)
SleepsSurvive ==
    \A h \in Executors : \A i \in Sleeps :
        /\ budget.crashes = 0
        /\ hs[h].pc \in {"pausing", "pause"} /\ hs[h].op = i
        =>
            hs[h].resumeAt = hist.begun[i] + Program[i].ms

(* A failed step is attempted again when its delay has elapsed and not     *)
(* before, whoever moves the alarm in the meantime: the constructor that   *)
(* checks for an interrupted workflow leaves one alone that waits for a    *)
(* retry (step.ts phase 8, state/machine.ts checkRecoverability).  After a *)
(* crash it is the recovery that runs the step again.                      *)
RetriesKeepTheirDelay ==
    \A h \in Executors : \A i \in Steps :
        budget.crashes = 0 /\ hs[h].pc = "effect" /\ hs[h].op = i
            => hs[h].at >= hist.due[i]

(* completedSteps, which getCompletedSteps() answers, names every step of  *)
(* a completed workflow, as long as nothing crashes (step.ts phase 9,      *)
(* engine.ts getCompletedSteps).                                           *)
CompletedStepsAreRecorded ==
    wf.status = "Completed" /\ budget.crashes = 0 => wf.completedSteps = Steps

(* With the purge option, a workflow that ended in the course of an        *)
(* execution has its purge scheduled once its handlers are done, as long   *)
(* as nothing crashes (orchestrator.ts cleanup).                           *)
EndedIsPurged ==
    /\ wf.status \in {"Completed", "Failed"}
    /\ AllIdle /\ budget.crashes = 0
    /\ purgeDelayMs # NoTime
    => wf.purgeAt # NoTime /\ alarm = wf.purgeAt

(* A workflow is recovered at most maxRecoveryAttempts times               *)
(* (recovery/config.ts: "Maximum recovery attempts before marking workflow *)
(* as failed").                                                            *)
RecoveriesBounded == hist.recoveries <= maxRecoveryAttempts

(* The workflow implements the lifecycle its client is promised. *)
Lifecycle ==
    INSTANCE WorkflowLifecycle WITH
        phase <- wf.status,
        done <- {i \in Steps : steps[i].result},
        stop <- wf.cancelled

LifecycleSpec == Lifecycle!Spec

-----------------------------------------------------------------------------
(* How the handlers keep out of each other's way.  This is what makes the  *)
(* safety properties above inductive.                                      *)

Engaged(h) == hs[h].pc \in ExecutionPcs \union CleanupPcs

Terminated == wf.status \in {"Completed", "Failed", "Cancelled"}

(* Each handler is where its own code can be, and nowhere when the object  *)
(* is not in memory.                                                       *)
PositionsOK ==
    /\ hs["run"].pc \in {"idle", "start", "queue", "queued"}
                          \union ExecutionPcs \union CleanupPcs
    /\ hs["alarm"].pc \in {"idle", "alarm", "recover", "recovered"}
                            \union ExecutionPcs \union CleanupPcs
    /\ hs["cancel"].pc \in {"idle", "cancelling", "cancelled"}
    /\ ~up => AllIdle

(* At most one handler is between a read and the write that follows from   *)
(* it.                                                                     *)
OneAtATime ==
    \A h \in Handlers : \A o \in Handlers \ {h} :
        hs[h].pc \notin Yielding => hs[o].pc \in Yielding

(* What a handler remembers is there when it needs it. *)
RegistersOK ==
    \A h \in Executors :
        /\ hs[h].pc \in {"effect", "mark", "slept"} => hs[h].op \in Ops
        /\ hs[h].pc = "effect" => hs[h].at # NoTime
        /\ hs[h].pc \in {"pausing", "pause"} => hs[h].resumeAt # NoTime
        /\ hs[h].pc = "exit" => hs[h].exit \in {"Complete", "Fail", "Cancel"}
        /\ hs[h].pc \in {"purge", "purgeAlarm"} => purgeDelayMs # NoTime

(* run executes a workflow that has neither an alarm nor an alarm handler. *)
RunOK ==
    /\ hs["run"].pc \in {"start", "queue"} => wf.status = "Pending"
    /\ hs["run"].pc = "queued" => /\ wf.status \in {"Queued", "Cancelled"}
                                  /\ wf.purgeAt = NoTime
    /\ hs["run"].pc \in {"start", "queue", "queued"} \union ExecutionPcs =>
          hs["alarm"].pc = "idle"
    /\ hs["run"].pc \in {"start", "queue", "queued"} \union (ExecutionPcs \ {"pause"}) =>
          alarm = NoTime

(* An execution goes on only in a Running workflow, its cleanup only in    *)
(* one that is over, and at most one handler is at either.                 *)
EngagedOK ==
    /\ \A h \in Executors :
          /\ hs[h].pc \in ExecutionPcs => wf.status = "Running"
          /\ hs[h].pc = "pause" => alarm # NoTime
          /\ hs[h].pc \in CleanupPcs => Terminated
          /\ hs[h].pc \in {"cleanup", "purge"} => wf.purgeAt = NoTime
          /\ hs[h].pc = "purgeAlarm" => wf.purgeAt # NoTime
    /\ ~(Engaged("run") /\ Engaged("alarm"))
    /\ hs["alarm"].pc \in {"recover", "recovered"} => wf.status = "Running"

(* A cancellation that has been decided on is applied to the status it was *)
(* decided for, and no execution cleans up after it.                       *)
CancelOK ==
    /\ hs["cancel"].pc = "cancelling" => wf.status \in {"Queued", "Paused"}
    /\ hs["cancel"].pc = "cancelled" => /\ wf.status = "Cancelled"
                                        /\ wf.purgeAt = NoTime
                                        /\ \A h \in Executors : ~Engaged(h)

(* Only what is over is purged, and a purge leaves nothing and nobody.     *)
PurgeOK ==
    /\ wf.purgeAt # NoTime => Terminated
    /\ hs["alarm"].pc = "alarm" /\ wf.purgeAt # NoTime => alarm = NoTime
    /\ wf.status = NoWorkflow =>
          wf = EmptyStorage /\ steps = EmptySteps /\ alarm = NoTime /\ AllIdle

Coordination ==
    /\ PositionsOK /\ OneAtATime /\ RegistersOK
    /\ RunOK /\ EngagedOK /\ CancelOK /\ PurgeOK
    /\ PausedHasAlarm

-----------------------------------------------------------------------------
(* What a replay finds.  This makes what is said of steps inductive.       *)

AllDone == \A i \in Steps : steps[i].result

DoneBefore(n) == \A i \in Steps : i < n => steps[i].result

(* The results stored are those of a prefix of the steps; an execution has *)
(* passed a step only with its result, and decides on its end for a reason.*)
ReplayOK ==
    /\ \A i, j \in Steps : i < j /\ steps[j].result => steps[i].result
    /\ \A h \in Executors :
          /\ hs[h].pc \in {"next", "effect", "mark", "slept"} =>
                1 <= hs[h].op /\ DoneBefore(hs[h].op)
          /\ hs[h].pc = "effect" => hs[h].op \in Steps /\ ~steps[hs[h].op].result
          /\ hs[h].pc = "mark" => hs[h].op \in Steps /\ steps[hs[h].op].result
          /\ hs[h].pc = "slept" => hs[h].op \notin Steps
          /\ hs[h].pc = "exit" /\ hs[h].exit = "Complete" => AllDone
          /\ hs[h].pc = "exit" /\ hs[h].exit = "Cancel" => wf.cancelled
    /\ hs["cancel"].pc = "cancelling" => wf.cancelled
    /\ wf.status = "Completed" => AllDone

(* As long as nothing crashes, a result that is stored is in the list of   *)
(* completed steps, or about to be.                                        *)
RecordsOK ==
    /\ wf.completedSteps \subseteq Steps
    /\ budget.crashes = 0 => \A i \in Steps : steps[i].result =>
          \/ i \in wf.completedSteps
          \/ \E h \in Executors : hs[h].pc = "mark" /\ hs[h].op = i

(* As long as nothing crashes, a workflow is Running only while it is      *)
(* executed, and one that ended is on its way to its purge.                *)
EndsOK ==
    budget.crashes = 0 =>
       /\ wf.status = "Running" => \E h \in Executors : Executing(h)
       /\ wf.status \in {"Completed", "Failed"} /\ purgeDelayMs # NoTime =>
             \/ \E h \in Executors : hs[h].pc \in CleanupPcs
             \/ wf.purgeAt # NoTime /\ alarm = wf.purgeAt
             \/ hs["alarm"].pc = "alarm" /\ PurgeDue

-----------------------------------------------------------------------------
(* Where a replay stands among its pause points, and which of them the     *)
(* stored wake-up time belongs to.  This makes what is said of sleeps and  *)
(* retries inductive, as long as nothing crashes.                          *)

Pauses == {i \in Ops : Program[i].kind # "step"}

PausesBefore(n) == Cardinality({i \in Pauses : i < n})

(* Pause point i is behind the workflow, or behind handler h. *)
Completed(i) == PausesBefore(i) < wf.completedPauseIndex

Passed(h, i) == hs[h].pc \in {"next", "effect", "mark", "slept"} /\ i < hs[h].op

(* A replay counts the pause points it meets, and has completed the sleeps *)
(* among them; a sleep was completed when its time had passed, and was not *)
(* begun before the sleeps that precede it were completed.                 *)
PausesOK ==
    budget.crashes = 0 =>
       /\ \A h \in Executors :
             /\ hs[h].pc \in {"next", "effect", "mark"} =>
                   wf.currentPauseIndex = PausesBefore(hs[h].op)
             /\ hs[h].pc = "slept" =>
                   /\ hs[h].op \in Pauses
                   /\ wf.currentPauseIndex = PausesBefore(hs[h].op) + 1
                   /\ wf.completedPauseIndex = wf.currentPauseIndex
             /\ \A i \in Sleeps : Passed(h, i) => Completed(i)
       /\ \A i \in Sleeps :
             /\ hist.begun[i] <= now
             /\ Completed(i) => hist.begun[i] # NoTime
                                   /\ now >= hist.begun[i] + Program[i].ms
             /\ hist.begun[i] # NoTime =>
                   \A j \in Sleeps : j < i => Completed(j)

(* The wake-up time belongs to a pause point j that is not completed yet:  *)
(* everything before it is done, no execution is beyond it.                *)
PendingAt(j) ==
    /\ ~Completed(j) /\ DoneBefore(j)
    /\ \A i \in Sleeps : i < j => Completed(i)
    /\ Program[j].kind = "sleep" =>
          hist.begun[j] # NoTime
             /\ wf.pendingResumeAt >= hist.begun[j] + Program[j].ms
    /\ Program[j].kind = "sleepUntil" => wf.pendingResumeAt = Program[j].ms
    /\ \A h \in Executors :
          /\ hs[h].pc \notin {"effect", "mark"}
          /\ hs[h].pc = "next" => hs[h].op <= j

PendingOK ==
    /\ budget.crashes = 0 /\ wf.pendingResumeAt # NoTime
    /\ \A h \in Executors : hs[h].pc # "slept"
    => \E j \in Pauses : PendingAt(j)

(* The workflow is suspended, or about to be, until t at least. *)
SuspendedUntil(t) ==
    \/ \E h \in Executors : /\ hs[h].pc \in {"pausing", "pause"}
                            /\ hs[h].resumeAt >= t
                            /\ hs[h].pc = "pause" => alarm >= t
    \/ wf.status = "Paused" /\ alarm >= t /\ hs["alarm"].pc = "idle"

(* As long as nothing crashes, a retry that is not due yet is waited for,  *)
(* and no attempt was begun before it was due.                             *)
RetriesOK ==
    budget.crashes = 0 => \A i \in Steps :
       /\ \/ hist.due[i] <= now
          \/ Terminated
          \/ wf.pendingResumeAt = NoTime /\ SuspendedUntil(hist.due[i])
       /\ \A h \in Executors :
             hs[h].pc = "effect" /\ hs[h].op = i => hs[h].at >= hist.due[i]

(* A firm sleep that was begun is over, or waited for and not yet due, and *)
(* no constructor is going to move the alarm that it waits for.            *)
SleepsOK ==
    Undisturbed =>
       /\ ~up /\ wf.status = "Paused" => ~RecoveryScheduled
       /\ \A i \in Sleeps : Firm(i) /\ hist.begun[i] # NoTime =>
             \/ Completed(i) \/ Terminated
             \/ /\ wf.pendingResumeAt = hist.begun[i] + Program[i].ms
                /\ now >= wf.pendingResumeAt \/ SuspendedUntil(wf.pendingResumeAt)
                /\ \A h \in Executors : hs[h].pc # "slept"

-----------------------------------------------------------------------------
(* Liveness.  The object's handlers run, the user's step ends one way or   *)
(* the other, the platform delivers due alarms, time passes, somebody      *)
(* eventually asks for the object and an idle one is eventually evicted.   *)
(* Requests and crashes are not fair.                                      *)

Fairness ==
    /\ WF_vars(RunHandler) /\ WF_vars(AlarmHandler) /\ WF_vars(CancelHandler)
    /\ \A h \in Executors : WF_vars(Execution(h))
    /\ WF_vars(Construct) /\ WF_vars(DeliverAlarm \/ WakeByAlarm)
    /\ WF_vars(Evict) /\ WF_vars(Tick)

FairSpec == Spec /\ Fairness

Ended == wf.status \in TerminalStatus \union {NoWorkflow}

Crashed == budget.crashes > 0

Stranded == Crashed /\ wf.status \in {"Pending", "Queued"}

(* Every workflow that was accepted ends, cancelled or not, through any    *)
(* crashes and evictions that come to an end: its alarm starts it and      *)
(* resumes it, and an interrupted execution is retried by the alarm or     *)
(* recovered by the constructor.  Only one that had not started when the   *)
(* object crashed may stay where it is (orchestrator.ts queue and cancel,  *)
(* recovery/manager.ts).                                                   *)
AcceptedEnds ==
    wf.status \notin TerminalStatus \union {NoWorkflow} ~> Ended \/ Stranded

PurgeIsSet == wf.purgeAt # NoTime /\ alarm # NoTime /\ alarm >= wf.purgeAt

(* Recovery gave the workflow up (recovery/manager.ts:231), or cancel()    *)
(* ended it before it ran on: neither schedules a purge.                   *)
EndedUnpurged ==
    \/ wf.status = "Failed" /\ maxExceeded
    \/ hs["cancel"].pc = "cancelled"

(* A workflow that runs is purged in the end if the object does not crash  *)
(* once more, however often it has crashed before and whether the run      *)
(* completes, fails or sees a cancellation; and a purge whose alarm is set *)
(* is made, whatever crashes.  Only a workflow that recovery gave up or    *)
(* that cancel() itself ended keeps its data, for which no purge is        *)
(* scheduled.  (orchestrator.ts cleanup, engine.ts alarm, purge/manager.ts;*)
(* a crash between the end of a run and the purge's alarm is a crash once  *)
(* more, after which nothing runs.)                                        *)
EndedIsDeleted ==
    /\ \A n \in 0 .. MaxCrashes :
          wf.status = "Running" /\ budget.crashes = n
              ~> \/ wf.status = NoWorkflow
                 \/ EndedUnpurged
                 \/ budget.crashes > n
    /\ PurgeIsSet ~> wf.status = NoWorkflow

=============================================================================
