--------------------------- MODULE WorkflowEvents ---------------------------
(***************************************************************************)
(* The events the engine emits (packages/core/src/events.ts) and where     *)
(* its handlers emit them: each action of WorkflowEngine with the events   *)
(* it hands to the tracker, in order.  "view" is what a consumer of the    *)
(* stream makes of them: the life of the workflow as far as it was told.   *)
(* What the tracker does with an event is EventTracker's matter.           *)
(***************************************************************************)
EXTENDS WorkflowProperties

EndedPhase == {"completed", "failed", "cancelled"}

LifecycleEvent ==
    {"queued", "started", "paused", "resumed"} \union EndedPhase

StepEvent == {"step.started", "step.completed", "step.failed"}

RetryEvent == {"retry.scheduled", "retry.exhausted"}

SleepEvent == {"sleep.started", "sleep.completed"}

TimeoutEvent == {"timeout.set", "timeout.exceeded"}

EventType == LifecycleEvent \union StepEvent \union RetryEvent
                            \union SleepEvent \union TimeoutEvent

(* An event is of a step and an attempt, or of none. *)
WorkflowEvent == [type : EventType, step : Ops \union {0}, attempt : Nat]

VARIABLE view

eventVars == <<vars, view>>

-----------------------------------------------------------------------------
(* The consumer. *)

NothingKnown ==
    [phase |-> "none",          \* what became of the workflow
     open |-> 0,                \* the step that was started and not settled
     attempts |-> [i \in Ops |-> 0],
     completed |-> {},          \* steps
     asleep |-> FALSE,
     orderly |-> TRUE]          \* no event came where it cannot

Executes(v) == v.phase = "started" /\ v.open = 0

Expected(v, e) ==
    CASE e.type = "queued"          -> v.phase = "none"
      [] e.type = "started"         -> v.phase \in {"none", "queued"}
      [] e.type = "resumed"         -> v.phase = "paused"
      [] e.type = "cancelled"       -> v.phase \in {"queued", "paused"} \/ Executes(v)
      [] e.type = "step.started"    -> /\ Executes(v) /\ e.step \notin v.completed
                                       /\ e.attempt = v.attempts[e.step] + 1
      [] e.type = "retry.scheduled" -> /\ v.open = e.step
                                       /\ e.attempt = v.attempts[e.step]
      [] e.type = "sleep.started"   -> Executes(v) /\ ~v.asleep
      [] e.type = "sleep.completed" -> Executes(v) /\ v.asleep
      [] e.type \in {"paused", "completed", "failed"} -> Executes(v)
      [] OTHER                      -> v.open = e.step

Learns(v, e) ==
    [phase |-> CASE e.type \notin LifecycleEvent -> v.phase
                 [] e.type = "resumed"           -> "started"
                 [] OTHER                        -> e.type,
     open |-> CASE e.type = "step.started" -> e.step
                [] e.type = "timeout.set"  -> v.open
                [] OTHER                   -> 0,
     attempts |-> IF e.type = "step.started"
                  THEN [v.attempts EXCEPT ![e.step] = e.attempt] ELSE v.attempts,
     completed |-> IF e.type = "step.completed"
                   THEN v.completed \union {e.step} ELSE v.completed,
     asleep |-> e.type = "sleep.started" \/ (v.asleep /\ e.type # "sleep.completed"),
     orderly |-> v.orderly /\ e \in WorkflowEvent /\ Expected(v, e)]

-----------------------------------------------------------------------------
(* The emission sites. *)

event(type) == [type |-> type, step |-> 0, attempt |-> 0]

stepEvent(type, i) == [type |-> type, step |-> i, attempt |-> steps[i].attempt]

emitEvent(e) == view' = Learns(view, e)

(* Two events, the second of which may be missing. *)
emitEvents(e, also, f) ==
    view' = IF also THEN Learns(Learns(view, e), f) ELSE Learns(view, e)

Silent == UNCHANGED view

EmitsStart ==
    \/ (Start \/ StartQueued) /\ emitEvent(event("started"))
    \/ Queue /\ emitEvent(event("queued"))

(* A paused workflow goes on, and so does an interrupted one. *)
EmitsResume == (Resume \/ resetRecoveryAttempts) /\ emitEvent(event("resumed"))

resultEvent(exit) ==
    CASE exit = "Complete" -> event("completed")
      [] exit = "Fail"     -> event("failed")
      [] exit = "Cancel"   -> event("cancelled")

EmitsResult(h) ==
    \/ Finish(h) /\ emitEvent(resultEvent(hs[h].exit))
    \/ Pause(h) /\ emitEvent(event("paused"))

(* Mutant: no event for a workflow cancelled outside an execution. *)
EmitsCancel_Silent == CancelNow /\ Silent

EmitsCancel == CancelNow /\ emitEvent(event("cancelled"))

FirstDeadline(i) == Program[i].timeout # NoTime /\ steps[i].startedAt = NoTime

(* step.started, then retry.exhausted or timeout.exceeded; the timeout of  *)
(* a first attempt, which is 0, was reported set in between.               *)
EmitsGivenUp(h, i) ==
    LET started == Learns(view, stepEvent("step.started", i))
        deadline == IF FirstDeadline(i) /\ ~RetriesExhausted(i)
                    THEN Learns(started, stepEvent("timeout.set", i)) ELSE started
        reason == IF RetriesExhausted(i) THEN "retry.exhausted"
                                         ELSE "timeout.exceeded"
    IN  /\ StepGivenUp(h, i)
        /\ view' = Learns(deadline, stepEvent(reason, i))

(* Mutant: started is reported of the attempt before. *)
EmitsBegin_OldAttempt(h, i) ==
    /\ StepBegins(h, i)
    /\ emitEvents([stepEvent("step.started", i) EXCEPT !.attempt = @ - 1],
                  FirstDeadline(i), stepEvent("timeout.set", i))

EmitsBegin(h, i) ==
    /\ StepBegins(h, i)
    /\ emitEvents(stepEvent("step.started", i),
                  FirstDeadline(i), stepEvent("timeout.set", i))

(* Failed for good: without a retry, as not retryable, or exhausted. *)
EmitsFailure(h, i) ==
    /\ EffectFails(h, i)
    /\ emitEvent(IF Program[i].maxAttempts = NoTime
                      \/ steps[i].attempt <= Program[i].maxAttempts
                 THEN stepEvent("step.failed", i)
                 ELSE stepEvent("retry.exhausted", i))

EmitsRetry(h, i) ==
    EffectRetries(h, i) /\ emitEvent(stepEvent("retry.scheduled", i))

(* Mutant: reported before the result is stored. *)
EmitsCompleted_Early(h, i) ==
    \/ EffectSucceeds(h, i) /\ emitEvent(stepEvent("step.completed", i))
    \/ markStepCompleted(h, i) /\ Silent

EmitsCompleted(h, i) ==
    \/ EffectSucceeds(h, i) /\ Silent
    \/ markStepCompleted(h, i) /\ emitEvent(stepEvent("step.completed", i))

EmitsStep(h, i) ==
    \/ EmitsGivenUp(h, i) \/ EmitsBegin(h, i) \/ EmitsCompleted(h, i)
    \/ EmitsFailure(h, i) \/ EmitsRetry(h, i)

(* The end of a sleep is reported before it is stored. *)
EmitsSleep(h, i) ==
    \/ PauseOver(h, i) /\ emitEvent(event("sleep.completed"))
    \/ (SleepBegins(h, i) \/ SleepUntilBegins(h, i))
          /\ emitEvent(event("sleep.started"))

-----------------------------------------------------------------------------
SilentExecution(h) ==
    \/ BeginExecution(h)
    \/ \E i \in Ops : \/ StepCancelled(h, i) \/ StepCached(h, i)
                      \/ PauseSkipped(h, i) \/ SleepUntilPast(h, i)
    \/ clearPendingResumeAt(h) \/ ProgramEnds(h) \/ PauseAlarm(h)
    \/ CancelAlarm(h) \/ schedulePurge(h) \/ PurgeAlarm(h)

(* A recovery that gives up fails the workflow without an event. *)
SilentAlarm ==
    \/ AlarmIgnored \/ incrementRecoveryAttempts \/ Recover
    \/ RecoveryExhausted

Emits ==
    \/ EmitsStart \/ EmitsResume \/ EmitsCancel
    \/ \E h \in Executors :
          EmitsResult(h) \/ \E i \in Ops : EmitsStep(h, i) \/ EmitsSleep(h, i)

(* A purged workflow's consumer is told of another life. *)
EventNext ==
    \/ Emits
    \/ executePurge /\ view' = NothingKnown
    \/ /\ \/ Client \/ ScheduleQueued \/ CancelScheduled \/ SilentAlarm
          \/ \E h \in Executors : SilentExecution(h)
          \/ Platform \/ Crash \/ Evict \/ Tick
       /\ Silent

EventSpec == Init /\ view = NothingKnown /\ [][EventNext]_eventVars

-----------------------------------------------------------------------------
(* The events are a life: as long as nothing disturbs it, every event      *)
(* comes where its consumer expects it: nothing after the end, no step     *)
(* outside an execution, one attempt after the other, each settled before  *)
(* the next begins, one sleep after the other (the emission sites of       *)
(* orchestrator.ts, step.ts, sleep.ts).  A constructor that moves the      *)
(* alarm of a sleep has it reported as started twice.                      *)
EventsAreOrderly == Undisturbed => view.orderly

(* What a consumer that knows everything takes the workflow for. *)
Phase(status) ==
    CASE status = NoWorkflow  -> {"none"}
      [] status = "Queued"    -> {"queued"}
      [] status = "Running"   -> {"started"}
      [] status = "Paused"    -> {"paused"}
      [] status = "Completed" -> {"completed"}
      [] status = "Failed"    -> {"failed"}
      [] status = "Cancelled" -> {"cancelled"}
      [] OTHER                -> {}

(* As long as nothing crashes, the consumer has been told everything when  *)
(* no handler is in flight: the workflow's status and its completed steps. *)
EventsTellTheState ==
    AllIdle /\ budget.crashes = 0 =>
        /\ view.phase \in Phase(wf.status)
        /\ view.completed = wf.completedSteps

(* Whatever crashes, no event runs ahead of what is stored: an end that    *)
(* was reported is the end, and a step that was reported completed is not  *)
(* executed again.                                                         *)
EventsAreTrue ==
    /\ view.phase \in EndedPhase => view.phase \in Phase(wf.status)
    /\ view.completed \subseteq wf.completedSteps
    /\ \A i \in view.completed : steps[i].result

-----------------------------------------------------------------------------
(* What the consumer knows while handlers are in flight.  This makes what  *)
(* is said of the events inductive.                                        *)

Attempting(h) == hs[h].pc \in {"effect", "mark"}

Failing == \E h \in Executors : hs[h].pc = "exit" /\ hs[h].exit = "Fail"

(* As long as nothing crashes, the consumer knows what became of the       *)
(* workflow, the step that is open and the attempts so far.                *)
ToldOK ==
    budget.crashes = 0 =>
       /\ \/ view.phase \in Phase(wf.status)
          \/ /\ wf.status = "Pending" /\ view.phase = "none"
             /\ hs["run"].pc \in {"start", "queue"}
       /\ view.completed = wf.completedSteps
       /\ \A h \in Executors : Attempting(h) => view.open = hs[h].op
       /\ view.open # 0 => \E h \in Executors : Attempting(h)
       /\ \A i \in Steps :
             \/ steps[i].result \/ Terminated \/ Failing
             \/ steps[i].attempt = view.attempts[i] + IF view.open = i THEN 0 ELSE 1

(* As long as nothing disturbs it, the consumer knows of a sleep when a    *)
(* wake-up time is stored, which is waited for.                            *)
AsleepOK ==
    Undisturbed =>
       /\ view.asleep <=> /\ wf.pendingResumeAt # NoTime
                          /\ \A h \in Executors : hs[h].pc # "slept"
       /\ wf.pendingResumeAt # NoTime =>
             \/ Terminated \/ now >= wf.pendingResumeAt
             \/ SuspendedUntil(wf.pendingResumeAt)

=============================================================================
