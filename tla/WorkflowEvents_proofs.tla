------------------------ MODULE WorkflowEvents_proofs ------------------------
(***************************************************************************)
(* What the events of a workflow tell their consumer: never more than what *)
(* is stored, all of it as long as nothing crashes, and in an order that   *)
(* makes sense as long as nothing moves an alarm.                          *)
(*                                                                         *)
(* The engine that emits is the engine of WorkflowEngine, so what is known *)
(* of that one holds; ToldOK and AsleepOK relate the consumer's view to    *)
(* the handlers in flight.                                                 *)
(***************************************************************************)
EXTENDS WorkflowEvents, WorkflowPauses_proofs

(* Every step that emits, or is silent, is a step of the engine.           *)
LEMMA EmitsAreSteps ==
    ASSUME NEW h \in Executors
    PROVE  /\ \A i \in Ops : EmitsStep(h, i) \/ EmitsSleep(h, i) => Execution(h)
           /\ EmitsResult(h) \/ SilentExecution(h) => Execution(h)
<1>1. ASSUME NEW i \in Ops, EmitsStep(h, i) \/ EmitsSleep(h, i)
      PROVE  Execution(h)
  BY <1>1 DEF EmitsStep, EmitsSleep, EmitsGivenUp, EmitsBegin, EmitsCompleted,
     EmitsFailure, EmitsRetry, Execution, Step, Effect, Sleep
<1>2. ASSUME EmitsResult(h) \/ SilentExecution(h)
      PROVE  Execution(h)
  BY <1>2 DEF EmitsResult, SilentExecution, Execution, Step, Sleep
<1> QED
  BY <1>1, <1>2

LEMMA EventsAreSteps == [EventNext]_eventVars => [Next]_vars
<1>1. eventVars' = eventVars => vars' = vars
  BY DEF eventVars
<1>2. Emits => Next
  BY EmitsAreSteps DEF Emits, EmitsStart, EmitsResume, EmitsCancel, Next, RunHandler,
     AlarmHandler, CancelHandler
<1>3. SilentAlarm \/ executePurge => AlarmHandler
  BY DEF SilentAlarm, AlarmHandler
<1>4. EventNext => Next
  BY <1>2, <1>3, EmitsAreSteps DEF EventNext, Next, RunHandler, CancelHandler
<1> QED
  BY <1>1, <1>4

(* The engine that emits events is the engine.                             *)
LEMMA EventsRefine == EventSpec => Spec
BY EventsAreSteps, PTL DEF EventSpec, Spec

-----------------------------------------------------------------------------
(* What the consumer learns. *)

LifecycleLearned(w, v, t) ==
    /\ w.phase = IF t = "resumed" THEN "started" ELSE t
    /\ w.open = 0 /\ w.attempts = v.attempts /\ w.completed = v.completed
    /\ w.asleep = v.asleep
    /\ Expected(v, event(t)) /\ v.orderly => w.orderly

(* From an event of the workflow.                                          *)
LEMMA LearnsLifecycle ==
    ASSUME NEW v, v.asleep \in BOOLEAN, NEW t \in LifecycleEvent
    PROVE  LifecycleLearned(Learns(v, event(t)), v, t)
<1>1. event(t) \in WorkflowEvent
  BY DEF event, WorkflowEvent, EventType
<1>2. /\ event(t).type = t /\ t \notin {"step.started", "step.completed",
             "sleep.started", "sleep.completed", "timeout.set"}
  BY DEF event, LifecycleEvent, EndedPhase
<1> QED
  BY <1>1, <1>2 DEF Learns, LifecycleLearned

(* From an event of a step or a sleep.                                     *)
Learned(w, v, e) ==
    /\ w.phase = v.phase
    /\ e.type = "step.started" => w.open = e.step
    /\ e.type = "timeout.set" => w.open = v.open
    /\ e.type \notin {"step.started", "timeout.set"} => w.open = 0
    /\ e.type # "step.started" => w.attempts = v.attempts
    /\ e.type = "step.started" =>
          w.attempts = [v.attempts EXCEPT ![e.step] = e.attempt]
    /\ e.type # "step.completed" => w.completed = v.completed
    /\ e.type = "step.completed" => w.completed = v.completed \union {e.step}
    /\ e.type \notin SleepEvent => w.asleep = v.asleep
    /\ e.type = "sleep.started" => w.asleep = TRUE
    /\ e.type = "sleep.completed" => w.asleep = FALSE
    /\ w.asleep \in BOOLEAN
    /\ Expected(v, e) /\ v.orderly => w.orderly

LEMMA LearnsOther ==
    ASSUME NEW v, v.asleep \in BOOLEAN, NEW e \in WorkflowEvent,
           e.type \notin LifecycleEvent
    PROVE  Learned(Learns(v, e), v, e)
<1> DEFINE w == Learns(v, e)
<1>1. w.phase = v.phase
  BY DEF Learns, LifecycleEvent
<1>2. /\ e.type = "step.started" => w.open = e.step
      /\ e.type = "timeout.set" => w.open = v.open
      /\ e.type \notin {"step.started", "timeout.set"} => w.open = 0
  BY DEF Learns
<1>3. /\ e.type # "step.started" => w.attempts = v.attempts
      /\ e.type = "step.started" =>
            w.attempts = [v.attempts EXCEPT ![e.step] = e.attempt]
      /\ e.type # "step.completed" => w.completed = v.completed
      /\ e.type = "step.completed" => w.completed = v.completed \union {e.step}
  BY DEF Learns
<1>4. w.asleep = (e.type = "sleep.started" \/ (v.asleep /\ e.type # "sleep.completed"))
  BY DEF Learns
<1>5. w.orderly = (v.orderly /\ e \in WorkflowEvent /\ Expected(v, e))
  BY DEF Learns
<1>6. Expected(v, e) /\ v.orderly => w.orderly
  BY <1>5
<1>7. /\ e.type \notin SleepEvent => w.asleep = v.asleep
      /\ e.type = "sleep.started" => w.asleep = TRUE
      /\ e.type = "sleep.completed" => w.asleep = FALSE
      /\ w.asleep \in BOOLEAN
  BY <1>4 DEF SleepEvent
<1> QED
  BY <1>1, <1>2, <1>3, <1>6, <1>7 DEF Learned

(* When an event of a step or a sleep is expected.                         *)
LEMMA ExpectedWhen ==
    ASSUME NEW v, NEW e
    PROVE  /\ e.type = "step.started" =>
                 (Expected(v, e) <=> /\ Executes(v) /\ e.step \notin v.completed
                                     /\ e.attempt = v.attempts[e.step] + 1)
           /\ e.type = "retry.scheduled" =>
                 (Expected(v, e) <=> v.open = e.step /\ e.attempt = v.attempts[e.step])
           /\ e.type = "sleep.started" => (Expected(v, e) <=> Executes(v) /\ ~v.asleep)
           /\ e.type = "sleep.completed" => (Expected(v, e) <=> Executes(v) /\ v.asleep)
           /\ e.type \in {"step.completed", "step.failed", "retry.exhausted",
                          "timeout.set", "timeout.exceeded"} =>
                 (Expected(v, e) <=> v.open = e.step)
<1>1. e.type = "step.started" =>
          (Expected(v, e) <=> /\ Executes(v) /\ e.step \notin v.completed
                              /\ e.attempt = v.attempts[e.step] + 1)
  BY DEF Expected
<1>2. e.type = "retry.scheduled" =>
          (Expected(v, e) <=> v.open = e.step /\ e.attempt = v.attempts[e.step])
  BY DEF Expected
<1>3. /\ e.type = "sleep.started" => (Expected(v, e) <=> Executes(v) /\ ~v.asleep)
      /\ e.type = "sleep.completed" => (Expected(v, e) <=> Executes(v) /\ v.asleep)
  BY DEF Expected
<1>4. e.type \in {"step.completed", "step.failed", "retry.exhausted",
                  "timeout.set", "timeout.exceeded"} =>
          (Expected(v, e) <=> v.open = e.step)
  BY DEF Expected
<1> QED
  BY <1>1, <1>2, <1>3, <1>4

(* The events there are.                                                   *)
LEMMA EventsAre ==
    ASSUME TypeOK, NEW i \in Ops
    PROVE  /\ \A t \in StepEvent \union RetryEvent \union TimeoutEvent :
                 /\ stepEvent(t, i) \in WorkflowEvent
                 /\ stepEvent(t, i).type = t /\ stepEvent(t, i).step = i
                 /\ stepEvent(t, i).attempt = steps[i].attempt
                 /\ t \notin LifecycleEvent /\ t \notin SleepEvent
           /\ \A t \in SleepEvent :
                 /\ event(t) \in WorkflowEvent /\ event(t).type = t
                 /\ t \notin LifecycleEvent
<1>1. steps[i].attempt \in Nat
  BY DEF TypeOK, StepKeys
<1> QED
  BY <1>1 DEF stepEvent, event, WorkflowEvent, EventType, StepEvent, RetryEvent,
     TimeoutEvent, SleepEvent, LifecycleEvent, EndedPhase

-----------------------------------------------------------------------------
(* What each emission site makes known. *)

ViewOK == view.attempts \in [Ops -> Nat] /\ view.asleep \in BOOLEAN

(* The consumer goes on with its view, in order if it expected that.       *)
Hears(open, attempts, completed, asleep, expected) ==
    /\ view'.phase = view.phase /\ view'.open = open
    /\ view'.attempts = attempts /\ view'.completed = completed
    /\ view'.asleep = asleep
    /\ expected /\ view.orderly => view'.orderly

Attempted(i) == [view.attempts EXCEPT ![i] = steps[i].attempt]

Startable(i) ==
    /\ Executes(view) /\ i \notin view.completed
    /\ steps[i].attempt = view.attempts[i] + 1

(* step() (step.ts).                                                       *)
LEMMA BeginHears ==
    ASSUME TypeOK, ViewOK, NEW h \in Executors, NEW i \in Ops, EmitsBegin(h, i)
    PROVE  Hears(i, Attempted(i), view.completed, view.asleep, Startable(i))
<1> DEFINE started == stepEvent("step.started", i)
           set == stepEvent("timeout.set", i)
           w == Learns(view, started)
<1>1. /\ started \in WorkflowEvent /\ started.type = "step.started"
      /\ started.step = i /\ started.attempt = steps[i].attempt
      /\ set \in WorkflowEvent /\ set.type = "timeout.set" /\ set.step = i
      /\ started.type \notin LifecycleEvent /\ set.type \notin LifecycleEvent
      /\ started.type \notin SleepEvent /\ set.type \notin SleepEvent
  BY EventsAre DEF StepEvent, TimeoutEvent
<1>2. /\ w.phase = view.phase /\ w.open = i /\ w.attempts = Attempted(i)
      /\ w.completed = view.completed /\ w.asleep = view.asleep
      /\ w.asleep \in BOOLEAN
      /\ Expected(view, started) /\ view.orderly => w.orderly
  <2>1. Learned(w, view, started)
    <3> HIDE DEF started
    <3> QED
      BY <1>1, LearnsOther DEF ViewOK
  <2> HIDE DEF started, w
  <2> QED
    BY <1>1, <2>1 DEF Learned, Attempted, ViewOK
<1>3. Startable(i) => Expected(view, started)
  BY <1>1, ExpectedWhen DEF Startable
<1>4. CASE view' = w
  BY <1>2, <1>3, <1>4 DEF Hears
<1>5. CASE view' = Learns(w, set)
  <2>1. Expected(w, set)
    BY <1>1, <1>2, ExpectedWhen
  <2>2. /\ view'.phase = w.phase /\ view'.open = w.open
        /\ view'.attempts = w.attempts /\ view'.completed = w.completed
        /\ view'.asleep = w.asleep
        /\ Expected(w, set) /\ w.orderly => view'.orderly
    <3> HIDE DEF started, set, w
    <3>1. Learned(Learns(w, set), w, set)
      BY <1>1, <1>2, LearnsOther
    <3> QED
      BY <1>1, <1>5, <3>1 DEF Learned
  <2> QED
    BY <1>2, <1>3, <2>1, <2>2 DEF Hears
<1> QED
  BY <1>4, <1>5 DEF EmitsBegin, emitEvents

LEMMA GivenUpHears ==
    ASSUME TypeOK, ViewOK, NEW h \in Executors, NEW i \in Ops, EmitsGivenUp(h, i)
    PROVE  Hears(0, Attempted(i), view.completed, view.asleep, Startable(i))
<1> DEFINE started == stepEvent("step.started", i)
           set == stepEvent("timeout.set", i)
           u == Learns(view, started)
           w == IF FirstDeadline(i) /\ ~RetriesExhausted(i) THEN Learns(u, set) ELSE u
<1>1. /\ started \in WorkflowEvent /\ started.type = "step.started"
      /\ started.step = i /\ started.attempt = steps[i].attempt
      /\ set \in WorkflowEvent /\ set.type = "timeout.set" /\ set.step = i
      /\ started.type \notin LifecycleEvent /\ set.type \notin LifecycleEvent
      /\ started.type \notin SleepEvent /\ set.type \notin SleepEvent
  BY EventsAre DEF StepEvent, TimeoutEvent
<1>2. /\ u.phase = view.phase /\ u.open = i /\ u.attempts = Attempted(i)
      /\ u.completed = view.completed /\ u.asleep = view.asleep
      /\ u.asleep \in BOOLEAN
      /\ Expected(view, started) /\ view.orderly => u.orderly
  <2>1. Learned(u, view, started)
    <3> HIDE DEF started
    <3> QED
      BY <1>1, LearnsOther DEF ViewOK
  <2> HIDE DEF started, u
  <2> QED
    BY <1>1, <2>1 DEF Learned, Attempted, ViewOK
<1>3. Startable(i) => Expected(view, started)
  BY <1>1, ExpectedWhen DEF Startable
<1>4. /\ w.phase = view.phase /\ w.open = i /\ w.attempts = Attempted(i)
      /\ w.completed = view.completed /\ w.asleep = view.asleep
      /\ w.asleep \in BOOLEAN
      /\ u.orderly => w.orderly
  <2> DEFINE x == Learns(u, set)
  <2>1. Expected(u, set)
    BY <1>1, <1>2, ExpectedWhen
  <2>2. /\ x.phase = u.phase /\ x.open = u.open
        /\ x.attempts = u.attempts /\ x.completed = u.completed
        /\ x.asleep = u.asleep
        /\ Expected(u, set) /\ u.orderly => x.orderly
    <3> HIDE DEF started, set, u
    <3>1. Learned(Learns(u, set), u, set)
      BY <1>1, <1>2, LearnsOther
    <3> QED
      BY <1>1, <3>1 DEF Learned
  <2>3. w = x \/ w = u
    OBVIOUS
  <2> HIDE DEF u, w, x
  <2> QED
    BY <1>2, <2>1, <2>2, <2>3
<1>5. PICK t \in {"retry.exhausted", "timeout.exceeded"} :
          view' = Learns(w, stepEvent(t, i))
  BY DEF EmitsGivenUp
<1> DEFINE reason == stepEvent(t, i)
<1>6. /\ reason \in WorkflowEvent /\ reason.type = t /\ reason.step = i
      /\ t \notin LifecycleEvent /\ t \notin SleepEvent
  BY EventsAre DEF RetryEvent, TimeoutEvent
<1>7. Expected(w, reason)
  <2> HIDE DEF w, reason
  <2> QED
    BY <1>4, <1>6, ExpectedWhen
<1>8. /\ view'.phase = w.phase /\ view'.open = 0
      /\ view'.attempts = w.attempts /\ view'.completed = w.completed
      /\ view'.asleep = w.asleep
      /\ Expected(w, reason) /\ w.orderly => view'.orderly
  <2> HIDE DEF w, reason
  <2>1. view' = Learns(w, reason)
    BY <1>5 DEF reason
  <2>2. Learned(view', w, reason)
    BY <1>4, <1>6, <2>1, LearnsOther
  <2> QED
    BY <1>6, <2>2 DEF Learned
<1> HIDE DEF w, u, reason
<1> QED
  BY <1>2, <1>3, <1>4, <1>7, <1>8 DEF Hears

LEMMA AttemptHears ==
    ASSUME TypeOK, ViewOK, NEW h \in Executors, NEW i \in Ops
    PROVE  /\ markStepCompleted(h, i) /\ emitEvent(stepEvent("step.completed", i)) =>
                 Hears(0, view.attempts, view.completed \union {i}, view.asleep,
                       view.open = i)
           /\ EmitsFailure(h, i) =>
                 Hears(0, view.attempts, view.completed, view.asleep, view.open = i)
           /\ EmitsRetry(h, i) =>
                 Hears(0, view.attempts, view.completed, view.asleep,
                       view.open = i /\ steps[i].attempt = view.attempts[i])
<1>1. ASSUME NEW t \in {"step.completed", "step.failed", "retry.exhausted",
                        "retry.scheduled"},
             view' = Learns(view, stepEvent(t, i))
      PROVE  Hears(0, view.attempts,
                   IF t = "step.completed" THEN view.completed \union {i}
                                           ELSE view.completed,
                   view.asleep,
                   /\ view.open = i
                   /\ t = "retry.scheduled" => steps[i].attempt = view.attempts[i])
  <2>1. /\ stepEvent(t, i) \in WorkflowEvent /\ stepEvent(t, i).type = t
        /\ stepEvent(t, i).step = i /\ stepEvent(t, i).attempt = steps[i].attempt
        /\ t \notin LifecycleEvent /\ t \notin SleepEvent
    BY EventsAre DEF StepEvent, RetryEvent
  <2>2. /\ view.open = i
        /\ t = "retry.scheduled" => steps[i].attempt = view.attempts[i]
        => Expected(view, stepEvent(t, i))
    BY <2>1, ExpectedWhen
  <2>3. Learned(view', view, stepEvent(t, i))
    BY <1>1, <2>1, LearnsOther DEF ViewOK
  <2> QED
    BY <2>1, <2>2, <2>3 DEF Learned, Hears
<1> QED
  BY <1>1 DEF emitEvent, EmitsFailure, EmitsRetry

(* sleep() and sleepUntil() (sleep.ts).                                    *)
LEMMA SleepHears ==
    ASSUME TypeOK, ViewOK, NEW h \in Executors, NEW i \in Ops, EmitsSleep(h, i)
    PROVE  \/ /\ PauseOver(h, i)
              /\ Hears(0, view.attempts, view.completed, FALSE,
                       Executes(view) /\ view.asleep)
           \/ /\ SleepBegins(h, i) \/ SleepUntilBegins(h, i)
              /\ Hears(0, view.attempts, view.completed, TRUE,
                       Executes(view) /\ ~view.asleep)
<1>1. ASSUME NEW t \in SleepEvent, view' = Learns(view, event(t))
      PROVE  Hears(0, view.attempts, view.completed, t = "sleep.started",
                   Executes(view) /\ (view.asleep <=> t = "sleep.completed"))
  <2>1. event(t) \in WorkflowEvent /\ event(t).type = t /\ t \notin LifecycleEvent
    BY EventsAre
  <2>2. Executes(view) /\ (view.asleep <=> t = "sleep.completed")
            => Expected(view, event(t))
    BY <2>1, ExpectedWhen DEF SleepEvent, ViewOK
  <2>3. Learned(view', view, event(t))
    BY <1>1, <2>1, LearnsOther DEF ViewOK
  <2> QED
    BY <2>1, <2>2, <2>3 DEF Learned, Hears, SleepEvent
<1> QED
  BY <1>1 DEF EmitsSleep, emitEvent, SleepEvent

-----------------------------------------------------------------------------
(* EventsAreTrue. *)

SameRecords == wf'.completedSteps = wf.completedSteps

SameAttempts == \A i \in Steps : steps'[i].attempt = steps[i].attempt

(* The list of completed steps and the attempts are written in one place   *)
(* each (step.ts).                                                         *)
LEMMA InsideRecords ==
    ASSUME TypeOK, NEW h \in Executors, InsideAction(h)
    PROVE  /\ SameRecords \/ \E i \in Ops : markStepCompleted(h, i)
           /\ SameAttempts \/ \E i \in Ops : EffectRetries(h, i)
           /\ SameResults \/ \E i \in Ops : EffectSucceeds(h, i)
<1> USE DEF storage, env, SameRecords, SameAttempts
<1>1. ASSUME NEW i \in Ops, Step(h, i) \/ Effect(h, i) \/ Sleep(h, i)
      PROVE  /\ SameRecords \/ markStepCompleted(h, i)
             /\ SameAttempts \/ EffectRetries(h, i)
             /\ SameResults \/ EffectSucceeds(h, i)
  <2>1. SameRecords \/ markStepCompleted(h, i)
    BY <1>1 DEF Step, StepCancelled, StepCached, StepGivenUp, StepBegins, Effect,
             EffectSucceeds, EffectFails, EffectRetries, Sleep, PauseSkipped,
             PauseOver, SleepBegins, SleepUntilBegins, SleepUntilPast, TypeOK,
             WorkflowKeys
  <2>2. \/ MarkStarted(i) \/ EffectRetries(h, i) \/ UNCHANGED steps
        \/ EffectSucceeds(h, i)
    BY <1>1 DEF Step, StepCancelled, StepCached, StepGivenUp, StepBegins, Effect,
             EffectFails, Sleep, PauseSkipped, PauseOver, SleepBegins,
             SleepUntilBegins, SleepUntilPast, markStepCompleted
  <2>3. MarkStarted(i) \/ EffectSucceeds(h, i) \/ UNCHANGED steps => SameAttempts
    <3>1. MarkStarted(i) => SameAttempts
      BY StepsAreOps DEF MarkStarted, TypeOK, StepKeys
    <3>2. steps' = [steps EXCEPT ![i].result = TRUE] => SameAttempts
      BY StepsAreOps DEF TypeOK, StepKeys
    <3> QED
      BY <3>1, <3>2 DEF EffectSucceeds
  <2>4. MarkStarted(i) \/ EffectRetries(h, i) \/ UNCHANGED steps => SameResults
    <3>1. steps' = [steps EXCEPT ![i].attempt = @ + 1] => SameResults
      BY StepsAreOps DEF SameResults, TypeOK, StepKeys
    <3> QED
      BY <3>1, MarkStartedKeeps DEF EffectRetries, SameResults
  <2> QED
    BY <2>1, <2>2, <2>3, <2>4
<1>2. CASE BeginExecution(h) \/ clearPendingResumeAt(h) \/ ProgramEnds(h)
  BY <1>2 DEF BeginExecution, clearPendingResumeAt, ProgramEnds, TypeOK, WorkflowKeys,
              SameResults
<1> QED
  BY <1>1, <1>2 DEF InsideAction

(* Nobody else writes them, and no workflow vanishes without a purge.      *)
LEMMA OutsideRecords ==
    ASSUME TypeOK, Coordination, [Next]_vars, ~executePurge,
           \A h \in Executors : ~InsideAction(h)
    PROVE  /\ SameRecords /\ UNCHANGED steps
           /\ wf'.status = NoWorkflow => wf.status = NoWorkflow
<1> USE DEF storage, env, SameRecords, TypeOK, WorkflowKeys
<1>1. ASSUME NEW p \in {"start", "queue"}, Initialize(p)
      PROVE  /\ SameRecords /\ UNCHANGED steps /\ wf.status = NoWorkflow
  <2>1. wf.status = NoWorkflow /\ wf = EmptyStorage /\ wf'.completedSteps = {}
    BY <1>1 DEF Initialize, Coordination, PurgeOK
  <2> QED
    BY <1>1, <2>1 DEF EmptyStorage, Initialize
<1>2. CASE setCancelled \/ ScheduleQueued \/ CancelScheduled \/ AlarmIgnored
           \/ incrementRecoveryAttempts \/ resetRecoveryAttempts
           \/ Platform \/ Crash \/ Evict \/ Tick \/ UNCHANGED vars
  BY <1>2 DEF setCancelled, ScheduleQueued, CancelScheduled, AlarmIgnored,
     incrementRecoveryAttempts, resetRecoveryAttempts, Platform, Construct,
     DeliverAlarm, WakeByAlarm, Crash, Evict, Tick, vars
<1>3. \A t : WithStatus(t).status = applyTransitionToStatus(t)
             /\ WithStatus(t).completedSteps = wf.completedSteps
  BY DEF WithStatus
<1>4. \A t \in TransitionTag : applyTransitionToStatus(t) # NoWorkflow
  BY DEF applyTransitionToStatus, TransitionTag, NoWorkflow
<1>5. CASE Start \/ Queue \/ StartQueued \/ Resume \/ Recover \/ RecoveryExhausted
           \/ CancelNow
  <2>1. \E t \in TransitionTag : wf' = WithStatus(t) /\ UNCHANGED steps
    BY <1>5 DEF Start, Queue, StartQueued, Resume, Recover, RecoveryExhausted,
                CancelNow, Transit, TransitionTag
  <2> QED
    BY <1>3, <1>4, <2>1
<1>6. ASSUME NEW h \in Executors, Execution(h)
      PROVE  /\ SameRecords /\ UNCHANGED steps
             /\ wf'.status = NoWorkflow => wf.status = NoWorkflow
  <2>1. CASE PauseAlarm(h) \/ CancelAlarm(h) \/ schedulePurge(h) \/ PurgeAlarm(h)
    BY <2>1 DEF PauseAlarm, CancelAlarm, schedulePurge, PurgeAlarm
  <2>2. CASE Pause(h) \/ Finish(h)
    <3>1. Finish(h) => hs[h].exit \in TransitionTag
      BY DEF Finish, At, Coordination, RegistersOK, TransitionTag
    <3>2. \E t \in TransitionTag : wf' = WithStatus(t) /\ UNCHANGED steps
      BY <2>2, <3>1 DEF Pause, Finish, Transit, TransitionTag
    <3> QED
      BY <1>3, <1>4, <3>2
  <2> QED
    BY <1>6, <2>1, <2>2 DEF Execution, InsideAction
<1> QED
  BY <1>1, <1>2, <1>5, <1>6 DEF Next, Client, Run, RunAsync, RunHandler, AlarmHandler,
     CancelHandler

(* What is over stays over until it is purged, results and records stay.   *)
LEMMA StoredStays ==
    ASSUME RInv, [Next]_vars, ~executePurge
    PROVE  /\ Terminated => wf'.status = wf.status
           /\ wf.completedSteps \subseteq wf'.completedSteps
           /\ \A i \in Steps : steps[i].result => steps'[i].result
<1> USE DEF RInv, IInv
<1>1. CASE \A h \in Executors : ~InsideAction(h)
  <2>1. /\ SameRecords /\ UNCHANGED steps
        /\ wf'.status = NoWorkflow => wf.status = NoWorkflow
    BY <1>1, OutsideRecords
  <2>2. Terminated => wf'.status = wf.status
    <3> SUFFICES ASSUME Terminated PROVE wf'.status = wf.status
      OBVIOUS
    <3>1. wf'.status # NoWorkflow
      BY <2>1 DEF Terminated, NoWorkflow
    <3>2. Lifecycle!Next \/ UNCHANGED Visible
      BY NextRefines
    <3> QED
      BY <3>1, <3>2, TerminalIs
         DEF Terminated, NoWorkflow, Visible, Lifecycle!Next, Lifecycle!Submit, Lifecycle!Accept,
             Lifecycle!Proceed, Lifecycle!FinishStep, Lifecycle!Suspend,
             Lifecycle!RequestStop, Lifecycle!Succeed, Lifecycle!GiveUp,
             Lifecycle!Stop, Lifecycle!Purge
  <2> QED
    BY <2>1, <2>2 DEF SameRecords
<1>2. ASSUME NEW h \in Executors, InsideAction(h)
      PROVE  /\ wf'.status = wf.status
             /\ wf.completedSteps \subseteq wf'.completedSteps
             /\ \A i \in Steps : steps[i].result => steps'[i].result
  <2>1. Kind(h) /\ Still /\ Alone(h)
    BY <1>2, InsideKinds
  <2>2. wf.completedSteps \subseteq wf'.completedSteps
    BY <1>2, InsideRecords DEF SameRecords, markStepCompleted, TypeOK, WorkflowKeys
  <2>3. SameResults \/ \E i \in Ops : EffectSucceeds(h, i)
    BY <1>2, InsideRecords
  <2>4. \A i \in Steps : steps[i].result => steps'[i].result
    <3>1. ASSUME NEW i \in Ops, steps' = [steps EXCEPT ![i].result = TRUE]
          PROVE  \A j \in Steps : steps[j].result => steps'[j].result
      BY <3>1, StepsAreOps DEF TypeOK, StepKeys
    <3> QED
      BY <2>3, <3>1 DEF SameResults, EffectSucceeds
  <2> QED
    BY <2>1, <2>2, <2>4 DEF Still
<1> QED
  BY <1>1, <1>2

(* A step of the workflow that is told as event t.                         *)
Tells(t) ==
    \/ (Start \/ StartQueued) /\ t = "started"
    \/ Queue /\ t = "queued"
    \/ (Resume \/ resetRecoveryAttempts) /\ t = "resumed"
    \/ CancelNow /\ t = "cancelled"
    \/ \E h \in Executors :
          \/ Pause(h) /\ t = "paused"
          \/ Finish(h) /\ hs[h].exit = "Complete" /\ t = "completed"
          \/ Finish(h) /\ hs[h].exit = "Fail" /\ t = "failed"
          \/ Finish(h) /\ hs[h].exit = "Cancel" /\ t = "cancelled"

(* A step of which nothing is told. *)
Untold ==
    \/ Client \/ ScheduleQueued \/ CancelScheduled \/ SilentAlarm
    \/ \E h \in Executors :
          SilentExecution(h) \/ \E i \in Ops : EffectSucceeds(h, i)
    \/ Platform \/ Crash \/ Evict \/ Tick \/ UNCHANGED vars

(* A step of the program that is told. *)
TellsStep(h, i) ==
    \/ EmitsGivenUp(h, i) \/ EmitsBegin(h, i)
    \/ markStepCompleted(h, i) /\ emitEvent(stepEvent("step.completed", i))
    \/ EmitsFailure(h, i) \/ EmitsRetry(h, i) \/ EmitsSleep(h, i)

LEMMA EventCases ==
    ASSUME Coordination, [EventNext]_eventVars
    PROVE  \/ executePurge /\ view' = NothingKnown
           \/ Untold /\ Silent
           \/ \E t \in LifecycleEvent : Tells(t) /\ emitEvent(event(t))
           \/ \E h \in Executors, i \in Ops : TellsStep(h, i)
<1>1. CASE UNCHANGED eventVars
  BY <1>1 DEF eventVars, vars, Untold, Silent
<1>2. CASE EmitsStart \/ EmitsResume \/ EmitsCancel
  <2>1. {"queued", "started", "resumed", "cancelled"} \subseteq LifecycleEvent
    BY DEF LifecycleEvent, EndedPhase
  <2> QED
    BY <1>2, <2>1 DEF EmitsStart, EmitsResume, EmitsCancel, Tells
<1>3. ASSUME NEW h \in Executors, EmitsResult(h)
      PROVE  \E t \in LifecycleEvent : Tells(t) /\ emitEvent(event(t))
  <2>1. EndedPhase \subseteq LifecycleEvent /\ "paused" \in LifecycleEvent
    BY DEF LifecycleEvent
  <2>2. CASE Pause(h) /\ emitEvent(event("paused"))
    BY <2>1, <2>2 DEF Tells
  <2>3. CASE Finish(h) /\ emitEvent(resultEvent(hs[h].exit))
    <3>1. hs[h].exit \in {"Complete", "Fail", "Cancel"}
      BY <2>3 DEF Finish, At, Coordination, RegistersOK
    <3>2. \E t \in EndedPhase : Tells(t) /\ emitEvent(event(t))
      BY <2>3, <3>1 DEF Tells, resultEvent, EndedPhase
    <3> QED
      BY <2>1, <3>2
  <2> QED
    BY <1>3, <2>2, <2>3 DEF EmitsResult
<1>4. ASSUME NEW h \in Executors, NEW i \in Ops, EmitsStep(h, i) \/ EmitsSleep(h, i)
      PROVE  TellsStep(h, i) \/ (Untold /\ Silent)
  BY <1>4 DEF EmitsStep, EmitsCompleted, TellsStep, Untold
<1>5. CASE /\ \/ Client \/ ScheduleQueued \/ CancelScheduled \/ SilentAlarm
              \/ \E h \in Executors : SilentExecution(h)
              \/ Platform \/ Crash \/ Evict \/ Tick
           /\ Silent
  BY <1>5 DEF Untold
<1> QED
  BY <1>1, <1>2, <1>3, <1>4, <1>5 DEF EventNext, Emits

(* A step of the program that is told is inside an execution.              *)
LEMMA ToldIsInside ==
    ASSUME NEW h \in Executors, NEW i \in Ops,
           TellsStep(h, i) \/ EffectSucceeds(h, i)
    PROVE  InsideAction(h)
BY DEF TellsStep, EmitsGivenUp, EmitsBegin, EmitsFailure, EmitsRetry, EmitsSleep,
       InsideAction, Step, Effect, Sleep

(* The status a lifecycle event tells.                                     *)
LEMMA TellsStatus ==
    ASSUME TypeOK, Coordination, NEW t \in LifecycleEvent, Tells(t)
    PROVE  /\ Phase(wf'.status) = {IF t = "resumed" THEN "started" ELSE t}
           /\ wf.status \in {"Pending", "Queued", "Running", "Paused"}
           /\ wf'.status # NoWorkflow
           /\ SameRecords /\ UNCHANGED <<steps, budget>>
<1> USE DEF storage, env
<1>1. /\ applyTransitionToStatus("Start") = "Running"
      /\ applyTransitionToStatus("Queue") = "Queued"
      /\ applyTransitionToStatus("Resume") = "Running"
      /\ applyTransitionToStatus("Cancel") = "Cancelled"
      /\ applyTransitionToStatus("Pause") = "Paused"
      /\ applyTransitionToStatus("Complete") = "Completed"
      /\ applyTransitionToStatus("Fail") = "Failed"
  BY DEF applyTransitionToStatus
<1>2. /\ Phase("Running") = {"started"} /\ Phase("Queued") = {"queued"}
      /\ Phase("Cancelled") = {"cancelled"} /\ Phase("Paused") = {"paused"}
      /\ Phase("Completed") = {"completed"} /\ Phase("Failed") = {"failed"}
      /\ {"Running", "Queued", "Cancelled", "Paused", "Completed", "Failed"}
            \subseteq StatusTag \ {NoWorkflow}
  BY DEF Phase, NoWorkflow, StatusTag
<1>3. ASSUME NEW x \in TransitionTag, NEW h \in Handlers, NEW p \in Pcs,
             Transit(h, x, p)
      PROVE  /\ wf'.status = applyTransitionToStatus(x)
             /\ SameRecords /\ UNCHANGED <<steps, budget>>
  BY <1>3, TransitMoves DEF SameRecords, TypeOK, WorkflowKeys
<1>4. /\ {"Start", "Queue", "Resume", "Cancel", "Pause", "Complete", "Fail"}
            \subseteq TransitionTag
      /\ {"begin", "queued", "idle", "cleanup", "cancelled"} \subseteq Pcs
      /\ Executors \subseteq Handlers
      /\ {"run", "alarm", "cancel"} \subseteq Handlers
  BY DEF TransitionTag, Pcs, Handlers, Executors
<1>5. CASE (Start \/ StartQueued) /\ t = "started"
  <2>1. wf.status \in {"Pending", "Queued"}
    BY <1>5 DEF Start, StartQueued, At, handleAlarm, Coordination, RunOK
  <2> QED
    BY <1>1, <1>2, <1>3, <1>4, <1>5, <2>1 DEF Start, StartQueued
<1>6. CASE Queue /\ t = "queued"
  <2>1. wf.status = "Pending"
    BY <1>6 DEF Queue, At, Coordination, RunOK
  <2> QED
    BY <1>1, <1>2, <1>3, <1>4, <1>6, <2>1 DEF Queue
<1>7. CASE Resume /\ t = "resumed"
  BY <1>1, <1>2, <1>3, <1>4, <1>7 DEF Resume, handleAlarm
<1>8. CASE resetRecoveryAttempts /\ t = "resumed"
  <2>1. wf.status = "Running"
    BY <1>8 DEF resetRecoveryAttempts, At, Coordination, EngagedOK
  <2>2. wf'.status = wf.status /\ SameRecords /\ UNCHANGED <<steps, budget>>
    BY <1>8 DEF resetRecoveryAttempts, SameRecords, TypeOK, WorkflowKeys
  <2> QED
    BY <1>2, <1>8, <2>1, <2>2
<1>9. CASE CancelNow /\ t = "cancelled"
  <2>1. wf.status \in {"Queued", "Paused"}
    BY <1>9 DEF CancelNow, At, Coordination, CancelOK
  <2> QED
    BY <1>1, <1>2, <1>3, <1>4, <1>9, <2>1 DEF CancelNow
<1>10. ASSUME NEW h \in Executors, Pause(h), t = "paused"
       PROVE  /\ wf.status = "Running" /\ wf'.status = "Paused"
              /\ SameRecords /\ UNCHANGED <<steps, budget>>
  BY <1>1, <1>3, <1>4, <1>10 DEF Pause, At, Coordination, EngagedOK, ExecutionPcs
<1>11. ASSUME NEW h \in Executors, Finish(h)
       PROVE  /\ wf.status = "Running"
              /\ wf'.status = applyTransitionToStatus(hs[h].exit)
              /\ SameRecords /\ UNCHANGED <<steps, budget>>
  <2>1. /\ wf.status = "Running"
        /\ hs[h].exit \in {"Complete", "Fail", "Cancel"}
    BY <1>11 DEF Finish, At, Coordination, EngagedOK, RegistersOK, ExecutionPcs
  <2> QED
    BY <1>3, <1>4, <1>11, <2>1 DEF Finish
<1>12. t \in {"resumed", "paused", "completed", "failed", "cancelled"} =>
          \/ t # "resumed" \/ (IF t = "resumed" THEN "started" ELSE t) = "started"
  OBVIOUS
<1> QED
  BY <1>1, <1>2, <1>5, <1>6, <1>7, <1>8, <1>9, <1>10, <1>11 DEF Tells

(* Only a purge makes a workflow vanish.                                   *)
LEMMA UntoldIsNoPurge ==
    ASSUME TypeOK, Coordination, Untold
    PROVE  ~executePurge
<1> USE DEF storage, env
<1> SUFFICES ASSUME executePurge
             PROVE  FALSE
  OBVIOUS
<1>1. /\ Terminated /\ wf'.status = NoWorkflow /\ hs["alarm"].pc = "alarm"
      /\ wf.status # NoWorkflow /\ PurgeDue /\ up /\ up' = up /\ now' = now
      /\ hs' # hs
  <2>1. hs'["alarm"].pc = "idle"
    BY DEF executePurge, Return, IdleHandler, TypeOK, Handlers, Executors
  <2> QED
    BY <2>1 DEF executePurge, At, Turn, EmptyStorage, Coordination, PurgeOK,
                PurgeDue, Terminated, NoWorkflow
<1>2. CASE Client
  <2>1. wf.status \in {NoWorkflow} \union (StatusTag \ TerminalStatus)
    BY <1>2 DEF Client, Run, RunAsync, Initialize, setCancelled
  <2> QED
    BY <1>1, <2>1, TerminalIs DEF Terminated, NoWorkflow
<1>3. CASE ScheduleQueued \/ CancelScheduled \/ Platform \/ Crash \/ Evict \/ Tick
           \/ UNCHANGED vars
  <2>1. wf' = wf
    BY <1>3 DEF ScheduleQueued, CancelScheduled, Platform, Construct, DeliverAlarm,
                WakeByAlarm, Crash, Evict, Tick, vars
  <2> QED
    BY <1>1, <2>1
<1>4. CASE SilentAlarm
  BY <1>1, <1>4 DEF SilentAlarm, AlarmIgnored, incrementRecoveryAttempts, Recover,
     RecoveryExhausted, handleAlarm, At
<1>5. ASSUME NEW h \in Executors,
             SilentExecution(h) \/ \E i \in Ops : EffectSucceeds(h, i)
      PROVE  FALSE
  <2>1. CASE InsideAction(h)
    BY <1>1, <2>1, InsideStep DEF Inside
  <2>2. CASE PauseAlarm(h) \/ CancelAlarm(h) \/ schedulePurge(h) \/ PurgeAlarm(h)
    <3>1. wf'.status = wf.status
      BY <2>2 DEF PauseAlarm, CancelAlarm, schedulePurge, PurgeAlarm, TypeOK,
                  WorkflowKeys
    <3> QED
      BY <1>1, <3>1
  <2> QED
    BY <1>5, <2>1, <2>2 DEF SilentExecution, InsideAction, Step, Effect, Sleep
<1> QED
  BY <1>2, <1>3, <1>4, <1>5 DEF Untold

-----------------------------------------------------------------------------
(* The consumer's view has its types, and runs ahead of nothing. *)

(* The consumer hears of one attempt more, or one less is open.            *)
LEMMA StepHears ==
    ASSUME TypeOK, ViewOK, NEW h \in Executors, NEW i \in Ops, TellsStep(h, i)
    PROVE  \E open, attempts, completed, asleep, expected :
              /\ Hears(open, attempts, completed, asleep, expected)
              /\ attempts \in {view.attempts, Attempted(i)}
              /\ asleep \in BOOLEAN
              /\ \/ completed = view.completed
                 \/ markStepCompleted(h, i) /\ completed = view.completed \union {i}
<1>1. view.asleep \in BOOLEAN
  BY DEF ViewOK
<1>2. CASE EmitsGivenUp(h, i)
  BY <1>1, <1>2, GivenUpHears
<1>3. CASE EmitsBegin(h, i)
  BY <1>1, <1>3, BeginHears
<1>4. CASE markStepCompleted(h, i) /\ emitEvent(stepEvent("step.completed", i))
  BY <1>1, <1>4, AttemptHears
<1>5. CASE EmitsFailure(h, i) \/ EmitsRetry(h, i)
  BY <1>1, <1>5, AttemptHears
<1>6. CASE EmitsSleep(h, i)
  BY <1>1, <1>6, SleepHears
<1> QED
  BY <1>2, <1>3, <1>4, <1>5, <1>6 DEF TellsStep

LEMMA NextViewOK ==
    ASSUME TypeOK, Coordination, ViewOK, [EventNext]_eventVars
    PROVE  ViewOK'
<1>1. CASE view' = NothingKnown
  BY <1>1 DEF ViewOK, NothingKnown
<1>2. CASE Silent
  BY <1>2 DEF ViewOK, Silent
<1>3. ASSUME NEW t \in LifecycleEvent, emitEvent(event(t))
      PROVE  ViewOK'
  <2>1. LifecycleLearned(view', view, t)
    BY <1>3, LearnsLifecycle DEF ViewOK, emitEvent
  <2> QED
    BY <2>1 DEF LifecycleLearned, ViewOK
<1>4. ASSUME NEW h \in Executors, NEW i \in Ops, TellsStep(h, i)
      PROVE  ViewOK'
  <2>1. Attempted(i) \in [Ops -> Nat]
    BY DEF Attempted, ViewOK, TypeOK, StepKeys
  <2> QED
    BY <1>4, <2>1, StepHears DEF Hears, ViewOK
<1> QED
  BY <1>1, <1>2, <1>3, <1>4, EventCases

(* An ended phase is that of a terminal status.                            *)
LEMMA EndedPhases ==
    /\ \A s : \A p \in EndedPhase :
          p \in Phase(s) => s \in {"Completed", "Failed", "Cancelled"}
    /\ "none" \notin EndedPhase
<1>1. ASSUME NEW s, NEW p \in EndedPhase, p \in Phase(s)
      PROVE  s \in {"Completed", "Failed", "Cancelled"}
  BY <1>1 DEF Phase, EndedPhase, NoWorkflow
<1> QED
  BY <1>1 DEF EndedPhase

LEMMA NextTrue ==
    ASSUME RInv, RecordsOK, ViewOK, EventsAreTrue, [EventNext]_eventVars
    PROVE  EventsAreTrue'
<1> USE DEF RInv, IInv
<1>0. [Next]_vars
  BY EventsAreSteps
<1>1. CASE executePurge /\ view' = NothingKnown
  BY <1>1, EndedPhases DEF NothingKnown, EventsAreTrue
<1>2. CASE /\ view'.phase = view.phase \/ view'.phase \in Phase(wf'.status)
           /\ view'.completed = view.completed
           /\ ~executePurge
  <2>1. /\ Terminated => wf'.status = wf.status
        /\ wf.completedSteps \subseteq wf'.completedSteps
        /\ \A i \in Steps : steps[i].result => steps'[i].result
    BY <1>0, <1>2, StoredStays
  <2>2. view.phase \in EndedPhase => wf'.status = wf.status
    BY <2>1, EndedPhases DEF EventsAreTrue, Terminated
  <2>3. \A i \in view.completed : i \in Steps
    BY DEF EventsAreTrue, RecordsOK
  <2> QED
    BY <1>2, <2>1, <2>2, <2>3 DEF EventsAreTrue
<1>3. CASE Untold /\ Silent
  BY <1>2, <1>3, UntoldIsNoPurge DEF Silent
<1>4. ASSUME NEW t \in LifecycleEvent, Tells(t), emitEvent(event(t))
      PROVE  EventsAreTrue'
  <2>1. LifecycleLearned(view', view, t)
    BY <1>4, LearnsLifecycle DEF ViewOK, emitEvent
  <2>2. view'.phase \in Phase(wf'.status) /\ view'.completed = view.completed
    BY <1>4, <2>1, TellsStatus DEF LifecycleLearned
  <2>3. ~executePurge
    BY <1>4, TellsStatus DEF executePurge, EmptyStorage
  <2> QED
    BY <1>2, <2>2, <2>3
<1>5. ASSUME NEW h \in Executors, NEW i \in Ops, TellsStep(h, i)
      PROVE  EventsAreTrue'
  <2>1. Kind(h) /\ Alone(h) /\ Still
    BY <1>5, ToldIsInside, InsideKinds
  <2>2. ~executePurge
    BY <2>1 DEF executePurge, PurgeDue, Alone, Coordination, PurgeOK, Terminated
  <2>3. /\ view'.phase = view.phase
        /\ \/ view'.completed = view.completed
           \/ markStepCompleted(h, i) /\ view'.completed = view.completed \union {i}
    BY <1>5, StepHears DEF Hears
  <2>4. CASE markStepCompleted(h, i) /\ view'.completed = view.completed \union {i}
    <3>1. /\ wf'.completedSteps = wf.completedSteps \union {i}
          /\ UNCHANGED steps /\ wf'.status = wf.status
      BY <2>4 DEF markStepCompleted, TypeOK, WorkflowKeys
    <3>2. steps[i].result
      BY <2>4 DEF markStepCompleted, At, ReplayOK
    <3> QED
      BY <2>3, <2>4, <3>1, <3>2 DEF EventsAreTrue
  <2> QED
    BY <1>2, <2>2, <2>3, <2>4
<1> QED
  BY <1>1, <1>3, <1>4, <1>5, EventCases

(* Nothing is told that is not stored: the orchestrator and the step emit  *)
(* after they have written (orchestrator.ts, step.ts).                     *)
THEOREM EventsTellTruth == EventSpec => []EventsAreTrue
<1> DEFINE I == RInv /\ RecordsOK /\ ViewOK /\ EventsAreTrue
<1>1. Init /\ view = NothingKnown => I
  <2>1. Init /\ view = NothingKnown => ViewOK /\ EventsAreTrue
    BY EndedPhases DEF ViewOK, EventsAreTrue, NothingKnown, Init, EmptyStorage
  <2> QED
    BY <2>1, ReplayInductive, RecordsInductive DEF RInv
<1>2. I /\ [EventNext]_eventVars => I'
  BY EventsAreSteps, ReplayInductive, RecordsInductive, NextViewOK, NextTrue DEF RInv, IInv
<1> QED
  BY <1>1, <1>2, PTL DEF EventSpec

-----------------------------------------------------------------------------
(* ToldOK. *)

(* Only an execution attempts a step, or fails.                            *)
LEMMA NobodyAttempts ==
    ASSUME Coordination, wf.status # "Running"
    PROVE  ~Failing /\ \A h \in Executors : ~Attempting(h)
BY DEF Coordination, EngagedOK, ExecutionPcs, Failing, Attempting

(* As long as nothing crashes a Running workflow is executed, so that its  *)
(* alarm handler has nothing to recover.                                   *)
LEMMA NothingToRecover ==
    ASSUME Coordination, EndsOK, budget.crashes = 0
    PROVE  /\ ~incrementRecoveryAttempts /\ ~Recover
           /\ ~resetRecoveryAttempts /\ ~RecoveryExhausted
<1> SUFFICES ASSUME hs["alarm"].pc \in {"alarm", "recover", "recovered"},
                    wf.status = "Running"
             PROVE  FALSE
  BY DEF incrementRecoveryAttempts, Recover, resetRecoveryAttempts,
         RecoveryExhausted, handleAlarm, At, Coordination, EngagedOK
<1>1. Executing("run")
  BY DEF EndsOK, Executing, ExecutionPcs, Executors
<1> QED
  BY <1>1 DEF Executing, Coordination, RunOK

(* An event of the workflow finds no attempt open, and leaves none.        *)
LEMMA TellsAlone ==
    ASSUME TypeOK, Coordination, EndsOK, budget.crashes = 0,
           NEW t \in LifecycleEvent, Tells(t)
    PROVE  /\ \A h \in Executors : ~Attempting(h) /\ ~Attempting(h)'
           /\ Failing => Terminated'
<1>1. /\ Elsewhere("run") \/ Elsewhere("alarm") \/ Elsewhere("cancel")
      /\ \A h \in Executors :
            hs'[h] = hs[h] \/ hs'[h].pc \notin {"effect", "mark"}
  <2>1. ASSUME NEW h \in Handlers, NEW x \in TransitionTag,
               NEW p \in Pcs \ {"effect", "mark"}, Transit(h, x, p)
        PROVE  /\ Elsewhere(h)
               /\ \A o \in Executors :
                     hs'[o] = hs[o] \/ hs'[o].pc \notin {"effect", "mark"}
    BY <2>1, TransitMoves DEF Elsewhere, Handlers
  <2>2. /\ {"Start", "Queue", "Resume", "Cancel", "Pause"} \subseteq TransitionTag
        /\ {"begin", "queued", "idle", "cleanup", "cancelled"}
              \subseteq Pcs \ {"effect", "mark"}
        /\ Executors \subseteq Handlers /\ Handlers = {"run", "alarm", "cancel"}
    BY DEF TransitionTag, Pcs, Handlers, Executors
  <2>3. ASSUME NEW h \in Executors, Pause(h) \/ Finish(h)
        PROVE  \E x \in TransitionTag : \E p \in {"idle", "cleanup"} : Transit(h, x, p)
    BY <2>3 DEF Pause, Finish, At, Coordination, RegistersOK, TransitionTag
  <2>4. ~resetRecoveryAttempts
    BY NothingToRecover
  <2>5. \E h \in Handlers, x \in TransitionTag, p \in Pcs \ {"effect", "mark"} :
            Transit(h, x, p)
    BY <2>2, <2>3, <2>4 DEF Tells, Start, StartQueued, Queue, Resume, CancelNow
  <2> QED
    BY <2>1, <2>2, <2>5
<1>2. CASE wf.status # "Running"
  BY <1>1, <1>2, NobodyAttempts DEF Attempting
<1>3. CASE wf.status = "Running"
  <2>1. ~resetRecoveryAttempts
    BY NothingToRecover
  <2>2. PICK h \in Executors : Pause(h) \/ Finish(h)
    BY <1>3, <2>1 DEF Tells, Start, StartQueued, Queue, Resume, CancelNow, handleAlarm,
          At, Coordination, RunOK, CancelOK
  <2>3. /\ hs[h].pc \in {"pause", "exit"}
        /\ \A o \in Executors \ {h} : hs[o].pc \notin ExecutionPcs
    BY <2>2 DEF Pause, Finish, At, Coordination, EngagedOK, Engaged, ExecutionPcs,
                Executors
  <2>4. \A o \in Executors : ~Attempting(o)
    BY <2>3 DEF Attempting, ExecutionPcs
  <2>5. Failing => Terminated'
    <3> SUFFICES ASSUME Failing PROVE Terminated'
      OBVIOUS
    <3>1. hs[h].pc = "exit"
      BY <2>3 DEF Failing, ExecutionPcs
    <3>2. Finish(h) /\ h \in Handlers /\ hs[h].exit \in {"Complete", "Fail", "Cancel"}
      BY <2>2, <3>1 DEF Pause, At, Coordination, RegistersOK, Handlers
    <3>3. wf'.status = applyTransitionToStatus(hs[h].exit)
      BY <3>2, TransitMoves DEF Finish, TransitionTag, Pcs
    <3> QED
      BY <3>2, <3>3 DEF applyTransitionToStatus, Terminated
  <2> QED
    BY <1>1, <2>4, <2>5 DEF Attempting
<1> QED
  BY <1>2, <1>3

LEMMA ToldTells ==
    ASSUME TypeOK, Coordination, EndsOK, ViewOK, ToldOK, budget.crashes = 0,
           NEW t \in LifecycleEvent, Tells(t), emitEvent(event(t))
    PROVE  ToldOK'
<1>1. LifecycleLearned(view', view, t)
  BY LearnsLifecycle DEF ViewOK, emitEvent
<1>2. /\ view'.phase \in Phase(wf'.status) /\ view'.open = 0
      /\ view'.attempts = view.attempts /\ view'.completed = view.completed
      /\ ~Terminated /\ SameRecords /\ UNCHANGED steps
  BY <1>1, TellsStatus DEF LifecycleLearned, Terminated
<1>3. /\ \A h \in Executors : ~Attempting(h) /\ ~Attempting(h)'
      /\ Failing => Terminated'
  BY TellsAlone
<1>4. view.open = 0
  BY <1>3 DEF ToldOK
<1> QED
  BY <1>2, <1>3, <1>4 DEF ToldOK, SameRecords

(* A step of which the consumer need not know. *)
Unheard ==
    /\ wf'.status = wf.status /\ SameRecords /\ UNCHANGED steps
    /\ \A h \in Executors :
          /\ Attempting(h) \/ Attempting(h)' => hs'[h] = hs[h]
          /\ hs[h].pc \in {"exit", "next"} => hs'[h] = hs[h]
    /\ hs["run"].pc \in {"start", "queue"} => hs'["run"] = hs["run"]

LEMMA UnheardKeeps ==
    ASSUME ToldOK, budget.crashes = 0, Unheard, Silent
    PROVE  ToldOK'
<1>1. Failing => Failing'
  BY DEF Unheard, Failing
<1>2. Terminated => Terminated'
  BY DEF Unheard, Terminated
<1>3. \A h \in Executors : Attempting(h)' <=> Attempting(h)
  BY DEF Unheard, Attempting
<1> QED
  BY <1>1, <1>2, <1>3 DEF ToldOK, Unheard, Silent, SameRecords

(* What a handler does silently inside an execution. *)
Quiet(h) ==
    \/ BeginExecution(h)
    \/ \E i \in Ops : \/ StepCancelled(h, i) \/ StepCached(h, i)
                      \/ PauseSkipped(h, i) \/ SleepUntilPast(h, i)
    \/ clearPendingResumeAt(h) \/ ProgramEnds(h)

(* run() and runAsync().                                                   *)
LEMMA ToldRequest ==
    ASSUME TypeOK, Coordination, ToldOK, budget.crashes = 0, Silent,
           NEW p \in {"start", "queue"}, Initialize(p)
    PROVE  ToldOK'
<1>1. /\ wf.status = NoWorkflow /\ wf = EmptyStorage /\ AllIdle
      /\ wf'.status = "Pending" /\ wf'.completedSteps = {} /\ UNCHANGED steps
  BY DEF Initialize, Coordination, PurgeOK, TypeOK, WorkflowKeys
<1>2. /\ Elsewhere("run") /\ hs'["run"].pc = p
  BY GotoDoes DEF Initialize, Handlers, Executors
<1>3. \A h \in Executors : ~Attempting(h)'
  BY <1>1, <1>2 DEF Attempting, Elsewhere, AllIdle, Handlers
<1>4. ~Failing /\ ~Terminated /\ \A h \in Executors : ~Attempting(h)
  BY <1>1, NobodyAttempts DEF NoWorkflow, Terminated
<1>5. view.phase = "none" /\ view.open = 0 /\ view.completed = {}
  BY <1>1, <1>4 DEF ToldOK, Phase, NoWorkflow, EmptyStorage
<1> QED
  BY <1>1, <1>2, <1>3, <1>4, <1>5 DEF ToldOK, Silent

(* Of most silent steps the consumer need not know.                        *)
LEMMA UntoldUnheard ==
    ASSUME TypeOK, Coordination, EndsOK, budget.crashes = 0, Untold, ~Crash
    PROVE  \/ Unheard
           \/ \E p \in {"start", "queue"} : Initialize(p)
           \/ \E h \in Executors : Quiet(h) \/ \E i \in Ops : EffectSucceeds(h, i)
<1> USE DEF storage, env, At, SameRecords, Handlers, Executors
<1> DEFINE Aside(h) ==
        /\ Elsewhere(h)
        /\ h = "cancel" \/ /\ ~Attempting(h) /\ ~Attempting(h)'
                           /\ hs[h].pc \notin {"next", "exit", "start", "queue"}
<1>1. ASSUME NEW h \in Handlers, Aside(h), UNCHANGED steps,
             wf'.status = wf.status, wf'.completedSteps = wf.completedSteps
      PROVE  Unheard
  BY <1>1 DEF Unheard, Elsewhere
<1>2. CASE setCancelled \/ CancelScheduled
  <2>1. Aside("cancel")
    BY <1>2, HandlersMove DEF CancelHandler
  <2>2. UNCHANGED steps /\ wf'.status = wf.status /\ wf'.completedSteps = wf.completedSteps
    BY <1>2 DEF setCancelled, CancelScheduled, TypeOK, WorkflowKeys
  <2> QED
    BY <1>1, <2>1, <2>2
<1>3. CASE ScheduleQueued
  <2>1. Elsewhere("run") /\ hs'["run"].pc = "idle" /\ hs["run"].pc = "queued"
    BY <1>3, ReturnDoes DEF ScheduleQueued
  <2> QED
    BY <1>1, <1>3, <2>1 DEF ScheduleQueued, Attempting
<1>4. CASE SilentAlarm
  <2>1. AlarmIgnored
    BY <1>4, NothingToRecover DEF SilentAlarm
  <2>2. Elsewhere("alarm") /\ hs'["alarm"].pc = "idle" /\ hs["alarm"].pc = "alarm"
    BY <2>1, ReturnDoes DEF AlarmIgnored, handleAlarm
  <2> QED
    BY <1>1, <2>1, <2>2 DEF AlarmIgnored, Attempting
<1>5. ASSUME NEW h \in Executors,
             PauseAlarm(h) \/ CancelAlarm(h) \/ schedulePurge(h) \/ PurgeAlarm(h)
      PROVE  Unheard
  <2>1. /\ Elsewhere(h) /\ hs[h].pc \in {"pausing", "cleanup", "purge", "purgeAlarm"}
        /\ hs'[h].pc \in {"pause", "purge", "purgeAlarm", "idle"}
    BY <1>5, GotoDoes, ReturnDoes
       DEF PauseAlarm, CancelAlarm, schedulePurge, PurgeAlarm
  <2>2. UNCHANGED steps /\ wf'.status = wf.status /\ wf'.completedSteps = wf.completedSteps
    BY <1>5 DEF PauseAlarm, CancelAlarm, schedulePurge, PurgeAlarm, TypeOK, WorkflowKeys
  <2> QED
    BY <1>1, <2>1, <2>2 DEF Attempting
<1>6. CASE Platform
  <2>1. UNCHANGED <<wf, steps>>
    BY <1>6 DEF Platform, Construct, DeliverAlarm, WakeByAlarm
  <2>2. CASE hs' = hs
    BY <2>1, <2>2 DEF Unheard, Attempting
  <2>3. CASE hs' # hs
    <3>1. /\ Elsewhere("alarm") /\ hs["alarm"].pc = "idle" /\ hs'["alarm"].pc = "alarm"
      BY <1>6, <2>3, GotoDoes
         DEF Platform, Construct, DeliverAlarm, WakeByAlarm, Coordination,
             PositionsOK, AllIdle
    <3> QED
      BY <1>1, <2>1, <3>1 DEF Attempting
  <2> QED
    BY <2>2, <2>3
<1>7. CASE Evict \/ Tick \/ UNCHANGED vars
  BY <1>7 DEF Evict, Tick, vars, Unheard, Attempting
<1>8. ASSUME NEW h \in Executors, SilentExecution(h)
      PROVE  Unheard \/ Quiet(h)
  BY <1>5, <1>8 DEF SilentExecution, Quiet
<1> QED
  BY <1>2, <1>3, <1>4, <1>6, <1>7, <1>8 DEF Untold, Client, Run, RunAsync

(* What the consumer knows when a handler executes the program.            *)
LEMMA KnownInside ==
    ASSUME ToldOK, budget.crashes = 0, NEW h \in Executors, Alone(h), hs[h].pc # "exit"
    PROVE  /\ view.phase = "started" /\ ~Failing
           /\ view.completed = wf.completedSteps
           /\ view.open = IF Attempting(h) THEN hs[h].op ELSE view.open
           /\ ~Attempting(h) => view.open = 0
           /\ \A i \in Steps :
                 \/ steps[i].result
                 \/ steps[i].attempt = view.attempts[i] + IF view.open = i THEN 0 ELSE 1
<1>1. ~Terminated /\ Phase(wf.status) = {"started"} /\ wf.status # "Pending"
  BY DEF Alone, Terminated, Phase, NoWorkflow
<1>2. \A o \in Executors \ {h} : hs[o].pc \notin ExecutionPcs
  BY DEF Alone
<1>3. ~Failing /\ \A o \in Executors \ {h} : ~Attempting(o)
  BY <1>2 DEF Failing, Attempting, ExecutionPcs
<1> QED
  BY <1>1, <1>3 DEF ToldOK

(* What it has to know after the handler has moved.                        *)
LEMMA KnowsInside ==
    ASSUME NEW h \in Executors, Alone(h), Still,
           view'.phase = "started",
           view'.completed = wf'.completedSteps,
           Attempting(h)' => view'.open = hs'[h].op,
           view'.open # 0 => Attempting(h)',
           \A i \in Steps :
              \/ steps'[i].result
              \/ Failing'
              \/ steps'[i].attempt = view'.attempts[i] + IF view'.open = i THEN 0 ELSE 1
    PROVE  ToldOK'
<1>1. view'.phase \in Phase(wf'.status)
  BY DEF Alone, Still, Phase, NoWorkflow
<1>2. \A o \in Executors \ {h} : ~Attempting(o)'
  BY DEF Alone, Attempting, ExecutionPcs
<1> QED
  BY <1>1, <1>2 DEF ToldOK

(* A silent step of the program.                                           *)
LEMMA ToldQuiet ==
    ASSUME TypeOK, Coordination, ReplayOK, ToldOK, budget.crashes = 0, Silent,
           NEW h \in Executors, Quiet(h) \/ \E i \in Ops : EffectSucceeds(h, i)
    PROVE  ToldOK'
<1> USE DEF storage, env, At
<1>1. Alone(h) /\ Still /\ Kind(h) /\ h \in Handlers
  BY InsideKinds DEF Quiet, InsideAction, Step, Effect, Sleep
<1>2. CASE Quiet(h)
  <2>1. hs[h].pc \in {"begin", "next", "slept"} /\ hs'[h].pc \in {"next", "exit"}
    BY <1>1, <1>2, AdvanceDoes, ExitDoes
       DEF Quiet, BeginExecution, StepCancelled, StepCached, PauseSkipped, PausePoint,
           Reaches, SleepUntilPast, clearPendingResumeAt, ProgramEnds, TypeOK,
           HandlerState
  <2>2. UNCHANGED steps /\ wf'.completedSteps = wf.completedSteps
    BY <1>2 DEF Quiet, BeginExecution, StepCancelled, StepCached, PauseSkipped,
       SleepUntilPast, clearPendingResumeAt, ProgramEnds, TypeOK, WorkflowKeys
  <2>3. ~Attempting(h) /\ ~Attempting(h)' /\ hs[h].pc # "exit"
    BY <2>1 DEF Attempting
  <2>4. /\ view.phase = "started" /\ view.completed = wf.completedSteps /\ view.open = 0
        /\ \A i \in Steps :
              \/ steps[i].result
              \/ steps[i].attempt = view.attempts[i] + IF view.open = i THEN 0 ELSE 1
    BY <1>1, <2>3, KnownInside
  <2> QED
    BY <1>1, <2>2, <2>3, <2>4, KnowsInside DEF Silent
<1>3. ASSUME NEW i \in Ops, EffectSucceeds(h, i)
      PROVE  ToldOK'
  <2>1. hs[h].pc = "effect" /\ hs[h].op = i
    BY <1>3 DEF EffectSucceeds
  <2>2. hs'[h].pc = "mark" /\ hs'[h].op = i
    <3>1. hs'[h] = [hs[h] EXCEPT !.pc = "mark", !.at = NoTime]
      BY <1>1, <1>3 DEF EffectSucceeds, TypeOK
    <3> QED
      BY <1>1, <2>1, <3>1 DEF TypeOK, HandlerState
  <2>3. /\ wf' = wf /\ \A j \in Steps : /\ steps[j].result => steps'[j].result
                                        /\ steps'[j].attempt = steps[j].attempt
    <3>1. steps' = [steps EXCEPT ![i].result = TRUE]
      BY <1>3 DEF EffectSucceeds
    <3>2. \A j \in Steps : /\ steps[j].result => steps'[j].result
                           /\ steps'[j].attempt = steps[j].attempt
      BY <3>1, StepsAreOps DEF TypeOK, StepKeys
    <3> QED
      BY <1>3, <3>2 DEF EffectSucceeds
  <2>4. Attempting(h) /\ Attempting(h)' /\ hs[h].pc # "exit"
    BY <2>1, <2>2 DEF Attempting
  <2>5. /\ view.phase = "started" /\ view.completed = wf.completedSteps /\ view.open = i
        /\ \A j \in Steps :
              \/ steps[j].result
              \/ steps[j].attempt = view.attempts[j] + IF view.open = j THEN 0 ELSE 1
    BY <1>1, <2>1, <2>4, KnownInside
  <2> QED
    BY <1>1, <2>2, <2>3, <2>4, <2>5, KnowsInside DEF Silent
<1> QED
  BY <1>2, <1>3

(* A step of the program that is told: an attempt is begun or settled.     *)
LEMMA ToldAttempt ==
    ASSUME TypeOK, Coordination, ReplayOK, ViewOK, ToldOK, budget.crashes = 0,
           NEW h \in Executors, NEW i \in Ops, TellsStep(h, i)
    PROVE  ToldOK'
<1> USE DEF storage, env, At
<1>1. Alone(h) /\ Still /\ Kind(h) /\ h \in Handlers
  BY ToldIsInside, InsideKinds
<1>2. hs[h].op = i /\ hs[h].pc \in {"next", "effect", "mark"}
  BY DEF TellsStep, EmitsGivenUp, StepGivenUp, EmitsBegin, StepBegins, Fresh, Reaches,
         markStepCompleted, EmitsFailure, EffectFails, EmitsRetry, EffectRetries,
         EmitsSleep, PauseOver, PausePoint, SleepBegins, SleepUntilBegins
<1>3. /\ view.phase = "started" /\ ~Failing /\ view.completed = wf.completedSteps
      /\ view.open = IF Attempting(h) THEN i ELSE 0
      /\ \A j \in Steps :
            \/ steps[j].result
            \/ steps[j].attempt = view.attempts[j] + IF view.open = j THEN 0 ELSE 1
  BY <1>1, <1>2, KnownInside
<1>4. i # 0 /\ i \in Nat
  BY StepsAreOps
<1>5. CASE EmitsBegin(h, i)
  <2>1. StepBegins(h, i) /\ i \in Steps
    BY <1>5 DEF EmitsBegin, StepBegins, Fresh, Reaches, Steps
  <2>2. hs'[h].pc = "effect" /\ hs'[h].op = i /\ hs[h].pc = "next" /\ wf' = wf
    <3>1. hs'[h] = [hs[h] EXCEPT !.pc = "effect", !.at = now]
      BY <1>1, <2>1 DEF StepBegins, TypeOK
    <3> QED
      BY <1>1, <1>2, <2>1, <3>1 DEF StepBegins, Fresh, Reaches, TypeOK, HandlerState
  <2>3. \A j \in Steps : /\ steps'[j].result = steps[j].result
                         /\ steps'[j].attempt = steps[j].attempt
    BY <2>1, StepsAreOps DEF StepBegins, MarkStarted, TypeOK, StepKeys
  <2>4. /\ view'.phase = view.phase /\ view'.open = i
        /\ view'.attempts = Attempted(i) /\ view'.completed = view.completed
    BY <1>5, BeginHears DEF Hears
  <2>5. /\ view'.attempts[i] = steps[i].attempt /\ steps[i].attempt \in Nat
        /\ \A j \in Steps \ {i} : view'.attempts[j] = view.attempts[j]
    BY <2>4, StepsAreOps DEF Attempted, ViewOK, TypeOK, StepKeys
  <2>6. ~Attempting(h) /\ Attempting(h)'
    BY <2>2 DEF Attempting
  <2>7. \A j \in Steps :
            \/ steps'[j].result
            \/ steps'[j].attempt = view'.attempts[j] + IF view'.open = j THEN 0 ELSE 1
    BY <1>3, <1>4, <2>3, <2>4, <2>5, <2>6, StepsAreOps
  <2> QED
    BY <1>1, <1>3, <2>2, <2>4, <2>6, <2>7, KnowsInside
<1>6. CASE EmitsGivenUp(h, i) \/ EmitsFailure(h, i)
  <2>1. /\ hs'[h].pc = "exit" /\ hs'[h].exit = "Fail" /\ wf' = wf
    <3>1. CASE StepGivenUp(h, i)
      BY <1>1, <3>1, ExitDoes DEF StepGivenUp
    <3>2. CASE EffectFails(h, i)
      <4>1. hs'[h] = [hs[h] EXCEPT !.pc = "exit", !.exit = "Fail", !.at = NoTime]
        BY <1>1, <3>2 DEF EffectFails, TypeOK
      <4> QED
        BY <1>1, <3>2, <4>1 DEF EffectFails, TypeOK, HandlerState
    <3> QED
      BY <1>6, <3>1, <3>2 DEF EmitsGivenUp, EmitsFailure
  <2>2. Failing' /\ ~Attempting(h)'
    BY <2>1 DEF Failing, Attempting
  <2>3. view'.phase = view.phase /\ view'.open = 0 /\ view'.completed = view.completed
    BY <1>6, GivenUpHears, AttemptHears DEF Hears
  <2> QED
    BY <1>1, <1>3, <2>1, <2>2, <2>3, KnowsInside
<1>7. CASE markStepCompleted(h, i) /\ emitEvent(stepEvent("step.completed", i))
  <2>1. hs'[h].pc = "next" /\ hs[h].pc = "mark"
    BY <1>1, <1>7, AdvanceDoes DEF markStepCompleted
  <2>2. /\ wf'.completedSteps = wf.completedSteps \union {i} /\ UNCHANGED steps
    BY <1>7 DEF markStepCompleted, TypeOK, WorkflowKeys
  <2>3. steps[i].result /\ i \in Steps
    BY <1>2, <2>1 DEF ReplayOK
  <2>4. /\ view'.phase = view.phase /\ view'.open = 0
        /\ view'.attempts = view.attempts
        /\ view'.completed = view.completed \union {i}
    BY <1>7, AttemptHears DEF Hears
  <2>5. ~Attempting(h)' /\ Attempting(h)
    BY <2>1 DEF Attempting
  <2>6. \A j \in Steps :
            \/ steps'[j].result
            \/ steps'[j].attempt = view'.attempts[j] + IF view'.open = j THEN 0 ELSE 1
    BY <1>3, <1>4, <2>2, <2>3, <2>4, <2>5, StepsAreOps
  <2> QED
    BY <1>1, <1>3, <2>2, <2>4, <2>5, <2>6, KnowsInside
<1>8. CASE EmitsRetry(h, i)
  <2>1. EffectRetries(h, i) /\ hs[h].pc = "effect" /\ i \in Steps /\ wf' = wf
    BY <1>2, <1>8 DEF EmitsRetry, EffectRetries, ReplayOK
  <2>2. hs'[h].pc = "pausing"
    BY <1>1, <2>1 DEF EffectRetries, TypeOK
  <2>3. /\ steps'[i].attempt = steps[i].attempt + 1 /\ steps[i].attempt \in Nat
        /\ \A j \in Steps \ {i} : steps'[j] = steps[j]
    BY <2>1, StepsAreOps DEF EffectRetries, TypeOK, StepKeys
  <2>4. /\ view'.phase = view.phase /\ view'.open = 0
        /\ view'.attempts = view.attempts /\ view'.completed = view.completed
    BY <1>8, AttemptHears DEF Hears
  <2>5. ~Attempting(h)' /\ Attempting(h)
    BY <2>1, <2>2 DEF Attempting
  <2>6. ~steps[i].result
    BY <1>2, <2>1 DEF ReplayOK
  <2>7. /\ steps[i].attempt = view.attempts[i] /\ view.attempts[i] \in Nat
    <3>1. view.attempts[i] \in Nat
      BY DEF ViewOK
    <3> QED
      BY <1>3, <2>1, <2>5, <2>6, <3>1
  <2>8. \A j \in Steps :
            \/ steps'[j].result
            \/ steps'[j].attempt = view'.attempts[j] + IF view'.open = j THEN 0 ELSE 1
    BY <1>3, <1>4, <2>3, <2>4, <2>5, <2>7, StepsAreOps
  <2> QED
    BY <1>1, <1>3, <2>1, <2>4, <2>5, <2>8, KnowsInside
<1>9. CASE EmitsSleep(h, i)
  <2>1. hs'[h].pc \in {"slept", "pausing"} /\ hs[h].pc = "next"
    BY <1>1, <1>9, GotoDoes, PauseUntilDoes
       DEF EmitsSleep, PauseOver, PausePoint, SleepBegins, SleepUntilBegins, Reaches
  <2>2. UNCHANGED steps /\ wf'.completedSteps = wf.completedSteps
    BY <1>9 DEF EmitsSleep, PauseOver, SleepBegins, SleepUntilBegins, TypeOK,
                WorkflowKeys
  <2>3. /\ view'.phase = view.phase /\ view'.open = 0
        /\ view'.attempts = view.attempts /\ view'.completed = view.completed
    BY <1>9, SleepHears DEF Hears
  <2>4. ~Attempting(h)' /\ ~Attempting(h)
    BY <2>1 DEF Attempting
  <2> QED
    BY <1>1, <1>3, <2>2, <2>3, <2>4, KnowsInside
<1> QED
  BY <1>5, <1>6, <1>7, <1>8, <1>9 DEF TellsStep

(* After a purge nothing is known, and nothing is there.                   *)
LEMMA ToldPurge ==
    ASSUME TypeOK, Coordination', executePurge, view' = NothingKnown
    PROVE  ToldOK'
<1>1. wf' = EmptyStorage /\ wf'.status = NoWorkflow /\ steps' = EmptySteps
  BY DEF executePurge, EmptyStorage
<1>2. \A h \in Executors : hs'[h].pc = "idle"
  BY <1>1 DEF Coordination, PurgeOK, AllIdle, Handlers
<1>3. \A i \in Steps : steps'[i].attempt = 1
  BY <1>1, StepsAreOps DEF EmptySteps
<1>4. /\ view'.phase \in Phase(wf'.status) /\ view'.open = 0 /\ view'.completed = {}
      /\ \A i \in Steps : view'.attempts[i] = 0 /\ i # 0
  <2>1. Phase(NoWorkflow) = {"none"}
    BY DEF Phase, NoWorkflow
  <2>2. \A i \in Steps : view'.attempts[i] = 0 /\ i # 0
    BY StepsAreOps DEF NothingKnown
  <2> QED
    BY <1>1, <2>1, <2>2 DEF NothingKnown
<1> QED
  BY <1>1, <1>2, <1>3, <1>4 DEF ToldOK, EmptyStorage, Attempting

LEMMA NextTold ==
    ASSUME RInv, Coordination', EndsOK, ViewOK, ToldOK, [EventNext]_eventVars
    PROVE  ToldOK'
<1> USE DEF RInv, IInv
<1>1. CASE budget'.crashes # 0
  BY <1>1 DEF ToldOK
<1>2. CASE budget'.crashes = 0
  <2>1. budget.crashes = 0 /\ ~Crash
    BY <1>2, EventsAreSteps, CrashesCount
  <2>2. CASE executePurge /\ view' = NothingKnown
    BY <2>2, ToldPurge
  <2>3. CASE Untold /\ Silent
    BY <2>1, <2>3, UntoldUnheard, UnheardKeeps, ToldRequest, ToldQuiet
  <2>4. ASSUME NEW t \in LifecycleEvent, Tells(t), emitEvent(event(t))
        PROVE  ToldOK'
    BY <2>1, <2>4, ToldTells
  <2>5. ASSUME NEW h \in Executors, NEW i \in Ops, TellsStep(h, i)
        PROVE  ToldOK'
    BY <2>1, <2>5, ToldAttempt
  <2> QED
    BY <2>2, <2>3, <2>4, <2>5, EventCases
<1> QED
  BY <1>1, <1>2

-----------------------------------------------------------------------------
(* AsleepOK. *)

Asleep ==
    wf.pendingResumeAt # NoTime /\ \A h \in Executors : hs[h].pc # "slept"

Awaited ==
    wf.pendingResumeAt # NoTime =>
       \/ Terminated \/ now >= wf.pendingResumeAt
       \/ SuspendedUntil(wf.pendingResumeAt)

(* Outside of a replay no sleep is begun or over, and what is waited for   *)
(* stays so.                                                               *)
LEMMA AsleepOutside ==
    ASSUME TypeOK, TypeOK', Outside, Stays, Awaited
    PROVE  (Asleep' <=> Asleep) /\ Awaited'
<1>1. /\ wf'.pendingResumeAt = wf.pendingResumeAt /\ now <= now'
      /\ Terminated => Terminated'
      /\ \A o \in Executors : hs'[o].pc = "slept" <=> hs[o].pc = "slept"
  <2>1. \A o \in Executors : hs'[o].pc = "slept" <=> hs[o].pc = "slept"
    BY DEF Outside, Unmoved, RunPcs
  <2> QED
    BY <2>1 DEF Outside, SamePauses
<1>2. wf.pendingResumeAt \in Int /\ now \in Nat /\ now' \in Nat
  BY Numbers DEF TypeOK
<1>3. Awaited'
  <2>1. CASE now >= wf.pendingResumeAt \/ wf.pendingResumeAt = NoTime \/ Terminated
    BY <1>1, <1>2, <2>1 DEF Awaited
  <2>2. CASE SuspendedUntil(wf.pendingResumeAt)
    <3>1. ASSUME NEW t \in Int, SuspendedUntil(t)
          PROVE  SuspendedUntil(t)' \/ t <= now' \/ Terminated'
      BY <3>1 DEF Stays
    <3>2. \/ SuspendedUntil(wf.pendingResumeAt)' \/ Terminated'
          \/ wf.pendingResumeAt <= now'
      BY <1>1, <1>2, <2>2, <3>1 DEF SuspendedUntil
    <3> QED
      BY <1>1, <1>2, <3>2 DEF Awaited
  <2> QED
    BY <2>1, <2>2 DEF Awaited
<1> QED
  BY <1>1, <1>3 DEF Asleep

(* In a replay nothing that is not due is waited for.                      *)
LEMMA DueInside ==
    ASSUME Awaited, NEW h \in Executors, Alone(h)
    PROVE  wf.pendingResumeAt # NoTime => ResumeTimePassed
BY NotSuspended DEF Awaited, ResumeTimePassed

(* A step of the program leaves the stored wake-up time alone, completes   *)
(* the pause, forgets the time or begins a pause.                          *)
LEMMA AsleepInside ==
    ASSUME TypeOK, TypeOK', Awaited, NEW h \in Executors, Kind(h), Alone(h), Still
    PROVE  /\ Awaited'
           /\ hs'[h].pc = "slept" => ~Asleep'
           /\ hs'[h].pc = "pausing" /\ hs[h].op \in Pauses => Asleep'
           /\ hs'[h].pc # "slept" /\ ~(hs'[h].pc = "pausing" /\ hs[h].op \in Pauses) =>
                 (Asleep' <=> Asleep)
<1>1. \A o \in Executors \ {h} : hs[o].pc # "slept" /\ hs'[o].pc # "slept"
  BY DEF Alone, ExecutionPcs
<1>2. wf.pendingResumeAt \in Int /\ now \in Nat /\ NoTime = -1
  BY Numbers
<1>3. CASE SamePauses /\ hs[h].pc # "slept" /\ hs'[h].pc # "slept"
           /\ ~(hs'[h].pc = "pausing" /\ hs[h].op \in Pauses)
  <2>1. Awaited'
    BY <1>3, DueInside DEF SamePauses, Still, Awaited, ResumeTimePassed
  <2>2. Asleep' <=> Asleep
    BY <1>1, <1>3 DEF SamePauses, Asleep
  <2> QED
    BY <1>3, <2>1, <2>2
<1>4. CASE Completes(h)
  <2>1. Awaited'
    BY <1>4 DEF Completes, Still, Awaited, ResumeTimePassed
  <2> QED
    BY <1>4, <2>1 DEF Completes, Asleep
<1>5. CASE Forgets(h)
  <2>1. Awaited' /\ ~Asleep' /\ ~Asleep
    BY <1>5 DEF Forgets, Awaited, Asleep
  <2> QED
    BY <1>5, <2>1 DEF Forgets
<1>6. CASE FallsAsleep(h) \/ FallsAsleepUntil(h)
  <2>1. /\ hs'[h].pc = "pausing" /\ hs[h].op \in Pauses
        /\ hs'[h].resumeAt = wf'.pendingResumeAt
    BY <1>6 DEF FallsAsleep, FallsAsleepUntil, Waits
  <2>2. wf'.pendingResumeAt \in Int /\ wf'.pendingResumeAt # NoTime
    BY <1>2, <1>6, <2>1, Numbers, PausesAreOps DEF FallsAsleep, FallsAsleepUntil
  <2>3. Awaited'
    BY <2>1, <2>2 DEF Awaited, SuspendedUntil
  <2>4. Asleep'
    BY <1>1, <2>1, <2>2 DEF Asleep
  <2> QED
    BY <2>1, <2>3, <2>4
<1>7. Leaves(h) \/ Passes(h) \/ Tries(h) => SamePauses /\ hs[h].pc # "slept"
                              /\ hs'[h].pc \in {"exit", "next", "effect"}
  BY DEF Leaves, Passes, Tries, Steady
<1>8. Enters(h) \/ Succeeds(h) \/ Skips(h) \/ Overslept(h) =>
          SamePauses /\ hs[h].pc # "slept" /\ hs'[h].pc \in {"next", "mark"}
  BY DEF Enters, Succeeds, Skips, Overslept, Waits
<1>9. Retries(h) => SamePauses /\ hs[h].pc # "slept" /\ hs'[h].pc = "pausing"
                              /\ hs[h].op \notin Pauses
  BY PausesAreOps DEF Retries
<1> QED
  BY <1>3, <1>4, <1>5, <1>6, <1>7, <1>8, <1>9 DEF Kind

(* An event of the workflow is told outside of a replay.                   *)
LEMMA TellsOutside ==
    ASSUME TypeOK, Coordination, ReplayOK, EndsOK, budget.crashes = 0,
           NEW t \in LifecycleEvent, Tells(t), NEW h \in Executors, InsideAction(h)
    PROVE  FALSE
<1>1. wf.status = "Running" /\ wf'.status = "Running"
  BY InsideKinds DEF Alone, Still
<1>2. t \in {"started", "resumed"}
  BY <1>1, TellsStatus DEF Phase, NoWorkflow
<1>3. Start \/ StartQueued \/ Resume
  BY <1>2, NothingToRecover DEF Tells
<1> QED
  BY <1>1, <1>3 DEF Start, StartQueued, Resume, handleAlarm, At, Coordination, RunOK

(* No sleep is begun or over in silence.                                   *)
LEMMA UntoldInside ==
    ASSUME TypeOK, Coordination, ReplayOK, EndsOK, budget.crashes = 0, Untold, ~Crash,
           NEW h \in Executors, InsideAction(h)
    PROVE  /\ hs'[h].pc # "slept"
           /\ ~(hs'[h].pc = "pausing" /\ hs[h].op \in Pauses)
<1> USE DEF storage, env, At
<1>1. Kind(h) /\ Alone(h) /\ h \in Handlers
  BY InsideKinds
<1>2. ASSUME \/ hs'[h].pc = "slept"
             \/ hs'[h].pc = "pausing" /\ hs[h].op \in Pauses
      PROVE  hs[h].pc = "next" /\ hs'[h] # hs[h]
  <2>1. Completes(h) \/ FallsAsleep(h) \/ FallsAsleepUntil(h)
    BY <1>1, <1>2, PausesAreOps
       DEF Kind, Enters, Leaves, Passes, Tries, Succeeds, Retries, Skips, Forgets,
           Overslept
  <2> QED
    BY <1>2, <2>1 DEF Completes, FallsAsleep, FallsAsleepUntil, Waits
<1>3. CASE Unheard
  BY <1>2, <1>3 DEF Unheard
<1>4. ASSUME NEW p \in {"start", "queue"}, Initialize(p)
      PROVE  FALSE
  BY <1>1, <1>4 DEF Initialize, Alone, NoWorkflow
<1>5. ASSUME NEW o \in Executors, Quiet(o) \/ \E i \in Ops : EffectSucceeds(o, i)
      PROVE  hs'[h].pc \in {"next", "exit", "mark"}
  <2>1. InsideAction(o) /\ o \in Handlers
    BY <1>5 DEF Quiet, InsideAction, Step, Effect, Sleep, Handlers
  <2>2. o = h
    BY <1>1, <2>1, InsideKinds DEF Alone
  <2>3. CASE Quiet(o)
    BY <1>1, <2>2, <2>3, AdvanceDoes, ExitDoes
       DEF Quiet, BeginExecution, StepCancelled, StepCached, PauseSkipped,
           SleepUntilPast, clearPendingResumeAt, ProgramEnds, TypeOK, HandlerState
  <2>4. ASSUME NEW i \in Ops, EffectSucceeds(o, i)
        PROVE  hs'[h].pc = "mark"
    BY <1>1, <2>2, <2>4 DEF EffectSucceeds, TypeOK, HandlerState
  <2> QED
    BY <1>5, <2>3, <2>4
<1> QED
  BY <1>3, <1>4, <1>5, UntoldUnheard

LEMMA NextAsleep ==
    ASSUME WInv, WInv', EndsOK, ViewOK, AsleepOK, [EventNext]_eventVars
    PROVE  AsleepOK'
<1> SUFFICES ASSUME Undisturbed'
             PROVE  AsleepOK'
  BY DEF AsleepOK
<1> USE DEF WInv, RInv, IInv
<1>0. [Next]_vars
  BY EventsAreSteps
<1>1. ~Crash /\ budget.crashes = 0
  BY <1>0, CrashesCount DEF Undisturbed
<1>2. ASSUME view'.asleep <=> Asleep', Awaited'
      PROVE  AsleepOK'
  BY <1>2 DEF AsleepOK, Asleep, Awaited
<1>3. CASE executePurge /\ view' = NothingKnown
  <2>1. wf'.pendingResumeAt = NoTime /\ ~view'.asleep
    BY <1>3 DEF executePurge, EmptyStorage, NothingKnown
  <2> QED
    BY <1>2, <2>1 DEF Asleep, Awaited
<1>4. CASE /\ ~executePurge /\ (view'.asleep <=> view.asleep)
           /\ \A h \in Executors : ~InsideAction(h)
  <2>1. Outside
    BY <1>0, <1>1, <1>4, InsideOrOutside
  <2>2. Undisturbed
    BY <1>1, <2>1 DEF Undisturbed, Outside
  <2>3. (view.asleep <=> Asleep) /\ Awaited /\ Firmly
    BY <2>2 DEF AsleepOK, Asleep, Awaited, SleepsOK, Firmly
  <2>4. Stays
    BY <1>0, <1>1, <1>4, <2>3, StaysOutside
  <2>5. (Asleep' <=> Asleep) /\ Awaited'
    BY <2>1, <2>3, <2>4, AsleepOutside
  <2> QED
    BY <1>2, <1>4, <2>3, <2>5
<1>5. ASSUME NEW h \in Executors, InsideAction(h)
      PROVE  /\ view.asleep <=> Asleep
             /\ Awaited /\ Awaited' /\ Alone(h)
             /\ hs'[h].pc = "slept" => ~Asleep'
             /\ hs'[h].pc = "pausing" /\ hs[h].op \in Pauses => Asleep'
             /\ hs'[h].pc # "slept" /\ ~(hs'[h].pc = "pausing" /\ hs[h].op \in Pauses) =>
                   (Asleep' <=> Asleep)
  <2>1. Kind(h) /\ Alone(h) /\ Still
    BY <1>5, InsideKinds
  <2>2. (view.asleep <=> Asleep) /\ Awaited
    BY <2>1 DEF AsleepOK, Asleep, Awaited, Undisturbed, Still
  <2> QED
    BY <2>1, <2>2, AsleepInside
<1>6. CASE Untold /\ Silent
  <2>1. ~executePurge
    BY <1>6, UntoldIsNoPurge
  <2>2. ASSUME NEW h \in Executors, InsideAction(h)
        PROVE  AsleepOK'
    <3>1. /\ hs'[h].pc # "slept"
          /\ ~(hs'[h].pc = "pausing" /\ hs[h].op \in Pauses)
      BY <1>1, <1>6, <2>2, UntoldInside
    <3> QED
      BY <1>2, <1>5, <1>6, <2>2, <3>1 DEF Silent
  <2> QED
    BY <1>4, <1>6, <2>1, <2>2 DEF Silent
<1>7. ASSUME NEW t \in LifecycleEvent, Tells(t), emitEvent(event(t))
      PROVE  AsleepOK'
  <2>1. view'.asleep = view.asleep
    BY <1>7, LearnsLifecycle DEF ViewOK, emitEvent, LifecycleLearned
  <2>2. ~executePurge
    BY <1>7, TellsStatus DEF executePurge, EmptyStorage
  <2>3. \A h \in Executors : ~InsideAction(h)
    BY <1>1, <1>7, TellsOutside
  <2> QED
    BY <1>4, <2>1, <2>2, <2>3
<1>8. ASSUME NEW h \in Executors, NEW i \in Ops, TellsStep(h, i)
      PROVE  AsleepOK'
  <2> USE DEF storage, env, At
  <2>1. InsideAction(h) /\ h \in Handlers
    BY <1>8, ToldIsInside DEF Handlers
  <2>2. CASE EmitsSleep(h, i)
    <3>1. hs[h].op = i /\ i \in Pauses
      BY <2>2 DEF EmitsSleep, PauseOver, PausePoint, SleepBegins, SleepUntilBegins,
                  Reaches, Pauses
    <3>2. CASE PauseOver(h, i) /\ view'.asleep = FALSE
      <4>1. hs'[h].pc = "slept"
        BY <2>1, <3>2, GotoDoes DEF PauseOver
      <4> QED
        BY <1>2, <1>5, <2>1, <3>2, <4>1
    <3>3. CASE (SleepBegins(h, i) \/ SleepUntilBegins(h, i)) /\ view'.asleep = TRUE
      <4>1. hs'[h].pc = "pausing"
        BY <2>1, <3>3, PauseUntilDoes DEF SleepBegins, SleepUntilBegins
      <4> QED
        BY <1>2, <1>5, <2>1, <3>1, <3>3, <4>1
    <3> QED
      BY <2>2, <3>2, <3>3, SleepHears DEF Hears
  <2>3. CASE ~EmitsSleep(h, i)
    <3>1. view'.asleep = view.asleep
      BY <1>8, <2>3, BeginHears, GivenUpHears, AttemptHears DEF TellsStep, Hears
    <3>2. Step(h, i) \/ Effect(h, i)
      BY <1>8, <2>3 DEF TellsStep, EmitsGivenUp, EmitsBegin, EmitsFailure, EmitsRetry,
                        Step, Effect
    <3>3. hs[h].op = i /\ i \notin Pauses
      BY <3>2, PausesAreOps
         DEF Step, StepCancelled, StepCached, StepGivenUp, StepBegins, Fresh, Reaches,
             markStepCompleted, Effect, EffectSucceeds, EffectFails, EffectRetries,
             ReplayOK, Pauses
    <3>4. hs'[h].pc # "slept"
      BY <2>1, <3>3, InsideKinds
         DEF Kind, Enters, Leaves, Passes, Tries, Succeeds, Retries, Skips, Completes,
             Waits, Forgets, FallsAsleep, FallsAsleepUntil, Overslept
    <3> QED
      BY <1>2, <1>5, <2>1, <3>1, <3>3, <3>4
  <2> QED
    BY <2>2, <2>3
<1> QED
  BY <1>3, <1>6, <1>7, <1>8, EventCases

-----------------------------------------------------------------------------
(* EventsAreOrderly. *)

(* A consumer that knows everything expects what becomes of the workflow.  *)
LEMMA TellsExpected ==
    ASSUME TypeOK, Coordination, EndsOK, ToldOK, budget.crashes = 0,
           NEW t \in LifecycleEvent, Tells(t)
    PROVE  Expected(view, event(t))
<1> USE DEF At, handleAlarm
<1>1. view.open = 0
  BY TellsAlone DEF ToldOK
<1>2. event(t).type = t
  BY DEF event
<1>3. \/ view.phase \in Phase(wf.status)
      \/ wf.status = "Pending" /\ view.phase = "none"
  BY DEF ToldOK
<1>4. /\ wf.status = "Pending" => view.phase = "none"
      /\ wf.status = "Queued" => view.phase = "queued"
      /\ wf.status = "Paused" => view.phase = "paused"
      /\ wf.status = "Running" => view.phase = "started"
  BY <1>3 DEF Phase, NoWorkflow
<1>5. CASE (Start \/ StartQueued) /\ t = "started"
  <2>1. wf.status \in {"Pending", "Queued"}
    BY <1>5 DEF Start, StartQueued, Coordination, RunOK
  <2>2. view.phase \in {"none", "queued"}
    BY <1>4, <2>1
  <2> QED
    BY <1>2, <1>5, <2>2 DEF Expected
<1>6. CASE Queue /\ t = "queued"
  <2>1. view.phase = "none"
    BY <1>4, <1>6 DEF Queue, Coordination, RunOK
  <2> QED
    BY <1>2, <1>6, <2>1 DEF Expected
<1>7. CASE (Resume \/ resetRecoveryAttempts) /\ t = "resumed"
  <2>1. view.phase = "paused"
    BY <1>4, <1>7, NothingToRecover DEF Resume
  <2> QED
    BY <1>2, <1>7, <2>1 DEF Expected
<1>8. CASE CancelNow /\ t = "cancelled"
  <2>1. view.phase \in {"queued", "paused"}
    BY <1>4, <1>8 DEF CancelNow, Coordination, CancelOK
  <2> QED
    BY <1>2, <1>8, <2>1 DEF Expected
<1>9. ASSUME NEW h \in Executors, Pause(h) \/ Finish(h),
             t \in {"paused", "completed", "failed", "cancelled"}
      PROVE  Expected(view, event(t))
  <2>1. Executes(view)
    BY <1>1, <1>4, <1>9
       DEF Executes, Pause, Finish, Coordination, EngagedOK, ExecutionPcs
  <2> QED
    BY <1>2, <1>9, <2>1 DEF Expected
<1> QED
  BY <1>5, <1>6, <1>7, <1>8, <1>9 DEF Tells

(* It expects each attempt of a step when it is begun.                     *)
LEMMA AttemptExpected ==
    ASSUME TypeOK, Coordination, ReplayOK, ToldOK, EventsAreTrue, budget.crashes = 0,
           NEW h \in Executors, NEW i \in Ops, StepBegins(h, i) \/ StepGivenUp(h, i)
    PROVE  Startable(i)
<1>1. Alone(h) /\ i \in Steps
  BY InsideKinds DEF InsideAction, Step, StepBegins, StepGivenUp, Fresh, Reaches, Steps
<1>2. hs[h].pc = "next" /\ ~steps[i].result /\ i # 0
  BY StepsAreOps DEF StepBegins, StepGivenUp, Fresh, Reaches, At
<1>3. /\ view.phase = "started" /\ view.open = 0
      /\ steps[i].attempt = view.attempts[i] + 1
  BY <1>1, <1>2, KnownInside DEF Attempting
<1> QED
  BY <1>2, <1>3 DEF Startable, Executes, EventsAreTrue

(* It expects a sleep to begin, or to be over, when it does.               *)
LEMMA SleepExpected ==
    ASSUME TypeOK, Coordination, ReplayOK, ToldOK, AsleepOK, Undisturbed,
           NEW h \in Executors, NEW i \in Ops,
           PauseOver(h, i) \/ SleepBegins(h, i) \/ SleepUntilBegins(h, i)
    PROVE  /\ Executes(view)
           /\ PauseOver(h, i) => view.asleep
           /\ SleepBegins(h, i) \/ SleepUntilBegins(h, i) => ~view.asleep
<1>1. Alone(h) /\ budget.crashes = 0
  BY InsideKinds DEF InsideAction, Sleep, Undisturbed
<1>2. hs[h].pc = "next"
  BY DEF PauseOver, PausePoint, SleepBegins, SleepUntilBegins, Reaches, At
<1>3. Executes(view)
  BY <1>1, <1>2, KnownInside DEF Attempting, Executes
<1>4. (view.asleep <=> Asleep) /\ Awaited
  BY DEF AsleepOK, Asleep, Awaited
<1>5. PauseOver(h, i) => Asleep
  <2>1. \A o \in Executors : hs[o].pc # "slept"
    BY <1>1, <1>2 DEF Alone, ExecutionPcs
  <2> QED
    BY <2>1 DEF PauseOver, ResumeTimePassed, Asleep
<1>6. SleepBegins(h, i) \/ SleepUntilBegins(h, i) => ~Asleep
  BY <1>1, <1>4, DueInside DEF SleepBegins, SleepUntilBegins, Asleep
<1> QED
  BY <1>3, <1>4, <1>5, <1>6

LEMMA NextOrderly ==
    ASSUME WInv, EndsOK, ViewOK, EventsAreTrue, ToldOK, AsleepOK, EventsAreOrderly,
           [EventNext]_eventVars
    PROVE  EventsAreOrderly'
<1> SUFFICES ASSUME Undisturbed'
             PROVE  view'.orderly
  BY DEF EventsAreOrderly
<1> USE DEF WInv, RInv, IInv
<1>0. [Next]_vars
  BY EventsAreSteps
<1>1. ~Crash /\ budget.crashes = 0
  BY <1>0, CrashesCount DEF Undisturbed
<1>2. CASE view' = NothingKnown
  BY <1>2 DEF NothingKnown
<1>3. CASE ~executePurge
  <2>1. Undisturbed
    <3>1. CASE Outside
      BY <1>1, <3>1 DEF Undisturbed, Outside
    <3>2. ASSUME NEW h \in Executors, InsideAction(h)
          PROVE  Undisturbed
      BY <3>2, InsideKinds DEF Still, Undisturbed
    <3> QED
      BY <1>0, <1>1, <1>3, <3>1, <3>2, InsideOrOutside
  <2>2. view.orderly
    BY <2>1 DEF EventsAreOrderly
  <2>3. CASE Silent
    BY <2>2, <2>3 DEF Silent
  <2>4. ASSUME NEW t \in LifecycleEvent, Tells(t), emitEvent(event(t))
        PROVE  view'.orderly
    <3>1. LifecycleLearned(view', view, t)
      BY <2>4, LearnsLifecycle DEF ViewOK, emitEvent
    <3> QED
      BY <1>1, <2>2, <2>4, <3>1, TellsExpected DEF LifecycleLearned
  <2>5. ASSUME NEW h \in Executors, NEW i \in Ops, TellsStep(h, i)
        PROVE  view'.orderly
    <3>1. CASE EmitsBegin(h, i) \/ EmitsGivenUp(h, i)
      <4>1. Startable(i)
        BY <1>1, <3>1, AttemptExpected DEF EmitsBegin, EmitsGivenUp
      <4> QED
        BY <2>2, <3>1, <4>1, BeginHears, GivenUpHears DEF Hears
    <3>2. CASE \/ markStepCompleted(h, i) /\ emitEvent(stepEvent("step.completed", i))
               \/ EmitsFailure(h, i) \/ EmitsRetry(h, i)
      <4>1. Alone(h) /\ hs[h].op = i /\ hs[h].pc \in {"effect", "mark"}
        BY <2>5, <3>2, ToldIsInside, InsideKinds
           DEF markStepCompleted, EmitsFailure, EffectFails, EmitsRetry, EffectRetries, At
      <4>2. /\ view.open = i /\ hs[h].pc # "exit"
            /\ \A j \in Steps :
                  \/ steps[j].result
                  \/ steps[j].attempt
                        = view.attempts[j] + IF view.open = j THEN 0 ELSE 1
        BY <1>1, <4>1, KnownInside DEF Attempting
      <4>3. EmitsRetry(h, i) => steps[i].attempt = view.attempts[i]
        <5> SUFFICES ASSUME EmitsRetry(h, i)
                     PROVE  steps[i].attempt = view.attempts[i]
          OBVIOUS
        <5>1. i \in Steps /\ ~steps[i].result
          BY <4>1 DEF EmitsRetry, EffectRetries, At, ReplayOK
        <5>2. view.attempts[i] \in Nat
          BY DEF ViewOK
        <5> QED
          BY <4>2, <5>1, <5>2
      <4> QED
        BY <2>2, <3>2, <4>2, <4>3, AttemptHears DEF Hears
    <3>3. CASE EmitsSleep(h, i)
      BY <2>1, <2>2, <3>3, SleepHears, SleepExpected DEF Hears
    <3> QED
      BY <2>5, <3>1, <3>2, <3>3 DEF TellsStep
  <2> QED
    BY <1>2, <2>3, <2>4, <2>5, EventCases
<1> QED
  <2>1. CASE executePurge /\ ~(view' = NothingKnown)
    <3>1. ~(Untold /\ Silent)
      BY <2>1, UntoldIsNoPurge
    <3>2. ASSUME NEW t \in LifecycleEvent, Tells(t)
          PROVE  FALSE
      BY <2>1, <3>2, TellsStatus DEF executePurge, EmptyStorage
    <3>3. ASSUME NEW h \in Executors, NEW i \in Ops, TellsStep(h, i)
          PROVE  FALSE
      <4>1. wf.status = "Running"
        BY <3>3, ToldIsInside, InsideKinds DEF Alone
      <4> QED
        BY <2>1, <4>1 DEF executePurge, PurgeDue, Coordination, PurgeOK, Terminated
    <3> QED
      BY <2>1, <3>1, <3>2, <3>3, EventCases
  <2> QED
    BY <1>2, <1>3, <2>1

-----------------------------------------------------------------------------
(* What follows. *)

EInv ==
    /\ WInv /\ RecordsOK /\ EndsOK
    /\ ViewOK /\ EventsAreTrue /\ ToldOK /\ AsleepOK /\ EventsAreOrderly

(* At first there is nothing to know.                                      *)
LEMMA InitEvents == Init /\ view = NothingKnown => EInv
<1> SUFFICES ASSUME Init, view = NothingKnown
             PROVE  EInv
  OBVIOUS
<1>1. WInv /\ RecordsOK /\ EndsOK
  BY PausesInductive, RecordsInductive, EndsInductive
<1>2. /\ wf.status = NoWorkflow /\ wf.pendingResumeAt = NoTime
      /\ wf.completedSteps = {} /\ \A h \in Executors : hs[h].pc = "idle"
  BY DEF Init, EmptyStorage, IdleHandler, Handlers
<1>3. /\ view.phase = "none" /\ view.open = 0 /\ view.completed = {} /\ ~view.asleep
      /\ view.orderly /\ view.attempts = [i \in Ops |-> 0]
  BY DEF NothingKnown
<1>4. ViewOK
  BY DEF ViewOK, NothingKnown
<1>5. EventsAreTrue
  BY <1>3, EndedPhases DEF EventsAreTrue
<1>6. ToldOK
  <2>1. Phase(NoWorkflow) = {"none"}
    BY DEF Phase, NoWorkflow
  <2>2. \A i \in Steps : steps[i].attempt = 1 /\ i \in Ops /\ i # 0
    BY StepsAreOps DEF Init, EmptySteps
  <2> QED
    BY <1>2, <1>3, <2>1, <2>2 DEF ToldOK, Attempting
<1>7. AsleepOK /\ EventsAreOrderly
  BY <1>2, <1>3 DEF AsleepOK, EventsAreOrderly
<1> QED
  BY <1>1, <1>4, <1>5, <1>6, <1>7 DEF EInv

LEMMA NextEvents == EInv /\ [EventNext]_eventVars => EInv'
<1> SUFFICES ASSUME EInv, [EventNext]_eventVars
             PROVE  EInv'
  OBVIOUS
<1>1. [Next]_vars
  BY EventsAreSteps
<1>2. WInv' /\ RecordsOK' /\ EndsOK'
  BY <1>1, PausesInductive, RecordsInductive, EndsInductive DEF EInv, WInv, RInv
<1>3. ViewOK' /\ EventsAreTrue'
  BY NextViewOK, NextTrue DEF EInv, WInv, RInv, IInv
<1>4. ToldOK'
  BY <1>2, NextTold DEF EInv, WInv, RInv, IInv
<1>5. AsleepOK' /\ EventsAreOrderly'
  BY <1>2, NextAsleep, NextOrderly DEF EInv
<1> QED
  BY <1>2, <1>3, <1>4, <1>5 DEF EInv

(* As long as nothing crashes, a consumer of the stream knows the state of *)
(* a workflow in which no handler is in flight (orchestrator.ts, step.ts). *)
THEOREM EventsTell == EventSpec => []EventsTellTheState
<1>1. EInv => EventsTellTheState
  BY DEF EInv, ToldOK, EventsTellTheState, AllIdle, Handlers, Executors
<1> QED
  BY <1>1, InitEvents, NextEvents, PTL DEF EventSpec

(* As long as nothing disturbs it, every event comes where its consumer    *)
(* expects it (orchestrator.ts, step.ts, sleep.ts).                        *)
THEOREM EventsInOrder == EventSpec => []EventsAreOrderly
<1>1. EInv => EventsAreOrderly
  BY DEF EInv
<1> QED
  BY <1>1, InitEvents, NextEvents, PTL DEF EventSpec

=============================================================================
