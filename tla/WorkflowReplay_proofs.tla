----------------------- MODULE WorkflowReplay_proofs -----------------------
(***************************************************************************)
(* What a replay does to the steps of a workflow, for every program,       *)
(* configuration and bound: it goes on where it stopped, reports what is   *)
(* done, ends in a purge, and so implements WorkflowLifecycle.             *)
(*                                                                         *)
(* Three more inductive invariants stand on IInv, which says how the       *)
(* handlers keep out of each other's way: ReplayOK, RecordsOK and EndsOK.  *)
(***************************************************************************)
EXTENDS WorkflowEngine_proofs

(* The ways a handler moves, register by register.                         *)
Elsewhere(h) == \A o \in Handlers \ {h} : hs'[o] = hs[o]

(* To another position.                                                    *)
LEMMA GotoDoes ==
    ASSUME TypeOK, NEW h \in Handlers, NEW p, Goto(h, p)
    PROVE  /\ Elsewhere(h) /\ hs'[h].pc = p
           /\ hs'[h].op = hs[h].op /\ hs'[h].at = hs[h].at
           /\ hs'[h].exit = hs[h].exit /\ hs'[h].resumeAt = hs[h].resumeAt
BY DEF Goto, Elsewhere, TypeOK, HandlerState

(* Out of the object.                                                      *)
LEMMA ReturnDoes ==
    ASSUME TypeOK, NEW h \in Handlers, Return(h)
    PROVE  Elsewhere(h) /\ hs'[h].pc = "idle"
BY DEF Return, IdleHandler, Elsewhere, TypeOK

(* To the next operation of the program.                                   *)
LEMMA AdvanceDoes ==
    ASSUME TypeOK, NEW h \in Handlers, Advance(h)
    PROVE  Elsewhere(h) /\ hs'[h].pc = "next" /\ hs'[h].op = hs[h].op + 1
<1>1. hs'[h] = [hs[h] EXCEPT !.pc = "next", !.op = @ + 1]
  BY DEF Advance, TypeOK
<1>2. hs'[h].pc = "next" /\ hs'[h].op = hs[h].op + 1
  BY <1>1 DEF TypeOK, HandlerState
<1> QED
  BY <1>2 DEF Advance, Elsewhere, TypeOK

(* Out of the program, to the transition of its exit.                      *)
LEMMA ExitDoes ==
    ASSUME TypeOK, NEW h \in Handlers, NEW t, Exit(h, t)
    PROVE  /\ Elsewhere(h) /\ hs'[h].pc = "exit" /\ hs'[h].exit = t
           /\ hs'[h].op = hs[h].op
<1>1. hs'[h] = [hs[h] EXCEPT !.pc = "exit", !.exit = t]
  BY DEF Exit, TypeOK
<1>2. hs'[h].pc = "exit" /\ hs'[h].exit = t /\ hs'[h].op = hs[h].op
  BY <1>1 DEF TypeOK, HandlerState
<1> QED
  BY <1>2 DEF Exit, Elsewhere, TypeOK

(* Out of the program, to pause.                                           *)
LEMMA PauseUntilDoes ==
    ASSUME TypeOK, NEW h \in Handlers, NEW t, PauseUntil(h, t)
    PROVE  /\ Elsewhere(h) /\ hs'[h].pc = "pausing" /\ hs'[h].resumeAt = t
           /\ hs'[h].op = hs[h].op
<1>1. hs'[h] = [hs[h] EXCEPT !.pc = "pausing", !.resumeAt = t]
  BY DEF PauseUntil, TypeOK
<1>2. hs'[h].pc = "pausing" /\ hs'[h].resumeAt = t /\ hs'[h].op = hs[h].op
  BY <1>1 DEF TypeOK, HandlerState
<1> QED
  BY <1>2 DEF PauseUntil, Elsewhere, TypeOK

(* By a transition: to another position, or out of the object.             *)
LEMMA TransitMoves ==
    ASSUME TypeOK, NEW h \in Handlers, NEW t \in TransitionTag, NEW p \in Pcs,
           Transit(h, t, p)
    PROVE  /\ Elsewhere(h) /\ hs'[h].pc = p
           /\ wf'.status = applyTransitionToStatus(t)
           /\ wf' = [wf EXCEPT !.status = wf'.status, !.runningAt = wf'.runningAt]
           /\ UNCHANGED <<steps, alarm, up, now, budget, hist>>
<1>1. Elsewhere(h) /\ hs'[h].pc = p
  BY GotoDoes, ReturnDoes DEF Transit
<1>2. wf' = WithStatus(t)
  BY DEF Transit
<1> QED
  BY <1>1, <1>2 DEF Transit, WithStatus, TypeOK, WorkflowKeys, env

-----------------------------------------------------------------------------
(* ReplayOK is inductive. *)

(* Steps are operations, and operations are numbers.                       *)
LEMMA StepsAreOps ==
    /\ \A i \in Steps : i \in Ops /\ Program[i].kind = "step"
    /\ \A i \in Ops : i \in Nat /\ 1 <= i /\ i <= Len(Program)
    /\ Len(Program) \in Nat
BY ConstantTypes DEF Steps

(* One more step is done. *)
LEMMA DoneUpTo ==
    ASSUME NEW i \in Int, DoneBefore(i), steps[i].result
    PROVE  DoneBefore(i + 1)
<1> SUFFICES ASSUME NEW j \in Steps, j < i + 1
             PROVE  steps[j].result
  BY DEF DoneBefore
<1>1. j \in Int
  BY StepsAreOps
<1>2. CASE j = i
  BY <1>2
<1>3. CASE j # i
  <2>1. j < i
    BY <1>1, <1>3
  <2> QED
    BY <2>1 DEF DoneBefore
<1> QED
  BY <1>2, <1>3

(* The handler that moves decides, where no result is stored or forgotten. *)
LEMMA ReplayStep ==
    ASSUME ReplayOK, NEW h \in Handlers, Elsewhere(h),
           \A i \in Steps : steps'[i].result = steps[i].result,
           wf.cancelled => wf'.cancelled,
           wf'.status = "Completed" => AllDone,
           /\ hs'[h].pc \in {"next", "effect", "mark", "slept"} =>
                 1 <= hs'[h].op /\ DoneBefore(hs'[h].op)
           /\ hs'[h].pc = "effect" => hs'[h].op \in Steps /\ ~steps[hs'[h].op].result
           /\ hs'[h].pc = "mark" => hs'[h].op \in Steps /\ steps[hs'[h].op].result
           /\ hs'[h].pc = "slept" => hs'[h].op \notin Steps
           /\ hs'[h].pc = "exit" /\ hs'[h].exit = "Complete" => AllDone
           /\ hs'[h].pc = "exit" /\ hs'[h].exit = "Cancel" => wf'.cancelled
           /\ hs'[h].pc = "cancelling" => wf'.cancelled
    PROVE  ReplayOK'
<1> USE DEF ReplayOK, AllDone, DoneBefore, Elsewhere, Executors, Handlers
<1>1. \A i, j \in Steps : i < j /\ steps'[j].result => steps'[i].result
  OBVIOUS
<1>2. ASSUME NEW o \in Executors
      PROVE  /\ hs'[o].pc \in {"next", "effect", "mark", "slept"} =>
                   1 <= hs'[o].op /\ \A i \in Steps : i < hs'[o].op => steps'[i].result
             /\ hs'[o].pc = "effect" => hs'[o].op \in Steps /\ ~steps'[hs'[o].op].result
             /\ hs'[o].pc = "mark" => hs'[o].op \in Steps /\ steps'[hs'[o].op].result
             /\ hs'[o].pc = "slept" => hs'[o].op \notin Steps
             /\ hs'[o].pc = "exit" /\ hs'[o].exit = "Complete" =>
                   \A i \in Steps : steps'[i].result
             /\ hs'[o].pc = "exit" /\ hs'[o].exit = "Cancel" => wf'.cancelled
  <2>1. CASE o = h
    BY <2>1
  <2>2. CASE o # h
    <3>1. hs'[o] = hs[o]
      BY <2>2
    <3> QED
      BY <3>1
  <2> QED
    BY <2>1, <2>2
<1>3. hs'["cancel"].pc = "cancelling" => wf'.cancelled
  OBVIOUS
<1>4. wf'.status = "Completed" => \A i \in Steps : steps'[i].result
  OBVIOUS
<1> QED
  BY <1>1, <1>2, <1>3, <1>4

(* A position of which ReplayOK says nothing. *)
Unbound == Pcs \ {"next", "effect", "mark", "slept", "exit", "cancelling"}

(* A step of the program is passed, or left, as its result says (step.ts). *)
LEMMA StepReplay ==
    ASSUME TypeOK, ReplayOK, EngagedOK, NEW h \in Executors, NEW i \in Ops, Step(h, i)
    PROVE  ReplayOK'
<1> USE DEF At, storage, env
<1>0. h \in Handlers
  BY DEF Handlers
<1>1. i \in Int /\ hs[h].op = i
  BY StepsAreOps DEF Step, StepCancelled, StepCached, StepGivenUp, StepBegins,
     markStepCompleted, Fresh, Reaches
<1>2. hs[h].pc \in {"next", "mark"} /\ DoneBefore(i) /\ 1 <= i
  BY <1>1 DEF Step, StepCancelled, StepCached, StepGivenUp, StepBegins,
     markStepCompleted, Fresh, Reaches, ReplayOK
<1>3. wf.status = "Running"
  BY <1>2 DEF EngagedOK, ExecutionPcs
<1>4. MarkStarted(i) => \A j \in Steps : steps'[j].result = steps[j].result
  BY StepsAreOps DEF MarkStarted, TypeOK, StepKeys
<1>5. ASSUME steps[i].result
      PROVE  DoneBefore(i + 1)
  BY <1>1, <1>2, <1>5, DoneUpTo
<1>6. CASE StepCancelled(h, i)
  <2>1. Elsewhere(h) /\ hs'[h].pc = "exit" /\ hs'[h].exit = "Cancel"
    BY <1>0, <1>6, ExitDoes DEF StepCancelled
  <2> QED
    BY <1>0, <1>3, <1>6, <2>1, ReplayStep DEF StepCancelled
<1>7. CASE StepCached(h, i)
  <2>1. Elsewhere(h) /\ hs'[h].pc = "next" /\ hs'[h].op = i + 1
    BY <1>0, <1>1, <1>7, AdvanceDoes DEF StepCached
  <2>2. DoneBefore(hs'[h].op) /\ 1 <= hs'[h].op
    BY <1>1, <1>2, <1>5, <1>7, <2>1 DEF StepCached
  <2> QED
    BY <1>0, <1>3, <1>7, <2>1, <2>2, ReplayStep DEF StepCached
<1>8. CASE StepGivenUp(h, i)
  <2>1. Elsewhere(h) /\ hs'[h].pc = "exit" /\ hs'[h].exit = "Fail"
    BY <1>0, <1>8, ExitDoes DEF StepGivenUp
  <2> QED
    BY <1>0, <1>3, <1>4, <1>8, <2>1, ReplayStep DEF StepGivenUp
<1>9. CASE StepBegins(h, i)
  <2>1. hs'[h] = [hs[h] EXCEPT !.pc = "effect", !.at = now] /\ Elsewhere(h)
    BY <1>0, <1>9 DEF StepBegins, TypeOK, Elsewhere
  <2>2. hs'[h].pc = "effect" /\ hs'[h].op = i
    BY <1>0, <1>1, <2>1 DEF TypeOK, HandlerState
  <2>3. i \in Steps /\ ~steps[i].result
    BY <1>9 DEF StepBegins, Fresh, Reaches, Steps
  <2> QED
    BY <1>0, <1>2, <1>3, <1>4, <1>9, <2>1, <2>2, <2>3, ReplayStep DEF StepBegins
<1>10. CASE markStepCompleted(h, i)
  <2>1. Elsewhere(h) /\ hs'[h].pc = "next" /\ hs'[h].op = i + 1
    BY <1>0, <1>1, <1>10, AdvanceDoes DEF markStepCompleted
  <2>2. steps[i].result
    BY <1>0, <1>1, <1>10 DEF markStepCompleted, ReplayOK
  <2>3. DoneBefore(hs'[h].op) /\ 1 <= hs'[h].op
    BY <1>1, <1>2, <1>5, <2>1, <2>2
  <2>4. /\ wf'.status = wf.status /\ wf'.cancelled = wf.cancelled
        /\ UNCHANGED steps
    BY <1>10 DEF markStepCompleted, TypeOK, WorkflowKeys
  <2> QED
    BY <1>0, <1>3, <2>1, <2>3, <2>4, ReplayStep
<1> QED
  BY <1>6, <1>7, <1>8, <1>9, <1>10 DEF Step

(* A step's effect: it succeeds, and the prefix of results grows by one,   *)
(* or it stores nothing that a replay would take for a result (step.ts).   *)
LEMMA EffectReplay ==
    ASSUME TypeOK, Coordination, ReplayOK, NEW h \in Executors, NEW i \in Ops,
           Effect(h, i)
    PROVE  ReplayOK'
<1> USE DEF At, storage, env
<1>1. h \in Handlers /\ hs[h].pc = "effect" /\ hs[h].op = i
  BY DEF Handlers, Effect, EffectSucceeds, EffectFails, EffectRetries
<1>2. i \in Steps /\ DoneBefore(i) /\ 1 <= i /\ ~steps[i].result
  BY <1>1 DEF ReplayOK
<1>3. wf.status = "Running"
  BY <1>1 DEF Coordination, EngagedOK, ExecutionPcs
<1>4. CASE EffectSucceeds(h, i)
  <2>1. /\ Elsewhere(h) /\ hs'[h] = [hs[h] EXCEPT !.pc = "mark", !.at = NoTime]
        /\ steps' = [steps EXCEPT ![i].result = TRUE] /\ UNCHANGED wf
    BY <1>1, <1>4 DEF EffectSucceeds, TypeOK, Elsewhere
  <2>2. hs'[h].pc = "mark" /\ hs'[h].op = i
    BY <1>1, <2>1 DEF TypeOK, HandlerState
  <2>3. steps'[i].result /\ \A j \in Steps \ {i} : steps'[j].result = steps[j].result
    BY <2>1, StepsAreOps DEF TypeOK, StepKeys
  <2>4. \A j \in Steps : i < j => ~steps[j].result
    BY <1>2 DEF ReplayOK
  <2>5. \A j, k \in Steps : j < k /\ steps'[k].result => steps'[j].result
    <3> SUFFICES ASSUME NEW j \in Steps, NEW k \in Steps, j < k, steps'[k].result
                 PROVE  steps'[j].result
      OBVIOUS
    <3>1. j \in Int /\ k \in Int /\ i \in Int
      BY StepsAreOps
    <3>2. CASE j = i
      BY <2>3, <3>2
    <3>3. CASE j # i /\ k = i
      BY <1>2, <2>3, <3>3 DEF DoneBefore
    <3>4. CASE j # i /\ k # i
      BY <2>3, <3>4 DEF ReplayOK
    <3> QED
      BY <3>2, <3>3, <3>4
  <2>6. (1 <= i /\ DoneBefore(i))'
    BY <1>2, <2>3 DEF DoneBefore
  <2>7. \A o \in Executors \ {h} : hs'[o].pc \notin ExecutionPcs
    BY <1>1, <2>1 DEF Coordination, EngagedOK, Engaged, ExecutionPcs, Elsewhere,
                      Executors, Handlers
  <2>8. hs'["cancel"] = hs["cancel"]
    BY <2>1 DEF Elsewhere, Executors, Handlers
  <2> QED
    BY <1>2, <1>3, <2>1, <2>2, <2>3, <2>5, <2>6, <2>7, <2>8
       DEF ReplayOK, ExecutionPcs
<1>5. CASE EffectFails(h, i)
  <2>1. Elsewhere(h) /\ hs'[h] = [hs[h] EXCEPT !.pc = "exit", !.exit = "Fail",
                                               !.at = NoTime]
    BY <1>1, <1>5 DEF EffectFails, TypeOK, Elsewhere
  <2>2. hs'[h].pc = "exit" /\ hs'[h].exit = "Fail"
    BY <1>1, <2>1 DEF TypeOK, HandlerState
  <2> QED
    BY <1>1, <1>3, <1>5, <2>1, <2>2, ReplayStep DEF EffectFails
<1>6. CASE EffectRetries(h, i)
  <2>1. Elsewhere(h) /\ hs'[h].pc = "pausing"
    BY <1>1, <1>6 DEF EffectRetries, TypeOK, Elsewhere
  <2>2. \A j \in Steps : steps'[j].result = steps[j].result
    BY <1>6, StepsAreOps DEF EffectRetries, TypeOK, StepKeys
  <2> QED
    BY <1>1, <1>3, <1>6, <2>1, <2>2, ReplayStep DEF EffectRetries
<1> QED
  BY <1>4, <1>5, <1>6 DEF Effect

(* A pause point is no step: what was done before it is done after it      *)
(* (sleep.ts).                                                             *)
LEMMA DonePastPause ==
    ASSUME NEW i \in Ops, Program[i].kind # "step", DoneBefore(i)
    PROVE  DoneBefore(i + 1)
<1> SUFFICES ASSUME NEW j \in Steps, j < i + 1
             PROVE  steps[j].result
  BY DEF DoneBefore
<1>1. j \in Int /\ i \in Int /\ j # i
  BY StepsAreOps
<1>2. j < i
  BY <1>1
<1> QED
  BY <1>2 DEF DoneBefore

(* sleep and sleepUntil leave the results alone.                           *)
LEMMA SleepReplay ==
    ASSUME TypeOK, Coordination, ReplayOK, NEW h \in Executors, NEW i \in Ops,
           Sleep(h, i)
    PROVE  ReplayOK'
<1> USE DEF At, storage, env
<1>1. /\ h \in Handlers /\ hs[h].pc = "next" /\ hs[h].op = i
      /\ Program[i].kind # "step"
  BY DEF Handlers, Sleep, PauseSkipped, PauseOver, SleepBegins, SleepUntilBegins,
         SleepUntilPast, PausePoint, Reaches
<1>2. DoneBefore(i) /\ 1 <= i /\ i \in Int
  BY <1>1, StepsAreOps DEF ReplayOK
<1>3. DoneBefore(i + 1)
  BY <1>1, <1>2, DonePastPause
<1>4. wf.status = "Running"
  BY <1>1 DEF Coordination, EngagedOK, ExecutionPcs
<1>5. /\ UNCHANGED steps
      /\ wf'.status = wf.status /\ wf'.cancelled = wf.cancelled
  BY DEF Sleep, PauseSkipped, PauseOver, SleepBegins, SleepUntilBegins,
         SleepUntilPast, TypeOK, WorkflowKeys
<1>6. CASE PauseSkipped(h, i) \/ SleepUntilPast(h, i)
  <2>1. Elsewhere(h) /\ hs'[h].pc = "next" /\ hs'[h].op = i + 1
    BY <1>1, <1>6, AdvanceDoes DEF PauseSkipped, SleepUntilPast
  <2>2. 1 <= i + 1
    BY <1>2
  <2> QED
    BY <1>1, <1>3, <1>4, <1>5, <2>1, <2>2, ReplayStep
<1>7. CASE PauseOver(h, i)
  <2>1. Elsewhere(h) /\ hs'[h].pc = "slept" /\ hs'[h].op = i
    BY <1>1, <1>7, GotoDoes DEF PauseOver
  <2>2. i \notin Steps
    BY <1>1, StepsAreOps
  <2> QED
    BY <1>1, <1>2, <1>4, <1>5, <2>1, <2>2, ReplayStep
<1>8. CASE SleepBegins(h, i) \/ SleepUntilBegins(h, i)
  <2>1. Elsewhere(h) /\ hs'[h].pc = "pausing"
    BY <1>1, <1>8, PauseUntilDoes DEF SleepBegins, SleepUntilBegins
  <2> QED
    BY <1>1, <1>4, <1>5, <2>1, ReplayStep
<1> QED
  BY <1>6, <1>7, <1>8 DEF Sleep

(* Only a transition to Completed says anything of the steps.              *)
LEMMA TransitReplay ==
    ASSUME TypeOK, ReplayOK, NEW h \in Handlers, NEW p \in Unbound,
           NEW t \in TransitionTag \ {"Complete"}, Transit(h, t, p)
    PROVE  ReplayOK'
<1>1. /\ Elsewhere(h) /\ hs'[h].pc = p /\ UNCHANGED steps
      /\ wf'.status = applyTransitionToStatus(t)
      /\ wf' = [wf EXCEPT !.status = wf'.status, !.runningAt = wf'.runningAt]
  BY TransitMoves DEF Unbound
<1>2. wf'.status # "Completed"
  BY <1>1 DEF applyTransitionToStatus, TransitionTag
<1>3. wf'.cancelled = wf.cancelled
  BY <1>1 DEF TypeOK, WorkflowKeys
<1> QED
  BY <1>1, <1>2, <1>3, ReplayStep DEF Unbound

(* The rest of an execution: its start, its end and what follows           *)
(* (executor.ts, orchestrator.ts).                                         *)
LEMMA ExecutionReplay ==
    ASSUME TypeOK, Coordination, ReplayOK, NEW h \in Executors, Execution(h)
    PROVE  ReplayOK'
<1> USE DEF At, storage, env
<1>1. h \in Handlers
  BY DEF Handlers
<1>2. wf.status = "Completed" => AllDone
  BY DEF ReplayOK
<1>3. CASE BeginExecution(h)
  <2>1. Elsewhere(h) /\ hs'[h] = [hs[h] EXCEPT !.pc = "next", !.op = 1]
    BY <1>1, <1>3 DEF BeginExecution, TypeOK, Elsewhere
  <2>2. hs'[h].pc = "next" /\ hs'[h].op = 1
    BY <1>1, <2>1 DEF TypeOK, HandlerState
  <2>3. DoneBefore(hs'[h].op) /\ 1 <= hs'[h].op
    BY <2>2, StepsAreOps DEF DoneBefore
  <2>4. UNCHANGED steps /\ wf'.status = wf.status /\ wf'.cancelled = wf.cancelled
    BY <1>3 DEF BeginExecution, TypeOK, WorkflowKeys
  <2> QED
    BY <1>1, <1>2, <2>1, <2>2, <2>3, <2>4, ReplayStep
<1>4. CASE \E i \in Ops : Step(h, i) \/ Effect(h, i) \/ Sleep(h, i)
  BY <1>4, StepReplay, EffectReplay, SleepReplay DEF Coordination
<1>5. CASE clearPendingResumeAt(h)
  <2>1. /\ hs[h].op \in Ops /\ Program[hs[h].op].kind # "step"
        /\ DoneBefore(hs[h].op) /\ 1 <= hs[h].op
    BY <1>5 DEF clearPendingResumeAt, Coordination, RegistersOK, ReplayOK, Steps
  <2>2. Elsewhere(h) /\ hs'[h].pc = "next" /\ hs'[h].op = hs[h].op + 1
    BY <1>1, <1>5, AdvanceDoes DEF clearPendingResumeAt
  <2>3. DoneBefore(hs'[h].op) /\ 1 <= hs'[h].op
    BY <2>1, <2>2, DonePastPause, StepsAreOps
  <2>4. UNCHANGED steps /\ wf'.status = wf.status /\ wf'.cancelled = wf.cancelled
    BY <1>5 DEF clearPendingResumeAt, TypeOK, WorkflowKeys
  <2> QED
    BY <1>1, <1>2, <2>2, <2>3, <2>4, ReplayStep
<1>6. CASE ProgramEnds(h)
  <2>1. Elsewhere(h) /\ hs'[h].pc = "exit" /\ hs'[h].exit = "Complete"
    BY <1>1, <1>6, ExitDoes DEF ProgramEnds
  <2>2. AllDone
    BY <1>6, StepsAreOps DEF ProgramEnds, ReplayOK, DoneBefore, AllDone
  <2> QED
    BY <1>1, <1>6, <2>1, <2>2, ReplayStep DEF ProgramEnds
<1>7. CASE PauseAlarm(h)
  <2>1. Elsewhere(h) /\ hs'[h].pc = "pause" /\ UNCHANGED <<wf, steps>>
    BY <1>1, <1>7, GotoDoes DEF PauseAlarm
  <2> QED
    BY <1>1, <1>2, <2>1, ReplayStep
<1>8. CASE Pause(h)
  BY <1>1, <1>8, TransitReplay DEF Pause, TransitionTag, Unbound, Pcs
<1>9. CASE Finish(h)
  <2>1. Transit(h, hs[h].exit, "cleanup") /\ hs[h].pc = "exit"
        /\ hs[h].exit \in {"Complete", "Fail", "Cancel"}
    BY <1>9 DEF Finish, Coordination, RegistersOK
  <2>2. /\ Elsewhere(h) /\ hs'[h].pc = "cleanup" /\ UNCHANGED steps
        /\ wf'.status = applyTransitionToStatus(hs[h].exit)
        /\ wf' = [wf EXCEPT !.status = wf'.status, !.runningAt = wf'.runningAt]
    BY <1>1, <2>1, TransitMoves DEF TransitionTag, Pcs
  <2>3. wf'.cancelled = wf.cancelled
    BY <2>2 DEF TypeOK, WorkflowKeys
  <2>4. wf'.status = "Completed" => AllDone
    BY <2>1, <2>2 DEF applyTransitionToStatus, ReplayOK
  <2> QED
    BY <1>1, <2>2, <2>3, <2>4, ReplayStep
<1>10. CASE CancelAlarm(h) \/ schedulePurge(h) \/ PurgeAlarm(h)
  <2>1. Elsewhere(h) /\ hs'[h].pc \in {"idle", "purge", "purgeAlarm"}
    BY <1>1, <1>10, GotoDoes, ReturnDoes DEF CancelAlarm, schedulePurge, PurgeAlarm
  <2>2. UNCHANGED steps /\ wf'.status = wf.status /\ wf'.cancelled = wf.cancelled
    BY <1>10 DEF CancelAlarm, schedulePurge, PurgeAlarm, TypeOK, WorkflowKeys
  <2> QED
    BY <1>1, <1>2, <2>1, <2>2, ReplayStep
<1> QED
  BY <1>3, <1>4, <1>5, <1>6, <1>7, <1>8, <1>9, <1>10 DEF Execution

(* The other handlers leave the results alone, but for the purge, which    *)
(* leaves nothing to be replayed (orchestrator.ts, engine.ts).             *)
LEMMA HandlerReplay ==
    ASSUME TypeOK, Coordination, ReplayOK, Coordination',
           RunHandler \/ AlarmHandler \/ CancelHandler \/ Client
    PROVE  ReplayOK'
<1> USE DEF Handlers, Executors, TransitionTag, Unbound, Pcs, storage, env
<1>1. wf.status = "Completed" => AllDone
  BY DEF ReplayOK
<1>2. ASSUME NEW p \in {"start", "queue"}, Initialize(p)
      PROVE  ReplayOK'
  <2>1. Elsewhere("run") /\ hs'["run"].pc = p /\ UNCHANGED steps
    BY <1>2, GotoDoes DEF Initialize
  <2>2. wf'.status = "Pending"
    BY <1>2 DEF Initialize, TypeOK, WorkflowKeys
  <2>3. wf.cancelled = FALSE
    BY <1>2 DEF Initialize, Coordination, PurgeOK, EmptyStorage
  <2> QED
    BY <2>1, <2>2, <2>3, ReplayStep
<1>3. CASE setCancelled
  <2>1. /\ UNCHANGED steps /\ wf'.status = wf.status /\ wf'.cancelled
    BY <1>3 DEF setCancelled, TypeOK, WorkflowKeys
  <2>2. Elsewhere("cancel") /\ hs'["cancel"].pc \in {"idle", "cancelling"}
    BY <1>3, GotoDoes DEF setCancelled, At, Elsewhere
  <2> QED
    BY <1>1, <2>1, <2>2, ReplayStep
<1>4. CASE Start \/ Queue \/ StartQueued \/ Resume \/ CancelNow
  BY <1>4, TransitReplay DEF Start, Queue, StartQueued, Resume, CancelNow
<1>5. CASE ScheduleQueued
  <2>1. Elsewhere("run") /\ hs'["run"].pc = "idle" /\ UNCHANGED <<wf, steps>>
    BY <1>5, ReturnDoes DEF ScheduleQueued
  <2> QED
    BY <1>1, <2>1, ReplayStep
<1>6. CASE executePurge
  <2>1. wf' = EmptyStorage /\ steps' = EmptySteps
    BY <1>6 DEF executePurge
  <2>2. wf'.status = NoWorkflow /\ \A i \in Steps : ~steps'[i].result
    BY <2>1, StepsAreOps DEF EmptyStorage, EmptySteps
  <2>3. AllIdle'
    BY <2>2 DEF Coordination, PurgeOK
  <2> QED
    BY <2>2, <2>3 DEF ReplayOK, AllIdle, NoWorkflow
<1>7. CASE AlarmIgnored
  <2>1. Elsewhere("alarm") /\ hs'["alarm"].pc = "idle" /\ UNCHANGED <<wf, steps>>
    BY <1>7, ReturnDoes DEF AlarmIgnored
  <2> QED
    BY <1>1, <2>1, ReplayStep
<1>8. CASE incrementRecoveryAttempts \/ resetRecoveryAttempts
  <2>1. Elsewhere("alarm") /\ hs'["alarm"].pc \in {"recover", "begin"}
    BY <1>8, GotoDoes DEF incrementRecoveryAttempts, resetRecoveryAttempts
  <2>2. UNCHANGED steps /\ wf'.status = wf.status /\ wf'.cancelled = wf.cancelled
    BY <1>8 DEF incrementRecoveryAttempts, resetRecoveryAttempts, TypeOK, WorkflowKeys
  <2> QED
    BY <1>1, <2>1, <2>2, ReplayStep
<1>9. CASE Recover \/ RecoveryExhausted
  <2>1. Elsewhere("alarm") /\ hs'["alarm"].pc \in {"recovered", "idle"}
    BY <1>9, GotoDoes, ReturnDoes DEF Recover, RecoveryExhausted
  <2>2. UNCHANGED steps /\ wf'.status # "Completed" /\ wf'.cancelled = wf.cancelled
    BY <1>9 DEF Recover, RecoveryExhausted, WithStatus, applyTransitionToStatus,
                TypeOK, WorkflowKeys
  <2> QED
    BY <2>1, <2>2, ReplayStep
<1>10. CASE CancelScheduled
  <2>1. Elsewhere("cancel") /\ hs'["cancel"].pc = "idle" /\ UNCHANGED <<wf, steps>>
    BY <1>10, ReturnDoes DEF CancelScheduled
  <2> QED
    BY <1>1, <2>1, ReplayStep
<1> QED
  BY <1>2, <1>3, <1>4, <1>5, <1>6, <1>7, <1>8, <1>9, <1>10
     DEF RunHandler, AlarmHandler, CancelHandler, Client, Run, RunAsync

(* Platform and clock touch neither the program nor its results.           *)
LEMMA PlatformReplay ==
    ASSUME TypeOK, ReplayOK, Platform \/ Crash \/ Evict \/ Tick
    PROVE  ReplayOK'
<1> USE DEF storage, env
<1>1. UNCHANGED <<wf, steps>>
  BY DEF Platform, Construct, DeliverAlarm, WakeByAlarm, Crash, Evict, Tick
<1>2. wf.status = "Completed" => AllDone
  BY DEF ReplayOK
<1>3. CASE Crash
  <2>1. \A h \in Handlers : hs'[h].pc = "idle"
    BY <1>3 DEF Crash, IdleHandler
  <2> QED
    BY <1>1, <2>1 DEF ReplayOK, AllDone, DoneBefore, Handlers
<1>4. CASE DeliverAlarm \/ WakeByAlarm
  <2>1. CASE Goto("alarm", "alarm")
    <3>1. Elsewhere("alarm") /\ hs'["alarm"].pc = "alarm"
      BY <2>1, GotoDoes DEF Handlers, Executors
    <3> QED
      BY <1>1, <1>2, <3>1, ReplayStep DEF Handlers, Executors
  <2>2. CASE UNCHANGED hs
    BY <1>1, <2>2 DEF ReplayOK, AllDone, DoneBefore
  <2> QED
    BY <1>4, <2>1, <2>2 DEF DeliverAlarm, WakeByAlarm
<1>5. CASE Construct \/ Evict \/ Tick
  <2>1. UNCHANGED hs
    BY <1>5 DEF Construct, Evict, Tick
  <2> QED
    BY <1>1, <2>1 DEF ReplayOK, AllDone, DoneBefore
<1> QED
  BY <1>3, <1>4, <1>5 DEF Platform

(* ReplayOK holds initially, and every step preserves it.                  *)
LEMMA InitReplay == Init => ReplayOK
<1> SUFFICES ASSUME Init PROVE ReplayOK
  OBVIOUS
<1>1. \A h \in Handlers : hs[h].pc = "idle"
  BY DEF Init, IdleHandler
<1>2. wf.status = NoWorkflow /\ \A i \in Steps : ~steps[i].result
  BY StepsAreOps DEF Init, EmptyStorage, EmptySteps
<1> QED
  BY <1>1, <1>2 DEF ReplayOK, Handlers, NoWorkflow

(* The same for the steps of the system, given the invariant below it.     *)
LEMMA NextReplay == IInv /\ IInv' /\ ReplayOK /\ [Next]_vars => ReplayOK'
<1> SUFFICES ASSUME IInv, IInv', ReplayOK, [Next]_vars PROVE ReplayOK'
  OBVIOUS
<1> USE DEF IInv
<1>1. CASE Client \/ RunHandler \/ AlarmHandler \/ CancelHandler
  BY <1>1, HandlerReplay
<1>2. CASE \E h \in Executors : Execution(h)
  BY <1>2, ExecutionReplay
<1>3. CASE Platform \/ Crash \/ Evict \/ Tick
  BY <1>3, PlatformReplay
<1>4. CASE UNCHANGED vars
  BY <1>4 DEF vars, ReplayOK, AllDone, DoneBefore
<1> QED
  BY <1>1, <1>2, <1>3, <1>4 DEF Next

(* What is reachable: the two invariants together.                         *)
RInv == IInv /\ ReplayOK

(* They are inductive together.                                            *)
LEMMA ReplayInductive == (Init => RInv) /\ (RInv /\ [Next]_vars => RInv')
BY InitIInv, NextIInv, InitReplay, NextReplay DEF RInv

(* A replay takes the stored results and goes on after them: no step that  *)
(* has a result is executed again, none before its predecessors            *)
(* (step.ts, phase 3).                                                     *)
THEOREM ReplayResumes == Spec => []ReplayResumesWhereItStopped
<1>1. RInv => ReplayResumesWhereItStopped
  <2> SUFFICES ASSUME RInv, NEW h \in Executors, hs[h].pc = "effect"
               PROVE  /\ ~steps[hs[h].op].result
                      /\ \A i \in Steps : steps[i].result <=> i < hs[h].op
    BY DEF ReplayResumesWhereItStopped
  <2>1. hs[h].op \in Steps /\ ~steps[hs[h].op].result /\ DoneBefore(hs[h].op)
    BY DEF RInv, ReplayOK
  <2>2. ASSUME NEW i \in Steps, steps[i].result
        PROVE  i < hs[h].op
    BY <2>1, <2>2, StepsAreOps DEF RInv, ReplayOK
  <2> QED
    BY <2>1, <2>2 DEF DoneBefore
<1> QED
  BY <1>1, ReplayInductive, PTL DEF Spec

-----------------------------------------------------------------------------
(* WorkflowEngine implements WorkflowLifecycle: every step is one of the   *)
(* lifecycle's, or changes nothing its client can see.                     *)

Done == {i \in Steps : steps[i].result}

Visible == <<wf.status, Done, wf.cancelled>>

(* Results that stay are the same set. *)
LEMMA SameDone ==
    ASSUME \A i \in Steps : steps'[i].result = steps[i].result
    PROVE  Done' = Done
BY DEF Done

(* The statuses that nothing leads out of (state/transitions.ts).          *)
LEMMA TerminalIs ==
    /\ TerminalStatus = {"Completed", "Failed", "Cancelled"}
    /\ Lifecycle!TerminalStatus = {"Completed", "Failed", "Cancelled"}
    /\ Lifecycle!StatusTag = StatusTag /\ Lifecycle!NoWorkflow = NoWorkflow
<1>1. TerminalStatus = {"Completed", "Failed", "Cancelled"}
  BY DEF TerminalStatus, isTerminalStatus, VALID_TRANSITIONS, StatusTag
<1>2. Lifecycle!TerminalStatus = {"Completed", "Failed", "Cancelled"}
  BY DEF Lifecycle!TerminalStatus, Lifecycle!isTerminalStatus,
         Lifecycle!VALID_TRANSITIONS, Lifecycle!StatusTag
<1> QED
  BY <1>1, <1>2 DEF Lifecycle!StatusTag, StatusTag, Lifecycle!NoWorkflow, NoWorkflow

(* What a transition shows. *)
LEMMA TransitShows ==
    ASSUME TypeOK, NEW h \in Handlers, NEW t \in TransitionTag, NEW p \in Pcs,
           Transit(h, t, p)
    PROVE  /\ wf'.status = applyTransitionToStatus(t)
           /\ wf'.cancelled = wf.cancelled /\ Done' = Done
<1>1. /\ wf'.status = applyTransitionToStatus(t) /\ UNCHANGED steps
      /\ wf' = [wf EXCEPT !.status = wf'.status, !.runningAt = wf'.runningAt]
  BY TransitMoves
<1> QED
  BY <1>1, SameDone DEF TypeOK, WorkflowKeys

(* An execution shows the steps it finishes, that it suspends and how it   *)
(* ends.                                                                   *)
LEMMA ExecutionRefines ==
    ASSUME RInv, NEW h \in Executors, Execution(h)
    PROVE  Lifecycle!Next \/ UNCHANGED Visible
<1> USE DEF RInv, IInv, Coordination, At, storage, env, Visible
<1>1. h \in Handlers
  BY DEF Handlers
<1>2. ASSUME NEW i \in Ops, EffectSucceeds(h, i)
      PROVE  Lifecycle!FinishStep
  <2>1. hs[h].pc = "effect" /\ hs[h].op = i /\ wf.status = "Running"
    BY <1>2 DEF EffectSucceeds, EngagedOK, ExecutionPcs
  <2>2. i \in Steps /\ ~steps[i].result /\ DoneBefore(i)
    BY <2>1 DEF ReplayOK
  <2>3. steps' = [steps EXCEPT ![i].result = TRUE] /\ UNCHANGED wf
    BY <1>2 DEF EffectSucceeds
  <2>4. steps'[i].result /\ \A j \in Steps \ {i} : steps'[j].result = steps[j].result
    BY <2>3, StepsAreOps DEF TypeOK, StepKeys
  <2>5. Done' = Done \union {i}
    BY <2>2, <2>4 DEF Done
  <2>6. \A j \in Steps \ Done : i <= j
    <3> SUFFICES ASSUME NEW j \in Steps, ~steps[j].result PROVE i <= j
      BY DEF Done
    <3>1. ~(j < i)
      BY <2>2 DEF DoneBefore
    <3> QED
      BY <2>2, <3>1, StepsAreOps
  <2>7. i \in Steps \ Done
    BY <2>2 DEF Done
  <2> QED
    BY <2>1, <2>2, <2>3, <2>5, <2>6, <2>7
       DEF Done, Lifecycle!FinishStep, Lifecycle!NextStep
<1>3. CASE Pause(h)
  <2>1. wf.status = "Running"
    BY <1>3 DEF Pause, EngagedOK, ExecutionPcs
  <2>2. wf'.status = "Paused" /\ wf'.cancelled = wf.cancelled /\ Done' = Done
    BY <1>1, <1>3, TransitShows
       DEF Pause, TransitionTag, Pcs, applyTransitionToStatus
  <2> QED
    BY <2>1, <2>2 DEF Done, Lifecycle!Next, Lifecycle!Suspend
<1>4. CASE Finish(h)
  <2>1. /\ Transit(h, hs[h].exit, "cleanup") /\ hs[h].pc = "exit"
        /\ hs[h].exit \in {"Complete", "Fail", "Cancel"} /\ wf.status = "Running"
    BY <1>4 DEF Finish, RegistersOK, EngagedOK, ExecutionPcs
  <2>2. /\ wf'.status = applyTransitionToStatus(hs[h].exit)
        /\ wf'.cancelled = wf.cancelled /\ Done' = Done
    BY <1>1, <2>1, TransitShows DEF TransitionTag, Pcs
  <2>3. CASE hs[h].exit = "Complete"
    <3>1. Done = Steps
      BY <2>1, <2>3 DEF ReplayOK, AllDone, Done
    <3> QED
      BY <2>1, <2>2, <2>3, <3>1
         DEF Done, Lifecycle!Next, Lifecycle!Succeed, applyTransitionToStatus
  <2>4. CASE hs[h].exit = "Fail"
    BY <2>1, <2>2, <2>4
       DEF Done, Lifecycle!Next, Lifecycle!GiveUp, applyTransitionToStatus
  <2>5. CASE hs[h].exit = "Cancel"
    BY <2>1, <2>2, <2>5
       DEF Done, Lifecycle!Next, Lifecycle!Stop, applyTransitionToStatus, ReplayOK
  <2> QED
    BY <2>1, <2>3, <2>4, <2>5
<1>5. ASSUME NEW i \in Ops, Step(h, i) \/ EffectFails(h, i) \/ EffectRetries(h, i)
      PROVE  UNCHANGED Visible
  <2>1. \A j \in Steps : steps'[j].result = steps[j].result
    <3>1. CASE MarkStarted(i)
      BY <3>1, StepsAreOps DEF MarkStarted, TypeOK, StepKeys
    <3>2. CASE EffectRetries(h, i)
      BY <3>2, StepsAreOps DEF EffectRetries, TypeOK, StepKeys
    <3>3. MarkStarted(i) \/ EffectRetries(h, i) \/ UNCHANGED steps
      BY <1>5 DEF Step, StepCancelled, StepCached, StepGivenUp, StepBegins,
                  markStepCompleted, EffectFails
    <3> QED
      BY <3>1, <3>2, <3>3
  <2>2. wf'.status = wf.status /\ wf'.cancelled = wf.cancelled
    BY <1>5 DEF Step, StepCancelled, StepCached, StepGivenUp, StepBegins,
           markStepCompleted, EffectFails, EffectRetries, TypeOK, WorkflowKeys
  <2> QED
    BY <2>1, <2>2, SameDone
<1>6. ASSUME NEW i \in Ops, Sleep(h, i)
      PROVE  UNCHANGED Visible
  BY <1>6, SameDone
     DEF Sleep, PauseSkipped, PauseOver, SleepBegins, SleepUntilBegins,
         SleepUntilPast, TypeOK, WorkflowKeys
<1>7. CASE \/ BeginExecution(h) \/ clearPendingResumeAt(h) \/ ProgramEnds(h)
          \/ PauseAlarm(h) \/ CancelAlarm(h) \/ schedulePurge(h) \/ PurgeAlarm(h)
  BY <1>7, SameDone
     DEF BeginExecution, clearPendingResumeAt, ProgramEnds, PauseAlarm,
         CancelAlarm, schedulePurge, PurgeAlarm, TypeOK, WorkflowKeys
<1>8. (\E i \in Ops : EffectSucceeds(h, i)) => Lifecycle!Next
  BY <1>2 DEF Lifecycle!Next
<1> QED
  BY <1>3, <1>4, <1>5, <1>6, <1>7, <1>8 DEF Execution, Effect

(* The handlers of requests and alarms show what they decide on.           *)
LEMMA HandlerRefines ==
    ASSUME RInv, RunHandler \/ AlarmHandler \/ CancelHandler \/ Client
    PROVE  Lifecycle!Next \/ UNCHANGED Visible
<1> USE DEF RInv, IInv, Coordination, At, storage, env, Visible, Lifecycle!Next,
            Handlers, Executors, TransitionTag, Pcs, applyTransitionToStatus
<1>1. ASSUME NEW p \in {"start", "queue"}, Initialize(p)
      PROVE  Lifecycle!Submit
  <2>1. /\ wf.status = NoWorkflow /\ wf'.status = "Pending"
        /\ wf.cancelled = FALSE /\ wf'.cancelled = FALSE /\ UNCHANGED steps
    BY <1>1 DEF Initialize, PurgeOK, EmptyStorage, TypeOK, WorkflowKeys
  <2> QED
    BY <2>1, TerminalIs DEF Lifecycle!Submit
<1>2. CASE setCancelled
  <2>1. /\ wf.status \in StatusTag \ TerminalStatus
        /\ wf'.status = wf.status /\ wf'.cancelled = TRUE /\ UNCHANGED steps
    BY <1>2 DEF setCancelled, TypeOK, WorkflowKeys
  <2> QED
    BY <2>1, TerminalIs DEF Lifecycle!RequestStop
<1>3. CASE Start \/ Queue
  <2>1. /\ wf.status = "Pending" /\ wf'.status \in {"Running", "Queued"}
        /\ wf'.cancelled = wf.cancelled /\ Done' = Done
    BY <1>3, TransitShows DEF Start, Queue, RunOK
  <2> QED
    BY <2>1 DEF Done, Lifecycle!Accept
<1>4. CASE StartQueued \/ Resume
  <2>1. /\ wf.status \in {"Queued", "Paused"} /\ wf'.status = "Running"
        /\ wf'.cancelled = wf.cancelled /\ Done' = Done
    BY <1>4, TransitShows DEF StartQueued, Resume, handleAlarm
  <2> QED
    BY <2>1 DEF Done, Lifecycle!Proceed
<1>5. CASE CancelNow
  <2>1. /\ wf.status \in {"Queued", "Paused"} /\ wf'.status = "Cancelled"
        /\ wf.cancelled /\ wf'.cancelled = wf.cancelled /\ Done' = Done
    BY <1>5, TransitShows DEF CancelNow, CancelOK, ReplayOK
  <2> QED
    BY <2>1 DEF Done, Lifecycle!Stop
<1>6. CASE executePurge
  <2>1. /\ wf.status \in Lifecycle!TerminalStatus
        /\ wf' = EmptyStorage /\ steps' = EmptySteps
    BY <1>6, TerminalIs DEF executePurge, PurgeDue, PurgeOK, Terminated
  <2>2. Done' = {}
    BY <2>1, StepsAreOps DEF Done, EmptySteps
  <2>3. wf'.status = NoWorkflow /\ wf'.cancelled = FALSE
    BY <2>1 DEF EmptyStorage
  <2> QED
    BY <2>1, <2>2, <2>3, TerminalIs DEF Done, Lifecycle!Purge
<1>7. CASE RecoveryExhausted
  <2>1. /\ wf.status = "Running" /\ wf'.status = "Failed"
        /\ wf'.cancelled = wf.cancelled /\ UNCHANGED steps
    BY <1>7 DEF RecoveryExhausted, handleAlarm, WithStatus, TypeOK, WorkflowKeys
  <2> QED
    BY <2>1 DEF Lifecycle!GiveUp
<1>8. CASE Recover
  <2>1. /\ wf'.status = wf.status /\ wf'.cancelled = wf.cancelled /\ UNCHANGED steps
    BY <1>8 DEF Recover, EngagedOK, WithStatus, TypeOK, WorkflowKeys
  <2> QED
    BY <2>1, SameDone
<1>9. CASE \/ ScheduleQueued \/ AlarmIgnored \/ CancelScheduled
          \/ incrementRecoveryAttempts \/ resetRecoveryAttempts
  BY <1>9, SameDone
     DEF ScheduleQueued, AlarmIgnored, CancelScheduled,
         incrementRecoveryAttempts, resetRecoveryAttempts, TypeOK, WorkflowKeys
<1> QED
  BY <1>1, <1>2, <1>3, <1>4, <1>5, <1>6, <1>7, <1>8, <1>9
     DEF RunHandler, AlarmHandler, CancelHandler, Client, Run, RunAsync

(* Every step of the engine is one of the lifecycle, or not seen in it.    *)
LEMMA NextRefines ==
    ASSUME RInv, [Next]_vars
    PROVE  Lifecycle!Next \/ UNCHANGED Visible
<1>1. CASE Platform \/ Crash \/ Evict \/ Tick
  BY <1>1 DEF Platform, Construct, DeliverAlarm, WakeByAlarm, Crash, Evict,
              Tick, Visible, Done, storage, env
<1>2. CASE UNCHANGED vars
  BY <1>2 DEF vars, Visible, Done
<1> QED
  BY <1>1, <1>2, ExecutionRefines, HandlerRefines DEF Next

(* Through any crash, eviction, lateness and interleaving the engine does  *)
(* what WorkflowLifecycle promises its client.                             *)
THEOREM ImplementsLifecycle == Spec => LifecycleSpec
<1>1. Init => Lifecycle!Init
  BY StepsAreOps DEF Init, EmptyStorage, EmptySteps, Lifecycle!Init,
                     Lifecycle!NoWorkflow, NoWorkflow
<1>2. RInv /\ [Next]_vars => [Lifecycle!Next]_(Lifecycle!lifecycleVars)
  BY NextRefines DEF Visible, Done, Lifecycle!lifecycleVars
<1> QED
  BY <1>1, <1>2, ReplayInductive, PTL DEF Spec, LifecycleSpec, Lifecycle!Spec

-----------------------------------------------------------------------------
(* The properties that hold as long as nothing crashes. *)

(* Only a crash counts as one.                                             *)
LEMMA CrashesCount ==
    ASSUME TypeOK, [Next]_vars
    PROVE  /\ ~Crash => budget'.crashes = budget.crashes
           /\ Crash => budget'.crashes # 0
           /\ budget'.crashes = 0 => budget.crashes = 0 /\ ~Crash
<1> USE DEF TypeOK, storage, env, Transit
<1>1. Crash => budget'.crashes = budget.crashes + 1
  BY DEF Crash
<1>2. Client \/ RunHandler => budget'.crashes = budget.crashes
  BY DEF Client, Run, RunAsync, Initialize, setCancelled, RunHandler, Start,
         Queue, ScheduleQueued
<1>3. AlarmHandler \/ CancelHandler => budget'.crashes = budget.crashes
  BY DEF AlarmHandler, executePurge, StartQueued, Resume, AlarmIgnored,
         incrementRecoveryAttempts, Recover, resetRecoveryAttempts,
         RecoveryExhausted, CancelHandler, CancelNow, CancelScheduled
<1>4. ASSUME NEW h \in Executors, Execution(h)
      PROVE  budget'.crashes = budget.crashes
  <2>1. ASSUME NEW i \in Ops, Step(h, i) \/ Effect(h, i) \/ Sleep(h, i)
        PROVE  budget' = budget
    BY <2>1 DEF Step, StepCancelled, StepCached, StepGivenUp, StepBegins,
           markStepCompleted, Effect, EffectSucceeds, EffectFails, EffectRetries,
           Sleep, PauseSkipped, PauseOver, SleepBegins, SleepUntilBegins,
           SleepUntilPast
  <2> QED
    BY <1>4, <2>1 DEF Execution, BeginExecution, clearPendingResumeAt, ProgramEnds,
           PauseAlarm, Pause, Finish, CancelAlarm, schedulePurge, PurgeAlarm
<1>5. Platform \/ Evict \/ Tick => budget'.crashes = budget.crashes
  BY DEF Platform, Construct, DeliverAlarm, WakeByAlarm, Evict, Tick
<1>6. UNCHANGED vars => budget'.crashes = budget.crashes
  BY DEF vars
<1>7. Crash \/ budget'.crashes = budget.crashes
  BY <1>2, <1>3, <1>4, <1>5, <1>6 DEF Next
<1>8. budget.crashes \in Nat
  OBVIOUS
<1> HIDE DEF TypeOK
<1> QED
  BY <1>1, <1>7, <1>8

(* An executor moves alone ...                                             *)
LEMMA ExecutionMoves ==
    ASSUME TypeOK, NEW h \in Executors, Execution(h)
    PROVE  Elsewhere(h)
<1> USE DEF Elsewhere, TypeOK, Advance, Exit, Goto, Return, PauseUntil
<1>1. h \in Handlers
  BY DEF Handlers
<1>2. ASSUME NEW i \in Ops, Step(h, i)
      PROVE  Elsewhere(h)
  BY <1>1, <1>2 DEF Step, StepCancelled, StepCached, StepGivenUp, StepBegins,
                    markStepCompleted
<1>3. ASSUME NEW i \in Ops, Effect(h, i)
      PROVE  Elsewhere(h)
  BY <1>1, <1>3 DEF Effect, EffectSucceeds, EffectFails, EffectRetries
<1>4. ASSUME NEW i \in Ops, Sleep(h, i)
      PROVE  Elsewhere(h)
  BY <1>1, <1>4 DEF Sleep, PauseSkipped, PauseOver, SleepBegins, SleepUntilBegins,
                    SleepUntilPast
<1>5. CASE BeginExecution(h) \/ clearPendingResumeAt(h) \/ ProgramEnds(h)
  BY <1>1, <1>5 DEF BeginExecution, clearPendingResumeAt, ProgramEnds
<1>6. CASE PauseAlarm(h) \/ Pause(h) \/ Finish(h)
  BY <1>1, <1>6 DEF PauseAlarm, Pause, Finish, Transit
<1>7. CASE CancelAlarm(h) \/ schedulePurge(h) \/ PurgeAlarm(h)
  BY <1>1, <1>7 DEF CancelAlarm, schedulePurge, PurgeAlarm
<1> QED
  BY <1>2, <1>3, <1>4, <1>5, <1>6, <1>7 DEF Execution

(* ... and so do the handlers of requests and alarms.                      *)
LEMMA HandlersMove ==
    ASSUME TypeOK
    PROVE  /\ Run \/ RunAsync \/ RunHandler => Elsewhere("run")
           /\ AlarmHandler \/ Platform => Elsewhere("alarm")
           /\ setCancelled \/ CancelHandler => Elsewhere("cancel")
<1> USE DEF Elsewhere, TypeOK, Goto, Return, Transit, Handlers, Executors, storage, env
<1>1. Run \/ RunAsync \/ RunHandler => Elsewhere("run")
  BY DEF Run, RunAsync, Initialize, RunHandler, Start, Queue, ScheduleQueued
<1>2. AlarmHandler => Elsewhere("alarm")
  BY DEF AlarmHandler, executePurge, StartQueued, Resume, AlarmIgnored,
         incrementRecoveryAttempts, Recover, resetRecoveryAttempts,
         RecoveryExhausted
<1>3. Platform => Elsewhere("alarm")
  BY DEF Platform, Construct, DeliverAlarm, WakeByAlarm
<1>4. setCancelled \/ CancelHandler => Elsewhere("cancel")
  BY DEF setCancelled, CancelHandler, CancelNow, CancelScheduled
<1> QED
  BY <1>1, <1>2, <1>3, <1>4

(* A step's result is in the list of completed steps, or the handler that  *)
(* stored it is about to put it there: a handler that is not keeps it so.  *)
LEMMA RecordsStep ==
    ASSUME RecordsOK, NEW h \in Handlers, Elsewhere(h), hs[h].pc # "mark",
           \A i \in Steps : steps'[i].result = steps[i].result,
           wf'.completedSteps = wf.completedSteps,
           budget'.crashes = 0 => budget.crashes = 0
    PROVE  RecordsOK'
<1>1. \A o \in Executors : hs[o].pc = "mark" => hs'[o] = hs[o]
  BY DEF Elsewhere, Handlers
<1> QED
  BY <1>1 DEF RecordsOK

(* The list is kept by step() (step.ts, phase 9).                          *)
LEMMA ExecutionRecords ==
    ASSUME TypeOK, Coordination, ReplayOK, RecordsOK, NEW h \in Executors,
           Execution(h), budget'.crashes = 0 => budget.crashes = 0
    PROVE  RecordsOK'
<1> USE DEF At, storage, env
<1>1. h \in Handlers /\ Elsewhere(h)
  BY ExecutionMoves DEF Handlers
<1>2. \A o \in Executors \ {h} : Executing(h) => hs[o].pc # "mark"
  BY DEF Coordination, EngagedOK, Engaged, Executing, ExecutionPcs, Executors
<1>3. ASSUME NEW i \in Ops, EffectSucceeds(h, i)
      PROVE  RecordsOK'
  <2>1. hs' = [hs EXCEPT ![h].pc = "mark", ![h].at = NoTime]
        /\ steps' = [steps EXCEPT ![i].result = TRUE] /\ UNCHANGED wf
        /\ hs[h].pc = "effect" /\ hs[h].op = i
    BY <1>3 DEF EffectSucceeds
  <2>2. hs'[h] = [hs[h] EXCEPT !.pc = "mark", !.at = NoTime]
    BY <1>1, <2>1 DEF TypeOK
  <2>3. hs'[h].pc = "mark" /\ hs'[h].op = i
    BY <1>1, <2>1, <2>2 DEF TypeOK, HandlerState
  <2>4. \A j \in Steps \ {i} : steps'[j].result = steps[j].result
    BY <2>1, StepsAreOps DEF TypeOK, StepKeys
  <2>5. \A o \in Executors : hs[o].pc = "mark" => hs'[o] = hs[o]
    BY <1>1, <2>1 DEF Elsewhere, Handlers
  <2>6. ASSUME budget.crashes = 0, NEW j \in Steps, steps'[j].result
        PROVE  \/ j \in wf.completedSteps
               \/ \E o \in Executors : hs'[o].pc = "mark" /\ hs'[o].op = j
    <3>1. CASE j = i
      BY <2>3, <3>1
    <3>2. CASE j # i
      <4>1. steps[j].result
        BY <2>4, <2>6, <3>2
      <4>2. \/ j \in wf.completedSteps
            \/ \E o \in Executors : hs[o].pc = "mark" /\ hs[o].op = j
        BY <2>6, <4>1 DEF RecordsOK
      <4> QED
        BY <2>5, <4>2
    <3> QED
      BY <3>1, <3>2
  <2> QED
    BY <2>1, <2>6 DEF RecordsOK
<1>4. ASSUME NEW i \in Ops, markStepCompleted(h, i)
      PROVE  RecordsOK'
  <2>1. /\ wf'.completedSteps = wf.completedSteps \union {i} /\ UNCHANGED steps
        /\ hs[h].pc = "mark" /\ hs[h].op = i
    BY <1>4 DEF markStepCompleted, TypeOK, WorkflowKeys
  <2>2. i \in Steps
    BY <2>1 DEF ReplayOK
  <2>3. \A o \in Executors \ {h} : hs[o].pc # "mark"
    BY <1>2, <2>1 DEF Executing, ExecutionPcs
  <2> QED
    BY <2>1, <2>2, <2>3 DEF RecordsOK
<1>5. ASSUME ~\E i \in Ops : EffectSucceeds(h, i) \/ markStepCompleted(h, i)
      PROVE  RecordsOK'
  <2>1. ASSUME NEW i \in Ops, \/ Step(h, i) /\ ~markStepCompleted(h, i)
                              \/ Effect(h, i) /\ ~EffectSucceeds(h, i)
                              \/ Sleep(h, i)
        PROVE  RecordsOK'
    <3>1. hs[h].pc # "mark"
      BY <2>1 DEF Step, StepCancelled, StepCached, StepGivenUp, StepBegins, Effect,
             EffectFails, EffectRetries, Sleep, PauseSkipped, PauseOver,
             SleepBegins, SleepUntilBegins, SleepUntilPast, Fresh, PausePoint,
             Reaches
    <3>2. wf'.completedSteps = wf.completedSteps
      BY <2>1 DEF Step, StepCancelled, StepCached, StepGivenUp, StepBegins, Effect,
             EffectFails, EffectRetries, Sleep, PauseSkipped, PauseOver,
             SleepBegins, SleepUntilBegins, SleepUntilPast, TypeOK, WorkflowKeys
    <3>3. MarkStarted(i) \/ EffectRetries(h, i) \/ UNCHANGED steps
      BY <2>1 DEF Step, StepCancelled, StepCached, StepGivenUp, StepBegins, Effect,
             EffectFails, Sleep, PauseSkipped, PauseOver, SleepBegins,
             SleepUntilBegins, SleepUntilPast
    <3>4. \A j \in Steps : steps'[j].result = steps[j].result
      <4>1. CASE MarkStarted(i)
        BY <4>1, StepsAreOps DEF MarkStarted, TypeOK, StepKeys
      <4>2. CASE EffectRetries(h, i)
        BY <4>2, StepsAreOps DEF EffectRetries, TypeOK, StepKeys
      <4> QED
        BY <3>3, <4>1, <4>2
    <3> QED
      BY <1>1, <3>1, <3>2, <3>4, RecordsStep
  <2>2. CASE \/ BeginExecution(h) \/ clearPendingResumeAt(h) \/ ProgramEnds(h)
            \/ PauseAlarm(h) \/ CancelAlarm(h) \/ schedulePurge(h) \/ PurgeAlarm(h)
    <3>1. /\ hs[h].pc # "mark" /\ UNCHANGED steps
          /\ wf'.completedSteps = wf.completedSteps
      BY <2>2 DEF BeginExecution, clearPendingResumeAt, ProgramEnds, PauseAlarm,
             CancelAlarm, schedulePurge, PurgeAlarm, TypeOK, WorkflowKeys
    <3> QED
      BY <1>1, <3>1, RecordsStep
  <2>3. CASE Pause(h) \/ Finish(h)
    <3>1. /\ hs[h].pc # "mark" /\ UNCHANGED steps
          /\ wf'.completedSteps = wf.completedSteps
      BY <2>3 DEF Pause, Finish, Transit, WithStatus, TypeOK, WorkflowKeys
    <3> QED
      BY <1>1, <3>1, RecordsStep
  <2> QED
    BY <1>5, <2>1, <2>2, <2>3 DEF Execution, Step, Effect
<1> QED
  BY <1>3, <1>4, <1>5

(* The other handlers leave it alone, or start without results.            *)
LEMMA HandlerRecords ==
    ASSUME TypeOK, Coordination, RecordsOK, budget'.crashes = 0 => budget.crashes = 0,
           RunHandler \/ AlarmHandler \/ CancelHandler \/ Client \/ Platform
    PROVE  RecordsOK'
<1> USE DEF At, storage, env, Handlers, Executors
<1>1. CASE Run \/ RunAsync \/ executePurge
  <2>1. /\ wf'.completedSteps = {}
        /\ \A i \in Steps : ~steps'[i].result
    <3>1. CASE executePurge
      BY <3>1, StepsAreOps DEF executePurge, EmptyStorage, EmptySteps
    <3>2. CASE Run \/ RunAsync
      <4>1. wf.status = NoWorkflow /\ UNCHANGED steps /\ wf'.completedSteps = {}
        BY <3>2 DEF Run, RunAsync, Initialize, TypeOK, WorkflowKeys
      <4>2. steps = EmptySteps
        BY <4>1 DEF Coordination, PurgeOK
      <4> QED
        BY <4>1, <4>2, StepsAreOps DEF EmptySteps
    <3> QED
      BY <1>1, <3>1, <3>2
  <2> QED
    BY <2>1 DEF RecordsOK
<1>2. CASE RunHandler \/ (AlarmHandler /\ ~executePurge) \/ CancelHandler
          \/ setCancelled \/ Platform
  <2>1. UNCHANGED steps /\ wf'.completedSteps = wf.completedSteps
    BY <1>2 DEF RunHandler, Start, Queue, ScheduleQueued, Transit, WithStatus,
           AlarmHandler, StartQueued, Resume, AlarmIgnored,
           incrementRecoveryAttempts, Recover, resetRecoveryAttempts,
           RecoveryExhausted, CancelHandler, CancelNow, CancelScheduled,
           setCancelled, Platform, Construct, DeliverAlarm, WakeByAlarm,
           TypeOK, WorkflowKeys
  <2>2. \E h \in Handlers : Elsewhere(h) /\ hs[h].pc # "mark"
    <3>1. CASE RunHandler
      BY <3>1, HandlersMove DEF RunHandler, Start, Queue, ScheduleQueued
    <3>2. CASE AlarmHandler
      BY <3>2, HandlersMove DEF AlarmHandler, executePurge, StartQueued, Resume,
           handleAlarm, AlarmIgnored, incrementRecoveryAttempts, Recover,
           resetRecoveryAttempts, RecoveryExhausted
    <3>3. CASE CancelHandler \/ setCancelled
      BY <3>3, HandlersMove DEF CancelHandler, CancelNow, CancelScheduled, setCancelled
    <3>4. CASE Platform
      <4>1. hs["alarm"].pc # "mark" \/ UNCHANGED hs
        BY <3>4 DEF Platform, Construct, DeliverAlarm, WakeByAlarm, Coordination,
                    PositionsOK, AllIdle
      <4>2. hs["cancel"].pc # "mark"
        BY DEF Coordination, PositionsOK
      <4> QED
        BY <3>4, <4>1, <4>2, HandlersMove DEF Elsewhere
    <3> QED
      BY <1>2, <3>1, <3>2, <3>3, <3>4
  <2> QED
    BY <2>1, <2>2, RecordsStep
<1> QED
  BY <1>1, <1>2 DEF Client

(* RecordsOK holds initially, and every step preserves it.                 *)
LEMMA RecordsInductive ==
    /\ Init => RecordsOK
    /\ RInv /\ RecordsOK /\ [Next]_vars => RecordsOK'
<1>1. Init => RecordsOK
  BY StepsAreOps DEF Init, EmptyStorage, EmptySteps, RecordsOK
<1>2. ASSUME RInv, RecordsOK, [Next]_vars
      PROVE  RecordsOK'
  <2> USE DEF RInv, IInv
  <2>1. budget'.crashes = 0 => budget.crashes = 0 /\ ~Crash
    BY <1>2, CrashesCount
  <2>2. CASE Client \/ RunHandler \/ AlarmHandler \/ CancelHandler \/ Platform
    BY <1>2, <2>1, <2>2, HandlerRecords
  <2>3. CASE \E h \in Executors : Execution(h)
    BY <1>2, <2>1, <2>3, ExecutionRecords
  <2>4. CASE Crash
    BY <1>2, <2>1, <2>4 DEF RecordsOK, Crash
  <2>5. CASE Evict \/ Tick \/ UNCHANGED vars
    BY <1>2, <2>1, <2>5 DEF RecordsOK, Evict, Tick, vars, storage
  <2> QED
    BY <1>2, <2>2, <2>3, <2>4, <2>5 DEF Next
<1> QED
  BY <1>1, <1>2

(* Every step of a completed workflow is in the list that                  *)
(* getCompletedSteps() answers, if nothing crashed.                        *)
THEOREM CompletedRecorded == Spec => []CompletedStepsAreRecorded
<1>1. RInv /\ RecordsOK => CompletedStepsAreRecorded
  <2> SUFFICES ASSUME RInv, RecordsOK, wf.status = "Completed", budget.crashes = 0
               PROVE  wf.completedSteps = Steps
    BY DEF CompletedStepsAreRecorded
  <2>1. AllDone
    BY DEF RInv, ReplayOK
  <2>2. \A h \in Executors : hs[h].pc # "mark"
    BY DEF RInv, IInv, Coordination, EngagedOK, ExecutionPcs
  <2> QED
    BY <2>1, <2>2 DEF RecordsOK, AllDone
<1> QED
  BY <1>1, ReplayInductive, RecordsInductive, PTL DEF Spec

(* What keeps EndsOK where neither a status nor the alarm changes: the     *)
(* handler that moves stays in the execution, or in the cleanup.           *)
LEMMA EndsStep ==
    ASSUME EndsOK, NEW h \in Handlers, Elsewhere(h),
           budget'.crashes = 0 => budget.crashes = 0,
           wf'.status = wf.status, wf'.purgeAt = wf.purgeAt,
           alarm' = alarm, now' = now,
           hs[h].pc \in ExecutionPcs => hs'[h].pc \in ExecutionPcs,
           hs[h].pc \in CleanupPcs => hs'[h].pc \in CleanupPcs,
           hs[h].pc = "alarm" => ~PurgeDue
    PROVE  EndsOK'
<1>1. \A o \in Executors : hs[o].pc \in ExecutionPcs => hs'[o].pc \in ExecutionPcs
  BY DEF Elsewhere, Handlers
<1>2. \A o \in Executors : hs[o].pc \in CleanupPcs => hs'[o].pc \in CleanupPcs
  BY DEF Elsewhere, Handlers
<1>3. hs["alarm"].pc = "alarm" /\ PurgeDue => hs'["alarm"].pc = "alarm" /\ PurgeDue'
  BY DEF Elsewhere, Handlers, Executors, PurgeDue
<1> QED
  BY <1>1, <1>2, <1>3 DEF EndsOK, Executing

(* An execution goes on, or ends in its cleanup, which ends in the purge.  *)
LEMMA ExecutionEnds ==
    ASSUME TypeOK, Coordination, EndsOK, NEW h \in Executors, Execution(h),
           budget'.crashes = 0 => budget.crashes = 0
    PROVE  EndsOK'
<1> USE DEF At, storage, env
<1>1. h \in Handlers /\ Elsewhere(h)
  BY ExecutionMoves DEF Handlers
<1>2. CASE InsideAction(h)
  <2>1. /\ hs[h].pc \in ExecutionPcs /\ hs'[h].pc \in ExecutionPcs
        /\ wf'.status = wf.status /\ wf'.purgeAt = wf.purgeAt /\ alarm' = alarm
    BY <1>2, InsideStep DEF Inside
  <2>2. now' = now
    <3>1. ASSUME NEW i \in Ops, Step(h, i) \/ Effect(h, i) \/ Sleep(h, i)
          PROVE  now' = now
      BY <3>1 DEF Step, StepCancelled, StepCached, StepGivenUp, StepBegins,
           markStepCompleted, Effect, EffectSucceeds, EffectFails, EffectRetries,
           Sleep, PauseSkipped, PauseOver, SleepBegins, SleepUntilBegins,
           SleepUntilPast
    <3> QED
      BY <1>2, <3>1 DEF InsideAction, BeginExecution, clearPendingResumeAt,
           ProgramEnds
  <2>3. hs[h].pc \notin CleanupPcs \union {"alarm"}
    BY <2>1 DEF ExecutionPcs, CleanupPcs
  <2> QED
    BY <1>1, <2>1, <2>2, <2>3, EndsStep
<1>3. hs[h].pc \in ExecutionPcs => wf.status = "Running"
  BY DEF Coordination, EngagedOK
<1>4. CASE PauseAlarm(h)
  <2>1. /\ hs'[h].pc = "pause" /\ UNCHANGED wf /\ wf.status = "Running"
    BY <1>1, <1>3, <1>4, GotoDoes DEF PauseAlarm, ExecutionPcs
  <2> QED
    BY <2>1 DEF EndsOK, Executing, ExecutionPcs
<1>5. CASE Pause(h)
  <2>1. wf'.status = "Paused"
    BY <1>1, <1>5, TransitMoves DEF Pause, TransitionTag, Pcs, applyTransitionToStatus
  <2> QED
    BY <2>1 DEF EndsOK
<1>6. CASE Finish(h)
  <2>1. Transit(h, hs[h].exit, "cleanup") /\ hs[h].exit \in {"Complete", "Fail", "Cancel"}
    BY <1>6 DEF Finish, Coordination, RegistersOK
  <2>2. hs'[h].pc = "cleanup" /\ wf'.status = applyTransitionToStatus(hs[h].exit)
    BY <1>1, <2>1, TransitMoves DEF TransitionTag, Pcs
  <2>3. wf'.status \in {"Completed", "Failed", "Cancelled"}
    BY <2>1, <2>2 DEF applyTransitionToStatus
  <2> QED
    BY <2>2, <2>3 DEF EndsOK, CleanupPcs
<1>7. CASE CancelAlarm(h) \/ schedulePurge(h)
  <2>1. hs[h].pc \in CleanupPcs /\ wf'.status = wf.status
    BY <1>7 DEF CancelAlarm, schedulePurge, CleanupPcs, TypeOK, WorkflowKeys
  <2>2. wf.status # "Running"
    BY <2>1 DEF Coordination, EngagedOK, Terminated
  <2>3. purgeDelayMs # NoTime => hs'[h].pc \in CleanupPcs
    BY <1>1, <1>7, GotoDoes DEF CancelAlarm, schedulePurge, CleanupPcs
  <2> QED
    BY <2>1, <2>2, <2>3 DEF EndsOK
<1>8. CASE PurgeAlarm(h)
  <2>1. hs[h].pc = "purgeAlarm" /\ alarm' = wf.purgeAt /\ UNCHANGED wf
    BY <1>8 DEF PurgeAlarm
  <2>2. wf.status # "Running" /\ wf.purgeAt # NoTime
    BY <2>1 DEF Coordination, EngagedOK, CleanupPcs, Terminated
  <2> QED
    BY <2>1, <2>2 DEF EndsOK
<1> QED
  BY <1>2, <1>4, <1>5, <1>6, <1>7, <1>8 DEF Execution, InsideAction

(* The other handlers: no recovery of what is executed, no purge but of    *)
(* what is due, no alarm ignored that is the purge's.                      *)
LEMMA HandlerEnds ==
    ASSUME TypeOK, Coordination, EndsOK, budget'.crashes = 0 => budget.crashes = 0,
           RunHandler \/ AlarmHandler \/ CancelHandler \/ Client
    PROVE  EndsOK'
<1> USE DEF At, storage, env, Handlers, Executors, TransitionTag, Pcs
<1>1. CASE Run \/ RunAsync \/ Queue
  <2>1. wf'.status \in {"Pending", "Queued"}
    <3>1. CASE Queue
      BY <3>1, TransitMoves DEF Queue, applyTransitionToStatus
    <3>2. CASE Run \/ RunAsync
      BY <3>2 DEF Run, RunAsync, Initialize, TypeOK, WorkflowKeys
    <3> QED
      BY <1>1, <3>1, <3>2
  <2> QED
    BY <2>1 DEF EndsOK
<1>2. CASE Start \/ StartQueued \/ Resume
  <2>1. \E h \in Executors : hs'[h].pc = "begin"
    BY <1>2, TransitMoves DEF Start, StartQueued, Resume
  <2>2. wf'.status = "Running"
    BY <1>2, TransitMoves DEF Start, StartQueued, Resume, applyTransitionToStatus
  <2> QED
    BY <2>1, <2>2 DEF EndsOK, Executing, ExecutionPcs
<1>3. CASE CancelNow
  <2>1. wf'.status = "Cancelled"
    BY <1>3, TransitMoves DEF CancelNow, applyTransitionToStatus
  <2> QED
    BY <2>1 DEF EndsOK
<1>4. CASE ScheduleQueued \/ CancelScheduled
  <2>1. wf.status \in {"Queued", "Cancelled"} /\ UNCHANGED wf
    BY <1>4 DEF ScheduleQueued, CancelScheduled, Coordination, RunOK, CancelOK
  <2> QED
    BY <2>1 DEF EndsOK
<1>5. CASE setCancelled
  <2>1. /\ Elsewhere("cancel") /\ hs["cancel"].pc = "idle"
        /\ wf'.status = wf.status /\ wf'.purgeAt = wf.purgeAt /\ alarm' = alarm
        /\ now' = now
    BY <1>5, HandlersMove DEF setCancelled, TypeOK, WorkflowKeys
  <2> QED
    BY <2>1, EndsStep DEF ExecutionPcs, CleanupPcs
<1>6. CASE executePurge
  <2>1. wf'.status = NoWorkflow
    BY <1>6 DEF executePurge, EmptyStorage
  <2> QED
    BY <2>1 DEF EndsOK, NoWorkflow
<1>7. CASE AlarmIgnored \/ incrementRecoveryAttempts \/ resetRecoveryAttempts
  <2>1. /\ Elsewhere("alarm") /\ hs["alarm"].pc \in {"alarm", "recovered"}
        /\ (hs["alarm"].pc = "alarm" => ~PurgeDue)
        /\ wf'.status = wf.status /\ wf'.purgeAt = wf.purgeAt /\ alarm' = alarm
        /\ now' = now
    BY <1>7, HandlersMove
       DEF AlarmHandler, AlarmIgnored, incrementRecoveryAttempts,
           resetRecoveryAttempts, handleAlarm, TypeOK, WorkflowKeys
  <2> QED
    BY <2>1, EndsStep DEF ExecutionPcs, CleanupPcs
<1>8. CASE Recover
  <2>1. /\ Elsewhere("alarm") /\ hs["alarm"].pc = "recover"
        /\ wf'.status = wf.status /\ wf'.purgeAt = wf.purgeAt /\ alarm' = alarm
        /\ now' = now
    BY <1>8, HandlersMove
       DEF AlarmHandler, Recover, WithStatus, applyTransitionToStatus, Coordination,
           EngagedOK, TypeOK, WorkflowKeys
  <2> QED
    BY <2>1, EndsStep DEF ExecutionPcs, CleanupPcs
<1>9. CASE RecoveryExhausted
  <2>1. hs["alarm"].pc = "alarm" /\ wf.status = "Running"
    BY <1>9 DEF RecoveryExhausted, handleAlarm
  <2>2. ~Executing("alarm") /\ ~Executing("run")
    BY <2>1 DEF Executing, ExecutionPcs, Coordination, RunOK
  <2>3. budget.crashes # 0
    BY <2>1, <2>2 DEF EndsOK
  <2> QED
    BY <2>3 DEF EndsOK
<1> QED
  BY <1>1, <1>2, <1>3, <1>4, <1>5, <1>6, <1>7, <1>8, <1>9
     DEF RunHandler, AlarmHandler, CancelHandler, Client

(* The constructor leaves a workflow that is over alone, and the alarm     *)
(* that is delivered for it is the one of its purge.                       *)
LEMMA PlatformEnds ==
    ASSUME TypeOK, Coordination, EndsOK, budget'.crashes = 0 => budget.crashes = 0,
           Platform \/ Evict \/ Tick
    PROVE  EndsOK'
<1> USE DEF At, storage, env, Handlers, Executors
<1>1. UNCHANGED wf
  BY DEF Platform, Construct, DeliverAlarm, WakeByAlarm, Evict, Tick
<1>2. CASE wf.status = "Running"
  <2>1. \A h \in Executors : hs[h].pc \in ExecutionPcs => hs'[h] = hs[h]
    BY GotoDoes DEF Platform, Construct, DeliverAlarm, WakeByAlarm, Evict, Tick,
           Coordination, PositionsOK, AllIdle, ExecutionPcs, Elsewhere
  <2> QED
    BY <1>1, <1>2, <2>1 DEF EndsOK, Executing
<1>3. CASE wf.status \in {"Completed", "Failed"}
  <2>1. ~RecoveryScheduled
    BY <1>3 DEF RecoveryScheduled, checkRecoverability
  <2>2. CASE Construct \/ Evict \/ Tick
    <3>1. UNCHANGED <<alarm, hs>>
      BY <2>1, <2>2 DEF Construct, Evict, Tick
    <3>2. PurgeDue => PurgeDue'
      BY <1>1, <2>2 DEF Construct, Evict, Tick, PurgeDue, TypeOK, WorkflowKeys, Time
    <3> QED
      BY <1>1, <3>1, <3>2 DEF EndsOK, Executing
  <2>3. CASE DeliverAlarm \/ WakeByAlarm
    <3>1. /\ Goto("alarm", "alarm") /\ AlarmDue /\ now' = now
          /\ hs["alarm"].pc = "idle"
      BY <2>1, <2>3 DEF DeliverAlarm, WakeByAlarm, Coordination, PositionsOK, AllIdle
    <3>2. hs'["alarm"].pc = "alarm" /\ hs'["run"] = hs["run"]
      BY <3>1, GotoDoes DEF Elsewhere
    <3>3. wf.purgeAt # NoTime /\ alarm = wf.purgeAt => PurgeDue'
      BY <1>1, <3>1 DEF AlarmDue, PurgeDue
    <3> QED
      BY <1>1, <1>3, <3>1, <3>2, <3>3 DEF EndsOK, CleanupPcs
  <2> QED
    BY <2>2, <2>3 DEF Platform
<1>4. CASE wf.status \notin {"Running", "Completed", "Failed"}
  BY <1>1, <1>4 DEF EndsOK
<1> QED
  BY <1>2, <1>3, <1>4

(* EndsOK holds initially, and every step preserves it.                    *)
LEMMA EndsInductive ==
    /\ Init => EndsOK
    /\ IInv /\ EndsOK /\ [Next]_vars => EndsOK'
<1>1. Init => EndsOK
  BY DEF Init, EmptyStorage, EndsOK, NoWorkflow
<1>2. ASSUME IInv, EndsOK, [Next]_vars
      PROVE  EndsOK'
  <2> USE DEF IInv
  <2>1. budget'.crashes = 0 => budget.crashes = 0 /\ ~Crash
    BY <1>2, CrashesCount
  <2>2. CASE Client \/ RunHandler \/ AlarmHandler \/ CancelHandler
    BY <1>2, <2>1, <2>2, HandlerEnds
  <2>3. CASE \E h \in Executors : Execution(h)
    BY <1>2, <2>1, <2>3, ExecutionEnds
  <2>4. CASE Crash
    BY <2>1, <2>4 DEF EndsOK
  <2>5. CASE Platform \/ Evict \/ Tick
    BY <1>2, <2>1, <2>5, PlatformEnds
  <2>6. CASE UNCHANGED vars
    BY <1>2, <2>6 DEF EndsOK, Executing, PurgeDue, vars
  <2> QED
    BY <1>2, <2>2, <2>3, <2>4, <2>5, <2>6 DEF Next
<1> QED
  BY <1>1, <1>2

(* With the purge option the data of a workflow that ended in its          *)
(* execution is scheduled for deletion, if nothing crashed.                *)
THEOREM EndedPurged == Spec => []EndedIsPurged
<1>1. EndsOK => EndedIsPurged
  BY DEF EndsOK, EndedIsPurged, AllIdle, CleanupPcs, Handlers, Executors
<1> QED
  BY <1>1, InitIInv, NextIInv, EndsInductive, PTL DEF Spec

=============================================================================
