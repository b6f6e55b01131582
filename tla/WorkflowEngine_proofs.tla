----------------------- MODULE WorkflowEngine_proofs -----------------------
(***************************************************************************)
(* The safety of WorkflowEngine for every program, configuration and bound.*)
(*                                                                         *)
(* The properties follow from one inductive invariant, TypeOK together     *)
(* with Coordination.  It is shown to be inductive action by action: the   *)
(* actions inside an execution all at once, by what they leave alone; each *)
(* of the others by what it does to the status, the purge time, the alarm  *)
(* and the position of its handler.                                        *)
(***************************************************************************)
EXTENDS WorkflowProperties, TLAPS

(* The program is a sequence of operations with natural times.             *)
LEMMA ConstantTypes ==
    /\ Len(Program) \in Nat
    /\ NoTime \in Time
    /\ \A i \in Ops : /\ Program[i].ms \in Nat
                      /\ Program[i].timeout \in Time
                      /\ i \in Nat /\ 1 <= i /\ i <= Len(Program)
<1>1. Program \in Seq(Operation)
  BY ProgramAssumption DEF ProgramAssumption
<1>2. Len(Program) \in Nat
  BY <1>1
<1>3. \A i \in Ops : i \in Nat /\ 1 <= i /\ i <= Len(Program)
  BY <1>2 DEF Ops
<1>4. \A i \in Ops : Program[i] \in Operation
  BY <1>1, <1>2 DEF Ops
<1>5. \A i \in Ops : Program[i].ms \in Nat /\ Program[i].timeout \in Time
  BY <1>4 DEF Operation
<1> QED
  BY <1>2, <1>3, <1>5 DEF Time

(* The ways a handler moves keep the types of its registers.               *)
LEMMA GotoType ==
    ASSUME hs \in [Handlers -> HandlerState],
           NEW h \in Handlers, NEW p \in Pcs, Goto(h, p)
    PROVE  hs' \in [Handlers -> HandlerState]
BY DEF Goto, HandlerState

(* The same for a handler that returns.                                    *)
LEMMA ReturnType ==
    ASSUME hs \in [Handlers -> HandlerState], NEW h \in Handlers, Return(h)
    PROVE  hs' \in [Handlers -> HandlerState]
<1>1. IdleHandler \in HandlerState
  BY ConstantTypes DEF HandlerState, IdleHandler, Pcs
<1> QED
  BY <1>1 DEF Return

(* The same for an executor that goes on with the next operation.          *)
LEMMA AdvanceType ==
    ASSUME hs \in [Handlers -> HandlerState], NEW h \in Handlers, NEW i \in Ops,
           hs[h].op = i, Advance(h)
    PROVE  hs' \in [Handlers -> HandlerState]
<1>1. hs'[h] = [hs[h] EXCEPT !.pc = "next", !.op = @ + 1]
  BY DEF Advance
<1>2. i + 1 \in 0 .. Len(Program) + 1
  BY ConstantTypes
<1>3. hs'[h] = [hs[h] EXCEPT !.pc = "next", !.op = i + 1]
  BY <1>1
<1>4. hs'[h] \in HandlerState
  BY <1>2, <1>3 DEF HandlerState, Pcs
<1> QED
  BY <1>4 DEF Advance

(* The same for one that leaves the program.                               *)
LEMMA ExitType ==
    ASSUME hs \in [Handlers -> HandlerState], NEW h \in Handlers,
           NEW t \in TransitionTag, Exit(h, t)
    PROVE  hs' \in [Handlers -> HandlerState]
<1>1. hs'[h] = [hs[h] EXCEPT !.pc = "exit", !.exit = t]
  BY DEF Exit
<1>2. hs'[h] \in HandlerState
  BY <1>1 DEF HandlerState, Pcs
<1> QED
  BY <1>2 DEF Exit

(* The same for one that pauses.                                           *)
LEMMA PauseUntilType ==
    ASSUME hs \in [Handlers -> HandlerState], NEW h \in Handlers,
           NEW t \in Time, PauseUntil(h, t)
    PROVE  hs' \in [Handlers -> HandlerState]
<1>1. hs'[h] = [hs[h] EXCEPT !.pc = "pausing", !.resumeAt = t]
  BY DEF PauseUntil
<1>2. hs'[h] \in HandlerState
  BY <1>1 DEF HandlerState, Pcs
<1> QED
  BY <1>2 DEF PauseUntil

(* A transition stores a status (state/machine.ts applyTransition).        *)
LEMMA WithStatusType ==
    ASSUME wf \in WorkflowKeys, now \in Nat, NEW t \in TransitionTag
    PROVE  WithStatus(t) \in WorkflowKeys
BY DEF WithStatus, WorkflowKeys, applyTransitionToStatus, TransitionTag,
       StoredStatus, StatusTag, NoWorkflow, Time, NoTime

(* Applying a transition keeps every type.                                 *)
LEMMA TransitType ==
    ASSUME TypeOK, NEW h \in Handlers, NEW t \in TransitionTag, NEW p \in Pcs,
           Transit(h, t, p)
    PROVE  TypeOK'
<1>1. wf' \in WorkflowKeys
  BY WithStatusType DEF TypeOK, Transit
<1>2. hs' \in [Handlers -> HandlerState]
  BY GotoType, ReturnType DEF TypeOK, Transit
<1> QED
  BY <1>1, <1>2 DEF TypeOK, Transit, env

(* The actions of step() keep every type (primitives/step.ts).             *)
LEMMA StepType ==
    ASSUME TypeOK, NEW h \in Executors, NEW i \in Ops, Step(h, i)
    PROVE  TypeOK'
<1> USE DEF TypeOK, storage, env
<1>1. h \in Handlers
  BY DEF Handlers
<1>2. CASE StepCancelled(h, i)
  BY <1>1, <1>2, ExitType DEF StepCancelled, TransitionTag
<1>3. CASE StepCached(h, i)
  BY <1>1, <1>3, AdvanceType DEF StepCached, Reaches
<1>4. MarkStarted(i) => steps' \in [Ops -> StepKeys]
  BY DEF MarkStarted, StepKeys, Time
<1>5. CASE StepGivenUp(h, i)
  BY <1>1, <1>4, <1>5, ExitType DEF StepGivenUp, TransitionTag
<1>6. CASE StepBegins(h, i)
  <2>1. hs'[h] = [hs[h] EXCEPT !.pc = "effect", !.at = now]
    BY <1>1, <1>6 DEF StepBegins
  <2>2. hs'[h] \in HandlerState
    BY <1>1, <2>1 DEF HandlerState, Pcs, Time
  <2> QED
    BY <1>1, <1>4, <1>6, <2>2 DEF StepBegins
<1>7. CASE markStepCompleted(h, i)
  BY <1>1, <1>7, AdvanceType DEF markStepCompleted, WorkflowKeys
<1> QED
  BY <1>2, <1>3, <1>5, <1>6, <1>7 DEF Step

(* The ways a step's effect ends keep every type (primitives/step.ts).     *)
LEMMA EffectType ==
    ASSUME TypeOK, NEW h \in Executors, NEW i \in Ops, RegistersOK, Effect(h, i)
    PROVE  TypeOK'
<1> USE DEF TypeOK, storage, env
<1>1. h \in Handlers
  BY DEF Handlers
<1>2. CASE EffectSucceeds(h, i)
  <2>1. hs'[h] = [hs[h] EXCEPT !.pc = "mark", !.at = NoTime]
    BY <1>1, <1>2 DEF EffectSucceeds
  <2>2. hs'[h] \in HandlerState
    BY <1>1, <2>1, ConstantTypes DEF HandlerState, Pcs
  <2> QED
    BY <1>1, <1>2, <2>2 DEF EffectSucceeds, StepKeys
<1>3. CASE EffectFails(h, i)
  <2>1. hs'[h] = [hs[h] EXCEPT !.pc = "exit", !.exit = "Fail", !.at = NoTime]
    BY <1>1, <1>3 DEF EffectFails
  <2>2. hs'[h] \in HandlerState
    BY <1>1, <2>1, ConstantTypes DEF HandlerState, Pcs, TransitionTag
  <2> QED
    BY <1>1, <1>3, <2>2 DEF EffectFails
<1>4. CASE EffectRetries(h, i)
  <2>1. /\ hs[h].at + Program[i].ms \in Nat
        /\ hs[h].at + Program[i].ms \in Time
    BY <1>1, <1>4, ConstantTypes
       DEF EffectRetries, At, RegistersOK, HandlerState, Time
  <2>2. hs'[h] = [hs[h] EXCEPT !.pc = "pausing", !.at = NoTime,
                               !.resumeAt = hs[h].at + Program[i].ms]
    BY <1>1, <1>4 DEF EffectRetries
  <2>3. hs'[h] \in HandlerState
    BY <1>1, <2>1, <2>2, ConstantTypes DEF HandlerState, Pcs
  <2>4. steps' \in [Ops -> StepKeys]
    BY <1>4 DEF EffectRetries, StepKeys
  <2>5. hist' \in History
    BY <1>4, <2>1 DEF EffectRetries, History
  <2> QED
    BY <1>1, <1>4, <2>3, <2>4, <2>5 DEF EffectRetries
<1> QED
  BY <1>2, <1>3, <1>4 DEF Effect

(* The actions of sleep() and sleepUntil() keep every type.                *)
LEMMA SleepType ==
    ASSUME TypeOK, NEW h \in Executors, NEW i \in Ops, Sleep(h, i)
    PROVE  TypeOK'
<1> USE DEF TypeOK, storage, env
<1>1. h \in Handlers /\ pauseIndex \in Nat
  BY DEF Handlers, pauseIndex, WorkflowKeys
<1>2. CASE PauseSkipped(h, i)
  BY <1>1, <1>2, AdvanceType DEF PauseSkipped, PausePoint, Reaches, WorkflowKeys
<1>3. CASE PauseOver(h, i)
  BY <1>1, <1>3, GotoType DEF PauseOver, WorkflowKeys, Pcs
<1>4. CASE SleepBegins(h, i)
  <2>1. now + Program[i].ms \in Nat
    BY ConstantTypes
  <2>2. hs' \in [Handlers -> HandlerState]
    BY <1>1, <1>4, <2>1, PauseUntilType DEF SleepBegins, Time
  <2>3. wf' \in WorkflowKeys
    BY <1>1, <1>4, <2>1 DEF SleepBegins, WorkflowKeys, Time
  <2>4. hist' \in History
    BY <1>4 DEF SleepBegins, History, Time
  <2> QED
    BY <1>4, <2>2, <2>3, <2>4 DEF SleepBegins
<1>5. CASE SleepUntilBegins(h, i)
  <2>1. Program[i].ms \in Time
    BY ConstantTypes DEF Time
  <2>2. hs' \in [Handlers -> HandlerState]
    BY <1>1, <1>5, <2>1, PauseUntilType DEF SleepUntilBegins
  <2> QED
    BY <1>1, <1>5, <2>1, <2>2 DEF SleepUntilBegins, WorkflowKeys
<1>6. CASE SleepUntilPast(h, i)
  BY <1>1, <1>6, AdvanceType DEF SleepUntilPast, Reaches, WorkflowKeys
<1> QED
  BY <1>2, <1>3, <1>4, <1>5, <1>6 DEF Sleep

(* So does everything else an executor does (executor/executor.ts).        *)
LEMMA ExecutionType ==
    ASSUME TypeOK, NEW h \in Executors, RegistersOK, Execution(h)
    PROVE  TypeOK'
<1>1. h \in Handlers
  BY DEF Handlers
<1>2. CASE BeginExecution(h)
  <2>1. hs'[h] = [hs[h] EXCEPT !.pc = "next", !.op = 1]
    BY <1>1, <1>2 DEF BeginExecution, TypeOK
  <2>2. 1 \in 0 .. Len(Program) + 1
    BY ConstantTypes
  <2>3. hs'[h] \in HandlerState
    BY <1>1, <2>1, <2>2 DEF HandlerState, Pcs, TypeOK
  <2> QED
    BY <1>1, <1>2, <2>3 DEF BeginExecution, TypeOK, WorkflowKeys, env
<1>3. CASE \E i \in Ops : Step(h, i) \/ Effect(h, i) \/ Sleep(h, i)
  BY <1>3, StepType, EffectType, SleepType
<1>4. CASE clearPendingResumeAt(h)
  <2>1. hs[h].op \in Ops
    BY <1>4 DEF clearPendingResumeAt, At, RegistersOK
  <2>2. hs' \in [Handlers -> HandlerState]
    BY <1>1, <1>4, <2>1, AdvanceType DEF clearPendingResumeAt, TypeOK
  <2> QED
    BY <1>4, <2>2, ConstantTypes DEF clearPendingResumeAt, TypeOK, WorkflowKeys, env
<1>5. CASE ProgramEnds(h)
  BY <1>1, <1>5, ExitType DEF ProgramEnds, TypeOK, TransitionTag, storage, env
<1>6. CASE PauseAlarm(h)
  BY <1>1, <1>6, GotoType DEF PauseAlarm, TypeOK, HandlerState, Pcs, env
<1>7. CASE Pause(h)
  BY <1>1, <1>7, TransitType DEF Pause, TransitionTag, Pcs
<1>8. CASE Finish(h)
  <2>1. hs[h].exit \in TransitionTag
    BY <1>8 DEF Finish, At, RegistersOK, TransitionTag
  <2> QED
    BY <1>1, <1>8, <2>1, TransitType DEF Finish, Pcs
<1>9. CASE CancelAlarm(h)
  BY <1>1, <1>9, GotoType, ReturnType, ConstantTypes
     DEF CancelAlarm, TypeOK, Pcs, env
<1>10. CASE schedulePurge(h)
  <2>1. now + purgeDelayMs \in Time
    BY <1>10, ConfigAssumption
       DEF schedulePurge, At, RegistersOK, ConfigAssumption, Time, TypeOK
  <2> QED
    BY <1>1, <1>10, <2>1, GotoType
       DEF schedulePurge, TypeOK, WorkflowKeys, Pcs, env
<1>11. CASE PurgeAlarm(h)
  BY <1>1, <1>11, ReturnType DEF PurgeAlarm, TypeOK, WorkflowKeys, env
<1> QED
  BY <1>2, <1>3, <1>4, <1>5, <1>6, <1>7, <1>8, <1>9, <1>10, <1>11 DEF Execution

(* The handlers of requests and alarms keep every type.                    *)
LEMMA HandlerType ==
    ASSUME TypeOK, RunHandler \/ AlarmHandler \/ CancelHandler \/ Client
    PROVE  TypeOK'
<1> USE DEF Handlers, Executors, TransitionTag, Pcs
<1>1. ASSUME NEW p \in {"start", "queue"}, Initialize(p)
      PROVE  TypeOK'
  <2>1. hs' \in [Handlers -> HandlerState]
    BY <1>1, GotoType DEF Initialize, TypeOK
  <2>2. wf' \in WorkflowKeys
    BY <1>1 DEF Initialize, TypeOK, WorkflowKeys, StoredStatus, StatusTag
  <2> QED
    BY <1>1, <2>1, <2>2 DEF Initialize, TypeOK
<1>2. CASE setCancelled
  BY <1>2, GotoType DEF setCancelled, TypeOK, WorkflowKeys, env
<1>3. CASE Start \/ Queue \/ StartQueued \/ Resume \/ CancelNow
  BY <1>3, TransitType DEF Start, Queue, StartQueued, Resume, CancelNow
<1>4. CASE ScheduleQueued
  BY <1>4, ReturnType DEF ScheduleQueued, TypeOK, env, Time
<1>5. CASE executePurge
  <2>1. EmptyStorage \in WorkflowKeys
    BY ConstantTypes DEF EmptyStorage, WorkflowKeys, StoredStatus
  <2>2. EmptySteps \in [Ops -> StepKeys] /\ NoHistory \in History
    BY ConstantTypes DEF EmptySteps, StepKeys, NoHistory, History
  <2> QED
    BY <1>5, <2>1, <2>2, ReturnType DEF executePurge, TypeOK
<1>6. CASE AlarmIgnored
  BY <1>6, ReturnType DEF AlarmIgnored, TypeOK, storage, env
<1>7. CASE incrementRecoveryAttempts
  BY <1>7, GotoType DEF incrementRecoveryAttempts, TypeOK, WorkflowKeys, env
<1>8. CASE Recover
  BY <1>8, GotoType, WithStatusType DEF Recover, TypeOK, History
<1>9. CASE resetRecoveryAttempts
  BY <1>9, GotoType DEF resetRecoveryAttempts, TypeOK, WorkflowKeys, env
<1>10. CASE RecoveryExhausted
  BY <1>10, ReturnType, WithStatusType DEF RecoveryExhausted, TypeOK, env, Time
<1>11. CASE CancelScheduled
  BY <1>11, ReturnType, ConstantTypes DEF CancelScheduled, TypeOK, env
<1> QED
  BY <1>1, <1>2, <1>3, <1>4, <1>5, <1>6, <1>7, <1>8, <1>9, <1>10, <1>11
     DEF RunHandler, AlarmHandler, CancelHandler, Client, Run, RunAsync

(* The platform, the constructor and the clock keep every type.            *)
LEMMA PlatformType ==
    ASSUME TypeOK, Platform \/ Crash \/ Evict \/ Tick
    PROVE  TypeOK'
<1> USE ConfigAssumption, ConstantTypes
        DEF TypeOK, Handlers, Executors, Pcs, ConfigAssumption
<1>1. now + recoveryDelayMs \in Time
  BY DEF Time
<1>2. CASE Construct
  BY <1>1, <1>2 DEF Construct
<1>3. CASE DeliverAlarm
  BY <1>3, GotoType DEF DeliverAlarm, env
<1>4. CASE WakeByAlarm
  BY <1>1, <1>4, GotoType DEF WakeByAlarm
<1>5. CASE Crash
  <2>1. IdleHandler \in HandlerState
    BY DEF HandlerState, IdleHandler
  <2>2. hs' \in [Handlers -> HandlerState]
    BY <1>5, <2>1 DEF Crash
  <2>3. budget' = [budget EXCEPT !.crashes = @ + 1]
    BY <1>5 DEF Crash
  <2>4. budget' \in [runs : Nat, crashes : Nat, evictions : Nat]
    BY <2>3, SMTT(30)
  <2>5. alarm' \in Time
    BY <1>5 DEF Crash, Time
  <2> QED
    BY <1>5, <2>2, <2>4, <2>5 DEF Crash
<1>6. CASE Evict
  <2>1. budget' \in [runs : Nat, crashes : Nat, evictions : Nat]
    BY <1>6 DEF Evict
  <2> QED
    BY <1>6, <2>1 DEF Evict
<1>7. CASE Tick
  BY <1>7 DEF Tick, storage
<1> QED
  BY <1>2, <1>3, <1>4, <1>5, <1>6, <1>7 DEF Platform

-----------------------------------------------------------------------------
(* Coordination is inductive.  Most actions of an executor stay inside the *)
(* execution: they move the handler from one of its points to another and  *)
(* leave the status, the purge and the alarm alone.                        *)

Inside(h) ==
    /\ Turn(h)
    /\ hs[h].pc \in ExecutionPcs \ {"pause"}
    /\ hs'[h].pc \in ExecutionPcs \ {"pause"}
    /\ \A o \in Handlers \ {h} : hs'[o] = hs[o]
    /\ wf'.status = wf.status /\ wf'.purgeAt = wf.purgeAt
    /\ UNCHANGED <<alarm, up>>

InsideAction(h) ==
    \/ BeginExecution(h)
    \/ \E i \in Ops : Step(h, i) \/ Effect(h, i) \/ Sleep(h, i)
    \/ clearPendingResumeAt(h) \/ ProgramEnds(h)

(* Begin, step, sleep and the end of the program stay inside.              *)
LEMMA InsideStep ==
    ASSUME TypeOK, NEW h \in Executors, InsideAction(h)
    PROVE  Inside(h)
<1> USE DEF TypeOK, Inside, At, storage, env, Advance, Exit, Goto, PauseUntil,
            ExecutionPcs
<1>1. h \in Handlers
  BY DEF Handlers
<1>2. CASE BeginExecution(h)
  BY <1>1, <1>2 DEF BeginExecution, WorkflowKeys
<1>3. ASSUME NEW i \in Ops, Step(h, i)
      PROVE  Inside(h)
  <2>1. CASE StepCancelled(h, i)
    BY <1>1, <2>1 DEF StepCancelled, Reaches
  <2>2. CASE StepCached(h, i)
    BY <1>1, <2>2 DEF StepCached, Reaches
  <2>3. CASE StepGivenUp(h, i)
    BY <1>1, <2>3 DEF StepGivenUp, Fresh, Reaches
  <2>4. CASE StepBegins(h, i)
    BY <1>1, <2>4 DEF StepBegins, Fresh, Reaches
  <2>5. CASE markStepCompleted(h, i)
    BY <1>1, <2>5 DEF markStepCompleted, WorkflowKeys
  <2> QED
    BY <1>3, <2>1, <2>2, <2>3, <2>4, <2>5 DEF Step
<1>4. ASSUME NEW i \in Ops, Effect(h, i)
      PROVE  Inside(h)
  <2>1. CASE EffectSucceeds(h, i)
    BY <1>1, <2>1 DEF EffectSucceeds
  <2>2. CASE EffectFails(h, i)
    BY <1>1, <2>2 DEF EffectFails
  <2>3. CASE EffectRetries(h, i)
    BY <1>1, <2>3 DEF EffectRetries
  <2> QED
    BY <1>4, <2>1, <2>2, <2>3 DEF Effect
<1>5. ASSUME NEW i \in Ops, Sleep(h, i)
      PROVE  Inside(h)
  <2> USE DEF PausePoint, Reaches, WorkflowKeys
  <2>1. CASE PauseSkipped(h, i)
    BY <1>1, <2>1 DEF PauseSkipped
  <2>2. CASE PauseOver(h, i)
    BY <1>1, <2>2 DEF PauseOver
  <2>3. CASE SleepBegins(h, i)
    BY <1>1, <2>3 DEF SleepBegins
  <2>4. CASE SleepUntilBegins(h, i)
    BY <1>1, <2>4 DEF SleepUntilBegins
  <2>5. CASE SleepUntilPast(h, i)
    BY <1>1, <2>5 DEF SleepUntilPast
  <2> QED
    BY <1>5, <2>1, <2>2, <2>3, <2>4, <2>5 DEF Sleep
<1>6. CASE clearPendingResumeAt(h)
  BY <1>1, <1>6 DEF clearPendingResumeAt, WorkflowKeys
<1>7. CASE ProgramEnds(h)
  BY <1>1, <1>7 DEF ProgramEnds
<1> QED
  BY <1>2, <1>3, <1>4, <1>5, <1>6, <1>7 DEF InsideAction

(* The registers of the handler that moves decide for all of them. *)
LEMMA RegistersStep ==
    ASSUME RegistersOK, NEW h \in Handlers,
           \A o \in Handlers \ {h} : hs'[o] = hs[o],
           /\ hs'[h].pc \in {"effect", "mark", "slept"} => hs'[h].op \in Ops
           /\ hs'[h].pc = "effect" => hs'[h].at # NoTime
           /\ hs'[h].pc \in {"pausing", "pause"} => hs'[h].resumeAt # NoTime
           /\ hs'[h].pc = "exit" => hs'[h].exit \in {"Complete", "Fail", "Cancel"}
           /\ hs'[h].pc \in {"purge", "purgeAlarm"} => purgeDelayMs # NoTime
    PROVE  RegistersOK'
BY DEF RegistersOK, Handlers

(* Inside an execution a handler sets the registers it will need.          *)
LEMMA InsideRegisters ==
    ASSUME TypeOK, RegistersOK, NEW h \in Executors, InsideAction(h)
    PROVE  RegistersOK'
<1> USE DEF TypeOK, At, Advance, Exit, Goto, PauseUntil
<1>1. h \in Handlers
  BY DEF Handlers
<1>2. \A o \in Handlers \ {h} : hs'[o] = hs[o]
  BY InsideStep DEF Inside
<1>3. CASE BeginExecution(h)
  BY <1>1, <1>2, <1>3, RegistersStep DEF BeginExecution
<1>4. hs'[h].pc = "next" => RegistersOK'
  BY <1>1, <1>2, RegistersStep
<1>5. hs'[h].pc = "exit" /\ hs'[h].exit \in {"Cancel", "Fail", "Complete"}
          => RegistersOK'
  BY <1>1, <1>2, RegistersStep
<1>6. ASSUME NEW i \in Ops, Step(h, i)
      PROVE  RegistersOK'
  <2>1. CASE StepCancelled(h, i) \/ StepGivenUp(h, i)
    <3>1. Exit(h, "Cancel") \/ Exit(h, "Fail")
      BY <2>1 DEF StepCancelled, StepGivenUp
    <3> QED
      BY <1>1, <1>5, <3>1 DEF HandlerState
  <2>2. CASE StepCached(h, i) \/ markStepCompleted(h, i)
    <3>1. Advance(h)
      BY <2>2 DEF StepCached, markStepCompleted
    <3> QED
      BY <1>1, <1>4, <3>1 DEF HandlerState
  <2>3. CASE StepBegins(h, i)
    <3>1. hs'[h].pc = "effect" /\ hs'[h].at = now /\ hs'[h].op = i
      BY <1>1, <2>3 DEF StepBegins, Fresh, Reaches, HandlerState
    <3> QED
      BY <1>1, <1>2, <3>1, RegistersStep DEF NoTime
  <2> QED
    BY <1>6, <2>1, <2>2, <2>3 DEF Step
<1>7. ASSUME NEW i \in Ops, Effect(h, i)
      PROVE  RegistersOK'
  <2>1. CASE EffectSucceeds(h, i)
    <3>1. hs'[h] = [hs[h] EXCEPT !.pc = "mark", !.at = NoTime]
      BY <1>1, <2>1 DEF EffectSucceeds
    <3>2. hs'[h].pc = "mark" /\ hs'[h].op = i
      BY <1>1, <2>1, <3>1 DEF EffectSucceeds, HandlerState
    <3> QED
      BY <1>1, <1>2, <3>2, RegistersStep
  <2>2. CASE EffectFails(h, i)
    <3>1. hs'[h] = [hs[h] EXCEPT !.pc = "exit", !.exit = "Fail", !.at = NoTime]
      BY <1>1, <2>2 DEF EffectFails
    <3>2. hs'[h].pc = "exit" /\ hs'[h].exit = "Fail"
      BY <1>1, <3>1 DEF HandlerState
    <3> QED
      BY <1>1, <1>2, <3>2, RegistersStep
  <2>3. CASE EffectRetries(h, i)
    <3>1. hs[h].at \in Nat
      BY <1>1, <2>3 DEF EffectRetries, RegistersOK, HandlerState, Time
    <3>2. hs'[h].pc = "pausing" /\ hs'[h].resumeAt = hs[h].at + Program[i].ms
      BY <1>1, <2>3 DEF EffectRetries
    <3>3. hs'[h].resumeAt # NoTime
      BY <3>1, <3>2, ConstantTypes DEF NoTime
    <3> QED
      BY <1>1, <1>2, <3>2, <3>3, RegistersStep
  <2> QED
    BY <1>7, <2>1, <2>2, <2>3 DEF Effect
<1>8. ASSUME NEW i \in Ops, Sleep(h, i)
      PROVE  RegistersOK'
  <2>1. CASE PauseSkipped(h, i) \/ SleepUntilPast(h, i)
    <3>1. Advance(h)
      BY <2>1 DEF PauseSkipped, SleepUntilPast
    <3> QED
      BY <1>1, <1>4, <3>1 DEF HandlerState
  <2>2. CASE PauseOver(h, i)
    <3>1. hs'[h].pc = "slept" /\ hs'[h].op = i
      BY <1>1, <2>2 DEF PauseOver, PausePoint, Reaches, HandlerState
    <3> QED
      BY <1>1, <1>2, <3>1, RegistersStep
  <2>3. CASE SleepBegins(h, i)
    <3>1. hs'[h].pc = "pausing" /\ hs'[h].resumeAt = now + Program[i].ms
      BY <1>1, <2>3 DEF SleepBegins
    <3>2. hs'[h].resumeAt # NoTime
      BY <3>1, ConstantTypes DEF NoTime
    <3> QED
      BY <1>1, <1>2, <3>1, <3>2, RegistersStep
  <2>4. CASE SleepUntilBegins(h, i)
    <3>1. hs'[h].pc = "pausing" /\ hs'[h].resumeAt = Program[i].ms
      BY <1>1, <2>4 DEF SleepUntilBegins
    <3>2. hs'[h].resumeAt # NoTime
      BY <3>1, ConstantTypes DEF NoTime
    <3> QED
      BY <1>1, <1>2, <3>1, <3>2, RegistersStep
  <2> QED
    BY <1>8, <2>1, <2>2, <2>3, <2>4 DEF Sleep
<1>9. CASE clearPendingResumeAt(h)
  BY <1>1, <1>4, <1>9 DEF clearPendingResumeAt
<1>10. CASE ProgramEnds(h)
  BY <1>1, <1>5, <1>10 DEF ProgramEnds
<1> QED
  BY <1>3, <1>6, <1>7, <1>8, <1>9, <1>10 DEF InsideAction

(* A handler that moves in its turn leaves the others where nobody has to  *)
(* wait for them.                                                          *)
LEMMA OneAtATimeStep ==
    ASSUME NEW h \in Handlers, Turn(h),
           \A o \in Handlers \ {h} : hs'[o] = hs[o]
    PROVE  OneAtATime'
BY DEF OneAtATime, Turn, Yielding

(* Staying inside an execution preserves Coordination.                     *)
LEMMA InsidePreserves ==
    ASSUME Coordination, NEW h \in Executors, Inside(h), RegistersOK'
    PROVE  Coordination'
<1> USE DEF Inside, Executors, Handlers
<1>1. PositionsOK'
  BY DEF Coordination, PositionsOK, Turn
<1>2. OneAtATime'
  BY OneAtATimeStep
<1>3. EngagedOK'
  BY DEF Coordination, EngagedOK, Engaged, ExecutionPcs, CleanupPcs, Terminated
<1>4. RunOK'
  BY DEF Coordination, RunOK, ExecutionPcs
<1>5. CancelOK'
  BY DEF Coordination, CancelOK, Engaged
<1>6. PurgeOK'
  BY DEF Coordination, PurgeOK, EngagedOK, ExecutionPcs, Terminated, NoWorkflow
<1>7. PausedHasAlarm'
  BY DEF Coordination, PausedHasAlarm, EngagedOK, ExecutionPcs
<1> QED
  BY <1>1, <1>2, <1>3, <1>4, <1>5, <1>6, <1>7 DEF Coordination

-----------------------------------------------------------------------------
(* Every other action: what it does to the status, the purge, the alarm    *)
(* and the position of its own handler.  Coordination follows from that.   *)

Moves(h, p) ==
    /\ Turn(h) /\ hs'[h].pc = p
    /\ \A o \in Handlers \ {h} : hs'[o] = hs[o]
    /\ UNCHANGED up

(* A position that asks nothing of the registers. *)
Plain == Pcs \ {"effect", "mark", "slept", "pausing", "pause", "exit",
                "purge", "purgeAlarm"}

(* To such a position a handler may move in its turn.                      *)
LEMMA MoveKeeps ==
    ASSUME Coordination, NEW h \in Handlers, NEW p \in Plain, Moves(h, p)
    PROVE  OneAtATime' /\ RegistersOK'
BY OneAtATimeStep, RegistersStep DEF Moves, Coordination, Plain

(* What applying a transition does.                                        *)
LEMMA TransitDoes ==
    ASSUME TypeOK, NEW h \in Handlers, NEW t \in TransitionTag, NEW p \in Pcs,
           Turn(h), Transit(h, t, p)
    PROVE  /\ Moves(h, p)
           /\ canTransition(wf.status, t)
           /\ wf'.status = applyTransitionToStatus(t)
           /\ wf'.purgeAt = wf.purgeAt
           /\ alarm' = alarm
<1>1. Moves(h, p)
  BY DEF Transit, Moves, Goto, Return, IdleHandler, TypeOK, HandlerState, env
<1> QED
  BY <1>1 DEF Transit, WithStatus, TypeOK, WorkflowKeys

(* run and runAsync preserve Coordination (orchestrator.ts start, queue).  *)
LEMMA RunHandlerCoordination ==
    ASSUME TypeOK, Coordination, Run \/ RunAsync \/ RunHandler
    PROVE  Coordination'
<1> USE DEF Handlers, Executors, TransitionTag, Pcs, At, Moves, storage, env
<1>1. ASSUME NEW p \in {"start", "queue"}, Initialize(p)
      PROVE  Coordination'
  <2>1. /\ Moves("run", p) /\ hs["run"].pc = "idle"
        /\ wf.status = NoWorkflow /\ wf'.status = "Pending"
        /\ wf'.purgeAt = wf.purgeAt /\ alarm' = alarm
    BY <1>1 DEF Initialize, Goto, Return, IdleHandler, TypeOK, WorkflowKeys
  <2>2. OneAtATime' /\ RegistersOK'
    BY <2>1, MoveKeeps DEF Plain
  <2> QED
    BY <2>1, <2>2
       DEF Coordination, PositionsOK, RunOK, EngagedOK, CancelOK, PurgeOK,
           PausedHasAlarm, AllIdle, Engaged, ExecutionPcs, CleanupPcs,
           Terminated, Turn, Yielding, NoWorkflow
<1>2. CASE Start
  <2>1. Transit("run", "Start", "begin") /\ hs["run"].pc = "start" /\ Turn("run")
    BY <1>2 DEF Start
  <2>2. /\ Moves("run", "begin") /\ canTransition(wf.status, "Start")
        /\ wf'.status = "Running" /\ wf'.purgeAt = wf.purgeAt /\ alarm' = alarm
    BY <2>1, TransitDoes DEF applyTransitionToStatus
  <2>3. wf.status = "Pending"
    BY <2>1 DEF Coordination, RunOK
  <2>4. OneAtATime' /\ RegistersOK'
    BY <2>2, MoveKeeps DEF Plain
  <2> QED
    BY <2>1, <2>2, <2>3, <2>4
       DEF Coordination, PositionsOK, RunOK, EngagedOK, CancelOK, PurgeOK,
           PausedHasAlarm, AllIdle, Engaged, ExecutionPcs, CleanupPcs,
           Terminated, Turn, Yielding, NoWorkflow
<1>3. CASE Queue
  <2>1. Transit("run", "Queue", "queued") /\ hs["run"].pc = "queue" /\ Turn("run")
    BY <1>3 DEF Queue
  <2>2. /\ Moves("run", "queued") /\ canTransition(wf.status, "Queue")
        /\ wf'.status = "Queued" /\ wf'.purgeAt = wf.purgeAt /\ alarm' = alarm
    BY <2>1, TransitDoes DEF applyTransitionToStatus
  <2>3. wf.status = "Pending"
    BY <2>1 DEF Coordination, RunOK
  <2>4. OneAtATime' /\ RegistersOK'
    BY <2>2, MoveKeeps DEF Plain
  <2> QED
    BY <2>1, <2>2, <2>3, <2>4
       DEF Coordination, PositionsOK, RunOK, EngagedOK, CancelOK, PurgeOK,
           PausedHasAlarm, AllIdle, Engaged, ExecutionPcs, CleanupPcs,
           Terminated, Turn, Yielding, NoWorkflow
<1>4. CASE ScheduleQueued
  <2>1. /\ Moves("run", "idle") /\ hs["run"].pc = "queued"
        /\ wf'.status = wf.status /\ wf'.purgeAt = wf.purgeAt
        /\ alarm' # NoTime
    BY <1>4 DEF ScheduleQueued, NoTime, Goto, Return, IdleHandler, TypeOK, WorkflowKeys
  <2>2. OneAtATime' /\ RegistersOK'
    BY <2>1, MoveKeeps DEF Plain
  <2> QED
    BY <2>1, <2>2
       DEF Coordination, PositionsOK, RunOK, EngagedOK, CancelOK, PurgeOK,
           PausedHasAlarm, AllIdle, Engaged, ExecutionPcs, CleanupPcs,
           Terminated, Turn, Yielding, NoWorkflow
<1> QED
  BY <1>1, <1>2, <1>3, <1>4 DEF Run, RunAsync, RunHandler

(* alarm preserves it (engine.ts alarm, orchestrator.ts handleAlarm).      *)
LEMMA AlarmHandlerCoordination ==
    ASSUME TypeOK, Coordination, AlarmHandler
    PROVE  Coordination'
<1> USE DEF Handlers, Executors, TransitionTag, Pcs, At, Moves, storage, env
<1>1. CASE executePurge
  <2>1. /\ Moves("alarm", "idle") /\ hs["alarm"].pc = "alarm"
        /\ wf.purgeAt # NoTime /\ alarm' = alarm
        /\ wf' = EmptyStorage /\ steps' = EmptySteps
    BY <1>1 DEF executePurge, PurgeDue, Return, IdleHandler, TypeOK
  <2>2. wf'.status = NoWorkflow /\ wf'.purgeAt = NoTime
    BY <2>1 DEF EmptyStorage
  <2>3. AllIdle'
    BY <2>1 DEF Coordination, PositionsOK, RunOK, EngagedOK, CancelOK, PurgeOK,
                AllIdle, ExecutionPcs, CleanupPcs, Terminated, Turn, Yielding
  <2>4. alarm' = NoTime
    BY <2>1 DEF Coordination, PurgeOK
  <2>5. OneAtATime' /\ RegistersOK'
    BY <2>1, MoveKeeps DEF Plain
  <2> QED
    BY <2>1, <2>2, <2>3, <2>4, <2>5
       DEF Coordination, PositionsOK, RunOK, EngagedOK, CancelOK, PurgeOK,
           PausedHasAlarm, AllIdle, Engaged, ExecutionPcs, CleanupPcs,
           Terminated, NoWorkflow
<1>2. CASE StartQueued
  <2>1. Transit("alarm", "Start", "begin") /\ hs["alarm"].pc = "alarm" /\ Turn("alarm")
    BY <1>2 DEF StartQueued, handleAlarm
  <2>2. /\ Moves("alarm", "begin") /\ canTransition(wf.status, "Start")
        /\ wf'.status = "Running" /\ wf'.purgeAt = wf.purgeAt /\ alarm' = alarm
    BY <2>1, TransitDoes DEF applyTransitionToStatus
  <2>3. wf.status = "Queued"
    BY <1>2 DEF StartQueued, handleAlarm
  <2>4. OneAtATime' /\ RegistersOK'
    BY <2>2, MoveKeeps DEF Plain
  <2> QED
    BY <2>1, <2>2, <2>3, <2>4
       DEF Coordination, PositionsOK, RunOK, EngagedOK, CancelOK, PurgeOK,
           PausedHasAlarm, AllIdle, Engaged, ExecutionPcs, CleanupPcs,
           Terminated, Turn, Yielding, NoWorkflow
<1>3. CASE Resume
  <2>1. Transit("alarm", "Resume", "begin") /\ hs["alarm"].pc = "alarm" /\ Turn("alarm")
    BY <1>3 DEF Resume, handleAlarm
  <2>2. /\ Moves("alarm", "begin") /\ canTransition(wf.status, "Resume")
        /\ wf'.status = "Running" /\ wf'.purgeAt = wf.purgeAt /\ alarm' = alarm
    BY <2>1, TransitDoes DEF applyTransitionToStatus
  <2>3. wf.status = "Paused"
    BY <1>3 DEF Resume, handleAlarm
  <2>4. OneAtATime' /\ RegistersOK'
    BY <2>2, MoveKeeps DEF Plain
  <2> QED
    BY <2>1, <2>2, <2>3, <2>4
       DEF Coordination, PositionsOK, RunOK, EngagedOK, CancelOK, PurgeOK,
           PausedHasAlarm, AllIdle, Engaged, ExecutionPcs, CleanupPcs,
           Terminated, Turn, Yielding, NoWorkflow
<1>4. CASE AlarmIgnored
  <2>1. /\ Moves("alarm", "idle") /\ hs["alarm"].pc = "alarm"
        /\ wf.status # "Paused" /\ wf'.status = wf.status
        /\ wf'.purgeAt = wf.purgeAt /\ alarm' = alarm
    BY <1>4 DEF AlarmIgnored, handleAlarm, TerminalStatus, isTerminalStatus,
           VALID_TRANSITIONS, StatusTag, NoWorkflow, Goto, Return,
           IdleHandler, TypeOK, WorkflowKeys
  <2>2. OneAtATime' /\ RegistersOK'
    BY <2>1, MoveKeeps DEF Plain
  <2> QED
    BY <2>1, <2>2
       DEF Coordination, PositionsOK, RunOK, EngagedOK, CancelOK, PurgeOK,
           PausedHasAlarm, AllIdle, Engaged, ExecutionPcs, CleanupPcs,
           Terminated, Turn, Yielding, NoWorkflow
<1>5. CASE incrementRecoveryAttempts
  <2>1. /\ Moves("alarm", "recover") /\ hs["alarm"].pc = "alarm"
        /\ wf.status = "Running" /\ wf'.status = wf.status
        /\ wf'.purgeAt = wf.purgeAt /\ alarm' = alarm
    BY <1>5 DEF incrementRecoveryAttempts, handleAlarm, Goto, Return,
           IdleHandler, TypeOK, WorkflowKeys
  <2>2. OneAtATime' /\ RegistersOK'
    BY <2>1, MoveKeeps DEF Plain
  <2> QED
    BY <2>1, <2>2
       DEF Coordination, PositionsOK, RunOK, EngagedOK, CancelOK, PurgeOK,
           PausedHasAlarm, AllIdle, Engaged, ExecutionPcs, CleanupPcs,
           Terminated, Turn, Yielding, NoWorkflow
<1>6. CASE Recover
  <2>1. /\ Moves("alarm", "recovered") /\ hs["alarm"].pc = "recover"
        /\ wf.status = "Running" /\ wf'.status = "Running"
        /\ wf'.purgeAt = wf.purgeAt /\ alarm' = alarm
    BY <1>6 DEF Recover, Coordination, EngagedOK, WithStatus,
           applyTransitionToStatus, Goto, Return, IdleHandler, TypeOK,
           WorkflowKeys
  <2>2. OneAtATime' /\ RegistersOK'
    BY <2>1, MoveKeeps DEF Plain
  <2> QED
    BY <2>1, <2>2
       DEF Coordination, PositionsOK, RunOK, EngagedOK, CancelOK, PurgeOK,
           PausedHasAlarm, AllIdle, Engaged, ExecutionPcs, CleanupPcs,
           Terminated, Turn, Yielding, NoWorkflow
<1>7. CASE resetRecoveryAttempts
  <2>1. /\ Moves("alarm", "begin") /\ hs["alarm"].pc = "recovered"
        /\ wf.status = "Running" /\ wf'.status = wf.status
        /\ wf'.purgeAt = wf.purgeAt /\ alarm' = alarm
    BY <1>7 DEF resetRecoveryAttempts, Coordination, EngagedOK, Goto, Return,
           IdleHandler, TypeOK, WorkflowKeys
  <2>2. OneAtATime' /\ RegistersOK'
    BY <2>1, MoveKeeps DEF Plain
  <2> QED
    BY <2>1, <2>2
       DEF Coordination, PositionsOK, RunOK, EngagedOK, CancelOK, PurgeOK,
           PausedHasAlarm, AllIdle, Engaged, ExecutionPcs, CleanupPcs,
           Terminated, Turn, Yielding, NoWorkflow
<1>8. CASE RecoveryExhausted
  <2>1. /\ Moves("alarm", "idle") /\ hs["alarm"].pc = "alarm"
        /\ wf.status = "Running" /\ wf'.status = "Failed"
        /\ wf'.purgeAt = wf.purgeAt
    BY <1>8 DEF RecoveryExhausted, handleAlarm, WithStatus,
           applyTransitionToStatus, Goto, Return, IdleHandler, TypeOK,
           WorkflowKeys
  <2>2. OneAtATime' /\ RegistersOK'
    BY <2>1, MoveKeeps DEF Plain
  <2> QED
    BY <2>1, <2>2
       DEF Coordination, PositionsOK, RunOK, EngagedOK, CancelOK, PurgeOK,
           PausedHasAlarm, AllIdle, Engaged, ExecutionPcs, CleanupPcs,
           Terminated, Turn, Yielding, NoWorkflow
<1> QED
  BY <1>1, <1>2, <1>3, <1>4, <1>5, <1>6, <1>7, <1>8 DEF AlarmHandler

(* cancel preserves it (orchestrator.ts cancel).                           *)
LEMMA CancelHandlerCoordination ==
    ASSUME TypeOK, Coordination, setCancelled \/ CancelHandler
    PROVE  Coordination'
<1> USE DEF Handlers, Executors, TransitionTag, Pcs, At, Moves, storage, env
<1>1. CASE setCancelled
  <2>1. /\ Turn("cancel") /\ wf.status # NoWorkflow
        /\ wf'.status = wf.status /\ wf'.purgeAt = wf.purgeAt
        /\ alarm' = alarm /\ hs["cancel"].pc = "idle" /\ UNCHANGED up
    BY <1>1 DEF setCancelled, StatusTag, NoWorkflow, TypeOK, WorkflowKeys
  <2>2. \/ Moves("cancel", "cancelling") /\ wf.status \in {"Queued", "Paused"}
        \/ Moves("cancel", "idle")
    <3>1. CASE wf.status \in {"Queued", "Paused"}
      <4>1. Goto("cancel", "cancelling")
        BY <1>1, <3>1 DEF setCancelled
      <4> QED
        BY <2>1, <3>1, <4>1 DEF Goto, TypeOK
    <3>2. CASE wf.status \notin {"Queued", "Paused"}
      BY <1>1, <2>1, <3>2 DEF setCancelled
    <3> QED
      BY <3>1, <3>2
  <2>3. OneAtATime' /\ RegistersOK'
    BY <2>2, MoveKeeps DEF Plain
  <2> QED
    BY <2>1, <2>2, <2>3
       DEF Coordination, PositionsOK, RunOK, EngagedOK, CancelOK, PurgeOK,
           PausedHasAlarm, AllIdle, Engaged, ExecutionPcs, CleanupPcs,
           Terminated, Turn, Yielding, NoWorkflow
<1>2. CASE CancelNow
  <2>1. Transit("cancel", "Cancel", "cancelled") /\ hs["cancel"].pc = "cancelling" /\ Turn("cancel")
    BY <1>2 DEF CancelNow
  <2>2. /\ Moves("cancel", "cancelled") /\ canTransition(wf.status, "Cancel")
        /\ wf'.status = "Cancelled" /\ wf'.purgeAt = wf.purgeAt /\ alarm' = alarm
    BY <2>1, TransitDoes DEF applyTransitionToStatus
  <2>3. wf.status \in {"Queued", "Paused"}
    BY <2>1 DEF Coordination, CancelOK
  <2>4. OneAtATime' /\ RegistersOK'
    BY <2>2, MoveKeeps DEF Plain
  <2> QED
    BY <2>1, <2>2, <2>3, <2>4
       DEF Coordination, PositionsOK, RunOK, EngagedOK, CancelOK, PurgeOK,
           PausedHasAlarm, AllIdle, Engaged, ExecutionPcs, CleanupPcs,
           Terminated, Turn, Yielding, NoWorkflow
<1>3. CASE CancelScheduled
  <2>1. /\ Moves("cancel", "idle") /\ hs["cancel"].pc = "cancelled"
        /\ wf'.status = wf.status /\ wf'.purgeAt = wf.purgeAt
        /\ alarm' = NoTime
    BY <1>3 DEF CancelScheduled, Goto, Return, IdleHandler, TypeOK, WorkflowKeys
  <2>2. OneAtATime' /\ RegistersOK'
    BY <2>1, MoveKeeps DEF Plain
  <2> QED
    BY <2>1, <2>2
       DEF Coordination, PositionsOK, RunOK, EngagedOK, CancelOK, PurgeOK,
           PausedHasAlarm, AllIdle, Engaged, ExecutionPcs, CleanupPcs,
           Terminated, Turn, Yielding, NoWorkflow
<1> QED
  BY <1>1, <1>2, <1>3 DEF CancelHandler

(* The end of an execution preserves it (executor.ts handleExit).          *)
LEMMA EndCoordination ==
    ASSUME TypeOK, Coordination, NEW h \in Executors,
           \/ PauseAlarm(h) \/ Pause(h) \/ Finish(h)
           \/ CancelAlarm(h) \/ schedulePurge(h) \/ PurgeAlarm(h)
    PROVE  Coordination'
<1> USE DEF Handlers, Executors, TransitionTag, Pcs, At, Moves, storage, env
<1>1. h \in Handlers
  OBVIOUS
<1>2. CASE PauseAlarm(h)
  <2>1. /\ Moves(h, "pause") /\ hs[h].pc = "pausing"
        /\ hs'[h].resumeAt = hs[h].resumeAt
        /\ UNCHANGED wf /\ alarm' = hs[h].resumeAt
    BY <1>2 DEF PauseAlarm, Goto, TypeOK, HandlerState
  <2>2. alarm' # NoTime
    BY <2>1 DEF Coordination, RegistersOK
  <2>3. RegistersOK'
    BY <1>1, <2>1, <2>2, RegistersStep DEF Coordination
  <2>4. OneAtATime'
    BY <1>1, <2>1, OneAtATimeStep
  <2> QED
    BY <2>1, <2>2, <2>3, <2>4
       DEF Coordination, PositionsOK, RunOK, EngagedOK, CancelOK, PurgeOK,
           PausedHasAlarm, AllIdle, Engaged, ExecutionPcs, CleanupPcs,
           Terminated, Turn, Yielding, NoWorkflow
<1>3. CASE Pause(h)
  <2>1. Transit(h, "Pause", "idle") /\ hs[h].pc = "pause" /\ Turn(h)
    BY <1>3 DEF Pause
  <2>2. /\ Moves(h, "idle") /\ wf'.status = "Paused"
        /\ wf'.purgeAt = wf.purgeAt /\ alarm' = alarm
    BY <1>1, <2>1, TransitDoes DEF applyTransitionToStatus
  <2>3. wf.status = "Running" /\ alarm # NoTime
    BY <2>1 DEF Coordination, EngagedOK, ExecutionPcs
  <2>4. OneAtATime' /\ RegistersOK'
    BY <1>1, <2>2, MoveKeeps DEF Plain
  <2> QED
    BY <2>1, <2>2, <2>3, <2>4
       DEF Coordination, PositionsOK, RunOK, EngagedOK, CancelOK, PurgeOK,
           PausedHasAlarm, AllIdle, Engaged, ExecutionPcs, CleanupPcs,
           Terminated, Turn, Yielding, NoWorkflow
<1>4. CASE Finish(h)
  <2>1. /\ Transit(h, hs[h].exit, "cleanup") /\ hs[h].pc = "exit" /\ Turn(h)
        /\ hs[h].exit \in {"Complete", "Fail", "Cancel"}
    BY <1>4 DEF Finish, Coordination, RegistersOK
  <2>2. /\ Moves(h, "cleanup") /\ wf'.purgeAt = wf.purgeAt /\ alarm' = alarm
        /\ wf'.status = applyTransitionToStatus(hs[h].exit)
    BY <1>1, <2>1, TransitDoes
  <2>3. wf'.status \in {"Completed", "Failed", "Cancelled"}
    BY <2>1, <2>2 DEF applyTransitionToStatus
  <2>4. wf.status = "Running"
    BY <2>1 DEF Coordination, EngagedOK, ExecutionPcs
  <2>5. OneAtATime' /\ RegistersOK'
    BY <1>1, <2>2, MoveKeeps DEF Plain
  <2> QED
    BY <2>1, <2>2, <2>3, <2>4, <2>5
       DEF Coordination, PositionsOK, RunOK, EngagedOK, CancelOK, PurgeOK,
           PausedHasAlarm, AllIdle, Engaged, ExecutionPcs, CleanupPcs,
           Terminated, Turn, Yielding, NoWorkflow
<1>5. CASE CancelAlarm(h)
  <2>1. /\ hs[h].pc = "cleanup" /\ UNCHANGED wf /\ alarm' = NoTime
        /\ \/ Moves(h, "idle")
           \/ Moves(h, "purge") /\ purgeDelayMs # NoTime
    <3>1. CASE purgeDelayMs = NoTime
      BY <1>5, <3>1 DEF CancelAlarm, Return, IdleHandler, TypeOK
    <3>2. CASE purgeDelayMs # NoTime
      <4>1. Goto(h, "purge") /\ Turn(h) /\ hs[h].pc = "cleanup" /\ alarm' = NoTime
            /\ UNCHANGED <<wf, up>>
        BY <1>5, <3>2 DEF CancelAlarm
      <4> QED
        BY <1>1, <3>2, <4>1 DEF Goto, TypeOK
    <3> QED
      BY <3>1, <3>2
  <2>2. RegistersOK'
    BY <1>1, <2>1, RegistersStep DEF Coordination
  <2>3. OneAtATime'
    BY <1>1, <2>1, OneAtATimeStep
  <2> QED
    BY <2>1, <2>2, <2>3
       DEF Coordination, PositionsOK, RunOK, EngagedOK, CancelOK, PurgeOK,
           PausedHasAlarm, AllIdle, Engaged, ExecutionPcs, CleanupPcs,
           Terminated, Turn, Yielding, NoWorkflow
<1>6. CASE schedulePurge(h)
  <2>1. /\ Moves(h, "purgeAlarm") /\ hs[h].pc = "purge" /\ alarm' = alarm
        /\ wf'.status = wf.status /\ wf'.purgeAt = now + purgeDelayMs
    BY <1>6 DEF schedulePurge, Goto, TypeOK, WorkflowKeys
  <2>2. purgeDelayMs \in Nat
    BY <2>1, ConfigAssumption
       DEF Coordination, RegistersOK, ConfigAssumption, Time
  <2>3. wf'.purgeAt # NoTime
    BY <2>1, <2>2 DEF TypeOK, NoTime
  <2>4. RegistersOK'
    BY <1>1, <2>1, RegistersStep DEF Coordination, RegistersOK
  <2>5. OneAtATime'
    BY <1>1, <2>1, OneAtATimeStep
  <2> QED
    BY <2>1, <2>3, <2>4, <2>5
       DEF Coordination, PositionsOK, RunOK, EngagedOK, CancelOK, PurgeOK,
           PausedHasAlarm, AllIdle, Engaged, ExecutionPcs, CleanupPcs,
           Terminated, Turn, Yielding, NoWorkflow
<1>7. CASE PurgeAlarm(h)
  <2>1. /\ Moves(h, "idle") /\ hs[h].pc = "purgeAlarm"
        /\ UNCHANGED wf /\ alarm' = wf.purgeAt
    BY <1>7 DEF PurgeAlarm, Return, IdleHandler, TypeOK
  <2>2. OneAtATime' /\ RegistersOK'
    BY <1>1, <2>1, MoveKeeps DEF Plain
  <2> QED
    BY <2>1, <2>2
       DEF Coordination, PositionsOK, RunOK, EngagedOK, CancelOK, PurgeOK,
           PausedHasAlarm, AllIdle, Engaged, ExecutionPcs, CleanupPcs,
           Terminated, Turn, Yielding, NoWorkflow
<1> QED
  BY <1>2, <1>3, <1>4, <1>5, <1>6, <1>7

(* Every action of an executor preserves it.                               *)
LEMMA ExecutionCoordination ==
    ASSUME TypeOK, Coordination, NEW h \in Executors, Execution(h)
    PROVE  Coordination'
<1>1. CASE InsideAction(h)
  BY <1>1, InsideStep, InsideRegisters, InsidePreserves DEF Coordination
<1>2. CASE ~InsideAction(h)
  BY <1>2, EndCoordination DEF Execution, InsideAction
<1> QED
  BY <1>1, <1>2

(* Constructor, alarm delivery, crash, eviction and clock preserve it.     *)
LEMMA PlatformCoordination ==
    ASSUME TypeOK, Coordination, Platform \/ Crash \/ Evict \/ Tick
    PROVE  Coordination'
<1> USE DEF Handlers, Executors, TransitionTag, Pcs, At, storage, env
<1>1. now + recoveryDelayMs # NoTime
  BY ConfigAssumption DEF ConfigAssumption, TypeOK, NoTime
<1>2. ~up => AllIdle
  BY DEF Coordination, PositionsOK
<1>3. CASE Construct
  <2>1. /\ UNCHANGED <<wf, steps, hs>> /\ AllIdle
        /\ alarm' = alarm \/ (RecoveryScheduled /\ alarm' # NoTime)
    BY <1>1, <1>2, <1>3 DEF Construct
  <2>2. RecoveryScheduled => wf.status \in {"Running", "Paused"}
    BY DEF RecoveryScheduled, checkRecoverability
  <2> QED
    BY <1>3, <2>1, <2>2
       DEF Construct, Coordination, PositionsOK, OneAtATime, RegistersOK, RunOK,
           EngagedOK, CancelOK, PurgeOK, PausedHasAlarm, AllIdle, Engaged,
           ExecutionPcs, CleanupPcs, Terminated, NoWorkflow
<1>4. ASSUME hs["alarm"].pc = "idle", hs'["alarm"].pc = "alarm",
             \A o \in Handlers \ {"alarm"} : hs'[o] = hs[o] /\ hs[o].pc \in Yielding,
             UNCHANGED wf, up', alarm # NoTime,
             alarm' = NoTime \/ wf.status \in {"Running", "Paused"},
             alarm' # NoTime => AllIdle
      PROVE  Coordination'
  <2>1. OneAtATime'
    BY <1>4 DEF OneAtATime
  <2>2. RegistersOK'
    BY <1>4, RegistersStep DEF Coordination
  <2> QED
    BY <1>4, <2>1, <2>2
       DEF Coordination, PositionsOK, RunOK, EngagedOK, CancelOK, PurgeOK,
           PausedHasAlarm, AllIdle, Engaged, ExecutionPcs, CleanupPcs,
           Terminated, Yielding, NoWorkflow
<1>5. CASE DeliverAlarm
  <2>1. hs'["alarm"].pc = "alarm" /\ \A o \in Handlers \ {"alarm"} : hs'[o] = hs[o]
    BY <1>5 DEF DeliverAlarm, Goto, TypeOK
  <2> QED
    BY <1>4, <1>5, <2>1 DEF DeliverAlarm, AlarmDue, Turn
<1>6. CASE WakeByAlarm
  <2>1. RecoveryScheduled => wf.status \in {"Running", "Paused"}
    BY DEF RecoveryScheduled, checkRecoverability
  <2>2. CASE RecoveryScheduled /\ alarm' = now + recoveryDelayMs /\ UNCHANGED hs
    <3>1. AllIdle /\ alarm' # NoTime /\ wf.status \in {"Running", "Paused"}
      BY <1>1, <1>2, <1>6, <2>1, <2>2 DEF WakeByAlarm
    <3>2. UNCHANGED <<wf, steps>> /\ up'
      BY <1>6 DEF WakeByAlarm
    <3> QED
      BY <2>2, <3>1, <3>2
         DEF Coordination, PositionsOK, OneAtATime, RegistersOK, RunOK,
             EngagedOK, CancelOK, PurgeOK, PausedHasAlarm, AllIdle, Engaged,
             ExecutionPcs, CleanupPcs, Terminated, NoWorkflow
  <2>3. CASE Goto("alarm", "alarm")
    <3>1. hs'["alarm"].pc = "alarm" /\ \A o \in Handlers \ {"alarm"} : hs'[o] = hs[o]
      BY <2>3 DEF Goto, TypeOK
    <3>2. \A o \in Handlers : hs[o].pc = "idle"
      BY <1>2, <1>6 DEF WakeByAlarm, AllIdle
    <3>3. alarm' = NoTime \/ wf.status \in {"Running", "Paused"}
      BY <1>6, <2>1 DEF WakeByAlarm
    <3> QED
      BY <1>4, <1>6, <3>1, <3>2, <3>3 DEF WakeByAlarm, AlarmDue, Yielding, AllIdle
  <2> QED
    BY <1>6, <2>2, <2>3 DEF WakeByAlarm
<1>7. CASE Crash
  <2>1. /\ \A o \in Handlers : hs'[o] = IdleHandler
        /\ alarm' = alarm \/ (hs["alarm"].pc # "idle" /\ alarm' # NoTime)
        /\ alarm' = NoTime => hs["alarm"].pc = "idle"
        /\ UNCHANGED <<wf, steps>>
    BY <1>7 DEF Crash, NoTime, TypeOK
  <2>2. AllIdle' /\ OneAtATime' /\ RegistersOK' /\ PositionsOK'
    BY <2>1 DEF AllIdle, OneAtATime, RegistersOK, PositionsOK, IdleHandler, Yielding
  <2>3. wf.status = NoWorkflow => alarm' = NoTime
    BY <2>1 DEF Coordination, PurgeOK, AllIdle
  <2> QED
    BY <2>1, <2>2, <2>3
       DEF Coordination, RunOK, EngagedOK, CancelOK, PurgeOK, PausedHasAlarm,
           AllIdle, Engaged, ExecutionPcs, CleanupPcs, Terminated, NoWorkflow
<1>8. CASE Evict \/ Tick
  <2>1. UNCHANGED <<wf, steps, alarm, hs>> /\ (UNCHANGED up \/ AllIdle)
    BY <1>8 DEF Evict, Tick
  <2> QED
    BY <2>1
       DEF Coordination, PositionsOK, OneAtATime, RegistersOK, RunOK,
           EngagedOK, CancelOK, PurgeOK, PausedHasAlarm, AllIdle, Engaged,
           Terminated
<1> QED
  BY <1>3, <1>5, <1>6, <1>7, <1>8 DEF Platform

-----------------------------------------------------------------------------
(* The inductive invariant. *)
IInv == TypeOK /\ Coordination

(* The inductive invariant holds initially ...                             *)
LEMMA InitIInv == Init => IInv
<1> SUFFICES ASSUME Init PROVE IInv
  OBVIOUS
<1>1. IdleHandler \in HandlerState /\ IdleHandler.pc = "idle"
  BY ConstantTypes DEF HandlerState, IdleHandler, Pcs
<1>2. AllIdle
  BY DEF Init, AllIdle, IdleHandler
<1>3. EmptyStorage \in WorkflowKeys
  BY ConstantTypes DEF EmptyStorage, WorkflowKeys, StoredStatus
<1>4. EmptySteps \in [Ops -> StepKeys] /\ NoHistory \in History
  BY ConstantTypes DEF EmptySteps, StepKeys, NoHistory, History
<1>5. TypeOK
  BY <1>1, <1>3, <1>4, ConstantTypes DEF Init, TypeOK
<1>6. wf.status = NoWorkflow /\ wf.purgeAt = NoTime /\ alarm = NoTime
  BY DEF Init, EmptyStorage
<1>7. Coordination
  BY <1>2, <1>6
     DEF Init, Coordination, PositionsOK, OneAtATime, RegistersOK, RunOK,
         EngagedOK, CancelOK, PurgeOK, PausedHasAlarm, AllIdle, Engaged,
         Yielding, ExecutionPcs, CleanupPcs, Handlers, Executors, NoWorkflow
<1> QED
  BY <1>5, <1>7 DEF IInv

(* ... and every step of the system preserves it.                          *)
LEMMA NextIInv == IInv /\ [Next]_vars => IInv'
<1> SUFFICES ASSUME IInv, [Next]_vars PROVE IInv'
  OBVIOUS
<1> USE DEF IInv
<1>1. RegistersOK
  BY DEF Coordination
<1>2. CASE Client \/ RunHandler \/ AlarmHandler \/ CancelHandler
  <2>1. TypeOK'
    BY <1>2, HandlerType
  <2>2. Coordination'
    BY <1>2, RunHandlerCoordination, AlarmHandlerCoordination,
       CancelHandlerCoordination DEF Client
  <2> QED
    BY <2>1, <2>2
<1>3. CASE \E h \in Executors : Execution(h)
  BY <1>1, <1>3, ExecutionType, ExecutionCoordination
<1>4. CASE Platform \/ Crash \/ Evict \/ Tick
  BY <1>4, PlatformType, PlatformCoordination
<1>5. CASE UNCHANGED vars
  BY <1>5
     DEF vars, TypeOK, Coordination, PositionsOK, OneAtATime, RegistersOK, RunOK,
         EngagedOK, CancelOK, PurgeOK, PausedHasAlarm, AllIdle, Engaged,
         Terminated
<1> QED
  BY <1>2, <1>3, <1>4, <1>5 DEF Next

(* In every reachable state, whatever the program, the configuration and   *)
(* the bounds: storage, alarm and handlers have the values the code gives  *)
(* them.                                                                   *)
THEOREM TypeCorrect == Spec => []TypeOK
<1>1. IInv => TypeOK
  BY DEF IInv
<1> QED
  BY <1>1, InitIInv, NextIInv, PTL DEF Spec

(* The handlers keep out of each other's way (orchestrator.ts, engine.ts). *)
THEOREM HandlersCoordinate == Spec => []Coordination
<1>1. IInv => Coordination
  BY DEF IInv
<1> QED
  BY <1>1, InitIInv, NextIInv, PTL DEF Spec

(* At most one handler executes the program, and the workflow is Running   *)
(* while it does.                                                          *)
THEOREM Exclusive == Spec => []ExecutionIsExclusive
<1>1. IInv => ExecutionIsExclusive
  BY DEF IInv, Coordination, EngagedOK, Engaged, ExecutionIsExclusive,
         Executing, Executors
<1> QED
  BY <1>1, InitIInv, NextIInv, PTL DEF Spec

(* No InvalidTransitionError: a transition is legal when it is applied,    *)
(* however many awaits after the status was read.                          *)
THEOREM Legal == Spec => []TransitionsAreLegal
<1>1. IInv => TransitionsAreLegal
  <2> SUFFICES ASSUME IInv, NEW h \in Handlers, NEW t \in Decided(h)
               PROVE  canTransition(wf.status, t)
    BY DEF TransitionsAreLegal
  <2> USE DEF IInv, Coordination, canTransition, isValidTransition,
              VALID_TRANSITIONS, StatusTag, NoWorkflow
  <2>1. CASE h = "run"
    BY <2>1 DEF Decided, PositionsOK, RunOK, EngagedOK, RegistersOK, Executors,
                ExecutionPcs, CleanupPcs
  <2>2. CASE h = "alarm"
    BY <2>2 DEF Decided, PositionsOK, EngagedOK, RegistersOK, Executors,
                ExecutionPcs, CleanupPcs
  <2>3. CASE h = "cancel"
    BY <2>3 DEF Decided, PositionsOK, CancelOK
  <2> QED
    BY <2>1, <2>2, <2>3 DEF Handlers, Executors
<1> QED
  BY <1>1, InitIInv, NextIInv, PTL DEF Spec

(* A paused workflow is never left without an alarm or a handler that has  *)
(* just been woken by it.                                                  *)
THEOREM PausedIsWoken == Spec => []PausedHasAlarm
<1>1. IInv => PausedHasAlarm
  BY DEF IInv, Coordination
<1> QED
  BY <1>1, InitIInv, NextIInv, PTL DEF Spec

(* Nothing of a purged workflow is left for the next run of its instance.  *)
THEOREM PurgedIsClean == Spec => []PurgedInstanceIsClean
<1>1. IInv => PurgedInstanceIsClean
  BY DEF IInv, Coordination, PurgeOK, PurgedInstanceIsClean, AllIdle, Executing,
         ExecutionPcs, Handlers
<1> QED
  BY <1>1, InitIInv, NextIInv, PTL DEF Spec

=============================================================================
