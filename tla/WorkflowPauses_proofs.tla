----------------------- MODULE WorkflowPauses_proofs -----------------------
(***************************************************************************)
(* What a replay does to the pauses of a workflow: a sleep lasts and is    *)
(* begun once, a retry waits for its delay, whatever moves the alarm - as  *)
(* long as nothing crashes, and for every program and configuration.       *)
(*                                                                         *)
(* PausesOK says where a replay stands among the pause points, PendingOK   *)
(* to which of them the stored wake-up time belongs, RetriesOK and         *)
(* SleepsOK that what is waited for is waited for until it is due.         *)
(***************************************************************************)
EXTENDS WorkflowReplay_proofs, FiniteSetTheorems

(* Counting pause points.                                                  *)
LEMMA PausesAreOps ==
    /\ Pauses \subseteq Ops /\ Sleeps \subseteq Pauses
    /\ Steps \intersect Pauses = {}
    /\ \A i \in Ops : i \in Steps \/ i \in Pauses
    /\ \A i \in Ops : i \in Nat /\ 1 <= i /\ i <= Len(Program)
    /\ Len(Program) \in Nat
BY StepsAreOps DEF Pauses, Sleeps, Steps

(* The operations there are.                                               *)
LEMMA OperationKinds ==
    \A i \in Ops : Program[i].kind \in {"step", "sleep", "sleepUntil"}
<1>1. Program \in [Ops -> Operation]
  BY ProgramAssumption DEF ProgramAssumption, Ops
<1> QED
  BY <1>1 DEF Operation

(* The pause points before an operation are finitely many.                 *)
LEMMA PausesFinite ==
    ASSUME NEW n
    PROVE  /\ IsFiniteSet({i \in Pauses : i < n})
           /\ PausesBefore(n) \in Nat
<1>1. IsFiniteSet(Ops)
  BY StepsAreOps, FS_Interval DEF Ops
<1>2. {i \in Pauses : i < n} \subseteq Ops
  BY PausesAreOps
<1>3. IsFiniteSet({i \in Pauses : i < n})
  BY <1>1, <1>2, FS_Subset
<1> QED
  BY <1>3, FS_CardinalityType DEF PausesBefore

(* None come before the first operation.                                   *)
LEMMA NoPausesYet == PausesBefore(1) = 0
<1>1. {i \in Pauses : i < 1} = {}
  BY PausesAreOps
<1> QED
  BY <1>1, FS_EmptySet DEF PausesBefore

(* A pause point is one more, a step is not.                               *)
LEMMA NextPause ==
    ASSUME NEW i \in Ops
    PROVE  /\ i \in Pauses => PausesBefore(i + 1) = PausesBefore(i) + 1
           /\ i \in Steps => PausesBefore(i + 1) = PausesBefore(i)
<1>1. i \in Pauses => {j \in Pauses : j < i + 1} = {j \in Pauses : j < i} \union {i}
  BY PausesAreOps
<1>2. i \notin {j \in Pauses : j < i}
  BY PausesAreOps
<1>3. i \in Steps => {j \in Pauses : j < i + 1} = {j \in Pauses : j < i}
  BY PausesAreOps
<1>4. Cardinality({j \in Pauses : j < i} \union {i})
        = Cardinality({j \in Pauses : j < i}) + 1
  BY <1>2, PausesFinite, FS_AddElement
<1> QED
  BY <1>1, <1>3, <1>4 DEF PausesBefore

(* The later the operation, the more pause points are before it.           *)
LEMMA MorePauses ==
    ASSUME NEW i \in Int, NEW j \in Int, i <= j
    PROVE  PausesBefore(i) <= PausesBefore(j)
<1>1. {k \in Pauses : k < i} \subseteq {k \in Pauses : k < j}
  BY PausesAreOps
<1> QED
  BY <1>1, PausesFinite, FS_Subset DEF PausesBefore

(* A pause point itself counts.                                            *)
LEMMA PausesPassed ==
    ASSUME NEW i \in Pauses, NEW j \in Int, i < j
    PROVE  PausesBefore(i) < PausesBefore(j)
<1>1. i \in Ops /\ i \in Int /\ i + 1 \in Int /\ i + 1 <= j
  BY PausesAreOps
<1>2. PausesBefore(i + 1) = PausesBefore(i) + 1
  BY <1>1, NextPause
<1>3. PausesBefore(i + 1) <= PausesBefore(j)
  BY <1>1, MorePauses
<1>4. PausesBefore(i) \in Nat /\ PausesBefore(j) \in Nat
  BY PausesFinite
<1> QED
  BY <1>2, <1>3, <1>4

-----------------------------------------------------------------------------
(* What a step inside an execution does to all this.  Nobody else executes *)
(* the program meanwhile, and status, alarm and time stand still.          *)

RunPcs == {"next", "effect", "mark", "slept"}

Alone(h) ==
    /\ hs[h].pc \in ExecutionPcs \ {"pausing", "pause"} /\ wf.status = "Running"
    /\ \A o \in Executors \ {h} : hs'[o] = hs[o] /\ hs[o].pc \notin ExecutionPcs

Still == wf'.status = wf.status /\ UNCHANGED <<alarm, up, now, budget>> /\ up

SameResults == \A i \in Steps : steps'[i].result = steps[i].result

SamePauses ==
    /\ wf'.completedPauseIndex = wf.completedPauseIndex
    /\ wf'.pendingResumeAt = wf.pendingResumeAt

SameIndex == wf'.currentPauseIndex = wf.currentPauseIndex

SameTimes == hist'.begun = hist.begun /\ hist'.due = hist.due

Steady == SameResults /\ SamePauses /\ SameIndex /\ SameTimes

(* The executor starts with the first operation. *)
Enters(h) ==
    /\ hs'[h].pc = "next" /\ hs'[h].op = 1 /\ wf'.currentPauseIndex = 0
    /\ SameResults /\ SamePauses /\ SameTimes /\ hs[h].pc = "begin"

(* It leaves the program for good. *)
Leaves(h) ==
    /\ hs[h].pc \in {"next", "effect"}
    /\ hs'[h].pc = "exit" /\ hs'[h].op = hs[h].op
    /\ Steady

(* It passes a step that has its result. *)
Passes(h) ==
    /\ hs[h].pc \in {"next", "mark"} /\ hs[h].op \in Steps
    /\ hs'[h].pc = "next" /\ hs'[h].op = hs[h].op + 1
    /\ Steady

(* It begins a step's effect. *)
Tries(h) ==
    /\ hs[h].pc = "next" /\ hs[h].op \in Steps /\ ~steps[hs[h].op].result
    /\ hs'[h].pc = "effect" /\ hs'[h].op = hs[h].op /\ hs'[h].at = now
    /\ Steady

(* The effect succeeds. *)
Succeeds(h) ==
    /\ hs[h].pc = "effect" /\ hs'[h].pc = "mark" /\ hs'[h].op = hs[h].op
    /\ SamePauses /\ SameIndex /\ SameTimes

(* The effect is to be retried. *)
Retries(h) ==
    /\ hs[h].pc = "effect" /\ hs[h].op \in Steps
    /\ hs'[h].pc = "pausing" /\ hs'[h].op = hs[h].op
    /\ hs'[h].resumeAt = hist'.due[hs[h].op]
    /\ hist'.begun = hist.begun
    /\ \A i \in Steps \ {hs[h].op} : hist'.due[i] = hist.due[i]
    /\ SameResults /\ SamePauses /\ SameIndex

(* It skips a pause point. *)
Skips(h) ==
    /\ hs[h].pc = "next" /\ hs[h].op \in Pauses
    /\ wf.currentPauseIndex < wf.completedPauseIndex
    /\ hs'[h].pc = "next" /\ hs'[h].op = hs[h].op + 1
    /\ wf'.currentPauseIndex = wf.currentPauseIndex + 1
    /\ SameResults /\ SamePauses /\ SameTimes

(* It reaches a pause point that is not completed. *)
Waits(h) ==
    /\ hs[h].pc = "next" /\ hs[h].op \in Pauses
    /\ wf.currentPauseIndex >= wf.completedPauseIndex
    /\ wf'.currentPauseIndex = wf.currentPauseIndex + 1
    /\ SameResults

(* ... whose time has passed ... *)
Completes(h) ==
    /\ Waits(h) /\ ResumeTimePassed
    /\ hs'[h].pc = "slept" /\ hs'[h].op = hs[h].op
    /\ wf'.completedPauseIndex = wf.currentPauseIndex + 1
    /\ wf'.pendingResumeAt = wf.pendingResumeAt
    /\ SameTimes

(* ... after which the time is forgotten, ... *)
Forgets(h) ==
    /\ hs[h].pc = "slept" /\ hs'[h].pc = "next" /\ hs'[h].op = hs[h].op + 1
    /\ wf'.pendingResumeAt = NoTime
    /\ wf'.completedPauseIndex = wf.completedPauseIndex
    /\ SameResults /\ SameIndex /\ SameTimes

(* ... that starts a sleep ... *)
FallsAsleep(h) ==
    /\ Waits(h) /\ ~ResumeTimePassed /\ hs[h].op \in Sleeps
    /\ hs'[h].pc = "pausing" /\ hs'[h].op = hs[h].op
    /\ hs'[h].resumeAt = now + Program[hs[h].op].ms
    /\ wf'.pendingResumeAt = now + Program[hs[h].op].ms
    /\ wf'.completedPauseIndex = wf.completedPauseIndex
    /\ hist'.due = hist.due
    /\ hist'.begun[hs[h].op] = IF hist.begun[hs[h].op] = NoTime THEN now
                                                  ELSE hist.begun[hs[h].op]
    /\ \A i \in Sleeps \ {hs[h].op} : hist'.begun[i] = hist.begun[i]

(* ... or a sleepUntil ... *)
FallsAsleepUntil(h) ==
    /\ Waits(h) /\ ~ResumeTimePassed /\ Program[hs[h].op].kind = "sleepUntil"
    /\ hs'[h].pc = "pausing" /\ hs'[h].op = hs[h].op
    /\ hs'[h].resumeAt = Program[hs[h].op].ms
    /\ wf'.pendingResumeAt = Program[hs[h].op].ms
    /\ wf'.completedPauseIndex = wf.completedPauseIndex
    /\ SameTimes

(* ... whose time is long past. *)
Overslept(h) ==
    /\ Waits(h) /\ ~ResumeTimePassed /\ Program[hs[h].op].kind = "sleepUntil"
    /\ Program[hs[h].op].ms <= now
    /\ hs'[h].pc = "next" /\ hs'[h].op = hs[h].op + 1
    /\ SamePauses /\ SameTimes

Kind(h) ==
    \/ Enters(h) \/ Leaves(h) \/ Passes(h) \/ Tries(h) \/ Succeeds(h)
    \/ Retries(h) \/ Skips(h) \/ Completes(h) \/ Forgets(h)
    \/ FallsAsleep(h) \/ FallsAsleepUntil(h) \/ Overslept(h)

(* MarkStarted stores no result. *)
LEMMA MarkStartedKeeps ==
    ASSUME TypeOK, NEW i \in Ops, MarkStarted(i)
    PROVE  SameResults
BY StepsAreOps DEF MarkStarted, TypeOK, StepKeys, SameResults

(* step() (step.ts).                                                       *)
LEMMA StepKinds ==
    ASSUME TypeOK, ReplayOK, NEW h \in Executors, NEW i \in Ops,
           Step(h, i) \/ Effect(h, i)
    PROVE  Kind(h)
<1> USE DEF At, storage, env
<1>1. h \in Handlers
  BY DEF Handlers
<1>2. CASE StepCancelled(h, i) \/ StepGivenUp(h, i)
  <2>1. hs'[h].pc = "exit" /\ hs[h].pc = "next" /\ hs'[h].op = hs[h].op
    BY <1>1, <1>2, ExitDoes DEF StepCancelled, StepGivenUp, Fresh, Reaches
  <2>2. SameResults /\ UNCHANGED <<wf, hist>>
    BY <1>2, MarkStartedKeeps DEF StepCancelled, StepGivenUp, SameResults
  <2> QED
    BY <2>1, <2>2 DEF Kind, Leaves, Steady, SamePauses, SameIndex, SameTimes
<1>3. CASE StepCached(h, i) \/ markStepCompleted(h, i)
  <2>1. /\ hs'[h].pc = "next" /\ hs'[h].op = hs[h].op + 1
        /\ hs[h].pc \in {"next", "mark"}
    BY <1>1, <1>3, AdvanceDoes DEF StepCached, markStepCompleted, Reaches
  <2>2. hs[h].op \in Steps
    BY <1>3 DEF StepCached, Reaches, markStepCompleted, ReplayOK, Steps
  <2>3. Steady
    BY <1>3 DEF StepCached, markStepCompleted, TypeOK, WorkflowKeys, Steady,
                SameResults, SamePauses, SameIndex, SameTimes
  <2> QED
    BY <2>1, <2>2, <2>3 DEF Kind, Passes
<1>4. CASE StepBegins(h, i)
  <2>1. hs'[h] = [hs[h] EXCEPT !.pc = "effect", !.at = now]
    BY <1>1, <1>4 DEF StepBegins, TypeOK
  <2>2. hs'[h].pc = "effect" /\ hs'[h].op = hs[h].op /\ hs'[h].at = now
    BY <1>1, <2>1 DEF TypeOK, HandlerState
  <2>3. hs[h].pc = "next" /\ hs[h].op \in Steps /\ ~steps[hs[h].op].result
    BY <1>4 DEF StepBegins, Fresh, Reaches, Steps
  <2>4. Steady
    BY <1>4, MarkStartedKeeps DEF StepBegins, Steady, SamePauses, SameIndex, SameTimes
  <2> QED
    BY <2>2, <2>3, <2>4 DEF Kind, Tries
<1>5. CASE EffectSucceeds(h, i)
  <2>1. hs'[h] = [hs[h] EXCEPT !.pc = "mark", !.at = NoTime]
    BY <1>1, <1>5 DEF EffectSucceeds, TypeOK
  <2>2. hs'[h].pc = "mark" /\ hs'[h].op = hs[h].op
    BY <1>1, <2>1 DEF TypeOK, HandlerState
  <2> QED
    BY <1>5, <2>2 DEF EffectSucceeds, Kind, Succeeds, SamePauses, SameIndex, SameTimes
<1>6. CASE EffectFails(h, i)
  <2>1. hs'[h] = [hs[h] EXCEPT !.pc = "exit", !.exit = "Fail", !.at = NoTime]
    BY <1>1, <1>6 DEF EffectFails, TypeOK
  <2>2. hs'[h].pc = "exit" /\ hs'[h].op = hs[h].op
    BY <1>1, <2>1 DEF TypeOK, HandlerState
  <2> QED
    BY <1>6, <2>2 DEF EffectFails, Kind, Leaves, Steady, SamePauses, SameIndex,
                      SameTimes, SameResults
<1>7. CASE EffectRetries(h, i)
  <2>1. hs'[h] = [hs[h] EXCEPT !.pc = "pausing", !.at = NoTime,
                               !.resumeAt = hs[h].at + Program[i].ms]
    BY <1>1, <1>7 DEF EffectRetries, TypeOK
  <2>2. /\ hs'[h].pc = "pausing" /\ hs'[h].op = hs[h].op
        /\ hs'[h].resumeAt = hs[h].at + Program[i].ms
    BY <1>1, <2>1 DEF TypeOK, HandlerState
  <2>3. hs[h].pc = "effect" /\ hs[h].op = i /\ i \in Steps
    BY <1>7 DEF EffectRetries, ReplayOK
  <2>4. /\ hist'.begun = hist.begun
        /\ hist'.due[i] = hs[h].at + Program[i].ms
        /\ \A j \in Steps \ {i} : hist'.due[j] = hist.due[j]
    BY <1>7, StepsAreOps DEF EffectRetries, TypeOK, History
  <2>5. SameResults
    BY <1>7, StepsAreOps DEF EffectRetries, SameResults, TypeOK, StepKeys
  <2> QED
    BY <1>7, <2>2, <2>3, <2>4, <2>5
       DEF EffectRetries, Kind, Retries, SamePauses, SameIndex
<1> QED
  BY <1>2, <1>3, <1>4, <1>5, <1>6, <1>7 DEF Step, Effect

(* sleep() and sleepUntil() (sleep.ts).                                    *)
LEMMA SleepKinds ==
    ASSUME TypeOK, NEW h \in Executors, NEW i \in Ops, Sleep(h, i)
    PROVE  Kind(h)
<1> USE DEF At, storage, env
<1>1. h \in Handlers
  BY DEF Handlers
<1>2. hs[h].pc = "next" /\ hs[h].op = i /\ i \in Pauses
  BY DEF Sleep, PauseSkipped, PauseOver, SleepBegins, SleepUntilBegins,
         SleepUntilPast, PausePoint, Reaches, Pauses
<1>3. SameResults
  BY DEF Sleep, PauseSkipped, PauseOver, SleepBegins, SleepUntilBegins,
         SleepUntilPast, SameResults
<1>4. wf'.currentPauseIndex = wf.currentPauseIndex + 1
  BY DEF Sleep, PauseSkipped, PauseOver, SleepBegins, SleepUntilBegins,
         SleepUntilPast, TypeOK, WorkflowKeys, pauseIndex
<1>5. shouldExecutePause <=> wf.currentPauseIndex >= wf.completedPauseIndex
  BY DEF shouldExecutePause, pauseIndex, TypeOK, WorkflowKeys
<1>6. shouldExecutePause => Waits(h)
  BY <1>2, <1>3, <1>4, <1>5 DEF Waits
<1>7. CASE PauseSkipped(h, i)
  <2>1. hs'[h].pc = "next" /\ hs'[h].op = hs[h].op + 1
    BY <1>1, <1>7, AdvanceDoes DEF PauseSkipped
  <2>2. wf.currentPauseIndex < wf.completedPauseIndex
    BY <1>5, <1>7 DEF PauseSkipped, TypeOK, WorkflowKeys
  <2>3. SamePauses /\ SameTimes
    BY <1>7 DEF PauseSkipped, TypeOK, WorkflowKeys, SamePauses, SameTimes
  <2> QED
    BY <1>2, <1>3, <1>4, <2>1, <2>2, <2>3 DEF Kind, Skips
<1>8. CASE PauseOver(h, i)
  <2>1. hs'[h].pc = "slept" /\ hs'[h].op = hs[h].op
    BY <1>1, <1>8, GotoDoes DEF PauseOver
  <2>2. /\ wf'.completedPauseIndex = wf.currentPauseIndex + 1
        /\ wf'.pendingResumeAt = wf.pendingResumeAt /\ SameTimes
    BY <1>8 DEF PauseOver, pauseIndex, TypeOK, WorkflowKeys, SameTimes
  <2> QED
    BY <1>6, <1>8, <2>1, <2>2 DEF PauseOver, Kind, Completes
<1>9. CASE SleepBegins(h, i)
  <2>1. /\ hs'[h].pc = "pausing" /\ hs'[h].op = hs[h].op
        /\ hs'[h].resumeAt = now + Program[i].ms
    BY <1>1, <1>9, PauseUntilDoes DEF SleepBegins
  <2>2. /\ wf'.completedPauseIndex = wf.completedPauseIndex
        /\ wf'.pendingResumeAt = now + Program[i].ms
    BY <1>9 DEF SleepBegins, TypeOK, WorkflowKeys
  <2>3. /\ hist'.due = hist.due
        /\ hist'.begun[i] = IF hist.begun[i] = NoTime THEN now ELSE hist.begun[i]
        /\ \A j \in Sleeps \ {i} : hist'.begun[j] = hist.begun[j]
    BY <1>9, PausesAreOps DEF SleepBegins, TypeOK, History
  <2>4. i \in Sleeps
    BY <1>9 DEF SleepBegins, Reaches, Sleeps
  <2> QED
    BY <1>2, <1>6, <1>9, <2>1, <2>2, <2>3, <2>4 DEF SleepBegins, Kind, FallsAsleep
<1>10. CASE SleepUntilBegins(h, i)
  <2>1. /\ hs'[h].pc = "pausing" /\ hs'[h].op = hs[h].op
        /\ hs'[h].resumeAt = Program[i].ms
    BY <1>1, <1>10, PauseUntilDoes DEF SleepUntilBegins
  <2>2. /\ wf'.completedPauseIndex = wf.completedPauseIndex
        /\ wf'.pendingResumeAt = Program[i].ms /\ SameTimes
    BY <1>10 DEF SleepUntilBegins, TypeOK, WorkflowKeys, SameTimes
  <2>3. Program[i].kind = "sleepUntil"
    BY <1>10 DEF SleepUntilBegins, Reaches
  <2> QED
    BY <1>2, <1>6, <1>10, <2>1, <2>2, <2>3
       DEF SleepUntilBegins, Kind, FallsAsleepUntil
<1>11. CASE SleepUntilPast(h, i)
  <2>1. hs'[h].pc = "next" /\ hs'[h].op = hs[h].op + 1
    BY <1>1, <1>11, AdvanceDoes DEF SleepUntilPast
  <2>2. SamePauses /\ SameTimes
    BY <1>11 DEF SleepUntilPast, TypeOK, WorkflowKeys, SamePauses, SameTimes
  <2>3. Program[i].kind = "sleepUntil" /\ Program[i].ms <= now
    BY <1>11 DEF SleepUntilPast, Reaches
  <2> QED
    BY <1>2, <1>6, <1>11, <2>1, <2>2, <2>3 DEF SleepUntilPast, Kind, Overslept
<1> QED
  BY <1>7, <1>8, <1>9, <1>10, <1>11 DEF Sleep

(* Every step inside an execution is one of these.                         *)
LEMMA InsideKinds ==
    ASSUME TypeOK, Coordination, ReplayOK, NEW h \in Executors, InsideAction(h)
    PROVE  Kind(h) /\ Alone(h) /\ Still /\ h \in Handlers
<1> USE DEF At, storage, env
<1>1. h \in Handlers
  BY DEF Handlers
<1>2. Kind(h)
  <2>1. CASE BeginExecution(h)
    <3>1. hs'[h] = [hs[h] EXCEPT !.pc = "next", !.op = 1]
      BY <1>1, <2>1 DEF BeginExecution, TypeOK
    <3>2. hs'[h].pc = "next" /\ hs'[h].op = 1
      BY <1>1, <3>1 DEF TypeOK, HandlerState
    <3>3. wf'.currentPauseIndex = 0 /\ SamePauses /\ SameResults /\ SameTimes
      BY <2>1 DEF BeginExecution, TypeOK, WorkflowKeys, SamePauses, SameResults,
                  SameTimes
    <3> QED
      BY <2>1, <3>2, <3>3 DEF BeginExecution, Kind, Enters
  <2>2. CASE clearPendingResumeAt(h)
    <3>1. hs'[h].pc = "next" /\ hs'[h].op = hs[h].op + 1
      BY <1>1, <2>2, AdvanceDoes DEF clearPendingResumeAt
    <3>2. /\ wf'.pendingResumeAt = NoTime
          /\ wf'.completedPauseIndex = wf.completedPauseIndex
          /\ SameIndex /\ SameResults /\ SameTimes
      BY <2>2 DEF clearPendingResumeAt, TypeOK, WorkflowKeys, SameIndex,
                  SameResults, SameTimes
    <3> QED
      BY <2>2, <3>1, <3>2 DEF clearPendingResumeAt, Kind, Forgets
  <2>3. CASE ProgramEnds(h)
    <3>1. hs'[h].pc = "exit" /\ hs'[h].op = hs[h].op
      BY <1>1, <2>3, ExitDoes DEF ProgramEnds
    <3> QED
      BY <2>3, <3>1 DEF ProgramEnds, Kind, Leaves, Steady, SamePauses, SameIndex,
                        SameTimes, SameResults
  <2> QED
    BY <2>1, <2>2, <2>3, StepKinds, SleepKinds DEF InsideAction
<1>3. hs[h].pc \in {"begin", "next", "effect", "mark", "slept"}
  BY <1>2 DEF Kind, Enters, Leaves, Passes, Tries, Succeeds, Retries, Skips,
         Completes, Forgets, FallsAsleep, FallsAsleepUntil, Overslept, Waits
<1>4. /\ wf'.status = wf.status /\ UNCHANGED <<alarm, up>> /\ up
      /\ \A o \in Handlers \ {h} : hs'[o] = hs[o]
  BY InsideStep DEF Inside, Turn
<1>5. UNCHANGED <<now, budget>>
  <2>1. ASSUME NEW i \in Ops, Step(h, i) \/ Effect(h, i) \/ Sleep(h, i)
        PROVE  UNCHANGED <<now, budget>>
    BY <2>1 DEF Step, StepCancelled, StepCached, StepGivenUp, StepBegins,
         markStepCompleted, Effect, EffectSucceeds, EffectFails, EffectRetries,
         Sleep, PauseSkipped, PauseOver, SleepBegins, SleepUntilBegins,
         SleepUntilPast
  <2> QED
    BY <2>1 DEF InsideAction, BeginExecution, clearPendingResumeAt, ProgramEnds
<1>6. \A o \in Executors \ {h} : hs[o].pc \notin ExecutionPcs
  BY <1>3 DEF Coordination, EngagedOK, Engaged, ExecutionPcs, Executors
<1>7. wf.status = "Running"
  BY <1>3 DEF Coordination, EngagedOK, ExecutionPcs
<1> QED
  BY <1>1, <1>2, <1>3, <1>4, <1>5, <1>6, <1>7
     DEF Alone, Still, ExecutionPcs, Handlers

(* The numbers that are compared.                                          *)
LEMMA Numbers ==
    ASSUME TypeOK
    PROVE  /\ wf.currentPauseIndex \in Nat /\ wf.completedPauseIndex \in Nat
           /\ wf.pendingResumeAt \in Int /\ now \in Nat /\ alarm \in Int
           /\ \A i \in Ops : hist.begun[i] \in Int /\ hist.due[i] \in Int
           /\ \A i \in Ops : Program[i].ms \in Nat
           /\ \A i : PausesBefore(i) \in Nat
           /\ NoTime = -1
<1>1. \A t \in Time : t \in Int
  BY DEF Time, NoTime
<1>2. /\ wf.currentPauseIndex \in Nat /\ wf.completedPauseIndex \in Nat
      /\ wf.pendingResumeAt \in Time /\ now \in Nat /\ alarm \in Time
  BY DEF TypeOK, WorkflowKeys
<1>3. \A i \in Ops : hist.begun[i] \in Time /\ hist.due[i] \in Time
  BY DEF TypeOK, History
<1>4. \A i : PausesBefore(i) \in Nat
  BY PausesFinite
<1> QED
  BY <1>1, <1>2, <1>3, <1>4, ConstantTypes DEF NoTime

-----------------------------------------------------------------------------
(* PausesOK. *)

(* The executor that moves decides.                                        *)
LEMMA PausesByOne ==
    ASSUME PausesOK, NEW h \in Executors, Alone(h), Still,
           budget.crashes = 0 =>
              /\ hs'[h].pc \in {"next", "effect", "mark"} =>
                    wf'.currentPauseIndex = PausesBefore(hs'[h].op)
              /\ hs'[h].pc = "slept" =>
                    /\ hs'[h].op \in Pauses
                    /\ wf'.currentPauseIndex = PausesBefore(hs'[h].op) + 1
                    /\ wf'.completedPauseIndex = wf'.currentPauseIndex
              /\ \A i \in Sleeps : Passed(h, i)' => Completed(i)'
              /\ \A i \in Sleeps :
                    /\ hist'.begun[i] <= now
                    /\ Completed(i)' => hist'.begun[i] # NoTime
                                           /\ now >= hist'.begun[i] + Program[i].ms
                    /\ hist'.begun[i] # NoTime =>
                          \A j \in Sleeps : j < i => Completed(j)'
    PROVE  PausesOK'
<1> SUFFICES ASSUME budget'.crashes = 0
             PROVE  PausesOK'
  BY DEF PausesOK
<1>1. budget.crashes = 0 /\ now' = now
  BY DEF Still
<1>2. \A o \in Executors \ {h} : hs'[o].pc \notin {"next", "effect", "mark", "slept"}
  BY DEF Alone, ExecutionPcs
<1> QED
  BY <1>1, <1>2 DEF PausesOK, Passed

(* Where neither the sleeps begun nor those completed change, they stay as *)
(* they were.                                                              *)
LEMMA PausesSame ==
    ASSUME PausesOK, budget.crashes = 0, hist'.begun = hist.begun,
           wf'.completedPauseIndex = wf.completedPauseIndex
    PROVE  /\ \A i : Completed(i)' <=> Completed(i)
           /\ \A i \in Sleeps :
                 /\ hist'.begun[i] <= now
                 /\ Completed(i)' => hist'.begun[i] # NoTime
                                        /\ now >= hist'.begun[i] + Program[i].ms
                 /\ hist'.begun[i] # NoTime =>
                       \A j \in Sleeps : j < i => Completed(j)'
BY DEF PausesOK, Completed

(* The sleep that a replay completes is the one whose wake-up time was     *)
(* stored: its full duration has passed (sleep.ts).                        *)
LEMMA SleepIsOver ==
    ASSUME TypeOK, PausesOK, PendingOK, NEW h \in Executors, Alone(h),
           Completes(h), budget.crashes = 0, hs[h].op \in Sleeps
    PROVE  /\ hist.begun[hs[h].op] # NoTime
           /\ now >= hist.begun[hs[h].op] + Program[hs[h].op].ms
<1> DEFINE i == hs[h].op
<1>1. /\ hs[h].pc = "next" /\ wf.currentPauseIndex >= wf.completedPauseIndex
      /\ wf.pendingResumeAt # NoTime /\ now >= wf.pendingResumeAt
  BY DEF Completes, Waits, ResumeTimePassed
<1>2. wf.currentPauseIndex = PausesBefore(i)
  BY <1>1 DEF PausesOK
<1>3. ~Completed(i)
  BY <1>1, <1>2, Numbers DEF Completed
<1>4. \A o \in Executors : hs[o].pc # "slept"
  BY <1>1 DEF Alone, ExecutionPcs
<1>5. PICK j \in Pauses : PendingAt(j)
  BY <1>1, <1>4 DEF PendingOK
<1>6. i <= j
  BY <1>1, <1>5 DEF PendingAt
<1>7. ~(i < j)
  BY <1>3, <1>5 DEF PendingAt
<1>8. i = j /\ Program[j].kind = "sleep" /\ i \in Ops
  BY <1>6, <1>7, PausesAreOps DEF Sleeps
<1>9. hist.begun[i] # NoTime /\ wf.pendingResumeAt >= hist.begun[i] + Program[i].ms
  BY <1>5, <1>8 DEF PendingAt
<1> QED
  BY <1>1, <1>8, <1>9, Numbers

(* A sleep is passed only completed, whichever way the replay goes on.     *)
LEMMA KindsPauses ==
    ASSUME TypeOK, RegistersOK, PausesOK, PendingOK, NEW h \in Executors,
           Kind(h), Alone(h), Still
    PROVE  PausesOK'
<1> SUFFICES ASSUME budget.crashes = 0
             PROVE  PausesOK'
  BY DEF Still, PausesOK
<1> DEFINE i == hs[h].op
<1>1. hs[h].pc \in {"next", "effect", "mark"} =>
          /\ wf.currentPauseIndex = PausesBefore(i)
          /\ \A j \in Sleeps : j < i => Completed(j)
  BY DEF PausesOK, Passed
<1>2. \A n \in Ops : \A j \in Sleeps : j < n + 1 => j < n \/ j = n
  BY PausesAreOps
<1>3. CASE Enters(h)
  <2>1. \A j \in Sleeps : ~(j < 1)
    BY PausesAreOps
  <2> QED
    BY <1>3, <2>1, NoPausesYet, PausesSame, PausesByOne
       DEF Enters, SamePauses, SameTimes, Passed
<1>4. CASE Leaves(h) \/ Retries(h)
  BY <1>4, PausesSame, PausesByOne
     DEF Leaves, Retries, Steady, SamePauses, SameTimes, Passed
<1>5. CASE Passes(h)
  <2>1. i \in Ops /\ i \notin Sleeps /\ PausesBefore(i + 1) = PausesBefore(i)
    BY <1>5, NextPause, StepsAreOps, PausesAreOps DEF Passes
  <2>2. \A j \in Sleeps : Passed(h, j)' => Completed(j)
    BY <1>1, <1>2, <1>5, <2>1 DEF Passes, Passed
  <2> QED
    BY <1>1, <1>5, <2>1, <2>2, PausesSame, PausesByOne
       DEF Passes, Steady, SamePauses, SameIndex, SameTimes
<1>6. CASE Tries(h) \/ Succeeds(h)
  BY <1>1, <1>6, PausesSame, PausesByOne
     DEF Tries, Succeeds, Steady, SamePauses, SameIndex, SameTimes, Passed
<1>7. CASE Skips(h)
  <2>1. i \in Ops /\ i \in Pauses /\ PausesBefore(i + 1) = PausesBefore(i) + 1
    BY <1>7, NextPause, PausesAreOps DEF Skips
  <2>2. Completed(i)
    BY <1>1, <1>7 DEF Skips, Completed
  <2>3. \A j \in Sleeps : Passed(h, j)' => Completed(j)
    BY <1>1, <1>2, <1>7, <2>1, <2>2 DEF Skips, Passed
  <2> QED
    BY <1>1, <1>7, <2>1, <2>3, PausesSame, PausesByOne DEF Skips, SamePauses, SameTimes
<1>8. CASE Completes(h)
  <2>1. /\ i \in Pauses /\ hs[h].pc = "next"
        /\ wf.currentPauseIndex >= wf.completedPauseIndex
        /\ wf'.currentPauseIndex = PausesBefore(i) + 1
        /\ wf'.completedPauseIndex = PausesBefore(i) + 1
        /\ hs'[h].pc = "slept" /\ hs'[h].op = i /\ SameTimes
    BY <1>1, <1>8 DEF Completes, Waits
  <2>2. wf.completedPauseIndex <= PausesBefore(i)
    BY <1>1, <2>1, Numbers
  <2>3. \A j : Completed(j) => Completed(j)'
    BY <2>1, <2>2, Numbers DEF Completed
  <2>4. \A j \in Sleeps : Completed(j)' => j <= i
    <3> SUFFICES ASSUME NEW j \in Sleeps, i < j
                 PROVE  ~Completed(j)'
      BY <2>1, PausesAreOps
    <3>1. PausesBefore(i) < PausesBefore(j)
      BY <2>1, PausesPassed, PausesAreOps
    <3> QED
      BY <2>1, <3>1, Numbers DEF Completed
  <2>5. \A j \in Sleeps : Completed(j)' =>
            hist.begun[j] # NoTime /\ now >= hist.begun[j] + Program[j].ms
    <3> SUFFICES ASSUME NEW j \in Sleeps, Completed(j)'
                 PROVE  hist.begun[j] # NoTime /\ now >= hist.begun[j] + Program[j].ms
      OBVIOUS
    <3>1. CASE j = i
      BY <1>8, <3>1, SleepIsOver
    <3>2. CASE j # i
      <4>1. Completed(j)
        BY <1>1, <2>1, <2>4, <3>2, PausesAreOps
      <4> QED
        BY <4>1 DEF PausesOK
    <3> QED
      BY <3>1, <3>2
  <2>6. \A j \in Sleeps : Passed(h, j)' => Completed(j)'
    BY <1>1, <2>1, <2>3 DEF Passed
  <2>7. \A j \in Sleeps : /\ hist'.begun[j] <= now
                          /\ hist'.begun[j] # NoTime =>
                                \A k \in Sleeps : k < j => Completed(k)'
    BY <2>1, <2>3 DEF SameTimes, PausesOK
  <2> QED
    BY <2>1, <2>5, <2>6, <2>7, PausesByOne DEF SameTimes
<1>9. CASE Forgets(h)
  <2>1. /\ i \in Pauses /\ wf.currentPauseIndex = PausesBefore(i) + 1
        /\ wf.completedPauseIndex = PausesBefore(i) + 1
        /\ \A j \in Sleeps : j < i => Completed(j)
    BY <1>9 DEF Forgets, PausesOK, Passed
  <2>2. i \in Ops /\ PausesBefore(i + 1) = PausesBefore(i) + 1
    BY <2>1, NextPause, PausesAreOps
  <2>3. Completed(i)
    BY <2>1, Numbers DEF Completed
  <2>4. \A j \in Sleeps : Passed(h, j)' => Completed(j)
    BY <1>2, <1>9, <2>1, <2>2, <2>3 DEF Forgets, Passed
  <2> QED
    BY <1>9, <2>1, <2>2, <2>4, PausesSame, PausesByOne DEF Forgets, SameIndex, SameTimes
<1>10. CASE FallsAsleep(h)
  <2>1. /\ i \in Sleeps /\ hs[h].pc = "next" /\ hs'[h].pc = "pausing"
        /\ wf.currentPauseIndex >= wf.completedPauseIndex
        /\ wf'.completedPauseIndex = wf.completedPauseIndex
        /\ \A j \in Sleeps \ {i} : hist'.begun[j] = hist.begun[j]
        /\ hist'.begun[i] \in {now, hist.begun[i]}
    BY <1>10 DEF FallsAsleep, Waits
  <2>2. ~Completed(i)
    BY <1>1, <2>1, Numbers DEF Completed
  <2>3. \A j : Completed(j)' <=> Completed(j)
    BY <2>1 DEF Completed
  <2>4. \A j \in Sleeps :
            /\ hist'.begun[j] <= now
            /\ Completed(j)' => hist'.begun[j] # NoTime
                                   /\ now >= hist'.begun[j] + Program[j].ms
            /\ hist'.begun[j] # NoTime => \A k \in Sleeps : k < j => Completed(k)'
    <3> SUFFICES ASSUME NEW j \in Sleeps
                 PROVE  /\ hist'.begun[j] <= now
                        /\ Completed(j) => hist'.begun[j] # NoTime
                                   /\ now >= hist'.begun[j] + Program[j].ms
                        /\ hist'.begun[j] # NoTime =>
                              \A k \in Sleeps : k < j => Completed(k)
      BY <2>3
    <3>1. CASE j = i
      BY <1>1, <2>1, <2>2, <3>1, Numbers DEF PausesOK
    <3>2. CASE j # i
      BY <2>1, <3>2 DEF PausesOK
    <3> QED
      BY <3>1, <3>2
  <2> QED
    BY <2>1, <2>4, PausesByOne DEF Passed
<1>11. CASE FallsAsleepUntil(h)
  BY <1>11, PausesSame, PausesByOne DEF FallsAsleepUntil, SameTimes, Passed
<1>12. CASE Overslept(h)
  <2>1. i \in Ops /\ i \in Pauses /\ PausesBefore(i + 1) = PausesBefore(i) + 1
    BY <1>12, NextPause, PausesAreOps DEF Overslept, Waits
  <2>2. i \notin Sleeps /\ hs[h].pc = "next"
    BY <1>12 DEF Overslept, Waits, Sleeps
  <2>3. \A j \in Sleeps : Passed(h, j)' => Completed(j)
    BY <1>1, <1>2, <1>12, <2>1, <2>2 DEF Overslept, Passed
  <2> QED
    BY <1>1, <1>12, <2>1, <2>3, PausesSame, PausesByOne
       DEF Overslept, Waits, SamePauses, SameTimes
<1> QED
  BY <1>3, <1>4, <1>5, <1>6, <1>7, <1>8, <1>9, <1>10, <1>11, <1>12 DEF Kind

-----------------------------------------------------------------------------
(* PendingOK. *)

(* The wake-up time stays with its pause point while nobody passes it.     *)
LEMMA PendingSame ==
    ASSUME NEW j \in Pauses, PendingAt(j), NEW h \in Executors, Alone(h),
           SameResults, SamePauses, hist'.begun = hist.begun,
           hs'[h].pc \notin {"effect", "mark"},
           hs'[h].pc = "next" => hs'[h].op <= j
    PROVE  PendingAt(j)'
<1>1. \A i : Completed(i)' <=> Completed(i)
  BY DEF SamePauses, Completed
<1>2. DoneBefore(j)'
  BY DEF PendingAt, DoneBefore, SameResults
<1>3. \A o \in Executors : /\ hs'[o].pc \notin {"effect", "mark"}
                           /\ hs'[o].pc = "next" => hs'[o].op <= j
  BY DEF Alone, ExecutionPcs
<1> QED
  BY <1>1, <1>2, <1>3 DEF PendingAt, SamePauses

(* A pause that begins is what the wake-up time belongs to.                *)
LEMMA PendingBegins ==
    ASSUME TypeOK, ReplayOK, PausesOK, NEW h \in Executors, Alone(h), Waits(h),
           NEW i \in Pauses, hs[h].op = i,
           budget.crashes = 0, hs'[h].pc = "pausing",
           wf'.completedPauseIndex = wf.completedPauseIndex,
           Program[i].kind = "sleep" =>
               /\ hist'.begun[i] # NoTime
               /\ wf'.pendingResumeAt >= hist'.begun[i] + Program[i].ms,
           Program[i].kind = "sleepUntil" => wf'.pendingResumeAt = Program[i].ms
    PROVE  PendingAt(i)'
<1>1. /\ hs[h].pc = "next" /\ SameResults
      /\ wf.currentPauseIndex >= wf.completedPauseIndex
  BY DEF Waits
<1>2. wf.currentPauseIndex = PausesBefore(i) /\ \A j \in Sleeps : j < i => Completed(j)
  BY <1>1 DEF PausesOK, Passed
<1>3. \A j : Completed(j)' <=> Completed(j)
  BY DEF Completed
<1>4. ~Completed(i)
  BY <1>1, <1>2, Numbers DEF Completed
<1>5. \A j \in Steps : j < i => steps'[j].result
  BY <1>1 DEF ReplayOK, DoneBefore, SameResults
<1>6. \A o \in Executors : hs'[o].pc \notin {"effect", "mark", "next"}
  BY DEF Alone, ExecutionPcs
<1> QED
  BY <1>2, <1>3, <1>4, <1>5, <1>6 DEF PendingAt, DoneBefore

(* No replay gets beyond the pause point without completing it.            *)
LEMMA KindsPending ==
    ASSUME TypeOK, RegistersOK, ReplayOK, PausesOK, PendingOK, NEW h \in Executors,
           Kind(h), Alone(h), Still
    PROVE  PendingOK'
<1> SUFFICES ASSUME budget.crashes = 0, wf'.pendingResumeAt # NoTime,
                    \A o \in Executors : hs'[o].pc # "slept"
             PROVE  (\E j \in Pauses : PendingAt(j))'
  BY DEF Still, PendingOK
<1>0. PICK i : i = hs[h].op
  OBVIOUS
<1>1. wf.pendingResumeAt # NoTime /\ hs[h].pc # "slept" =>
          \E j \in Pauses : PendingAt(j)
  BY DEF PendingOK, Alone, ExecutionPcs
<1>2. ASSUME NEW j \in Pauses, PendingAt(j)
      PROVE  /\ j \in Int /\ hs[h].pc \notin {"effect", "mark"}
             /\ hs[h].pc = "next" => i <= j
             /\ DoneBefore(j) /\ ~Completed(j)
  BY <1>0, <1>2, PausesAreOps DEF PendingAt
<1>3. CASE Enters(h) \/ Leaves(h)
  <2>1. PICK j \in Pauses : PendingAt(j)
    BY <1>1, <1>3 DEF Enters, Leaves, Steady, SamePauses
  <2>2. PendingAt(j)'
    BY <1>3, <2>1, PendingSame, PausesAreOps
       DEF Enters, Leaves, Steady, SameTimes
  <2> QED
    BY <2>2
<1>4. CASE Passes(h)
  <2>1. PICK j \in Pauses : PendingAt(j)
    BY <1>1, <1>4 DEF Passes, Steady, SamePauses
  <2>2. i \in Steps /\ i \in Int
    BY <1>0, <1>4, StepsAreOps, PausesAreOps DEF Passes
  <2>3. i # j
    BY <2>1, <2>2, PausesAreOps, Zenon
  <2>4. hs[h].pc # "effect" => i + 1 <= j
    BY <1>2, <1>4, <2>1, <2>2, <2>3 DEF Passes
  <2>5. PendingAt(j)'
    BY <1>0, <1>4, <2>1, <2>4, PendingSame DEF Passes, Steady, SameTimes
  <2> QED
    BY <2>5
<1>5. CASE Tries(h)
  <2>1. PICK j \in Pauses : PendingAt(j)
    BY <1>1, <1>5 DEF Tries, Steady, SamePauses
  <2>2. /\ i \in Steps /\ i <= j /\ j \in Int /\ DoneBefore(j)
        /\ ~steps[i].result
    BY <1>0, <1>2, <1>5, <2>1 DEF Tries
  <2>3. i # j
    BY <2>1, <2>2, PausesAreOps, Zenon
  <2>4. i \in Int
    BY <2>2, PausesAreOps DEF Steps
  <2>5. i < j
    BY <2>2, <2>3, <2>4
  <2> QED
    BY <2>2, <2>5 DEF DoneBefore
<1>6. CASE Succeeds(h) \/ Retries(h)
  BY <1>1, <1>2, <1>6 DEF Succeeds, Retries, SamePauses
<1>7. CASE Skips(h)
  <2>1. PICK j \in Pauses : PendingAt(j)
    BY <1>1, <1>7 DEF Skips, SamePauses
  <2>2. i \in Pauses /\ i \in Int /\ i <= j /\ j \in Int
    BY <1>0, <1>2, <1>7, <2>1, PausesAreOps DEF Skips
  <2>3. Completed(i)
    BY <1>0, <1>7 DEF Skips, Completed, PausesOK
  <2>4. i # j
    BY <1>2, <2>1, <2>3
  <2>5. i + 1 <= j
    BY <2>2, <2>4
  <2>6. PendingAt(j)'
    BY <1>0, <1>7, <2>1, <2>5, PendingSame DEF Skips, SameTimes
  <2> QED
    BY <2>6
<1>8. CASE Completes(h) \/ Forgets(h)
  BY <1>8 DEF Completes, Forgets
<1>9. CASE FallsAsleep(h)
  <2>1. /\ i \in Sleeps /\ Waits(h) /\ hs'[h].pc = "pausing"
        /\ wf'.completedPauseIndex = wf.completedPauseIndex
        /\ wf'.pendingResumeAt = now + Program[i].ms
        /\ hist'.begun[i] = IF hist.begun[i] = NoTime THEN now ELSE hist.begun[i]
    BY <1>0, <1>9 DEF FallsAsleep
  <2>2. hist.begun[i] <= now /\ i \in Ops /\ Program[i].kind = "sleep"
    BY <2>1, PausesAreOps DEF PausesOK, Sleeps
  <2>3. hist'.begun[i] # NoTime /\ wf'.pendingResumeAt >= hist'.begun[i] + Program[i].ms
    BY <2>1, <2>2, Numbers
  <2>4. i \in Pauses
    BY <2>1, PausesAreOps
  <2>5. PendingAt(i)'
    BY <1>0, <2>1, <2>2, <2>3, <2>4, PendingBegins
  <2> QED
    BY <2>4, <2>5
<1>10. CASE FallsAsleepUntil(h)
  <2>1. i \in Pauses
    BY <1>0, <1>10 DEF FallsAsleepUntil, Waits
  <2>2. PendingAt(i)'
    BY <1>0, <1>10, <2>1, PendingBegins DEF FallsAsleepUntil
  <2> QED
    BY <2>1, <2>2
<1>11. CASE Overslept(h)
  <2>1. /\ Waits(h) /\ ~ResumeTimePassed /\ hs[h].pc = "next"
        /\ Program[i].kind = "sleepUntil" /\ Program[i].ms <= now
        /\ hs'[h].pc = "next" /\ hs'[h].op = i + 1 /\ SamePauses /\ SameTimes
        /\ i \in Pauses /\ i \in Ops /\ SameResults
    BY <1>0, <1>11, PausesAreOps DEF Overslept, Waits
  <2>2. PICK j \in Pauses : PendingAt(j)
    BY <1>1, <2>1 DEF SamePauses
  <2>3. now < wf.pendingResumeAt
    BY <2>1, Numbers DEF ResumeTimePassed, SamePauses
  <2>4. i # j
    BY <2>1, <2>2, <2>3, Numbers DEF PendingAt
  <2>5. i + 1 <= j
    BY <1>2, <2>1, <2>2, <2>4, StepsAreOps
  <2>6. PendingAt(j)'
    BY <1>0, <2>1, <2>2, <2>5, PendingSame DEF SameTimes
  <2> QED
    BY <2>6
<1> QED
  BY <1>3, <1>4, <1>5, <1>6, <1>7, <1>8, <1>9, <1>10, <1>11 DEF Kind

-----------------------------------------------------------------------------
(* RetriesOK and SleepsOK, inside an execution. *)

(* While a program is executed nothing is suspended.                       *)
LEMMA NotSuspended ==
    ASSUME NEW h \in Executors, Alone(h)
    PROVE  ~Terminated /\ \A t : ~SuspendedUntil(t)
<1>1. \A o \in Executors : hs[o].pc \notin {"pausing", "pause"}
  BY DEF Alone, ExecutionPcs
<1> QED
  BY <1>1 DEF Alone, SuspendedUntil, Terminated

(* No attempt is begun before it is due.                                   *)
LEMMA KindsRetries ==
    ASSUME TypeOK, TypeOK', PendingOK, RetriesOK, NEW h \in Executors,
           Kind(h), Alone(h), Still
    PROVE  RetriesOK'
<1> SUFFICES ASSUME budget.crashes = 0
             PROVE  RetriesOK'
  BY DEF Still, RetriesOK
<1>1. \A k \in Steps : hist.due[k] <= now
  BY NotSuspended DEF RetriesOK
<1>2. now' = now /\ \A o \in Executors \ {h} : hs'[o].pc # "effect"
  BY DEF Still, Alone, ExecutionPcs
<1>3. CASE Tries(h)
  BY <1>1, <1>2, <1>3 DEF RetriesOK, Tries, Steady, SameTimes
<1>4. CASE Retries(h)
  <2>1. PICK i : i = hs[h].op
    OBVIOUS
  <2>2. /\ i \in Steps /\ hs'[h].resumeAt = hist'.due[i] /\ hs'[h].pc = "pausing"
        /\ \A k \in Steps \ {i} : hist'.due[k] = hist.due[k]
        /\ wf'.pendingResumeAt = wf.pendingResumeAt
    BY <1>4, <2>1 DEF Retries, SamePauses
  <2>3. wf.pendingResumeAt = NoTime
    <3>1. \A o \in Executors : hs[o].pc # "slept"
      BY <1>4 DEF Retries, Alone, ExecutionPcs
    <3>2. \A j : ~PendingAt(j)
      BY <1>4 DEF Retries, PendingAt
    <3> QED
      BY <3>1, <3>2 DEF PendingOK
  <2>4. hist'.due[i] \in Int
    BY <2>2, StepsAreOps DEF TypeOK, History, Time, NoTime
  <2>5. SuspendedUntil(hist.due[i])'
    BY <2>2, <2>4 DEF SuspendedUntil
  <2> QED
    BY <1>1, <1>2, <2>2, <2>3, <2>4, <2>5 DEF RetriesOK
<1>5. CASE ~Tries(h) /\ ~Retries(h)
  <2>1. hist'.due = hist.due /\ hs'[h].pc # "effect"
    BY <1>5 DEF Kind, Enters, Leaves, Passes, Succeeds, Skips, Completes, Forgets,
                FallsAsleep, FallsAsleepUntil, Overslept, Steady, SameTimes
  <2> QED
    BY <1>1, <1>2, <2>1 DEF RetriesOK
<1> QED
  BY <1>3, <1>4, <1>5

(* A sleep that is waited for is over when a program is executed.          *)
LEMMA WaitedFor ==
    ASSUME TypeOK, SleepsOK, Undisturbed, NEW h \in Executors, Alone(h),
           NEW i \in Sleeps, Firm(i), hist.begun[i] # NoTime, ~Completed(i)
    PROVE  /\ wf.pendingResumeAt = hist.begun[i] + Program[i].ms
           /\ now >= wf.pendingResumeAt /\ ResumeTimePassed
           /\ hs[h].pc # "slept"
<1>1. /\ wf.pendingResumeAt = hist.begun[i] + Program[i].ms
      /\ now >= wf.pendingResumeAt /\ hs[h].pc # "slept"
  BY NotSuspended DEF SleepsOK
<1>2. hist.begun[i] \in Nat /\ Program[i].ms \in Nat
  BY PausesAreOps, Numbers DEF TypeOK, History, Time
<1>3. wf.pendingResumeAt # NoTime
  BY <1>1, <1>2 DEF NoTime
<1> QED
  BY <1>1, <1>3 DEF ResumeTimePassed

(* Where a replay goes on without a pause, every sleep stays as it is.     *)
LEMMA AwakeSleeps ==
    ASSUME TypeOK, SleepsOK, NEW h \in Executors, Alone(h), Still,
           hist'.begun = hist.begun, hs'[h].pc # "slept",
           wf'.completedPauseIndex = wf.completedPauseIndex,
           hs[h].pc # "slept" => wf'.pendingResumeAt = wf.pendingResumeAt
    PROVE  SleepsOK'
<1> SUFFICES ASSUME Undisturbed
             PROVE  SleepsOK'
  BY DEF Still, SleepsOK, Undisturbed
<1>1. \A o \in Executors : hs'[o].pc # "slept"
  BY DEF Alone, ExecutionPcs
<1>2. ASSUME NEW i \in Sleeps, Firm(i), hist.begun[i] # NoTime, ~Completed(i)
      PROVE  wf'.pendingResumeAt = hist'.begun[i] + Program[i].ms
                /\ now' >= wf'.pendingResumeAt
  BY <1>2, WaitedFor DEF Still
<1>3. \A i : Completed(i)' <=> Completed(i)
  BY DEF Completed
<1> QED
  BY <1>1, <1>2, <1>3 DEF SleepsOK, Still, Firm

(* A sleep is completed by the replay that comes to it when it is over,    *)
(* and it is the next one to be.                                           *)
LEMMA CompletesSleeps ==
    ASSUME TypeOK, PausesOK, SleepsOK, NEW h \in Executors, Completes(h),
           Alone(h), Still
    PROVE  SleepsOK'
<1> SUFFICES ASSUME Undisturbed, NEW k \in Sleeps, Firm(k), hist'.begun[k] # NoTime
             PROVE  Completed(k)'
  BY DEF Still, SleepsOK, Undisturbed, Firm
<1>0. PICK i : i = hs[h].op
  OBVIOUS
<1>1. /\ i \in Pauses /\ wf.currentPauseIndex >= wf.completedPauseIndex
      /\ wf'.completedPauseIndex = wf.currentPauseIndex + 1
      /\ wf.currentPauseIndex = PausesBefore(i) /\ hist.begun[k] # NoTime
  BY <1>0 DEF Completes, Waits, PausesOK, SameTimes, Undisturbed
<1>2. i \in Ops /\ k \in Ops /\ i \in Int /\ k \in Int /\ 1 <= i
  BY <1>1, PausesAreOps
<1>3. ~Completed(i)
  BY <1>1, Numbers DEF Completed
<1>4. ~(i < k)
  <2> SUFFICES ASSUME i < k PROVE FALSE
    OBVIOUS
  <2>1. Program[i].kind # "sleepUntil"
    BY <1>2 DEF Firm
  <2>2. i \in Sleeps
    BY <1>1, <1>2, <2>1, OperationKinds DEF Pauses, Sleeps
  <2>3. Completed(i)
    BY <1>1, <2>2 DEF PausesOK, Undisturbed
  <2> QED
    BY <1>3, <2>3
<1>5. PausesBefore(k) <= PausesBefore(i)
  BY <1>2, <1>4, MorePauses
<1> QED
  BY <1>1, <1>5, Numbers DEF Completed

(* A sleep that begins is waited for; those begun before are completed.    *)
LEMMA BeginsSleep ==
    ASSUME TypeOK, SleepsOK, PausesOK, NEW h \in Executors, FallsAsleep(h),
           Alone(h), Still, Undisturbed, NEW i, i = hs[h].op, Firm(i)
    PROVE  hist.begun[i] = NoTime /\ hist'.begun[i] = now
<1>1. /\ i \in Sleeps /\ ~ResumeTimePassed /\ hs[h].pc = "next"
      /\ wf.currentPauseIndex >= wf.completedPauseIndex
      /\ hist'.begun[i] = IF hist.begun[i] = NoTime THEN now ELSE hist.begun[i]
  BY DEF FallsAsleep, Waits
<1>2. wf.currentPauseIndex = PausesBefore(i)
  BY <1>1 DEF PausesOK, Undisturbed
<1>3. ~Completed(i)
  BY <1>1, <1>2, Numbers DEF Completed
<1>4. hist.begun[i] = NoTime
  BY <1>1, <1>3, WaitedFor
<1> QED
  BY <1>1, <1>4

(* What is begun and firm is completed, or it is what is waited for.       *)
LEMMA KindsSleeps ==
    ASSUME TypeOK, PausesOK, SleepsOK, NEW h \in Executors,
           Kind(h), Alone(h), Still
    PROVE  SleepsOK'
<1>1. CASE \/ Enters(h) \/ Leaves(h) \/ Passes(h) \/ Tries(h) \/ Succeeds(h)
           \/ Retries(h) \/ Skips(h) \/ Forgets(h) \/ Overslept(h)
  BY <1>1, AwakeSleeps
     DEF Enters, Leaves, Passes, Tries, Succeeds, Retries, Skips, Forgets, Overslept,
         Steady, SamePauses, SameTimes
<1>2. CASE Completes(h)
  BY <1>2, CompletesSleeps
<1>3. CASE FallsAsleep(h) \/ FallsAsleepUntil(h)
  <2> SUFFICES ASSUME Undisturbed, NEW k \in Sleeps, Firm(k), hist'.begun[k] # NoTime,
                      ~Completed(k)'
               PROVE  /\ wf'.pendingResumeAt = hist'.begun[k] + Program[k].ms
                      /\ SuspendedUntil(wf.pendingResumeAt)'
                      /\ \A o \in Executors : hs'[o].pc # "slept"
    BY DEF Still, SleepsOK, Undisturbed, Firm
  <2>0. PICK i : i = hs[h].op
    OBVIOUS
  <2>1. ~ResumeTimePassed /\ ~Completed(k) /\ hs'[h].pc = "pausing"
    BY <1>3 DEF FallsAsleep, FallsAsleepUntil, Completed
  <2>2. hist.begun[k] = NoTime
    BY <2>1, WaitedFor
  <2>3. FallsAsleep(h) /\ k = i
    BY <1>3, <2>0, <2>2 DEF FallsAsleep, FallsAsleepUntil, SameTimes
  <2>4. /\ hist'.begun[k] = now /\ wf'.pendingResumeAt = now + Program[k].ms
        /\ hs'[h].resumeAt = wf'.pendingResumeAt
    BY <2>0, <2>2, <2>3 DEF FallsAsleep
  <2>5. wf'.pendingResumeAt \in Int
    BY <2>4, PausesAreOps, Numbers
  <2>6. SuspendedUntil(wf.pendingResumeAt)'
    BY <2>1, <2>4, <2>5 DEF SuspendedUntil
  <2>7. \A o \in Executors : hs'[o].pc # "slept"
    BY <2>1 DEF Alone, ExecutionPcs
  <2> QED
    BY <2>4, <2>6, <2>7
<1> QED
  BY <1>1, <1>2, <1>3 DEF Kind

-----------------------------------------------------------------------------
(* What a step outside an execution does to all this: it moves no replay.  *)

Unmoved ==
    \A o \in Executors :
        /\ hs[o].pc \in RunPcs \/ hs'[o].pc \in RunPcs => hs'[o] = hs[o]
        /\ hs'[o].op \in {hs[o].op, 0}
        /\ hs'[o].pc \in {"pausing", "pause"} =>
              /\ hs[o].pc \in {"pausing", "pause"}
              /\ hs'[o].op = hs[o].op /\ hs'[o].resumeAt = hs[o].resumeAt

Outside ==
    /\ Unmoved
    /\ SamePauses /\ SameIndex /\ SameTimes /\ UNCHANGED steps
    /\ Terminated => Terminated'
    /\ now <= now'
    /\ budget'.evictions = 0 => budget.evictions = 0

(* A handler that moves outside of the program moves no replay.            *)
LEMMA MovesOutside ==
    ASSUME TypeOK, NEW h \in Handlers, Elsewhere(h),
           h \in Executors => /\ hs[h].pc \notin RunPcs
                              /\ hs'[h].pc \notin RunPcs \union {"pausing", "pause"}
                              /\ hs'[h].op \in {hs[h].op, 0}
    PROVE  Unmoved
BY DEF Elsewhere, Unmoved, Handlers

(* A transition outside of the program.                                    *)
LEMMA TransitOutside ==
    ASSUME TypeOK, NEW h \in Handlers, NEW t \in TransitionTag, NEW p \in Pcs,
           Transit(h, t, p), ~Terminated,
           h \in Executors => /\ hs[h].pc \notin RunPcs
                              /\ p \notin RunPcs \union {"pausing", "pause"}
    PROVE  Outside
<1>1. /\ Elsewhere(h) /\ hs'[h].pc = p
      /\ wf' = [wf EXCEPT !.status = wf'.status, !.runningAt = wf'.runningAt]
      /\ UNCHANGED <<steps, alarm, up, now, budget, hist>>
  BY TransitMoves
<1>2. hs'[h].op \in {hs[h].op, 0}
  <2>1. CASE p = "idle"
    BY <2>1 DEF Transit, Return, IdleHandler, TypeOK
  <2>2. CASE p # "idle"
    BY <2>2, GotoDoes DEF Transit
  <2> QED
    BY <2>1, <2>2
<1>3. Unmoved
  BY <1>1, <1>2, MovesOutside
<1>4. SamePauses /\ SameIndex /\ SameTimes
  BY <1>1 DEF TypeOK, WorkflowKeys, SamePauses, SameIndex, SameTimes
<1> QED
  BY <1>1, <1>3, <1>4 DEF Outside, TypeOK

(* The end of an execution.                                                *)
LEMMA EndOutside ==
    ASSUME TypeOK, Coordination, NEW h \in Executors,
           \/ PauseAlarm(h) \/ Pause(h) \/ Finish(h)
           \/ CancelAlarm(h) \/ schedulePurge(h) \/ PurgeAlarm(h)
    PROVE  Outside
<1> USE DEF At, storage, env
<1>1. h \in Handlers
  BY DEF Handlers
<1>2. CASE PauseAlarm(h)
  <2>1. /\ Elsewhere(h) /\ hs[h].pc = "pausing" /\ hs'[h].pc = "pause"
        /\ hs'[h].op = hs[h].op /\ hs'[h].resumeAt = hs[h].resumeAt
    BY <1>1, <1>2, GotoDoes DEF PauseAlarm
  <2>2. Unmoved
    BY <2>1 DEF Elsewhere, Unmoved, RunPcs, Handlers
  <2> QED
    BY <1>2, <2>2 DEF PauseAlarm, Outside, SamePauses, SameIndex, SameTimes, TypeOK,
                      Terminated
<1>3. CASE Pause(h) \/ Finish(h)
  <2>1. hs[h].pc \in {"pause", "exit"} /\ wf.status = "Running"
    BY <1>3 DEF Pause, Finish, Coordination, EngagedOK, ExecutionPcs
  <2>2. Finish(h) => hs[h].exit \in TransitionTag
    BY <1>1 DEF Finish, Coordination, RegistersOK, TransitionTag
  <2> QED
    BY <1>1, <1>3, <2>1, <2>2, TransitOutside
       DEF Pause, Finish, TransitionTag, Pcs, RunPcs, Terminated
<1>4. CASE CancelAlarm(h) \/ schedulePurge(h) \/ PurgeAlarm(h)
  <2>1. /\ hs[h].pc \in CleanupPcs /\ hs'[h].pc \in {"idle", "purge", "purgeAlarm"}
        /\ Elsewhere(h)
    BY <1>1, <1>4, GotoDoes, ReturnDoes
       DEF CancelAlarm, schedulePurge, PurgeAlarm, CleanupPcs
  <2>2. hs'[h].op \in {hs[h].op, 0}
    BY <1>1, <1>4, GotoDoes
       DEF CancelAlarm, schedulePurge, PurgeAlarm, Return, IdleHandler, TypeOK
  <2>3. Unmoved
    BY <1>1, <2>1, <2>2, MovesOutside DEF RunPcs, CleanupPcs
  <2>4. /\ SamePauses /\ SameIndex /\ SameTimes
        /\ wf'.status = wf.status
    BY <1>4 DEF CancelAlarm, schedulePurge, PurgeAlarm, TypeOK, WorkflowKeys,
                SamePauses, SameIndex, SameTimes
  <2> QED
    BY <1>4, <2>3, <2>4 DEF CancelAlarm, schedulePurge, PurgeAlarm, Outside, TypeOK,
                            Terminated
<1> QED
  BY <1>2, <1>3, <1>4

(* The handlers of the client's requests.                                  *)
LEMMA RequestOutside ==
    ASSUME TypeOK, Coordination, RunHandler \/ CancelHandler \/ Client
    PROVE  Outside
<1> USE DEF At, storage, env, Handlers, Executors
<1>1. ASSUME NEW p \in {"start", "queue"}, Initialize(p)
      PROVE  Outside
  <2>1. /\ Elsewhere("run") /\ hs'["run"].pc = p /\ hs'["run"].op = hs["run"].op
        /\ hs["run"].pc = "idle"
    BY <1>1, GotoDoes DEF Initialize
  <2>2. Unmoved
    BY <2>1, MovesOutside DEF RunPcs
  <2>3. wf = EmptyStorage
    BY <1>1 DEF Initialize, Coordination, PurgeOK
  <2>4. SamePauses /\ SameIndex /\ ~Terminated
    BY <1>1, <2>3 DEF Initialize, EmptyStorage, SamePauses, SameIndex, Terminated,
                      NoWorkflow
  <2> QED
    BY <1>1, <2>2, <2>4 DEF Initialize, Outside, SameTimes, TypeOK
<1>2. CASE Start \/ Queue \/ CancelNow
  <2>1. ~Terminated
    BY <1>2 DEF Start, Queue, CancelNow, Coordination, RunOK, CancelOK, Terminated
  <2>2. /\ {"Start", "Queue", "Cancel"} \subseteq TransitionTag
        /\ {"begin", "queued", "cancelled"} \subseteq Pcs
    BY DEF TransitionTag, Pcs
  <2> QED
    BY <1>2, <2>1, <2>2, TransitOutside DEF Start, Queue, CancelNow, RunPcs
<1>3. CASE ScheduleQueued \/ CancelScheduled
  <2>1. /\ ScheduleQueued => Elsewhere("run") /\ hs'["run"].pc = "idle"
        /\ CancelScheduled => Elsewhere("cancel")
        /\ ScheduleQueued => hs["run"].pc = "queued" /\ hs'["run"].op = 0
    BY <1>3, ReturnDoes DEF ScheduleQueued, CancelScheduled, Return, IdleHandler, TypeOK
  <2>2. Unmoved
    BY <1>3, <2>1, MovesOutside DEF RunPcs
  <2> QED
    BY <1>3, <2>2 DEF ScheduleQueued, CancelScheduled, Outside, SamePauses, SameIndex,
                      SameTimes, TypeOK, Terminated
<1>4. CASE setCancelled
  <2>1. Unmoved
    BY <1>4, HandlersMove, MovesOutside
  <2>2. SamePauses /\ SameIndex /\ wf'.status = wf.status
    BY <1>4 DEF setCancelled, SamePauses, SameIndex, TypeOK, WorkflowKeys
  <2> QED
    BY <1>4, <2>1, <2>2 DEF setCancelled, Outside, SameTimes, TypeOK, Terminated
<1> QED
  BY <1>1, <1>2, <1>3, <1>4 DEF RunHandler, CancelHandler, Client, Run, RunAsync

(* The alarm handler outside the program, and the platform.                *)
LEMMA AlarmOutside ==
    ASSUME TypeOK, Coordination,
           \/ AlarmHandler /\ ~executePurge
           \/ Platform \/ Evict \/ Tick \/ UNCHANGED vars
    PROVE  Outside
<1> USE DEF At, storage, env, Handlers, Executors
<1>1. CASE StartQueued \/ Resume
  <2>1. ~Terminated /\ hs["alarm"].pc = "alarm"
    BY <1>1 DEF StartQueued, Resume, handleAlarm, Terminated
  <2>2. {"Start", "Resume"} \subseteq TransitionTag /\ "begin" \in Pcs
    BY DEF TransitionTag, Pcs
  <2> QED
    BY <1>1, <2>1, <2>2, TransitOutside DEF StartQueued, Resume, RunPcs
<1>2. CASE AlarmIgnored \/ RecoveryExhausted
  <2>1. /\ Elsewhere("alarm") /\ hs'["alarm"].pc = "idle" /\ hs'["alarm"].op = 0
        /\ hs["alarm"].pc = "alarm"
    BY <1>2, ReturnDoes DEF AlarmIgnored, RecoveryExhausted, handleAlarm, Return,
                            IdleHandler, TypeOK
  <2>2. Unmoved
    BY <2>1, MovesOutside DEF RunPcs
  <2>3. SamePauses /\ SameIndex
    BY <1>2 DEF AlarmIgnored, RecoveryExhausted, WithStatus, SamePauses, SameIndex,
                TypeOK, WorkflowKeys
  <2>4. Terminated => Terminated'
    BY <1>2 DEF AlarmIgnored, RecoveryExhausted, handleAlarm, Terminated
  <2> QED
    BY <1>2, <2>2, <2>3, <2>4
       DEF AlarmIgnored, RecoveryExhausted, Outside, SameTimes, TypeOK
<1>3. CASE incrementRecoveryAttempts \/ Recover \/ resetRecoveryAttempts
  <2>1. /\ Elsewhere("alarm") /\ hs'["alarm"].op = hs["alarm"].op
        /\ hs["alarm"].pc \in {"alarm", "recover", "recovered"}
        /\ hs'["alarm"].pc \in {"recover", "recovered", "begin"}
    BY <1>3, GotoDoes DEF incrementRecoveryAttempts, Recover, resetRecoveryAttempts,
                          handleAlarm
  <2>2. Unmoved
    BY <2>1, MovesOutside DEF RunPcs
  <2>3. SamePauses /\ SameIndex
    BY <1>3 DEF incrementRecoveryAttempts, Recover, resetRecoveryAttempts, WithStatus,
                SamePauses, SameIndex, TypeOK, WorkflowKeys
  <2>4. ~Terminated
    BY <1>3, <2>1 DEF incrementRecoveryAttempts, Recover, resetRecoveryAttempts,
                handleAlarm, Coordination, EngagedOK, Terminated
  <2>5. SameTimes
    BY <1>3 DEF incrementRecoveryAttempts, Recover, resetRecoveryAttempts, SameTimes,
                TypeOK, History
  <2> QED
    BY <1>3, <2>2, <2>3, <2>4, <2>5
       DEF incrementRecoveryAttempts, Recover, resetRecoveryAttempts, Outside, TypeOK
<1>4. CASE Platform
  <2>1. Unmoved
    <3>1. CASE hs' = hs
      BY <3>1 DEF Unmoved
    <3>2. CASE hs' # hs
      <4>1. /\ Elsewhere("alarm") /\ hs["alarm"].pc = "idle"
            /\ hs'["alarm"].pc = "alarm" /\ hs'["alarm"].op = hs["alarm"].op
        BY <1>4, <3>2, GotoDoes
           DEF Platform, Construct, DeliverAlarm, WakeByAlarm, Coordination,
               PositionsOK, AllIdle
      <4> QED
        BY <4>1, MovesOutside DEF RunPcs
    <3> QED
      BY <3>1, <3>2
  <2> QED
    BY <1>4, <2>1 DEF Platform, Construct, DeliverAlarm, WakeByAlarm, Outside,
                      SamePauses, SameIndex, SameTimes, TypeOK, Terminated
<1>5. CASE Evict \/ Tick \/ UNCHANGED vars
  BY <1>5 DEF Evict, Tick, vars, Outside, Unmoved, SamePauses, SameIndex, SameTimes,
              TypeOK, Terminated
<1> QED
  BY <1>1, <1>2, <1>3, <1>4, <1>5 DEF AlarmHandler

-----------------------------------------------------------------------------
(* What is suspended stays so until its time has come. *)

(* No constructor is going to move the alarm of a workflow that waits.     *)
Firmly == ~up /\ wf.status = "Paused" => ~RecoveryScheduled

Stays ==
    \A t \in Int : SuspendedUntil(t) => \/ SuspendedUntil(t)'
                                        \/ t <= now'
                                        \/ Terminated'

(* Only a workflow that runs or pauses is suspended, and not while the     *)
(* alarm handler is at work on it.                                         *)
LEMMA SuspendedIs ==
    ASSUME TypeOK, Coordination, NEW t \in Int, SuspendedUntil(t)
    PROVE  /\ wf.status \in {"Running", "Paused"}
           /\ hs["alarm"].pc \in {"idle", "pausing", "pause"}
           /\ wf.status = "Paused" => alarm >= t /\ hs["alarm"].pc = "idle"
           /\ wf.status = "Running" =>
                 \E o \in Executors :
                     /\ hs[o].pc \in {"pausing", "pause"}
                     /\ hs[o].resumeAt >= t
                     /\ hs[o].pc = "pause" => alarm >= t
                     /\ \A p \in Executors \ {o} :
                           hs[p].pc \notin ExecutionPcs \union CleanupPcs
<1>1. ASSUME NEW o \in Executors, hs[o].pc \in {"pausing", "pause"}
      PROVE  /\ wf.status = "Running"
             /\ \A p \in Executors \ {o} :
                   hs[p].pc \notin ExecutionPcs \union CleanupPcs
             /\ o = "run" => hs["alarm"].pc = "idle"
  BY <1>1 DEF Coordination, EngagedOK, Engaged, ExecutionPcs, Executors, RunOK
<1>2. CASE wf.status = "Paused" /\ alarm >= t /\ hs["alarm"].pc = "idle"
  BY <1>2
<1>3. ASSUME NEW o \in Executors, hs[o].pc \in {"pausing", "pause"},
             hs[o].resumeAt >= t, hs[o].pc = "pause" => alarm >= t
      PROVE  /\ wf.status = "Running" /\ wf.status # "Paused"
             /\ hs["alarm"].pc \in {"idle", "pausing", "pause"}
             /\ \A p \in Executors \ {o} :
                           hs[p].pc \notin ExecutionPcs \union CleanupPcs
  BY <1>1, <1>3 DEF Executors
<1> QED
  BY <1>2, <1>3 DEF SuspendedUntil

(* A pause sets the alarm, then the status (executor.ts handleExit).       *)
LEMMA EndStays ==
    ASSUME TypeOK, Coordination, NEW h \in Executors,
           \/ PauseAlarm(h) \/ Pause(h) \/ Finish(h)
           \/ CancelAlarm(h) \/ schedulePurge(h) \/ PurgeAlarm(h)
    PROVE  Stays
<1> USE DEF At, storage, env, Handlers
<1> SUFFICES ASSUME NEW t \in Int, SuspendedUntil(t)
             PROVE  SuspendedUntil(t)' \/ Terminated'
  BY DEF Stays
<1>1. CASE PauseAlarm(h)
  <2>1. /\ hs[h].pc = "pausing" /\ hs'[h].pc = "pause" /\ alarm' = hs[h].resumeAt
        /\ hs'[h].resumeAt = hs[h].resumeAt /\ wf.status = "Running"
    BY <1>1, GotoDoes DEF PauseAlarm, Coordination, EngagedOK, ExecutionPcs
  <2>2. hs[h].resumeAt >= t
    BY <2>1, SuspendedIs DEF ExecutionPcs
  <2> QED
    BY <2>1, <2>2 DEF SuspendedUntil
<1>2. CASE Pause(h)
  <2>1. /\ hs[h].pc = "pause" /\ wf.status = "Running"
        /\ hs'[h].pc = "idle" /\ Elsewhere(h)
        /\ wf'.status = "Paused" /\ alarm' = alarm
    BY <1>2, TransitMoves DEF Pause, Coordination, EngagedOK, ExecutionPcs, Pcs,
                              TransitionTag, applyTransitionToStatus
  <2>2. alarm >= t
    BY <2>1, SuspendedIs DEF ExecutionPcs
  <2>3. hs'["alarm"].pc = "idle"
    <3>1. CASE h = "alarm"
      BY <2>1, <3>1
    <3>2. CASE h = "run"
      BY <2>1, <3>2 DEF Coordination, RunOK, ExecutionPcs, Elsewhere, Executors
    <3> QED
      BY <3>1, <3>2 DEF Executors
  <2> QED
    BY <2>1, <2>2, <2>3 DEF SuspendedUntil
<1>3. CASE Finish(h)
  <2>1. hs[h].pc = "exit" /\ wf.status = "Running" /\ wf.status # "Paused"
    BY <1>3 DEF Finish, Coordination, EngagedOK, ExecutionPcs
  <2> QED
    BY <2>1, SuspendedIs DEF ExecutionPcs
<1>4. CASE CancelAlarm(h) \/ schedulePurge(h) \/ PurgeAlarm(h)
  <2>1. Terminated
    BY <1>4 DEF CancelAlarm, schedulePurge, PurgeAlarm, Coordination, EngagedOK,
                CleanupPcs
  <2> QED
    BY <2>1, SuspendedIs DEF Terminated
<1> QED
  BY <1>1, <1>2, <1>3, <1>4

(* Requests leave it alone, but for a cancellation.                        *)
LEMMA RequestStays ==
    ASSUME TypeOK, Coordination, RunHandler \/ CancelHandler \/ Client
    PROVE  Stays
<1> USE DEF At, storage, env, Handlers, Executors
<1> SUFFICES ASSUME NEW t \in Int, SuspendedUntil(t)
             PROVE  SuspendedUntil(t)' \/ Terminated'
  BY DEF Stays
<1>1. CASE Run \/ RunAsync \/ Start \/ Queue \/ ScheduleQueued \/ CancelScheduled
  <2>1. wf.status \notin {"Running", "Paused"}
    BY <1>1 DEF Run, RunAsync, Initialize, Start, Queue, ScheduleQueued,
                CancelScheduled, Coordination, RunOK, CancelOK, NoWorkflow
  <2> QED
    BY <2>1, SuspendedIs
<1>2. CASE CancelNow
  <2>1. wf'.status = "Cancelled"
    BY <1>2, TransitMoves DEF CancelNow, Pcs, TransitionTag, applyTransitionToStatus
  <2> QED
    BY <2>1 DEF Terminated
<1>3. CASE setCancelled
  <2>1. Elsewhere("cancel") /\ wf'.status = wf.status /\ alarm' = alarm
    BY <1>3, HandlersMove DEF setCancelled, TypeOK, WorkflowKeys
  <2>2. \A o \in Executors : hs'[o] = hs[o]
    BY <2>1 DEF Elsewhere
  <2> QED
    BY <2>1, <2>2 DEF SuspendedUntil
<1> QED
  BY <1>1, <1>2, <1>3 DEF RunHandler, CancelHandler, Client

(* The alarm handler and the platform come when the time has come, and a   *)
(* constructor does not move the alarm.                                    *)
LEMMA AlarmStays ==
    ASSUME TypeOK, Coordination, Firmly,
           AlarmHandler \/ Platform \/ Evict \/ Tick \/ UNCHANGED vars
    PROVE  Stays
<1> USE DEF At, storage, env, Handlers, Executors
<1> SUFFICES ASSUME NEW t \in Int, SuspendedUntil(t)
             PROVE  SuspendedUntil(t)' \/ t <= now'
  BY DEF Stays
<1>1. CASE AlarmHandler
  <2>1. hs["alarm"].pc \in {"alarm", "recover", "recovered"}
    BY <1>1 DEF AlarmHandler, executePurge, StartQueued, Resume, AlarmIgnored,
                incrementRecoveryAttempts, Recover, resetRecoveryAttempts,
                RecoveryExhausted, handleAlarm
  <2> QED
    BY <2>1, SuspendedIs
<1>2. CASE Construct \/ WakeByAlarm
  <2>1. ~up /\ AllIdle /\ now' = now
    BY <1>2 DEF Construct, WakeByAlarm, Coordination, PositionsOK
  <2>2. wf.status = "Paused" /\ alarm >= t
    BY <2>1, SuspendedIs DEF AllIdle
  <2>3. CASE Construct
    <3>1. alarm' = alarm
      BY <2>1, <2>2, <2>3 DEF Construct, Firmly
    <3> QED
      BY <2>1, <2>2, <2>3, <3>1 DEF Construct, SuspendedUntil, AllIdle
  <2>4. CASE WakeByAlarm
    BY <2>1, <2>2, <2>4, Numbers DEF WakeByAlarm, AlarmDue
  <2> QED
    BY <1>2, <2>3, <2>4
<1>3. CASE DeliverAlarm
  <2>1. /\ hs["alarm"].pc = "idle" /\ alarm # NoTime /\ alarm <= now /\ now' = now
    BY <1>3 DEF DeliverAlarm, AlarmDue
  <2>2. alarm >= t
    <3>1. hs["run"].pc # "pausing"
      BY <2>1 DEF Coordination, RunOK, ExecutionPcs
    <3>2. \A o \in Executors : hs[o].pc # "pausing"
      BY <2>1, <3>1
    <3> QED
      BY <3>2, SuspendedIs
  <2> QED
    BY <2>1, <2>2, Numbers
<1>4. CASE Evict \/ Tick \/ UNCHANGED vars
  BY <1>4 DEF Evict, Tick, vars, SuspendedUntil
<1> QED
  BY <1>1, <1>2, <1>3, <1>4 DEF Platform

-----------------------------------------------------------------------------
(* The invariants are inductive. *)

(* A step that moves no replay and keeps what is suspended so.             *)
LEMMA OutsideKeeps ==
    ASSUME TypeOK, TypeOK', Outside, budget.crashes = 0,
           PausesOK, PendingOK, RetriesOK, SleepsOK,
           Firmly => Stays,
           Undisturbed' => Firmly'
    PROVE  PausesOK' /\ PendingOK' /\ RetriesOK' /\ SleepsOK'
<1>1. /\ \A i : Completed(i)' <=> Completed(i)
      /\ hist'.begun = hist.begun /\ hist'.due = hist.due /\ now <= now'
      /\ wf'.pendingResumeAt = wf.pendingResumeAt
      /\ wf'.completedPauseIndex = wf.completedPauseIndex
      /\ wf'.currentPauseIndex = wf.currentPauseIndex
      /\ steps' = steps /\ now' \in Nat
      /\ Terminated => Terminated'
  BY DEF Outside, SamePauses, SameIndex, SameTimes, Completed, TypeOK
<1>2. \A o \in Executors :
          /\ hs'[o].pc \in RunPcs => hs'[o] = hs[o]
          /\ hs[o].pc \in RunPcs => hs'[o] = hs[o]
  BY DEF Outside, Unmoved
<1>3. PausesOK'
  <2>1. \A h \in Executors :
             /\ hs'[h].pc \in {"next", "effect", "mark"} =>
                   wf'.currentPauseIndex = PausesBefore(hs'[h].op)
             /\ hs'[h].pc = "slept" =>
                   /\ hs'[h].op \in Pauses
                   /\ wf'.currentPauseIndex = PausesBefore(hs'[h].op) + 1
                   /\ wf'.completedPauseIndex = wf'.currentPauseIndex
             /\ \A i \in Sleeps : Passed(h, i)' => Completed(i)'
    BY <1>1, <1>2 DEF PausesOK, Passed, RunPcs
  <2>2. \A i \in Sleeps : hist.begun[i] \in Int /\ Program[i].ms \in Nat
    BY PausesAreOps, Numbers
  <2>3. \A i \in Sleeps :
             /\ hist'.begun[i] <= now'
             /\ Completed(i)' => hist'.begun[i] # NoTime
                                   /\ now' >= hist'.begun[i] + Program[i].ms
             /\ hist'.begun[i] # NoTime =>
                   \A j \in Sleeps : j < i => Completed(j)'
    BY <1>1, <2>2, Numbers DEF PausesOK
  <2> QED
    BY <2>1, <2>3 DEF PausesOK
<1>4. PendingOK'
  <2> SUFFICES ASSUME wf.pendingResumeAt # NoTime,
                      \A h \in Executors : hs'[h].pc # "slept"
               PROVE  (\E j \in Pauses : PendingAt(j))'
    BY <1>1 DEF PendingOK
  <2>1. PICK j \in Pauses : PendingAt(j)
    BY <1>2 DEF PendingOK, RunPcs
  <2>2. DoneBefore(j)'
    BY <1>1, <2>1 DEF PendingAt, DoneBefore
  <2>3. PendingAt(j)'
    BY <1>1, <1>2, <2>1, <2>2 DEF PendingAt, RunPcs
  <2> QED
    BY <2>3
<1>5. RetriesOK'
  <2>1. \A h \in Executors : hs'[h].pc = "effect" => hs'[h] = hs[h]
    BY <1>2 DEF RunPcs
  <2>2. ASSUME NEW i \in Steps
        PROVE  \/ hist'.due[i] <= now'
               \/ Terminated'
               \/ wf'.pendingResumeAt = NoTime /\ SuspendedUntil(hist.due[i])'
    <3>1. hist.due[i] \in Int /\ now \in Nat
      BY StepsAreOps, Numbers
    <3>2. CASE hist.due[i] <= now \/ Terminated
      BY <1>1, <3>1, <3>2
    <3>3. CASE wf.pendingResumeAt = NoTime /\ SuspendedUntil(hist.due[i])
      <4>1. Firmly
        BY <3>3 DEF Firmly, RecoveryScheduled, checkRecoverability
      <4>2. \/ SuspendedUntil(hist.due[i])' \/ Terminated' \/ hist.due[i] <= now'
        <5> DEFINE d == hist.due[i]
        <5>1. ASSUME NEW t \in Int, SuspendedUntil(t)
              PROVE  SuspendedUntil(t)' \/ t <= now' \/ Terminated'
          BY <4>1, <5>1 DEF Stays
        <5> QED
          BY <1>1, <3>1, <3>3, <5>1 DEF SuspendedUntil
      <4> QED
        BY <1>1, <3>3, <4>2
    <3> QED
      BY <3>2, <3>3 DEF RetriesOK
  <2> QED
    BY <1>1, <2>1, <2>2 DEF RetriesOK
<1>6. SleepsOK'
  <2> SUFFICES ASSUME Undisturbed'
               PROVE  SleepsOK'
    BY DEF SleepsOK
  <2>1. Undisturbed /\ Firmly
    BY DEF Undisturbed, Outside, SleepsOK, Firmly
  <2>2. ASSUME NEW i \in Sleeps, Firm(i), hist'.begun[i] # NoTime, ~Completed(i)',
               ~Terminated'
        PROVE  /\ wf'.pendingResumeAt = hist'.begun[i] + Program[i].ms
               /\ now' >= wf'.pendingResumeAt \/ SuspendedUntil(wf.pendingResumeAt)'
               /\ \A h \in Executors : hs'[h].pc # "slept"
    <3>1. /\ wf.pendingResumeAt = hist.begun[i] + Program[i].ms
          /\ now >= wf.pendingResumeAt \/ SuspendedUntil(wf.pendingResumeAt)
          /\ \A h \in Executors : hs[h].pc # "slept"
      BY <1>1, <2>1, <2>2 DEF SleepsOK
    <3>2. \A h \in Executors : hs'[h].pc # "slept"
      BY <1>2, <3>1 DEF RunPcs
    <3>3. wf.pendingResumeAt \in Int /\ now \in Nat
      BY Numbers
    <3>4. now' >= wf'.pendingResumeAt \/ SuspendedUntil(wf.pendingResumeAt)'
      <4>1. CASE now >= wf.pendingResumeAt
        BY <1>1, <3>3, <4>1
      <4>2. CASE SuspendedUntil(wf.pendingResumeAt)
        <5>1. ASSUME NEW t \in Int, SuspendedUntil(t)
              PROVE  SuspendedUntil(t)' \/ t <= now'
          BY <2>1, <2>2, <5>1 DEF Stays
        <5> QED
          BY <1>1, <3>3, <4>2, <5>1 DEF SuspendedUntil
      <4> QED
        BY <3>1, <4>1, <4>2
    <3> QED
      BY <1>1, <3>1, <3>2, <3>4
  <2>3. ~up' /\ wf'.status = "Paused" => ~RecoveryScheduled'
    BY DEF Firmly
  <2> QED
    BY <2>2, <2>3 DEF SleepsOK, Firm
<1> QED
  BY <1>3, <1>4, <1>5, <1>6

(* An eviction leaves no workflow behind whose alarm a constructor moves,  *)
(* or it counts.                                                           *)
LEMMA FirmlyStays ==
    ASSUME TypeOK, Coordination, Firmly, ~Crash, [Next]_vars,
           budget.evictions = 0, budget'.evictions = 0
    PROVE  Firmly'
<1> USE DEF At, Turn, storage, env
<1>1. CASE Client \/ RunHandler \/ AlarmHandler \/ CancelHandler
  <2>1. up /\ UNCHANGED up
    BY <1>1 DEF Client, Run, RunAsync, Initialize, setCancelled, RunHandler, Start,
         Queue, ScheduleQueued, AlarmHandler, executePurge, StartQueued, Resume,
         AlarmIgnored, incrementRecoveryAttempts, Recover, resetRecoveryAttempts,
         RecoveryExhausted, handleAlarm, CancelHandler, CancelNow, CancelScheduled,
         Transit
  <2> QED
    BY <2>1 DEF Firmly
<1>2. ASSUME NEW h \in Executors, Execution(h)
      PROVE  Firmly'
  <2>1. up'
    <3>1. CASE InsideAction(h)
      BY <3>1, InsideStep DEF Inside
    <3>2. CASE ~InsideAction(h)
      BY <1>2, <3>2 DEF Execution, InsideAction, PauseAlarm, Pause, Finish,
                        CancelAlarm, schedulePurge, PurgeAlarm, Transit
    <3> QED
      BY <3>1, <3>2
  <2> QED
    BY <2>1 DEF Firmly
<1>3. CASE Platform
  BY <1>3 DEF Platform, Construct, DeliverAlarm, WakeByAlarm, Firmly
<1>4. CASE Evict
  <2>1. wf' = wf /\ now' = now /\ AllIdle /\ (RecoveryScheduled' <=> RecoveryScheduled)
    BY <1>4 DEF Evict, RecoveryScheduled, checkRecoverability, maxExceeded
  <2>2. ~(RecoveryScheduled /\ alarm # NoTime)
    BY <1>4 DEF Evict, TypeOK
  <2>3. wf.status = "Paused" => alarm # NoTime
    BY <2>1 DEF Coordination, PausedHasAlarm, AllIdle, Handlers, Executors
  <2> QED
    BY <2>1, <2>2, <2>3 DEF Firmly
<1>5. CASE Tick \/ UNCHANGED vars
  <2>1. wf' = wf /\ up' = up
    BY <1>5 DEF Tick, vars
  <2>2. wf.status = "Paused" => (RecoveryScheduled' <=> RecoveryScheduled)
    BY <2>1 DEF RecoveryScheduled, checkRecoverability, maxExceeded
  <2> QED
    BY <2>1, <2>2 DEF Firmly
<1> QED
  BY <1>1, <1>2, <1>3, <1>4, <1>5 DEF Next

(* After a purge there is nothing to wait for.                             *)
LEMMA PurgePauses ==
    ASSUME TypeOK, TypeOK', Coordination', executePurge
    PROVE  PausesOK' /\ PendingOK' /\ RetriesOK' /\ SleepsOK'
<1>1. /\ wf' = EmptyStorage /\ wf'.status = NoWorkflow
      /\ wf'.completedPauseIndex = 0 /\ wf'.pendingResumeAt = NoTime
      /\ \A i \in Ops : hist'.begun[i] = NoTime /\ hist'.due[i] = NoTime
  BY DEF executePurge, EmptyStorage, NoHistory
<1>2. \A h \in Executors : hs'[h].pc = "idle"
  BY <1>1 DEF Coordination, PurgeOK, AllIdle, Handlers
<1>3. now' \in Nat /\ NoTime <= now'
  BY DEF TypeOK, NoTime
<1>4. \A i \in Sleeps : ~Completed(i)'
  BY <1>1, Numbers DEF Completed
<1>5. PausesOK'
  BY <1>1, <1>2, <1>3, <1>4, PausesAreOps DEF PausesOK, Passed
<1>6. RetriesOK'
  BY <1>1, <1>2, <1>3, StepsAreOps DEF RetriesOK
<1>7. SleepsOK' /\ PendingOK'
  BY <1>1, PausesAreOps DEF SleepsOK, PendingOK, NoWorkflow
<1> QED
  BY <1>5, <1>6, <1>7

WInv == RInv /\ PausesOK /\ PendingOK /\ RetriesOK /\ SleepsOK

(* At first nothing was begun, and nothing is waited for.                  *)
LEMMA InitPauses == Init => PausesOK /\ PendingOK /\ RetriesOK /\ SleepsOK
<1> SUFFICES ASSUME Init PROVE PausesOK /\ PendingOK /\ RetriesOK /\ SleepsOK
  OBVIOUS
<1>1. /\ wf.completedPauseIndex = 0 /\ wf.pendingResumeAt = NoTime
      /\ wf.status = NoWorkflow /\ now = 1 /\ NoTime <= now
      /\ \A i \in Ops : hist.begun[i] = NoTime /\ hist.due[i] = NoTime
      /\ \A h \in Executors : hs[h].pc = "idle"
  BY DEF Init, EmptyStorage, NoHistory, IdleHandler, NoTime, Handlers
<1>2. \A i \in Sleeps : ~Completed(i)
  BY <1>1, Numbers, InitIInv DEF IInv, Completed
<1>3. PausesOK
  BY <1>1, <1>2, PausesAreOps DEF PausesOK, Passed
<1>4. RetriesOK
  BY <1>1, StepsAreOps DEF RetriesOK
<1>5. SleepsOK /\ PendingOK
  BY <1>1, PausesAreOps DEF SleepsOK, PendingOK, NoWorkflow
<1> QED
  BY <1>3, <1>4, <1>5

(* A step moves a replay, or it is outside of one.                         *)
LEMMA InsideOrOutside ==
    ASSUME IInv, ReplayOK, [Next]_vars, ~Crash, ~executePurge
    PROVE  \/ Outside
           \/ \E h \in Executors : InsideAction(h)
<1> USE DEF IInv
<1>1. ASSUME NEW h \in Executors, Execution(h), ~InsideAction(h)
      PROVE  Outside
  BY <1>1, EndOutside DEF Execution, InsideAction
<1> QED
  BY <1>1, RequestOutside, AlarmOutside DEF Next, Client

(* What is suspended stays so through every step outside of a replay.      *)
LEMMA StaysOutside ==
    ASSUME IInv, [Next]_vars, ~Crash, Firmly,
           \A h \in Executors : ~InsideAction(h)
    PROVE  Stays
<1> USE DEF IInv
<1>1. ASSUME NEW h \in Executors, Execution(h)
      PROVE  Stays
  BY <1>1, EndStays DEF Execution, InsideAction
<1> QED
  BY <1>1, RequestStays, AlarmStays DEF Next

LEMMA NextPauses ==
    RInv' /\ WInv /\ [Next]_vars => PausesOK' /\ PendingOK' /\ RetriesOK' /\ SleepsOK'
<1> SUFFICES ASSUME RInv', WInv, [Next]_vars
             PROVE  PausesOK' /\ PendingOK' /\ RetriesOK' /\ SleepsOK'
  OBVIOUS
<1> USE DEF RInv, IInv
<1>1. CASE budget'.crashes # 0
  BY <1>1 DEF WInv, PausesOK, PendingOK, RetriesOK, SleepsOK, Undisturbed
<1>2. CASE executePurge
  BY <1>2, PurgePauses DEF WInv
<1>3. CASE budget'.crashes = 0 /\ ~executePurge
  <2>1. ~Crash /\ budget.crashes = 0
    BY <1>3, CrashesCount DEF WInv
  <2>2. ASSUME NEW h \in Executors, InsideAction(h)
        PROVE  PausesOK' /\ PendingOK' /\ RetriesOK' /\ SleepsOK'
    BY <2>2, InsideKinds, KindsPauses, KindsPending, KindsRetries, KindsSleeps
       DEF WInv, Coordination
  <2>3. CASE \A h \in Executors : ~InsideAction(h)
    <3>1. Outside
      BY <1>3, <2>1, <2>3, InsideOrOutside DEF WInv
    <3>2. Firmly => Stays
      BY <2>1, <2>3, StaysOutside DEF WInv
    <3>3. Undisturbed' => Firmly'
      <4> SUFFICES ASSUME Undisturbed' PROVE Firmly'
        OBVIOUS
      <4>1. Undisturbed
        BY <2>1, <3>1 DEF Undisturbed, Outside
      <4>2. Firmly
        BY <4>1 DEF WInv, SleepsOK, Firmly
      <4> QED
        BY <2>1, <4>1, <4>2, FirmlyStays DEF WInv, Undisturbed
    <3> QED
      BY <2>1, <3>1, <3>2, <3>3, OutsideKeeps DEF WInv
  <2> QED
    BY <2>2, <2>3
<1> QED
  BY <1>1, <1>2, <1>3

LEMMA PausesInductive == (Init => WInv) /\ (WInv /\ [Next]_vars => WInv')
BY ReplayInductive, InitPauses, NextPauses DEF WInv

-----------------------------------------------------------------------------
(* What follows. *)

(* A failed step is not attempted again before its delay has elapsed,      *)
(* whoever moves the alarm (step.ts phase 8, state/machine.ts              *)
(* checkRecoverability).                                                   *)
THEOREM RetriesWait == Spec => []RetriesKeepTheirDelay
<1>1. WInv => RetriesKeepTheirDelay
  BY DEF WInv, RetriesOK, RetriesKeepTheirDelay
<1> QED
  BY <1>1, PausesInductive, PTL DEF Spec

(* A replay passes a sleep only after its full duration (sleep.ts).        *)
THEOREM SleepsTakeTheirTime == Spec => SleepsLast
<1>1. ASSUME WInv, [Next]_vars, NEW h \in Executors, NEW i \in Sleeps,
             budget.crashes = 0, hs[h].op = i, hs'[h].op = i + 1
      PROVE  hist.begun[i] # NoTime /\ now >= hist.begun[i] + Program[i].ms
  <2> USE DEF WInv, RInv, IInv
  <2>0. i \in Ops /\ i \in Nat /\ 1 <= i /\ i \notin Steps /\ i + 1 # i /\ i + 1 # 0
    <3>1. i \in Ops /\ i \in Nat /\ 1 <= i /\ i \notin Steps
      BY PausesAreOps
    <3> QED
      BY <3>1
  <2>1. PICK x \in Executors : InsideAction(x)
    <3>1. ~Crash
      BY <1>1, <2>0 DEF Crash, IdleHandler, Handlers
    <3>2. ~executePurge
      <4> SUFFICES ASSUME executePurge PROVE FALSE
        OBVIOUS
      <4>1. hs' = [hs EXCEPT !["alarm"] = IdleHandler]
        BY DEF executePurge, Return
      <4> QED
        BY <1>1, <2>0, <4>1 DEF IdleHandler, TypeOK, Handlers
    <3>3. ~Outside
      BY <1>1, <2>0 DEF Outside, Unmoved
    <3> QED
      BY <1>1, <3>1, <3>2, <3>3, InsideOrOutside
  <2>2. Kind(x) /\ Alone(x)
    BY <1>1, <2>1, InsideKinds
  <2>3. x = h
    BY <1>1, <2>0, <2>2 DEF Alone
  <2>4. Skips(h) \/ Forgets(h)
    <3>1. ~Enters(h)
      BY <1>1, <2>0 DEF Enters
    <3>2. ~Leaves(h)
      BY <1>1, <2>0 DEF Leaves
    <3> QED
      BY <1>1, <2>0, <2>2, <2>3, <3>1, <3>2
         DEF Kind, Passes, Tries, Succeeds, Retries, Completes, FallsAsleep,
             FallsAsleepUntil, Overslept, Sleeps
  <2>5. Completed(i)
    <3>1. CASE Skips(h)
      BY <1>1, <3>1 DEF Skips, PausesOK, Completed
    <3>2. CASE Forgets(h)
      BY <1>1, <3>2, Numbers DEF Forgets, PausesOK, Completed
    <3> QED
      BY <2>4, <3>1, <3>2
  <2> QED
    BY <1>1, <2>5 DEF PausesOK
<1>2. WInv /\ [Next]_vars =>
        [\A h \in Executors, i \in Sleeps :
            budget.crashes = 0 /\ hs[h].op = i /\ hs'[h].op = i + 1 =>
               /\ hist.begun[i] # NoTime
               /\ now >= hist.begun[i] + Program[i].ms]_vars
  BY <1>1
<1> QED
  BY <1>2, PausesInductive, PTL DEF Spec, SleepsLast

(* A sleep that no crash and no eviction disturbs is begun once, in a      *)
(* replay that is at the pause point (sleep.ts).                           *)
THEOREM SleepsBeginOnce == Spec => []SleepsAreNotRestarted
<1>1. Init => SleepsAreNotRestarted
  BY DEF Init, IdleHandler, SleepsAreNotRestarted, Handlers
<1>2. WInv /\ SleepsAreNotRestarted /\ [Next]_vars => SleepsAreNotRestarted'
  <2> SUFFICES ASSUME WInv, SleepsAreNotRestarted, [Next]_vars, Undisturbed',
                      NEW h \in Executors, NEW i \in Sleeps, Firm(i),
                      hs'[h].pc \in {"pausing", "pause"}, hs'[h].op = i
               PROVE  hs'[h].resumeAt = hist'.begun[i] + Program[i].ms
    BY DEF SleepsAreNotRestarted, Firm
  <2> USE DEF WInv, RInv, IInv
  <2>1. ~Crash /\ budget.crashes = 0
    BY CrashesCount DEF Undisturbed
  <2>2. ~executePurge
    <3> SUFFICES ASSUME executePurge PROVE FALSE
      OBVIOUS
    <3>1. wf'.status = NoWorkflow
      BY DEF executePurge, EmptyStorage
    <3>2. AllIdle'
      BY <3>1, NextIInv DEF Coordination, PurgeOK
    <3> QED
      BY <3>2 DEF AllIdle, Handlers
  <2>3. CASE Outside
    BY <2>1, <2>3 DEF Outside, Unmoved, SameTimes, Undisturbed, SleepsAreNotRestarted
  <2>4. ASSUME NEW x \in Executors, InsideAction(x)
        PROVE  hs'[h].resumeAt = hist'.begun[i] + Program[i].ms
    <3>1. Kind(x) /\ Alone(x) /\ Still
      BY <2>4, InsideKinds
    <3>2. x = h
      BY <3>1 DEF Alone, ExecutionPcs
    <3>3. Undisturbed
      BY <3>1 DEF Still, Undisturbed
    <3>4. i \notin Steps /\ Program[i].kind # "sleepUntil"
      BY PausesAreOps DEF Sleeps
    <3>5. FallsAsleep(h)
      <4>1. ~Retries(h) /\ ~FallsAsleepUntil(h)
        BY <3>4 DEF Retries, FallsAsleepUntil
      <4>2. hs'[h].pc \notin {"exit", "next", "effect", "mark", "slept"}
        OBVIOUS
      <4>3. ~Leaves(h) /\ ~Enters(h)
        BY <4>2 DEF Leaves, Enters
      <4> QED
        BY <3>1, <3>2, <4>1, <4>2, <4>3 DEF Kind, Passes, Tries, Succeeds, Skips,
           Completes, Forgets, Overslept
    <3>6. hist'.begun[i] = now /\ hs'[h].resumeAt = now + Program[i].ms
      BY <3>1, <3>2, <3>3, <3>5, BeginsSleep DEF FallsAsleep
    <3> QED
      BY <3>6
  <2> QED
    BY <2>1, <2>2, <2>3, <2>4, InsideOrOutside
<1> QED
  BY <1>1, <1>2, PausesInductive, PTL DEF Spec

=============================================================================
