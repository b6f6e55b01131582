----------------------------- MODULE JobEngine -----------------------------
(***************************************************************************)
(* The jobs engine: the Durable Object's two entry points and the          *)
(* dispatcher behind them (packages/jobs/src/engine, runtime), composing   *)
(* the handlers of the three kinds of job.  A request names its type; an   *)
(* alarm is dispatched on the type in the metadata.                        *)
(***************************************************************************)
EXTENDS ContinuousJob, DebounceJob, TaskJob

(* An alarm that finds no metadata does nothing. *)
AlarmForNothing ==
    /\ Fire /\ store.meta = Absent
    /\ UNCHANGED <<hs, hist>>

(* There is no handler of worker pools: their requests fail. *)
handleWorkerPool(h, action) ==
    /\ Receive(h)
    /\ Begin(h, [Idle EXCEPT !.op = action, !.pc = "fail"])
    /\ UNCHANGED hist

(* A request is dispatched on its type. *)
handle(h, request) ==
    CASE request.type = "continuous" -> handleContinuous(h, request.action)
      [] request.type = "debounce"   -> handleDebounce(h, request.action)
      [] request.type = "task"       -> handleTask(h, request.action)
      [] request.type = "workerPool" -> handleWorkerPool(h, request.action)

(* What only reads is answered in one go, see read: no step of its own.    *)
call(h) == \E request \in createJobsClient(def.type) : handle(h, request)

(* The answer of a request that is about to return. *)
response(h) ==
    CASE Continuous -> continuousResponse(h)
      [] Debounce   -> debounceResponse(h)
      [] Task       -> taskResponse(h)

(* The answer that status or getState would get now. *)
read(action) ==
    CASE Continuous -> continuousRead(action)
      [] Debounce   -> debounceRead(action)
      [] Task       -> taskRead(action)

handleAlarm == ContinuousAlarm \/ DebounceAlarm \/ TaskAlarm \/ AlarmForNothing

Step(h) ==
    \/ Perform(h) \/ Return(h) \/ Fail(h) \/ Execution(h)
    \/ ContinuousStep(h) \/ DebounceStep(h) \/ TaskStep(h)

Failure == Crash \/ \E h \in Handlers : Fault(h)

Next ==
    \/ \E h \in Requests : call(h)
    \/ handleAlarm
    \/ \E h \in Handlers : Step(h)
    \/ Tick
    \/ Failure

Spec == Init /\ [][Next]_vars

(* The runtime takes every handler on, delivers a due alarm, and time      *)
(* passes; the user's functions return.  Nobody has to send a request, and *)
(* nothing has to fail.                                                    *)
FairSpec ==
    /\ Spec
    /\ \A h \in Handlers : WF_vars(Step(h))
    /\ WF_vars(handleAlarm)
    /\ WF_vars(Tick)

=============================================================================
