----------------------------- MODULE TaskGroup -----------------------------
(***************************************************************************)
(* One task instance (packages/task-group) on its Durable Object: the      *)
(* registered task's handlers, the context its functions work with, the    *)
(* alarm of the object and the runtime that routes to them                 *)
(* (RegisteredTask.ts, cloudflare/runtime.ts).                             *)
(*                                                                         *)
(* The user's functions do any sequence of context operations; between two *)
(* of them they may wait, for a sibling's answer or for anything else, and *)
(* the object then delivers other events.  While a handler waits for       *)
(* storage it delivers none.  An operation leaves its writes in "todo", to *)
(* be performed one at a time.  Time is left out: an alarm that is set may *)
(* be delivered at any moment, and its time only tells alarms apart.       *)
(***************************************************************************)
EXTENDS Integers, Sequences

CONSTANTS
    Requests,           \* the requests that may be in flight at once
    Times,              \* the times alarms are set for
    Absent,             \* the value of a key that is not stored
    HasErrorHandler,    \* onEventError and onAlarmError are given
    MaxIds, MaxCalls, MaxOperations, MaxFailures, MaxFaults     \* bounds

States == SUBSET (1 .. MaxIds)

ASSUME AbsentIsNoValue ==
    Absent \notin Times /\ \A s \in States : s # Absent

ASSUME BoundsAreNumbers == MaxIds \in Nat

ASSUME AlarmIsNoRequest == "alarm" \notin Requests

Handlers == Requests \union {"alarm"}

VARIABLES
    storage,        \* routing keys, state (a set of ids), ALARM_KEY
    alarm,          \* the object's alarm: its time, and whether it is a retry
    systemFailure,  \* currentSystemFailure, in memory
    hs,             \* the handlers in flight
    budget,         \* calls, operations, failures of functions, and crashes
                    \* or faults so far
    hist            \* history, read by properties only: the ids issued, those
                    \* written by update and not overwritten since (updated),
                    \* whether a purge hit a handler in flight (raced), whether
                    \* an alarm was fired by hand (fired), which operations
                    \* were cut between two writes (cut)

vars == <<storage, alarm, systemFailure, hs, budget, hist>>

Empty == [name |-> FALSE, id |-> FALSE, state |-> Absent, alarmAt |-> Absent]

NoAlarm == [at |-> Absent, retry |-> FALSE]

Idle ==
    [op |-> "none", pc |-> "idle", todo |-> <<>>, seen |-> Absent,
     failure |-> FALSE, retry |-> FALSE, at |-> Absent, began |-> FALSE]

-----------------------------------------------------------------------------
(* Writes.  A handler's operation names them in the order it makes them.   *)
set(k, v) == <<[key |-> k, val |-> v]>>

delete(k) == set(k, Absent)

deleteAll == set("all", Absent)

cancel == set("alarm", Absent)

Stored(w) ==
    CASE w.key = "all"    -> Empty
      [] w.key = "alarm"  -> storage
      [] w.key = "update" -> [storage EXCEPT !.state = w.val]
      [] OTHER            -> [storage EXCEPT ![w.key] = w.val]

Ids(state) == IF state = Absent THEN {} ELSE state

Active(h) == hs[h].pc # "idle"

Quiet == \A h \in Handlers : ~Active(h)

InFunction(h) == hs[h].pc \in {"handler", "onError"}

Turn(h) ==
    \A g \in Handlers \ {h} :
       Active(g) => InFunction(g) /\ hs[g].todo = <<>>

At(h, p) == hs[h].pc = p /\ hs[h].todo = <<>> /\ Turn(h)

(* What a handler does next: the writes ws, and then what is at p. *)
Goto(h, p, ws) == hs' = [hs EXCEPT ![h].pc = p, ![h].todo = ws]

(* The platform's redelivery of an alarm whose handler failed; an alarm    *)
(* the handler has set takes its place.                                    *)
Redelivered(h) ==
    IF h = "alarm" /\ alarm.at = Absent
    THEN [at |-> hs[h].at, retry |-> TRUE] ELSE alarm

(* In an operation of the context, not in the runtime's own writes. *)
InOperation(h) == InFunction(h) /\ hs[h].began

(* The operation that is cut when handler h stops between two writes. *)
Cut(h) ==
    IF hs[h].todo = <<>> THEN {}
    ELSE LET w == Head(hs[h].todo)
         IN  CASE w.key = "alarm" /\ hs[h].pc = "done"  -> {"purge"}
               [] w.key = "alarmAt" /\ InOperation(h)   ->
                    {IF w.val = Absent THEN "cancel" ELSE "schedule"}
               [] OTHER                                 -> {}

Perform(h) ==
    /\ hs[h].todo # <<>> /\ Turn(h)
    /\ LET w == Head(hs[h].todo)
       IN  /\ storage' = Stored(w)
           /\ alarm' = IF w.key = "alarm"
                       THEN [at |-> w.val, retry |-> FALSE] ELSE alarm
           /\ hist' =
                [hist EXCEPT
                   !.raced = @ \/ (w.key = "all" /\ \E g \in Handlers \ {h} : Active(g)),
                   !.updated = CASE w.key = "update" -> @ \union w.val
                                 [] w.key = "state"  -> @ \intersect w.val
                                 [] w.key = "all"    -> {}
                                 [] OTHER            -> @]
    /\ hs' = [hs EXCEPT ![h].todo = Tail(@)]
    /\ UNCHANGED <<systemFailure, budget>>

-----------------------------------------------------------------------------
(* The runtime.  A context is made: what it knows of a failure stays.      *)
makeHandlerContext(op, failure) ==
    [Idle EXCEPT !.op = op, !.pc = "handler", !.failure = failure]

Receive(h) ==
    /\ h \in Requests /\ ~Active(h) /\ Turn(h)
    /\ budget.calls < MaxCalls
    /\ budget' = [budget EXCEPT !.calls = @ + 1]

(* Mutant: only the name is stored for the alarm to come. *)
handleEvent_NameOnly(h, valid) ==
    /\ Receive(h)
    /\ hs' = [hs EXCEPT ![h] =
                [makeHandlerContext("event", systemFailure) EXCEPT
                   !.todo = set("name", TRUE),
                   !.pc = IF valid THEN "handler" ELSE "fail"]]
    /\ UNCHANGED <<storage, alarm, systemFailure, hist>>

(* An event: the routing keys are stored for the alarms to come.  An event *)
(* that does not decode fails the call.                                    *)
handleEvent(h, valid) ==
    /\ Receive(h)
    /\ hs' = [hs EXCEPT ![h] =
                [makeHandlerContext("event", systemFailure) EXCEPT
                   !.todo = set("name", TRUE) \o set("id", TRUE),
                   !.pc = IF valid THEN "handler" ELSE "fail"]]
    /\ UNCHANGED <<storage, alarm, systemFailure, hist>>

(* Mutant: nextAlarm() goes on promising the alarm that has come. *)
handleAlarm_KeyKept(op, failure) == makeHandlerContext(op, failure)

handleAlarm(op, failure) ==
    [makeHandlerContext(op, failure) EXCEPT !.todo = delete("alarmAt")]

(* The client's fireAlarm: the handler of the alarm, without one. *)
fireAlarm(h) ==
    /\ Receive(h)
    /\ hs' = [hs EXCEPT ![h] = handleAlarm("fireAlarm", systemFailure)]
    /\ hist' = [hist EXCEPT !.fired = TRUE]
    /\ UNCHANGED <<storage, alarm, systemFailure>>

(* Mutant: the failure is recorded after the context is made. *)
AlarmRuns_FailureLate ==
    /\ alarm.at # Absent /\ ~Active("alarm") /\ Turn("alarm")
    /\ storage.name /\ storage.id
    /\ alarm' = NoAlarm
    /\ systemFailure' = (systemFailure \/ alarm.retry)
    /\ hs' = [hs EXCEPT !["alarm"] =
                [handleAlarm("alarm", systemFailure)
                   EXCEPT !.at = alarm.at, !.retry = alarm.retry]]
    /\ UNCHANGED <<storage, budget, hist>>

(* The alarm is delivered: it finds the task by the routing keys ... *)
AlarmRuns ==
    /\ alarm.at # Absent /\ ~Active("alarm") /\ Turn("alarm")
    /\ storage.name /\ storage.id
    /\ alarm' = NoAlarm
    /\ systemFailure' = (systemFailure \/ alarm.retry)
    /\ hs' = [hs EXCEPT !["alarm"] =
                [handleAlarm("alarm", systemFailure')
                   EXCEPT !.at = alarm.at, !.retry = alarm.retry]]
    /\ UNCHANGED <<storage, budget, hist>>

(* ... or does nothing without them. *)
AlarmIgnored ==
    /\ alarm.at # Absent /\ ~Active("alarm") /\ Turn("alarm")
    /\ ~(storage.name /\ storage.id)
    /\ alarm' = NoAlarm
    /\ systemFailure' = (systemFailure \/ alarm.retry)
    /\ UNCHANGED <<storage, hs, budget, hist>>

(* The handler has succeeded. *)
Succeed(h) ==
    /\ At(h, "done")
    /\ hs' = [hs EXCEPT ![h] = Idle]
    /\ systemFailure' = FALSE
    /\ UNCHANGED <<storage, alarm, budget, hist>>

(* The handler has failed; so does the call, or the alarm's delivery. *)
Fail(h) ==
    /\ At(h, "fail")
    /\ hs' = [hs EXCEPT ![h] = Idle]
    /\ alarm' = Redelivered(h)
    /\ UNCHANGED <<storage, systemFailure, budget, hist>>

-----------------------------------------------------------------------------
(* The context's operations, used by the task's function or by its error   *)
(* handler.  A call of a sibling changes nothing here.                     *)
Uses(h) ==
    /\ InFunction(h) /\ hs[h].todo = <<>> /\ Turn(h)
    /\ budget.operations < MaxOperations
    /\ budget' = [budget EXCEPT !.operations = @ + 1]
    /\ UNCHANGED <<storage, alarm, systemFailure>>

Using(h, ws) == [hs EXCEPT ![h].todo = ws, ![h].began = TRUE]

NewId == hist.issued + 1

Issue ==
    /\ hist.issued < MaxIds
    /\ hist' = [hist EXCEPT !.issued = NewId]

recall(h) ==
    /\ Uses(h)
    /\ hs' = [Using(h, <<>>) EXCEPT ![h].seen = storage.state]
    /\ UNCHANGED hist

(* The state saved is made of what the function has recalled. *)
save(h) ==
    /\ Uses(h) /\ Issue
    /\ hs' = Using(h, set("state", Ids(hs[h].seen) \union {NewId}))

(* Mutant: the state recalled before is updated. *)
update_Stale(h) ==
    /\ Uses(h) /\ Issue
    /\ hs[h].seen # Absent
    /\ hs' = Using(h, set("update", hs[h].seen \union {NewId}))

(* Recalled and saved in one operation; nothing is done without a state. *)
update(h) ==
    /\ Uses(h) /\ Issue
    /\ storage.state # Absent
    /\ hs' = Using(h, set("update", storage.state \union {NewId}))

(* scheduleIn, scheduleAt *)
scheduleAt(h, t) ==
    /\ Uses(h)
    /\ hs' = Using(h, set("alarm", t) \o set("alarmAt", t))
    /\ UNCHANGED hist

cancelSchedule(h) ==
    /\ Uses(h)
    /\ hs' = Using(h, cancel \o delete("alarmAt"))
    /\ UNCHANGED hist

(* Mutants: the alarm is forgotten; the alarm goes first. *)
cleanup_AlarmLeft == deleteAll

cleanup_AlarmFirst == cancel \o deleteAll

cleanup == deleteAll \o cancel

(* The function purges, returns or fails. *)
purge(h) ==
    /\ InFunction(h) /\ hs[h].todo = <<>> /\ Turn(h)
    /\ Goto(h, "done", cleanup)
    /\ UNCHANGED <<storage, alarm, systemFailure, budget, hist>>

Returns(h) ==
    /\ InFunction(h) /\ hs[h].todo = <<>> /\ Turn(h)
    /\ Goto(h, "done", <<>>)
    /\ UNCHANGED <<storage, alarm, systemFailure, budget, hist>>

(* Its error handler goes on, if there is one. *)
handleError(h) == IF hs[h].pc = "handler" /\ HasErrorHandler THEN "onError" ELSE "fail"

Throws(h) ==
    /\ InFunction(h) /\ hs[h].todo = <<>> /\ Turn(h)
    /\ budget.failures < MaxFailures
    /\ budget' = [budget EXCEPT !.failures = @ + 1]
    /\ Goto(h, handleError(h), <<>>)
    /\ UNCHANGED <<storage, alarm, systemFailure, hist>>

-----------------------------------------------------------------------------
(* Failures.  A storage or alarm call fails: in an operation that fails    *)
(* the operation, and the function may catch that; elsewhere the handler.  *)
Fault(h) ==
    /\ hs[h].todo # <<>> /\ Turn(h)
    /\ budget.faults < MaxFaults
    /\ budget' = [budget EXCEPT !.faults = @ + 1]
    /\ \E p \in IF InOperation(h) THEN {hs[h].pc, handleError(h)} ELSE {"fail"} :
          Goto(h, p, <<>>)
    /\ hist' = [hist EXCEPT !.cut = @ \union Cut(h)]
    /\ UNCHANGED <<storage, alarm, systemFailure>>

(* The object crashes. *)
Crash ==
    /\ budget.faults < MaxFaults /\ ~Quiet
    /\ budget' = [budget EXCEPT !.faults = @ + 1]
    /\ hs' = [h \in Handlers |-> Idle]
    /\ alarm' = IF Active("alarm") THEN Redelivered("alarm") ELSE alarm
    /\ systemFailure' = FALSE
    /\ hist' = [hist EXCEPT !.cut = @ \union UNION {Cut(h) : h \in Handlers}]
    /\ UNCHANGED storage

(* It is evicted when it has nothing to do. *)
Evict ==
    /\ Quiet /\ systemFailure
    /\ systemFailure' = FALSE
    /\ UNCHANGED <<storage, alarm, hs, budget, hist>>

-----------------------------------------------------------------------------
Init ==
    /\ storage = Empty
    /\ alarm = NoAlarm
    /\ systemFailure = FALSE
    /\ hs = [h \in Handlers |-> Idle]
    /\ budget = [calls |-> 0, operations |-> 0, failures |-> 0, faults |-> 0]
    /\ hist = [issued |-> 0, updated |-> {}, raced |-> FALSE, fired |-> FALSE,
               cut |-> {}]

Function(h) ==
    \/ recall(h) \/ save(h) \/ update(h) \/ cancelSchedule(h)
    \/ \E t \in Times : scheduleAt(h, t)
    \/ purge(h) \/ Returns(h) \/ Throws(h)

Step(h) == Perform(h) \/ Function(h) \/ Succeed(h) \/ Fail(h)

Call(h) == fireAlarm(h) \/ \E valid \in BOOLEAN : handleEvent(h, valid)

Next ==
    \/ \E h \in Requests : Call(h)
    \/ AlarmRuns \/ AlarmIgnored
    \/ \E h \in Handlers : Step(h) \/ Fault(h)
    \/ Crash \/ Evict

Spec == Init /\ [][Next]_vars

=============================================================================
