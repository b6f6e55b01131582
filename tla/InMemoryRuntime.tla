-------------------------- MODULE InMemoryRuntime --------------------------
(***************************************************************************)
(* The runtimes of packages/task-group that run tasks without a platform:  *)
(* the in-memory runtime, with an instance for every task and id, and the  *)
(* task runner, whose tasks all work on the one storage and alarm it is    *)
(* given (InMemoryRuntime.ts, TaskRunner.ts, InMemoryStorage.ts,           *)
(* InMemoryAlarm.ts).                                                      *)
(*                                                                         *)
(* One call is made at a time.  A handler that sends an event to a sibling *)
(* waits for the sibling's handler, which may send on, and so come back to *)
(* an instance whose handler is still waiting: the handlers in flight are  *)
(* a stack.  A tick fires the alarms that are due, one after the other.    *)
(***************************************************************************)
EXTENDS Integers, Sequences

CONSTANTS
    Instances,          \* a task name with an id
    Times,              \* the times alarms are set for and ticks are made at
    Absent,             \* null
    HasErrorHandler,    \* onEventError and onAlarmError are given
    MaxIds, MaxDepth, MaxCalls, MaxOperations, MaxFailures      \* bounds

States == SUBSET (1 .. MaxIds)

ASSUME TimesAreNumbers == Times \subseteq Int

ASSUME AbsentIsNothing ==
    Absent \notin Times /\ \A s \in States : s # Absent

ASSUME MaxIdsIsNumber == MaxIds \in Nat

VARIABLES
    place,          \* the storage and the alarm an instance is given
    storage,        \* at a place: the state (a set of ids) and ALARM_KEY
    alarm,          \* at a place: scheduledAlarm
    systemFailure,  \* of an instance
    stack,          \* the handlers in flight, the innermost first
    call,           \* "none", "call" (send, fireAlarm) or "tick"
    toFire,         \* what the tick has yet to fire
    budget,         \* calls, operations and failures so far
    hist            \* history, read by properties only: the ids issued, by
                    \* instance those its handlers saved, by place those
                    \* update wrote and no save has replaced; by instance
                    \* whether a failure was injected that no handler has
                    \* seen; of the last tick the alarms that were due, that
                    \* it fired and that its handlers cancelled

vars ==
    <<place, storage, alarm, systemFailure, stack, call, toFire, budget, hist>>

Own == [i \in Instances |-> i]

Shared(p) == [i \in Instances |-> p]

Empty == [state |-> Absent, alarmAt |-> Absent]

Ids(state) == IF state = Absent THEN {} ELSE state

Top == stack[1]

Below == Tail(stack)

-----------------------------------------------------------------------------
(* Handlers.  A context is made when its handler starts.                   *)
makeHandlerContext(i) ==
    [inst |-> i, at |-> place[i], seen |-> Absent,
     failure |-> systemFailure[i], phase |-> "handler"]

Enter(frame) == stack' = <<frame>> \o stack

(* The history of the failures its context tells a handler of. *)
Seen(frame) ==
    [hist EXCEPT !.unseen[frame.inst] = @ /\ ~frame.failure]

Fired(frame) == [Seen(frame) EXCEPT !.fired = @ \union {frame.inst}]

(* The alarm of i comes: it is cleared before its handler runs, by the     *)
(* runtime or by whoever calls the runner.                                 *)
handleAlarm(i) ==
    /\ alarm' = [alarm EXCEPT ![place[i]] = Absent]
    /\ storage' = [storage EXCEPT ![place[i]].alarmAt = Absent]
    /\ Enter(makeHandlerContext(i))

Calls ==
    /\ call = "none" /\ budget.calls < MaxCalls
    /\ budget' = [budget EXCEPT !.calls = @ + 1]

(* An event that does not decode changes nothing. *)
handleEvent(i) ==
    /\ Calls
    /\ call' = "call"
    /\ Enter(makeHandlerContext(i))
    /\ hist' = Seen(makeHandlerContext(i))
    /\ UNCHANGED <<place, storage, alarm, systemFailure, toFire>>

fireAlarm(i) ==
    /\ Calls
    /\ call' = "call"
    /\ handleAlarm(i)
    /\ hist' = Fired(makeHandlerContext(i))
    /\ UNCHANGED <<place, systemFailure, toFire>>

injectSystemFailure(i) ==
    /\ Calls /\ place = Own
    /\ systemFailure' = [systemFailure EXCEPT ![i] = TRUE]
    /\ hist' = [hist EXCEPT !.unseen[i] = TRUE]
    /\ UNCHANGED <<place, storage, alarm, stack, call, toFire>>

-----------------------------------------------------------------------------
(* The tick: first it collects the alarms that are due at time t ...       *)
Due(t) == {i \in Instances : alarm[i] # Absent /\ alarm[i] <= t}

(* Mutant: an alarm is cleared when it is collected. *)
tick_ClearsAll(t) ==
    /\ Calls /\ place = Own
    /\ call' = "tick"
    /\ toFire' = Due(t)
    /\ alarm' = [i \in Instances |-> IF i \in Due(t) THEN Absent ELSE alarm[i]]
    /\ storage' = [i \in Instances |->
         IF i \in Due(t) THEN [storage[i] EXCEPT !.alarmAt = Absent] ELSE storage[i]]
    /\ hist' = [hist EXCEPT !.due = Due(t), !.fired = {}, !.cancelled = {}]
    /\ UNCHANGED <<place, systemFailure, stack>>

tick(t) ==
    /\ Calls /\ place = Own
    /\ call' = "tick"
    /\ toFire' = Due(t)
    /\ hist' = [hist EXCEPT !.due = Due(t), !.fired = {}, !.cancelled = {}]
    /\ UNCHANGED <<place, storage, alarm, systemFailure, stack>>

(* ... then it fires them, whatever the handlers have done to them since.  *)
TickFires(i) ==
    /\ call = "tick" /\ stack = <<>> /\ i \in toFire
    /\ toFire' = toFire \ {i}
    /\ handleAlarm(i)
    /\ hist' = Fired(makeHandlerContext(i))
    /\ UNCHANGED <<place, systemFailure, call, budget>>

TickEnds ==
    /\ call = "tick" /\ stack = <<>> /\ toFire = {}
    /\ call' = "none"
    /\ UNCHANGED <<place, storage, alarm, systemFailure, stack, toFire, budget, hist>>

-----------------------------------------------------------------------------
(* The innermost handler uses its context.                                 *)
Uses ==
    /\ stack # <<>> /\ budget.operations < MaxOperations
    /\ budget' = [budget EXCEPT !.operations = @ + 1]
    /\ UNCHANGED <<place, systemFailure, call, toFire>>

NewId == hist.issued + 1

recall ==
    /\ Uses
    /\ stack' = [stack EXCEPT ![1].seen = storage[Top.at].state]
    /\ UNCHANGED <<storage, alarm, hist>>

(* The handler stores the state s, with a new id in it. *)
Store(s) ==
    /\ NewId <= MaxIds
    /\ storage' = [storage EXCEPT ![Top.at].state = s \union {NewId}]
    /\ UNCHANGED <<alarm, stack>>

Issued == [hist EXCEPT !.issued = NewId, !.saved[Top.inst] = @ \union {NewId}]

(* The state saved is made of what the handler has recalled. *)
save ==
    /\ Uses /\ Store(Ids(Top.seen))
    /\ hist' = [Issued EXCEPT !.updated[Top.at] = @ \intersect Ids(Top.seen)]

(* Recalled and saved in one operation; nothing is done without a state. *)
update ==
    /\ Uses
    /\ storage[Top.at].state # Absent
    /\ Store(storage[Top.at].state)
    /\ hist' = [Issued EXCEPT
                  !.updated[Top.at] = @ \union storage[Top.at].state \union {NewId}]

(* scheduleIn, scheduleAt *)
scheduleAt(t) ==
    /\ Uses
    /\ alarm' = [alarm EXCEPT ![Top.at] = t]
    /\ storage' = [storage EXCEPT ![Top.at].alarmAt = t]
    /\ UNCHANGED <<stack, hist>>

Cancelled == [hist EXCEPT !.cancelled = @ \union {Top.at}]

cancelSchedule ==
    /\ Uses
    /\ alarm' = [alarm EXCEPT ![Top.at] = Absent]
    /\ storage' = [storage EXCEPT ![Top.at].alarmAt = Absent]
    /\ hist' = Cancelled
    /\ UNCHANGED stack

(* Mutant: the sibling is given what its caller was given. *)
send_CallersStorage(j) ==
    /\ Uses /\ Len(stack) < MaxDepth
    /\ Enter([makeHandlerContext(j) EXCEPT !.at = Top.at])
    /\ hist' = Seen(makeHandlerContext(j))
    /\ UNCHANGED <<storage, alarm>>

(* ctx.task(j).send: the sibling's handler runs before this one goes on.   *)
send(j) ==
    /\ Uses /\ Len(stack) < MaxDepth
    /\ Enter(makeHandlerContext(j))
    /\ hist' = Seen(makeHandlerContext(j))
    /\ UNCHANGED <<storage, alarm>>

(* The innermost handler succeeds.  A failure is over when a handler that  *)
(* was called from outside has succeeded, not when a sibling's has.        *)
Succeeds ==
    /\ stack' = Below
    /\ IF Below = <<>>
       THEN /\ systemFailure' = [systemFailure EXCEPT ![Top.inst] = FALSE]
            /\ call' = IF call = "tick" THEN "tick" ELSE "none"
       ELSE UNCHANGED <<systemFailure, call>>
    /\ UNCHANGED <<place, toFire, budget>>

Returns ==
    /\ stack # <<>> /\ Succeeds
    /\ UNCHANGED <<storage, alarm, hist>>

purge ==
    /\ stack # <<>> /\ Succeeds
    /\ storage' = [storage EXCEPT ![Top.at] = Empty]
    /\ alarm' = [alarm EXCEPT ![Top.at] = Absent]
    /\ hist' = [Cancelled EXCEPT !.updated[Top.at] = {}]

(* It fails: its error handler goes on, if there is one.  Without one the  *)
(* handler that sent the event has failed to, or the call fails, and with  *)
(* it the rest of the tick.                                                *)
Throws ==
    /\ stack # <<>> /\ budget.failures < MaxFailures
    /\ budget' = [budget EXCEPT !.failures = @ + 1]
    /\ IF Top.phase = "handler" /\ HasErrorHandler
       THEN /\ stack' = [stack EXCEPT ![1].phase = "onError"]
            /\ UNCHANGED <<call, toFire>>
       ELSE /\ stack' = Below
            /\ IF Below = <<>> THEN call' = "none" /\ toFire' = {}
                                 ELSE UNCHANGED <<call, toFire>>
    /\ UNCHANGED <<place, storage, alarm, systemFailure, hist>>

-----------------------------------------------------------------------------
Init ==
    /\ place \in {Own} \union {Shared(p) : p \in Instances}
    /\ storage = [p \in Instances |-> Empty]
    /\ alarm = [p \in Instances |-> Absent]
    /\ systemFailure = [i \in Instances |-> FALSE]
    /\ stack = <<>>
    /\ call = "none"
    /\ toFire = {}
    /\ budget = [calls |-> 0, operations |-> 0, failures |-> 0]
    /\ hist = [issued |-> 0, saved |-> [i \in Instances |-> {}],
               updated |-> [p \in Instances |-> {}],
               unseen |-> [i \in Instances |-> FALSE],
               due |-> {}, fired |-> {}, cancelled |-> {}]

Outside ==
    \/ \E i \in Instances : handleEvent(i) \/ fireAlarm(i) \/ injectSystemFailure(i)
    \/ \E t \in Times : tick(t)

Ticking == TickEnds \/ \E i \in Instances : TickFires(i)

Handler ==
    \/ recall \/ save \/ update \/ cancelSchedule \/ purge \/ Returns \/ Throws
    \/ \E t \in Times : scheduleAt(t)
    \/ \E j \in Instances : send(j)

Next == Outside \/ Ticking \/ Handler

Spec == Init /\ [][Next]_vars

-----------------------------------------------------------------------------
AlarmTimes == Times \union {Absent}

Frames ==
    [inst : Instances, at : Instances, seen : {Absent} \union States,
     failure : BOOLEAN, phase : {"handler", "onError"}]

Histories ==
    [issued : 0 .. MaxIds, saved : [Instances -> States],
     updated : [Instances -> States], unseen : [Instances -> BOOLEAN],
     due : SUBSET Instances, fired : SUBSET Instances,
     cancelled : SUBSET Instances]

(* The values every variable may take; handlers run in a call, and only a  *)
(* tick has alarms to fire.                                                *)
TypeOK ==
    /\ place \in [Instances -> Instances]
    /\ storage \in [Instances -> [state : {Absent} \union States, alarmAt : AlarmTimes]]
    /\ alarm \in [Instances -> AlarmTimes]
    /\ systemFailure \in [Instances -> BOOLEAN]
    /\ stack \in Seq(Frames)
    /\ call \in {"none", "call", "tick"}
    /\ call = "none" => stack = <<>>
    /\ toFire \subseteq Instances
    /\ call # "tick" => toFire = {}
    /\ hist \in Histories

(* nextAlarm(), which reads the storage, tells what getScheduledAlarms()   *)
(* tells, through whatever handlers of handlers, ticks and fired alarms.   *)
NextAlarmTells == \A p \in Instances : storage[p].alarmAt = alarm[p]

(* What update() wrote is there until a save or a purge takes it away,     *)
(* though handlers of the same instance are nested in each other.          *)
UpdatesAreKept ==
    \A p \in Instances : hist.updated[p] \subseteq Ids(storage[p].state)

(* The in-memory runtime keeps instances apart: an instance's state is     *)
(* made of what its own handlers saved, whoever sent them their events.    *)
(* The runner does not: its tasks share one state.                         *)
StatesAreSeparate ==
    place = Own =>
        \A i \in Instances : Ids(storage[i].state) \subseteq hist.saved[i]

(* An injected failure is not over before a handler of the instance has    *)
(* been told of it.                                                        *)
FailureIsKnown == \A i \in Instances : hist.unseen[i] => systemFailure[i]

(* An alarm that was due when a tick began has been fired or cancelled     *)
(* since, or it is still set: a tick that fails at one alarm loses none of *)
(* the others.  (One that was cancelled may be fired all the same, and one *)
(* that was set anew before it was fired is cleared.)                      *)
TickLosesNoAlarm ==
    \A i \in hist.due \ (hist.fired \union hist.cancelled) : alarm[i] # Absent

-----------------------------------------------------------------------------
(* What makes these invariants inductive.  A handler in flight has been    *)
(* told of its instance's failure; on the in-memory runtime it works on    *)
(* its own instance's place, and what it has recalled was saved there.     *)
(* Only that runtime has ticks.                                            *)
HandlersKnow ==
    /\ \A n \in 1 .. Len(stack) :
          /\ ~hist.unseen[stack[n].inst]
          /\ place = Own =>
               /\ stack[n].at = stack[n].inst
               /\ Ids(stack[n].seen) \subseteq hist.saved[stack[n].inst]
    /\ hist.due # {} => place = Own

=============================================================================
