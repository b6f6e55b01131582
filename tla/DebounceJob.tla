---------------------------- MODULE DebounceJob ----------------------------
(***************************************************************************)
(* The handler of debounce jobs                                            *)
(* (packages/jobs/src/handlers/debounce/handler.ts): events are reduced    *)
(* into one state, which is flushed when the first has waited long enough, *)
(* when there are many, or on demand, and then deleted.                    *)
(***************************************************************************)
EXTENDS JobExecution

Debounce == def \in registry["debounce"]

(* add: the first event creates the instance; what has been written stays  *)
(* when the event turns out not to decode.                                 *)
Add(h, valid) ==
    /\ Receive(h)
    /\ LET created == store.meta = Absent
       IN  Begin(h, [Idle EXCEPT !.op = "add", !.created = created,
                       !.pc = IF valid THEN "reduce" ELSE "fail",
                       !.seen = store.state,
                       !.count = IF created THEN 0 ELSE Count,
                       !.todo = IF created
                                THEN initialize \o updateStatus("running")
                                       \o Put("other", TRUE) \o Put("count", 0)
                                ELSE <<>>])
    /\ UNCHANGED hist

(* Mutant: the flush of the first event is never scheduled. *)
ScheduleFlush_Never(h) == <<>>

ScheduleFlush(h) ==
    IF hs[h].created THEN schedule(def.interval) \o emitEvent("debounce.started")
                     ELSE <<>>

(* onEvent returns the new state; the flush is scheduled by the event that *)
(* created the instance, and made at once by the one that fills it.        *)
Reduce(h) ==
    /\ At(h, "reduce")
    /\ LET nextCount == Increment(hs[h].count)
       IN  hs' = [hs EXCEPT
                    ![h].id = NewId, ![h].seen = Absent, ![h].count = 0,
                    ![h].todo = Put("state", Seen(h) \union ({NewId} \ {0}))
                                  \o Put("count", nextCount) \o ScheduleFlush(h),
                    ![h].pc = IF nextCount >= def.maxEvents
                              THEN "execute" ELSE "return"]
    /\ hist' = Issue
    /\ Keep

-----------------------------------------------------------------------------
(* flush, on demand or by the alarm. *)
FlushNothing(h) ==
    /\ Receive(h) /\ store.meta = Absent
    /\ Begin(h, [Idle EXCEPT !.op = "flush", !.pc = "return"])
    /\ UNCHANGED hist

(* Mutant: a single event is taken for none. *)
handleFlush_MoreThanOne(op, ws) ==
    IF Count <= 1
    THEN [Idle EXCEPT !.op = op, !.pc = "return", !.todo = ws \o purge]
    ELSE [Idle EXCEPT !.op = op, !.pc = "execute", !.todo = ws]

(* No event has been counted: the instance is deleted. *)
handleFlush(op, ws) ==
    IF Count = 0
    THEN [Idle EXCEPT !.op = op, !.pc = "return", !.todo = ws \o purge]
    ELSE [Idle EXCEPT !.op = op, !.pc = "execute", !.todo = ws]

Flush(h) ==
    /\ Receive(h) /\ store.meta # Absent
    /\ Begin(h, handleFlush("flush", <<>>))
    /\ UNCHANGED hist

DebounceAlarm ==
    /\ Debounce /\ Fire /\ store.meta # Absent
    /\ Begin("alarm", handleFlush("alarm", IF Attempt > 1 THEN <<>>
                                           ELSE Soften(reset)))
    /\ UNCHANGED hist

(* Mutant: the alarm is cancelled, the state stays. *)
Flushed_NotDeleted(h) ==
    /\ Debounce /\ At(h, "result") /\ hs[h].result = "success"
    /\ hs' = Segment(h, "return", emitEvent("debounce.flushed") \o cancel)
    /\ UNCHANGED hist
    /\ Keep

(* The flush is over; it is purged, unless it is to be tried again. *)
Flushed(h) ==
    /\ Debounce /\ At(h, "result") /\ hs[h].result = "success"
    /\ hs' = Segment(h, "return", emitEvent("debounce.flushed") \o purge)
    /\ UNCHANGED hist
    /\ Keep

NotFlushed(h) ==
    /\ Debounce /\ At(h, "result")
    /\ hs[h].result \in {"retryScheduled", "terminated"}
    /\ hs' = Segment(h, "return", <<>>)
    /\ UNCHANGED hist
    /\ Keep

(* clear: what is stored is dropped. *)
ClearNothing(h) ==
    /\ Receive(h) /\ store.meta = Absent
    /\ Begin(h, [Idle EXCEPT !.op = "clear", !.pc = "return"])
    /\ UNCHANGED hist

Clear(h) ==
    /\ Receive(h) /\ store.meta # Absent
    /\ Begin(h, [Idle EXCEPT !.op = "clear", !.found = TRUE, !.pc = "return",
                             !.todo = purge])
    /\ hist' = Discard(Contents)

(* status and getState answer from what is stored. *)
debounceRead(action) ==
    LET found == store.meta # Absent
    IN  CASE action = "status" ->
               [type |-> "debounce", action |-> action,
                status |-> IF ~found THEN "not_found"
                           ELSE IF Count > 0 THEN "debouncing" ELSE "idle",
                eventCount |-> IF found THEN Count ELSE Absent,
                willFlushAt |-> IF found THEN alarm ELSE Absent]
          [] action = "getState" ->
               [type |-> "debounce", action |-> action, state |-> store.state]

(* An event that did not fill the debounce is told of the alarm; one that  *)
(* did is, when the flush is to be tried again.  A flush that was tried    *)
(* counts as flushed, whatever came of it.                                 *)
debounceResponse(h) ==
    LET op == hs[h].op
        executed == hs[h].result # "none"
        retry == hs[h].result = "retryScheduled"
    IN  CASE op = "add" ->
               [type |-> "debounce", action |-> op, created |-> hs[h].created,
                retryScheduled |-> retry,
                willFlushAt |-> IF executed /\ ~retry THEN Absent ELSE alarm]
          [] op = "flush" ->
               [type |-> "debounce", action |-> op, flushed |-> executed,
                retryScheduled |-> retry,
                reason |-> IF executed THEN "manual" ELSE "empty"]
          [] op = "clear" ->
               [type |-> "debounce", action |-> op, cleared |-> hs[h].found]

handleDebounce(h, action) ==
    \/ action = "add" /\ \E valid \in BOOLEAN : Add(h, valid)
    \/ action = "flush" /\ (FlushNothing(h) \/ Flush(h))
    \/ action = "clear" /\ (ClearNothing(h) \/ Clear(h))

DebounceStep(h) == Reduce(h) \/ Flushed(h) \/ NotFlushed(h)

=============================================================================
