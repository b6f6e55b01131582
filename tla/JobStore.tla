------------------------------ MODULE JobStore ------------------------------
(***************************************************************************)
(* One job instance (packages/jobs): the Durable Object that stores it,    *)
(* its single alarm, and the handlers in flight in it.                     *)
(*                                                                         *)
(* A handler runs in segments.  A segment reads what it needs, decides,    *)
(* and leaves its writes in "todo", in the order the code makes them; they *)
(* are then performed one at a time, so that a crash or a failing storage  *)
(* call may fall between any two.  The object delivers no other event      *)
(* while a handler waits for storage, so what a segment read still holds   *)
(* when its writes are made.  It delivers others while a handler waits for *)
(* the user's code or for the tracker's HTTP request: "Yielding".          *)
(*                                                                         *)
(* Time is relative: the alarm counts down to its delivery.                *)
(***************************************************************************)
EXTENDS JobDefinitions, JobRequests, Sequences

CONSTANTS
    Requests,           \* the requests that may be in flight at once
    Definitions,        \* the job definitions a behaviour may be about
    Sending,            \* those whose events fill a batch, and are sent, each
    MaxIds, MaxFailures, MaxFaults,             \* bounds
    MaxCalls(_),        \* bound: the requests to a job of a definition
    MaxCount            \* bound: counters stop here

ASSUME DefinitionsAreMade == Definitions \subseteq JobDefinition

ASSUME AlarmIsNoRequest == "alarm" \notin Requests

ASSUME AbsentIsNoValue ==
    /\ Absent \notin Nat /\ Absent \notin {TRUE, "initializing", "running"}
    /\ \A ids \in SUBSET (1 .. MaxIds) : Absent # ids

ASSUME BoundsAreNumbers ==
    MaxIds \in Nat /\ MaxCount \in Nat \ {0} /\ MaxCount < Unlimited

registry == createTypedJobRegistry(Definitions)

Handlers == Requests \union {"alarm"}

VARIABLES
    def,        \* the definition of the job, fixed
    store,      \* what is stored
    alarm,      \* the time left until the alarm, or Absent
    hs,         \* the handlers in flight: where each is, and its registers
    budget,     \* calls, failures of the user's function, and
                \* crashes or storage faults so far
    hist        \* history, read by properties only: the ids issued, those
                \* acknowledged by handlers that ran alone (kept), those
                \* flushed or discarded (settled), whether one was flushed
                \* twice by handlers that ran alone (repeated), whether a
                \* purge hit a handler in flight (raced), whether a creation
                \* or a purge was cut short (half)

vars == <<def, store, alarm, hs, budget, hist>>

-----------------------------------------------------------------------------
(* Storage: the metadata's status, the entity state (the set of events or  *)
(* runs it has taken in), the run or event count, the retry executor's     *)
(* attempt and the age of its startedAt, a task's scheduledAt, and one key *)
(* for the bookkeeping ones nothing decides on (lastExecutedAt, startedAt, *)
(* createdAt, executeCount).                                               *)

Empty ==
    [meta |-> Absent, state |-> Absent, count |-> Absent, attempt |-> Absent,
     age |-> Absent, scheduledAt |-> Absent, other |-> Absent]

(* A write: to a key, to the alarm, of everything ("all") or, not a write  *)
(* at all, an event for the tracker.  The failure of a soft one is         *)
(* ignored, as is what would have followed it in the same soft effect.     *)
Put(k, v) == <<[key |-> k, val |-> v, soft |-> FALSE]>>

Delete(k) == Put(k, Absent)

Soften(ws) ==
    [i \in DOMAIN ws |-> [key |-> ws[i].key, val |-> ws[i].val, soft |-> TRUE]]

schedule(delay) == Put("alarm", delay)

cancel == Put("alarm", Absent)

deleteAll == Put("all", Absent)

(* An event sent at once, as the batch it fills, is a wait; one that is    *)
(* only buffered is nothing.                                               *)
emitEvent(type) == IF def \in Sending THEN Put("event", type) ELSE <<>>

initialize == Put("meta", "initializing")

(* Nothing is updated where there is no metadata. *)
updateStatus(s) == Put("status", s)

purge == cancel \o deleteAll

Stored(w) ==
    CASE w.key = "all"                  -> Empty
      [] w.key \in {"alarm", "event"}   -> store
      [] w.key = "status"               ->
           IF store.meta = Absent THEN store ELSE [store EXCEPT !.meta = w.val]
      [] OTHER                          -> [store EXCEPT ![w.key] = w.val]

Contents == IF store.state = Absent THEN {} ELSE store.state

(* Mutant: counted from 0. *)
Attempt_FromZero == IF store.attempt = Absent THEN 0 ELSE store.attempt

Attempt == IF store.attempt = Absent THEN 1 ELSE store.attempt

Count == IF store.count = Absent THEN 0 ELSE store.count

Increment(n) == IF n < MaxCount THEN n + 1 ELSE n

-----------------------------------------------------------------------------
(* Handlers. *)

Idle ==
    [op |-> "none", pc |-> "idle", todo |-> <<>>, seen |-> Absent, id |-> 0,
     attempt |-> 0, count |-> 0, result |-> "none", plan |-> "none",
     found |-> FALSE, created |-> FALSE, shared |-> FALSE]

InUserCode == {"run", "reduce", "idling"}

Yielding(h) ==
    \/ hs[h].pc = "idle"
    \/ hs[h].todo = <<>> /\ hs[h].pc \in InUserCode
    \/ hs[h].todo # <<>> /\ Head(hs[h].todo).key = "event"

Turn(h) == \A g \in Handlers \ {h} : Yielding(g)

At(h, p) == hs[h].pc = p /\ hs[h].todo = <<>> /\ Turn(h)

Active(h) == hs[h].pc # "idle"

Others(h) == {g \in Handlers \ {h} : Active(g)}

(* Every handler that is in flight together with another is "shared". *)
Begin(h, r) ==
    hs' = [g \in Handlers |->
             IF g = h THEN [r EXCEPT !.shared = Others(h) # {}]
             ELSE IF Active(g) THEN [hs[g] EXCEPT !.shared = TRUE] ELSE hs[g]]

(* A request is delivered: the first segment of its handler, which goes on *)
(* at p after the writes ws.                                               *)
Receive(h) ==
    /\ h \in Requests /\ ~Active(h) /\ Turn(h)
    /\ budget.calls < MaxCalls(def)
    /\ budget' = [budget EXCEPT !.calls = @ + 1]
    /\ UNCHANGED <<def, store, alarm>>

(* The alarm is delivered when its time has come; the object's slot is     *)
(* empty while its handler runs.                                           *)
Fire ==
    /\ ~Active("alarm") /\ Turn("alarm")
    /\ alarm = 0 /\ alarm' = Absent
    /\ UNCHANGED <<def, store, budget>>

Segment(h, p, ws) == [hs EXCEPT ![h].pc = p, ![h].todo = ws]

Keep == UNCHANGED <<def, store, alarm, budget>>

(* A handler whose end leaves the job without a future nobody else sees    *)
(* to: the request that was creating it, or one that was purging it.       *)
Halfway(h) ==
    /\ h # "alarm"
    /\ hs[h].created \/ \E i \in DOMAIN hs[h].todo : hs[h].todo[i].key = "all"

(* An alarm handler that fails is delivered again. *)
Redelivered(h) == IF h = "alarm" /\ alarm = Absent THEN 0 ELSE alarm

Perform(h) ==
    /\ hs[h].todo # <<>> /\ Turn(h)
    /\ LET w == Head(hs[h].todo)
       IN  /\ store' = Stored(w)
           /\ alarm' = IF w.key = "alarm" THEN w.val ELSE alarm
           /\ hist' = [hist EXCEPT !.raced =
                         @ \/ (w.key = "all" /\ Others(h) # {})]
    /\ hs' = [hs EXCEPT ![h].todo = Tail(@)]
    /\ UNCHANGED <<def, budget>>

(* The answer is returned: what the handler took in is acknowledged. *)
Return(h) ==
    /\ At(h, "return")
    /\ hs' = [hs EXCEPT ![h] = Idle]
    /\ hist' = [hist EXCEPT !.kept =
                  IF hs[h].shared \/ hs[h].id = 0 THEN @ ELSE @ \union {hs[h].id}]
    /\ Keep

(* The handler fails: the caller gets an error. *)
Fail(h) ==
    /\ At(h, "fail")
    /\ hs' = [hs EXCEPT ![h] = Idle]
    /\ alarm' = Redelivered(h)
    /\ hist' = [hist EXCEPT !.half = @ \/ Halfway(h)]
    /\ UNCHANGED <<def, store, budget>>

-----------------------------------------------------------------------------
(* Time and failures. *)

(* Time passes while the alarm waits for it, or a retry grows older; what  *)
(* happens between two waits is taken to take none.                        *)
Tick ==
    LET older == IF store.age = Absent \/ store.age >= def.retry.maxDuration
                 THEN store.age ELSE store.age + 1
        nearer == IF alarm \in {Absent, 0} THEN alarm ELSE alarm - 1
    IN  /\ \A h \in Handlers : Yielding(h)
        /\ older # store.age \/ nearer # alarm
        /\ store' = [store EXCEPT !.age = older]
        /\ alarm' = nearer
        /\ UNCHANGED <<def, hs, budget, hist>>

(* The soft writes that begin ws are its first n. *)
SoftUpTo(ws, n) ==
    /\ \A i \in 1 .. n : ws[i].soft
    /\ n < Len(ws) => ~ws[n + 1].soft

(* A storage or scheduler call fails: the handler does, unless the failure *)
(* is ignored.                                                             *)
Fault(h) ==
    /\ hs[h].todo # <<>> /\ Turn(h) /\ Head(hs[h].todo).key # "event"
    /\ budget.faults < MaxFaults
    /\ budget' = [budget EXCEPT !.faults = @ + 1]
    /\ \/ /\ \E n \in 1 .. Len(hs[h].todo) :
                /\ SoftUpTo(hs[h].todo, n)
                /\ hs' = [hs EXCEPT ![h].todo = SubSeq(@, n + 1, Len(@))]
          /\ alarm' = alarm
       \/ /\ ~Head(hs[h].todo).soft
          /\ hs' = [hs EXCEPT ![h] = Idle]
          /\ alarm' = Redelivered(h)
    /\ hist' = [hist EXCEPT !.half = 
                  @ \/ Halfway(h)
                    \/ \E i \in DOMAIN hs[h].todo :
                          hs[h].todo[i].soft /\ hs[h].todo[i].key = "all"]
    /\ UNCHANGED <<def, store>>

(* The object crashes: what was in flight is gone, and the alarm that was  *)
(* being handled will be delivered again.                                  *)
Crash ==
    /\ budget.faults < MaxFaults
    /\ \E h \in Handlers : Active(h)
    /\ budget' = [budget EXCEPT !.faults = @ + 1]
    /\ hs' = [h \in Handlers |-> Idle]
    /\ alarm' = IF Active("alarm") THEN Redelivered("alarm") ELSE alarm
    /\ hist' = [hist EXCEPT !.half = @ \/ \E h \in Handlers : Halfway(h)]
    /\ UNCHANGED <<def, store>>

Init ==
    /\ def \in Definitions
    /\ store = Empty
    /\ alarm = Absent
    /\ hs = [h \in Handlers |-> Idle]
    /\ budget = [calls |-> 0, failures |-> 0, faults |-> 0]
    /\ hist = [issued |-> 0, kept |-> {}, settled |-> {}, repeated |-> FALSE,
               raced |-> FALSE, half |-> FALSE]

=============================================================================
