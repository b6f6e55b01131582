--------------------------- MODULE JobProperties ---------------------------
(***************************************************************************)
(* What must hold of a job instance.  Some properties speak of the job     *)
(* when it is Quiet: what is stored then is all that is left of it, and    *)
(* only the alarm or a request brings it back to life.                     *)
(***************************************************************************)
EXTENDS JobEngine

Ids == 1 .. MaxIds

Quiet == \A h \in Handlers : ~Active(h)

NothingFailed == budget.faults + budget.failures = 0

Answers(h) == hs[h].pc = "return" /\ hs[h].todo = <<>>

Told == read("status")

(* The values every variable may take; an attempt is stored only for a     *)
(* retry, so it is at least 2 (retry/executor.ts).                         *)
TypeOK ==
    /\ def \in Definitions
    /\ store.meta \in {Absent, "initializing", "running"}
    /\ store.state = Absent \/ store.state \in SUBSET Ids
    /\ store.count = Absent \/ store.count \in 0 .. MaxCount
    /\ store.attempt = Absent \/ store.attempt \in 2 .. def.retry.maxAttempts
    /\ store.age = Absent \/ store.age \in 0 .. def.retry.maxDuration
    /\ {store.scheduledAt, store.other} \subseteq {Absent, TRUE}
    /\ alarm = Absent \/ alarm \in Nat
    /\ \A h \in Handlers :
         /\ hs[h].id \in 0 .. MaxIds
         /\ hs[h].plan \in Plans
         /\ hs[h].result \in {"none", "success", "retryScheduled", "terminated"}
    /\ \A h \in Handlers : \A i \in DOMAIN hs[h].todo :
         hs[h].todo[i].key = "event" => hs[h].todo[i].val \in JobEvent
    /\ \A h \in Requests :
         Answers(h) => /\ response(h) \in JobResponse
                       /\ narrowResponse(response(h),
                                         [type |-> def.type, action |-> hs[h].op])
    /\ def.type # "workerPool" => \A action \in Reads : read(action) \in JobResponse

(* A job that exists and is not being handled has an alarm: neither a run, *)
(* a retry, a failure, a crash nor a storage fault leaves it waiting for   *)
(* ever, as long as its creation and its purges were not cut short.  (A    *)
(* task need not have one.)  Handlers of continuous and debounce jobs.     *)
AlarmGuardsJob ==
    Quiet /\ ~hist.half =>
       /\ Continuous /\ Told.status # "not_found" => Told.nextRunAt # Absent
       /\ Debounce /\ Told.status # "not_found" => Told.willFlushAt # Absent

(* A job that is gone has left nothing behind, neither state nor a retry   *)
(* count that the next job of this id would start with, unless a purge     *)
(* overtook a handler in flight.  CleanupService.terminate, purge.         *)
PurgedMeansEmpty ==
    Quiet /\ store.meta = Absent /\ ~hist.raced => store = Empty

(* What a handler that ran alone took in and acknowledged is in the state, *)
(* or was flushed or discarded: whatever other handlers overlap later, it  *)
(* is only their own work they may lose.  The load before and the save     *)
(* after the user's function (services/execution.ts).                      *)
WorkIsKept == hist.kept \subseteq hist.settled \union Contents

(* Without crashes and storage faults, no event is flushed twice by        *)
(* flushes that run alone.  handleFlush and the purge behind it.           *)
FlushedOnce == hist.repeated => budget.faults > 0 \/ hist.raced

(* As long as nothing fails, a task's alarm is recorded: status does not   *)
(* call a task idle that is going to wake up.  applyScheduleChanges.       *)
AlarmIsRecorded ==
    Quiet /\ Task /\ alarm # Absent /\ NothingFailed
        => Told.status # "idle"

Gone == store = Empty /\ alarm = Absent

(* The answer a handler gives that ran alone is true when it is given: a   *)
(* job said to run has an alarm to run by, one said to be terminated,      *)
(* cleared or flushed has left nothing, a retry said to be scheduled is,   *)
(* and no alarm follows an event that is said to have scheduled none.  (A  *)
(* debounce that was given up is said to be flushed, too, and a task's     *)
(* scheduledAt may be of an alarm that has fired.)                         *)
ContinuousAnswer(r) ==
    CASE r.action = "start" ->
           IF r.status = "terminated" THEN Gone
           ELSE Told.status = r.status /\ Told.nextRunAt # Absent
      [] r.action = "trigger" ->
           /\ r.triggered /\ ~r.terminated => alarm # Absent
           /\ r.retryScheduled => store.attempt # Absent
           /\ ~r.triggered \/ r.terminated => Gone
      [] r.action = "terminate" -> Gone

DebounceAnswer(r) ==
    CASE r.action = "add" ->
           /\ r.retryScheduled => store.attempt # Absent /\ alarm # Absent
           /\ r.willFlushAt = Absent => Gone
      [] r.action = "flush" ->
           IF r.retryScheduled THEN store.attempt # Absent /\ alarm # Absent
                               ELSE Gone
      [] r.action = "clear" -> Gone

TaskAnswer(r) ==
    CASE r.action = "send" ->
           r.scheduledAt = Absent /\ NothingFailed => alarm = Absent
      [] r.action = "trigger" -> r.triggered \/ Gone
      [] r.action = "terminate" -> Gone

AnswersAreTrue ==
    \A h \in Requests :
       Answers(h) /\ ~hs[h].shared /\ budget.faults = 0 /\ ~hist.half /\ ~hist.raced
          => LET r == response(h)
             IN  CASE Continuous -> ContinuousAnswer(r)
                   [] Debounce   -> DebounceAnswer(r)
                   [] Task       -> TaskAnswer(r)

(* onIdle is called only when no alarm is pending, as long as nothing      *)
(* fails: what the handler read of the schedule is not out of date.        *)
IdleMeansUnscheduled ==
    [][\A h \in Handlers :
          hs[h].pc = "settle" /\ hs'[h].pc = "idling" /\ NothingFailed
             => alarm = Absent]_vars

(* An event added by a request that ran alone is flushed, or discarded     *)
(* with its job, in the end.                                               *)
EventsAreSettled ==
    \A e \in Ids :
       Debounce /\ e \in hist.kept ~> e \in hist.settled \/ hist.half

(* A continuous job runs again and again until it is purged. *)
ContinuousKeepsRunning ==
    Continuous /\ store.meta = "running"
        ~> \/ \E h \in Handlers : hs[h].pc = "run"
           \/ store.meta = Absent \/ hist.half

(* A run that is being retried succeeds or is given up: its attempt count  *)
(* does not stay.  An overtaking purge may leave one behind.               *)
RetriesEnd ==
    store.attempt # Absent
        ~> store.attempt = Absent \/ hist.raced \/ hist.half

-----------------------------------------------------------------------------
(* What documentation says, and the code does not do. *)

(* "Optional handler called when either onEvent or execute completes and   *)
(* no alarm is scheduled" (registry/types.ts:207): a task with onIdle that *)
(* goes on without calling it has an alarm.                                *)
IdleWhenUnscheduled ==
    [][\A h \in Handlers :
          StayBusy(h) /\ def.onIdle => alarm # Absent]_vars

-----------------------------------------------------------------------------
(* What the handlers in flight are going to write.  This makes the safety  *)
(* properties above inductive.                                             *)

JobPcs == {"idle", "started", "reduce", "execute", "run", "settle", "idling",
           "result", "return", "fail"}

Requested == {"start", "trigger", "terminate", "add", "flush", "clear", "send"}
               \union WorkerPoolClient

Writes ==
    LET writes(keys, values) == [key : keys, val : values, soft : BOOLEAN]
    IN  writes({"meta"}, {"initializing"}) \union writes({"status"}, {"running"})
        \union writes({"state"}, SUBSET Ids) \union writes({"count"}, 0 .. MaxCount)
        \union writes({"attempt"}, Maybe(2 .. def.retry.maxAttempts))
        \union writes({"age"}, {Absent, 0})
        \union writes({"scheduledAt", "other"}, {Absent, TRUE})
        \union writes({"alarm"}, Maybe(Nat)) \union writes({"event"}, JobEvent)
        \union writes({"all"}, {Absent})

HandlerState ==
    [op : Requested \union {"none", "alarm"}, pc : JobPcs, todo : Seq(Writes),
     seen : {Absent} \union SUBSET Ids, id : 0 .. MaxIds, attempt : Nat,
     count : 0 .. MaxCount,
     result : {"none", "success", "retryScheduled", "terminated"},
     plan : Plans, found : BOOLEAN, created : BOOLEAN, shared : BOOLEAN]

StoreState ==
    [meta : {Absent, "initializing", "running"},
     state : {Absent} \union SUBSET Ids, count : {Absent} \union 0 .. MaxCount,
     attempt : {Absent} \union 2 .. def.retry.maxAttempts,
     age : {Absent} \union 0 .. def.retry.maxDuration,
     scheduledAt : {Absent, TRUE}, other : {Absent, TRUE}]

History ==
    [issued : 0 .. MaxIds, kept : SUBSET Ids, settled : SUBSET Ids,
     repeated : BOOLEAN, raced : BOOLEAN, half : BOOLEAN]

DataOK ==
    /\ def \in Definitions
    /\ store \in StoreState
    /\ alarm = Absent \/ alarm \in Nat
    /\ hist \in History
    /\ budget \in [calls : Nat, failures : Nat, faults : Nat]

(* Where each kind of handler can be. *)
HandlersOK ==
    /\ hs \in [Handlers -> HandlerState]
    /\ \A h \in Handlers :
          /\ ~Active(h) => hs[h] = Idle
          /\ hs[h].pc = "started" => def.type = "continuous"
          /\ hs[h].pc = "reduce" => def.type = "debounce" /\ h \in Requests
          /\ hs[h].pc \in {"settle", "idling"} => def.type = "task"
          /\ hs[h].pc = "run" => hs[h].attempt >= 1
          /\ hs[h].pc = "result" => hs[h].result # "none"
          /\ hs[h].created => h \in Requests
          /\ hs[h].id # 0 /\ def.type # "debounce"
                => hs[h].pc \in {"settle", "idling", "result", "return"}
          /\ def.type = "workerPool" => hs[h].pc \in {"idle", "fail"}
          /\ \A g \in Handlers \ {h} : Active(h) /\ Active(g) => hs[h].shared

write(h, i) == hs[h].todo[i]

Pending(h, k) == \E i \in DOMAIN hs[h].todo : hs[h].todo[i].key = k

(* Metadata is initialized first of all, everything is deleted last of     *)
(* all, behind the cancelling of the alarm; only deletions are soft.       *)
WritesOK ==
    \A h \in Handlers : \A i \in DOMAIN hs[h].todo :
       /\ write(h, i).soft => write(h, i).val = Absent
       /\ write(h, i).key = "meta" =>
             /\ i = 1 /\ hs[h].created
             /\ def.type = "continuous" => /\ hs[h].pc = "started"
                                           /\ Pending(h, "state")
                                           /\ Pending(h, "status")
             /\ def.type = "debounce" => hs[h].pc \in {"reduce", "fail"}
       /\ write(h, i).key = "all" =>
             /\ i = Len(hs[h].todo)
             /\ \/ hs[h].pc = "return"
                \/ hs[h].pc = "result" /\ hs[h].result = "terminated"
             /\ i = 1 => alarm = Absent
             /\ i # 1 => /\ write(h, i - 1).key = "alarm"
                         /\ write(h, i - 1).val = Absent
                         /\ write(h, i - 1).soft = write(h, i).soft
       /\ write(h, i).key = "alarm" /\ def.type # "task" =>
             /\ write(h, i).val = Absent => Pending(h, "all")
             /\ \A j \in DOMAIN hs[h].todo :
                   j > i => write(h, j).key # "state"

(* A handler that writes nothing more.                                     *)
Harmless(h) ==
    /\ hs[h].todo = <<>>
    /\ \/ hs[h].pc = "return"
       \/ hs[h].pc = "fail" /\ h \in Requests
       \/ hs[h].pc = "result" /\ hs[h].result = "terminated"

Creates(h) == hs[h].todo # <<>> /\ Head(hs[h].todo).key = "meta"

(* Where there is no metadata there is nothing, and whoever is in flight   *)
(* writes nothing, unless it creates the job - as far as it was not        *)
(* overtaken by a purge.                                                   *)
GoneOK ==
    /\ store.meta = Absent /\ ~hist.raced => store = Empty
    /\ \A h \in Handlers :
          /\ Active(h) /\ store.meta = Absent
          /\ (~hist.raced \/ ~hs[h].shared)
          => Harmless(h) \/ Creates(h)

Sets(h) ==
    \E i \in DOMAIN hs[h].todo :
       write(h, i).key = "alarm" /\ write(h, i).val # Absent

(* A handler that will see to it that the job has an alarm, or is gone; or *)
(* that will be delivered again, or leave the job half created.            *)
Guards(h) ==
    \/ Pending(h, "all")
    \/ /\ h = "alarm" \/ hs[h].created
       /\ \/ hs[h].pc \in {"started", "reduce", "execute", "run", "fail"}
          \/ hs[h].pc = "result" /\ hs[h].result = "success"
          \/ Sets(h)

Founds(h) ==
    /\ hs[h].created /\ Guards(h)
    /\ hs[h].pc \in {"reduce", "fail"} \/ Pending(h, "state")

Starts(h) == hs[h].created /\ hs[h].pc = "started" /\ Pending(h, "status")

GuardOK ==
    /\ ~hist.half /\ def.type \in {"continuous", "debounce"} /\ store.meta # Absent
    => /\ alarm = Absent => \E h \in Handlers : Guards(h)
       /\ store.state = Absent => \E h \in Handlers : Founds(h)
       /\ def.type = "continuous" /\ store.meta = "initializing"
             => \E h \in Handlers : Starts(h)

Unsettled == hist.kept \ hist.settled

Holds(h) == hs[h].pc \in {"reduce", "run", "settle", "idling"}

(* What was acknowledged is in the state, whoever is going to write it.    *)
KeptOK ==
    /\ Unsettled \subseteq Contents
    /\ store.meta = Absent \/ (def.type = "debounce" /\ Count = 0) => Unsettled = {}
    /\ \A h \in Handlers :
          /\ \A i \in DOMAIN hs[h].todo :
                /\ write(h, i).key = "state" => Unsettled \subseteq write(h, i).val
                /\ \/ write(h, i).key = "all"
                   \/ /\ write(h, i).key = "count" /\ write(h, i).val = 0
                      /\ def.type = "debounce"
                   => Unsettled = {}
          /\ Holds(h) => Unsettled \subseteq Seen(h)
          /\ def.type = "debounce" /\ hs[h].pc = "result" /\ hs[h].result = "success"
                => Unsettled = {}

(* What a handler has taken in that runs alone is in the state, or is      *)
(* going to be.                                                            *)
OwnOK ==
    \A h \in Handlers :
       Active(h) /\ ~hs[h].shared /\ hs[h].id # 0 /\ hs[h].id \notin hist.settled =>
          /\ \/ \E i \in DOMAIN hs[h].todo :
                   write(h, i).key = "state" /\ hs[h].id \in write(h, i).val
             \/ hs[h].id \in Contents
             \/ hs[h].pc \in {"settle", "idling"}
          /\ def.type = "debounce" => 
                \/ \E i \in DOMAIN hs[h].todo :
                      write(h, i).key = "count" /\ write(h, i).val # 0
                \/ Count # 0
          /\ ~Pending(h, "all") /\ store.meta # Absent
          /\ def.type = "debounce" /\ hs[h].pc = "run" => hs[h].id \in Seen(h)
          /\ ~(def.type = "debounce" /\ hs[h].pc = "result"
                 /\ hs[h].result = "success")
          /\ \A i \in DOMAIN hs[h].todo :
                /\ write(h, i).key = "state" => hs[h].id \in write(h, i).val
                /\ write(h, i).key = "count" => write(h, i).val # 0

(* A handler that has settled something is going to purge the job. *)
Settles(h) ==
    \/ Pending(h, "all")
    \/ def.type = "debounce" /\ hs[h].pc = "result" /\ hs[h].result = "success"

Apart(ids) == ids \intersect hist.settled = {} /\ ids \subseteq 1 .. hist.issued

FlushOK ==
    /\ hist.settled \subseteq 1 .. hist.issued /\ hist.kept \subseteq 1 .. hist.issued
    /\ Contents \subseteq 1 .. hist.issued
    /\ \A h \in Handlers :
          /\ Seen(h) \subseteq 1 .. hist.issued /\ hs[h].id <= hist.issued
          /\ \A i \in DOMAIN hs[h].todo :
                write(h, i).key = "state" => write(h, i).val \subseteq 1 .. hist.issued
    /\ hist.repeated => budget.faults > 0 \/ hist.raced
    /\ budget.faults = 0 /\ ~hist.raced /\ (\A h \in Handlers : ~Settles(h)) =>
          /\ Apart(Contents)
          /\ \A h \in Handlers :
                /\ Holds(h) => Apart(Seen(h))
                /\ hs[h].pc \in {"settle", "idling"} => Apart({hs[h].id} \ {0})
                /\ \A i \in DOMAIN hs[h].todo :
                      write(h, i).key = "state" => Apart(write(h, i).val)

(* A task's alarm is recorded at the next write at the latest. *)
NextIs(h, k) == hs[h].todo # <<>> /\ Head(hs[h].todo).key = k

RecordOK ==
    def.type = "task" =>
      /\ NothingFailed =>
          /\ alarm # Absent =>
                \/ store.scheduledAt # Absent
                \/ \E h \in Handlers : NextIs(h, "scheduledAt")
                                         /\ Head(hs[h].todo).val # Absent
          /\ hs["alarm"].pc # "fail"
      /\ \A h \in Handlers : 
          /\ \A i \in DOMAIN hs[h].todo :
                /\ write(h, i).key = "alarm" =>
                      \/ write(h, i).val = Absent /\ Pending(h, "all")
                      \/ /\ i < Len(hs[h].todo)
                         /\ write(h, i + 1).key = "scheduledAt"
                /\ write(h, i).key = "scheduledAt" /\ i > 1 =>
                      /\ write(h, i - 1).key = "alarm" /\ ~write(h, i - 1).soft
                      /\ write(h, i - 1).val = Absent <=> write(h, i).val = Absent
          /\ NextIs(h, "scheduledAt") =>
                (Head(hs[h].todo).val = Absent <=> alarm = Absent)
          /\ hs[h].pc = "settle" /\ hs[h].plan = "cancel" =>
                /\ ~Pending(h, "event") /\ ~Sets(h)
                /\ alarm = Absent \/ \E i \in DOMAIN hs[h].todo :
                                        /\ write(h, i).key = "alarm"
                                        /\ write(h, i).val = Absent
                                        /\ ~write(h, i).soft

(* What a request that is being served asked for, and what it has found    *)
(* out; what was found to exist is answered at once.                       *)
ForNew == {"start", "add", "send"}

ServesOK ==
    \A h \in Requests : Active(h) /\ def.type # "workerPool" =>
       /\ [type |-> def.type, action |-> hs[h].op] \in JobRequest
       /\ hs[h].op \notin Reads
       /\ hs[h].created => hs[h].op \in ForNew
       /\ hs[h].pc = "started" => hs[h].op = "start"
       /\ hs[h].pc = "reduce" => hs[h].op = "add"
       /\ hs[h].result # "none" => hs[h].pc \in {"result", "return"}
       /\ Pending(h, "meta") => hs[h].pc \in {"started", "reduce", "execute", "fail"}
       /\ hs[h].op = "start" /\ ~hs[h].created =>
             /\ hs[h].pc = "return" /\ hs[h].todo = <<>>
             /\ hs[h].result = "none" /\ store.meta # Absent

(* A request that is going to leave the job gone, one that is going to     *)
(* leave it there, and what a retry that was scheduled needs.              *)
MustEnd(h) ==
    \/ hs[h].op \in {"terminate", "clear"}
    \/ hs[h].result = "terminated"
    \/ hs[h].op = "trigger" /\ ~hs[h].found
    \/ hs[h].pc = "return" /\ hs[h].op = "flush" /\ hs[h].result # "retryScheduled"
    \/ hs[h].pc = "return" /\ hs[h].op = "add" /\ hs[h].result = "success"

MustStay(h) ==
    /\ def.type = "continuous" /\ hs[h].result # "terminated"
    /\ hs[h].op = "start" \/ (hs[h].op = "trigger" /\ hs[h].found)

Counts(h, i) == write(h, i).key = "attempt" /\ write(h, i).val # Absent

Undisturbed == budget.faults = 0 /\ ~hist.raced

(* What will be so when the writes of a request that runs alone are made.  *)
AnswerOK ==
    /\ store.meta = Absent /\ Undisturbed => alarm = Absent
    /\ Undisturbed /\ ~hist.half /\ def.type # "workerPool" =>
         \A h \in Requests : Active(h) /\ ~hs[h].shared =>
            /\ MustEnd(h) => Pending(h, "all") \/ store.meta = Absent
            /\ MustStay(h) =>
                  ~Pending(h, "all") /\ (store.meta # Absent \/ Creates(h))
            /\ hs[h].result = "retryScheduled" =>
                  /\ store.attempt # Absent \/ \E i \in DOMAIN hs[h].todo : Counts(h, i)
                  /\ \A i \in DOMAIN hs[h].todo :
                        /\ write(h, i).key = "attempt" => Counts(h, i)
                        /\ write(h, i).key # "all"

=============================================================================
