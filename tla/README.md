# A verification project for durable-effect

The repository (`packages/`) holds four TypeScript packages that run durable
programs inside Cloudflare Durable Objects: `workflow`, `jobs`, `task-group` and
the `core` they share. This directory models them in TLA+, checks the models with
TLC and proves theorems about them with TLAPS. Paths below are relative to
`src/packages/` unless they say otherwise.

## 1. The system

A Durable Object is a single-threaded object with durable key-value storage and
*one* alarm. Setting the alarm replaces it, its delivery consumes it, and a
handler of it that does not finish is delivered again. The object may be evicted
from memory when it is idle and may crash at any time; its constructor runs when
the next request or alarm reaches it. While a handler awaits storage the platform
delivers no other event to the object (the input gate); while it awaits anything
else (user code that waits, an HTTP request) it does.

| component | state | operations | interacts with |
|---|---|---|---|
| workflow engine (`workflow/src/engine`) | none | constructor, run, runAsync, alarm, cancel, reads | all the services below |
| orchestrator (`workflow/src/orchestrator`) | none of its own | start, queue, handleAlarm, cancel, cleanup | state machine, executor, recovery, purge, alarm, tracker |
| state machine (`workflow/src/state`) | `workflow:*` keys | initialize, applyTransition, checkRecoverability, setCancelled, counters | storage |
| executor (`workflow/src/executor`) | none | execute, handleExit (sets the alarm of a pause) | primitives, alarm |
| step, sleep, sleepUntil (`workflow/src/primitives`, `context`) | `step:*` keys, pause index, pendingResumeAt | replayed from the start on each resume | storage, user code, tracker |
| recovery (`workflow/src/recovery`) | recoveryAttempts | checkAndScheduleRecovery (constructor), executeRecovery (alarm) | state machine, alarm |
| purge (`workflow/src/purge`) | `purge:*` keys | schedulePurge, executePurgeIfDue | storage, alarm |
| job execution (`jobs/src/services`, `jobs/src/retry`) | state, attempt, metadata | execute with retries, cleanup | user code, storage, alarm, tracker |
| continuous, debounce, task handlers (`jobs/src/handlers`) | run count, event count, schedule | start/trigger/terminate, add/flush/clear, send/trigger/terminate; status, getState; alarm | job execution, alarm |
| job engine, dispatcher, client (`jobs/src`) | metadata (type, name) | route a request or an alarm | handlers |
| task-group on Cloudflare (`task-group/src`, `cloudflare`) | task state, alarm key, routing keys, system failure | handleEvent, handleAlarm, fireAlarm, context operations, purge | user code, storage, alarm |
| task-group in memory (`InMemoryRuntime.ts`, `TaskRunner.ts`) | the same per instance | send, fireAlarm, tick, injectSystemFailure, sibling calls | user code |
| tracker (`core/src/tracker`) | event buffer | emit, flush | HTTP |
| back-off (`core/src/retry`) | none | delay of an attempt | - |

What is hard here:

* *Handlers overlap.* A request that awaits the user's function leaves the object
  open to its alarm, to a cancellation and to further requests. Each handler
  decides on what it read some awaits ago.
* *Every write is on its own.* A pause is an alarm and a status, the end of a sleep
  two keys, a schedule an alarm and a key, a new job up to five keys. A crash, or
  in some places a failing storage call, falls between any two.
* *One alarm, many uses.* Sleeps, retries, queueing, recovery and the purge of a
  workflow share it; so do the runs and the retries of a job.
* *Replay.* A resumed workflow runs its program from the start; what is skipped
  depends on keys written by earlier, possibly interrupted, executions.
* *Recovery.* The constructor guesses from storage whether an execution was
  interrupted; an idle sleeping workflow looks much like an interrupted one.
* *Deletion.* A job or task is deleted by a handler while others are in flight,
  which then write into the storage of an instance that is gone.
* *Telling others.* Answers, events and `status` are put together from what was
  read before and after other steps, and must be true when they arrive.

What makes each part correct is stated by the properties of section 3; the hazards
they are for are listed, line by line, in `PROJECT.json`.

## 2. Modules

| module | what it is |
|---|---|
| `WorkflowTransitions` | statuses, transitions and the table `VALID_TRANSITIONS` (`state/transitions.ts`), with what `applyTransition` accepts and stores |
| `WorkflowLifecycle` | the abstract specification: what a client of a workflow is promised (phases, steps finishing in order, a requested stop) with no storage, alarm or crash |
| `WorkflowEngine` | one workflow instance with its storage, alarm, handlers, clock and failures |
| `WorkflowProperties` | its properties, the refinement mapping, the inductive invariant, fairness |
| `WorkflowEvents` | `WorkflowEngine` with the events its actions emit, and a consumer of them |
| `WorkflowEngine_proofs`, `WorkflowReplay_proofs`, `WorkflowPauses_proofs`, `WorkflowEvents_proofs` | theorems, each module using those before it (section 4) |
| `Backoff` | the delays between retries (`core/src/retry`) |
| `JobDefinitions`, `JobRequests` | definitions and registry; requests, answers and events of jobs |
| `JobStore` | storage, alarm, handlers in flight, time and failures of one job instance |
| `JobExecution` | the execution service with its retry executor and clean-up |
| `ContinuousJob`, `DebounceJob`, `TaskJob` | the three handlers |
| `JobEngine` | the dispatcher: composes the handlers; the specification |
| `JobProperties`, `JobEngine_proofs` | its properties and inductive invariant; theorems about them |
| `TaskGroup`, `TaskGroupProperties`, `TaskGroup_proofs` | a task on its Durable Object |
| `InMemoryRuntime`, `InMemoryRuntime_proofs` | the in-memory runtime and the task runner |
| `EventTracker`, `EventTracker_proofs` | the HTTP batch tracker within one call |
| `MCWorkflow`, `MCEvents`, `MCJobs`, `MCTaskGroup`, `MCTracker`, `MCInMemory` | instances for TLC |

### WorkflowEngine

*State.* `wf` is the record of the `workflow:*` and `purge:*` keys the control
depends on, `steps[i]` the `step:<name>:*` keys of the i-th operation, `alarm` the
alarm slot (`NoTime` when unset), `up` whether an instance is in memory, `hs[h]`
the position (`pc`) and the local variables of the handler `h` in flight: `run`
(run and runAsync), `alarm`, `cancel`. `now` is the clock, `budget` counts requests
and failures against their bounds, `hist` is history that no action's guard reads.
The program is a constant, a sequence of operations (`step`, `sleep`, `sleepUntil`)
with their limits.

*Actions.* An action is the stretch of a handler from one write to the next, so
every write is a step and a crash may fall between any two. A handler may move
only when no other handler is in the middle of such a stretch (`Turn`): this is
the input gate. The positions in `Yielding` are those where a handler waits for
something else than storage, where the others may move: the user's step
(`effect`), and the emits of tracking events, each of which sends an HTTP batch
when it fills the buffer (`core/src/tracker/http-batch.ts:168`).

| code | actions |
|---|---|
| `engine.run`/`runAsync`, `orchestrator.start`/`queue` | `Run`, `Start`; `RunAsync`, `Queue`, `ScheduleQueued` |
| `executor.execute` | `BeginExecution`, `ProgramEnds`, `PauseAlarm`, `Pause`, `Finish` |
| `primitives/step.ts` | `StepCancelled`, `StepCached`, `StepGivenUp`, `StepBegins`, `EffectSucceeds`, `EffectFails`, `EffectRetries`, `markStepCompleted` |
| `primitives/sleep.ts` | `PauseSkipped`, `PauseOver`, `clearPendingResumeAt`, `SleepBegins`, `SleepUntilBegins`, `SleepUntilPast` |
| `orchestrator` cleanup, `purge/manager.ts` | `CancelAlarm`, `schedulePurge`, `PurgeAlarm`, `executePurge` |
| `orchestrator.handleAlarm` | `StartQueued`, `Resume`, `AlarmIgnored` and the three recovery actions |
| `recovery/manager.ts` | `Construct` (the check), `incrementRecoveryAttempts`, `Recover`, `resetRecoveryAttempts`, `RecoveryExhausted` |
| `orchestrator.cancel` | `setCancelled`, `CancelNow`, `CancelScheduled` |
| the platform | `DeliverAlarm`, `WakeByAlarm`, `Crash`, `Evict`, `Tick` |

*What the platform is taken to do* (its code is not in the repository): a crash
loses every handler in flight; an alarm whose handler crashed or threw is
delivered again unless a newer one is set; when a due alarm instantiates the
object and the constructor moves the alarm, the delivery either goes on or is
dropped for the new time (both are allowed); `Tick` lets time pass only where
something waits for time, at most `MaxLate` past the alarm and `MaxEffect` into a
step, and a stretch of storage operations takes no time.

*Left out.* Names, inputs, outputs, error values, reasons and event payloads; the
timestamps `workflow:startedAt` and `lastRecoveryAt`, which nothing reads to
decide; jitter; failures of single storage calls (a handler that stops there and
lets its caller know; the model has crashes at the same points); read-only
requests (they are `Construct`); the second write of `currentPauseIndex`, merged
with the write that follows it; the flush at the end of a handler, merged with
its return. Step names are taken to be unique, as the API asks.

### WorkflowEvents

The events of `core/src/events.ts` and the place where each is emitted: every
action of `WorkflowEngine` that emits is paired with its events, in order, and the
others are `Silent`. `view` is what a consumer makes of the stream: the phase, the
step that is open, the attempts, the completed steps. `Expected` says where each
event may come. Four peculiarities of the code are visible there: an exhausted
retry emits `retry.exhausted` and no `step.failed`, a cached step emits nothing,
a recovery that gives up fails the workflow without an event, and
`sleep.completed` is emitted before the end of the sleep is stored
(`primitives/sleep.ts:99`).

### The jobs modules

*State* (`JobStore`). `store` is the record of the keys one job instance decides on:
the metadata's status, the entity state (a set of ids, one for each event or run
it has taken in, so that a lost update shows as a missing id), the run or event
count, the retry executor's attempt and the age of its start, a task's
`scheduledAt`, and one key for the bookkeeping ones. `alarm` is the time left until
the alarm. `hs[h]` is a handler in flight: a request, or the alarm.

*Segments.* A handler runs in segments. A segment reads, decides and leaves its
writes in `todo`, in the code's order; `Perform` makes them one at a time. `Crash`
may come between any two, and `Fault` fails any one (`StorageError`): the handler
then fails, unless the code ignores the failure (`soft`: the clean-up and the
retry reset of a trigger). Handlers move in between only where one waits for the
user's function or for an HTTP request (`Yielding`).

| code | actions |
|---|---|
| `engine.ts`, `dispatcher.ts` | `call`, `handle`, `handleAlarm`, `AlarmForNothing`, `handleWorkerPool` |
| `execution.ts`, `retry/executor.ts`, `cleanup.ts` | `Execute`, `ExecuteNothing`, `ExecuteTooLate`, `RunSucceeds`, `FlushSucceeds`, `RunFails`, `RunTerminates` |
| `continuous/handler.ts` | `StartNew`, `StartExisting`, `FirstRun`, `Trigger`, `Terminate`, `ContinuousAlarm`, `ScheduleNextRun`, `ScheduleNothing` |
| `debounce/handler.ts` | `Add`, `Reduce`, `Flush`, `DebounceAlarm`, `Flushed`, `NotFlushed`, `Clear` |
| `task/handler.ts`, `task/context.ts` | `Send`, `TaskTrigger`, `TaskAlarm`, `TaskTerminate`, `TaskReturns`, `GoIdle`, `StayBusy`, `IdleReturns`, `TaskEnds` |
| answers (`client/response.ts`, `runtime/types.ts`) | `continuousResponse`, `debounceResponse`, `taskResponse`, `read` |

`status` and `getState` only read, in one go, and have no step of their own: `read`
is the answer they would get, and the properties ask it. A worker pool has a
client but no handler (`runtime/dispatcher.ts:78`): its requests fail. The user's
functions are nondeterministic: they take something in, fail, terminate the job, or
plan a schedule. `RetryDelays` are what `Backoff` and its jitter give, less the
time the failed attempt took.

*History* (`hist`, read by no guard): the ids acknowledged by handlers that ran
alone (`kept`), those flushed or discarded (`settled`), whether a purge overtook a
handler in flight (`raced`), whether a creation or purge was cut short (`half`).
The last two are the excuses the properties need, because the code really leaves
such jobs behind (section 3).

*Left out.* Names, inputs, error values, wording; cron expressions (of a schedule
the time to the next run is kept); `stopReason` and statuses no handler writes;
the idempotency service, which no handler uses; rescheduling, which nothing in the
package returns; how a worker pool's client picks an instance.

### TaskGroup

One task on its Durable Object. `storage` holds the routing keys, the state (a set
of ids) and the alarm key, `alarm` the object's alarm with whether it is a retry,
`systemFailure` the runtime's field in memory. A user's function is any sequence
of context operations (`recall`, `save`, `update`, `scheduleAt`, `cancelSchedule`),
between which it may wait, and ends with `purge`, `Returns` or `Throws` (then its
error handler goes on, if it has one). `handleEvent`, `fireAlarm`, `AlarmRuns` and
`AlarmIgnored` are the runtime. Writes are performed one at a time as in
`JobStore`; a storage or alarm call that fails may be caught by the function, as
the operations' errors are typed. Time is left out: a set alarm may be delivered
at any moment. `fireAlarm` on an instance without routing keys may set an alarm
that is ignored when it comes; the properties about alarms speak of behaviours in
which nobody fired an alarm by hand.

### InMemoryRuntime

The in-memory runtime and the task runner in one module: `place` says which storage
and alarm an instance is given, and is fixed at the start as `Own` (the in-memory
runtime keeps one for each instance) or `Shared` (the runner passes its caller's
to every sibling, `TaskRunner.ts:64`). One call is made from outside at a time, as
the tests do; a handler that sends to a sibling waits for it, so that handlers in
flight are a `stack`, the innermost first. `tick` collects the due alarms and then
fires them, in any order (the code: insertion order). What decides nothing is left
out: `getState`, an event that does not decode, an unknown sibling.

### EventTracker

The tracker of one call: the fibers of a handler emit side by side, each may find
the buffer full and flush it, and the call's own fiber flushes at its end. Every
read and write of the buffer is a step, which is more than Effect's scheduler
would do. The endpoint takes a batch, fails, or takes it and is not heard; a batch
is retried `maxAttempts` times and then dropped. When the handler fails, nothing
is flushed and what is in the buffer is lost with the tracker.

## 3. Runs

| run | instance | shows |
|---|---|---|
| `workflow_faults` | a step with retry, maxDuration and timeout, sleep, sleepUntil, step; 2 submissions, a cancellation, 1 crash, 1 eviction that moves an alarm, purge | handlers keep out of each other's way, no refused transition, a replay resumes where it stopped, a purge leaves nothing, and the engine implements `WorkflowLifecycle` |
| `workflow_pauses` | step, sleep, step with all limits, sleepUntil; 2 submissions, 1 crash | sleeps last and are begun once, all finished steps are reported, the purge is scheduled; the events come in an order a consumer can follow, tell the whole state, and never run ahead of what is stored |
| `workflow_recovery` | step with a retry slower than a recovery, sleep; 2 crashes, 1 eviction, 1 recovery attempt | every accepted workflow ends; one that runs is purged in the end unless the object crashes once more, recovery gives it up or cancel() itself ends it, and a purge whose alarm is set is made whatever crashes; no eviction makes a retry come early |
| `jobs` | continuous with and without retry, debounce with retry and full batches, debounce whose events are sent one by one, task with onIdle, worker pool; 2 requests and the alarm in flight, 2 failures, 1 crash or storage fault | a job that exists has an alarm, a purged one has left nothing, acknowledged work is kept, no batch is flushed twice, answers and `status` are true, onIdle means no alarm |
| `jobs_liveness` | continuous with growing retry delays, debounce with a retry; 1 request, 2 failures, 1 fault | kept events are flushed in the end, a continuous job runs again and again, retries come to an end |
| `task_group` | 2 requests and the alarm, 2 alarm times, 3 saves, 4 operations, 1 failure, 1 crash or fault | alarm and stored schedule agree, a promised alarm is set, a purge leaves nothing, updates are kept, a retried alarm knows of its failure and no alarm is lost |
| `event_tracker` | 3 fibers, batches of 2, 1 retry, 5 events | no event vanishes or is sent twice, batches stay small, an answered call has flushed, and an endpoint that fails keeps nobody waiting |
| `in_memory` | 2 instances (own or shared storage), 2 times, 3 saves, calls 3 deep, 3 outside calls, 4 operations, 2 failures | instances keep apart, a tick loses no alarm that is due |

Each violation run checks one statement of the repository's own docs that the code
does not keep:

| run | statement | what happens |
|---|---|---|
| `sleep_restarted` | "Durable sleep that survives process restarts" (`workflow/src/primitives/sleep.ts:16`) | an eviction during a sleep, then any request: the constructor takes the sleeping workflow for an interrupted one and moves the alarm to `now + recoveryDelayMs`; the early resume makes `sleep` compute a new wake-up time |
| `sleep_after_past` | the same | a `sleepUntil` whose time has passed completes no pause point (`sleep.ts:200`); the replay that is to end the sleep behind it meets it first, takes it for what was waited for, and the sleep starts over |
| `recovery_loop` | "Prevents infinite recovery loops" (`workflow/src/recovery/config.ts:20`) | the counter is reset before the recovered execution runs |
| `idle_not_called` | "called when either `onEvent` or `execute` completes and no alarm is scheduled" (`jobs/src/registry/types.ts:207`) | whether one is scheduled is read from a key the alarm handler does not clear: after an alarm whose function plans nothing, onIdle is not called |

*Bounds.* One instance is enough where instances share nothing (all but the
in-memory runtime, where two are needed for one to send to the other and back).
Two workflow submissions show a second life after a purge. Two requests and the
alarm are the smallest set in which two requests overlap and a third handler
purges; a third request would only repeat one of them. In the course of a behaviour
a job gets up to three requests (two for the continuous job with retries, whose
alarm takes the part of the third, and for the task). One crash between any two
writes is where every atomicity hazard of a single window shows; two crashes let
the second fall into the recovery from the first. Two failures exhaust the
retries used (2 executions), two operations are a read and a write that depends on
it, and two more let another handler come between. `MaxTime` is a horizon: it is
reached in `workflow_faults` (where nothing is claimed to happen eventually) and
lies beyond every behaviour of the other runs, so no liveness property is refuted
or saved by it. Counters of jobs stop at `MaxCount`, above every limit that is
compared with them. Deadlock is not checked because a workflow that is over, or a
job without alarm, with the requests used up, really stops.

*Fairness.* Workflows (`WorkflowProperties!FairSpec`): a handler that can go on
does (JavaScript's event loop), the user's step ends one way or another, the
platform delivers a due alarm and time passes, an idle instance is eventually
evicted, and somebody eventually sends the object a request. The last one is what
the recovery of an interrupted `run` needs, since there is no alarm then: only a
constructor takes it up. Jobs (`JobEngine!FairSpec`): the same without evictions
and without any request. Tracker (`EventTracker!FairSpec`): Effect takes every
fiber on, and an HTTP request ends with an answer or an error, which is the
platform's doing: the code sets it no time limit (`core/src/tracker/http-batch.ts:120`).
Requests, crashes, faults and the choice of an outcome are never fair.

*What the properties excuse.* The following behaviours are in the models, are what
the code does, and are why a property has a condition:

* A crash between the two writes that end a sleep leaves its wake-up time behind,
  and the next sleep is skipped (`workflow/src/primitives/sleep.ts:105`); one
  between a step's result and the list of completed steps leaves the step out of
  it (`step.ts:547`); one between a terminal status and its cleanup loses the
  purge (`orchestrator.ts:194`). A workflow whose recoveries are used up fails
  without a purge being scheduled (`recovery/manager.ts:231`).
* A crash after the first write of run or runAsync leaves a Pending or Queued
  workflow nothing starts (`orchestrator.ts:290`), and `cancel()` of a queued or
  paused workflow schedules no purge (`orchestrator.ts:581`; `engine/types.ts:27`
  promises it for cancelled workflows too). `EndedIsPurged` leaves out crashes and
  Cancelled. `EndedIsDeleted` is stated for each number of crashes so far: a workflow that
  runs after any number of them is deleted in the end, a cancelled run included, or
  another crash comes, or recovery gives it up, or cancel() itself ends it
  (`EndedUnpurged`; TLC refutes the property without any one of the three).
* The deadline of a step attempt counts from the first attempt (`step.ts:384`;
  `step.ts:99` says each attempt gets the full timeout). After a crash the recovery may run a
  step again before its retry delay is over.
* A `sleepUntil` in the past leaves no trace of its pause point, and an eviction
  moves the alarm of a sleep (runs `sleep_after_past`, `sleep_restarted`):
  `SleepsAreNotRestarted` speaks of sleeps with no `sleepUntil` before them (`Firm`)
  in behaviours without a crash or such an eviction (`Undisturbed`). The order of the
  events (`EventsAreOrderly`) needs `Undisturbed` too: a sleep that is started over
  is reported as started twice.
* A job whose first run fails without retry, or whose creation is cut by a crash or
  by an event that does not decode, exists without an alarm (`half`). A failure of
  the clean-up's terminate is ignored and leaves a job that was to be gone.
* An event added while a flush runs is deleted by the purge behind the flush, and
  overlapping flushes flush a batch twice: the properties speak of handlers that
  ran alone. A terminate, clear or flush that overtakes a function in flight leaves
  the state, the attempt or an alarm in storage (`raced`); the attempt is then what
  the next job of the id starts with (`jobs/README.md:467` says it starts fresh).
* `flush` answers `flushed: true` even when only a retry was scheduled or the job
  was given up; the `scheduledAt` of a task may be of an alarm that has fired.
* In the in-memory runtime an alarm that an earlier handler of the same tick
  cancelled still fires, a rescheduled one is cleared, and the alarm of a failing
  handler is lost with the rest of its tick's calls (the others stay set).
* The retry executor gives a job up after `maxAttempts` executions, the first
  included (`jobs/src/retry/executor.ts:183`; `core/src/retry/types.ts:43` says
  "maxAttempts: 3 means up to 4 total executions").
* Batches may exceed `batchSize` by one event per other fiber.

Three things about the jobs' inputs are outside the models: a number given as an
interval or as flushAfter is taken for an absolute time by
`jobs/src/services/alarm.ts:71`; instance ids `type:name:id` collide when names
contain colons; the round robin of a worker pool's client restarts with every
`client.workerPool(name)`.

## 4. Proofs

Eight modules hold proofs, each for every value of its constants and without regard
to the bounds. Each proves an inductive invariant and draws the properties from it.
`TypeOK` is proved for each and run for the jobs only, where it says what answers
look like; the runs check the other properties themselves, on the small instances
above.

`WorkflowEngine_proofs`, for every program and every configuration: `TypeCorrect`;
`HandlersCoordinate` (`Spec => []Coordination`); `Exclusive`, `Legal`,
`PausedIsWoken`, `PurgedIsClean`. That no two handlers execute the program and that
no transition is refused does not follow from itself: a request executes the
program without any alarm, and what keeps the alarm handler away is that there *is*
no alarm while it does (`RunOK`), that the only alarm set under it is its own,
immediately before it stops (`EngagedOK`), that a cancellation acts only on a
Queued or Paused workflow, which nobody executes (`CancelOK`), and that a purge is
scheduled by the last write of whoever ended the workflow (`PurgeOK`). `OneAtATime`
is the input gate as an invariant, `PositionsOK` and `RegistersOK` say where a
handler can be and what it remembers there. The proof has one lemma per action and
conjunct group. Assumptions: `ProgramAssumption`, `ConfigAssumption`.

`WorkflowReplay_proofs`, from `Coordination`: `ReplayResumes`, `ImplementsLifecycle`
(`Spec => LifecycleSpec`), `CompletedRecorded`, `EndedPurged`. `ReplayOK` says that
the stored results are those of a prefix of the steps, that an execution passes a
step only with its result and decides to end for a reason; it needs no excuse,
crashes and evictions included. With it every step of the engine is a step of
`WorkflowLifecycle` or a stutter (`ExecutionRefines`, `HandlerRefines`,
`NextRefines`). `RecordsOK` (a stored result is in the list of completed steps or
about to be) and `EndsOK` (a workflow is Running only while it is executed, one that
ended is on its way to its purge) hold as long as nothing crashes.

`WorkflowPauses_proofs`: `RetriesWait`, `SleepsTakeTheirTime` (an action property),
`SleepsBeginOnce`. A replay numbers the pause points it meets, in memory, and the
stored wake-up time belongs to one of them without naming it. `PausesOK` relates the
replay's position to the number of pause points before it (`PausesBefore`, a
cardinality, hence the lemmas about counting), `PendingOK` says to which pause
point the wake-up time belongs, `RetriesOK` and `SleepsOK` that what is not due yet
is waited for (`SuspendedUntil`). The proof classes the engine's actions by what they
do to the clock, the pauses and the position (`MovesOutside`, `StepKinds`,
`SleepKinds`) and proves each class once.

`WorkflowEvents_proofs`: `EventsTellTruth`, `EventsTell`, `EventsInOrder`, of
`EventSpec`, which implements `Spec` (`EventsRefine`), so that everything above holds
of it too. `ToldOK` says what the consumer knows while handlers are in flight: the
phase, the open step and the attempts so far; `AsleepOK` that it knows of a sleep
just when a wake-up time is stored. `EventsAreTrue` is inductive by itself, from
`Coordination` and `ReplayOK`, whatever crashes.

`EventTracker_proofs`, for any number of fibers, any batch size, number of retries
and of events: `TypeCorrect`, `Tracked` (`Spec => []Tracking`), `NoneVanishes`,
`NoneIsSentTwice`, `BatchesStaySmall`, `AnswersFollowTheFlush`. What makes the
properties inductive is that the buffer and the batches in flight share no event
and none that was received (`EventsApart`), and that the buffer exceeds a batch by
no more than the number of fibers that have emitted and not yet flushed
(`BufferIsBounded`, an argument about the cardinality of a set that grows and
shrinks by one element). Assumption: `Configured`.

`TaskGroup_proofs`, for any set of requests and of times: `TypeCorrect`, `Serves`
(`Spec => [](TypeOK /\ Serving)`), `NextAlarm`, `PromiseKept`, `PurgeLeavesNothing`,
`UpdatesLast`, `RetriesKnow`, `NoAlarmIsLost` (an action property). `PendingOK`
lists what a handler may still have to write and what holds in between: after
`set("alarm", t)` the alarm is at `t` and the key is the next write; while the
storage of a purged task is empty, the only write left is the alarm's deletion.
`AlarmKnown` and `AlarmPromised` say what the key means at every moment in terms of
these pending writes, `Unrouted` that an instance without routing keys has nothing
and runs nothing. Assumptions: `AbsentIsNoValue`, `BoundsAreNumbers`,
`AlarmIsNoRequest`.

`InMemoryRuntime_proofs`, for any instances, times and depth of calls: `TypeCorrect`,
`KeepsItsWord` (`Spec => []Known`), `NextAlarm`, `UpdatesLast`, `InstancesAreApart`,
`FailuresAreTold`, `AlarmsAreKept`, `HandlersAreTold`. `HandlersKnow` says of every
handler on the stack, however deep, that it works on its own instance's place and
has been told of the instance's failure. Assumptions: `TimesAreNumbers`,
`AbsentIsNothing`, `MaxIdsIsNumber`.

`JobEngine_proofs`, for any registry of definitions, any number of requests and
any bounds: `JobIsSafe` (`Spec => []Safe`), `PurgedJobsAreEmpty`, `AlarmsGuardJobs`;
`JobLasts` (`Spec => []Lasting`), `AcknowledgedWorkIsKept`, `EventsAreFlushedOnce`,
`TasksAlarmIsRecorded`, `IdleTasksAreUnscheduled` (an action property). Every
property speaks of what is stored, and a handler in flight holds a list of what it
is still going to store; the invariant therefore says what may be in these lists.
`DataOK` and `HandlersOK` say where a handler can be and what it remembers there.
`WritesOK` is the order of the lists: metadata first, everything deleted last and
behind the cancelling of the alarm, only deletions soft. `GoneOK`: where there is no
metadata there is nothing, and whoever is in flight writes nothing or creates the
job (`Harmless`, `Creates`), up to a purge that overtook it. `GuardOK`: a job that
exists has an alarm, a state and, if continuous, a status, or a handler that is
going to see to it and is delivered again if it fails (`Guards`, `Founds`,
`Starts`). These five make up `Safe`. `KeptOK`: no list and nothing a handler has
read lacks an acknowledged id, unless it was settled; it needs `OwnOK`, which says
of a handler that runs alone that what it took in is stored or going to be, for
that is what is acknowledged when it returns. `FlushOK`: what waits, in storage or
in a list, was not settled before, as long as nobody is about to purge. `RecordOK`:
a task's alarm and its record are written in pairs, and the next write is the
record when the two disagree.

On top of these, `JobAnswers` (`Spec => []Answering`), `AnswersHold` and `JobTypes`
are about what a request is told. `ServesOK` relates the operation a handler serves
to where it can be and what it has found: who creates a job, who may wait for its
first run or its reduction, who writes metadata. So an answer is made from the
operation that was asked for, and `JobTypes` concludes that it has the shape the
client decodes. `AnswerOK` says of a request that runs alone what its answer is
going to rest on: one that will say the job ended (`MustEnd`) has the deletion of
everything still to make or finds the job gone; one that will say that it runs
(`MustStay`) deletes nothing; one that will say that it tries again has the count
of attempts stored or about to be (`WillEnd`, `WillStay`, `WillTry`). Only a handler
that runs alone is promised anything, hence `OnlyOne`: while it does, the steps of
others do not happen.

The proof sorts the actions into kinds of steps
(`Changes`: a handler begins, goes on, writes, skips a soft write, ends, is lost; or
time passes), shows what each action does in those terms (`NextDoes`) and proves
each conjunct once per kind. Assumptions: `DefinitionsAreMade`, `AlarmIsNoRequest`,
`AbsentIsNoValue`, `BoundsAreNumbers`.

Only model-checked: all liveness (liveness and ENABLED are out of the prover's
reach), and the runs that find a property of the documentation violated. Every
other invariant and action property that a run checks is a theorem.

## 5. What is not modelled, and what is left

Not modelled: the in-memory adapters of the workflow package (test doubles of the
platform the models describe); the idempotency service of the jobs package, which
no handler uses; `examples/` and documentation. Of partly modelled components,
names and payloads of events, definitions, layers of services, the wrapping of
errors, parsing of durations and cron expressions, and the choice of a worker
pool's instance are left out: text, lookups and wiring that keep no state.

What would say more, beyond this:

1. An abstract specification of a job (it exists, runs, is gone) for `JobEngine` to
   implement, with the excused behaviours (a purge that overtakes a handler, a fault)
   as steps of their own. `JobIsSafe` and `JobAnswers` hold the facts its steps need.
2. The composition of a workflow with its event tracker as one specification: the
   models meet only in what `WorkflowEvents` emits.
