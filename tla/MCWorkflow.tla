----------------------------- MODULE MCWorkflow -----------------------------
(* Small instances of WorkflowEngine for TLC. *)
EXTENDS WorkflowProperties

StepOp(delay, attempts) ==
    [kind |-> "step", ms |-> delay, maxAttempts |-> attempts,
     maxDuration |-> NoTime, timeout |-> NoTime]

Pausing(kind, ms) ==
    [kind |-> kind, ms |-> ms, maxAttempts |-> NoTime,
     maxDuration |-> NoTime, timeout |-> NoTime]

(* A retry that waits longer than a recovery would, and a sleep. *)
SlowRetrySleep == <<StepOp(2, 1), Pausing("sleep", 1)>>

(* One step with every limit: a retry within maxDuration and a timeout. *)
LimitedStep ==
    <<[kind |-> "step", ms |-> 1, maxAttempts |-> 1,
       maxDuration |-> 3, timeout |-> 2]>>

(* The same, a sleep, a sleep until a time that may have passed, a last step. *)
LimitedSleepsStep ==
    LimitedStep \o <<Pausing("sleep", 2), Pausing("sleepUntil", 5), StepOp(1, NoTime)>>

(* A step, a sleep, a limited step, a sleep until a time that may have passed. *)
SleepStepUntil ==
    <<StepOp(1, NoTime), Pausing("sleep", 2)>> \o LimitedStep
        \o <<Pausing("sleepUntil", 6)>>

SleepSleep == <<Pausing("sleep", 1), Pausing("sleep", 2)>>

(* A sleep behind a sleepUntil whose time has passed. *)
PastSleep == <<Pausing("sleepUntil", 1), Pausing("sleep", 2)>>

SingleStep == <<StepOp(1, NoTime)>>

=============================================================================
