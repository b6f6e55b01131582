------------------------------- MODULE MCJobs -------------------------------
(* Small instances of JobEngine for TLC. *)
EXTENDS JobProperties, TLC

Retried == retrying(2, constant(1), 2)

Sender == makeDebounce(1, Unlimited, NoRetry)

Senders == {Sender}

(* With a retry and without; with batches that fill up and without; with   *)
(* events that are sent at once and without.                               *)
AllKinds ==
    {makeContinuous(1, TRUE, Retried),
     makeContinuous(1, FALSE, NoRetry),
     makeDebounce(1, 2, Retried),
     Sender,
     makeTask(1, TRUE),
     makeWorkerPool}

(* Delays that grow: the second retry waits longer than the first. *)
RetriedKinds ==
    {makeContinuous(1, TRUE, retrying(3, exponential(1, 2, 3), 9)),
     makeDebounce(1, 2, Retried)}

Tasks == {makeTask(1, TRUE)}

FewCalls(d) == CASE d.type = "workerPool" -> 1
                 [] d.type = "debounce"   -> 3
                 [] OTHER                 -> 2

(* Of the continuous ones, that without a retry. *)
Calls(d) == IF d.type = "continuous" /\ d.retry = NoRetry THEN 3 ELSE FewCalls(d)

Symmetry == Permutations(Requests)

=============================================================================
