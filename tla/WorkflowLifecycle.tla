------------------------- MODULE WorkflowLifecycle -------------------------
(***************************************************************************)
(* What a durable workflow promises its client, with no storage, alarm,    *)
(* crash or handler in sight: steps finish one after the other in the      *)
(* order the program names them, a workflow that completes has finished    *)
(* every step, it is cancelled only if somebody asked for it, and once it  *)
(* is over nothing happens to it but the purge of its data.                *)
(*                                                                         *)
(* WorkflowEngine is shown to implement this specification.                *)
(***************************************************************************)
EXTENDS Naturals, WorkflowTransitions

CONSTANT Steps      \* the steps of the program, numbered in program order

VARIABLES
    phase,          \* what getStatus() answers
    done,           \* the steps whose result is durable
    stop            \* a cancellation was accepted

lifecycleVars == <<phase, done, stop>>

Init ==
    /\ phase = NoWorkflow
    /\ done = {}
    /\ stop = FALSE

(* The next step is the first one that is not finished. *)
NextStep(s) == s \in Steps \ done /\ \A r \in Steps \ done : s <= r

Submit ==
    /\ phase = NoWorkflow
    /\ phase' = "Pending"
    /\ UNCHANGED <<done, stop>>

Accept ==
    /\ phase = "Pending"
    /\ phase' \in {"Running", "Queued"}
    /\ UNCHANGED <<done, stop>>

Proceed ==
    /\ phase \in {"Queued", "Paused"}
    /\ phase' = "Running"
    /\ UNCHANGED <<done, stop>>

FinishStep ==
    /\ phase = "Running"
    /\ \E s \in Steps : NextStep(s) /\ done' = done \union {s}
    /\ UNCHANGED <<phase, stop>>

Suspend ==
    /\ phase = "Running"
    /\ phase' = "Paused"
    /\ UNCHANGED <<done, stop>>

RequestStop ==
    /\ phase \in StatusTag \ TerminalStatus
    /\ stop' = TRUE
    /\ UNCHANGED <<phase, done>>

Succeed ==
    /\ phase = "Running"
    /\ done = Steps
    /\ phase' = "Completed"
    /\ UNCHANGED <<done, stop>>

GiveUp ==
    /\ phase = "Running"
    /\ phase' = "Failed"
    /\ UNCHANGED <<done, stop>>

Stop ==
    /\ phase \in {"Queued", "Running", "Paused"}
    /\ stop
    /\ phase' = "Cancelled"
    /\ UNCHANGED <<done, stop>>

Purge ==
    /\ phase \in TerminalStatus
    /\ phase' = NoWorkflow
    /\ done' = {}
    /\ stop' = FALSE

Next ==
    \/ Submit \/ Accept \/ Proceed \/ FinishStep \/ Suspend
    \/ RequestStop \/ Succeed \/ GiveUp \/ Stop \/ Purge

Spec == Init /\ [][Next]_lifecycleVars

=============================================================================
