------------------------ MODULE WorkflowTransitions ------------------------
(***************************************************************************)
(* The status machine of a durable workflow: the statuses a workflow can   *)
(* be stored with, the transitions the orchestrator may apply to them and  *)
(* the table that says which transition is legal where                     *)
(* (packages/workflow/src/state/transitions.ts), with the part of the      *)
(* state machine service that applies one (state/machine.ts).              *)
(***************************************************************************)

StatusTag == {"Pending", "Queued", "Running", "Paused",
              "Completed", "Failed", "Cancelled"}

TransitionTag == {"Start", "Queue", "Resume", "Recover",
                  "Complete", "Pause", "Fail", "Cancel"}

(* "none" stands for an absent "workflow:status" key. *)
NoWorkflow == "none"

StoredStatus == StatusTag \union {NoWorkflow}

VALID_TRANSITIONS ==
    [s \in StatusTag |->
        CASE s = "Pending" -> {"Start", "Queue"}
          [] s = "Queued"  -> {"Start", "Cancel"}
          [] s = "Running" -> {"Complete", "Pause", "Fail", "Cancel", "Recover"}
          [] s = "Paused"  -> {"Resume", "Cancel", "Recover"}
          [] OTHER         -> {}]

isValidTransition(from, t) == t \in VALID_TRANSITIONS[from]

isTerminalStatus(s) == s \in StatusTag /\ VALID_TRANSITIONS[s] = {}

isRecoverableStatus(s) == s \in StatusTag /\ isValidTransition(s, "Recover")

(* What applyTransition accepts: the table, and for a workflow that does   *)
(* not exist only the two transitions that create one.                     *)
canTransition(s, t) ==
    IF s = NoWorkflow THEN t \in {"Queue", "Start"} ELSE isValidTransition(s, t)

(* The status a (validated) transition stores. *)
applyTransitionToStatus(t) ==
    CASE t \in {"Start", "Resume", "Recover"} -> "Running"
      [] t = "Queue"    -> "Queued"
      [] t = "Pause"    -> "Paused"
      [] t = "Complete" -> "Completed"
      [] t = "Fail"     -> "Failed"
      [] t = "Cancel"   -> "Cancelled"

TerminalStatus == {s \in StatusTag : isTerminalStatus(s)}

=============================================================================
