------------------------------ MODULE MCEvents ------------------------------
(* Small instances of WorkflowEvents for TLC. *)
EXTENDS WorkflowEvents, MCWorkflow

=============================================================================
