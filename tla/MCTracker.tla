----------------------------- MODULE MCTracker -----------------------------
(* Small instances of EventTracker for TLC. *)
EXTENDS EventTracker

=============================================================================
