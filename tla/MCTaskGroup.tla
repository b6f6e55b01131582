---------------------------- MODULE MCTaskGroup ----------------------------
(* Small instances of TaskGroup for TLC. *)
EXTENDS TaskGroupProperties, TLC

Symmetry == Permutations(Requests) \union Permutations(Times)

=============================================================================
