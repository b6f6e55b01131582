----------------------------- MODULE MCInMemory -----------------------------
(* Small instances of InMemoryRuntime for TLC. *)
EXTENDS InMemoryRuntime, TLC

Symmetry == Permutations(Instances)

=============================================================================
