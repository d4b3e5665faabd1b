----------------------------- MODULE MCBackend -----------------------------
(* Instances of Backend small enough for TLC. *)
EXTENDS Backend, TLC

\* Calls are interchangeable.
Symmetry == Permutations(Calls)

=============================================================================
