------------------------------ MODULE MCServer ------------------------------
(* Instances of Server small enough for TLC. *)
EXTENDS Server, TLC

\* Start and stop calls are interchangeable.
Symmetry == Permutations(Callers)

=============================================================================
