------------------------------ MODULE MCGrants ------------------------------
(* Instances of Grants small enough for TLC. *)
EXTENDS Grants, TLC

OneLifetime == {[access |-> 1, refresh |-> 2]}

\* A provider that may answer with other lifetimes than it did before, longer and shorter.
TwoLifetimes == {[access |-> 1, refresh |-> 2], [access |-> 2, refresh |-> 1]}

\* Requests, clients and keys are interchangeable.
Symmetry == Permutations(Requests) \cup Permutations(Clients) \cup Permutations(Keys)

=============================================================================
