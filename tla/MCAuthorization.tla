-------------------------- MODULE MCAuthorization --------------------------
(* Instances of Authorization small enough for TLC. *)
EXTENDS Authorization, TLC

\* A store with take and answers that overlap nothing; a store without, and any overlap.
OrderlyOrNeither == {[atomicTake |-> TRUE, decideAlone |-> TRUE],
                     [atomicTake |-> FALSE, decideAlone |-> FALSE]}
OverlappingAnswers == {[atomicTake |-> TRUE, decideAlone |-> FALSE]}

\* Requests and sign-ins are interchangeable.
Symmetry == Permutations(Requests) \cup Permutations(Transactions)

=============================================================================
