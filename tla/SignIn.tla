------------------------------- MODULE SignIn -------------------------------
(***************************************************************************)
(* What the browser endpoints promise of a sign-in: it goes one way, from  *)
(* the app's request through the user's consent to the one authorization   *)
(* code its client is sent, and whoever drops it on the way drops it for   *)
(* good.  Authorization.tla implements this.                               *)
(***************************************************************************)
CONSTANTS
  Transactions,      \* sign-ins, by the state they carry through the provider
  ConsentRequired    \* whether the user has to approve the app first

VARIABLE stage

Init == stage = [t \in Transactions |-> "new"]

To(t, next) == stage' = [stage EXCEPT ![t] = next]

Begin(t)    == stage[t] = "new" /\ To(t, "open")
Approve(t)  == stage[t] = "open" /\ To(t, "approved")
Claim(t)    == /\ stage[t] = "approved" \/ (stage[t] = "open" /\ ~ConsentRequired)
               /\ To(t, "claimed")
Complete(t) == stage[t] = "claimed" /\ To(t, "done")
Drop(t)     == stage[t] \in {"open", "approved", "claimed"} /\ To(t, "over")

Next == \E t \in Transactions :
          Begin(t) \/ Approve(t) \/ Claim(t) \/ Complete(t) \/ Drop(t)

Spec == Init /\ [][Next]_stage

=============================================================================
