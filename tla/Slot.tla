-------------------------------- MODULE Slot --------------------------------
(***************************************************************************)
(* What a store with a take promises of one key, however many callers and  *)
(* processes use it: a value saved is kept, and goes to one take at most,  *)
(* which returns it before it expires or not at all; one that was taken,   *)
(* replaced or lost never comes back.  That a value stays until then is    *)
(* not promised.  DiskStore.tla implements this.                           *)
(***************************************************************************)
EXTENDS Naturals

CONSTANTS
  Callers,
  Values,    \* the values saved, each once
  None

VARIABLES
  now,       \* the clock
  saved,     \* the values that saves have brought, in place or not
  kept,      \* the entry in place
  held,      \* the entry each take has removed and not returned
  returned   \* how often takes returned each value

vars == <<now, saved, kept, held, returned>>

Entry == [value: Values, expiresAt: Nat]

Init ==
  /\ now = 1
  /\ saved = {}
  /\ kept = None
  /\ held = [p \in Callers |-> None]
  /\ returned = [v \in Values |-> 0]

Save(v) ==
  /\ v \notin saved
  /\ saved' = saved \cup {v}
  /\ kept' \in Entry /\ kept'.value = v
  /\ UNCHANGED <<now, held, returned>>

SaveFails(v) ==
  /\ v \notin saved
  /\ saved' = saved \cup {v}
  /\ UNCHANGED <<now, kept, held, returned>>

Take(p) ==
  /\ kept # None
  /\ held[p] = None
  /\ held' = [held EXCEPT ![p] = kept]
  /\ kept' = None
  /\ UNCHANGED <<now, saved, returned>>

Return(p) ==
  /\ held[p] # None
  /\ held[p].expiresAt >= now
  /\ returned' = [returned EXCEPT ![held[p].value] = @ + 1]
  /\ held' = [held EXCEPT ![p] = None]
  /\ UNCHANGED <<now, saved, kept>>

\* A take returns nothing: what it removed has expired, or its process died.
Drop(p) ==
  /\ held[p] # None
  /\ held' = [held EXCEPT ![p] = None]
  /\ UNCHANGED <<now, saved, kept, returned>>

\* By a delete, or because it has lapsed, or under a cleanup that takes it for one that has.
Lose ==
  /\ kept' = None
  /\ UNCHANGED <<now, saved, held, returned>>

Tick ==
  /\ now' = now + 1
  /\ UNCHANGED <<saved, kept, held, returned>>

Next ==
  \/ \E v \in Values : Save(v) \/ SaveFails(v)
  \/ \E p \in Callers : Take(p) \/ Return(p) \/ Drop(p)
  \/ Lose \/ Tick

Spec == Init /\ [][Next]_vars

(* A value is returned once at most.                                                           *)
ReturnedOnce == \A v \in Values : returned[v] <= 1

=============================================================================
