------------------------ MODULE AuthorizationProofs ------------------------
(***************************************************************************)
(* What the browser endpoints guarantee for any number of requests,        *)
(* clients and sign-ins: no code without consent, no code without an       *)
(* exchanged provider code, and, over a store with take whose consent      *)
(* answers overlap nothing, the sign-ins of SignIn.tla.                    *)
(***************************************************************************)
EXTENDS Authorization, FiniteSetTheorems, TLAPS

\* A sign-in that came back from the provider is carried on by a request.
Carrying == {"findClient", "exchange", "saveCode"}

\* What a request's locals hold while it awaits at `label`.  Consent in an entry it read, or
\* that it is about to save, was given.
LocalOK(label, l) ==
  /\ label # "idle" => l.t \in begun
  /\ label \notin {"idle", "savePending"} => l.t \in known
  /\ label \notin {"idle", "deleteTaken"} => l.request \in Pending
  /\ label = "savePending" => ~l.request.consent
  /\ label = "saveApproved" => l.t \in approved
  /\ label = "deleteTaken" \/ label \in Carrying =>
       (l.request # None /\ l.request.consent => l.t \in approved)
  /\ label \in {"exchange", "saveCode"} =>
       l.code # 0 /\ (ConsentRequired => l.request.consent)

ConsentGiven == \A t \in Transactions : pending[t] # None /\ pending[t].consent => t \in approved

Consented ==
  /\ ConsentGiven
  /\ ConsentBeforeCode
  /\ \A r \in Requests : LocalOK(pc[r], req[r])

ConsentInv == TypeOK /\ Consented

LEMMA InitConsent == Init => ConsentInv
  BY AuthorizationAssumption, NoneAssumption
  DEF Init, ConsentInv, TypeOK, Consented, ConsentGiven, ConsentBeforeCode, LocalOK, NoLocals,
      Labels, Locals, Carrying

\* A step of r to `label` with locals that are what the await needs.
LEMMA Moves ==
  ASSUME ConsentInv, NEW r \in Requests, NEW label \in Labels, NEW l \in Locals,
         Goto(r, label, l), LocalOK(label, l)',
         begun \subseteq begun', known \subseteq known', approved \subseteq approved'
  PROVE  /\ pc' \in [Requests -> Labels] /\ req' \in [Requests -> Locals]
         /\ \A q \in Requests : LocalOK(pc[q], req[q])'
<1>1. /\ pc' \in [Requests -> Labels] /\ req' \in [Requests -> Locals]
      /\ pc'[r] = label /\ req'[r] = l
      /\ \A q \in Requests \ {r} : pc'[q] = pc[q] /\ req'[q] = req[q]
  BY DEF Goto, ConsentInv, TypeOK
<1>2. \A q \in Requests \ {r} : LocalOK(pc[q], req[q])'
  BY <1>1 DEF ConsentInv, Consented, LocalOK
<1>3. LocalOK(pc[r], req[r])'
  BY <1>1 DEF LocalOK
<1> QED
  BY <1>1, <1>2, <1>3

LEMMA Ends ==
  ASSUME ConsentInv, NEW r \in Requests, End(r),
         begun \subseteq begun', known \subseteq known', approved \subseteq approved'
  PROVE  /\ pc' \in [Requests -> Labels] /\ req' \in [Requests -> Locals]
         /\ \A q \in Requests : LocalOK(pc[q], req[q])'
<1>1. NoLocals \in Locals /\ "idle" \in Labels /\ LocalOK("idle", NoLocals)'
  BY AuthorizationAssumption DEF NoLocals, Locals, Labels, LocalOK, Carrying
<1> QED
  BY <1>1, Moves DEF End

\* What the store and the history need besides.
RestOK ==
  /\ setting \in Settings
  /\ now \in Nat
  /\ pending \in [Transactions -> Pending \cup {None}]
  /\ clientUntil \in [Clients -> Nat]
  /\ begun \subseteq Transactions
  /\ known \subseteq begun
  /\ returns \in [Transactions -> 0..MaxReturns]
  /\ exchanged \in [Transactions -> SUBSET (1..MaxReturns)]
  /\ issued \in [Transactions -> Nat]
  /\ approved \subseteq begun
  /\ faults \in Nat
  /\ ConsentGiven
  /\ ConsentBeforeCode

\* A step of r that only moves on.
LEMMA MovesOnly ==
  ASSUME ConsentInv, NEW r \in Requests,
         \/ End(r)
         \/ \E label \in Labels, l \in Locals : Goto(r, label, l) /\ LocalOK(label, l)',
         begun \subseteq begun', known \subseteq known', approved \subseteq approved', RestOK'
  PROVE  ConsentInv'
  BY Moves, Ends DEF ConsentInv, TypeOK, Consented, RestOK

LEMMA AuthorizeConsent ==
  ASSUME ConsentInv, NEW r \in Requests, NEW t \in Transactions, NEW c \in Clients,
         Authorize(r, t, c)
  PROVE  ConsentInv'
<1>1. PICK e : e = [client |-> c, consent |-> FALSE, expiresAt |-> now + TransactionLifetime]
  OBVIOUS
<1>2. e \in Pending /\ ~e.consent
  BY <1>1, AuthorizationAssumption DEF Pending, ConsentInv, TypeOK
<1>3. PICK l : l = [NoLocals EXCEPT !.t = t, !.request = e]
  OBVIOUS
<1>4. l \in Locals /\ l.t = t /\ l.request = e
  <2>1. l = [t |-> t, request |-> e, code |-> 0]
    BY <1>3 DEF NoLocals
  <2> QED
    BY <1>2, <2>1, AuthorizationAssumption DEF Locals
<1>5. Goto(r, "savePending", l) /\ begun' = begun \cup {t}
      /\ UNCHANGED <<setting, now, store, known, returns, exchanged, ghosts>>
  BY <1>1, <1>3 DEF Authorize
<1>6. LocalOK("savePending", l)' /\ "savePending" \in Labels
  BY <1>2, <1>4, <1>5 DEF LocalOK, Labels, Carrying
<1>7. RestOK'
  BY <1>5 DEF RestOK, ConsentInv, TypeOK, Consented, ConsentGiven, ConsentBeforeCode, store,
     ghosts
<1> QED
  BY <1>4, <1>5, <1>6, <1>7, MovesOnly DEF ghosts

LEMMA SavePendingConsent ==
  ASSUME ConsentInv, NEW r \in Requests, SavePending(r)
  PROVE  ConsentInv'
<1>1. LocalOK("savePending", req[r]) /\ req[r] \in Locals
  BY DEF SavePending, ConsentInv, TypeOK, Consented
<1>2. PICK t \in Transactions : t = req[r].t /\ t \in begun
  BY <1>1 DEF LocalOK, ConsentInv, TypeOK
<1>3. RestOK'
  BY <1>1, <1>2
  DEF SavePending, LocalOK, RestOK, ConsentInv, TypeOK, Consented, ConsentGiven,
      ConsentBeforeCode, ghosts
<1> QED
  BY <1>3, MovesOnly DEF SavePending, ghosts

LEMMA DecideConsent ==
  ASSUME ConsentInv, NEW r \in Requests, NEW t \in Transactions,
         NEW action \in {"approve", "deny"}, Decide(r, t, action)
  PROVE  ConsentInv'
<1>1. PICK l : l = [NoLocals EXCEPT !.t = t, !.request = pending[t]]
  OBVIOUS
<1>2. PICK label \in {"saveApproved", "deleteDenied"} :
        /\ label = IF action = "approve" THEN "saveApproved" ELSE "deleteDenied"
        /\ Goto(r, label, l)
  BY <1>1 DEF Decide
<1>3. /\ t \in known /\ pending[t] \in Pending
      /\ approved' = IF action = "approve" THEN approved \cup {t} ELSE approved
      /\ UNCHANGED <<setting, now, store, world, faults>>
  BY DEF Decide, Readable, ConsentInv, TypeOK
<1>4. l \in Locals /\ l.t = t /\ l.request = pending[t]
  <2>1. l = [t |-> t, request |-> pending[t], code |-> 0]
    BY <1>1 DEF NoLocals
  <2> QED
    BY <1>3, <2>1, AuthorizationAssumption DEF Locals
<1>5. LocalOK(label, l)' /\ label \in Labels
  BY <1>2, <1>3, <1>4 DEF LocalOK, Labels, Carrying, world, ConsentInv, TypeOK
<1>6. RestOK'
  BY <1>3 DEF RestOK, ConsentInv, TypeOK, Consented, ConsentGiven, ConsentBeforeCode, store,
     world
<1> QED
  BY <1>2, <1>3, <1>4, <1>5, <1>6, MovesOnly DEF world

LEMMA SaveApprovedConsent ==
  ASSUME ConsentInv, NEW r \in Requests, SaveApproved(r)
  PROVE  ConsentInv'
<1>1. LocalOK("saveApproved", req[r])
  BY DEF SaveApproved, ConsentInv, Consented
<1>2. PICK t \in Transactions : t = req[r].t /\ t \in approved
  BY <1>1 DEF LocalOK, ConsentInv, TypeOK
<1>3. Approved(req[r].request) \in Pending
  BY <1>1 DEF LocalOK, Approved, Pending
<1>4. RestOK'
  BY <1>2, <1>3
  DEF SaveApproved, RestOK, ConsentInv, TypeOK, Consented, ConsentGiven, ConsentBeforeCode,
      world, ghosts
<1> QED
  BY <1>4, MovesOnly DEF SaveApproved, world, ghosts

\* What was taken, if it can be read, is carried on.
LEMMA TakenConsent ==
  ASSUME ConsentInv, NEW r \in Requests, NEW t \in known, NEW entry \in Pending \cup {None},
         NEW code \in 0..MaxReturns,
         entry # None /\ entry.consent => t \in approved,
         Consumed(t), Taken(r, t, entry, code),
         UNCHANGED <<setting, now, clientUntil, issued, world, ghosts>>
  PROVE  ConsentInv'
<1>1. t \in Transactions
  BY DEF ConsentInv, TypeOK
<1>2. RestOK'
  BY <1>1 DEF Consumed, RestOK, ConsentInv, TypeOK, Consented, ConsentGiven,
     ConsentBeforeCode, world, ghosts
<1>3. CASE End(r)
  BY <1>2, <1>3, MovesOnly DEF world, ghosts
<1>4. CASE Readable(entry) /\ Goto(r, "findClient", [t |-> t, request |-> entry, code |-> code])
  <2>1. PICK l : l = [t |-> t, request |-> entry, code |-> code]
    OBVIOUS
  <2>2. l \in Locals /\ l.t = t /\ l.request = entry /\ entry \in Pending
    BY <1>1, <1>4, <2>1 DEF Locals, Readable
  <2>3. LocalOK("findClient", l)' /\ "findClient" \in Labels
    BY <2>2 DEF LocalOK, Labels, Carrying, world, ghosts, ConsentInv, TypeOK
  <2> QED
    BY <1>2, <1>4, <2>1, <2>2, <2>3, MovesOnly DEF world, ghosts
<1> QED
  BY <1>3, <1>4 DEF Taken

LEMMA CallbackConsent ==
  ASSUME ConsentInv, NEW r \in Requests, NEW t \in Transactions, NEW code \in 0..MaxReturns,
         Callback(r, t, code)
  PROVE  ConsentInv'
<1>1. t \in known /\ pending[t] \in Pending \cup {None}
  BY DEF Callback, Brought, ConsentInv, TypeOK
<1>2. pending[t] # None /\ pending[t].consent => t \in approved
  BY DEF ConsentInv, Consented, ConsentGiven
<1> QED
  BY <1>1, <1>2, TakenConsent DEF Callback

LEMMA ReadCallbackConsent ==
  ASSUME ConsentInv, NEW r \in Requests, NEW t \in Transactions, NEW code \in 0..MaxReturns,
         ReadCallback(r, t, code)
  PROVE  ConsentInv'
<1>1. PICK l : l = [t |-> t, request |-> pending[t], code |-> code]
  OBVIOUS
<1>2. l \in Locals /\ l.t = t /\ l.request = pending[t]
  BY <1>1 DEF Locals, ConsentInv, TypeOK
<1>3. Goto(r, "deleteTaken", l) /\ t \in known
      /\ UNCHANGED <<setting, now, store, world, ghosts>>
  BY <1>1 DEF ReadCallback, Brought
<1>4. LocalOK("deleteTaken", l)' /\ "deleteTaken" \in Labels
  BY <1>2, <1>3
  DEF LocalOK, Labels, Carrying, ConsentInv, TypeOK, Consented, ConsentGiven, world, ghosts
<1>5. RestOK'
  BY <1>3 DEF RestOK, ConsentInv, TypeOK, Consented, ConsentGiven, ConsentBeforeCode, store,
     world, ghosts
<1> QED
  BY <1>2, <1>3, <1>4, <1>5, MovesOnly DEF world, ghosts

LEMMA DeleteTakenConsent ==
  ASSUME ConsentInv, NEW r \in Requests, DeleteTaken(r)
  PROVE  ConsentInv'
<1>1. LocalOK("deleteTaken", req[r]) /\ req[r] \in Locals
  BY DEF DeleteTaken, ConsentInv, TypeOK, Consented
<1>2. /\ req[r].t \in known /\ req[r].request \in Pending \cup {None}
      /\ req[r].code \in 0..MaxReturns
      /\ req[r].request # None /\ req[r].request.consent => req[r].t \in approved
  BY <1>1 DEF LocalOK, Locals
<1> QED
  BY <1>2, TakenConsent DEF DeleteTaken

\* The steps that carry a sign-in on.
LEMMA CarryConsent ==
  ASSUME ConsentInv, NEW r \in Requests, FindClient(r) \/ Exchange(r) \/ SaveCode(r)
  PROVE  ConsentInv'
<1>1. /\ LocalOK(pc[r], req[r]) /\ req[r] \in Locals /\ pc[r] \in Carrying
      /\ UNCHANGED <<begun, known, approved>>
  BY DEF FindClient, Exchange, SaveCode, ConsentInv, TypeOK, Consented, Carrying, world, ghosts
<1>2. PICK t \in Transactions : t = req[r].t
  BY <1>1 DEF LocalOK, Carrying, ConsentInv, TypeOK
<1>3. ASSUME FindClient(r) \/ Exchange(r) PROVE RestOK'
  BY <1>1, <1>2, <1>3, AuthorizationAssumption
  DEF FindClient, Exchange, Unexchanged, RestOK, ConsentInv, TypeOK, Consented, ConsentGiven,
      ConsentBeforeCode, LocalOK, Locals, Carrying, store, world, ghosts
<1>7. PICK l \in Locals : l = req[r] /\ LocalOK(pc[r], l)
  BY <1>1
<1>4. CASE FindClient(r)
  <2>1. CASE End(r)
    BY <1>1, <1>3, <1>4, <2>1, MovesOnly
  <2>2. CASE Accepted(l.request, l.code) /\ Goto(r, "exchange", l)
    <3>1. LocalOK("exchange", l)' /\ "exchange" \in Labels
      BY <1>1, <1>4, <1>7, <2>2 DEF FindClient, Accepted, LocalOK, Labels, Carrying
    <3> QED
      BY <1>1, <1>3, <1>4, <2>2, <3>1, MovesOnly
  <2> QED
    BY <1>4, <1>7, <2>1, <2>2 DEF FindClient
<1>5. CASE Exchange(r)
  <2>1. LocalOK("saveCode", l)' /\ "saveCode" \in Labels
    BY <1>1, <1>5, <1>7 DEF Exchange, LocalOK, Labels, Carrying
  <2>2. End(r) \/ Goto(r, "saveCode", l)
    BY <1>5, <1>7 DEF Exchange, Unexchanged
  <2> QED
    BY <1>1, <1>3, <1>5, <2>1, <2>2, MovesOnly
<1>6. CASE SaveCode(r)
  <2>1. ConsentRequired => t \in approved
    BY <1>1, <1>2, <1>6, NoneAssumption DEF SaveCode, LocalOK, Carrying
  <2>2. RestOK'
    BY <1>2, <1>6, <2>1
    DEF SaveCode, RestOK, ConsentInv, TypeOK, Consented, ConsentGiven, ConsentBeforeCode,
        world, ghosts
  <2> QED
    BY <1>1, <1>6, <2>2, MovesOnly DEF SaveCode
<1> QED
  BY <1>4, <1>5, <1>6

LEMMA StepConsent == ConsentInv /\ [Next]_vars => ConsentInv'
<1> SUFFICES ASSUME ConsentInv, [Next]_vars PROVE ConsentInv'
  OBVIOUS
<1>1. ASSUME NEW c \in Clients, Register(c) PROVE ConsentInv'
  BY <1>1, AuthorizationAssumption
  DEF Register, ConsentInv, TypeOK, Consented, ConsentGiven, ConsentBeforeCode, LocalOK,
      world, ghosts
<1>2. ASSUME NEW t \in Transactions, ProviderReturns(t) PROVE ConsentInv'
  BY <1>2, AuthorizationAssumption
  DEF ProviderReturns, ConsentInv, TypeOK, Consented, ConsentGiven, ConsentBeforeCode,
      LocalOK, store, ghosts
<1>3. ASSUME NEW r \in Requests, DeleteDenied(r) PROVE ConsentInv'
  <2>1. PICK t \in Transactions : t = req[r].t
    BY <1>3 DEF DeleteDenied, LocalOK, ConsentInv, Consented, TypeOK
  <2>2. RestOK'
    BY <1>3, <2>1
    DEF DeleteDenied, RestOK, ConsentInv, TypeOK, Consented, ConsentGiven, ConsentBeforeCode,
        world, ghosts
  <2> QED
    BY <1>3, <2>2, MovesOnly DEF DeleteDenied, world, ghosts
<1>4. ASSUME NEW r \in Requests, Fail(r) PROVE ConsentInv'
  <2>1. RestOK'
    BY <1>4
    DEF Fail, RestOK, ConsentInv, TypeOK, Consented, ConsentGiven, ConsentBeforeCode, store,
        world
  <2> QED
    BY <1>4, <2>1, MovesOnly DEF Fail, world
<1>5. CASE Tick
  BY <1>5
  DEF Tick, ConsentInv, TypeOK, Consented, ConsentGiven, ConsentBeforeCode, LocalOK, store,
      world, ghosts
<1>6. CASE UNCHANGED vars
  BY <1>6
  DEF vars, ConsentInv, TypeOK, Consented, ConsentGiven, ConsentBeforeCode, LocalOK, store,
      world, ghosts
<1> QED
  BY <1>1, <1>2, <1>3, <1>4, <1>5, <1>6, AuthorizeConsent, SavePendingConsent, DecideConsent,
     SaveApprovedConsent, CallbackConsent, ReadCallbackConsent, DeleteTakenConsent,
     CarryConsent DEF Next

THEOREM SpecConsent == Spec => []ConsentInv
  BY InitConsent, StepConsent, PTL DEF Spec

(* Each variable has its type in every reachable state. *)
THEOREM TypeCorrect == Spec => []TypeOK
<1>1. ConsentInv => TypeOK
  BY DEF ConsentInv
<1> QED
  BY <1>1, SpecConsent, PTL

(* No code is issued without an approval, whatever the store and whatever overlaps. *)
THEOREM NoCodeWithoutConsent == Spec => []ConsentBeforeCode
<1>1. ConsentInv => ConsentBeforeCode
  BY DEF ConsentInv, Consented
<1> QED
  BY <1>1, SpecConsent, PTL

-----------------------------------------------------------------------------
(* Codes are backed: the provider codes of the requests that have yet to   *)
(* save an authorization code are set apart from those already spent.      *)

SavesOf(t) == {r \in Requests : pc[r] = "saveCode" /\ req[r].t = t}

CarriedCodes(t) == {req[r].code : r \in SavesOf(t)}

Spent(t) == exchanged[t] \ CarriedCodes(t)

BackedOf(t) ==
  /\ CarriedCodes(t) \subseteq exchanged[t]
  /\ \A q, r \in SavesOf(t) : req[q].code = req[r].code => q = r
  /\ issued[t] <= Cardinality(Spent(t))

Backed == \A t \in Transactions : BackedOf(t)

BackedInv == ConsentInv /\ Backed

LEMMA FewCodes ==
  ASSUME ConsentInv, NEW t \in Transactions, NEW S, S \subseteq exchanged[t]
  PROVE  IsFiniteSet(S) /\ Cardinality(S) \in Nat /\ IsFiniteSet(exchanged[t])
<1>1. exchanged[t] \subseteq 1..MaxReturns
  BY DEF ConsentInv, TypeOK
<1>2. IsFiniteSet(1..MaxReturns)
  BY FS_Interval, AuthorizationAssumption
<1>3. IsFiniteSet(exchanged[t]) /\ IsFiniteSet(S)
  BY <1>1, <1>2, FS_Subset
<1> QED
  BY <1>3, FS_CardinalityType

LEMMA InitBacked == Init => BackedInv
<1> SUFFICES ASSUME Init PROVE BackedInv
  OBVIOUS
<1>1. ConsentInv
  BY InitConsent
<1>2. ASSUME NEW t \in Transactions PROVE BackedOf(t)
  <2>1. SavesOf(t) = {} /\ exchanged[t] = {} /\ issued[t] = 0
    BY DEF Init, SavesOf
  <2>2. CarriedCodes(t) = {} /\ Spent(t) = {}
    BY <2>1 DEF CarriedCodes, Spent
  <2> QED
    BY <2>1, <2>2, FS_EmptySet DEF BackedOf
<1> QED
  BY <1>1, <1>2 DEF BackedInv, Backed

\* A step that neither exchanges nor saves a code, nor comes to saving one.
LEMMA OtherBacked ==
  ASSUME BackedInv, ConsentInv', UNCHANGED <<exchanged, issued>>,
         \A r \in Requests : pc'[r] = "saveCode" => pc[r] = "saveCode" /\ req'[r] = req[r]
  PROVE  BackedInv'
<1> SUFFICES ASSUME NEW t \in Transactions PROVE BackedOf(t)'
  BY DEF BackedInv, Backed
<1>1. SavesOf(t)' \subseteq SavesOf(t) /\ \A r \in SavesOf(t)' : req'[r] = req[r]
  BY DEF SavesOf
<1>2. CarriedCodes(t)' \subseteq CarriedCodes(t)
  BY <1>1 DEF CarriedCodes
<1>3. Spent(t) \subseteq Spent(t)'
  BY <1>2 DEF Spent
<1>4. BackedOf(t)
  BY DEF BackedInv, Backed
<1>5. /\ IsFiniteSet(Spent(t)') /\ Cardinality(Spent(t)') \in Nat
      /\ Cardinality(Spent(t)) \in Nat
  <2>1. Spent(t) \subseteq exchanged[t] /\ Spent(t)' \subseteq exchanged[t]
    BY DEF Spent
  <2> QED
    BY <2>1, FewCodes DEF BackedInv
<1>6. Cardinality(Spent(t)) <= Cardinality(Spent(t)')
  BY <1>3, <1>5, FS_Subset
<1>7. issued'[t] = issued[t] /\ issued[t] \in Nat
  BY DEF BackedInv, ConsentInv, TypeOK
<1> QED
  BY <1>1, <1>2, <1>4, <1>5, <1>6, <1>7 DEF BackedOf

LEMMA ExchangeBacked ==
  ASSUME BackedInv, ConsentInv', NEW r \in Requests, Exchange(r)
  PROVE  BackedInv'
<1>1. LocalOK(pc[r], req[r]) /\ pc[r] = "exchange" /\ req[r] \in Locals
  BY DEF Exchange, BackedInv, ConsentInv, TypeOK, Consented
<1>2. PICK t \in Transactions : t = req[r].t
  BY <1>1 DEF LocalOK, BackedInv, ConsentInv, TypeOK
<1>3. PICK code : code = req[r].code
  OBVIOUS
<1>4. CASE /\ code \notin exchanged[t]
           /\ exchanged' = [exchanged EXCEPT ![t] = @ \cup {code}]
           /\ Goto(r, "saveCode", req[r])
  <2>1. ASSUME NEW u \in Transactions \ {t} PROVE BackedOf(u)'
    <3>1. SavesOf(u)' = SavesOf(u) /\ \A q \in SavesOf(u) : req'[q] = req[q]
      BY <1>1, <1>2, <1>4, <2>1 DEF SavesOf, Goto, BackedInv, ConsentInv, TypeOK
    <3>2. exchanged'[u] = exchanged[u] /\ issued'[u] = issued[u]
      BY <1>4, <2>1 DEF Exchange, store, BackedInv, ConsentInv, TypeOK
    <3>3. CarriedCodes(u)' = CarriedCodes(u)
      BY <3>1 DEF CarriedCodes
    <3>4. Spent(u)' = Spent(u)
      BY <3>2, <3>3 DEF Spent
    <3> QED
      BY <3>1, <3>2, <3>3, <3>4 DEF BackedOf, BackedInv, Backed
  <2>2. BackedOf(t)'
    <3>1. SavesOf(t)' = SavesOf(t) \cup {r} /\ r \notin SavesOf(t) /\ req' = req
      BY <1>1, <1>2, <1>4 DEF SavesOf, Goto, BackedInv, ConsentInv, TypeOK
    <3>2. exchanged'[t] = exchanged[t] \cup {code} /\ issued'[t] = issued[t]
      BY <1>4 DEF Exchange, store, BackedInv, ConsentInv, TypeOK
    <3>3. CarriedCodes(t)' = CarriedCodes(t) \cup {code}
      BY <1>3, <3>1 DEF CarriedCodes
    <3>4. BackedOf(t)
      BY DEF BackedInv, Backed
    <3>5. Spent(t)' = Spent(t)
      BY <1>4, <3>2, <3>3, <3>4 DEF Spent, BackedOf
    <3>6. \A q \in SavesOf(t) : req[q].code # code
      BY <1>4, <3>4 DEF BackedOf, CarriedCodes
    <3> QED
      BY <1>3, <3>1, <3>2, <3>3, <3>4, <3>5, <3>6 DEF BackedOf
  <2> QED
    BY <2>1, <2>2 DEF BackedInv, Backed
<1>5. CASE End(r)
  <2>1. exchanged[t] \subseteq exchanged'[t] /\ \A u \in Transactions : exchanged[u] \subseteq exchanged'[u]
    BY <1>2 DEF Exchange, Unexchanged, BackedInv, ConsentInv, TypeOK
  <2>2. ASSUME NEW u \in Transactions PROVE BackedOf(u)'
    <3>1. SavesOf(u)' \subseteq SavesOf(u) /\ \A q \in SavesOf(u)' : req'[q] = req[q]
      BY <1>1, <1>5 DEF SavesOf, End, Goto, BackedInv, ConsentInv, TypeOK
    <3>2. CarriedCodes(u)' \subseteq CarriedCodes(u)
      BY <3>1 DEF CarriedCodes
    <3>3. Spent(u) \subseteq Spent(u)'
      BY <2>1, <3>2 DEF Spent
    <3>4. IsFiniteSet(Spent(u)') /\ Cardinality(Spent(u)') \in Nat /\ Cardinality(Spent(u)) \in Nat
      <4>1. Spent(u) \subseteq exchanged[u] /\ Spent(u)' \subseteq exchanged'[u]
        BY DEF Spent
      <4>2. exchanged'[u] \subseteq 1..MaxReturns
        BY DEF ConsentInv, TypeOK
      <4>3. IsFiniteSet(Spent(u)')
        <5>1. IsFiniteSet(1..MaxReturns)
          BY FS_Interval, AuthorizationAssumption
        <5> QED
          BY <4>1, <4>2, <5>1, FS_Subset
      <4> QED
        BY <4>1, <4>3, FewCodes, FS_CardinalityType DEF BackedInv
    <3>5. Cardinality(Spent(u)) <= Cardinality(Spent(u)')
      BY <3>3, <3>4, FS_Subset
    <3>6. issued'[u] = issued[u] /\ issued[u] \in Nat
      BY DEF Exchange, store, BackedInv, ConsentInv, TypeOK
    <3>7. BackedOf(u)
      BY DEF BackedInv, Backed
    <3> QED
      BY <2>1, <3>1, <3>2, <3>4, <3>5, <3>6, <3>7 DEF BackedOf
  <2> QED
    BY <2>2 DEF BackedInv, Backed
<1> QED
  BY <1>2, <1>3, <1>4, <1>5 DEF Exchange, Unexchanged

LEMMA SaveCodeBacked ==
  ASSUME BackedInv, ConsentInv', NEW r \in Requests, SaveCode(r)
  PROVE  BackedInv'
<1>1. LocalOK(pc[r], req[r]) /\ pc[r] = "saveCode"
  BY DEF SaveCode, BackedInv, ConsentInv, Consented
<1>2. PICK t \in Transactions : t = req[r].t
  BY <1>1 DEF LocalOK, BackedInv, ConsentInv, TypeOK
<1>3. PICK code : code = req[r].code
  OBVIOUS
<1>4. exchanged' = exchanged
  BY DEF SaveCode, world
<1>5. ASSUME NEW u \in Transactions \ {t} PROVE BackedOf(u)'
  <2>1. SavesOf(u)' = SavesOf(u) /\ \A q \in SavesOf(u) : req'[q] = req[q]
    BY <1>1, <1>2, <1>5 DEF SavesOf, SaveCode, End, Goto, BackedInv, ConsentInv, TypeOK
  <2>2. issued'[u] = issued[u]
    BY <1>2, <1>5 DEF SaveCode, BackedInv, ConsentInv, TypeOK
  <2>3. CarriedCodes(u)' = CarriedCodes(u)
    BY <2>1 DEF CarriedCodes
  <2>4. Spent(u)' = Spent(u)
    BY <1>4, <2>3 DEF Spent
  <2> QED
    BY <1>4, <2>1, <2>2, <2>3, <2>4 DEF BackedOf, BackedInv, Backed
<1>6. BackedOf(t)'
  <2>1. /\ SavesOf(t)' = SavesOf(t) \ {r} /\ r \in SavesOf(t)
        /\ \A q \in SavesOf(t)' : req'[q] = req[q]
    BY <1>1, <1>2 DEF SavesOf, SaveCode, End, Goto, BackedInv, ConsentInv, TypeOK
  <2>2. issued'[t] = issued[t] + 1 /\ issued[t] \in Nat
    BY <1>2 DEF SaveCode, BackedInv, ConsentInv, TypeOK
  <2>3. BackedOf(t)
    BY DEF BackedInv, Backed
  <2>4. CarriedCodes(t)' = CarriedCodes(t) \ {code} /\ code \in CarriedCodes(t)
    BY <1>3, <2>1, <2>3 DEF CarriedCodes, BackedOf
  <2>5. Spent(t)' = Spent(t) \cup {code} /\ code \notin Spent(t)
    BY <1>4, <2>3, <2>4 DEF Spent, BackedOf
  <2>6. IsFiniteSet(Spent(t)) /\ Cardinality(Spent(t)) \in Nat
    BY FewCodes DEF Spent, BackedInv
  <2>7. Cardinality(Spent(t)') = Cardinality(Spent(t)) + 1
    BY <2>5, <2>6, FS_AddElement
  <2> QED
    BY <1>4, <2>1, <2>2, <2>3, <2>4, <2>6, <2>7 DEF BackedOf
<1> QED
  BY <1>5, <1>6 DEF BackedInv, Backed

LEMMA StepBacked == BackedInv /\ [Next]_vars => BackedInv'
<1> SUFFICES ASSUME BackedInv, [Next]_vars PROVE BackedInv'
  OBVIOUS
<1>1. ConsentInv'
  BY StepConsent DEF BackedInv
<1>2. ASSUME NEW r \in Requests, NEW label \in Labels \ {"saveCode"}, NEW l, Goto(r, label, l),
             UNCHANGED <<exchanged, issued>>
      PROVE  BackedInv'
  BY <1>1, <1>2, OtherBacked DEF Goto, BackedInv, ConsentInv, TypeOK
<1>3. ASSUME UNCHANGED <<pc, req, exchanged, issued>> PROVE BackedInv'
  BY <1>1, <1>3, OtherBacked
<1>4. CASE \/ \E c \in Clients : Register(c)
           \/ \E t \in Transactions : ProviderReturns(t)
           \/ Tick \/ UNCHANGED vars
  BY <1>3, <1>4 DEF Register, ProviderReturns, Tick, vars, store, world
<1>5. ASSUME NEW r \in Requests, NEW t \in Transactions,
             (\E c \in Clients : Authorize(r, t, c)) \/ (\E action \in {"approve", "deny"} : Decide(r, t, action))
      PROVE  BackedInv'
  BY <1>2, <1>5 DEF Authorize, Decide, Labels, store, world
<1>6. ASSUME NEW r \in Requests, NEW t \in Transactions, NEW code \in 0..MaxReturns,
             Callback(r, t, code) \/ ReadCallback(r, t, code)
      PROVE  BackedInv'
  BY <1>2, <1>6 DEF Callback, ReadCallback, Taken, End, Labels, store, world
<1>7. ASSUME NEW r \in Requests,
             \/ SavePending(r) \/ SaveApproved(r) \/ DeleteDenied(r) \/ DeleteTaken(r)
             \/ FindClient(r) \/ Fail(r)
      PROVE  BackedInv'
  BY <1>2, <1>7 DEF SavePending, SaveApproved, DeleteDenied, DeleteTaken, FindClient, Fail, Taken,
     End, Labels, store, world
<1>8. ASSUME NEW r \in Requests, Exchange(r) \/ SaveCode(r) PROVE BackedInv'
  BY <1>1, <1>8, ExchangeBacked, SaveCodeBacked
<1> QED
  BY <1>4, <1>5, <1>6, <1>7, <1>8 DEF Next

(* Whatever the store and whatever overlaps, a sign-in's client is sent no more codes than     *)
(* provider codes were exchanged for it (authorization.ts:266-275).                            *)
THEOREM EachCodeBacked == Spec => []CodesBacked
<1>1. BackedInv => CodesBacked
  <2> SUFFICES ASSUME BackedInv, NEW t \in Transactions
               PROVE  issued[t] <= Cardinality(exchanged[t])
    BY DEF CodesBacked
  <2>1. Spent(t) \subseteq exchanged[t]
    BY DEF Spent
  <2>2. /\ Cardinality(Spent(t)) \in Nat /\ Cardinality(exchanged[t]) \in Nat
        /\ IsFiniteSet(exchanged[t])
    BY <2>1, FewCodes DEF BackedInv
  <2>3. Cardinality(Spent(t)) <= Cardinality(exchanged[t])
    BY <2>1, <2>2, FS_Subset
  <2>4. issued[t] \in Nat /\ issued[t] <= Cardinality(Spent(t))
    BY DEF BackedInv, Backed, BackedOf, ConsentInv, TypeOK
  <2> QED
    BY <2>2, <2>3, <2>4
<1> QED
  BY <1>1, InitBacked, StepBacked, PTL DEF Spec

-----------------------------------------------------------------------------
(* The sign-ins of SignIn.tla, when the setting is orderly.  Each request  *)
(* in flight is then the only one of its sign-in.                          *)

Alone == \A q, r \in Requests : q # r /\ req[q].t = req[r].t => req[q].t = None

\* Where the sign-in is whose request awaits at `label`.
PlaceOK(label, l) ==
  /\ label # "deleteTaken"
  /\ label = "idle" => l = NoLocals
  /\ label \in Answering => pending[l.t] # None
  /\ label = "savePending" => l.t \notin known
  /\ label \in Carrying => pending[l.t] = None /\ issued[l.t] = 0

\* A sign-in that is open, or unknown to any browser, has issued nothing.
EntryOK(t) ==
  /\ pending[t] # None => t \in known /\ issued[t] = 0
  /\ issued[t] > 0 => t \in known
  /\ issued[t] <= 1

Ordered ==
  /\ Alone
  /\ \A r \in Requests : PlaceOK(pc[r], req[r])
  /\ \A t \in Transactions : EntryOK(t)

OrderInv == ConsentInv /\ (Orderly => Ordered)

\* The stages as the instance of SignIn takes them.
StageOf == [t \in Transactions |-> IF Orderly THEN Stage(t) ELSE "new"]

Forward(from, to) ==
  \/ from = to
  \/ from = "new" /\ to = "open"
  \/ from = "open" /\ to = "approved"
  \/ (from = "approved" \/ (from = "open" /\ ~ConsentRequired)) /\ to = "claimed"
  \/ from = "claimed" /\ to = "done"
  \/ from \in {"open", "approved", "claimed"} /\ to = "over"

\* The stage of t, when its only request is one that awaits at `label`.
StageWith(label, l, t) ==
  IF issued[t] > 0 THEN "done"
  ELSE IF label \in Carrying /\ l.t = t /\ (ConsentRequired => l.request.consent) THEN "claimed"
  ELSE IF pending[t] # None THEN IF pending[t].consent THEN "approved" ELSE "open"
  ELSE IF t \in known THEN "over" ELSE "new"

\* What each step has to show.
Keeps == Ordered' /\ [SI!Next]_StageOf

LEMMA InitOrder == Init => OrderInv /\ SI!Init
<1> SUFFICES ASSUME Init PROVE OrderInv /\ SI!Init
  OBVIOUS
<1>1. ConsentInv
  BY InitConsent
<1>2. Ordered
  BY DEF Init, Ordered, Alone, PlaceOK, EntryOK, NoLocals, Answering, Carrying
<1>3. ASSUME NEW t \in Transactions PROVE Stage(t) = "new"
  BY DEF Init, Stage
<1> QED
  BY <1>1, <1>2, <1>3 DEF OrderInv, SI!Init

\* A step that takes one sign-in forward is a step of SignIn.
LEMMA ForwardStep ==
  ASSUME Orderly, Orderly', NEW t \in Transactions, Forward(Stage(t), Stage(t)'),
         \A u \in Transactions \ {t} : Stage(u)' = Stage(u)
  PROVE  [SI!Next]_StageOf
<1>1. PICK from, to : from = Stage(t) /\ to = Stage(t)'
  OBVIOUS
<1>2. StageOf = [u \in Transactions |-> Stage(u)]
  BY DEF StageOf
<1>3. StageOf' = [StageOf EXCEPT ![t] = to] /\ StageOf[t] = from
  BY <1>1, <1>2 DEF StageOf
<1>4. CASE from = to
  BY <1>1, <1>3, <1>4, <1>2
<1>5. CASE from # to
  <2>1. SI!Begin(t) \/ SI!Approve(t) \/ SI!Claim(t) \/ SI!Complete(t) \/ SI!Drop(t)
    BY <1>1, <1>3, <1>5
    DEF Forward, StageOf, SI!Begin, SI!Approve, SI!Claim, SI!Complete, SI!Drop, SI!To
  <2> QED
    BY <2>1 DEF SI!Next
<1> QED
  BY <1>4, <1>5

LEMMA StageAlone ==
  ASSUME NEW r \in Requests, NEW t \in Transactions, \A q \in Requests \ {r} : req[q].t # t
  PROVE  Stage(t) = StageWith(pc[r], req[r], t)
<1> DEFINE under == {q \in Requests : req[q].t = t /\ pc[q] \in {"findClient", "exchange", "saveCode"}
                                     /\ (ConsentRequired => req[q].request.consent)}
<1>1. under # {} <=> /\ pc[r] \in Carrying /\ req[r].t = t
                     /\ (ConsentRequired => req[r].request.consent)
  BY DEF Carrying
<1> QED
  BY <1>1 DEF Stage, StageWith

\* The same of the next state.
LEMMA StageAloneNext ==
  ASSUME NEW r \in Requests, NEW t \in Transactions, \A q \in Requests \ {r} : req'[q].t # t
  PROVE  Stage(t)' = StageWith(pc[r], req[r], t)'
<1> DEFINE under == {q \in Requests : req[q].t = t /\ pc[q] \in {"findClient", "exchange", "saveCode"}
                                     /\ (ConsentRequired => req[q].request.consent)}
<1>1. under' # {} <=> /\ pc'[r] \in Carrying /\ req'[r].t = t
                      /\ (ConsentRequired => req'[r].request.consent)
  BY DEF Carrying
<1> QED
  BY <1>1 DEF Stage, StageWith

\* A step in which no request comes to or leaves sign-in t.
LEMMA StageStays ==
  ASSUME NEW t \in Transactions,
         \A q \in Requests : req'[q].t = t \/ req[q].t = t => pc'[q] = pc[q] /\ req'[q] = req[q],
         pending'[t] = pending[t], issued'[t] = issued[t], t \in known' <=> t \in known
  PROVE  Stage(t)' = Stage(t)
<1> DEFINE under == {q \in Requests : req[q].t = t /\ pc[q] \in {"findClient", "exchange", "saveCode"}
                                     /\ (ConsentRequired => req[q].request.consent)}
<1>1. under' = under
  OBVIOUS
<1> QED
  BY <1>1 DEF Stage

\* A step in which only r moves, and is the only request of its sign-in t before and after.
LEMMA OneMoves ==
  ASSUME OrderInv, Orderly, setting' = setting, NEW r \in Requests, NEW t \in Transactions,
         NEW label \in Labels, NEW l \in Locals, Goto(r, label, l),
         req[r].t \in {None, t}, l.t \in {None, t},
         \A q \in Requests \ {r} : req[q].t # t,
         \A u \in Transactions \ {t} :
           pending'[u] = pending[u] /\ issued'[u] = issued[u] /\ (u \in known' <=> u \in known),
         PlaceOK(label, l)', EntryOK(t)',
         Forward(StageWith(pc[r], req[r], t), StageWith(label, l, t)')
  PROVE  Keeps
<1>0. Ordered /\ None \notin Transactions
  BY AuthorizationAssumption DEF OrderInv
<1>1. /\ pc'[r] = label /\ req'[r] = l
      /\ \A q \in Requests \ {r} : pc'[q] = pc[q] /\ req'[q] = req[q]
  BY DEF Goto, OrderInv, ConsentInv, TypeOK
<1>2. Alone'
  BY <1>0, <1>1 DEF Alone, Ordered
<1>3. \A q \in Requests \ {r} : PlaceOK(pc[q], req[q])'
  <2> SUFFICES ASSUME NEW q \in Requests \ {r} PROVE PlaceOK(pc[q], req[q])'
    OBVIOUS
  <2>1. PlaceOK(pc[q], req[q]) /\ LocalOK(pc[q], req[q]) /\ pc'[q] = pc[q] /\ req'[q] = req[q]
    BY <1>0, <1>1 DEF Ordered, OrderInv, ConsentInv, Consented
  <2>2. pc[q] # "idle" => req[q].t \in Transactions \ {t}
    BY <2>1 DEF LocalOK, OrderInv, ConsentInv, TypeOK
  <2> QED
    BY <2>1, <2>2 DEF PlaceOK, Answering, Carrying
<1>4. PlaceOK(pc[r], req[r])'
  BY <1>1 DEF PlaceOK
<1>5. \A u \in Transactions : EntryOK(u)'
  BY <1>0 DEF EntryOK, Ordered
<1>6. \A u \in Transactions \ {t} : Stage(u)' = Stage(u)
  BY <1>0, <1>1, StageStays
<1>7. Stage(t) = StageWith(pc[r], req[r], t)
  BY StageAlone
<1>8. Stage(t)' = StageWith(label, l, t)'
  BY <1>1, StageAloneNext DEF StageWith
<1>9. [SI!Next]_StageOf
  BY <1>6, <1>7, <1>8, ForwardStep DEF Orderly
<1> QED
  BY <1>2, <1>3, <1>4, <1>5, <1>9 DEF Keeps, Ordered

\* A step that leaves the requests, the entries and the codes alone.
LEMMA NoneMoves ==
  ASSUME OrderInv, Orderly, UNCHANGED <<setting, pc, req, pending, issued, known>>
  PROVE  Keeps
<1>1. Ordered'
  BY DEF OrderInv, Ordered, Alone, PlaceOK, EntryOK
<1>2. \A t \in Transactions : Stage(t)' = Stage(t)
  BY StageStays
<1>3. StageOf' = StageOf
  BY <1>2 DEF StageOf, Orderly
<1> QED
  BY <1>1, <1>3 DEF Keeps

\* A request in flight is of a sign-in that was begun, and the only one of it.
LEMMA InFlightAlone ==
  ASSUME OrderInv, Orderly, NEW r \in Requests, pc[r] # "idle"
  PROVE  /\ req[r].t \in Transactions
         /\ \A q \in Requests \ {r} : req[q].t # req[r].t
         /\ PlaceOK(pc[r], req[r]) /\ LocalOK(pc[r], req[r]) /\ EntryOK(req[r].t)
         /\ NoLocals \in Locals /\ NoLocals.t = None /\ "idle" \in Labels
<1>1. req[r].t \in Transactions
  BY DEF OrderInv, ConsentInv, TypeOK, Consented, LocalOK
<1>2. NoLocals \in Locals /\ NoLocals.t = None /\ "idle" \in Labels
  BY AuthorizationAssumption DEF NoLocals, Locals, Labels
<1> QED
  BY <1>1, <1>2, AuthorizationAssumption DEF OrderInv, Ordered, Alone, ConsentInv, Consented

LEMMA IdleNowhere ==
  ASSUME OrderInv, Orderly, NEW r \in Requests, pc[r] = "idle"
  PROVE  req[r] = NoLocals /\ req[r].t = None
  BY DEF OrderInv, Ordered, PlaceOK, NoLocals

LEMMA AuthorizeKeeps ==
  ASSUME OrderInv, ConsentInv', Orderly, NEW r \in Requests, NEW t \in Transactions,
         NEW c \in Clients, Authorize(r, t, c)
  PROVE  Keeps
<1>1. PICK l : l = [NoLocals EXCEPT !.t = t, !.request = [client |-> c, consent |-> FALSE,
                                                 expiresAt |-> now + TransactionLifetime]]
  OBVIOUS
<1>2. l.t = t /\ Goto(r, "savePending", l) /\ pc[r] = "idle" /\ t \notin begun
      /\ UNCHANGED <<setting, pending, issued, known>>
  BY <1>1 DEF Authorize, NoLocals, store
<1>3. l \in Locals /\ "savePending" \in Labels
  BY <1>2 DEF Goto, ConsentInv, TypeOK, OrderInv, Labels
<1>4. req[r].t = None
  BY <1>2, IdleNowhere
<1>5. t \notin known /\ EntryOK(t) /\ \A q \in Requests : req[q].t # t
  <2>1. ASSUME NEW q \in Requests PROVE req[q].t # t
    <3>1. CASE pc[q] = "idle"
      BY <3>1, IdleNowhere, AuthorizationAssumption
    <3>2. CASE pc[q] # "idle"
      BY <1>2, <3>2 DEF OrderInv, ConsentInv, Consented, LocalOK
    <3> QED
      BY <3>1, <3>2
  <2> QED
    BY <1>2, <2>1 DEF OrderInv, ConsentInv, TypeOK, Ordered
<1>6. PlaceOK("savePending", l)' /\ EntryOK(t)'
  BY <1>2, <1>5 DEF PlaceOK, EntryOK, Answering, Carrying
<1>7. StageWith(pc[r], req[r], t) = StageWith("savePending", l, t)'
  BY <1>2, <1>4 DEF StageWith, Carrying
<1> QED
  BY <1>2, <1>3, <1>4, <1>5, <1>6, <1>7, OneMoves DEF Forward

LEMMA SavePendingKeeps ==
  ASSUME OrderInv, ConsentInv', Orderly, NEW r \in Requests, SavePending(r)
  PROVE  Keeps
<1>1. PICK t \in Transactions : t = req[r].t
  BY InFlightAlone DEF SavePending
<1>2. /\ \A q \in Requests \ {r} : req[q].t # t
      /\ t \notin known /\ req[r].request \in Pending /\ ~req[r].request.consent /\ EntryOK(t)
      /\ NoLocals \in Locals /\ NoLocals.t = None /\ "idle" \in Labels
  BY <1>1, InFlightAlone DEF SavePending, PlaceOK, LocalOK
<1>3. /\ pc[r] = "savePending" /\ Goto(r, "idle", NoLocals)
      /\ pending' = [pending EXCEPT ![t] = req[r].request] /\ known' = known \cup {t}
      /\ UNCHANGED <<setting, issued>>
  BY <1>1 DEF SavePending, End
<1>4. issued[t] = 0 /\ pending[t] = None /\ pending'[t] = req[r].request
  BY <1>2, <1>3 DEF EntryOK, OrderInv, ConsentInv, TypeOK
<1>5. PlaceOK("idle", NoLocals)' /\ EntryOK(t)'
  BY <1>3, <1>4 DEF PlaceOK, EntryOK, NoLocals, Answering, Carrying
<1>6. StageWith(pc[r], req[r], t) = "new" /\ StageWith("idle", NoLocals, t)' = "open"
  BY <1>2, <1>3, <1>4, NoneAssumption DEF StageWith, Carrying
<1>7. \A u \in Transactions \ {t} :
        pending'[u] = pending[u] /\ issued'[u] = issued[u] /\ (u \in known' <=> u \in known)
  BY <1>3 DEF OrderInv, ConsentInv, TypeOK
<1> QED
  BY <1>1, <1>2, <1>3, <1>5, <1>6, <1>7, OneMoves DEF Forward

LEMMA DecideKeeps ==
  ASSUME OrderInv, ConsentInv', Orderly, NEW r \in Requests, NEW t \in Transactions,
         NEW action \in {"approve", "deny"}, Decide(r, t, action)
  PROVE  Keeps
<1>1. PICK l : l = [NoLocals EXCEPT !.t = t, !.request = pending[t]]
  OBVIOUS
<1>2. PICK label \in Answering : Goto(r, label, l)
  BY <1>1 DEF Decide, Answering
<1>3. /\ l.t = t /\ pc[r] = "idle" /\ pending[t] # None
      /\ \A q \in Requests : req[q].t # t
      /\ UNCHANGED <<setting, pending, issued, known>>
  BY <1>1 DEF Decide, Readable, Orderly, NoLocals, store, world
<1>4. l \in Locals /\ label \in Labels
  BY <1>2 DEF Goto, ConsentInv, TypeOK, OrderInv, Labels, Answering
<1>5. req[r].t = None
  BY <1>3, IdleNowhere
<1>6. EntryOK(t)
  BY DEF OrderInv, Ordered
<1>7. PlaceOK(label, l)' /\ EntryOK(t)'
  BY <1>2, <1>3, <1>6 DEF PlaceOK, EntryOK, Answering, Carrying
<1>8. StageWith(pc[r], req[r], t) = StageWith(label, l, t)'
  BY <1>2, <1>3, <1>5 DEF StageWith, Carrying, Answering
<1> QED
  BY <1>2, <1>3, <1>4, <1>5, <1>7, <1>8, OneMoves DEF Forward

\* A request that was alone on its sign-in ends.
LEMMA EndKeeps ==
  ASSUME OrderInv, Orderly, setting' = setting, NEW r \in Requests, pc[r] # "idle", End(r),
         NEW t \in Transactions, t = req[r].t,
         \A u \in Transactions \ {t} : pending'[u] = pending[u] /\ issued'[u] = issued[u],
         known' = known, EntryOK(t)',
         Forward(StageWith(pc[r], req[r], t), StageWith("idle", NoLocals, t)')
  PROVE  Keeps
<1>1. /\ \A q \in Requests \ {r} : req[q].t # t
      /\ NoLocals \in Locals /\ NoLocals.t = None /\ "idle" \in Labels
  BY InFlightAlone
<1>2. PlaceOK("idle", NoLocals)'
  BY DEF PlaceOK, Answering, Carrying
<1> QED
  BY <1>1, <1>2, OneMoves DEF End

LEMMA SaveApprovedKeeps ==
  ASSUME OrderInv, ConsentInv', Orderly, NEW r \in Requests, SaveApproved(r)
  PROVE  Keeps
<1>1. PICK t \in Transactions : t = req[r].t /\ EntryOK(t)
  BY InFlightAlone DEF SaveApproved
<1>2. /\ pc[r] = "saveApproved" /\ End(r) /\ UNCHANGED <<setting, issued, known>>
      /\ pending' = [pending EXCEPT ![t] = Approved(req[r].request)]
  BY <1>1 DEF SaveApproved, world
<1>3. pending[t] # None /\ req[r].request \in Pending
  BY <1>1, <1>2, InFlightAlone DEF PlaceOK, LocalOK, Answering
<1>4. pending'[t] \in Pending /\ pending'[t].consent
  BY <1>2, <1>3 DEF Approved, Pending, OrderInv, ConsentInv, TypeOK
<1>5. EntryOK(t)'
  BY <1>1, <1>2, <1>3 DEF EntryOK
<1>6. issued[t] = 0
  BY <1>1, <1>3 DEF EntryOK
<1>7. /\ StageWith(pc[r], req[r], t) \in {"open", "approved"}
      /\ StageWith("idle", NoLocals, t)' = "approved"
  BY <1>2, <1>3, <1>4, <1>6, NoneAssumption DEF StageWith, Carrying
<1>8. \A u \in Transactions \ {t} : pending'[u] = pending[u] /\ issued'[u] = issued[u]
  BY <1>2 DEF OrderInv, ConsentInv, TypeOK
<1> QED
  BY <1>1, <1>2, <1>5, <1>7, <1>8, EndKeeps DEF Forward

LEMMA DeleteDeniedKeeps ==
  ASSUME OrderInv, ConsentInv', Orderly, NEW r \in Requests, DeleteDenied(r)
  PROVE  Keeps
<1>1. PICK t \in Transactions : t = req[r].t /\ EntryOK(t)
  BY InFlightAlone DEF DeleteDenied
<1>2. /\ pc[r] = "deleteDenied" /\ End(r) /\ UNCHANGED <<setting, issued, known>>
      /\ pending' = [pending EXCEPT ![t] = None]
  BY <1>1 DEF DeleteDenied, world
<1>3. pending[t] # None /\ pending'[t] = None
  BY <1>1, <1>2, InFlightAlone DEF PlaceOK, Answering, OrderInv, ConsentInv, TypeOK
<1>4. t \in known /\ issued[t] = 0 /\ EntryOK(t)'
  BY <1>1, <1>2, <1>3 DEF EntryOK
<1>5. /\ StageWith(pc[r], req[r], t) \in {"open", "approved"}
      /\ StageWith("idle", NoLocals, t)' = "over"
  BY <1>2, <1>3, <1>4 DEF StageWith, Carrying
<1>6. \A u \in Transactions \ {t} : pending'[u] = pending[u] /\ issued'[u] = issued[u]
  BY <1>2 DEF OrderInv, ConsentInv, TypeOK
<1> QED
  BY <1>1, <1>2, <1>4, <1>5, <1>6, EndKeeps DEF Forward

LEMMA CallbackKeeps ==
  ASSUME OrderInv, ConsentInv', Orderly, NEW r \in Requests, NEW t \in Transactions,
         NEW code \in 0..MaxReturns, Callback(r, t, code)
  PROVE  Keeps
<1>1. /\ pc[r] = "idle" /\ t \in known /\ pending' = [pending EXCEPT ![t] = None]
      /\ UNCHANGED <<setting, issued, known>>
      /\ \A q \in Requests : pc[q] \in Answering => req[q].t # t
      /\ Taken(r, t, pending[t], code)
  BY DEF Callback, Brought, Consumed, Orderly, world
<1>2. req[r] = NoLocals /\ req[r].t = None /\ EntryOK(t)
  BY <1>1, IdleNowhere DEF OrderInv, Ordered
<1>3. CASE pending[t] = None
  <2>1. pending' = pending
    BY <1>1, <1>3 DEF OrderInv, ConsentInv, TypeOK
  <2>2. End(r)
    BY <1>1, <1>3 DEF Taken, Readable
  <2>3. pc' = pc /\ req' = req
    BY <1>1, <1>2, <2>2 DEF End, Goto, OrderInv, ConsentInv, TypeOK
  <2> QED
    BY <1>1, <2>1, <2>3, NoneMoves
<1>4. CASE pending[t] # None
  <2>1. ASSUME NEW q \in Requests PROVE req[q].t # t
    <3>1. CASE pc[q] = "idle"
      BY <3>1, IdleNowhere, AuthorizationAssumption
    <3>2. CASE pc[q] # "idle"
      <4>1. PlaceOK(pc[q], req[q]) /\ pc[q] \in Labels
        BY <3>2, InFlightAlone DEF OrderInv, ConsentInv, TypeOK
      <4> QED
        BY <1>1, <1>4, <3>2, <4>1 DEF PlaceOK, Labels, Answering, Carrying
    <3> QED
      BY <3>1, <3>2
  <2>2. issued[t] = 0 /\ pending'[t] = None /\ EntryOK(t)'
    BY <1>1, <1>2, <1>4 DEF EntryOK, OrderInv, ConsentInv, TypeOK
  <2>3. \A u \in Transactions \ {t} : pending'[u] = pending[u] /\ issued'[u] = issued[u]
    BY <1>1 DEF OrderInv, ConsentInv, TypeOK
  <2>4. StageWith(pc[r], req[r], t) = IF pending[t].consent THEN "approved" ELSE "open"
    BY <1>1, <1>4, <2>2 DEF StageWith, Carrying
  <2>5. CASE End(r)
    <3>1. StageWith("idle", NoLocals, t)' = "over"
      BY <1>1, <2>2 DEF StageWith, Carrying
    <3>2. Forward(StageWith(pc[r], req[r], t), StageWith("idle", NoLocals, t)')
      BY <2>4, <3>1 DEF Forward
    <3>3. PlaceOK("idle", NoLocals)' /\ NoLocals.t = None
      BY DEF PlaceOK, Answering, Carrying, NoLocals
    <3>4. NoLocals \in Locals /\ "idle" \in Labels
      BY AuthorizationAssumption DEF NoLocals, Locals, Labels
    <3> QED
      BY <1>1, <1>2, <2>1, <2>2, <2>3, <2>5, <3>2, <3>3, <3>4, OneMoves DEF End
  <2>6. CASE Goto(r, "findClient", [t |-> t, request |-> pending[t], code |-> code])
    <3>1. PICK l : l = [t |-> t, request |-> pending[t], code |-> code]
      OBVIOUS
    <3>2. l \in Locals /\ "findClient" \in Labels /\ l.t = t /\ l.request = pending[t]
      BY <3>1 DEF Locals, Labels, OrderInv, ConsentInv, TypeOK
    <3>3. PlaceOK("findClient", l)'
      BY <1>1, <2>2, <3>2 DEF PlaceOK, Answering, Carrying
    <3>4. StageWith("findClient", l, t)'
            = IF ConsentRequired /\ ~pending[t].consent THEN "over" ELSE "claimed"
      BY <1>1, <2>2, <3>2 DEF StageWith, Carrying
    <3>5. Forward(StageWith(pc[r], req[r], t), StageWith("findClient", l, t)')
      BY <2>4, <3>4 DEF Forward
    <3> QED
      BY <1>1, <1>2, <2>1, <2>2, <2>3, <2>6, <3>1, <3>2, <3>3, <3>5, OneMoves
  <2> QED
    BY <1>1, <2>5, <2>6 DEF Taken
<1> QED
  BY <1>3, <1>4

\* A request that carries its sign-in on, or drops it.
LEMMA CarryKeeps ==
  ASSUME OrderInv, ConsentInv', Orderly, NEW r \in Requests, pc[r] \in Carrying,
         NEW label \in {"exchange", "saveCode"},
         End(r) \/ (Goto(r, label, req[r]) /\ (ConsentRequired => req[r].request.consent)),
         UNCHANGED <<setting, pending, issued, known>>
  PROVE  Keeps
<1>1. pc[r] # "idle"
  BY DEF Carrying
<1>2. PICK t \in Transactions : t = req[r].t
  BY <1>1, InFlightAlone
<1>3. PICK l \in Locals : l = req[r] /\ l.t = t
  BY <1>2 DEF OrderInv, ConsentInv, TypeOK
<1>4. /\ pending[t] = None /\ issued[t] = 0 /\ t \in known /\ EntryOK(t)
      /\ \A q \in Requests \ {r} : req[q].t # t
  BY <1>1, <1>2, InFlightAlone DEF PlaceOK, LocalOK, Carrying
<1>5. EntryOK(t)'
  BY <1>4 DEF EntryOK
<1>6. StageWith(pc[r], req[r], t) = IF ConsentRequired => l.request.consent THEN "claimed" ELSE "over"
  BY <1>3, <1>4 DEF StageWith
<1>7. CASE End(r)
  <2>1. StageWith("idle", NoLocals, t)' = "over"
    BY <1>4 DEF StageWith, Carrying
  <2> QED
    BY <1>1, <1>2, <1>5, <1>6, <1>7, <2>1, EndKeeps DEF Forward
<1>8. CASE Goto(r, label, l) /\ (ConsentRequired => l.request.consent)
  <2>1. PlaceOK(label, l)' /\ label \in Labels
    BY <1>3, <1>4 DEF PlaceOK, Answering, Carrying, Labels
  <2>2. StageWith(label, l, t)' = "claimed"
    BY <1>3, <1>4, <1>8 DEF StageWith, Carrying
  <2> QED
    BY <1>2, <1>3, <1>4, <1>5, <1>6, <1>8, <2>1, <2>2, OneMoves DEF Forward
<1> QED
  BY <1>3, <1>7, <1>8

LEMMA SaveCodeKeeps ==
  ASSUME OrderInv, ConsentInv', Orderly, NEW r \in Requests, SaveCode(r)
  PROVE  Keeps
<1>1. PICK t \in Transactions : t = req[r].t
  BY InFlightAlone DEF SaveCode
<1>2. /\ pc[r] = "saveCode" /\ End(r) /\ UNCHANGED <<setting, pending, known>>
      /\ issued' = [issued EXCEPT ![t] = @ + 1]
  BY <1>1 DEF SaveCode, world
<1>3. /\ pending[t] = None /\ issued[t] = 0 /\ t \in known
      /\ (ConsentRequired => req[r].request.consent)
  BY <1>1, <1>2, InFlightAlone DEF PlaceOK, LocalOK, Carrying
<1>4. issued'[t] = 1
  BY <1>2, <1>3 DEF OrderInv, ConsentInv, TypeOK
<1>5. EntryOK(t)'
  BY <1>2, <1>3, <1>4 DEF EntryOK
<1>6. StageWith(pc[r], req[r], t) = "claimed" /\ StageWith("idle", NoLocals, t)' = "done"
  BY <1>1, <1>2, <1>3, <1>4 DEF StageWith, Carrying
<1>7. \A u \in Transactions \ {t} : pending'[u] = pending[u] /\ issued'[u] = issued[u]
  BY <1>2 DEF OrderInv, ConsentInv, TypeOK
<1> QED
  BY <1>1, <1>2, <1>5, <1>6, <1>7, EndKeeps DEF Forward

LEMMA FailKeeps ==
  ASSUME OrderInv, ConsentInv', Orderly, NEW r \in Requests, Fail(r)
  PROVE  Keeps
<1>1. pc[r] # "idle" /\ End(r) /\ UNCHANGED <<setting, pending, issued, known>>
  BY DEF Fail, store, world
<1>2. CASE pc[r] \in Carrying
  BY <1>1, <1>2, CarryKeeps
<1>3. CASE pc[r] \notin Carrying
  <2>1. PICK t \in Transactions : t = req[r].t /\ EntryOK(t)
    BY <1>1, InFlightAlone
  <2>2. EntryOK(t)'
    BY <1>1, <2>1 DEF EntryOK
  <2>3. StageWith(pc[r], req[r], t) = StageWith("idle", NoLocals, t)'
    BY <1>1, <1>3 DEF StageWith, Carrying
  <2> QED
    BY <1>1, <2>1, <2>2, <2>3, EndKeeps DEF Forward
<1> QED
  BY <1>2, <1>3

LEMMA StepOrder == OrderInv /\ [Next]_vars => OrderInv' /\ [SI!Next]_StageOf
<1> SUFFICES ASSUME OrderInv, [Next]_vars PROVE OrderInv' /\ [SI!Next]_StageOf
  OBVIOUS
<1>1. ConsentInv'
  BY StepConsent DEF OrderInv
<1>2. setting' = setting
  BY DEF Next, vars, Register, Authorize, Decide, Callback, ReadCallback, ProviderReturns,
     SavePending, SaveApproved, DeleteDenied, DeleteTaken, FindClient, Exchange, SaveCode, Fail,
     Tick
<1>3. CASE ~Orderly
  <2>1. ~Orderly' /\ StageOf' = StageOf
    BY <1>2, <1>3 DEF Orderly, StageOf
  <2> QED
    BY <1>1, <2>1 DEF OrderInv
<1>4. CASE Orderly
  <2> SUFFICES Keeps
    BY <1>1 DEF Keeps, OrderInv
  <2>1. CASE \/ \E c \in Clients : Register(c)
             \/ \E t \in Transactions : ProviderReturns(t)
             \/ Tick \/ UNCHANGED vars
    BY <1>4, <2>1, NoneMoves DEF Register, ProviderReturns, Tick, vars, store, world
  <2>2. ASSUME NEW r \in Requests, FindClient(r) PROVE Keeps
    <3>1. pc[r] \in Carrying /\ UNCHANGED <<setting, pending, issued, known>>
      BY <2>2 DEF FindClient, Carrying, store, world
    <3>2. End(r) \/ (Goto(r, "exchange", req[r]) /\ (ConsentRequired => req[r].request.consent))
      BY <2>2 DEF FindClient, Accepted
    <3> QED
      BY <1>1, <1>4, <3>1, <3>2, CarryKeeps
  <2>3. ASSUME NEW r \in Requests, Exchange(r) PROVE Keeps
    <3>1. /\ pc[r] = "exchange" /\ UNCHANGED <<setting, pending, issued, known>>
          /\ End(r) \/ Goto(r, "saveCode", req[r])
      BY <2>3 DEF Exchange, Unexchanged, store
    <3>2. ConsentRequired => req[r].request.consent
      BY <1>4, <3>1, InFlightAlone DEF LocalOK
    <3> QED
      BY <1>1, <1>4, <3>1, <3>2, CarryKeeps DEF Carrying
  <2>4. ASSUME NEW r \in Requests, NEW t \in Transactions, NEW code \in 0..MaxReturns
        PROVE  ~ReadCallback(r, t, code)
    BY <1>4 DEF ReadCallback, Orderly
  <2>5. ASSUME NEW r \in Requests PROVE ~DeleteTaken(r)
    BY <1>4 DEF DeleteTaken, OrderInv, Ordered, PlaceOK
  <2> QED
    BY <1>1, <1>4, <2>1, <2>2, <2>3, <2>4, <2>5, AuthorizeKeeps, SavePendingKeeps, DecideKeeps,
       SaveApprovedKeeps, DeleteDeniedKeeps, CallbackKeeps, SaveCodeKeeps, FailKeeps DEF Next
<1> QED
  BY <1>3, <1>4

(* Over a store with take, and when consent answers overlap nothing, every sign-in goes the    *)
(* one way of SignIn: consent before the code, and none that was denied, failed or completed   *)
(* comes back (authorization.ts:166-276).                                                      *)
THEOREM Implements == Spec => ImplementsSignIn
BY InitOrder, StepOrder, PTL DEF Spec, ImplementsSignIn, SI!Spec, StageOf

(* There one sign-in sends its client one code at most (authorization.ts:241); the runs of     *)
(* MCAuthorization show that overlapping answers break it.                                     *)
THEOREM OneCode == Spec => [](Orderly => CompletedOnce)
<1>1. OrderInv => (Orderly => CompletedOnce)
  BY DEF OrderInv, Ordered, EntryOK, CompletedOnce
<1> QED
  BY <1>1, InitOrder, StepOrder, PTL DEF Spec

=============================================================================
