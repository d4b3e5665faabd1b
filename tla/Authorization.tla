--------------------------- MODULE Authorization ---------------------------
(***************************************************************************)
(* The browser endpoints of the OAuth server                               *)
(* (src/src/node/oauth/authorization.ts) over the pending requests and the *)
(* clients of its store: an app registers, sends its user to sign in, the  *)
(* user answers the consent page, the provider sends the browser back, and *)
(* the server sends it on to the app with an authorization code.           *)
(*                                                                         *)
(* Each action is one store operation or one provider call with the        *)
(* synchronous code that follows it; pc[r] names what request r awaits.    *)
(* The browser and the provider are not trusted to go through a sign-in    *)
(* once: pages are reloaded, and the user may return from the provider     *)
(* more than once.                                                         *)
(***************************************************************************)
EXTENDS Naturals, FiniteSets

CONSTANTS
  Requests,              \* calls to the endpoints that may overlap
  Transactions,          \* sign-ins, by the random id of their pending request
  Clients,               \* clients that may register
  ConsentRequired,       \* settings.consentRequired
  Settings,              \* what the store and the browser may be like
  TransactionLifetime,
  ClientLifetime,
  MaxTime,               \* bound: the last tick
  MaxReturns,            \* bound: how often the provider sends the user back, per sign-in
  MaxFaults,             \* bound: failed store operations and crashes
  None

ASSUME AuthorizationAssumption ==
  /\ ConsentRequired \in BOOLEAN
  /\ Settings \subseteq [atomicTake: BOOLEAN, decideAlone: BOOLEAN]
  /\ {TransactionLifetime, ClientLifetime, MaxTime, MaxReturns, MaxFaults} \subseteq Nat
  /\ None \notin Transactions \cup Clients

VARIABLES
  setting,      \* whether the store implements take, and whether a consent answer
                \* overlaps no other request of its sign-in; it stays as it is
  now,          \* the clock
  pc,           \* what each request awaits
  req,          \* the locals of each request
  pending,      \* store: the pending request of each sign-in
  clientUntil,  \* store: until when each client is kept; 0 when it never registered
  begun,        \* ids drawn so far
  known,        \* ids a browser has seen, in the consent page or in the provider's URL
  returns,      \* provider codes the provider sent browsers back with, per sign-in
  exchanged,    \* provider codes the provider has exchanged: it honours each one once
  issued,       \* store: how many authorization codes were saved, per sign-in
  approved,     \* history: sign-ins some consent answer approved
  faults        \* history: how many faults there were

store == <<pending, clientUntil, issued>>
world == <<begun, known, returns, exchanged>>
ghosts == <<approved, faults>>
vars  == <<setting, now, pc, req, store, world, ghosts>>

Pending == [client: Clients, consent: BOOLEAN, expiresAt: Nat]

ASSUME NoneAssumption == None \notin Pending

Labels  == {"idle", "savePending", "saveApproved", "deleteDenied", "deleteTaken",
            "findClient", "exchange", "saveCode"}
Locals  == [t: Transactions \cup {None}, request: Pending \cup {None}, code: 0..MaxReturns]

NoLocals == [t |-> None, request |-> None, code |-> 0]

Init ==
  /\ setting \in Settings
  /\ now = 1
  /\ pc = [r \in Requests |-> "idle"]
  /\ req = [r \in Requests |-> NoLocals]
  /\ pending = [t \in Transactions |-> None]
  /\ clientUntil = [c \in Clients |-> 0]
  /\ begun = {}
  /\ known = {}
  /\ returns = [t \in Transactions |-> 0]
  /\ exchanged = [t \in Transactions |-> {}]
  /\ issued = [t \in Transactions |-> 0]
  /\ approved = {}
  /\ faults = 0

-----------------------------------------------------------------------------
Goto(r, label, locals) ==
  /\ pc' = [pc EXCEPT ![r] = label]
  /\ req' = [req EXCEPT ![r] = locals]

End(r) == Goto(r, "idle", NoLocals)

Registered(c) == clientUntil[c] # 0 /\ now <= clientUntil[c]

\* records.pending decodes the entry and passes over one that has lapsed.
Readable(entry) == entry # None /\ now <= entry.expiresAt

Answering == {"saveApproved", "deleteDenied"}

\* clients.register: a fresh id, saved for a lifetime.
Register(c) ==
  /\ clientUntil[c] = 0
  /\ clientUntil' = [clientUntil EXCEPT ![c] = now + ClientLifetime]
  /\ UNCHANGED <<setting, now, pc, req, pending, issued, world, ghosts>>

\* authorize: the client is looked up, and the request gets an id of its own.
Authorize(r, t, c) ==
  /\ pc[r] = "idle"
  /\ t \notin begun
  /\ Registered(c)
  /\ begun' = begun \cup {t}
  /\ Goto(r, "savePending",
          [NoLocals EXCEPT !.t = t, !.request = [client |-> c, consent |-> FALSE,
                                                 expiresAt |-> now + TransactionLifetime]])
  /\ UNCHANGED <<setting, now, store, known, returns, exchanged, ghosts>>

\* The answer carries the id: in the consent page, or in the redirect to the provider.
SavePending(r) ==
  /\ pc[r] = "savePending"
  /\ pending' = [pending EXCEPT ![req[r].t] = req[r].request]
  /\ known' = known \cup {req[r].t}
  /\ End(r)
  /\ UNCHANGED <<setting, now, clientUntil, issued, begun, returns, exchanged, ghosts>>

\* decide up to what it finds.
Decide(r, t, action) ==
  /\ ConsentRequired
  /\ pc[r] = "idle"
  /\ t \in known
  /\ setting.decideAlone => \A q \in Requests : req[q].t # t
  /\ Readable(pending[t])
  /\ Goto(r, IF action = "approve" THEN "saveApproved" ELSE "deleteDenied",
          [NoLocals EXCEPT !.t = t, !.request = pending[t]])
  /\ approved' = IF action = "approve" THEN approved \cup {t} ELSE approved
  /\ UNCHANGED <<setting, now, store, world, faults>>

Approved_WithoutSpread(request) == [consent |-> TRUE]

Approved(request) == [request EXCEPT !.consent = TRUE]

\* What was found is saved again, whatever became of the entry meanwhile.
SaveApproved(r) ==
  /\ pc[r] = "saveApproved"
  /\ pending' = [pending EXCEPT ![req[r].t] = Approved(req[r].request)]
  /\ End(r)
  /\ UNCHANGED <<setting, now, clientUntil, issued, world, ghosts>>

\* The lookup of where to send the refusal changes nothing.
DeleteDenied(r) ==
  /\ pc[r] = "deleteDenied"
  /\ pending' = [pending EXCEPT ![req[r].t] = None]
  /\ End(r)
  /\ UNCHANGED <<setting, now, clientUntil, issued, world, ghosts>>

\* External: the user signs in at the provider, by the server's redirect or with an id seen
\* in the consent page, and comes back with a new provider code.
ProviderReturns(t) ==
  /\ t \in known
  /\ returns[t] < MaxReturns
  /\ returns' = [returns EXCEPT ![t] = @ + 1]
  /\ UNCHANGED <<setting, now, pc, req, store, begun, known, exchanged, ghosts>>

\* The browser brings the provider's answer: one of its codes, or (0) an error.
Brought(r, t, code) ==
  /\ pc[r] = "idle"
  /\ t \in known
  /\ code \in 0..returns[t]
  /\ setting.decideAlone => \A q \in Requests : pc[q] \in Answering => req[q].t # t

\* What callback does with the entry it took.
Taken(r, t, entry, code) ==
  IF Readable(entry)
  THEN Goto(r, "findClient", [t |-> t, request |-> entry, code |-> code])
  ELSE End(r)

Consumed_NotAtAll(t) == UNCHANGED pending

\* Consumed whatever the outcome.
Consumed(t) == pending' = [pending EXCEPT ![t] = None]

Callback(r, t, code) ==
  /\ setting.atomicTake
  /\ Brought(r, t, code)
  /\ Consumed(t)
  /\ Taken(r, t, pending[t], code)
  /\ UNCHANGED <<setting, now, clientUntil, issued, world, ghosts>>

\* Without take: a get, and then a delete of whatever is there by then.
ReadCallback(r, t, code) ==
  /\ ~setting.atomicTake
  /\ Brought(r, t, code)
  /\ Goto(r, "deleteTaken", [t |-> t, request |-> pending[t], code |-> code])
  /\ UNCHANGED <<setting, now, store, world, ghosts>>

DeleteTaken(r) ==
  /\ pc[r] = "deleteTaken"
  /\ Consumed(req[r].t)
  /\ Taken(r, req[r].t, req[r].request, req[r].code)
  /\ UNCHANGED <<setting, now, clientUntil, issued, world, ghosts>>

Accepted_Unasked(request, code) == Registered(request.client) /\ code # 0

\* The client is still there, the consent page was answered, and the provider sent a code.
Accepted(request, code) ==
  /\ Registered(request.client)
  /\ ConsentRequired => request.consent
  /\ code # 0

FindClient(r) ==
  /\ pc[r] = "findClient"
  /\ IF Accepted(req[r].request, req[r].code) THEN Goto(r, "exchange", req[r]) ELSE End(r)
  /\ UNCHANGED <<setting, now, store, world, ghosts>>

Unexchanged_GoesOn(r) == Goto(r, "saveCode", req[r])

\* An exchange without tokens ends with an error for the client.
Unexchanged(r) == End(r)

\* upstream.exchangeCode and acceptSignIn.  The provider honours a code once; a refusal, an
\* outage and a timeout end the sign-in, the last possibly with the code used up.
Exchange(r) ==
  /\ pc[r] = "exchange"
  /\ LET t == req[r].t IN
       \/ /\ req[r].code \notin exchanged[t]
          /\ exchanged' = [exchanged EXCEPT ![t] = @ \cup {req[r].code}]
          /\ Goto(r, "saveCode", req[r]) \/ End(r)
       \/ Unexchanged(r) /\ UNCHANGED exchanged
  /\ UNCHANGED <<setting, now, store, begun, known, returns, ghosts>>

\* issueCode.
SaveCode(r) ==
  /\ pc[r] = "saveCode"
  /\ issued' = [issued EXCEPT ![req[r].t] = @ + 1]
  /\ End(r)
  /\ UNCHANGED <<setting, now, pending, clientUntil, world, ghosts>>

\* A store operation rejects, or the process dies: the request is answered with an error or
\* not at all, and nothing is undone.
Fail(r) ==
  /\ pc[r] # "idle"
  /\ faults < MaxFaults
  /\ faults' = faults + 1
  /\ End(r)
  /\ UNCHANGED <<setting, now, store, world, approved>>

Tick ==
  /\ now < MaxTime
  /\ now' = now + 1
  /\ UNCHANGED <<setting, pc, req, store, world, ghosts>>

Next ==
  \/ \E c \in Clients : Register(c)
  \/ \E r \in Requests, t \in Transactions :
       \/ \E c \in Clients : Authorize(r, t, c)
       \/ \E action \in {"approve", "deny"} : Decide(r, t, action)
       \/ \E code \in 0..MaxReturns : Callback(r, t, code) \/ ReadCallback(r, t, code)
  \/ \E t \in Transactions : ProviderReturns(t)
  \/ \E r \in Requests :
       \/ SavePending(r) \/ SaveApproved(r) \/ DeleteDenied(r) \/ DeleteTaken(r)
       \/ FindClient(r) \/ Exchange(r) \/ SaveCode(r) \/ Fail(r)
  \/ Tick

Spec == Init /\ [][Next]_vars

-----------------------------------------------------------------------------
TypeOK ==
  /\ setting \in Settings
  /\ now \in Nat
  /\ pc \in [Requests -> Labels]
  /\ req \in [Requests -> Locals]
  /\ pending \in [Transactions -> Pending \cup {None}]
  /\ clientUntil \in [Clients -> Nat]
  /\ begun \subseteq Transactions
  /\ known \subseteq begun
  /\ returns \in [Transactions -> 0..MaxReturns]
  /\ exchanged \in [Transactions -> SUBSET (1..MaxReturns)]
  /\ issued \in [Transactions -> Nat]
  /\ approved \subseteq begun
  /\ faults \in Nat

(* One sign-in sends its client one authorization code at most, however often the user comes *)
(* back from the provider (authorization.ts:241, "one sign-in cannot be completed twice").    *)
CompletedOnce == \A t \in Transactions : issued[t] <= 1

\* The store takes atomically, and no consent answer overlaps its sign-in's other requests.
Orderly == setting.atomicTake /\ setting.decideAlone

(* When consent is required, a code is issued only for a sign-in some consent answer          *)
(* approved, even over a store without take and with answers overlapping anything             *)
(* (authorization.ts:247).                                                                    *)
ConsentBeforeCode ==
  ConsentRequired => \A t \in Transactions : issued[t] > 0 => t \in approved

(* Even then, each code a client is sent stands for a provider code of its own, exchanged     *)
(* and not only brought (authorization.ts:266-275).                                           *)
CodesBacked == \A t \in Transactions : issued[t] <= Cardinality(exchanged[t])

\* How far sign-in t is: its pending request, the request carrying it on, or its code.
Stage(t) ==
  LET under == {r \in Requests : req[r].t = t /\ pc[r] \in {"findClient", "exchange", "saveCode"}
                                /\ (ConsentRequired => req[r].request.consent)}
  IN IF issued[t] > 0 THEN "done"
     ELSE IF under # {} THEN "claimed"
     ELSE IF pending[t] # None THEN IF pending[t].consent THEN "approved" ELSE "open"
     ELSE IF t \in known THEN "over" ELSE "new"

\* The sign-ins as the abstract specification sees them.  It promises nothing when the setting
\* is not orderly.
SI == INSTANCE SignIn WITH
        stage <- [t \in Transactions |-> IF Orderly THEN Stage(t) ELSE "new"]

(* Every step takes each sign-in forward as SignIn allows or leaves it where it is: consent    *)
(* precedes the code, a denied, failed or completed sign-in never comes back                   *)
(* (authorization.ts:166-276).                                                                 *)
ImplementsSignIn == SI!Spec

=============================================================================
