------------------------------- MODULE Grants -------------------------------
(***************************************************************************)
(* The token endpoint of the OAuth server (src/src/node/oauth/grants.ts)   *)
(* over its store (records.ts): redeeming an authorization code, rotating  *)
(* a refresh token through the provider, resolving a bearer token and      *)
(* revoking a user.                                                        *)
(*                                                                         *)
(* Any number of requests run at once, in one process or in several that   *)
(* share the store.  The code between two awaits runs alone, so each       *)
(* action below is one store operation or one provider call together with  *)
(* the synchronous code that follows it, and pc[r] names the await request *)
(* r is suspended in.  Time is a tick counter; the entries of the store    *)
(* lapse when the clock passes the time they are kept until.               *)
(***************************************************************************)
EXTENDS Naturals, FiniteSets

CONSTANTS
  Requests,          \* calls to the token endpoint or to revokeUser that may overlap
  Clients,           \* registered clients
  Users,             \* values of the subject claim
  Codes,             \* authorization codes; one per completed sign-in
  Keys,              \* random keys the provider's tokens are kept under
  MaxTokens,         \* bound: how many JWTs are signed
  MaxTime,           \* bound: the last tick
  Lifetimes,         \* what the provider may say of its tokens' lifetimes
  CodeLifetime,
  ClientLifetime,
  AtomicTake,        \* whether the store implements take
  MaxFaults,         \* bound: failed store operations, lost answers and crashes
  None

ASSUME GrantsAssumption ==
  /\ {MaxTokens, MaxTime, MaxFaults} \subseteq Nat
  /\ CodeLifetime \in Nat /\ ClientLifetime \in Nat
  /\ Lifetimes \subseteq [access: Nat, refresh: Nat]
  /\ AtomicTake \in BOOLEAN
  /\ None \notin Users \cup Clients \cup Codes \cup Keys

VARIABLES
  now,          \* the clock
  pc,           \* what each request awaits
  req,          \* the locals of each request
  codes,        \* store: authorization codes and their spent markers
  grants,       \* store: until when each JWT's grant is kept; 0 when it is not there
  upstream,     \* store: the provider's tokens, under their key
  revokedAt,    \* store: the moment each user's sign-ins were revoked; 0 for never
  clientUntil,  \* store: until when each client is kept
  token,        \* the JWTs signed so far, with the claims and the grant they carry
  drawn,        \* how many JWTs were signed
  handed,       \* JWTs whose response reached a client
  provider,     \* which of its refresh tokens the provider honours, per sign-in
  signIn,       \* history: the sign-in each key was drawn for
  refused,      \* history: keys whose refresh was answered SignInRefused
  ended,        \* history: the latest revocation of each user that has returned
  outran,       \* history: when the tokens of each key's last refresh were issued that came to
                \* its second look while an earlier revocation was on its way to the store
  begun,        \* history: when keepUpstream was called for the pair of each JWT
  faults        \* history: how many faults there were

store  == <<codes, grants, upstream, revokedAt, clientUntil>>
minted == <<token, drawn, handed>>
ghosts == <<signIn, refused, ended, outran, begun, faults>>
vars   == <<now, pc, req, store, minted, provider, ghosts>>

Jtis == 1..MaxTokens
Time == Nat

Tokens == [session: Codes, user: Users \cup {None}, issuedAt: Time, rt: Nat,
           life: Lifetimes]
CodeEntry == [state: {"unissued", "active", "gone", "spent"},
              client: Clients \cup {None}, tokens: Tokens \cup {None},
              expiresAt: Time]
Jwt == [use: {"access", "refresh"}, client: Clients, key: Keys, iat: Time, exp: Time]
Kept == [tokens: Tokens, until: Time]
SignIn == [code: Codes, user: Users \cup {None}, at: Time]

ASSUME NoneAssumption == None \notin Tokens \cup Jwt \cup Kept \cup SignIn

Labels == {"idle", "takeCode", "deleteCode", "spendCode",
           "deleteGrant", "findUpstream", "checkRevoked", "ask", "recheck",
           "keepUpstream", "saveAccess", "saveRefresh", "findClient", "saveClient",
           "putBack", "saveRevocation"}
Locals == [client: Clients \cup {None}, code: Codes \cup {None}, verified: BOOLEAN,
           read: CodeEntry \cup {None}, jti: Jtis \cup {0}, key: Keys \cup {None},
           cur: Tokens \cup {None}, fresh: Tokens \cup {None},
           owner: Clients \cup {None}, issued: SUBSET Jtis,
           user: Users \cup {None}, at: Time, begun: Time]

NoLocals == [client |-> None, code |-> None, verified |-> FALSE, read |-> None,
             jti |-> 0, key |-> None, cur |-> None, fresh |-> None, owner |-> None,
             issued |-> {}, user |-> None, at |-> 0, begun |-> 0]
NoCode == [state |-> "unissued", client |-> None, tokens |-> None, expiresAt |-> 0]

Init ==
  /\ now = 1
  /\ pc = [r \in Requests |-> "idle"]
  /\ req = [r \in Requests |-> NoLocals]
  /\ codes = [c \in Codes |-> NoCode]
  /\ grants = [j \in Jtis |-> 0]
  /\ upstream = [k \in Keys |-> None]
  /\ revokedAt = [u \in Users |-> 0]
  /\ clientUntil = [c \in Clients |-> now + ClientLifetime]
  /\ token = [j \in Jtis |-> None]
  /\ drawn = 0
  /\ handed = {}
  /\ provider = [c \in Codes |-> 0]
  /\ signIn = [k \in Keys |-> None]
  /\ refused = {}
  /\ ended = [u \in Users |-> 0]
  /\ outran = [k \in Keys |-> 0]
  /\ begun = [j \in Jtis |-> 0]
  /\ faults = 0

-----------------------------------------------------------------------------
(* What the store and the records read as.                                 *)

Later(a, b) == IF a >= b THEN a ELSE b

\* An entry is current up to and including the moment it is kept until.
Current(until) == until # 0 /\ now <= until

Found(k) == upstream[k] # None /\ Current(upstream[k].until)

UpstreamLifetime_AccessOnly(t) == Later(t.life.access, 1)

\* The provider's tokens outlive both JWTs that stand for them.
UpstreamLifetime(t) ==
  IF t.rt = 0 THEN Later(t.life.access, 1)
              ELSE Later(Later(t.life.access, t.life.refresh), 1)

\* Tokens without a subject can never be matched to a revocation.
IsRevoked(t) == t.user # None /\ t.issuedAt <= revokedAt[t.user]

\* A bearer token resolves: its JWT, its grant and the tokens behind it are all current.
Resolves(j) ==
  /\ token[j] # None /\ token[j].use = "access" /\ now < token[j].exp
  /\ Current(grants[j])
  /\ Found(token[j].key) /\ ~IsRevoked(upstream[token[j].key].tokens)

-----------------------------------------------------------------------------
(* Steps of a request.                                                     *)

Goto(r, label, locals) ==
  /\ pc' = [pc EXCEPT ![r] = label]
  /\ req' = [req EXCEPT ![r] = locals]

End(r) == Goto(r, "idle", NoLocals)

\* One of the faults the bound allows.
Fault == faults < MaxFaults /\ faults' = faults + 1

\* Bound: a request begins only while there are JWTs left for it to sign.
Room == drawn + 2 * Cardinality({q \in Requests : pc[q] # "idle"}) + 2 <= MaxTokens

Respond(r) == End(r) /\ handed' = handed \cup req[r].issued

\* The user signed in and the browser carried a new code to its client.
IssueCode(c) ==
  /\ codes[c].state = "unissued"
  /\ \E client \in Clients, user \in Users \cup {None}, life \in Lifetimes, rt \in {0, 1} :
       /\ codes' = [codes EXCEPT ![c] =
            [state |-> "active", client |-> client, expiresAt |-> now + CodeLifetime,
             tokens |-> [session |-> c, user |-> user, issuedAt |-> now, rt |-> rt,
                         life |-> life]]]
       /\ provider' = [provider EXCEPT ![c] = rt]
  /\ UNCHANGED <<now, pc, req, grants, upstream, revokedAt, clientUntil, minted, ghosts>>

\* redeemCode up to its first store answer: an unknown client is turned away.
StartRedeem(r, c, client) ==
  /\ pc[r] = "idle"
  /\ codes[c].state # "unissued"
  /\ Current(clientUntil[client])
  /\ Room
  /\ \E ok \in BOOLEAN :
       Goto(r, "takeCode", [NoLocals EXCEPT !.client = client, !.code = c, !.verified = ok])
  /\ UNCHANGED <<now, store, minted, provider, ghosts>>

\* What redeem makes of the entry it removed.
Redeemed(r, entry) ==
  IF entry.state \in {"active", "spent"} /\ now <= entry.expiresAt
  THEN Goto(r, "spendCode", [req[r] EXCEPT !.read = entry])
  ELSE End(r)

Removed_NotAtAll(c) == UNCHANGED codes

Removed(c) == codes' = [codes EXCEPT ![c].state = "gone", ![c].tokens = None]

TakeCode(r) ==
  /\ AtomicTake
  /\ pc[r] = "takeCode"
  /\ Removed(req[r].code)
  /\ Redeemed(r, codes[req[r].code])
  /\ UNCHANGED <<now, grants, upstream, revokedAt, clientUntil, minted, provider, ghosts>>

\* Without take: a get, and then a delete of whatever is there by then.
ReadCode(r) ==
  /\ ~AtomicTake
  /\ pc[r] = "takeCode"
  /\ Goto(r, "deleteCode", [req[r] EXCEPT !.read = codes[req[r].code]])
  /\ UNCHANGED <<now, store, minted, provider, ghosts>>

DeleteCode(r) ==
  /\ pc[r] = "deleteCode"
  /\ Removed(req[r].code)
  /\ Redeemed(r, req[r].read)
  /\ UNCHANGED <<now, grants, upstream, revokedAt, clientUntil, minted, provider, ghosts>>

\* The spent marker is written whatever the checks that follow it say.
SpendCode(r) ==
  /\ pc[r] = "spendCode"
  /\ LET entry == req[r].read IN
       /\ codes' = [codes EXCEPT ![req[r].code] =
            [state |-> "spent", client |-> None, tokens |-> None,
             expiresAt |-> entry.expiresAt]]
       /\ \/ /\ \/ entry.state = "spent"
                \/ entry.client # req[r].client
                \/ ~req[r].verified
             /\ End(r)
             /\ UNCHANGED signIn
          \/ /\ entry.state = "active"
             /\ entry.client = req[r].client
             /\ req[r].verified
             /\ \E k \in {key \in Keys : signIn[key] = None} :
                  /\ signIn' = [signIn EXCEPT ![k] =
                       [code |-> req[r].code, user |-> entry.tokens.user,
                        at |-> entry.tokens.issuedAt]]
                  /\ Goto(r, "keepUpstream", [NoLocals EXCEPT !.key = k, !.fresh = entry.tokens,
                                                 !.owner = entry.client, !.at = now])
  /\ UNCHANGED <<now, grants, upstream, revokedAt, clientUntil, minted, provider, refused, ended,
                 outran, begun, faults>>

-----------------------------------------------------------------------------
(* Issuing: shared by redeemCode and by a refresh the provider answered.   *)
(* Lifetimes count from the moment the save is called, which is at.        *)

KeepUpstream(r) ==
  /\ pc[r] = "keepUpstream"
  /\ upstream' = [upstream EXCEPT ![req[r].key] =
       [tokens |-> req[r].fresh, until |-> req[r].at + UpstreamLifetime(req[r].fresh)]]
  /\ Goto(r, "saveAccess", [req[r] EXCEPT !.begun = req[r].at, !.at = now])
  /\ UNCHANGED <<now, codes, grants, revokedAt, clientUntil, minted, provider, ghosts>>

\* Sign the next JWT and save its grant, both for the same lifetime.
GrantFor(r, use, lifetime, next) ==
  LET j   == drawn + 1
      exp == req[r].at + lifetime IN
  /\ drawn < MaxTokens
  /\ drawn' = j
  /\ token' = [token EXCEPT ![j] =
       [use |-> use, client |-> req[r].owner, key |-> req[r].key, iat |-> req[r].at, exp |-> exp]]
  /\ grants' = [grants EXCEPT ![j] = exp]
  /\ begun' = [begun EXCEPT ![j] = req[r].begun]
  /\ Goto(r, next, [req[r] EXCEPT !.issued = @ \cup {j}, !.at = now])
  /\ UNCHANGED <<now, codes, upstream, revokedAt, clientUntil, handed, provider, signIn, refused,
                 ended, outran, faults>>

SaveAccess(r) ==
  /\ pc[r] = "saveAccess"
  /\ GrantFor(r, "access", req[r].fresh.life.access,
              IF req[r].fresh.rt = 0 THEN "findClient" ELSE "saveRefresh")

SaveRefresh(r) ==
  /\ pc[r] = "saveRefresh"
  /\ GrantFor(r, "refresh", req[r].fresh.life.refresh, "findClient")

\* keepClient: a client that is still there is saved again for a fresh lifetime.
FindClient(r) ==
  /\ pc[r] = "findClient"
  /\ IF Current(clientUntil[req[r].owner])
     THEN Goto(r, "saveClient", [req[r] EXCEPT !.at = now]) /\ UNCHANGED handed
     ELSE Respond(r)
  /\ UNCHANGED <<now, store, token, drawn, provider, ghosts>>

SaveClient(r) ==
  /\ pc[r] = "saveClient"
  /\ clientUntil' = [clientUntil EXCEPT ![req[r].owner] = req[r].at + ClientLifetime]
  /\ Respond(r)
  /\ UNCHANGED <<now, codes, grants, upstream, revokedAt, token, drawn, provider, ghosts>>

-----------------------------------------------------------------------------
(* Refreshing.                                                             *)

Claimed_MismatchConsumes(r, j, client) ==
  IF client \in {None, token[j].client}
  THEN Goto(r, "findUpstream",
            [NoLocals EXCEPT !.jti = j, !.key = token[j].key, !.owner = token[j].client])
  ELSE End(r)

\* A refresh by a client other than the grant's is put back at once.
Claimed(r, j, client) ==
  Goto(r, IF client \in {None, token[j].client} THEN "findUpstream" ELSE "putBack",
       [NoLocals EXCEPT !.jti = j, !.key = token[j].key, !.owner = token[j].client])

\* Removed by the take, or by the delete without one.
RemovedGrant_NotAtAll(j) == UNCHANGED grants

RemovedGrant(j) == grants' = [grants EXCEPT ![j] = 0]

ClaimRefresh(r, j, client) ==
  /\ AtomicTake
  /\ pc[r] = "idle"
  /\ j \in handed /\ token[j].use = "refresh" /\ now < token[j].exp
  /\ Current(grants[j])
  /\ Room
  /\ RemovedGrant(j)
  /\ Claimed(r, j, client)
  /\ UNCHANGED <<now, codes, upstream, revokedAt, clientUntil, minted, provider, ghosts>>

\* Without take: a get that finds the grant, and then a delete.
ReadGrant(r, j, client) ==
  /\ ~AtomicTake
  /\ pc[r] = "idle"
  /\ j \in handed /\ token[j].use = "refresh" /\ now < token[j].exp
  /\ Current(grants[j])
  /\ Room
  /\ Goto(r, "deleteGrant", [NoLocals EXCEPT !.client = client, !.jti = j])
  /\ UNCHANGED <<now, store, minted, provider, ghosts>>

DeleteGrant(r) ==
  /\ pc[r] = "deleteGrant"
  /\ RemovedGrant(req[r].jti)
  /\ Claimed(r, req[r].jti, req[r].client)
  /\ UNCHANGED <<now, codes, upstream, revokedAt, clientUntil, minted, provider, ghosts>>

FindUpstream(r) ==
  /\ pc[r] = "findUpstream"
  /\ IF Found(req[r].key)
     THEN Goto(r, "checkRevoked", [req[r] EXCEPT !.cur = upstream[req[r].key].tokens])
     ELSE Goto(r, "putBack", req[r])
  /\ UNCHANGED <<now, store, minted, provider, ghosts>>

\* SignInRefused: the one failure that does not put the refresh token back.
Refuse(r) == End(r) /\ refused' = refused \cup {req[r].key}

CheckRevoked(r) ==
  /\ pc[r] = "checkRevoked"
  /\ IF IsRevoked(req[r].cur)
     THEN Refuse(r)
     ELSE /\ Goto(r, IF req[r].cur.rt = 0 THEN "putBack" ELSE "ask", req[r])
          /\ UNCHANGED refused
  /\ UNCHANGED <<now, store, minted, provider, signIn, ended, outran, begun, faults>>

\* The provider's refresh.  It may or may not rotate its token, and may leave out the id
\* token; a refresh token it leaves out is kept (toTokens), which is the same as rt staying.
ProviderAnswers(r) ==
  /\ pc[r] = "ask"
  /\ LET cur == req[r].cur IN
       /\ cur.rt = provider[cur.session]
       /\ \E rt \in {cur.rt, cur.rt + 1}, user \in {cur.user, None}, life \in Lifetimes :
            /\ provider' = [provider EXCEPT ![cur.session] = rt]
            /\ Goto(r, "recheck", [req[r] EXCEPT !.fresh =
                 [session |-> cur.session, user |-> user, issuedAt |-> now, rt |-> rt,
                  life |-> life]])
  /\ UNCHANGED <<now, store, minted, ghosts>>

\* It refuses, fails, cannot be reached, or does not answer in time: possibly having rotated.
ProviderFails(r) ==
  /\ pc[r] = "ask"
  /\ \/ UNCHANGED <<provider, faults>>
     \/ /\ req[r].cur.rt = provider[req[r].cur.session]
        /\ provider' = [provider EXCEPT ![req[r].cur.session] = @ + 1]
        /\ Fault
  /\ Goto(r, "putBack", req[r])
  /\ UNCHANGED <<now, store, minted, signIn, refused, ended, outran, begun>>

Merged_WithoutSpread(cur, fresh) ==
  [user |-> IF fresh.user = None THEN cur.user ELSE fresh.user]

Merged_OldRefreshToken(cur, fresh) ==
  [fresh EXCEPT !.user = IF @ = None THEN cur.user ELSE @, !.rt = cur.rt]

Merged_AsAnswered(cur, fresh) == fresh

\* An answer without an id token keeps the one the sign-in had, and so its subject.
Merged(cur, fresh) == [fresh EXCEPT !.user = IF @ = None THEN cur.user ELSE @]

JudgedOn_Answered(r) == Merged(req[r].cur, req[r].fresh)

\* The tokens the second look at the revocations is taken on: those the refresh started from.
JudgedOn(r) == req[r].cur

\* An earlier revocation of user u than moment t is on its way to the store.
RevocationComing(u, t) ==
  \E q \in Requests : pc[q] = "saveRevocation" /\ req[q].user = u /\ req[q].at < t

\* The second look at the revocations, and acceptSignIn on the merged tokens.
Recheck(r) ==
  /\ pc[r] = "recheck"
  /\ LET tokens == Merged(req[r].cur, req[r].fresh)
         k      == req[r].key IN
       \/ /\ IsRevoked(JudgedOn(r))
          /\ Refuse(r)
          /\ UNCHANGED outran
       \/ /\ ~IsRevoked(JudgedOn(r))
          /\ tokens.user # None
          /\ Refuse(r)
          /\ UNCHANGED outran
       \/ /\ ~IsRevoked(JudgedOn(r))
          /\ Goto(r, "keepUpstream", [req[r] EXCEPT !.fresh = tokens, !.cur = None, !.at = now])
          /\ outran' = IF RevocationComing(req[r].cur.user, tokens.issuedAt)
                       THEN [outran EXCEPT ![k] = Later(@, tokens.issuedAt)] ELSE outran
          /\ UNCHANGED refused
  /\ UNCHANGED <<now, store, minted, provider, signIn, ended, begun, faults>>

Restored_ForWholeLifetime(g) ==
  [grants EXCEPT ![g] = now + upstream[token[g].key].tokens.life.refresh]

Restored_Never(g) == grants

\* restore: saved again for the time it had left, or not at all once it has lapsed.
Restored(g) ==
  IF token[g].exp <= now THEN grants ELSE [grants EXCEPT ![g] = token[g].exp]

PutBack(r) ==
  /\ pc[r] = "putBack"
  /\ grants' = Restored(req[r].jti)
  /\ End(r)
  /\ UNCHANGED <<now, codes, upstream, revokedAt, clientUntil, minted, provider, ghosts>>

-----------------------------------------------------------------------------
(* Revoking a user: the moment is read when revokeUser is called, and lands *)
(* in the store later.                                                     *)

RevokeUser(r, u) ==
  /\ pc[r] = "idle"
  /\ Goto(r, "saveRevocation", [NoLocals EXCEPT !.user = u, !.at = now])
  /\ UNCHANGED <<now, store, minted, provider, ghosts>>

SaveRevocation(r) ==
  /\ pc[r] = "saveRevocation"
  /\ revokedAt' = [revokedAt EXCEPT ![req[r].user] = req[r].at]
  /\ ended' = [ended EXCEPT ![req[r].user] = Later(@, req[r].at)]
  /\ End(r)
  /\ UNCHANGED <<now, codes, grants, upstream, clientUntil, minted, provider, signIn, refused,
                 outran, begun, faults>>

-----------------------------------------------------------------------------
(* What goes wrong.                                                        *)

InRotate == {"findUpstream", "checkRevoked", "recheck"}
Issuing  == {"keepUpstream", "saveAccess", "saveRefresh"}

\* A store operation rejects without taking effect.  Inside rotate the refresh token is put
\* back; a failing put back is only logged; keepClient never fails the request; anywhere
\* else the request fails as it stands.
StoreFails(r) ==
  /\ Fault
  /\ \/ /\ pc[r] \in InRotate \/ (pc[r] \in Issuing /\ req[r].jti # 0)
        /\ Goto(r, "putBack", req[r])
        /\ UNCHANGED handed
     \/ /\ \/ pc[r] \in {"takeCode", "deleteCode", "spendCode", "deleteGrant", "putBack",
                         "saveRevocation"}
           \/ pc[r] \in Issuing /\ req[r].jti = 0
        /\ End(r)
        /\ UNCHANGED handed
     \/ /\ pc[r] \in {"findClient", "saveClient"}
        /\ Respond(r)
  /\ UNCHANGED <<now, store, token, drawn, provider, signIn, refused, ended, outran, begun>>

\* The process dies, or the response is lost on its way.
Crash(r) ==
  /\ Fault
  /\ pc[r] # "idle"
  /\ End(r)
  /\ UNCHANGED <<now, store, minted, provider, signIn, refused, ended, outran, begun>>

Tick ==
  /\ now < MaxTime
  /\ now' = now + 1
  /\ UNCHANGED <<pc, req, store, minted, provider, ghosts>>

-----------------------------------------------------------------------------
\* The steps a request takes by itself once it has begun.
Continue(r) ==
  \/ TakeCode(r) \/ ReadCode(r) \/ DeleteCode(r) \/ SpendCode(r)
  \/ KeepUpstream(r) \/ SaveAccess(r) \/ SaveRefresh(r)
  \/ FindClient(r) \/ SaveClient(r)
  \/ DeleteGrant(r) \/ FindUpstream(r) \/ CheckRevoked(r)
  \/ ProviderAnswers(r) \/ ProviderFails(r) \/ Recheck(r) \/ PutBack(r)
  \/ SaveRevocation(r)

Next ==
  \/ \E c \in Codes : IssueCode(c)
  \/ \E r \in Requests, c \in Codes, client \in Clients : StartRedeem(r, c, client)
  \/ \E r \in Requests, j \in Jtis, client \in Clients \cup {None} :
       ClaimRefresh(r, j, client) \/ ReadGrant(r, j, client)
  \/ \E r \in Requests, u \in Users : RevokeUser(r, u)
  \/ \E r \in Requests : Continue(r) \/ StoreFails(r) \/ Crash(r)
  \/ Tick

Spec == Init /\ [][Next]_vars

\* A request that has begun goes on: its awaits settle, and the provider call has a timeout.
Fairness == \A r \in Requests : WF_vars(Continue(r))

FairSpec == Spec /\ Fairness

-----------------------------------------------------------------------------
TypeOK ==
  /\ now \in Time
  /\ pc \in [Requests -> Labels]
  /\ req \in [Requests -> Locals]
  /\ codes \in [Codes -> CodeEntry]
  /\ grants \in [Jtis -> Time]
  /\ upstream \in [Keys -> Kept \cup {None}]
  /\ revokedAt \in [Users -> Time]
  /\ clientUntil \in [Clients -> Time]
  /\ token \in [Jtis -> Jwt \cup {None}]
  /\ drawn \in 0..MaxTokens
  /\ handed \subseteq Jtis
  /\ provider \in [Codes -> Nat]
  /\ signIn \in [Keys -> SignIn \cup {None}]
  /\ refused \subseteq Keys
  /\ ended \in [Users -> Time]
  /\ outran \in [Keys -> Time]
  /\ begun \in [Jtis -> Time]
  /\ faults \in Nat

\* Request r is carrying k's right to refresh: it has claimed the refresh token, or is about
\* to issue the first one, and has neither issued the next nor put the old one back.
Holding == InRotate \cup Issuing \cup {"ask", "putBack"}
Holds(r, k) == pc[r] \in Holding /\ req[r].key = k

\* The grant of refresh token j, which stands for k, is in the store.
StoredRefresh(j, k) ==
  token[j] # None /\ token[j].use = "refresh" /\ token[j].key = k /\ grants[j] # 0

(* A sign-in's right to refresh is in one place at most: one refresh token in the store, or   *)
(* one request in flight, or gone because the sign-in was refused.  However many requests     *)
(* race for the same token, and whatever fails, there are never two that work (grants.ts:5,   *)
(* "single-use, claimed with the store's atomic `take`").                                     *)
OneRefreshToken ==
  \A k \in Keys :
    /\ \A r1, r2 \in Requests : Holds(r1, k) /\ Holds(r2, k) => r1 = r2
    /\ \A j1, j2 \in Jtis : StoredRefresh(j1, k) /\ StoredRefresh(j2, k) => j1 = j2
    /\ \A r \in Requests, j \in Jtis : ~(Holds(r, k) /\ StoredRefresh(j, k))
    /\ k \in refused => /\ \A r \in Requests : ~Holds(r, k)
                        /\ \A j \in Jtis : ~StoredRefresh(j, k)

(* An authorization code signs its client in once, whoever races for it (records.ts:168).     *)
CodeRedeemedOnce ==
  \A k1, k2 \in Keys :
    signIn[k1] # None /\ signIn[k2] # None /\ signIn[k1].code = signIn[k2].code => k1 = k2

(* As long as nothing breaks, the refresh token a client holds works, or is being worked on,  *)
(* or has a successor, or its sign-in was refused: no order of failed and concurrent          *)
(* refreshes loses it (grants.ts:6, "a refresh that fails puts its token back").              *)
RefreshTokenNotLost ==
  faults = 0 =>
    \A j \in handed :
      LET k == token[j].key IN
      token[j].use = "refresh" /\ now < token[j].exp /\ grants[j] = 0 =>
        \/ \E r \in Requests : Holds(r, k)
        \/ \E j2 \in Jtis : j2 > j /\ token[j2] # None /\ token[j2].use = "refresh"
                           /\ token[j2].key = k
        \/ k \in refused

(* As long as nothing breaks, a refresh token in the store stands for the provider's refresh  *)
(* token that the provider honours: concurrent and failing refreshes alone never strand a     *)
(* sign-in on a token its provider has rotated away.                                          *)
ProviderTokenCurrent ==
  faults = 0 =>
    \A k \in Keys, j \in Jtis :
      StoredRefresh(j, k) =>
        upstream[k].tokens.rt = provider[upstream[k].tokens.session]

(* A put-back refresh token is kept no longer than it was issued for, and so is every other   *)
(* JWT's grant (grants.ts:195, "so retrying never extends it").                               *)
RetryNeverExtends ==
  \A j \in Jtis : grants[j] # 0 => token[j] # None /\ grants[j] <= token[j].exp

\* A sign-in's last pair is out: nothing is being issued for it, and nothing went wrong.
Settled(k) == faults = 0 /\ \A r \in Requests : ~(Holds(r, k) /\ pc[r] \in Issuing)

\* The JWT of its use that was signed last for its sign-in.
Newest(j) ==
  token[j] # None /\ \A j2 \in (j + 1)..MaxTokens :
    token[j2] # None => token[j2].key # token[j].key \/ token[j2].use # token[j].use

(* While the grant of a JWT of the last pair is kept, the provider's tokens behind it are     *)
(* kept at least as long, whatever lifetimes the provider gave before, but for the time that  *)
(* passed between the calls that saved the two (grants.ts:87-116).  Not so for the access     *)
(* tokens of earlier pairs: a shorter lifetime cuts them short.                               *)
UpstreamKeptForPair ==
  \A j \in Jtis :
    Current(grants[j]) /\ Newest(j) /\ Settled(token[j].key) =>
      /\ upstream[token[j].key] # None
      /\ grants[j] + begun[j] <= upstream[token[j].key].until + token[j].iat

\* No bearer token of key k resolves, and what the store keeps for it counts as revoked, so that
\* no refresh can begin.
Ended(k) ==
  /\ upstream[k] # None => IsRevoked(upstream[k].tokens)
  /\ \A j \in Jtis : Resolves(j) => token[j].key # k

(* A revocation on record ends every sign-in of its user made until then, whatever refreshes  *)
(* and redemptions were under way, and in whichever order revocations land; and it ends those *)
(* whose tokens outran an earlier one, if it is no earlier than those tokens (grants.ts:14).  *)
RevocationReaches ==
  \A k \in Keys :
    signIn[k] # None /\ signIn[k].user # None
      /\ Later(signIn[k].at, outran[k]) <= revokedAt[signIn[k].user] => Ended(k)

(* A revocation that has returned has ended every sign-in of its user made until its call,     *)
(* whatever refreshes and other revocations were under way (README.md:261, "ends every sign-in *)
(* a user holds now").                                                                         *)
RevocationEndsSignIns ==
  \A k \in Keys :
    signIn[k] # None /\ signIn[k].user # None /\ signIn[k].at <= ended[signIn[k].user] => Ended(k)

(* A refresh always ends with its sign-in decided: a refresh token is back in the store, or   *)
(* the sign-in was refused, or what was left of the token has run out, or something broke.    *)
RefreshDecided ==
  \A k \in Keys :
    (\E r \in Requests : Holds(r, k) /\ req[r].jti # 0)
      ~> \/ \E j \in Jtis : StoredRefresh(j, k)
         \/ k \in refused
         \/ faults > 0
         \/ \A j \in Jtis : token[j] # None /\ token[j].key = k => token[j].exp <= now

=============================================================================
