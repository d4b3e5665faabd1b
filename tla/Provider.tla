------------------------------ MODULE Provider ------------------------------
(***************************************************************************)
(* An OAuth provider from end to end: an MCP client calls tools at the     *)
(* server's processes, is challenged (src/src/backend/sdk/index.ts,        *)
(* auth/challenge.ts), registers, signs its user in, redeems, refreshes    *)
(* and steps up (node/oauth/http.ts, authorization.ts, grants.ts) over the *)
(* store of TokenStore, as provider.ts and server.ts put these together.   *)
(* Each request may reach another process, and processes restart.          *)
(*                                                                         *)
(* A request is one step here, also one that breaks off at an await.  How  *)
(* requests interleave there is in Grants and Authorization; revocation    *)
(* and widening are in Grants and Widening.  The client, its user and the  *)
(* upstream provider are external; the client follows the MCP              *)
(* authorization flow.                                                     *)
(***************************************************************************)
EXTENDS TokenStore, FiniteSets, FiniteSetsExt

CONSTANTS
  Tools,                \* tools the client calls
  RequiredScopes,       \* the requiredScopes of each
  Asks,                 \* scopes the client may ask for when it first signs in
  Accounts,             \* the accounts users have, by their tenants
  AccessLifetime, RefreshLifetime, CodeLifetime, TransactionLifetime, ClientLifetime,
  MaxCalls,             \* bound: tool calls
  MaxEntries,           \* bound: no sign-in begins over a larger store
  None

\* A deployment also has its scopes and rules, the provider and users it meets, the tools its
\* client calls and whether that may refresh before a call, and how many faults of stores and
\* providers (a bound).
Surroundings ==
  [scopes: SUBSET STRING, tenant: Accounts \cup {"common"}, ownRule: BOOLEAN,
   provider: SUBSET {"refreshes", "omits"}, withheld: SUBSET STRING, accounts: SUBSET Accounts,
   tools: SUBSET Tools, eager: BOOLEAN, faults: Nat]

ASSUME ProviderAssumption ==
  /\ {AccessLifetime, RefreshLifetime, CodeLifetime, TransactionLifetime, ClientLifetime}
       \subseteq Nat \ {0}
  /\ {MaxCalls, MaxEntries} \subseteq Nat
  /\ \A d \in Deployments :
       Restrict(d, {"scopes", "tenant", "ownRule", "provider", "withheld", "accounts", "tools",
                    "eager", "faults"}) \in Surroundings

\* What the provider grants with a sign-in, as it is kept under d.
TokensOf(d) == [account: Accounts, idToken: Accounts \cup {None}, scope: SUBSET d.scopes,
                refreshes: BOOLEAN]

ASSUME NoneAssumption == \A d \in Deployments : None \notin TokensOf(d)

VARIABLES
  client,        \* the MCP client: what it does, its registration and its tokens
  refusedSince,  \* from when acceptSignIn refuses each account; 0 when it accepts it
  calls,         \* how many calls were made
  faults         \* how many faults there were

vars == <<storeVars, client, refusedSince, calls, faults>>

Steps == {"idle", "calling", "refreshing", "registering", "authorizing", "consenting",
          "atProvider", "redeeming"}

Init ==
  /\ InitStore
  /\ client = [step |-> "idle", tool |-> None, id |-> None, access |-> None, refresh |-> None,
               asks |-> {}, steppedUp |-> FALSE, ticket |-> None, due |-> {}]
  /\ refusedSince = [a \in Accounts |-> 0]
  /\ calls = 0
  /\ faults = 0

-----------------------------------------------------------------------------
\* The record's keys: KEY and an id.
InUse(kind) ==
  {k[2] : k \in {k \in DOMAIN slots : k[1] = kind}}
    \cup (CASE kind = "client" -> {client.id}
            [] kind \in {"transaction", "code"} -> {client.ticket}
            [] kind \in {"access", "refresh"} -> {IF client[kind] = None THEN None ELSE client[kind].jti}
            [] kind = "upstream" -> {Value(k).upstream : k \in {k \in DOMAIN slots : k[1] \in {"access", "refresh"}}})

\* randomToken, randomHex: an id nobody holds.  Ids are only compared, so any will do.
Drawn(kind) == CHOOSE id \in 1..Cardinality(DOMAIN slots) + 2 : id \notin InUse(kind)

\* signer.verify: signed with this process's key, and not expired.
Verifies(p, token) == token # None /\ token.key = SigningKey(p) /\ token.exp > now

Upstream(k) == <<"upstream", Value(k).upstream>>

\* resolve: the upstream tokens behind the access token, or None.
Session(p) ==
  LET k == <<"access", client.access.jti>> IN
    IF Verifies(p, client.access) /\ Readable(p, k) /\ Readable(p, Upstream(k))
    THEN Value(Upstream(k)) ELSE None

KeptUpstream(s, p, tokens, key) ==
  Saved(s, p, <<"upstream", key>>, tokens,
        IF tokens.refreshes THEN Max({AccessLifetime, RefreshLifetime}) ELSE AccessLifetime)

\* grantFor.
Granted(s, p, use, key, lifetime) ==
  Saved(s, p, <<use, Drawn(use)>>, [client |-> client.id, upstream |-> key], lifetime)

\* The store after each save of keepUpstream and issuePair; the last of them has the whole pair.
Saves(s, p, tokens, key) ==
  LET kept   == KeptUpstream(s, p, tokens, key)
      access == Granted(kept, p, "access", key, AccessLifetime)
  IN <<kept, access,
       IF tokens.refreshes THEN Granted(access, p, "refresh", key, RefreshLifetime) ELSE access>>

\* The pair, with keepClient unless its store fails.
Issued(s, p, tokens, key, keeps) ==
  LET pair == Saves(s, p, tokens, key)[3]
      k    == <<"client", client.id>>
  IN IF keeps /\ Readable(p, k) THEN Saved(pair, p, k, "registered", ClientLifetime) ELSE pair

Jwt(p, kind, lifetime) == [jti |-> Drawn(kind), key |-> SigningKey(p), exp |-> now + lifetime]

\* The client's view of the same pair.
Holding(p, tokens) ==
  [client EXCEPT !.step = "calling", !.ticket = None,
     !.access = Jwt(p, "access", AccessLifetime),
     !.refresh = IF tokens.refreshes THEN Jwt(p, "refresh", RefreshLifetime) ELSE None]

Keeps(keeps) == keeps \in BOOLEAN /\ (keeps \/ faults < config.faults)
                /\ faults' = IF keeps THEN faults ELSE faults + 1

\* A request may reach any process of the deployment.
Reaches(p) == p \in config.processes

World == <<config, now, life, closed>>

-----------------------------------------------------------------------------
(* Calls to the MCP endpoint.                                              *)

\* External: the client calls a tool, the next one when that is over, and may refresh first.
Call(tool) ==
  /\ client.step = "idle"
  /\ tool \in config.tools
  /\ calls < MaxCalls
  /\ calls' = calls + 1
  /\ \E step \in {"calling", "refreshing"} :
       /\ step = "refreshing" => config.eager /\ client.refresh # None
       /\ client' = [client EXCEPT !.step = step, !.tool = tool, !.steppedUp = FALSE]
  /\ UNCHANGED <<storeVars, refusedSince, faults>>

\* External: at a 401 the client refreshes, signs in again, or registers first.
Challenged ==
  IF client.refresh # None THEN client' = [client EXCEPT !.step = "refreshing"]
  ELSE \E asks \in Asks :
         client' = [client EXCEPT !.step = IF client.id = None THEN "registering" ELSE "authorizing",
                                  !.access = None, !.asks = asks, !.due = {}]

\* authenticate finds no session: mcpChallenge, whatever the request asked for.
Unauthenticated(p) ==
  /\ client.step = "calling" /\ Reaches(p)
  /\ Session(p) = None
  /\ Challenged
  /\ UNCHANGED <<storeVars, refusedSince, calls, faults>>

\* authenticate rejects because the store does, which the client is told as a 401 as well.
AuthenticationFails(p) ==
  /\ client.step = "calling" /\ Reaches(p)
  /\ faults < config.faults
  /\ faults' = faults + 1
  /\ Challenged
  /\ UNCHANGED <<storeVars, refusedSince, calls>>

Lacking(tokens) == RequiredScopes[client.tool] \ tokens.scope

Served(p) ==
  /\ client.step = "calling" /\ Reaches(p)
  /\ Session(p) # None
  /\ Lacking(Session(p)) = {}
  /\ client' = [client EXCEPT !.step = "idle"]
  /\ UNCHANGED <<storeVars, refusedSince, calls, faults>>

ChallengeScope_RequiredOnly(granted, required) == required

\* insufficientScope: what the session holds as well as what is missing.
ChallengeScope(granted, required) == granted \cup required

\* scopeRefusal: the 403.  External: the client steps up once, and then gives the call up.
Forbidden(p) ==
  /\ client.step = "calling" /\ Reaches(p)
  /\ Session(p) # None
  /\ LET held == Session(p).scope
         lacking == Lacking(Session(p)) IN
       /\ lacking # {}
       /\ client' = IF client.steppedUp THEN [client EXCEPT !.step = "idle"]
                    ELSE [client EXCEPT !.step = "authorizing", !.steppedUp = TRUE,
                                        !.asks = ChallengeScope(held, lacking),
                                        !.due = (held \cup lacking) \cap config.scopes]
  /\ UNCHANGED <<storeVars, refusedSince, calls, faults>>

-----------------------------------------------------------------------------
(* Signing in.                                                             *)

\* External: the client is told of an error, and its call has failed.
GivesUp == client' = [client EXCEPT !.step = "idle", !.ticket = None, !.due = {}]

\* External: a page the app is not told of; its user starts over.
StartsOver == client' = [client EXCEPT !.step = "authorizing", !.ticket = None]

Forgets == [client EXCEPT !.step = "registering", !.id = None, !.access = None,
                          !.refresh = None, !.ticket = None]

ClientKey == <<"client", client.id>>

Register(p) ==
  /\ client.step = "registering" /\ Reaches(p)
  /\ LET id == Drawn("client") IN
       /\ slots' = Saved(slots, p, <<"client", id>>, "registered", ClientLifetime)
       /\ client' = [client EXCEPT !.step = "authorizing", !.id = id]
  /\ UNCHANGED <<World, refusedSince, calls, faults>>

Always == {"openid", "offline_access"}

Narrowed_AsAsked(asked) == asked \cup (config.scopes \cap Always)

\* narrowScope, and the whole list when nothing the client asks for is on it.
Narrowed(asked) ==
  IF asked \cap config.scopes = {} THEN config.scopes ELSE config.scopes \cap (asked \cup Always)

\* authorize saves the pending request and shows the consent page.
Authorize(p) ==
  /\ client.step = "authorizing" /\ Reaches(p)
  /\ Readable(p, ClientKey)
  /\ Cardinality(DOMAIN slots) < MaxEntries
  /\ LET t == Drawn("transaction")
         request == [client |-> client.id, scope |-> Narrowed(client.asks), consent |-> FALSE] IN
       /\ slots' = Saved(slots, p, <<"transaction", t>>, request, TransactionLifetime)
       /\ client' = [client EXCEPT !.step = "consenting", !.ticket = t]
  /\ UNCHANGED <<World, refusedSince, calls, faults>>

\* The browser shows that the client is unknown.  External: its user resets the app.
AuthorizeUnknown(p) ==
  /\ client.step = "authorizing" /\ Reaches(p)
  /\ ~Readable(p, ClientKey)
  /\ slots' = Visited({ClientKey})
  /\ client' = Forgets
  /\ UNCHANGED <<World, refusedSince, calls, faults>>

TransactionKey == <<"transaction", client.ticket>>

\* decide, for an approval, a denial and a request that has expired.
Approve(p) ==
  /\ client.step = "consenting" /\ Reaches(p)
  /\ Readable(p, TransactionKey)
  /\ slots' = [slots EXCEPT ![TransactionKey].value.consent = TRUE]
  /\ client' = [client EXCEPT !.step = "atProvider"]
  /\ UNCHANGED <<World, refusedSince, calls, faults>>

Deny(p) ==
  /\ client.step = "consenting" /\ Reaches(p)
  /\ Readable(p, TransactionKey)
  /\ slots' = Without(Visited({ClientKey}), {TransactionKey})
  /\ IF Readable(p, ClientKey) THEN GivesUp ELSE StartsOver
  /\ UNCHANGED <<World, refusedSince, calls, faults>>

DecideExpired(p) ==
  /\ client.step = "consenting" /\ Reaches(p)
  /\ ~Readable(p, TransactionKey)
  /\ slots' = Visited({TransactionKey})
  /\ StartsOver
  /\ UNCHANGED <<World, refusedSince, calls, faults>>

May(trait) == trait \in config.provider

\* External: the provider's answer to a code, or to a refresh, for account a.  It may give a
\* refresh token, withhold some scopes, and leave the id token out.
Tokens(a, asked) ==
  {[account |-> a, idToken |-> idToken, scope |-> scope, refreshes |-> May("refreshes")] :
     idToken \in (IF "openid" \in asked THEN {a} ELSE {None}) \cup (IF May("omits") THEN {None} ELSE {}),
     scope \in {asked, asked \ config.withheld}}

\* acceptSignIn of provider.ts: the tenant check first, then the server's own rule.
AnyRule    == config.tenant # "common" \/ config.ownRule
Accepts(a) == config.tenant \in {"common", a} /\ (config.ownRule => refusedSince[a] = 0)

\* A sign-in without an id token is refused when the server's list has openid.
SignInRefused(tokens) ==
  AnyRule /\ IF tokens.idToken = None THEN "openid" \in config.scopes ELSE ~Accepts(tokens.idToken)

\* callback up to the provider's answer: the client is still known, and the user approved.
Returns(p) ==
  /\ Readable(p, TransactionKey)
  /\ Readable(p, ClientKey)
  /\ Value(TransactionKey).consent

Callback(p, a) ==
  /\ client.step = "atProvider" /\ Reaches(p)
  /\ Returns(p)
  /\ LET asked == Value(TransactionKey).scope
         code  == Drawn("code") IN
       \E tokens \in Tokens(a, asked) :
         IF SignInRefused(tokens)
         THEN GivesUp /\ slots' = Taken(TransactionKey)
         ELSE /\ slots' = Saved(Taken(TransactionKey), p, <<"code", code>>,
                                [client |-> client.id, tokens |-> tokens], CodeLifetime)
              /\ client' = [client EXCEPT !.step = "redeeming", !.ticket = code,
                                          !.due = @ \ (asked \ tokens.scope)]
  /\ UNCHANGED <<World, refusedSince, calls, faults>>

\* The provider sends an error, or does not exchange its code: the client is told.
CallbackRejected(p) ==
  /\ client.step = "atProvider" /\ Reaches(p)
  /\ Returns(p)
  /\ slots' = Taken(TransactionKey)
  /\ GivesUp
  /\ UNCHANGED <<World, refusedSince, calls, faults>>

CallbackExpired(p) ==
  /\ client.step = "atProvider" /\ Reaches(p)
  /\ ~Returns(p)
  /\ slots' = Without(IF Readable(p, TransactionKey) THEN Visited({ClientKey}) ELSE slots, {TransactionKey})
  /\ StartsOver
  /\ UNCHANGED <<World, refusedSince, calls, faults>>

-----------------------------------------------------------------------------
(* The token endpoint.                                                     *)

CodeKey == <<"code", client.ticket>>

\* The spent marker stays in the code's place.
Spent == [slots EXCEPT ![CodeKey].value = None]

Redeemable(p) == Readable(p, CodeKey) /\ Value(CodeKey) # None

\* redeemCode.
Redeem(p) ==
  /\ client.step = "redeeming" /\ Reaches(p)
  /\ Readable(p, ClientKey)
  /\ Redeemable(p)
  /\ LET tokens == Value(CodeKey).tokens IN
       \E keeps \in BOOLEAN :
         /\ Keeps(keeps)
         /\ slots' = Issued(Spent, p, tokens, Drawn("upstream"), keeps)
         /\ client' = Holding(p, tokens)
  /\ UNCHANGED <<World, refusedSince, calls>>

\* invalid_client, or invalid_grant.
RedeemRefused(p) ==
  /\ client.step = "redeeming" /\ Reaches(p)
  /\ IF ~Readable(p, ClientKey)
     THEN slots' = Visited({ClientKey}) /\ client' = Forgets
     ELSE /\ ~Redeemable(p)
          /\ slots' = IF Readable(p, CodeKey) THEN slots ELSE Taken(CodeKey)
          /\ StartsOver
  /\ UNCHANGED <<World, refusedSince, calls, faults>>

RefreshKey == <<"refresh", client.refresh.jti>>

InvalidGrant_AsUnavailable == UNCHANGED client

\* invalid_grant makes a client drop its tokens and sign in anew.
InvalidGrant ==
  \E asks \in Asks :
    client' = [client EXCEPT !.step = "authorizing", !.access = None, !.refresh = None,
                             !.asks = asks, !.due = {}]

\* signer.verify, and grants.take, which removes the entry whether it opens or not.
Claims(p) == Verifies(p, client.refresh) /\ Readable(p, RefreshKey)

Claimed_WithUpstream ==
  Without(slots, {RefreshKey} \cup IF RefreshKey \in DOMAIN slots THEN {Upstream(RefreshKey)} ELSE {})

Claimed == Taken(RefreshKey)

Merged_WithoutIdToken(fresh, current) == fresh

\* What a refresh leaves out stays as it was granted; a scope list it does report replaces it.
Merged(fresh, current) == [fresh EXCEPT !.idToken = IF @ = None THEN current.idToken ELSE @]

\* A sign-in without an id token has nothing to judge.
RefreshRefused(tokens) == AnyRule /\ tokens.idToken # None /\ ~Accepts(tokens.idToken)

\* rotate with the provider's answer: a refused sign-in ends there, and its token is not put back.
Refresh(p) ==
  /\ client.step = "refreshing" /\ Reaches(p)
  /\ Claims(p)
  /\ Readable(p, Upstream(RefreshKey))
  /\ LET current == Value(Upstream(RefreshKey)) IN
       \E fresh \in Tokens(current.account, current.scope), keeps \in BOOLEAN :
         LET tokens == Merged(fresh, current) IN
           IF RefreshRefused(tokens)
           THEN keeps /\ slots' = Claimed /\ InvalidGrant /\ UNCHANGED faults
           ELSE /\ Keeps(keeps)
                /\ slots' = Issued(Claimed, p, tokens, Value(RefreshKey).upstream, keeps)
                /\ client' = [Holding(p, tokens) EXCEPT !.due = @ \ (current.scope \ tokens.scope)]
  /\ UNCHANGED <<World, refusedSince, calls>>

\* A token that cannot be used; one whose sign-in is gone is put back.
RefreshInvalid(p) ==
  /\ client.step = "refreshing" /\ Reaches(p)
  /\ \/ ~Verifies(p, client.refresh) /\ UNCHANGED slots
     \/ Verifies(p, client.refresh) /\ ~Readable(p, RefreshKey) /\ slots' = Claimed
     \/ Claims(p) /\ ~Readable(p, Upstream(RefreshKey)) /\ UNCHANGED slots
  /\ InvalidGrant
  /\ UNCHANGED <<World, refusedSince, calls, faults>>

\* putBack leaves the token as it was; or its own save fails, which is only logged, or its process
\* ends, and the token is gone.
PutBackOrLost == {slots, Claimed}

\* The provider rejects the refresh or does not answer: the client is told what the provider said,
\* or to try again.
RefreshFails(p) ==
  /\ client.step = "refreshing" /\ Reaches(p)
  /\ Claims(p) /\ Readable(p, Upstream(RefreshKey))
  /\ faults < config.faults
  /\ faults' = faults + 1
  /\ InvalidGrant \/ UNCHANGED client
  /\ slots' \in PutBackOrLost
  /\ UNCHANGED <<World, refusedSince, calls>>

\* A refresh breaks off after its take: a store rejects, the process ends, or the answer is lost.
\* What it has saved by then stays, a save that took effect and still rejected included; so does
\* the provider's newer answer (keepUpstream), which may grant less than what is due.  External:
\* the client tries again.
RefreshBreaksOff(p) ==
  /\ client.step = "refreshing" /\ Reaches(p)
  /\ Claims(p)
  /\ faults < config.faults
  /\ faults' = faults + 1
  /\ \E left \in PutBackOrLost :
       \/ slots' = left /\ UNCHANGED client
       \/ /\ Readable(p, Upstream(RefreshKey))
          /\ LET current == Value(Upstream(RefreshKey)) IN
               \E fresh \in Tokens(current.account, current.scope), n \in 1..3 :
                 LET tokens == Merged(fresh, current) IN
                   /\ ~RefreshRefused(tokens)
                   /\ slots' = Saves(left, p, tokens, Value(RefreshKey).upstream)[n]
                   /\ client' = [client EXCEPT !.due = @ \ (current.scope \ tokens.scope)]
  /\ UNCHANGED <<World, refusedSince, calls>>

\* So does a redemption, with its code taken, spent, or spent and some of the pair saved.
RedeemBreaksOff(p) ==
  /\ client.step = "redeeming" /\ Reaches(p)
  /\ Readable(p, ClientKey) /\ Redeemable(p)
  /\ faults < config.faults
  /\ faults' = faults + 1
  /\ \/ slots' \in {Taken(CodeKey), Spent}
     \/ \E n \in 1..3 : slots' = Saves(Spent, p, Value(CodeKey).tokens, Drawn("upstream"))[n]
  /\ UNCHANGED <<World, client, refusedSince, calls>>

-----------------------------------------------------------------------------
\* guarded: the store rejects, at its first use or after the pending request was taken, and the
\* answer is a 500.  External: the client tries again, or its user starts over.
Guarded(p) ==
  /\ Reaches(p)
  /\ faults < config.faults
  /\ faults' = faults + 1
  /\ \/ client.step \in {"registering", "redeeming", "refreshing"} /\ UNCHANGED <<slots, client>>
     \/ client.step \in {"authorizing", "consenting"} /\ UNCHANGED slots /\ StartsOver
     \/ client.step = "atProvider" /\ slots' \in {slots, Taken(TransactionKey)} /\ StartsOver
  /\ UNCHANGED <<World, refusedSince, calls>>

\* The server's own rule is tightened.
Tighten(a) ==
  /\ config.ownRule
  /\ refusedSince[a] = 0
  /\ refusedSince' = [refusedSince EXCEPT ![a] = now]
  /\ UNCHANGED <<storeVars, client, calls, faults>>

Progress ==
  \E p \in Processes :
    \/ Unauthenticated(p) \/ AuthenticationFails(p) \/ Served(p) \/ Forbidden(p)
    \/ Register(p) \/ Authorize(p) \/ AuthorizeUnknown(p)
    \/ Approve(p) \/ Deny(p) \/ DecideExpired(p)
    \/ (\E a \in config.accounts : Callback(p, a)) \/ CallbackRejected(p) \/ CallbackExpired(p)
    \/ Redeem(p) \/ RedeemRefused(p) \/ RedeemBreaksOff(p)
    \/ Refresh(p) \/ RefreshInvalid(p) \/ RefreshFails(p) \/ RefreshBreaksOff(p) \/ Guarded(p)

Environment ==
  \/ (Cleanup \/ (\E p \in config.processes : Close(p) \/ Restart(p)) \/ Tick)
       /\ UNCHANGED <<client, refusedSince, calls, faults>>
  \/ \E a \in config.accounts : Tighten(a)

Next == (\E tool \in Tools : Call(tool)) \/ Progress \/ Environment

Spec == Init /\ [][Next]_vars

\* The client goes on with what it began, the user answers, and the provider sends the browser back.
FairSpec == Spec /\ WF_vars(Progress)

-----------------------------------------------------------------------------
TypeOK ==
  /\ TypeOKStore
  /\ client.step \in Steps
  /\ client.tool \in Tools \cup {None}
  /\ \A token \in {client.access, client.refresh} \ {None} : DOMAIN token = {"jti", "key", "exp"}
  /\ client.due \subseteq config.scopes
  /\ \A k \in DOMAIN slots :
       k[1] \in {"transaction", "upstream"} => Value(k).scope \subseteq config.scopes
  /\ refusedSince \in [Accounts -> 0..MaxTime]
  /\ calls \in 0..MaxCalls
  /\ faults \in 0..config.faults

(* Where the configuration lets tokens last (a store that is shared, and keys that are set or   *)
(* the caller's, server.ts:119-130), the access token works until it expires, at every process, *)
(* whatever restarts, fails or breaks off.  So does the refresh token, and the client stays     *)
(* registered for it, as long as there was no fault: a put-back that fails (grants.ts:310), a   *)
(* process that ends inside a refresh, and a client that is not kept (clients.ts:124) lose them. *)
SignInLasts ==
  Lasting => \A p \in config.processes :
    /\ Verifies(p, client.access) => Session(p) # None
    /\ Verifies(p, client.refresh) /\ faults = 0 =>
         /\ Readable(p, RefreshKey) /\ Readable(p, Upstream(RefreshKey))
         /\ ClientLifetime >= RefreshLifetime => Readable(p, ClientKey)

(* A step-up adds to what the session holds: when the client is back with the tool's call, its  *)
(* session has every scope it had before and every one the tool asked for, as far as the list   *)
(* has them and the provider grants them (challenge.ts:15-18).                                  *)
StepUpAddsUp ==
  client.step = "calling" /\ client.steppedUp =>
    \A p \in config.processes : Session(p) # None => client.due \subseteq Session(p).scope

(* With openid on the list, whoever holds a token passed the tenant check, though clients narrow *)
(* scopes and the provider may leave the id token out; and whom a tightened rule refuses holds   *)
(* no access token longer than one code and one access token last (server.ts:37-43).             *)
OnlyAccepted ==
  "openid" \in config.scopes =>
    \A k \in {k \in DOMAIN slots : k[1] = "access" /\ Upstream(k) \in DOMAIN slots} :
      LET a == Value(Upstream(k)).account IN
        /\ config.tenant \in {"common", a}
        /\ refusedSince[a] # 0 =>
             slots[k].expiresAt <= refusedSince[a] + CodeLifetime + AccessLifetime

(* Where tokens last, or one process serves all, a call is not sent round for ever between       *)
(* challenge, refresh and sign-in, whatever fails, restarts or expires on the way.               *)
Settled ==
  (Lasting \/ Cardinality(config.processes) = 1) /\ client.step = "calling" ~> client.step = "idle"

=============================================================================
