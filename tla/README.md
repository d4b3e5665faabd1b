# A verification project for SomaMCP

SomaMCP is a TypeScript library for MCP servers: a server core over a backend
built on the MCP SDK, gateways that proxy other servers' tools, and an OAuth
authorization server that stands between MCP clients and an upstream identity
provider. This directory holds TLA+ models of the parts of it where steps
overlap, fail or arrive late, TLC configurations that check them on small
instances, and proofs of what matters most about them for every instance.

Paths below are relative to `src/src/` unless they start with `test/` or
`README.md`, which are the repository's own.

## The system

| Component | State | Operations | Hard behaviour |
|---|---|---|---|
| Token endpoint (`node/oauth/grants.ts`) | none of its own; everything is in the store | `token` (redeem a code, refresh), `resolve`, `revokeUser` | every request is a chain of awaits on the store and the provider; requests race for codes and refresh tokens, the provider rotates its own tokens, anything may fail between two steps |
| Browser endpoints (`node/oauth/authorization.ts`) | pending requests and codes in the store | `authorize`, `decide`, `callback` | pages are reloaded, answers overlap, the user returns more than once |
| Records (`node/oauth/records.ts`) | the schema of the store's entries | find, save, take, redeem, spend | `take` is atomic only when the store can; lapsing is judged on read |
| Disk store (`node/oauth/stores/disk.ts`) | one file for each key | get, save, take, delete, cleanup on a timer | several processes share the directory without a lock |
| Memory and encrypted stores (`node/oauth/stores/`) | a map; a wrapped store and a key | the same | a key that is random is another after a restart and at another process; a take removes before it opens |
| OAuth provider and routes (`node/oauth/provider.ts`, `server.ts`, `http.ts`) | its store when it makes one, its keys | register, authorize, consent, callback, token, authenticate, challenge, close | a sign-in is a conversation of client, browser and provider over several requests, any of which may reach another process, a restarted one, or lapsed entries |
| Clients, JWTs, upstream, claims, scopes, PKCE | none | register, issue, verify, exchange, refresh | timeouts and lost answers of the provider |
| SDK backend (`backend/sdk/index.ts`) | handler, listener, path, response mode, state, registry | `fetch`, `start`, `stop`, add and remove | starts and stops overlap exchanges and each other; a request's rights are checked in one place and used in another |
| Request handlers (`backend/sdk/handlers.ts`) | none | tools/call, listings, resources, prompts, completions | the registry changes under a call |
| Server core (`Server.ts`) | the inventory of tools, resources, prompts | add, remove, `start`, `stop` | start may run again; the inventory is kept beside the registry |
| Gateways (`gateway/`) | client, status, tools, reconnect timer | connect, disconnect | timers, attempts and calls share one client, status and timer reference |
| Telemetry (`telemetry/`, `node/JsonFileTelemetry.ts`) | a buffer, a timer and its reference | record, flush | the timer, flushes and calls meet in one buffer; writes fail |
| Tracing, feedback, artifacts, introspection, content, mapping | none | | stateless |

The server core calls the backend and the gateway manager; the backend serves
requests through the handlers, which read the registry the core fills. The
OAuth server is reached by HTTP routes the backend mounts and by the backend's
`authenticate`, which resolves a bearer token. All state of the OAuth server is
in the token store, which several processes may share.

## The modules

One action is the code between two awaits: JavaScript runs it alone, and
everything else may happen before the next one. `pc[r]` (or `call[c].step`,
`attempts[g]`) says which await a request is suspended in, and `req[r]` holds
its locals. Operations that change no state (a get that finds a fresh file, a
listing) are left out. Store entries that have lapsed stay in the state and
read as missing.

### Grants, with MCGrants and GrantsProofs

`Grants.tla` is `grants.ts` over `records.ts`. A code goes from `unissued` to
`active`, is removed by the take and replaced by the spent marker
(`StartRedeem`, `TakeCode`, `SpendCode`); issuing saves the provider's tokens,
one grant for each JWT, and the client (`KeepUpstream`, `SaveAccess`,
`SaveRefresh`, `FindClient`, `SaveClient`). A refresh claims its grant, finds
the tokens, looks at the revocations, asks the provider, looks again, merges
the answer and issues (`ClaimRefresh` to `Recheck`); every failure but
`SignInRefused` ends in `PutBack`. `revokeUser` takes two steps, the call and
the save. `StoreFails`, `ProviderFails` and `Crash` are what goes wrong:
a store operation rejects without taking effect, the provider refuses or its
answer is lost with the token rotated or not, the process dies.

`Tick` is never held back: time may pass at every await, also while a pair or a
revocation is on its way to the store. A lifetime counts from the moment the
code calls for it (`at`, the `issuedAt` and `exp` of a JWT, the seconds given to
a save), so that of the provider's tokens begins earlier than those of the JWTs
that stand for them. Two history variables name what this leads to: `begun` has
the moment `keepUpstream` was called for each JWT, and `outran` the issue of
tokens a refresh brought past a revocation that was on its way.

JWTs are numbered as they are drawn and carry use, client, key and expiry; a
JWT is presented only after its response reached a client (`handed`). The
provider's tokens are its session, its subject, their time of issue, the number
of the refresh token and the lifetimes the provider gave. `resolve` changes
nothing and is the predicate `Resolves`. `acceptSignIn` may refuse any tokens
that carry a subject. With `AtomicTake = FALSE` the take is a get and a delete
(`ReadCode`, `DeleteCode`, `ReadGrant`, `DeleteGrant`), as `records.ts:131`
does over a store without one.

Between the take of a code and its spent marker the key is empty, so the loser
of a race is told the code is invalid rather than used (`grants.ts:145`); the
properties do not tell the two refusals apart.

### Widening, with MCWidening and WideningProofs

`Widening.tla` is what a refresh asks the provider for and what it keeps of the
answer: `narrowScope`, `refreshCap`, `widenedScope`, `worthAsking`,
`refreshUpstream` and `rememberDeclined`, for one sign-in. It fills the gap
between the steps of `Grants` in which the provider is asked and the answer is
saved, and leaves the refresh token, revocations and lapsing to that module. A
sign-in has one refresh token (`SingleUse`), so its refreshes do not overlap;
what happens between them is that the server's list changes (`Release`), that
the user consents to more (`Consent`), and that time passes (`Tick`, in ticks
of which `Day` make a day; a refresh takes none). Scopes are sets; `fresh` is
the merged answer. `kept` is the scope of the provider's tokens in the store and
`held` that of the refresh token's grant, which differ when the second save
fails. A provider may report what it granted always, or only when it differs
from what was asked for (`reports`).

### Authorization over SignIn, with MCAuthorization and AuthorizationProofs

`Authorization.tla` is `authorization.ts`: a client registers, `authorize`
saves a pending request, `decide` reads it and saves it with consent or deletes
it, `callback` takes it, looks at the client and the consent, exchanges the
provider's code and saves a code for the client. The browser may bring any of
the provider's codes for any id it has seen, any number of times; the provider
exchanges each code once. `setting` says whether the store has a take, and
whether a consent answer keeps from overlapping other requests of its sign-in;
with both the sign-ins are `Orderly`. `SignIn.tla` is what the endpoints promise of one
sign-in, a path from the request through consent to one code, with every drop
final. The refinement maps a sign-in to its stage (`Stage`), which takes the
request that carries it on after the take into account.

### DiskStore over Slot, with DiskStoreProofs

`DiskStore.tla` is `stores/disk.ts`, one file-system operation for each action,
on one key. `dir` holds the key's file and the claims takes have moved it to,
`staging` the temporary files of saves. A cleanup lists the directory and then
reads and removes name by name. A get that finds nothing stale changes nothing
and is left out; removals are by name, of whatever is there by then.
`Slot.tla` is what a store with a take promises of one key: a value goes to one
take at most, which returns it before it expires or not at all, and never comes
back. That it stays until then is not promised, since a delete, a crash and a
cleanup that judged another entry (`disk_store_sweep`) may lose it. The
refinement has a value in place under the key's name, held as a claim or in the
locals of the take that read it, and unsaved while it is in a temporary file.

### Backend, with MCBackend and BackendProofs

`Backend.tla` is `backend/sdk/index.ts` with tools/call of `handlers.ts`. One
tool name stands for the registry; what a call needs is that `canAccess` lets
the session through and that it holds `requiredScopes`. `config` chooses the
build (the main entry, which listens on nothing, or `somamcp/node`) and whether
`authenticate` is configured. Handlers and listeners are numbered; a listener's
`path` is the endpoint its start named, or none, while `endpoint` is what the
server answers on, which outlives starts that failed. The SDK's
`close`, which aborts what the handler was given, the port and the stdio
transport are external. Left out: CORS, the auth provider's routes, how a
refusal is worded, and what a timed-out tool goes on doing.

### Gateway and Server, with MCServer and ServerProofs

`Gateway.tla` is `gateway/Gateway.ts` under its manager: `connect` up to
`c.connect`, up to `c.listTools`, and its end; `disconnect` up to `close` and
its end; the timers `scheduleReconnect` arms. Several attempts may be under way
and share the client, the status and the timer reference, as in the code.
`Server.tla` extends it with `Server.ts`: `start` and `stop` in their awaits,
registration of proxied tools, and the inventory (`registeredTools` and
`registeredResources`) beside the registry. Every gateway has the empty
`toolPrefix`, the case in which names collide. `supportsRemoval` is chosen at
the start. Calls a user makes on the gateways directly, and connections that
drop while idle, are not modelled.

### Telemetry, with TelemetryProofs

`Telemetry.tla` follows a call from its handler to the file. A call of a tool,
resource, template or prompt is refused, throws, or runs; a running tool may
time out and go on (`late`); what settles is recorded by its wrapper
(`Observed`), unless the capability has none: resource templates, and tools of
`captureLevel` `none`. A proxied tool records for itself and is a tool here.
The file collector is the buffer, the timer's reference (`flushTimer`) beside
the timers really armed (`armed`), and the writes under way, each a `mkdir`
step and an append. `FlushOnStop` is the end of `stop`, its event and its
flush. A write that fails loses its events; the timer's also may end the
process (`up`), since nobody handles its rejection. Events of sessions,
gateways and starts come the same way and are left out.

### TokenStore and Provider, with MCProvider and ProviderProofs

`TokenStore.tla` is `stores/memory.ts` and `stores/encrypted.ts` as `server.ts`
puts them together: which key entries are sealed with (`SealedBy`) and JWTs
signed with (`SigningKey`) follows from the options `store`, `encryptionKey` and
`jwtSigningKey`; a key that is not given is random for this life of its process.
An entry under another key reads as missing, and taking it removes it all the
same (`encrypted.ts:81`). A store the server makes is its own and is emptied
when it closes or restarts; one passed in stays, and may serve several processes.

`Provider.tla` is the conversation around that store, from end to end: a client
calls a tool, `authenticate` finds a session or the client is challenged,
refreshes or registers, asks to authorize, the user consents, the provider
sends the browser back, and the client redeems its code and calls again; a tool
that needs more scopes is answered with the step-up challenge. Each HTTP request
is one action, answered by any process of the deployment: how requests of one
sign-in interleave at their awaits is the subject of `Grants` and
`Authorization`, and here the steps between requests are: time, cleanup,
restarts, another process, a close, a tightened rule. A request of the token
endpoint may also break off inside: after its take, after the spent marker, or
after any of the saves of `keepUpstream` and `issuePair` (`Saves`), because the
store rejects, the process dies or the answer is lost (`RefreshBreaksOff`,
`RedeemBreaksOff`); the refresh token is then put back or not
(`PutBackOrLost`), as a put-back that fails is only logged
(`node/oauth/grants.ts:310`). The browser endpoints fail at their first use of
the store or after the take of a callback (`Guarded`); entries orphaned by the
lost answer of one that succeeded are left out. The client (the MCP
authorization flow: refresh at a 401, sign in at `invalid_grant`, register at
`invalid_client`, step up once for a call), its user and the provider are
external. The provider may give no refresh tokens, leave the id token out of any
answer, and withhold scopes. Revocation and widening are left to the modules
above. Ids are the smallest number nobody holds, since ids are only compared.

What the model has that a reader might not expect: a store that rejects while a
request is authenticated is a 401 (`auth/resolve.ts`), so the client refreshes;
an unknown client at `/oauth/authorize` is shown in the browser only, and the
app learns nothing; a redemption does not run `acceptSignIn`, so a rule
tightened after the callback is first applied at the next refresh; and the
warning about `lifetimes.client` (`server.ts:121`) compares it with
`lifetimes.refreshToken` only, while the provider may give its refresh tokens
longer (`refreshExpiresIn`), whose client then lapses first.

## The runs

`CHECK_DEADLOCK FALSE` in all but `widening`: a server with no request to serve,
or out of the bounds of the model, stops.

| Run | Shows | Bounds |
|---|---|---|
| `grants` | codes and refresh tokens work once; no refresh token is lost without a fault or stranded on a rotated provider token; grants are never extended; the provider's tokens are kept for the pair that stands for them, but for the time between the saves; a revocation on record ends the sign-ins it is no earlier than | 2 requests, 2 clients, 1 code, 2 keys, 5 JWTs, 3 ticks, 1 fault, 2 choices of lifetimes |
| `grants_outrun` | finding: a refresh carries a sign-in past a revocation | 2 requests, clients that lapse at the first tick, 3 ticks, no fault |
| `grants_without_take` | every refresh is decided, two of one token included | 2 requests, 1 client whose registration lapses at once, 1 code, 1 key, 6 JWTs, 2 ticks, no fault, 1 choice of lifetimes |
| `authorization` | implements SignIn, so that a sign-in is completed once, when `Orderly`; always consent before code, and each code backed by an exchange | 3 requests on 1 sign-in, 2 returns each, 4 ticks, 1 fault; with take and consent answers that overlap nothing, or without take and anything overlapping |
| `authorization_twice` | finding: a consent answer revives a completed sign-in | 2 requests |
| `widening` | clients never add scopes; refused lists are left alone for a day and no longer; what is consented to arrives | 1 sign-in, 3 scopes, 2 lists, a day of 1 tick, 1 release, 1 fault |
| `disk_store` | implements Slot, so that a value has one taker; no leftovers; lapsed entries leave | 3 callers, a timer, 2 values, 3 ticks, 1 fault |
| `disk_store_sweep` | finding: a fresh entry is removed | 2 callers |
| `backend` | rights and 403s; one listener, on the endpoint a start names; an open handler, also where calls overlap | 1 exchange, 3 calls by 2 callers, 1 registry change |
| `server` | inventory and registry of tools, gateway status and timers | 2 gateways, 3 calls by 2 callers, 2 changes, 2 clients each |
| `telemetry` | each event is in one place once; a stop delivers what was answered before; every event is written | 2 calls of 5 kinds, 2 stops, 1 failing write |
| `provider` | tokens last where the configuration lets them; a step-up loses nothing; only accepted accounts hold tokens; every call settles | 8 deployments of 1 or 2 processes, 1 client, 2 tools, 2 accounts, 2 calls, 2 lives, 3 ticks, 1 fault in one of them |

Why the bounds are enough: each race the code has is between two requests (or
a request and a timer), so two of each suffice for it to happen, and a third is
given where a third can only be an onlooker of two (`authorization`,
`disk_store`). Sign-ins share nothing but the requests that serve them, so
`authorization` has one. The two lists of `widening` give a list that gains a
scope and one that loses it again; a tick is enough to be within the day or
past it. Five JWTs are a redemption, a rotation with longer or shorter lifetimes, and
the beginning of another, or of a second by the other request; six, without
faults, are two whole rotations. Three ticks let
every lifetime lapse during a request and after it. One fault is any single
failure at any step. Three calls to start and stop are a start, a restart and a
stop, or two overlapping ones and a third after them. Two changes of what `server`
serves are an addition and a removal, or the same thing twice. Symmetry sets permute
only interchangeable model values in runs without liveness.

The deployments of `provider` are `OnItsOwn` (no option given, a provider without
refresh tokens that withholds a scope), `Shared` and `Sealed` (two processes, as
the README sets them up, over a plain and an encrypting store), `Apart` (one
process whose encryption key is new in each life), `OneTenant` (a tenant check,
users of two tenants, id tokens left out), `Tightened` (a rule of the
server's own that changes) and `Unchecked` (no `openid`, hence no id token to
check). In these nothing fails. In `Failing`, one process with a lasting store and
keys, there is one fault, of the store, of the provider, or of a request that
breaks off; its client may refresh before its access token has expired, which is
what makes a lost refresh token, or a partly saved pair, meet an access token
that is still to work. Two calls are one that is served and one that meets what time, a restart
or the other process did to its tokens; three ticks outlast every lifetime.
`MaxEntries` bounds the store over which a sign-in begins and is never reached.

Each property of a passing run is also checked against a mutated definition
(the operators named `X_...` before `X`), which breaks it: the properties say
something about the code.

### Fairness

Safety runs need none. `grants_without_take` assumes weak fairness of each
request's next step: awaits on the store settle, and the provider call has a
timeout (`upstream.ts:137`). A revocation or a redemption need not begin.
`telemetry` assumes that an armed timer fires and that a write's steps settle.
`disk_store` assumes that each process's cleanup timer, which repeats
(`stores/types.ts:30`), goes on, and a cleanup it began as well; callers may
stop for good. Nothing assumes that crashed requests are retried.
`widening` assumes that a refresh goes on once begun, that the client refreshes
again and again without naming a scope (clients refresh as their access tokens
lapse, and may name a scope in between), that days pass, and that a provider
asked over and over for what it can grant does grant it some time. Faults are
bounded, which is to say that the store works in the end. `WideningLands` is
about a provider that reports what it grants: one that leaves `scope` out when
it grants what was asked, as RFC 6749 allows, keeps the old scope on record
(`grants.ts:271`), and the sign-in is asked to widen on every refresh
(`README.md:324` says so of scopes never reported back).

`provider` assumes that the client goes on with what it began, that its user
answers the consent page, one way or the other, and that the provider sends the
browser back; no single request must succeed, and nothing else must happen.

### What the failing runs say

Three runs end in a counterexample to something a comment, a test or the
documentation says:

- `grants_outrun`: `revokeUser` reads the clock when called (`grants.ts:193`);
  while its save is on the way, a refresh looks at the revocations, finds none,
  and keeps tokens issued later, which the record that lands does not cover. The
  sign-in goes on after `revokeUser` has returned, although it "ends every sign-in
  a user holds now" (`README.md:261`). Clients that lapse at once leave this as the
  only way; with longer lived ones TLC finds a shorter one first, in which two
  revocations land in the opposite order and the earlier moment stays on record
  (`records.ts:220`).
- `authorization_twice`: `decide` saves what it read (`authorization.ts:179`),
  so an approval that overlaps the callback of the same sign-in puts the request
  back after the callback consumed it. When answers overlap nothing the refinement holds.
- `disk_store_sweep`: `sweep` and `get` read, judge and remove by name, and a
  save in between loses its value (`stores/disk.ts:91`, `:144`).

### What the code does not keep

In these places the code also differs from what its documentation says or a
reader might expect. The models have each of them; no property rules it out, and
those it bears on are limited as said here.

- The provider's tokens are kept for a lifetime that counts from `keepUpstream`,
  and each JWT lives for one that counts from its own signing, awaits later
  (`node/oauth/grants.ts:88-116`). Where the pair lives no shorter than the
  tokens it stands for, the time these saves take is time in which an access
  token is current and does not resolve, against "as long as any token standing
  for them can still be used" (`grants.ts:87`). `UpstreamKeptForPair` allows that
  time and no more. It is about the last pair of a sign-in: a refresh saves the
  provider's tokens over the old ones for the lifetimes of the new, so when those
  are shorter an access token of an earlier pair stops resolving before it expires.
- `RevocationReaches` is what remains of `RevocationEndsSignIns`: a record ends
  every sign-in made until its moment, unless a refresh carried it past an earlier
  revocation while that one was on its way (`outran`); it ends that sign-in too when
  it is no earlier than the tokens so issued.
- `applyHttpConfig` moves the path when a start names one, before the port is
  open, and nothing moves it back (`backend/sdk/index.ts:281`). A start without an
  endpoint serves what an earlier one named, also when that one failed, and not
  `/mcp` (`types/server.ts:84`). `ListenerKept` is about the endpoint of a start
  that names one.
- A start with JSON responses replaces the handler under the exchanges in flight
  (`backend/sdk/index.ts:289`), and `stop` closes the new one only, although it
  "closes the listener and in-flight streams" (`README.md:630`).
- `start` looks at the listener before an await and sets it after
  (`backend/sdk/index.ts:383`). Overlapping starts leave one listener nobody
  refers to, and a start that comes back while `stop` is at its end is forgotten:
  the server reports stopped with a port open. `ListenerKept` is about calls that
  do not overlap; `AnswersBetweenStops` is about all.
- A resource or prompt is listed each time it is added, and unlisted once
  (`Server.ts:211`): added twice and removed, it is counted and not served, which
  is the drift `Server.ts:287` rules out. `ToolsCounted` is about tools, which are
  entered once (`Server.ts:127`).
- `scheduleReconnect` overwrites the timer reference (`gateway/Gateway.ts:19`). A
  second start while a gateway is down arms a second timer when it fails too, stop
  clears that one, and the first reconnects the gateway after stop. `StatusIsTrue`
  leaves out gateways that were connected again while a timer was armed
  (`hastened`), or on which calls met (`crossed`).
- `SignInLasts` has the access token work through faults. The refresh token is
  another matter: a put-back that fails is only logged (`grants.ts:310`), a process
  may die between the take and the issue, and either way the token is gone while
  its JWT verifies. That half of the property is about runs without faults.
- `RefreshTokenNotLost`, `ProviderTokenCurrent` and `RefreshDecided` say nothing
  after a fault, for the same reason, and since a provider whose answer is lost
  may have rotated its token.
- `Settled` is about deployments where tokens last or one process serves all.
  Two processes with keys of their own may send a client from one to the other
  for ever; the server warns of such a configuration (`server.ts:119`).
- `StopDelivers` is about a stop that finds no write under way. `flush` does not
  wait for one (`node/JsonFileTelemetry.ts:50`), so that `stop` may resolve
  before events recorded earlier are in the file.
- A tool whose `execute` throws before it returns a promise escapes its wrapper
  (`telemetry/telemetryWrapper.ts:54`): no event, and a bare error. The answer
  is `bare` in the model, and no property counts it.

## The proofs

Each theorem below is about every value of the constants that satisfies the
assumptions its module names (`...Assumption`: bounds are natural numbers, sets
that should not meet do not; `NoneAssumption`: `None` is none of the values it
stands beside); a theorem that needs more says so. The invariants TLC checks are
seldom inductive; what each needs besides is the interest of its proof. Every
proof has one lemma for each action, or for each kind of step.

`GrantsProofs.tla`, about `Grants`:

- `SpecWellFormed`, `TypeCorrect`: `WellFormed` is invariant. It is `TypeOK`
  strengthened with what each label says of a request's locals (a request that
  asks the provider carries current tokens, one that issues carries an owner
  and new tokens, ...) and with the freshness of numbers and keys: a JWT beyond
  `drawn` is not signed, a key nobody drew stands for nothing.
- `SingleUse`: with `AtomicTake`, `OneRefreshToken`. With `WellFormed` and that no
  request is between a get and a delete, it is inductive itself: it counts three
  places a sign-in's right to refresh may be in, a refresh token in the store, a
  request that carries it, or nowhere after a refusal. Claiming moves it from
  the store to the request, issuing and putting back move it back, refusing
  ends it, and failing leaves it or loses it.
- `RedeemedOnce`: with `AtomicTake`, `CodeRedeemedOnce`. `OneRedemption` follows a
  code from the store to the request that took it and on to the one key drawn
  for it: while it can be taken nobody redeems it, and afterwards it is with a
  request or with a key, not both.
- `NeverExtended`: `RetryNeverExtends`, over any store.
- `RevokedSignInsEnd`: `RevocationReaches`, over any store, with any faults and
  however long revocations take to be saved. `AllCovered` says of all tokens, in a
  code, in the store or in a request, that they carry the user of their sign-in,
  and that a revocation on record, or on its way, which covers the sign-in and what
  outran an earlier one covers them; a refresh that has asked the provider
  is covered by the tokens it started from (`cur`), which is why `Recheck`
  judges those.
- `NeverStranded`: with `AtomicTake`, `ProviderTokenCurrent`. `ProviderCurrent`
  adds that the tokens in a code, in a redemption, in the store and in each
  refresh carry the refresh token the provider honours; it rests on `SingleUse`,
  since two refreshes of one sign-in would rotate each other's token away.
- `NeverLost` and `LastPairBacked`: with `AtomicTake`, `RefreshTokenNotLost` and
  `UpstreamKeptForPair`. `AllKept` has the right to refresh follow the refresh
  token signed last (`Latest`), so that whoever drops an earlier one leaves a
  later one behind, and has the provider's tokens kept until the last pair has
  run out, less the time its saves took, from the moment that pair is complete.

`AtomicTake` is what the library's own stores give (`disk_store`, and a map);
without it TLC has counterexamples to the theorems that assume it.

`AuthorizationProofs.tla`, about `Authorization`, over any store and with any
overlap unless it says `Orderly`:

- `TypeCorrect`, `NoCodeWithoutConsent`: `ConsentBeforeCode`. `ConsentInv` adds
  that consent in an entry a request has read or is about to save was given.
- `EachCodeBacked`: `CodesBacked`. `BackedInv` splits the provider's codes that
  were exchanged into those a request still carries, each its own, and those
  that were spent; the codes sent to the client are no more than the latter.
- `Implements`: `ImplementsSignIn`, each step a step of `SignIn` or none. When
  `Orderly`, `OrderInv` has each request in flight alone on its sign-in, so that
  what it holds and what the store holds agree on the stage (`PlaceOK`).
- `OneCode`: when `Orderly`, a sign-in is completed once; `authorization_twice`
  shows that it is not otherwise.

`WideningProofs.tla`, about `Widening`:

- `TypeCorrect`, which says besides types that no answer leaves a sign-in
  without scopes.
- `NeverAdds`: `ClientNeverAdds`. The inductive invariant `Capped` adds what a
  refresh in flight carries: the scope it asks for is within its grant and the
  scopes always kept, a list it widens to is one of the server's, what came back
  is within what the sign-in was granted; and that the provider's token stands
  for no more than that.
- `RefusalLasts`: `RefusalKeptADay`. `Remembered` adds that the last refusal is on
  record as long as it is to be left alone, unless a save failed, and that an
  entry is never younger than the refusal it stands for.

`DiskStoreProofs.tla`, about `DiskStore` and `Slot`:

- `TypeCorrect`. The inductive invariant `Sound` adds who may be at which label,
  what a removal goes by (a caller's is the key's file; a sweep's may be a
  claim), and that each value is in one temporary file at most, so that a rename
  brings a value no other save can bring again.
- `Tidy`: `NoLeftovers`, inductive with `Sound`: whatever sweeps remove meanwhile,
  a claim and a temporary file go with the call that made them, unless it crashed.
- `Implements`: `ImplementsSlot`, from one lemma for each action that says which
  step of `Slot` it is, if any. A sweep's removal is the case to look at: it may
  remove the entry in place, or a claim that its taker has not read yet, who
  then returns nothing.
- `TakenAtMostOnce`: `TakenOnce`, from `Implements` and `SlotOnceOnly`, which proves
  `ReturnedOnce` of `Slot`. Its invariant `OnePlace` has each value in place,
  held by one caller, or returned.

`BackendProofs.tla`, about `Backend`: `TypeCorrect`, `Rights` (`RunsWithRights`),
`KeepsAnswering` (`AnswersBetweenStops`) and `KeepsListener` (`ListenerKept`), all
from `BackendInv`: an exchange at its scope check has not been given to a handler,
and one past its lookup holds what the tool it resolved needs, whatever the registry
became (`RightsHeld`); a handler that is served after it was closed has a stop under
way that renews it, however calls overlap (`Answering`); and, while calls to start
and stop have not overlapped, one is under way at most, and its step says which
listener is open and which endpoint it was asked for (`OneCall`).

`ServerProofs.tla`, about `Server` and the gateways it extends: `TypeCorrect` and
`InventoryIsTrue` (`ToolsCounted`), which are inductive; `StatusTrue` (`StatusIsTrue`) and
`ErrorRetried` (`ErrorIsRetried`) from `GatewayInv`, by which a gateway on which
calls did not cross has one attempt or one closing under way, of the client it
refers to (`OneAtATime`), and holds the reference to the timer that is armed
(`TimersHeld`).

`TelemetryProofs.tla`, about `Telemetry`: `TypeCorrect`, `AllAccounted`
(`Accounted`) and `Delivers` (`StopDelivers`), from `TelemetryInv`: at most one
timer is armed, and the reference says so (`OneTimer`); a write has events, and a
stop awaits one write (`WritesOK`); each event is in the buffer, in one write, in
the file or lost, and in one of them only (`Once`); a call answered by its
capability is recorded, and one recorded is over (`RecordedOnce`); and what a stop
owes is lost, in the file, or in its own write (`Delivery`).

`ProviderProofs.tla`, about `Provider` over `TokenStore`: all from one invariant
`Inv`, whose parts are said of a store and a client, so that a step is followed
through the stores it makes on its way.

- `TypeCorrect`, with what every kind of entry holds (`EntryOK`).
- `TokensLast`: `SignInLasts`. `Live` has the entries behind a token the client
  holds expire no earlier than the token, and every entry sealed as every process
  seals (`OneSeal`). A step that issues tokens must keep this for what it
  extends (`IssuedKeeps`); one that issues none removes only what has lapsed
  or the client has dropped (`Spared`, `Drops`). An upstream key drawn anew is one
  no pair refers to, also not a pair whose upstream entry is gone
  (`DrawnUpstream`): this is why `Good` has the store finite.
  After a fault only the access token's half is left to keep: no save of a pair that
  breaks off takes an entry behind it away or shortens one (`ClosesHalfway`), and the
  refresh token may go.
- `StepsUp`: `StepUpAddsUp`. `DueOK` follows what a step-up owes from what the client
  asks for through the transaction and the code to the tokens.
- `AcceptedHold`: `OnlyAccepted`. `Judged` says of all tokens kept, in a code or
  behind a pair, that the tenant check saw the id token of their account, and
  `Good` and `AccessOK` bound how long a code and a pair may outlast a rule that
  was tightened after the judgement. The case to look at is a refresh whose
  answer brings no id token: it is judged by the one kept.

Every safety invariant of the passing runs is proved, and so are both
refinements. Only model-checked are the properties of liveness under fairness
(`RefreshDecided`, `LapsedLeave`, `WideningLands`, `EventuallyWritten`,
`Settled`), which are beyond the prover, and the three counterexamples.

## Not modelled, and why

- The tracer's spans: each is opened and ended around one call, so that a property
  of them would hold by the shape of the model.
- The cipher of the encrypted store, cookies, CORS and metadata documents.
- OAuth parameters, PKCE, JWT signatures, claims, HTTP parsing, pages, scope
  strings, redirect URI patterns: decided in one step from their input, and
  appear as accepted or refused.
- Listings and completions in the handlers, mapping, content, artifacts,
  introspection, feedback: they read state or convert values.
- What a telemetry event says, and the order of the file's lines, which
  overlapping writes may change.
- A store operation that takes effect and then rejects, outside `Provider`.

## Plan

1. Extend: at-least-once stores in `Grants`; completions in the handlers; calls
   on gateways through `getGatewayManager`.
2. Refine: `Gateway` against what `Server` needs of it.
3. Prove: the refinement of item 2, and what the extensions of item 1 bring.
