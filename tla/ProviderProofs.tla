--------------------------- MODULE ProviderProofs ---------------------------
(***************************************************************************)
(* Proofs about Provider, for any deployments, tools, accounts, scopes,    *)
(* lifetimes and bounds: what it promises a client of its tokens and       *)
(* scopes, and its server of who holds them.                               *)
(***************************************************************************)
EXTENDS Provider, FiniteSetTheorems, TLAPS

-----------------------------------------------------------------------------
(* The inductive invariant.  Its parts take the store s and the client c,  *)
(* so that they can be said of those of a next state.                      *)

ClientFields == {"step", "tool", "id", "access", "refresh", "asks", "steppedUp", "ticket", "due"}

TokenOK(token) == token # None => DOMAIN token = {"jti", "key", "exp"} /\ token.exp \in Nat

ClientOK(c) ==
  /\ DOMAIN c = ClientFields
  /\ c.step \in Steps
  /\ c.tool \in Tools \cup {None}
  /\ TokenOK(c.access) /\ TokenOK(c.refresh)
  /\ c.step = "registering" => c.refresh = None

\* What is kept of a sign-in has been judged by the id token it came with.
Judged(tokens) ==
  "openid" \in config.scopes /\ AnyRule =>
    /\ tokens.idToken = tokens.account /\ tokens.idToken # None
    /\ config.tenant \in {"common", tokens.account}

Refused(a) == config.ownRule /\ refusedSince[a] # 0

EntryOK(k, e) ==
  /\ DOMAIN e = {"value", "sealedBy", "expiresAt"}
  /\ e.expiresAt \in Nat
  /\ Lasting => \A p \in Processes : e.sealedBy = SealedBy(p)
  /\ k[1] = "transaction" => /\ DOMAIN e.value = {"client", "scope", "consent"}
                             /\ e.value.scope \subseteq config.scopes
  /\ k[1] = "upstream" => e.value \in TokensOf(config) /\ Judged(e.value)
  /\ k[1] = "code" /\ e.value # None =>
       /\ e.value.tokens \in TokensOf(config) /\ Judged(e.value.tokens)
       /\ e.expiresAt <= now + CodeLifetime
       /\ "openid" \in config.scopes /\ Refused(e.value.tokens.account) =>
            e.expiresAt <= refusedSince[e.value.tokens.account] + CodeLifetime
  /\ k[1] = "access" => e.expiresAt <= now + AccessLifetime

Good(s) ==
  /\ IsFiniteSet(DOMAIN s)
  /\ \A k \in DOMAIN s : EntryOK(k, s[k])

UpstreamIn(s, k) == <<"upstream", s[k].value.upstream>>

AccessOK(s) ==
  \A k \in DOMAIN s :
    "openid" \in config.scopes /\ k[1] = "access" /\ UpstreamIn(s, k) \in DOMAIN s =>
      LET a == s[UpstreamIn(s, k)].value.account IN
        Refused(a) => s[k].expiresAt <= refusedSince[a] + CodeLifetime + AccessLifetime

\* An entry that stays at least as long as the token does.
Outlasts(s, k, token) == k \in DOMAIN s /\ s[k].expiresAt >= token.exp

Backed(s, kind, token) ==
  token # None /\ token.exp > now =>
    /\ Outlasts(s, <<kind, token.jti>>, token)
    /\ Outlasts(s, UpstreamIn(s, <<kind, token.jti>>), token)

Live(s, c, n) ==
  Lasting =>
    /\ Backed(s, "access", c.access)
    /\ n = 0 => Backed(s, "refresh", c.refresh)
    /\ c.refresh # None /\ c.refresh.exp > now /\ n = 0 /\ ClientLifetime >= RefreshLifetime =>
         Outlasts(s, <<"client", c.id>>, c.refresh)

SigningIn == {"authorizing", "registering", "consenting", "atProvider", "redeeming"}

\* What is due is among the scopes of the token's sign-in.
HeldBehind(s, kind, token, due) ==
  LET k == <<kind, token.jti>> IN
    token # None /\ k \in DOMAIN s /\ UpstreamIn(s, k) \in DOMAIN s =>
      due \subseteq s[UpstreamIn(s, k)].value.scope

(* What a step-up owes its client is asked for, then in the transaction, in the code, and at   *)
(* last behind the tokens.                                                                     *)
DueOK(s, c) ==
  /\ c.due \subseteq config.scopes
  /\ c.step \in SigningIn => c.due \subseteq Narrowed(c.asks)
  /\ c.step \in {"consenting", "atProvider"} /\ <<"transaction", c.ticket>> \in DOMAIN s =>
       c.due \subseteq s[<<"transaction", c.ticket>>].value.scope
  /\ c.step = "redeeming" /\ <<"code", c.ticket>> \in DOMAIN s
       /\ s[<<"code", c.ticket>>].value # None =>
       c.due \subseteq s[<<"code", c.ticket>>].value.tokens.scope
  /\ c.step \notin SigningIn => /\ HeldBehind(s, "access", c.access, c.due)
                                /\ HeldBehind(s, "refresh", c.refresh, c.due)

CountersOK ==
  /\ config \in Deployments
  /\ now \in 1..MaxTime
  /\ life \in [Processes -> 1..MaxLives]
  /\ closed \subseteq config.processes
  /\ refusedSince \in [Accounts -> 0..MaxTime]
  /\ calls \in 0..MaxCalls
  /\ faults \in 0..config.faults
  /\ ~config.ownRule => \A a \in Accounts : refusedSince[a] = 0

Inv ==
  /\ CountersOK /\ ClientOK(client) /\ Good(slots)
  /\ AccessOK(slots) /\ Live(slots, client, faults) /\ DueOK(slots, client)

-----------------------------------------------------------------------------
(* Deployments and keys.                                                   *)

LEMMA DeploymentFacts ==
  ASSUME config \in Deployments
  PROVE  /\ config.processes \subseteq Processes
         /\ config.accounts \subseteq Accounts
         /\ config.tenant \in Accounts \cup {"common"}
         /\ config.ownRule \in BOOLEAN
         /\ config.faults \in Nat
         /\ config.store \in {"own", "passed", "encrypted"}
         /\ config.encryptionKey \in {"set", "unset", "off"}
         /\ config.jwtSigningKey \in {"set", "unset"}
<1>1. Restrict(config, {"store", "encryptionKey", "jwtSigningKey", "processes"}) \in Wirings
  BY TokenStoreAssumption
<1>2. Restrict(config, {"scopes", "tenant", "ownRule", "provider", "withheld", "accounts", "tools",
                        "eager", "faults"}) \in Surroundings
  BY ProviderAssumption
<1>3. /\ config.processes \subseteq Processes
      /\ config.store \in {"own", "passed", "encrypted"}
      /\ config.encryptionKey \in {"set", "unset", "off"}
      /\ config.jwtSigningKey \in {"set", "unset"}
  BY <1>1 DEF Restrict, Wirings
<1>4. /\ config.accounts \subseteq Accounts
      /\ config.tenant \in Accounts \cup {"common"}
      /\ config.ownRule \in BOOLEAN
      /\ config.faults \in Nat
  BY <1>2 DEF Restrict, Surroundings
<1> QED
  BY <1>3, <1>4

LEMMA Lifetimes ==
  /\ AccessLifetime \in Nat /\ RefreshLifetime \in Nat /\ CodeLifetime \in Nat
  /\ TransactionLifetime \in Nat /\ ClientLifetime \in Nat /\ MaxTime \in Nat
BY ProviderAssumption, TokenStoreAssumption

\* Where tokens last, every process seals and signs with the same keys.
LEMMA OneSeal ==
  ASSUME config \in Deployments, Lasting, NEW p, NEW q
  PROVE  SealedBy(p) = SealedBy(q) /\ SigningKey(p) = SigningKey(q)
BY DeploymentFacts DEF Lasting, SealedBy, SigningKey

-----------------------------------------------------------------------------
(* The store's operations.                                                 *)

EntryFor(p, value, ttl) == [value |-> value, sealedBy |-> SealedBy(p), expiresAt |-> now + ttl]

LEMMA SavedFacts ==
  ASSUME NEW s, NEW p, NEW k, NEW value, NEW ttl
  PROVE  /\ k \in DOMAIN Saved(s, p, k, value, ttl)
         /\ Saved(s, p, k, value, ttl)[k] = EntryFor(p, value, ttl)
         /\ \A j \in DOMAIN s : j \in DOMAIN Saved(s, p, k, value, ttl)
         /\ \A j \in DOMAIN Saved(s, p, k, value, ttl) :
              j # k => j \in DOMAIN s /\ Saved(s, p, k, value, ttl)[j] = s[j]
BY DEF Saved, EntryFor

LEMMA WithoutFacts ==
  ASSUME NEW s, NEW keys
  PROVE  /\ DOMAIN Without(s, keys) = DOMAIN s \ keys
         /\ \A j \in DOMAIN s \ keys : Without(s, keys)[j] = s[j]
BY DEF Without, Restrict

LEMMA SavedGood ==
  ASSUME NEW s, Good(s), NEW p, NEW k, NEW value, NEW ttl, EntryOK(k, EntryFor(p, value, ttl))
  PROVE  Good(Saved(s, p, k, value, ttl))
<1> DEFINE t == Saved(s, p, k, value, ttl)
<1>1. /\ DOMAIN t = DOMAIN s \cup {k}
      /\ t[k] = EntryFor(p, value, ttl)
      /\ \A j \in DOMAIN s \ {k} : t[j] = s[j]
  BY DEF Saved, EntryFor
<1> HIDE DEF t
<1>2. IsFiniteSet(DOMAIN t)
  BY <1>1, FS_AddElement DEF Good
<1>3. Good(t)
  BY <1>1, <1>2 DEF Good
<1> QED
  BY <1>3 DEF t

LEMMA WithoutGood ==
  ASSUME NEW s, Good(s), NEW keys
  PROVE  Good(Without(s, keys))
<1> DEFINE t == Without(s, keys)
<1>1. DOMAIN t = DOMAIN s \ keys /\ \A j \in DOMAIN t : t[j] = s[j]
  BY WithoutFacts
<1> HIDE DEF t
<1>2. IsFiniteSet(DOMAIN t)
  BY <1>1, FS_Subset DEF Good
<1>3. Good(t)
  BY <1>1, <1>2 DEF Good
<1> QED
  BY <1>3 DEF t

(* Some id that is drawn is free: a key uses one id at most of each kind.                      *)
LEMMA DrawnUpstream ==
  ASSUME IsFiniteSet(DOMAIN slots),
         NEW k \in DOMAIN slots, k[1] \in {"access", "refresh"}
  PROVE  Value(k).upstream # Drawn("upstream")
<1> DEFINE n == Cardinality(DOMAIN slots) + 2
           ids == 1..n
           Uses(j, id) == IF j[1] \in {"access", "refresh"} THEN Value(j).upstream = id
                          ELSE j[2] = id /\ j[1] = "upstream"
           f == [id \in ids |-> CHOOSE j \in DOMAIN slots : Uses(j, id)]
<1>1. Cardinality(DOMAIN slots) \in Nat
  BY FS_CardinalityType
<1>2. IsFiniteSet(ids) /\ Cardinality(ids) = n
  BY <1>1, FS_Interval
<1>3. \A id \in InUse("upstream") : \E j \in DOMAIN slots : Uses(j, id)
  BY DEF InUse
<1>4. \E id \in ids : id \notin InUse("upstream")
  <2>1. SUFFICES ASSUME \A id \in ids : id \in InUse("upstream") PROVE FALSE
    OBVIOUS
  <2>2. \A id \in ids : f[id] \in DOMAIN slots /\ Uses(f[id], id)
    BY <1>3, <2>1
  <2>3. f \in [ids -> DOMAIN slots]
    BY <2>2
  <2> HIDE DEF f, ids
  <2>4. PICK x, y \in ids : x # y /\ f[x] = f[y]
    BY <1>1, <1>2, <2>3, FS_PigeonHole
  <2> QED
    BY <2>2, <2>4
<1>5. Drawn("upstream") \notin InUse("upstream")
  BY <1>4 DEF Drawn
<1>6. Value(k).upstream \in InUse("upstream")
  BY DEF InUse
<1> QED
  BY <1>5, <1>6

-----------------------------------------------------------------------------
(* What a step does to the parts of the invariant.                         *)

Still == config' = config /\ now' = now /\ life' = life /\ refusedSince' = refusedSince

\* A step that leaves the surroundings alone keeps what holds of its next store and client.
LEMMA PartsKept ==
  ASSUME Still
  PROVE  /\ Good(slots') => Good(slots)'
         /\ AccessOK(slots') => AccessOK(slots)'
         /\ Live(slots', client', faults') => Live(slots, client, faults)'
         /\ DueOK(slots', client') => DueOK(slots, client)'
<1>1. /\ Lasting' = Lasting
      /\ \A p : SealedBy(p)' = SealedBy(p)
      /\ \A a : Refused(a)' = Refused(a)
      /\ \A asked : Narrowed(asked)' = Narrowed(asked)
      /\ \A tokens : Judged(tokens)' = Judged(tokens)
      /\ TokensOf(config)' = TokensOf(config)
  BY DEF Still, Lasting, SealedBy, RandomKey, Refused, Narrowed, Judged, AnyRule, TokensOf
<1>2. ASSUME NEW k, NEW e, EntryOK(k, e) PROVE EntryOK(k, e)'
  BY <1>1, <1>2 DEF Still, EntryOK
<1>3. Good(slots') => Good(slots)'
  BY <1>2 DEF Good
<1>4. AccessOK(slots') => AccessOK(slots)'
  BY <1>1 DEF Still, AccessOK, UpstreamIn
<1>5. Live(slots', client', faults') => Live(slots, client, faults)'
  BY <1>1 DEF Still, Live, Backed, Outlasts, UpstreamIn
<1>6. DueOK(slots', client') => DueOK(slots, client)'
  BY <1>1 DEF Still, DueOK, HeldBehind, UpstreamIn
<1> QED
  BY <1>3, <1>4, <1>5, <1>6

UpstreamKey(key) == <<"upstream", key>>
NewKey(kind)     == <<kind, Drawn(kind)>>

\* t is s with what is kept of a sign-in, and maybe some of the token pair for it.
HasKept(s, t, tokens, key) ==
  /\ UpstreamKey(key) \in DOMAIN t
  /\ t[UpstreamKey(key)].value = tokens
  /\ t[UpstreamKey(key)].expiresAt >= now + AccessLifetime
  /\ \A k \in DOMAIN s : k \in DOMAIN t
  /\ \A k \in DOMAIN t :
       \/ k[1] = "client"
       \/ k = UpstreamKey(key)
       \/ k = NewKey("access") /\ t[k].value.upstream = key /\ t[k].expiresAt = now + AccessLifetime
       \/ k = NewKey("refresh") /\ t[k].value.upstream = key
       \/ k \in DOMAIN s /\ t[k] = s[k]

\* The whole pair is there.
HasPair(t, tokens, key) ==
  /\ NewKey("access") \in DOMAIN t
  /\ t[NewKey("access")].value.upstream = key
  /\ t[NewKey("access")].expiresAt = now + AccessLifetime
  /\ tokens.refreshes =>
       /\ NewKey("refresh") \in DOMAIN t
       /\ t[NewKey("refresh")].value.upstream = key
       /\ t[NewKey("refresh")].expiresAt = now + RefreshLifetime
       /\ t[UpstreamKey(key)].expiresAt >= now + RefreshLifetime

HasIssued(s, t, p, tokens, key, keeps) ==
  /\ HasKept(s, t, tokens, key)
  /\ HasPair(t, tokens, key)
  /\ keeps /\ Readable(p, ClientKey) =>
       /\ ClientKey \in DOMAIN t
       /\ t[ClientKey].expiresAt = now + ClientLifetime

LEMMA LongerLifetime ==
  LET longer == Max({AccessLifetime, RefreshLifetime}) IN
    longer \in Nat /\ longer >= AccessLifetime /\ longer >= RefreshLifetime
<1>1. \E x \in {AccessLifetime, RefreshLifetime} : \A y \in {AccessLifetime, RefreshLifetime} : x >= y
  BY Lifetimes
<1> QED
  BY <1>1, Lifetimes DEF Max

LEMMA SavesFacts ==
  ASSUME CountersOK, NEW s, Good(s), NEW p \in Processes, NEW tokens \in TokensOf(config),
         Judged(tokens), NEW key
  PROVE  /\ \A n \in 1..3 : /\ Good(Saves(s, p, tokens, key)[n])
                           /\ HasKept(s, Saves(s, p, tokens, key)[n], tokens, key)
         /\ HasPair(Saves(s, p, tokens, key)[3], tokens, key)
<1> DEFINE grant    == [client |-> client.id, upstream |-> key]
           lifetime == IF tokens.refreshes THEN Max({AccessLifetime, RefreshLifetime}) ELSE AccessLifetime
           kept     == Saved(s, p, UpstreamKey(key), tokens, lifetime)
           access   == Saved(kept, p, NewKey("access"), grant, AccessLifetime)
           both     == Saved(access, p, NewKey("refresh"), grant, RefreshLifetime)
<1>1. Saves(s, p, tokens, key) = <<kept, access, IF tokens.refreshes THEN both ELSE access>>
  BY DEF Saves, KeptUpstream, Granted, UpstreamKey, NewKey
<1>2. /\ lifetime \in Nat /\ lifetime >= AccessLifetime
      /\ tokens.refreshes => lifetime >= RefreshLifetime
      /\ now \in Nat
  BY LongerLifetime, Lifetimes DEF CountersOK
<1>3. /\ UpstreamKey(key)[1] = "upstream" /\ NewKey("access")[1] = "access"
      /\ NewKey("refresh")[1] = "refresh"
  BY DEF UpstreamKey, NewKey
<1>4. ASSUME NEW k, NEW value, NEW ttl \in Nat,
             k[1] \in {"upstream", "access", "refresh"},
             k[1] = "upstream" => value = tokens,
             k[1] = "access" => ttl = AccessLifetime
      PROVE  EntryOK(k, EntryFor(p, value, ttl))
  BY <1>2, <1>4, OneSeal DEF EntryOK, EntryFor, CountersOK
<1>5. grant.upstream = key
  OBVIOUS
<1> HIDE DEF lifetime, grant
<1>6. Good(kept)
  BY <1>2, <1>3, <1>4, SavedGood
<1>7. /\ UpstreamKey(key) \in DOMAIN kept
      /\ kept[UpstreamKey(key)] = EntryFor(p, tokens, lifetime)
      /\ \A k \in DOMAIN s : k \in DOMAIN kept
      /\ \A k \in DOMAIN kept : k # UpstreamKey(key) => k \in DOMAIN s /\ kept[k] = s[k]
  BY SavedFacts
<1> HIDE DEF kept
<1>8. Good(access)
  BY <1>3, <1>4, <1>6, SavedGood, Lifetimes
<1>9. /\ NewKey("access") \in DOMAIN access
      /\ access[NewKey("access")] = EntryFor(p, grant, AccessLifetime)
      /\ \A k \in DOMAIN kept : k \in DOMAIN access
      /\ \A k \in DOMAIN access : k # NewKey("access") => k \in DOMAIN kept /\ access[k] = kept[k]
  BY SavedFacts
<1> HIDE DEF access
<1>10. Good(both)
  BY <1>3, <1>4, <1>8, SavedGood, Lifetimes
<1>11. /\ NewKey("refresh") \in DOMAIN both
       /\ both[NewKey("refresh")] = EntryFor(p, grant, RefreshLifetime)
       /\ \A k \in DOMAIN access : k \in DOMAIN both
       /\ \A k \in DOMAIN both : k # NewKey("refresh") => k \in DOMAIN access /\ both[k] = access[k]
  BY SavedFacts
<1> HIDE DEF both
<1>12. \A value, ttl : /\ EntryFor(p, value, ttl).value = value
                       /\ EntryFor(p, value, ttl).expiresAt = now + ttl
  BY DEF EntryFor
<1>13. HasKept(s, kept, tokens, key)
  BY <1>2, <1>7, <1>12, Lifetimes DEF HasKept
<1>14. HasKept(s, access, tokens, key)
  BY <1>2, <1>3, <1>5, <1>7, <1>9, <1>12, Lifetimes DEF HasKept
<1>15. HasKept(s, both, tokens, key)
  <2>1. /\ UpstreamKey(key) \in DOMAIN both /\ both[UpstreamKey(key)] = access[UpstreamKey(key)]
    BY <1>3, <1>11, <1>14 DEF HasKept
  <2>2. \A k \in DOMAIN both : k # NewKey("refresh") => k \in DOMAIN access /\ both[k] = access[k]
    BY <1>11
  <2>3. both[NewKey("refresh")].value.upstream = key
    BY <1>5, <1>11, <1>12
  <2> QED
    BY <1>11, <1>14, <2>1, <2>2, <2>3 DEF HasKept
<1>16. HasPair(access, tokens, key) \/ tokens.refreshes
  BY <1>5, <1>9, <1>12 DEF HasPair
<1>17. tokens.refreshes => HasPair(both, tokens, key)
  <2>1. both[NewKey("access")] = access[NewKey("access")] /\ NewKey("access") \in DOMAIN both
    BY <1>3, <1>9, <1>11
  <2>2. both[UpstreamKey(key)] = EntryFor(p, tokens, lifetime)
    BY <1>3, <1>7, <1>9, <1>11
  <2> QED
    BY <1>2, <1>5, <1>9, <1>11, <1>12, <2>1, <2>2, Lifetimes DEF HasPair
<1> QED
  BY <1>1, <1>6, <1>8, <1>10, <1>13, <1>14, <1>15, <1>16, <1>17

LEMMA IssuedFacts ==
  ASSUME CountersOK, NEW s, Good(s), NEW p \in Processes, NEW tokens \in TokensOf(config),
         Judged(tokens), NEW key, NEW keeps \in BOOLEAN
  PROVE  /\ Good(Issued(s, p, tokens, key, keeps))
         /\ HasIssued(s, Issued(s, p, tokens, key, keeps), p, tokens, key, keeps)
<1> DEFINE pair == Saves(s, p, tokens, key)[3]
           more == Saved(pair, p, ClientKey, "registered", ClientLifetime)
<1>1. Issued(s, p, tokens, key, keeps) = IF keeps /\ Readable(p, ClientKey) THEN more ELSE pair
  BY DEF Issued, ClientKey
<1>2. Good(pair) /\ HasKept(s, pair, tokens, key) /\ HasPair(pair, tokens, key)
  BY SavesFacts
<1> HIDE DEF pair
<1>3. /\ ClientKey[1] = "client" /\ UpstreamKey(key)[1] = "upstream"
      /\ NewKey("access")[1] = "access" /\ NewKey("refresh")[1] = "refresh"
  BY DEF ClientKey, UpstreamKey, NewKey
<1>4. EntryOK(ClientKey, EntryFor(p, "registered", ClientLifetime))
  BY <1>3, Lifetimes, OneSeal DEF EntryOK, EntryFor, CountersOK
<1>5. Good(more)
  BY <1>2, <1>4, SavedGood
<1>6. /\ ClientKey \in DOMAIN more
      /\ more[ClientKey] = EntryFor(p, "registered", ClientLifetime)
      /\ \A k \in DOMAIN pair : k \in DOMAIN more
      /\ \A k \in DOMAIN more : k # ClientKey => k \in DOMAIN pair /\ more[k] = pair[k]
  BY SavedFacts
<1> HIDE DEF more
<1>7. HasKept(s, more, tokens, key)
  BY <1>2, <1>3, <1>6 DEF HasKept
<1>8. HasPair(more, tokens, key)
  <2>1. more[NewKey("access")] = pair[NewKey("access")] /\ NewKey("access") \in DOMAIN more
    BY <1>2, <1>3, <1>6 DEF HasPair
  <2>2. more[UpstreamKey(key)] = pair[UpstreamKey(key)]
    BY <1>2, <1>3, <1>6 DEF HasKept
  <2>3. tokens.refreshes => /\ more[NewKey("refresh")] = pair[NewKey("refresh")]
                            /\ NewKey("refresh") \in DOMAIN more
    BY <1>2, <1>3, <1>6 DEF HasPair
  <2> QED
    BY <1>2, <2>1, <2>2, <2>3 DEF HasPair
<1> QED
  BY <1>1, <1>2, <1>5, <1>6, <1>7, <1>8 DEF HasIssued, EntryFor

\* Access tokens stand for accounts nobody refuses, or soon expire.
LEMMA KeptAccess ==
  ASSUME CountersOK, NEW s, NEW t, AccessOK(s), NEW tokens \in TokensOf(config), NEW key,
         HasKept(s, t, tokens, key),
         \A k \in DOMAIN s :
           k[1] = "access" /\ s[k].value.upstream = key =>
             UpstreamKey(key) \in DOMAIN s /\ s[UpstreamKey(key)].value.account = tokens.account,
         "openid" \in config.scopes /\ Refused(tokens.account) =>
           now <= refusedSince[tokens.account] + CodeLifetime
  PROVE  AccessOK(t)
<1> SUFFICES ASSUME NEW k \in DOMAIN t, "openid" \in config.scopes, k[1] = "access",
                    UpstreamIn(t, k) \in DOMAIN t, Refused(t[UpstreamIn(t, k)].value.account)
             PROVE  t[k].expiresAt <= refusedSince[t[UpstreamIn(t, k)].value.account] + CodeLifetime + AccessLifetime
  BY DEF AccessOK
<1>1. now \in Nat /\ tokens.account \in Accounts /\ refusedSince \in [Accounts -> Nat]
  BY DEF CountersOK, TokensOf
<1>2. \/ t[k].value.upstream = key /\ t[k].expiresAt = now + AccessLifetime
      \/ k \in DOMAIN s /\ t[k] = s[k]
  BY DEF HasKept, UpstreamKey, NewKey
<1>3. CASE t[k].value.upstream = key /\ t[k].expiresAt = now + AccessLifetime
  <2>1. UpstreamIn(t, k) = UpstreamKey(key) /\ t[UpstreamIn(t, k)].value = tokens
    BY <1>3 DEF HasKept, UpstreamIn, UpstreamKey
  <2>2. now <= refusedSince[tokens.account] + CodeLifetime /\ refusedSince[tokens.account] \in Nat
    BY <1>1, <2>1
  <2> QED
    BY <1>1, <1>3, <2>1, <2>2, Lifetimes
<1>4. CASE k \in DOMAIN s /\ t[k] = s[k] /\ UpstreamIn(t, k) = UpstreamKey(key)
  <2>1. s[k].value.upstream = key /\ UpstreamIn(s, k) = UpstreamKey(key)
    BY <1>4 DEF UpstreamIn, UpstreamKey
  <2>2. UpstreamIn(s, k) \in DOMAIN s /\ s[UpstreamIn(s, k)].value.account = tokens.account
    BY <1>4, <2>1
  <2>3. t[UpstreamIn(t, k)].value.account = tokens.account
    BY <1>4 DEF HasKept
  <2> QED
    BY <1>4, <2>2, <2>3 DEF AccessOK
<1>5. CASE k \in DOMAIN s /\ t[k] = s[k] /\ UpstreamIn(t, k) # UpstreamKey(key)
  <2>1. UpstreamIn(t, k) \in DOMAIN s /\ t[UpstreamIn(t, k)] = s[UpstreamIn(t, k)]
    BY <1>5 DEF HasKept, UpstreamIn, NewKey
  <2>2. UpstreamIn(s, k) = UpstreamIn(t, k)
    BY <1>5 DEF UpstreamIn
  <2> QED
    BY <1>5, <2>1, <2>2 DEF AccessOK
<1> QED
  BY <1>2, <1>3, <1>4, <1>5

\* Whoever is issued tokens for an accepted sign-in loses nothing.
LEMMA IssuedKeeps ==
  ASSUME CountersOK, NEW s, NEW t, Good(t), AccessOK(s),
         NEW p \in Processes, NEW tokens \in TokensOf(config), NEW key, NEW keeps,
         HasIssued(s, t, p, tokens, key, keeps),
         \A k \in DOMAIN s :
           k[1] = "access" /\ s[k].value.upstream = key =>
             UpstreamKey(key) \in DOMAIN s /\ s[UpstreamKey(key)].value.account = tokens.account,
         "openid" \in config.scopes /\ Refused(tokens.account) =>
           now <= refusedSince[tokens.account] + CodeLifetime,
         NEW c, NEW n,
         c.access = Jwt(p, "access", AccessLifetime),
         c.refresh = IF tokens.refreshes THEN Jwt(p, "refresh", RefreshLifetime) ELSE None,
         c.id = client.id, c.step = "calling", c.due \subseteq tokens.scope,
         n = 0 /\ Lasting /\ ClientLifetime >= RefreshLifetime /\ tokens.refreshes =>
           keeps /\ Readable(p, ClientKey)
  PROVE  AccessOK(t) /\ Live(t, c, n) /\ DueOK(t, c)
<1>1. now \in Nat /\ tokens.account \in Accounts /\ refusedSince \in [Accounts -> Nat]
      /\ tokens.scope \subseteq config.scopes
  BY DEF CountersOK, TokensOf
<1>3. /\ c.access.jti = Drawn("access") /\ c.access.exp = now + AccessLifetime
      /\ tokens.refreshes => c.refresh.jti = Drawn("refresh") /\ c.refresh.exp = now + RefreshLifetime
      /\ ~tokens.refreshes => c.refresh = None
      /\ tokens.refreshes \in BOOLEAN
  BY DEF Jwt, TokensOf
<1>4. /\ <<"access", c.access.jti>> = NewKey("access")
      /\ tokens.refreshes => <<"refresh", c.refresh.jti>> = NewKey("refresh")
      /\ <<"client", c.id>> = ClientKey
  BY <1>3 DEF NewKey, ClientKey
<1>5. /\ UpstreamIn(t, NewKey("access")) = UpstreamKey(key)
      /\ tokens.refreshes => UpstreamIn(t, NewKey("refresh")) = UpstreamKey(key)
  BY DEF HasIssued, HasPair, UpstreamIn, UpstreamKey
<1>6. Live(t, c, n)
  BY <1>1, <1>3, <1>4, <1>5, Lifetimes DEF HasIssued, HasKept, HasPair, Live, Backed, Outlasts
<1>7. DueOK(t, c)
  BY <1>1, <1>3, <1>4, <1>5 DEF HasIssued, HasKept, DueOK, HeldBehind, SigningIn
<1>8. AccessOK(t)
  BY KeptAccess DEF HasIssued
<1> QED
  BY <1>6, <1>7, <1>8

\* t is s without entries that have lapsed, of sign-ins under way, and of a refresh token that
\* client c does not hold; and with other entries of sign-ins under way, or of clients without one.
Spared(s, t, c) ==
  /\ \A k \in DOMAIN t : k[1] \in {"access", "refresh", "upstream"} => k \in DOMAIN s /\ t[k] = s[k]
  /\ \A k \in DOMAIN s \ DOMAIN t :
       \/ Lapsed(s[k]) \/ k[1] \in {"transaction", "code"}
       \/ k[1] = "refresh" /\ c.refresh = None
  /\ c.refresh # None => \A k \in DOMAIN s \cap DOMAIN t : k[1] = "client" => t[k] = s[k]

\* d has c's tokens, or has dropped some.
Drops(c, d) ==
  /\ d.access \in {c.access, None}
  /\ d.refresh \in {c.refresh, None}
  /\ d.refresh # None => d.id = c.id

(* Steps that issue nothing: tokens and what stands behind them stay until they lapse or the   *)
(* client has dropped them.                                                                    *)
LEMMA GentleKeeps ==
  ASSUME CountersOK, NEW s, Good(s), NEW c, TokenOK(c.access), TokenOK(c.refresh),
         AccessOK(s), NEW n \in Nat, Live(s, c, n),
         NEW t, NEW d, Spared(s, t, d), Drops(c, d), NEW m \in Nat, m >= n
  PROVE  AccessOK(t) /\ Live(t, d, m)
<1>1. AccessOK(t)
  <2> SUFFICES ASSUME NEW k \in DOMAIN t, "openid" \in config.scopes, k[1] = "access",
                      UpstreamIn(t, k) \in DOMAIN t, Refused(t[UpstreamIn(t, k)].value.account)
               PROVE  t[k].expiresAt <= refusedSince[t[UpstreamIn(t, k)].value.account] + CodeLifetime + AccessLifetime
    BY DEF AccessOK
  <2>1. k \in DOMAIN s /\ t[k] = s[k]
    BY DEF Spared
  <2>2. UpstreamIn(t, k) \in DOMAIN s /\ t[UpstreamIn(t, k)] = s[UpstreamIn(t, k)]
    BY DEF Spared, UpstreamIn
  <2>3. UpstreamIn(s, k) = UpstreamIn(t, k)
    BY <2>1 DEF UpstreamIn
  <2> QED
    BY <2>1, <2>2, <2>3 DEF AccessOK
<1>2. ASSUME Lasting PROVE Live(t, d, m)
  <2>1. now \in Nat /\ \A k \in DOMAIN s : s[k].expiresAt \in Nat
    BY DEF CountersOK, Good, EntryOK
  \* What outlasts a token that works is still there.
  <2>2. ASSUME NEW token, NEW k, Outlasts(s, k, token), token.exp \in Nat, token.exp > now,
               k[1] \in {"access", "upstream"} \/ (k[1] \in {"refresh", "client"} /\ d.refresh # None)
        PROVE  Outlasts(t, k, token) /\ t[k] = s[k]
    <3>1. k \in DOMAIN s /\ ~Lapsed(s[k])
      BY <2>1, <2>2 DEF Outlasts, Lapsed
    <3>2. k \in DOMAIN t
      BY <2>2, <3>1 DEF Spared
    <3>3. t[k] = s[k]
      BY <2>2, <3>1, <3>2 DEF Spared
    <3> QED
      BY <2>2, <3>2, <3>3 DEF Outlasts
  <2>3. ASSUME NEW kind \in {"access", "refresh"}, NEW token, token # None, token.exp \in Nat,
               token.exp > now, Backed(s, kind, token), kind = "refresh" => d.refresh # None
        PROVE  Backed(t, kind, token)
    <3>1. Outlasts(t, <<kind, token.jti>>, token) /\ t[<<kind, token.jti>>] = s[<<kind, token.jti>>]
      BY <2>2, <2>3 DEF Backed
    <3>2. UpstreamIn(t, <<kind, token.jti>>) = UpstreamIn(s, <<kind, token.jti>>)
      BY <3>1 DEF UpstreamIn
    <3>3. Outlasts(s, UpstreamIn(s, <<kind, token.jti>>), token)
      BY <2>3 DEF Backed
    <3>4. UpstreamIn(s, <<kind, token.jti>>)[1] = "upstream"
      BY DEF UpstreamIn
    <3>5. Outlasts(t, UpstreamIn(s, <<kind, token.jti>>), token)
      BY <2>2, <2>3, <3>3, <3>4
    <3> QED
      BY <3>1, <3>2, <3>5 DEF Backed
  <2>4. Backed(t, "access", d.access)
    <3>1. CASE d.access = None \/ ~(d.access.exp > now)
      BY <3>1 DEF Backed
    <3>2. CASE d.access # None /\ d.access.exp > now
      <4>1. d.access = c.access /\ d.access.exp \in Nat
        BY <3>2 DEF Drops, TokenOK
      <4> QED
        BY <1>2, <2>3, <3>2, <4>1 DEF Live
    <3> QED
      BY <3>1, <3>2
  <2>5. CASE d.refresh = None \/ ~(d.refresh.exp > now)
    BY <2>4, <2>5 DEF Live, Backed
  <2>6. CASE d.refresh # None /\ d.refresh.exp > now
    <3>1. d.refresh = c.refresh /\ d.refresh.exp \in Nat /\ d.id = c.id
      BY <2>6 DEF Drops, TokenOK
    <3>2. m = 0 => Backed(t, "refresh", d.refresh)
      BY <1>2, <2>3, <2>6, <3>1 DEF Live
    <3>3. ASSUME m = 0, ClientLifetime >= RefreshLifetime
          PROVE  Outlasts(t, <<"client", d.id>>, d.refresh)
      <4>1. Outlasts(s, <<"client", d.id>>, d.refresh)
        BY <1>2, <2>6, <3>1, <3>3 DEF Live
      <4>2. <<"client", d.id>>[1] = "client"
        OBVIOUS
      <4> QED
        BY <2>2, <2>6, <3>1, <4>1, <4>2
    <3> QED
      BY <2>4, <3>2, <3>3 DEF Live
  <2> QED
    BY <2>5, <2>6
<1> QED
  BY <1>1, <1>2 DEF Live

LEMMA WithoutSpares ==
  ASSUME NEW s, Good(s), NEW keys, NEW c,
         \A k \in keys \cap DOMAIN s :
           \/ Lapsed(s[k]) \/ k[1] \in {"transaction", "code"}
           \/ k[1] = "refresh" /\ c.refresh = None
  PROVE  Good(Without(s, keys)) /\ Spared(s, Without(s, keys), c)
<1>1. Spared(s, Without(s, keys), c)
  BY DEF Spared, Without, Restrict
<1> QED
  BY <1>1, WithoutGood

LEMMA WithoutTwice ==
  ASSUME NEW s, NEW keys, NEW others
  PROVE  Without(Without(s, keys), others) = Without(s, keys \cup others)
<1>1. DOMAIN Without(s, keys) = DOMAIN s \ keys
  BY DEF Without, Restrict
<1> QED
  BY <1>1 DEF Without, Restrict

\* get forgets only what has lapsed, and take what is its own.
LEMMA VisitedSpares ==
  ASSUME Good(slots), NEW keys, NEW taken, NEW c,
         \A k \in taken :
           k[1] \in {"transaction", "code"} \/ (k[1] = "refresh" /\ c.refresh = None)
  PROVE  /\ Good(Visited(keys)) /\ Spared(slots, Visited(keys), c)
         /\ Good(Without(slots, taken)) /\ Spared(slots, Without(slots, taken), c)
         /\ Good(Without(Visited(keys), taken)) /\ Spared(slots, Without(Visited(keys), taken), c)
<1> DEFINE lapsed == {k \in keys \cap DOMAIN slots : Lapsed(slots[k])}
<1>1. Visited(keys) = Without(slots, lapsed)
  BY DEF Visited
<1>2. Without(Visited(keys), taken) = Without(slots, lapsed \cup taken)
  BY <1>1, WithoutTwice
<1>3. \A k \in lapsed : Lapsed(slots[k])
  OBVIOUS
<1> HIDE DEF lapsed
<1>4. Good(Without(slots, lapsed)) /\ Spared(slots, Without(slots, lapsed), c)
  BY <1>3, WithoutSpares
<1>5. Good(Without(slots, taken)) /\ Spared(slots, Without(slots, taken), c)
  BY WithoutSpares
<1>6. Good(Without(slots, lapsed \cup taken)) /\ Spared(slots, Without(slots, lapsed \cup taken), c)
  BY <1>3, WithoutSpares
<1> QED
  BY <1>1, <1>2, <1>4, <1>5, <1>6

LEMMA SameSpares == ASSUME NEW s, NEW c PROVE Spared(s, s, c)
BY DEF Spared

-----------------------------------------------------------------------------
(* What a step does to the client.                                         *)

\* A client that fails, starts over, forgets itself or has its grant refused.
LEMMA ClientGivesUp ==
  ASSUME Inv, GivesUp, NEW t
  PROVE  ClientOK(client') /\ Drops(client, client') /\ DueOK(t, client')
<1>1. ClientOK(client')
  BY DEF Inv, GivesUp, ClientOK, ClientFields, Steps
<1>2. Drops(client, client')
  BY DEF Inv, GivesUp, ClientOK, ClientFields, Drops
<1>3. client'.due = {}
  BY DEF Inv, GivesUp, ClientOK, ClientFields
<1> QED
  BY <1>1, <1>2, <1>3 DEF DueOK, HeldBehind

LEMMA ClientStartsOver ==
  ASSUME Inv, client.step \in SigningIn, StartsOver, NEW t
  PROVE  ClientOK(client') /\ Drops(client, client') /\ DueOK(t, client')
<1>1. /\ client'.step = "authorizing" /\ client'.due = client.due /\ client'.asks = client.asks
      /\ client'.access = client.access /\ client'.refresh = client.refresh /\ client'.id = client.id
      /\ client'.tool = client.tool /\ DOMAIN client' = DOMAIN client
  BY DEF Inv, StartsOver, ClientOK, ClientFields
<1>2. ClientOK(client')
  BY <1>1 DEF Inv, ClientOK, Steps
<1>3. Drops(client, client')
  BY <1>1 DEF Drops
<1>4. DueOK(t, client')
  BY <1>1 DEF Inv, DueOK, SigningIn
<1> QED
  BY <1>2, <1>3, <1>4

LEMMA ClientForgets ==
  ASSUME Inv, client.step \in SigningIn, client' = Forgets, NEW t
  PROVE  ClientOK(client') /\ Drops(client, client') /\ DueOK(t, client')
<1>1. /\ client'.step = "registering" /\ client'.due = client.due /\ client'.asks = client.asks
      /\ client'.access = None /\ client'.refresh = None
      /\ client'.tool = client.tool /\ DOMAIN client' = DOMAIN client
  BY DEF Inv, Forgets, ClientOK, ClientFields
<1>2. ClientOK(client')
  BY <1>1 DEF Inv, ClientOK, Steps, TokenOK
<1>3. Drops(client, client')
  BY <1>1 DEF Drops
<1>4. DueOK(t, client')
  BY <1>1 DEF Inv, DueOK, SigningIn
<1> QED
  BY <1>2, <1>3, <1>4

LEMMA ClientRefused ==
  ASSUME Inv, InvalidGrant, NEW t
  PROVE  ClientOK(client') /\ Drops(client, client') /\ DueOK(t, client') /\ client'.refresh = None
<1>1. /\ client'.step = "authorizing" /\ client'.due = {}
      /\ client'.access = None /\ client'.refresh = None
      /\ client'.tool = client.tool /\ DOMAIN client' = DOMAIN client
  BY DEF Inv, InvalidGrant, ClientOK, ClientFields
<1>2. ClientOK(client')
  BY <1>1 DEF Inv, ClientOK, Steps, TokenOK
<1>3. Drops(client, client')
  BY <1>1 DEF Drops
<1>4. DueOK(t, client')
  BY <1>1 DEF DueOK, HeldBehind
<1> QED
  BY <1>1, <1>2, <1>3, <1>4

LEMMA ClientChallenged ==
  ASSUME Inv, client.step = "calling", Challenged
  PROVE  ClientOK(client') /\ Drops(client, client') /\ DueOK(slots, client')
<1>1. CASE client.refresh # None
  <2>1. /\ client'.step = "refreshing" /\ client'.due = client.due
        /\ client'.access = client.access /\ client'.refresh = client.refresh /\ client'.id = client.id
        /\ client'.tool = client.tool /\ DOMAIN client' = DOMAIN client
    BY <1>1 DEF Inv, Challenged, ClientOK, ClientFields
  <2>2. ClientOK(client')
    BY <2>1 DEF Inv, ClientOK, Steps
  <2>3. DueOK(slots, client')
    BY <2>1 DEF Inv, DueOK, SigningIn
  <2> QED
    BY <2>1, <2>2, <2>3 DEF Drops
<1>2. CASE client.refresh = None
  <2>1. /\ client'.step \in {"registering", "authorizing"} /\ client'.due = {}
        /\ client'.access = None /\ client'.refresh = None
        /\ client'.tool = client.tool /\ DOMAIN client' = DOMAIN client
    BY <1>2 DEF Inv, Challenged, ClientOK, ClientFields
  <2>2. ClientOK(client')
    BY <2>1 DEF Inv, ClientOK, Steps, TokenOK
  <2>3. DueOK(slots, client')
    BY <2>1 DEF DueOK, HeldBehind
  <2> QED
    BY <2>1, <2>2, <2>3 DEF Drops
<1> QED
  BY <1>1, <1>2

LEMMA ClientSame ==
  ASSUME Inv, UNCHANGED client
  PROVE  ClientOK(client') /\ Drops(client, client') /\ DueOK(slots, client')
BY DEF Inv, Drops

-----------------------------------------------------------------------------
(* One lemma for each kind of step.                                        *)

LEMMA CountersKept ==
  ASSUME CountersOK, Still, closed' = closed, calls' \in 0..MaxCalls, faults' \in 0..config.faults
  PROVE  CountersOK'
BY DEF CountersOK, Still

\* A step that issues nothing.
LEMMA Closes ==
  ASSUME Inv, Still, closed' = closed, calls' \in 0..MaxCalls,
         faults' \in 0..config.faults, faults' >= faults,
         ClientOK(client'), Drops(client, client'), DueOK(slots', client'),
         Good(slots'), Spared(slots, slots', client')
  PROVE  Inv'
<1>1. CountersOK'
  BY CountersKept DEF Inv
<1>2. faults \in Nat /\ faults' \in Nat
  BY DeploymentFacts DEF Inv, CountersOK
<1>3. AccessOK(slots') /\ Live(slots', client', faults')
  BY <1>2, GentleKeeps DEF Inv, ClientOK
<1>4. ClientOK(client)'
  BY DEF ClientOK, TokenOK
<1> QED
  BY <1>1, <1>3, <1>4, PartsKept DEF Inv

\* After a fault nothing is claimed of the refresh token: the store may lose what is behind it.
Unrefreshed(c) == [c EXCEPT !.refresh = None]

LEMMA FaultyLive ==
  ASSUME Inv, NEW s, NEW c, ClientOK(c), Drops(client, c), Spared(slots, s, Unrefreshed(c))
  PROVE  AccessOK(s) /\ Live(s, c, faults + 1)
<1>1. Unrefreshed(c).access = c.access /\ Unrefreshed(c).refresh = None
  BY DEF ClientOK, ClientFields, Unrefreshed
<1>2. faults \in Nat
  BY DeploymentFacts DEF Inv, CountersOK
<1>3. Drops(client, Unrefreshed(c))
  BY <1>1 DEF Drops
<1>4. AccessOK(s) /\ Live(s, Unrefreshed(c), faults + 1)
  BY <1>2, <1>3, GentleKeeps DEF Inv, ClientOK
<1> QED
  BY <1>1, <1>2, <1>4 DEF Live

\* A faulty step that issues nothing.
LEMMA ClosesFaulty ==
  ASSUME Inv, Still, closed' = closed, UNCHANGED calls,
         faults < config.faults, faults' = faults + 1,
         ClientOK(client'), Drops(client, client'), DueOK(slots', client'),
         Good(slots'), Spared(slots, slots', Unrefreshed(client'))
  PROVE  Inv'
<1>1. faults' \in 0..config.faults /\ calls \in 0..MaxCalls
  BY DeploymentFacts DEF Inv, CountersOK
<1>2. CountersOK'
  BY <1>1, CountersKept DEF Inv
<1>3. AccessOK(slots') /\ Live(slots', client', faults')
  BY FaultyLive
<1>4. ClientOK(client)'
  BY DEF ClientOK, TokenOK
<1> QED
  BY <1>2, <1>3, <1>4, PartsKept DEF Inv

\* A faulty step that, from the store s, saves some of what it was to issue.
LEMMA ClosesHalfway ==
  ASSUME Inv, Still, closed' = closed, UNCHANGED calls,
         faults < config.faults, faults' = faults + 1,
         ClientOK(client'), client'.access = client.access, DueOK(slots', client'), Good(slots'),
         NEW s, Good(s), Spared(slots, s, Unrefreshed(client)),
         NEW tokens \in TokensOf(config), NEW key, HasKept(s, slots', tokens, key),
         \A k \in DOMAIN s :
           k[1] = "access" /\ s[k].value.upstream = key =>
             UpstreamKey(key) \in DOMAIN s /\ s[UpstreamKey(key)].value.account = tokens.account,
         "openid" \in config.scopes /\ Refused(tokens.account) =>
           now <= refusedSince[tokens.account] + CodeLifetime
  PROVE  Inv'
<1> DEFINE t     == slots'
           token == client.access
           k     == <<"access", token.jti>>
<1>1. faults' \in 0..config.faults /\ calls \in 0..MaxCalls /\ faults \in Nat /\ now \in Nat
  BY DeploymentFacts DEF Inv, CountersOK
<1>2. CountersOK'
  BY <1>1, CountersKept DEF Inv
<1>3. AccessOK(s) /\ Live(s, client, faults + 1)
  BY FaultyLive DEF Inv, Drops
<1>4. AccessOK(t)
  BY <1>3, KeptAccess DEF Inv
<1>5. ASSUME Lasting, token # None, token.exp > now
      PROVE  Outlasts(t, k, token) /\ Outlasts(t, UpstreamIn(t, k), token)
  <2>1. token.exp \in Nat /\ AccessLifetime \in Nat
    BY <1>5, Lifetimes DEF Inv, ClientOK, TokenOK
  <2>2. Outlasts(s, k, token) /\ Outlasts(s, UpstreamIn(s, k), token)
    BY <1>3, <1>5 DEF Live, Backed
  <2>3. s[k].expiresAt \in Nat /\ s[k].expiresAt <= now + AccessLifetime
    BY <2>2 DEF Outlasts, Good, EntryOK
  <2>4. token.exp <= now + AccessLifetime
    BY <1>1, <2>1, <2>2, <2>3 DEF Outlasts
  <2>5. Outlasts(t, UpstreamKey(key), token)
    <3>1. t[UpstreamKey(key)].expiresAt \in Nat
      BY DEF HasKept, Good, EntryOK
    <3> QED
      BY <1>1, <2>1, <2>4, <3>1 DEF HasKept, Outlasts
  <2>6. k \in DOMAIN t
    BY <2>2 DEF HasKept, Outlasts
  <2>7. \/ t[k].value.upstream = key /\ t[k].expiresAt = now + AccessLifetime
        \/ t[k] = s[k]
    BY <2>6 DEF HasKept, UpstreamKey, NewKey
  <2>8. CASE t[k].value.upstream = key /\ t[k].expiresAt = now + AccessLifetime
    <3>1. UpstreamIn(t, k) = UpstreamKey(key)
      BY <2>8 DEF UpstreamIn, UpstreamKey
    <3> QED
      BY <1>1, <2>1, <2>4, <2>5, <2>6, <2>8, <3>1 DEF Outlasts
  <2>9. CASE t[k] = s[k]
    <3>1. UpstreamIn(t, k) = UpstreamIn(s, k) /\ UpstreamIn(s, k)[1] = "upstream"
      BY <2>9 DEF UpstreamIn
    <3>2. UpstreamIn(s, k) \in DOMAIN t
      BY <2>2 DEF HasKept, Outlasts
    <3>3. UpstreamIn(s, k) = UpstreamKey(key) \/ t[UpstreamIn(s, k)] = s[UpstreamIn(s, k)]
      BY <3>1, <3>2 DEF HasKept, NewKey
    <3> QED
      BY <2>2, <2>5, <2>6, <2>9, <3>1, <3>2, <3>3 DEF Outlasts
  <2> QED
    BY <2>7, <2>8, <2>9
<1>6. Live(t, client', faults')
  BY <1>1, <1>5 DEF Live, Backed
<1>7. ClientOK(client)'
  BY DEF ClientOK, TokenOK
<1> QED
  BY <1>2, <1>4, <1>6, <1>7, PartsKept DEF Inv

\* What is due stays behind a token.
LEMMA KeptDue ==
  ASSUME NEW s, NEW t, NEW tokens, NEW key, HasKept(s, t, tokens, key),
         NEW kind \in {"access", "refresh"}, NEW token, NEW due, HeldBehind(s, kind, token, due),
         NEW left, left \subseteq due, left \subseteq tokens.scope
  PROVE  HeldBehind(t, kind, token, left)
<1> DEFINE k == <<kind, token.jti>>
<1> SUFFICES ASSUME token # None, k \in DOMAIN t, UpstreamIn(t, k) \in DOMAIN t
             PROVE  left \subseteq t[UpstreamIn(t, k)].value.scope
  BY DEF HeldBehind
<1>1. k[1] \in {"access", "refresh"} /\ UpstreamIn(t, k)[1] = "upstream"
  BY DEF UpstreamIn
<1>2. t[k].value.upstream = key \/ (k \in DOMAIN s /\ t[k] = s[k])
  BY <1>1 DEF HasKept, UpstreamKey
<1>3. CASE UpstreamIn(t, k) = UpstreamKey(key)
  BY <1>3 DEF HasKept
<1>4. CASE UpstreamIn(t, k) # UpstreamKey(key)
  <2>1. k \in DOMAIN s /\ UpstreamIn(s, k) = UpstreamIn(t, k)
    BY <1>2, <1>4 DEF UpstreamIn, UpstreamKey
  <2>2. UpstreamIn(t, k) \in DOMAIN s /\ t[UpstreamIn(t, k)] = s[UpstreamIn(t, k)]
    BY <1>1, <1>4 DEF HasKept, NewKey
  <2> QED
    BY <2>1, <2>2 DEF HeldBehind
<1> QED
  BY <1>3, <1>4

\* One that leaves the store alone as well.
LEMMA ClosesUnstored ==
  ASSUME Inv, UNCHANGED storeVars, UNCHANGED refusedSince, calls' \in 0..MaxCalls,
         faults' \in 0..config.faults, faults' >= faults,
         ClientOK(client'), Drops(client, client'), DueOK(slots, client')
  PROVE  Inv'
<1>1. Still /\ closed' = closed /\ slots' = slots
  BY DEF storeVars, Still
<1>2. Good(slots) /\ Spared(slots, slots, client')
  BY SameSpares DEF Inv
<1>3. Good(slots') /\ Spared(slots, slots', client') /\ DueOK(slots', client')
  BY <1>1, <1>2
<1> QED
  BY <1>1, <1>3, Closes

\* Counters that stay, and a fault more.
LEMMA CountersSame ==
  ASSUME Inv
  PROVE  /\ calls \in 0..MaxCalls
         /\ faults \in 0..config.faults /\ faults >= faults
         /\ faults < config.faults => faults + 1 \in 0..config.faults /\ faults + 1 >= faults
BY DeploymentFacts DEF Inv, CountersOK

LEMMA CallKeeps ==
  ASSUME Inv, NEW tool \in Tools, Call(tool)
  PROVE  Inv'
<1>1. /\ client'.step \in {"calling", "refreshing"} /\ client'.due = client.due
      /\ client'.access = client.access /\ client'.refresh = client.refresh /\ client'.id = client.id
      /\ client'.tool = tool /\ DOMAIN client' = DOMAIN client
  BY ProviderAssumption DEF Inv, Call, ClientOK, ClientFields
<1>2. ClientOK(client')
  BY <1>1 DEF Inv, ClientOK, Steps
<1>3. DueOK(slots, client')
  BY <1>1 DEF Inv, Call, DueOK, SigningIn
<1>4. calls' \in 0..MaxCalls
  BY ProviderAssumption DEF Inv, CountersOK, Call
<1> QED
  BY <1>1, <1>2, <1>3, <1>4, CountersSame, ClosesUnstored DEF Call, Drops

LEMMA ChallengedKeeps ==
  ASSUME Inv, NEW p \in Processes, Unauthenticated(p) \/ AuthenticationFails(p)
  PROVE  Inv'
BY CountersSame, ClientChallenged, ClosesUnstored DEF Unauthenticated, AuthenticationFails

LEMMA ServedKeeps ==
  ASSUME Inv, NEW p \in Processes, Served(p)
  PROVE  Inv'
<1>1. /\ client'.step = "idle" /\ client'.due = client.due
      /\ client'.access = client.access /\ client'.refresh = client.refresh /\ client'.id = client.id
      /\ client'.tool = client.tool /\ DOMAIN client' = DOMAIN client
  BY DEF Inv, Served, ClientOK, ClientFields
<1>2. ClientOK(client')
  BY <1>1 DEF Inv, ClientOK, Steps
<1>3. DueOK(slots, client')
  BY <1>1 DEF Inv, Served, DueOK, SigningIn
<1> QED
  BY <1>1, <1>2, <1>3, CountersSame, ClosesUnstored DEF Served, Drops

\* What a step-up owes is what it asks for.
LEMMA ForbiddenKeeps ==
  ASSUME Inv, NEW p \in Processes, Forbidden(p)
  PROVE  Inv'
<1>1. /\ client.step = "calling"
      /\ UNCHANGED storeVars /\ UNCHANGED refusedSince /\ UNCHANGED calls /\ UNCHANGED faults
  BY DEF Forbidden
<1>2. /\ client'.access = client.access /\ client'.refresh = client.refresh /\ client'.id = client.id
      /\ client'.tool = client.tool /\ DOMAIN client' = DOMAIN client
      /\ client'.step \in {"idle", "authorizing"}
  BY DEF Inv, Forbidden, ClientOK, ClientFields
<1>3. ClientOK(client')
  BY <1>2 DEF Inv, ClientOK, Steps
<1>4. CASE client'.step = "idle"
  <2>1. client'.due = client.due
    BY <1>4 DEF Inv, Forbidden, ClientOK, ClientFields
  <2>2. DueOK(slots, client')
    BY <1>1, <1>2, <1>4, <2>1 DEF Inv, DueOK, SigningIn
  <2> QED
    BY <1>1, <1>2, <1>3, <2>2, CountersSame, ClosesUnstored DEF Drops
<1>5. CASE client'.step = "authorizing"
  <2>1. client'.due = client'.asks \cap config.scopes
    BY <1>5 DEF Inv, Forbidden, ClientOK, ClientFields, ChallengeScope
  <2>2. client'.due \subseteq Narrowed(client'.asks)
    BY <2>1 DEF Narrowed
  <2>3. DueOK(slots, client')
    BY <1>5, <2>1, <2>2 DEF DueOK, SigningIn
  <2> QED
    BY <1>1, <1>2, <1>3, <2>3, CountersSame, ClosesUnstored DEF Drops
<1> QED
  BY <1>2, <1>4, <1>5

\* Entries of clients and of sign-ins under way may be saved at any time.
LEMMA SavedSpares ==
  ASSUME NEW s, Spared(slots, s, client'), Good(s), NEW p, NEW k, NEW value, NEW ttl,
         k[1] \in {"transaction", "code"} \/ (k[1] = "client" /\ client'.refresh = None)
  PROVE  Spared(slots, Saved(s, p, k, value, ttl), client')
BY DEF Spared, Saved

LEMMA RegisterKeeps ==
  ASSUME Inv, NEW p \in Processes, Register(p)
  PROVE  Inv'
<1> DEFINE k == <<"client", Drawn("client")>>
<1>1. /\ client'.step = "authorizing" /\ client'.due = client.due /\ client'.asks = client.asks
      /\ client'.access = client.access /\ client'.refresh = client.refresh
      /\ client'.tool = client.tool /\ DOMAIN client' = DOMAIN client
      /\ client.refresh = None
  BY DEF Inv, Register, ClientOK, ClientFields
<1>2. ClientOK(client') /\ Drops(client, client')
  BY <1>1 DEF Inv, ClientOK, Steps, Drops
<1>3. DueOK(slots', client')
  BY <1>1 DEF Inv, Register, DueOK, SigningIn
<1>4. slots' = Saved(slots, p, k, "registered", ClientLifetime)
  BY DEF Register
<1>5. EntryOK(k, EntryFor(p, "registered", ClientLifetime))
  BY Lifetimes, OneSeal DEF Inv, CountersOK, EntryOK, EntryFor
<1>6. Good(slots')
  BY <1>4, <1>5, SavedGood DEF Inv
<1>7. Spared(slots, slots', client')
  BY <1>1, <1>4, SameSpares, SavedSpares DEF Inv
<1>8. Still /\ closed' = closed /\ UNCHANGED calls /\ UNCHANGED faults
  BY DEF Register, World, Still
<1> QED
  BY <1>2, <1>3, <1>6, <1>7, <1>8, CountersSame, Closes

LEMMA AuthorizeKeeps ==
  ASSUME Inv, NEW p \in Processes, Authorize(p)
  PROVE  Inv'
<1> DEFINE k == <<"transaction", Drawn("transaction")>>
           request == [client |-> client.id, scope |-> Narrowed(client.asks), consent |-> FALSE]
<1>1. /\ client'.step = "consenting" /\ client'.due = client.due /\ client'.asks = client.asks
      /\ client'.access = client.access /\ client'.refresh = client.refresh /\ client'.id = client.id
      /\ client'.tool = client.tool /\ DOMAIN client' = DOMAIN client
      /\ client'.ticket = Drawn("transaction")
  BY DEF Inv, Authorize, ClientOK, ClientFields
<1>2. ClientOK(client') /\ Drops(client, client')
  BY <1>1 DEF Inv, ClientOK, Steps, Drops
<1>3. slots' = Saved(slots, p, k, request, TransactionLifetime)
  BY DEF Authorize
<1>4. EntryOK(k, EntryFor(p, request, TransactionLifetime))
  BY Lifetimes, OneSeal DEF Inv, CountersOK, EntryOK, EntryFor, Narrowed
<1>5. Good(slots')
  BY <1>3, <1>4, SavedGood DEF Inv
<1>6. Spared(slots, slots', client')
  BY <1>3, SameSpares, SavedSpares DEF Inv
<1>7. slots'[k].value.scope = Narrowed(client.asks)
  <2>1. slots'[k].value = request
    BY <1>3 DEF Saved
  <2> QED
    BY <2>1
<1>8. DueOK(slots', client')
  BY <1>1, <1>7 DEF Inv, Authorize, DueOK, SigningIn
<1>9. Still /\ closed' = closed /\ UNCHANGED calls /\ UNCHANGED faults
  BY DEF Authorize, World, Still
<1> QED
  BY <1>2, <1>5, <1>6, <1>8, <1>9, CountersSame, Closes

\* Requests that end without an answer for the client, or with an error.
LEMMA EndedKeeps ==
  ASSUME Inv, NEW p \in Processes,
         \/ AuthorizeUnknown(p) \/ Deny(p) \/ DecideExpired(p)
         \/ CallbackRejected(p) \/ CallbackExpired(p) \/ RedeemRefused(p)
  PROVE  Inv'
<1>1. Still /\ closed' = closed /\ UNCHANGED calls /\ UNCHANGED faults
  BY DEF AuthorizeUnknown, Deny, DecideExpired, CallbackRejected, CallbackExpired, RedeemRefused,
     World, Still
<1>2. ClientOK(client') /\ Drops(client, client') /\ DueOK(slots', client')
  BY ClientGivesUp, ClientStartsOver, ClientForgets
  DEF AuthorizeUnknown, Deny, DecideExpired, CallbackRejected, CallbackExpired, RedeemRefused, SigningIn
<1>3. /\ TransactionKey[1] \in {"transaction", "code"} /\ CodeKey[1] \in {"transaction", "code"}
      /\ Taken(TransactionKey) = Without(slots, {TransactionKey})
      /\ Taken(CodeKey) = Without(slots, {CodeKey})
  BY DEF TransactionKey, CodeKey, Taken
<1>4. Good(slots) /\ Spared(slots, slots, client')
  BY SameSpares DEF Inv
<1>5. \/ slots' = slots
      \/ \E keys : slots' = Visited(keys)
      \/ \E taken \in {{TransactionKey}, {CodeKey}} :
           slots' = Without(slots, taken) \/ \E keys : slots' = Without(Visited(keys), taken)
  BY <1>3 DEF AuthorizeUnknown, Deny, DecideExpired, CallbackRejected, CallbackExpired, RedeemRefused
<1>6. Good(slots') /\ Spared(slots, slots', client')
  BY <1>3, <1>4, <1>5, VisitedSpares
<1> QED
  BY <1>1, <1>2, <1>6, CountersSame, Closes

LEMMA ApproveKeeps ==
  ASSUME Inv, NEW p \in Processes, Approve(p)
  PROVE  Inv'
<1>1. /\ client'.step = "atProvider" /\ client'.due = client.due /\ client'.asks = client.asks
      /\ client'.access = client.access /\ client'.refresh = client.refresh /\ client'.id = client.id
      /\ client'.tool = client.tool /\ DOMAIN client' = DOMAIN client
      /\ client'.ticket = client.ticket /\ client.step = "consenting"
  BY DEF Inv, Approve, ClientOK, ClientFields
<1>2. ClientOK(client') /\ Drops(client, client')
  BY <1>1 DEF Inv, ClientOK, Steps, Drops
<1>3. /\ TransactionKey \in DOMAIN slots /\ TransactionKey[1] = "transaction"
      /\ slots' = [slots EXCEPT ![TransactionKey].value.consent = TRUE]
  BY DEF Approve, Readable, TransactionKey
<1> DEFINE k == TransactionKey
<1>4. /\ DOMAIN slots' = DOMAIN slots
      /\ \A j \in DOMAIN slots : j # k => slots'[j] = slots[j]
      /\ slots'[k] = [slots[k] EXCEPT !.value.consent = TRUE]
  BY <1>3
<1>5. EntryOK(k, slots[k])
  BY <1>3 DEF Inv, Good
<1>6. /\ DOMAIN slots'[k] = DOMAIN slots[k] /\ slots'[k].expiresAt = slots[k].expiresAt
      /\ slots'[k].sealedBy = slots[k].sealedBy
      /\ DOMAIN slots'[k].value = DOMAIN slots[k].value /\ slots'[k].value.scope = slots[k].value.scope
  BY <1>3, <1>4, <1>5 DEF EntryOK
<1>7. EntryOK(k, slots'[k])
  BY <1>3, <1>5, <1>6 DEF EntryOK
<1> HIDE DEF k
<1>8. Good(slots')
  BY <1>4, <1>7 DEF Inv, Good
<1>9. Spared(slots, slots', client')
  BY <1>3, <1>4 DEF Spared, k
<1>10. DueOK(slots', client')
  BY <1>1, <1>4, <1>6 DEF Inv, DueOK, SigningIn, k, TransactionKey
<1>11. Still /\ closed' = closed /\ UNCHANGED calls /\ UNCHANGED faults
  BY DEF Approve, World, Still
<1> QED
  BY <1>2, <1>8, <1>9, <1>10, <1>11, CountersSame, Closes

\* The account of a sign-in without an id token cannot be refused, where it is judged.
LEMMA AcceptedJudged ==
  ASSUME CountersOK, NEW a \in Accounts, NEW asked, asked \subseteq config.scopes,
         NEW tokens \in Tokens(a, asked)
  PROVE  /\ tokens \in TokensOf(config)
         /\ tokens.account = a /\ tokens.scope \subseteq asked
         /\ ~SignInRefused(tokens) =>
              /\ Judged(tokens)
              /\ "openid" \in config.scopes => ~Refused(a)
<1>1. PICK idToken \in {a, None}, scope \in {asked, asked \ config.withheld} :
        tokens = [account |-> a, idToken |-> idToken, scope |-> scope, refreshes |-> May("refreshes")]
  BY DEF Tokens
<1>2. tokens.account = a /\ tokens.scope \subseteq asked /\ tokens.idToken \in {a, None}
  BY <1>1
<1>3. tokens \in TokensOf(config)
  BY <1>1 DEF TokensOf, May
<1>4. ASSUME ~SignInRefused(tokens), "openid" \in config.scopes, AnyRule
      PROVE  tokens.idToken = a /\ tokens.idToken # None /\ Accepts(a)
  BY <1>2, <1>4 DEF SignInRefused
<1>5. ~SignInRefused(tokens) => Judged(tokens)
  BY <1>2, <1>4 DEF Judged, Accepts
<1>6. ~SignInRefused(tokens) /\ "openid" \in config.scopes => ~Refused(a)
  BY <1>4 DEF Refused, AnyRule, Accepts
<1> QED
  BY <1>2, <1>3, <1>5, <1>6

\* What is due is in the code when the provider has granted it.
LEMMA CallbackKeeps ==
  ASSUME Inv, NEW p \in Processes, NEW a \in config.accounts, Callback(p, a)
  PROVE  Inv'
<1> DEFINE asked == Value(TransactionKey).scope
           code  == Drawn("code")
           k     == <<"code", code>>
<1>1. /\ client.step = "atProvider" /\ TransactionKey \in DOMAIN slots
      /\ TransactionKey[1] \in {"transaction", "code"}
      /\ Taken(TransactionKey) = Without(slots, {TransactionKey})
  BY DEF Callback, Returns, Readable, TransactionKey, Taken
<1>2. PICK tokens \in Tokens(a, asked) :
        IF SignInRefused(tokens)
        THEN GivesUp /\ slots' = Taken(TransactionKey)
        ELSE /\ slots' = Saved(Taken(TransactionKey), p, k,
                               [client |-> client.id, tokens |-> tokens], CodeLifetime)
             /\ client' = [client EXCEPT !.step = "redeeming", !.ticket = code,
                                         !.due = @ \ (asked \ tokens.scope)]
  BY DEF Callback
<1>3. Still /\ closed' = closed /\ UNCHANGED calls /\ UNCHANGED faults
  BY DEF Callback, World, Still
<1>4. Good(Taken(TransactionKey)) /\ Spared(slots, Taken(TransactionKey), client')
  BY <1>1, VisitedSpares DEF Inv
<1>5. asked \subseteq config.scopes /\ client.due \subseteq asked
  BY <1>1 DEF Inv, Good, EntryOK, DueOK, TransactionKey, Value
<1>6. a \in Accounts
  BY DeploymentFacts DEF Inv, CountersOK
<1> HIDE DEF asked, code
<1>7. /\ tokens \in TokensOf(config) /\ tokens.account = a /\ tokens.scope \subseteq asked
      /\ ~SignInRefused(tokens) => /\ Judged(tokens)
                                   /\ "openid" \in config.scopes => ~Refused(a)
  BY <1>5, <1>6, AcceptedJudged DEF Inv
<1>8. CASE SignInRefused(tokens)
  <2>1. GivesUp /\ slots' = Taken(TransactionKey)
    BY <1>2, <1>8
  <2>2. ClientOK(client') /\ Drops(client, client') /\ DueOK(slots', client')
    BY <2>1, ClientGivesUp
  <2>3. Good(slots') /\ Spared(slots, slots', client')
    BY <1>4, <2>1
  <2> QED
    BY <1>3, <2>2, <2>3, CountersSame, Closes
<1>9. CASE ~SignInRefused(tokens)
  <2> DEFINE kept == [client |-> client.id, tokens |-> tokens]
  <2>1. slots' = Saved(Taken(TransactionKey), p, k, kept, CodeLifetime)
    BY <1>2, <1>9
  <2>2. client' = [client EXCEPT !.step = "redeeming", !.ticket = code,
                                 !.due = @ \ (asked \ tokens.scope)]
    BY <1>2, <1>9
  <2>3. /\ client'.step = "redeeming" /\ client'.due = client.due \ (asked \ tokens.scope)
        /\ client'.asks = client.asks
        /\ client'.access = client.access /\ client'.refresh = client.refresh /\ client'.id = client.id
        /\ client'.tool = client.tool /\ DOMAIN client' = DOMAIN client
        /\ client'.ticket = code
    BY <2>2 DEF Inv, ClientOK, ClientFields
  <2>4. ClientOK(client') /\ Drops(client, client')
    BY <2>3 DEF Inv, ClientOK, Steps, Drops
  <2>5. EntryOK(k, EntryFor(p, kept, CodeLifetime))
    BY <1>7, <1>9, Lifetimes, OneSeal DEF Inv, CountersOK, EntryOK, EntryFor
  <2>6. Good(slots')
    BY <1>4, <2>1, <2>5, SavedGood
  <2>7. Spared(slots, slots', client')
    BY <1>4, <2>1, SavedSpares
  <2>8. slots'[k].value.tokens = tokens
    <3>1. slots'[k].value = kept
      BY <2>1 DEF Saved
    <3> QED
      BY <3>1
  <2>9. client'.due \subseteq tokens.scope /\ client'.due \subseteq client.due
    BY <1>5, <2>3
  <2>10. DueOK(slots', client')
    BY <1>1, <2>3, <2>8, <2>9 DEF Inv, DueOK, SigningIn
  <2> QED
    BY <1>3, <2>4, <2>6, <2>7, <2>10, CountersSame, Closes
<1> QED
  BY <1>8, <1>9

\* A step that issues tokens.
LEMMA ClosesIssued ==
  ASSUME Inv, Still, closed' = closed, UNCHANGED calls, faults' \in 0..config.faults,
         Good(slots'), ClientOK(client'), AccessOK(slots'),
         Live(slots', client', faults'), DueOK(slots', client')
  PROVE  Inv'
<1>1. CountersOK'
  BY CountersKept, CountersSame DEF Inv
<1>2. ClientOK(client)'
  BY DEF ClientOK, TokenOK
<1> QED
  BY <1>1, <1>2, PartsKept DEF Inv

LEMMA HoldingClient ==
  ASSUME Inv, NEW p \in Processes, NEW tokens, NEW due,
         client' = [Holding(p, tokens) EXCEPT !.due = due]
  PROVE  /\ client'.step = "calling" /\ client'.due = due
         /\ client'.access = Jwt(p, "access", AccessLifetime)
         /\ client'.refresh = IF tokens.refreshes THEN Jwt(p, "refresh", RefreshLifetime) ELSE None
         /\ client'.id = client.id
         /\ ClientOK(client')
<1>1. /\ client'.step = "calling" /\ client'.due = due
      /\ client'.access = Jwt(p, "access", AccessLifetime)
      /\ client'.refresh = IF tokens.refreshes THEN Jwt(p, "refresh", RefreshLifetime) ELSE None
      /\ client'.id = client.id
      /\ client'.tool = client.tool /\ DOMAIN client' = DOMAIN client
  BY DEF Inv, ClientOK, ClientFields, Holding
<1>2. TokenOK(Jwt(p, "access", AccessLifetime)) /\ TokenOK(Jwt(p, "refresh", RefreshLifetime))
      /\ TokenOK(None)
  BY Lifetimes DEF Inv, CountersOK, TokenOK, Jwt
<1>3. ClientOK(client')
  BY <1>1, <1>2 DEF Inv, ClientOK, Steps
<1> QED
  BY <1>1, <1>3

\* The spent marker is a code that holds nothing.
LEMMA SpentFacts ==
  ASSUME Inv, CodeKey \in DOMAIN slots
  PROVE  /\ Good(Spent) /\ DOMAIN Spent = DOMAIN slots
         /\ \A k \in DOMAIN slots : k[1] # "code" => Spent[k] = slots[k]
         /\ Spent[CodeKey].value = None
<1> DEFINE k == CodeKey
<1>1. /\ DOMAIN Spent = DOMAIN slots
      /\ \A j \in DOMAIN slots : j # k => Spent[j] = slots[j]
      /\ Spent[k] = [slots[k] EXCEPT !.value = None]
      /\ k[1] = "code"
  BY DEF Spent, CodeKey
<1>2. EntryOK(k, slots[k])
  BY DEF Inv, Good
<1>3. /\ DOMAIN Spent[k] = DOMAIN slots[k] /\ Spent[k].expiresAt = slots[k].expiresAt
      /\ Spent[k].sealedBy = slots[k].sealedBy /\ Spent[k].value = None
  BY <1>1, <1>2 DEF EntryOK
<1>4. EntryOK(k, Spent[k])
  BY <1>1, <1>2, <1>3 DEF EntryOK
<1> HIDE DEF k
<1>5. Good(Spent)
  BY <1>1, <1>4 DEF Inv, Good
<1> QED
  BY <1>1, <1>3, <1>5 DEF k

\* What Keeps says of the client's registration.
LEMMA KeepsFacts ==
  ASSUME Inv, NEW keeps, Keeps(keeps)
  PROVE  /\ keeps \in BOOLEAN /\ faults' \in 0..config.faults
         /\ faults' = 0 => keeps
BY CountersSame, DeploymentFacts DEF Inv, CountersOK, Keeps

LEMMA RedeemKeeps ==
  ASSUME Inv, NEW p \in Processes, Redeem(p)
  PROVE  Inv'
<1> DEFINE tokens == Value(CodeKey).tokens
           key    == Drawn("upstream")
<1>1. /\ client.step = "redeeming" /\ Readable(p, ClientKey)
      /\ CodeKey \in DOMAIN slots /\ ~Lapsed(slots[CodeKey]) /\ Value(CodeKey) # None
  BY DEF Redeem, Redeemable, Readable
<1>2. PICK keeps \in BOOLEAN :
        /\ Keeps(keeps)
        /\ slots' = Issued(Spent, p, tokens, key, keeps)
        /\ client' = Holding(p, tokens)
  BY DEF Redeem
<1>3. Still /\ closed' = closed /\ UNCHANGED calls
  BY DEF Redeem, World, Still
<1>4. /\ tokens \in TokensOf(config) /\ Judged(tokens)
      /\ slots[CodeKey].expiresAt \in Nat
      /\ "openid" \in config.scopes /\ Refused(tokens.account) =>
           slots[CodeKey].expiresAt <= refusedSince[tokens.account] + CodeLifetime
  BY <1>1 DEF Inv, Good, EntryOK, CodeKey, Value
<1>5. client.due \subseteq tokens.scope
  BY <1>1 DEF Inv, DueOK, CodeKey, Value
<1>6. /\ Good(Spent) /\ DOMAIN Spent = DOMAIN slots
      /\ \A k \in DOMAIN slots : k[1] # "code" => Spent[k] = slots[k]
  BY <1>1, SpentFacts
<1>7. AccessOK(Spent)
  BY <1>6 DEF Inv, AccessOK, UpstreamIn
<1>8. ASSUME NEW k \in DOMAIN Spent, k[1] = "access" PROVE Spent[k].value.upstream # key
  BY <1>6, <1>8, DrawnUpstream DEF Inv, Good, Value
<1>9. now <= slots[CodeKey].expiresAt
  BY <1>1, <1>4 DEF Lapsed, Inv, CountersOK
<1>10. tokens.account \in Accounts
  BY <1>4 DEF TokensOf
<1> HIDE DEF tokens, key
<1>11. Good(slots') /\ HasIssued(Spent, slots', p, tokens, key, keeps)
  BY <1>2, <1>4, <1>6, IssuedFacts DEF Inv
<1>12. client' = [Holding(p, tokens) EXCEPT !.due = client.due]
  BY <1>2 DEF Inv, ClientOK, ClientFields, Holding
<1>13. /\ client'.step = "calling" /\ client'.due = client.due
       /\ client'.access = Jwt(p, "access", AccessLifetime)
       /\ client'.refresh = IF tokens.refreshes THEN Jwt(p, "refresh", RefreshLifetime) ELSE None
       /\ client'.id = client.id
       /\ ClientOK(client')
  BY <1>12, HoldingClient
<1>14. "openid" \in config.scopes /\ Refused(tokens.account) =>
         now <= refusedSince[tokens.account] + CodeLifetime
  BY <1>4, <1>9, <1>10, Lifetimes DEF Inv, CountersOK
<1>15. keeps \in BOOLEAN /\ faults' \in 0..config.faults /\ (faults' = 0 => keeps)
  BY <1>2, KeepsFacts
<1>16. AccessOK(slots') /\ Live(slots', client', faults') /\ DueOK(slots', client')
  BY <1>1, <1>4, <1>5, <1>7, <1>8, <1>11, <1>13, <1>14, <1>15, IssuedKeeps DEF Inv
<1> QED
  BY <1>3, <1>11, <1>13, <1>15, <1>16, ClosesIssued

\* What a refresh leaves out stays as it was judged.
LEMMA MergedJudged ==
  ASSUME CountersOK, NEW current \in TokensOf(config), Judged(current),
         NEW fresh \in Tokens(current.account, current.scope)
  PROVE  LET tokens == Merged(fresh, current) IN
         /\ tokens \in TokensOf(config) /\ tokens.account = current.account
         /\ Judged(tokens)
         /\ ~RefreshRefused(tokens) /\ "openid" \in config.scopes => ~Refused(tokens.account)
<1> DEFINE tokens == Merged(fresh, current)
<1>1. /\ current.account \in Accounts /\ current.idToken \in Accounts \cup {None}
      /\ current.scope \subseteq config.scopes
  BY DEF TokensOf
<1>2. PICK idToken \in {current.account, None}, scope \in {current.scope, current.scope \ config.withheld} :
        fresh = [account |-> current.account, idToken |-> idToken, scope |-> scope,
                 refreshes |-> May("refreshes")]
  BY DEF Tokens
<1>3. tokens = [account |-> current.account,
                idToken |-> IF idToken = None THEN current.idToken ELSE idToken,
                scope |-> scope, refreshes |-> May("refreshes")]
  BY <1>2 DEF Merged
<1>4. tokens \in TokensOf(config) /\ tokens.account = current.account
  BY <1>1, <1>3 DEF TokensOf, May
<1>5. Judged(tokens)
  BY <1>3 DEF Judged
<1>6. ASSUME ~RefreshRefused(tokens), "openid" \in config.scopes, Refused(tokens.account)
      PROVE  FALSE
  <2>1. AnyRule /\ tokens.idToken = tokens.account /\ tokens.idToken # None
    BY <1>5, <1>6 DEF Judged, Refused, AnyRule
  <2>2. Accepts(tokens.account)
    BY <1>6, <2>1 DEF RefreshRefused
  <2> QED
    BY <1>6, <2>2 DEF Accepts, Refused
<1> QED
  BY <1>4, <1>5, <1>6

LEMMA RefreshKeeps ==
  ASSUME Inv, NEW p \in Processes, Refresh(p)
  PROVE  Inv'
<1> DEFINE key     == Value(RefreshKey).upstream
           current == Value(Upstream(RefreshKey))
<1>1. /\ client.step = "refreshing"
      /\ client.refresh # None /\ client.refresh.exp > now
      /\ RefreshKey \in DOMAIN slots /\ RefreshKey[1] = "refresh"
      /\ Upstream(RefreshKey) = UpstreamKey(key) /\ UpstreamKey(key) \in DOMAIN slots
      /\ UpstreamKey(key)[1] = "upstream"
      /\ current = slots[UpstreamKey(key)].value
  BY DEF Refresh, Claims, Verifies, Readable, RefreshKey, Upstream, UpstreamKey, Value
<1>2. PICK fresh \in Tokens(current.account, current.scope), keeps \in BOOLEAN :
        LET tokens == Merged(fresh, current) IN
          IF RefreshRefused(tokens)
          THEN keeps /\ slots' = Claimed /\ InvalidGrant /\ UNCHANGED faults
          ELSE /\ Keeps(keeps)
               /\ slots' = Issued(Claimed, p, tokens, key, keeps)
               /\ client' = [Holding(p, tokens) EXCEPT !.due = @ \ (current.scope \ tokens.scope)]
  BY DEF Refresh
<1>3. Still /\ closed' = closed /\ UNCHANGED calls
  BY DEF Refresh, World, Still
<1>4. current \in TokensOf(config) /\ Judged(current)
  BY <1>1 DEF Inv, Good, EntryOK
<1> DEFINE tokens == Merged(fresh, current)
<1>5. Claimed = Without(slots, {RefreshKey})
  BY DEF Claimed, Taken
<1>6. CASE RefreshRefused(tokens)
  <2>1. InvalidGrant /\ slots' = Claimed /\ UNCHANGED faults
    BY <1>2, <1>6
  <2>2. ClientOK(client') /\ Drops(client, client') /\ DueOK(slots', client') /\ client'.refresh = None
    BY <2>1, ClientRefused
  <2>3. Good(slots') /\ Spared(slots, slots', client')
    BY <1>1, <1>5, <2>1, <2>2, VisitedSpares DEF Inv
  <2> QED
    BY <1>3, <2>1, <2>2, <2>3, CountersSame, Closes
<1>7. CASE ~RefreshRefused(tokens)
  <2>1. /\ Keeps(keeps)
        /\ slots' = Issued(Claimed, p, tokens, key, keeps)
        /\ client' = [Holding(p, tokens) EXCEPT !.due = @ \ (current.scope \ tokens.scope)]
    BY <1>2, <1>7
  <2>2. /\ tokens \in TokensOf(config) /\ Judged(tokens) /\ tokens.account = current.account
        /\ "openid" \in config.scopes => ~Refused(tokens.account)
    BY <1>4, <1>7, MergedJudged DEF Inv
  <2>3. client.due \subseteq current.scope
    BY <1>1 DEF Inv, DueOK, HeldBehind, SigningIn, RefreshKey, UpstreamIn, UpstreamKey, Value
  <2>4. /\ Good(Claimed) /\ DOMAIN Claimed = DOMAIN slots \ {RefreshKey}
        /\ \A k \in DOMAIN Claimed : Claimed[k] = slots[k]
    BY <1>5, WithoutGood DEF Inv, Without, Restrict
  <2>5. AccessOK(Claimed)
    BY <2>4 DEF Inv, AccessOK, UpstreamIn
  <2>6. /\ UpstreamKey(key) \in DOMAIN Claimed
        /\ Claimed[UpstreamKey(key)].value.account = tokens.account
    BY <1>1, <2>2, <2>4
  <2> HIDE DEF tokens, key, current
  <2>7. Good(slots') /\ HasIssued(Claimed, slots', p, tokens, key, keeps)
    BY <2>1, <2>2, <2>4, IssuedFacts DEF Inv
  <2> DEFINE due == client.due \ (current.scope \ tokens.scope)
  <2>8. client' = [Holding(p, tokens) EXCEPT !.due = due]
    BY <2>1 DEF Inv, ClientOK, ClientFields, Holding
  <2>9. due \subseteq tokens.scope
    BY <2>3
  <2> HIDE DEF due
  <2>10. /\ client'.step = "calling" /\ client'.due = due
         /\ client'.access = Jwt(p, "access", AccessLifetime)
         /\ client'.refresh = IF tokens.refreshes THEN Jwt(p, "refresh", RefreshLifetime) ELSE None
         /\ client'.id = client.id
         /\ ClientOK(client')
    BY <2>8, HoldingClient
  <2>11. keeps \in BOOLEAN /\ faults' \in 0..config.faults /\ (faults' = 0 => keeps)
         /\ (faults' = 0 => faults = 0)
    BY <2>1, KeepsFacts, DeploymentFacts DEF Keeps, Inv, CountersOK
  <2>12. faults' = 0 /\ Lasting /\ ClientLifetime >= RefreshLifetime => Readable(p, ClientKey)
    <3>1. SUFFICES ASSUME faults' = 0, Lasting, ClientLifetime >= RefreshLifetime
                   PROVE  Readable(p, ClientKey)
      OBVIOUS
    <3>2. ClientKey \in DOMAIN slots /\ slots[ClientKey].expiresAt >= client.refresh.exp
      BY <1>1, <2>11, <3>1 DEF Inv, Live, Outlasts, ClientKey
    <3>3. EntryOK(ClientKey, slots[ClientKey]) /\ TokenOK(client.refresh)
      BY <3>2 DEF Inv, Good, ClientOK
    <3> QED
      BY <1>1, <3>1, <3>2, <3>3 DEF EntryOK, TokenOK, Readable, Lapsed, Inv, CountersOK
  <2>13. AccessOK(slots') /\ Live(slots', client', faults') /\ DueOK(slots', client')
    BY <2>2, <2>5, <2>6, <2>7, <2>9, <2>10, <2>11, <2>12, IssuedKeeps DEF Inv
  <2> QED
    BY <1>3, <2>7, <2>10, <2>11, <2>13, ClosesIssued
<1> QED
  BY <1>6, <1>7

LEMMA RefreshInvalidKeeps ==
  ASSUME Inv, NEW p \in Processes, RefreshInvalid(p)
  PROVE  Inv'
<1>1. Still /\ closed' = closed /\ UNCHANGED calls /\ UNCHANGED faults
  BY DEF RefreshInvalid, World, Still
<1>2. ClientOK(client') /\ Drops(client, client') /\ DueOK(slots', client') /\ client'.refresh = None
  BY ClientRefused DEF RefreshInvalid
<1>3. RefreshKey[1] = "refresh" /\ Claimed = Without(slots, {RefreshKey})
  BY DEF RefreshKey, Claimed, Taken
<1>4. slots' \in {slots, Claimed}
  BY DEF RefreshInvalid
<1>5. Good(slots') /\ Spared(slots, slots', client')
  BY <1>2, <1>3, <1>4, SameSpares, VisitedSpares DEF Inv
<1> QED
  BY <1>1, <1>2, <1>5, CountersSame, Closes

\* Whether the token was put back or is lost.
LEMMA LeftFacts ==
  ASSUME Inv, NEW left \in PutBackOrLost, NEW c, ClientOK(c)
  PROVE  /\ Good(left) /\ Spared(slots, left, Unrefreshed(c))
         /\ \A k \in DOMAIN left : k \in DOMAIN slots /\ left[k] = slots[k]
         /\ \A k \in DOMAIN slots : k[1] # "refresh" => k \in DOMAIN left
<1>1. RefreshKey[1] = "refresh" /\ Claimed = Without(slots, {RefreshKey})
  BY DEF RefreshKey, Claimed, Taken
<1>2. Unrefreshed(c).refresh = None
  BY DEF ClientOK, ClientFields, Unrefreshed
<1>3. Good(left) /\ Spared(slots, left, Unrefreshed(c))
  BY <1>1, <1>2, SameSpares, VisitedSpares DEF Inv, PutBackOrLost
<1>4. /\ DOMAIN Claimed = DOMAIN slots \ {RefreshKey}
      /\ \A k \in DOMAIN Claimed : Claimed[k] = slots[k]
  BY <1>1 DEF Without, Restrict
<1>5. left = slots \/ left = Claimed
  BY DEF PutBackOrLost
<1> QED
  BY <1>1, <1>3, <1>4, <1>5

LEMMA RefreshFailsKeeps ==
  ASSUME Inv, NEW p \in Processes, RefreshFails(p)
  PROVE  Inv'
<1>1. /\ Still /\ closed' = closed /\ UNCHANGED calls /\ client.step = "refreshing"
      /\ faults < config.faults /\ faults' = faults + 1 /\ slots' \in PutBackOrLost
  BY DEF RefreshFails, World, Still
<1>2. ClientOK(client') /\ Drops(client, client') /\ DueOK(slots, client')
  BY ClientRefused, ClientSame DEF RefreshFails
<1>3. /\ Good(slots') /\ Spared(slots, slots', Unrefreshed(client'))
      /\ \A k \in DOMAIN slots' : k \in DOMAIN slots /\ slots'[k] = slots[k]
  BY <1>1, <1>2, LeftFacts
<1>4. DueOK(slots', client')
  BY <1>2, <1>3 DEF DueOK, HeldBehind, UpstreamIn
<1> QED
  BY <1>1, <1>2, <1>3, <1>4, ClosesFaulty

\* A refresh that breaks off costs the client its refresh token at most.
LEMMA RefreshBreaksOffKeeps ==
  ASSUME Inv, NEW p \in Processes, RefreshBreaksOff(p)
  PROVE  Inv'
<1> DEFINE key     == Value(RefreshKey).upstream
           current == Value(Upstream(RefreshKey))
<1>1. /\ Still /\ closed' = closed /\ UNCHANGED calls /\ client.step = "refreshing"
      /\ faults < config.faults /\ faults' = faults + 1
      /\ client.refresh # None /\ RefreshKey \in DOMAIN slots
  BY DEF RefreshBreaksOff, Claims, Verifies, Readable, World, Still
<1>2. PICK left \in PutBackOrLost :
        \/ slots' = left /\ UNCHANGED client
        \/ /\ Readable(p, Upstream(RefreshKey))
           /\ \E fresh \in Tokens(current.account, current.scope), n \in 1..3 :
                LET tokens == Merged(fresh, current) IN
                  /\ ~RefreshRefused(tokens)
                  /\ slots' = Saves(left, p, tokens, key)[n]
                  /\ client' = [client EXCEPT !.due = @ \ (current.scope \ tokens.scope)]
  BY DEF RefreshBreaksOff
<1>3. /\ Good(left) /\ Spared(slots, left, Unrefreshed(client))
      /\ \A k \in DOMAIN left : k \in DOMAIN slots /\ left[k] = slots[k]
      /\ \A k \in DOMAIN slots : k[1] # "refresh" => k \in DOMAIN left
  BY LeftFacts DEF Inv
<1>4. CASE slots' = left /\ UNCHANGED client
  <2>1. ClientOK(client') /\ Drops(client, client') /\ DueOK(slots, client')
    BY <1>4, ClientSame
  <2>2. DueOK(slots', client')
    BY <1>3, <1>4, <2>1 DEF DueOK, HeldBehind, UpstreamIn
  <2> QED
    BY <1>1, <1>3, <1>4, <2>1, <2>2, ClosesFaulty
<1>5. CASE /\ Readable(p, Upstream(RefreshKey))
           /\ \E fresh \in Tokens(current.account, current.scope), n \in 1..3 :
                LET tokens == Merged(fresh, current) IN
                  /\ ~RefreshRefused(tokens)
                  /\ slots' = Saves(left, p, tokens, key)[n]
                  /\ client' = [client EXCEPT !.due = @ \ (current.scope \ tokens.scope)]
  <2>1. PICK fresh \in Tokens(current.account, current.scope), n \in 1..3 :
          /\ ~RefreshRefused(Merged(fresh, current))
          /\ slots' = Saves(left, p, Merged(fresh, current), key)[n]
          /\ client' = [client EXCEPT !.due = @ \ (current.scope \ Merged(fresh, current).scope)]
    BY <1>5
  <2> DEFINE tokens == Merged(fresh, current)
             due    == client.due \ (current.scope \ tokens.scope)
  <2>2. /\ Upstream(RefreshKey) = UpstreamKey(key) /\ UpstreamKey(key) \in DOMAIN slots
        /\ UpstreamKey(key)[1] = "upstream"
        /\ current = slots[UpstreamKey(key)].value
    BY <1>5 DEF Readable, Upstream, UpstreamKey, Value
  <2>3. current \in TokensOf(config) /\ Judged(current)
    BY <2>2 DEF Inv, Good, EntryOK
  <2>4. /\ tokens \in TokensOf(config) /\ Judged(tokens) /\ tokens.account = current.account
        /\ "openid" \in config.scopes => ~Refused(tokens.account)
    BY <2>1, <2>3, MergedJudged DEF Inv
  <2>5. client.due \subseteq current.scope
    BY <1>1, <2>2 DEF Inv, DueOK, HeldBehind, SigningIn, RefreshKey, UpstreamIn, UpstreamKey, Value
  <2>6. due \subseteq client.due /\ due \subseteq tokens.scope
    BY <2>5
  <2>7. /\ UpstreamKey(key) \in DOMAIN left
        /\ left[UpstreamKey(key)].value.account = tokens.account
    BY <1>3, <2>2, <2>4
  <2>8. /\ client'.step = client.step /\ client'.due = due
        /\ client'.access = client.access /\ client'.refresh = client.refresh
        /\ client'.tool = client.tool /\ DOMAIN client' = DOMAIN client
    BY <2>1 DEF Inv, ClientOK, ClientFields
  <2> HIDE DEF tokens, due, key, current
  <2>9. ClientOK(client')
    BY <2>8 DEF Inv, ClientOK
  <2>10. slots' = Saves(left, p, tokens, key)[n]
    BY <2>1 DEF tokens, key, current
  <2>11. Good(slots') /\ HasKept(left, slots', tokens, key)
    BY <1>3, <2>4, <2>10, SavesFacts DEF Inv
  <2>12. /\ HeldBehind(left, "access", client.access, client.due)
         /\ HeldBehind(left, "refresh", client.refresh, client.due)
    BY <1>1, <1>3 DEF Inv, DueOK, HeldBehind, SigningIn, UpstreamIn
  <2>13. /\ HeldBehind(slots', "access", client.access, due)
         /\ HeldBehind(slots', "refresh", client.refresh, due)
    BY <2>6, <2>11, <2>12, KeptDue
  <2>14. due \subseteq config.scopes
    BY <2>6 DEF Inv, DueOK
  <2>15. DueOK(slots', client')
    BY <1>1, <2>8, <2>13, <2>14 DEF DueOK, SigningIn
  <2> QED
    BY <1>1, <1>3, <2>4, <2>7, <2>8, <2>9, <2>11, <2>15, ClosesHalfway
<1> QED
  BY <1>2, <1>4, <1>5

\* A redemption that breaks off leaves grants nobody holds.
LEMMA RedeemBreaksOffKeeps ==
  ASSUME Inv, NEW p \in Processes, RedeemBreaksOff(p)
  PROVE  Inv'
<1> DEFINE tokens == Value(CodeKey).tokens
           key    == Drawn("upstream")
<1>1. /\ Still /\ closed' = closed /\ UNCHANGED calls /\ UNCHANGED client
      /\ client.step = "redeeming"
      /\ faults < config.faults /\ faults' = faults + 1
      /\ CodeKey \in DOMAIN slots /\ ~Lapsed(slots[CodeKey]) /\ Value(CodeKey) # None
  BY DEF RedeemBreaksOff, Redeemable, Readable, World, Still
<1>2. \/ slots' \in {Taken(CodeKey), Spent}
      \/ \E n \in 1..3 : slots' = Saves(Spent, p, tokens, key)[n]
  BY DEF RedeemBreaksOff
<1>3. /\ Good(Spent) /\ DOMAIN Spent = DOMAIN slots
      /\ \A k \in DOMAIN slots : k[1] # "code" => Spent[k] = slots[k]
      /\ Spent[CodeKey].value = None
  BY <1>1, SpentFacts
<1>4. /\ CodeKey = <<"code", client.ticket>> /\ CodeKey[1] = "code"
      /\ Taken(CodeKey) = Without(slots, {CodeKey})
      /\ CodeKey \notin DOMAIN Taken(CodeKey)
  BY DEF CodeKey, Taken, Without, Restrict
<1>5. \A c : Spared(slots, Spent, c)
  BY <1>3 DEF Spared
<1>6. ClientOK(client') /\ Drops(client, client')
  BY <1>1, ClientSame
<1>7. ASSUME CodeKey \in DOMAIN slots' => slots'[CodeKey].value = None
      PROVE  DueOK(slots', client')
  BY <1>1, <1>4, <1>7 DEF Inv, DueOK, SigningIn
<1>8. CASE slots' = Taken(CodeKey)
  <2>1. Good(slots') /\ Spared(slots, slots', Unrefreshed(client'))
    BY <1>4, <1>8, VisitedSpares DEF Inv
  <2> QED
    BY <1>1, <1>4, <1>6, <1>7, <1>8, <2>1, ClosesFaulty
<1>9. CASE slots' = Spent
  BY <1>1, <1>3, <1>5, <1>6, <1>7, <1>9, ClosesFaulty
<1>10. CASE \E n \in 1..3 : slots' = Saves(Spent, p, tokens, key)[n]
  <2>1. /\ tokens \in TokensOf(config) /\ Judged(tokens)
        /\ slots[CodeKey].expiresAt \in Nat
        /\ "openid" \in config.scopes /\ Refused(tokens.account) =>
             slots[CodeKey].expiresAt <= refusedSince[tokens.account] + CodeLifetime
    BY <1>1 DEF Inv, Good, EntryOK, CodeKey, Value
  <2>2. ASSUME NEW k \in DOMAIN Spent, k[1] = "access" PROVE Spent[k].value.upstream # key
    BY <1>3, <2>2, DrawnUpstream DEF Inv, Good, Value
  <2>3. now <= slots[CodeKey].expiresAt
    BY <1>1, <2>1 DEF Lapsed, Inv, CountersOK
  <2>4. tokens.account \in Accounts
    BY <2>1 DEF TokensOf
  <2>5. "openid" \in config.scopes /\ Refused(tokens.account) =>
          now <= refusedSince[tokens.account] + CodeLifetime
    BY <2>1, <2>3, <2>4, Lifetimes DEF Inv, CountersOK
  <2> HIDE DEF tokens, key
  <2>6. Good(slots') /\ HasKept(Spent, slots', tokens, key)
    BY <1>3, <1>10, <2>1, SavesFacts DEF Inv
  <2>7. CodeKey \in DOMAIN slots' => slots'[CodeKey].value = None
    BY <1>3, <1>4, <2>6 DEF HasKept, UpstreamKey, NewKey
  <2>8. DueOK(slots', client') /\ client'.access = client.access
    BY <1>1, <1>7, <2>7
  <2> QED
    BY <1>1, <1>3, <1>5, <1>6, <2>1, <2>2, <2>5, <2>6, <2>8, ClosesHalfway
<1> QED
  BY <1>2, <1>8, <1>9, <1>10

LEMMA GuardedKeeps ==
  ASSUME Inv, NEW p \in Processes, Guarded(p)
  PROVE  Inv'
<1>1. Still /\ closed' = closed /\ UNCHANGED calls
  BY DEF Guarded, World, Still
<1>2. faults' \in 0..config.faults /\ faults' >= faults
  BY CountersSame DEF Guarded
<1>3. CASE UNCHANGED slots /\ UNCHANGED client
  BY <1>1, <1>2, <1>3, CountersSame, ClientSame, SameSpares, Closes DEF Inv
<1>4. CASE client.step \in SigningIn /\ StartsOver /\ slots' \in {slots, Taken(TransactionKey)}
  <2>1. ClientOK(client') /\ Drops(client, client') /\ DueOK(slots', client')
    BY <1>4, ClientStartsOver
  <2>2. /\ TransactionKey[1] \in {"transaction", "code"}
        /\ Taken(TransactionKey) = Without(slots, {TransactionKey})
    BY DEF TransactionKey, Taken
  <2>3. Good(slots') /\ Spared(slots, slots', client')
    BY <1>4, <2>2, SameSpares, VisitedSpares DEF Inv
  <2> QED
    BY <1>1, <1>2, <2>1, <2>3, CountersSame, Closes
<1> QED
  BY <1>3, <1>4 DEF Guarded, SigningIn

\* Whom the tightened rule refuses has no code and no access token from later.
LEMMA TightenKeeps ==
  ASSUME Inv, NEW a \in config.accounts, Tighten(a)
  PROVE  Inv'
<1>1. /\ UNCHANGED <<config, now, life, closed, slots, client, calls, faults>>
      /\ refusedSince' = [refusedSince EXCEPT ![a] = now]
      /\ config.ownRule
  BY DEF Tighten, storeVars
<1>2. a \in Accounts /\ now \in 1..MaxTime /\ refusedSince \in [Accounts -> 0..MaxTime]
  BY DeploymentFacts DEF Inv, CountersOK
<1>3. \A b \in Accounts : refusedSince'[b] = IF b = a THEN now ELSE refusedSince[b]
  BY <1>1, <1>2
<1>4. CountersOK'
  BY <1>1, <1>2 DEF Inv, CountersOK
<1>5. /\ Lasting' = Lasting
      /\ \A p : SealedBy(p)' = SealedBy(p)
      /\ \A asked : Narrowed(asked)' = Narrowed(asked)
      /\ \A tokens : Judged(tokens)' = Judged(tokens)
      /\ TokensOf(config)' = TokensOf(config)
  BY <1>1 DEF Lasting, SealedBy, RandomKey, Narrowed, Judged, AnyRule, TokensOf
<1>6. ASSUME NEW k, NEW e, EntryOK(k, e) PROVE EntryOK(k, e)'
  <2>1. ASSUME k[1] = "code", e.value # None, "openid" \in config.scopes,
               Refused(e.value.tokens.account)'
        PROVE  e.expiresAt <= refusedSince'[e.value.tokens.account] + CodeLifetime
    <3>1. e.value.tokens.account \in Accounts /\ e.expiresAt <= now + CodeLifetime
      BY <1>6, <2>1 DEF EntryOK, TokensOf
    <3>2. CASE e.value.tokens.account = a
      BY <1>3, <3>1, <3>2
    <3>3. CASE e.value.tokens.account # a
      BY <1>1, <1>3, <1>6, <2>1, <3>1, <3>3 DEF EntryOK, Refused
    <3> QED
      BY <3>2, <3>3
  <2> QED
    BY <1>1, <1>5, <1>6, <2>1 DEF EntryOK
<1>7. Good(slots)'
  BY <1>1, <1>6 DEF Inv, Good
<1>8. AccessOK(slots)'
  <2> SUFFICES ASSUME NEW k \in DOMAIN slots, "openid" \in config.scopes, k[1] = "access",
                      UpstreamIn(slots, k) \in DOMAIN slots,
                      Refused(slots[UpstreamIn(slots, k)].value.account)'
               PROVE  slots[k].expiresAt <=
                        refusedSince'[slots[UpstreamIn(slots, k)].value.account] + CodeLifetime + AccessLifetime
    BY <1>1 DEF AccessOK, UpstreamIn
  <2> DEFINE b == slots[UpstreamIn(slots, k)].value.account
  <2>1. b \in Accounts
    BY DEF Inv, Good, EntryOK, UpstreamIn, TokensOf
  <2>2. slots[k].expiresAt <= now + AccessLifetime /\ slots[k].expiresAt \in Nat
    BY DEF Inv, Good, EntryOK
  <2>3. CASE b = a
    BY <1>2, <1>3, <2>1, <2>2, <2>3, Lifetimes
  <2>4. CASE b # a
    BY <1>1, <1>3, <2>1, <2>4 DEF Inv, AccessOK, Refused
  <2> QED
    BY <2>3, <2>4
<1>9. Live(slots, client, faults)'
  BY <1>1, <1>5 DEF Inv, Live, Backed, Outlasts, UpstreamIn
<1>10. DueOK(slots, client)' /\ ClientOK(client)'
  BY <1>1, <1>5 DEF Inv, DueOK, HeldBehind, UpstreamIn, ClientOK, TokenOK
<1> QED
  BY <1>4, <1>7, <1>8, <1>9, <1>10 DEF Inv

LEMMA CleanupKeeps ==
  ASSUME Inv, Cleanup, UNCHANGED <<client, refusedSince, calls, faults>>
  PROVE  Inv'
<1>1. Still /\ closed' = closed /\ UNCHANGED <<client, calls, faults>>
  BY DEF Cleanup, Still
<1>2. slots' = Without(slots, {k \in DOMAIN slots : Lapsed(slots[k])})
  BY DEF Cleanup
<1>3. Good(slots') /\ Spared(slots, slots', client')
  BY <1>2, WithoutSpares DEF Inv
<1>4. DueOK(slots', client')
  BY <1>1, <1>2 DEF Inv, DueOK, HeldBehind, UpstreamIn, Without, Restrict
<1> QED
  BY <1>1, <1>3, <1>4, CountersSame, ClientSame, Closes

\* A store that goes with its process takes its tokens along, which are then not to last.
LEMMA RestartKeeps ==
  ASSUME Inv, NEW p \in config.processes, Close(p) \/ Restart(p),
         UNCHANGED <<client, refusedSince, calls, faults>>
  PROVE  Inv'
<1>1. UNCHANGED <<config, now, client, refusedSince, calls, faults>> /\ slots' = Kept
  BY DEF Close, Restart
<1>2. p \in Processes
  BY DeploymentFacts DEF Inv, CountersOK
<1>3. CountersOK'
  BY <1>1, <1>2, Lifetimes, TokenStoreAssumption DEF Inv, CountersOK, Close, Restart
<1>4. /\ Lasting' = Lasting
      /\ Lasting => \A q \in Processes : SealedBy(q)' = SealedBy(q)
      /\ \A asked : Narrowed(asked)' = Narrowed(asked)
      /\ \A tokens : Judged(tokens)' = Judged(tokens)
      /\ TokensOf(config)' = TokensOf(config)
      /\ \A a : Refused(a)' = Refused(a)
  BY <1>1, DeploymentFacts
  DEF Lasting, SealedBy, RandomKey, Narrowed, Judged, AnyRule, TokensOf, Refused, Inv, CountersOK
<1>5. ASSUME NEW k, NEW e, EntryOK(k, e) PROVE EntryOK(k, e)'
  BY <1>1, <1>4, <1>5 DEF EntryOK
<1>6. CASE slots' = <<>> /\ ~Lasting
  <2>1. DOMAIN slots' = {}
    BY <1>6
  <2>2. Good(slots)' /\ AccessOK(slots)'
    BY <2>1, FS_EmptySet DEF Good, AccessOK
  <2>3. Live(slots, client, faults)'
    BY <1>4, <1>6 DEF Live
  <2>4. DueOK(slots, client)' /\ ClientOK(client)'
    BY <1>1, <1>4, <2>1 DEF Inv, DueOK, HeldBehind, ClientOK, TokenOK
  <2> QED
    BY <1>3, <2>2, <2>3, <2>4 DEF Inv
<1>7. CASE slots' = slots
  <2>1. Good(slots)'
    BY <1>5, <1>7 DEF Inv, Good
  <2>2. AccessOK(slots)'
    BY <1>1, <1>4, <1>7 DEF Inv, AccessOK, UpstreamIn
  <2>3. Live(slots, client, faults)'
    BY <1>1, <1>4, <1>7 DEF Inv, Live, Backed, Outlasts, UpstreamIn
  <2>4. DueOK(slots, client)' /\ ClientOK(client)'
    BY <1>1, <1>4, <1>7 DEF Inv, DueOK, HeldBehind, UpstreamIn, ClientOK, TokenOK
  <2> QED
    BY <1>3, <2>1, <2>2, <2>3, <2>4 DEF Inv
<1> QED
  BY <1>1, <1>6, <1>7 DEF Kept, Lasting

LEMMA TickKeeps ==
  ASSUME Inv, Tick, UNCHANGED <<client, refusedSince, calls, faults>>
  PROVE  Inv'
<1>1. UNCHANGED <<config, life, closed, slots, client, refusedSince, calls, faults>>
      /\ now' = now + 1 /\ now \in Nat
  BY DEF Tick, Inv, CountersOK
<1>2. CountersOK'
  BY <1>1, Lifetimes DEF Inv, CountersOK, Tick
<1>3. /\ Lasting' = Lasting
      /\ \A q : SealedBy(q)' = SealedBy(q)
      /\ \A asked : Narrowed(asked)' = Narrowed(asked)
      /\ \A tokens : Judged(tokens)' = Judged(tokens)
      /\ TokensOf(config)' = TokensOf(config)
      /\ \A a : Refused(a)' = Refused(a)
  BY <1>1 DEF Lasting, SealedBy, RandomKey, Narrowed, Judged, AnyRule, TokensOf, Refused
<1>4. ASSUME NEW k, NEW e, EntryOK(k, e) PROVE EntryOK(k, e)'
  BY <1>1, <1>3, <1>4, Lifetimes DEF EntryOK
<1>5. Good(slots)'
  BY <1>1, <1>4 DEF Inv, Good
<1>6. AccessOK(slots)'
  BY <1>1, <1>3 DEF Inv, AccessOK, UpstreamIn
<1>7. Live(slots, client, faults)'
  BY <1>1, <1>3 DEF Inv, Live, Backed, Outlasts, UpstreamIn, ClientOK, TokenOK
<1>8. DueOK(slots, client)' /\ ClientOK(client)'
  BY <1>1, <1>3 DEF Inv, DueOK, HeldBehind, UpstreamIn, ClientOK, TokenOK
<1> QED
  BY <1>2, <1>5, <1>6, <1>7, <1>8 DEF Inv

LEMMA NextKeeps == Inv /\ [Next]_vars => Inv'
<1> SUFFICES ASSUME Inv, [Next]_vars PROVE Inv'
  OBVIOUS
<1>1. CASE \E tool \in Tools : Call(tool)
  BY <1>1, CallKeeps
<1>2. CASE Progress
  BY <1>2, ChallengedKeeps, ServedKeeps, ForbiddenKeeps, RegisterKeeps, AuthorizeKeeps, EndedKeeps,
     ApproveKeeps, CallbackKeeps, RedeemKeeps, RedeemBreaksOffKeeps,
     RefreshKeeps, RefreshInvalidKeeps, RefreshFailsKeeps, RefreshBreaksOffKeeps, GuardedKeeps
  DEF Progress
<1>3. CASE Environment
  BY <1>3, CleanupKeeps, RestartKeeps, TickKeeps, TightenKeeps DEF Environment
<1>4. CASE UNCHANGED vars
  <2>1. Still /\ closed' = closed /\ UNCHANGED <<slots, client, calls, faults>>
    BY <1>4 DEF vars, storeVars, Still
  <2> QED
    BY <2>1, CountersSame, ClientSame, SameSpares, Closes DEF Inv
<1> QED
  BY <1>1, <1>2, <1>3, <1>4 DEF Next

LEMMA InitInv == Init => Inv
<1> SUFFICES ASSUME Init PROVE Inv
  OBVIOUS
<1>1. CountersOK
  BY DeploymentFacts, ProviderAssumption, TokenStoreAssumption DEF Init, InitStore, CountersOK
<1>2. DOMAIN slots = {}
  BY DEF Init, InitStore
<1>3. Good(slots) /\ AccessOK(slots)
  BY <1>2, FS_EmptySet DEF Good, AccessOK
<1>4. ClientOK(client)
  BY DEF Init, ClientOK, ClientFields, Steps, TokenOK
<1>5. Live(slots, client, faults) /\ DueOK(slots, client)
  BY DEF Init, Live, Backed, DueOK, SigningIn, HeldBehind
<1> QED
  BY <1>1, <1>3, <1>4, <1>5 DEF Inv

LEMMA InvHolds == Spec => []Inv
BY InitInv, NextKeeps, PTL DEF Spec

-----------------------------------------------------------------------------
(* The client, the counters and every entry of the store always have their types; in           *)
(* particular nothing a client asks for or a provider grants brings a scope into the store      *)
(* that is not on the server's list (http.ts, narrowScope).                                     *)
THEOREM TypeCorrect == Spec => []TypeOK
<1>1. Inv => TypeOK
  <2> SUFFICES ASSUME Inv PROVE TypeOK
    OBVIOUS
  <2>1. TypeOKStore
    BY DEF Inv, CountersOK, Good, EntryOK, TypeOKStore
  <2>2. \A k \in DOMAIN slots :
          k[1] \in {"transaction", "upstream"} => Value(k).scope \subseteq config.scopes
    BY DEF Inv, Good, EntryOK, TokensOf, Value
  <2>3. \A token \in {client.access, client.refresh} \ {None} : DOMAIN token = {"jti", "key", "exp"}
    BY DEF Inv, ClientOK, TokenOK
  <2> QED
    BY <2>1, <2>2, <2>3 DEF Inv, CountersOK, ClientOK, DueOK, TypeOK
<1> QED
  BY <1>1, InvHolds, PTL

(* Where the configuration lets tokens last, the access token works until it expires at every   *)
(* process, whatever restarts, fails or breaks off; the refresh token and the client's          *)
(* registration do so as long as nothing fails (server.ts:119-130, grants.ts:310,               *)
(* clients.ts:124).                                                                             *)
THEOREM TokensLast == Spec => []SignInLasts
<1>1. Inv => SignInLasts
  <2> SUFFICES ASSUME Inv, Lasting, NEW p \in config.processes
               PROVE  /\ Verifies(p, client.access) => Session(p) # None
                      /\ Verifies(p, client.refresh) /\ faults = 0 =>
                           /\ Readable(p, RefreshKey) /\ Readable(p, Upstream(RefreshKey))
                           /\ ClientLifetime >= RefreshLifetime => Readable(p, ClientKey)
    BY DEF SignInLasts
  <2>1. p \in Processes /\ now \in Nat /\ config \in Deployments
    BY DeploymentFacts DEF Inv, CountersOK
  \* An entry that outlasts a token that works can be read.
  <2>2. ASSUME NEW k, NEW token, Outlasts(slots, k, token), token.exp \in Nat, token.exp > now
        PROVE  Readable(p, k)
    <3>1. EntryOK(k, slots[k])
      BY <2>2 DEF Inv, Good, Outlasts
    <3> QED
      BY <2>1, <2>2, <3>1 DEF EntryOK, Outlasts, Readable, Lapsed
  <2>3. ASSUME NEW kind \in {"access", "refresh"}, Verifies(p, client[kind]),
               kind = "refresh" => faults = 0
        PROVE  /\ Readable(p, <<kind, client[kind].jti>>)
               /\ Readable(p, Upstream(<<kind, client[kind].jti>>))
    <3>1. client[kind].exp \in Nat /\ client[kind].exp > now /\ client[kind] # None
      BY <2>3 DEF Inv, ClientOK, TokenOK, Verifies
    <3>2. Backed(slots, kind, client[kind])
      BY <2>3 DEF Inv, Live
    <3>3. /\ Outlasts(slots, <<kind, client[kind].jti>>, client[kind])
          /\ Outlasts(slots, Upstream(<<kind, client[kind].jti>>), client[kind])
      BY <3>1, <3>2 DEF Backed, UpstreamIn, Upstream, Value
    <3> QED
      BY <2>2, <3>1, <3>3
  <2>4. ASSUME Verifies(p, client.access) PROVE Session(p) # None
    <3> DEFINE k == <<"access", client.access.jti>>
    <3>1. Readable(p, k) /\ Readable(p, Upstream(k))
      BY <2>3, <2>4
    <3>2. Session(p) = Value(Upstream(k))
      BY <2>4, <3>1 DEF Session
    <3>3. Value(Upstream(k)) \in TokensOf(config)
      BY <3>1 DEF Readable, Inv, Good, EntryOK, Upstream, Value
    <3> QED
      BY <2>1, <3>2, <3>3, NoneAssumption
  <2>5. ASSUME Verifies(p, client.refresh), faults = 0, ClientLifetime >= RefreshLifetime
        PROVE  Readable(p, ClientKey)
    <3>1. client.refresh.exp \in Nat /\ client.refresh.exp > now /\ client.refresh # None
      BY <2>5 DEF Inv, ClientOK, TokenOK, Verifies
    <3>2. Outlasts(slots, ClientKey, client.refresh)
      BY <2>5, <3>1 DEF Inv, Live, ClientKey
    <3> QED
      BY <2>2, <3>1, <3>2
  <2> QED
    BY <2>3, <2>4, <2>5 DEF RefreshKey
<1> QED
  BY <1>1, InvHolds, PTL

(* A client that has stepped up comes back with every scope it held and every one it was told   *)
(* it lacks, as far as the list has them and the provider grants them (challenge.ts:15-18).     *)
THEOREM StepsUp == Spec => []StepUpAddsUp
<1>1. Inv => StepUpAddsUp
  <2> SUFFICES ASSUME Inv, client.step = "calling", NEW p \in config.processes, Session(p) # None
               PROVE  client.due \subseteq Session(p).scope
    BY DEF StepUpAddsUp
  <2> DEFINE k == <<"access", client.access.jti>>
  <2>1. /\ client.access # None /\ k \in DOMAIN slots /\ Upstream(k) \in DOMAIN slots
        /\ Session(p) = Value(Upstream(k))
    BY DEF Session, Verifies, Readable
  <2> QED
    BY <2>1 DEF Inv, DueOK, HeldBehind, SigningIn, UpstreamIn, Upstream, Value
<1> QED
  BY <1>1, InvHolds, PTL

(* With openid on the list, whoever holds a token passed the tenant check, and whom a tightened *)
(* rule refuses holds no access token for longer than one code and one access token last        *)
(* (server.ts:37-43).                                                                           *)
THEOREM AcceptedHold == Spec => []OnlyAccepted
<1>1. Inv => OnlyAccepted
  <2> SUFFICES ASSUME Inv, "openid" \in config.scopes,
                      NEW k \in DOMAIN slots, k[1] = "access", Upstream(k) \in DOMAIN slots
               PROVE  /\ config.tenant \in {"common", Value(Upstream(k)).account}
                      /\ refusedSince[Value(Upstream(k)).account] # 0 =>
                           slots[k].expiresAt <=
                             refusedSince[Value(Upstream(k)).account] + CodeLifetime + AccessLifetime
    BY DEF OnlyAccepted
  <2> DEFINE a == Value(Upstream(k)).account
  <2>1. Value(Upstream(k)) \in TokensOf(config) /\ Judged(Value(Upstream(k)))
    BY DEF Inv, Good, EntryOK, Upstream, Value
  <2>2. a \in Accounts
    BY <2>1 DEF TokensOf
  <2>3. config.tenant \in {"common", a}
    BY <2>1 DEF Judged, AnyRule
  <2>4. ASSUME refusedSince[a] # 0
        PROVE  slots[k].expiresAt <= refusedSince[a] + CodeLifetime + AccessLifetime
    <3>1. Refused(a)
      BY <2>2, <2>4 DEF Refused, Inv, CountersOK
    <3>2. Upstream(k) = UpstreamIn(slots, k) /\ a = slots[UpstreamIn(slots, k)].value.account
      BY DEF Upstream, UpstreamIn, Value
    <3> QED
      BY <3>1, <3>2 DEF Inv, AccessOK
  <2> QED
    BY <2>3, <2>4
<1> QED
  BY <1>1, InvHolds, PTL

=============================================================================
