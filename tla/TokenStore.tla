----------------------------- MODULE TokenStore -----------------------------
(***************************************************************************)
(* What the OAuth server keeps its clients, codes and tokens in: the       *)
(* memory store (src/src/node/oauth/stores/memory.ts), the encryption      *)
(* around a store (stores/encrypted.ts), and how createAuthorizationServer *)
(* puts the two together, cleans up and closes (server.ts).                *)
(*                                                                         *)
(* A store passed in may be shared by several processes; one the server    *)
(* makes for itself belongs to its process and is gone when that restarts. *)
(* Every operation of a store is one step here.  The files of the disk     *)
(* store, where it is several, are in DiskStore.                           *)
(***************************************************************************)
EXTENDS Naturals, Functions

CONSTANTS
  Processes,      \* processes that may run the server
  Deployments,    \* the configurations it may be deployed with
  MaxTime,        \* bound: the last tick
  MaxLives        \* bound: how often each process starts

Wirings == [store: {"own", "passed", "encrypted"}, encryptionKey: {"set", "unset", "off"},
            jwtSigningKey: {"set", "unset"}, processes: SUBSET Processes]

\* Several processes serve one deployment only over a store they can share.
ASSUME TokenStoreAssumption ==
  /\ {MaxTime, MaxLives} \subseteq Nat \ {0}
  /\ \A d \in Deployments :
       /\ Restrict(d, {"store", "encryptionKey", "jwtSigningKey", "processes"}) \in Wirings
       /\ d.store = "own" => \E p \in Processes : d.processes = {p}

VARIABLES
  config,   \* the deployment; it stays as it is
  now,      \* the clock
  life,     \* how often each process has started
  closed,   \* the processes that have closed their provider and with it their own store
  slots     \* the store: the entries by their keys

storeVars == <<config, now, life, closed, slots>>

TypeOKStore ==
  /\ config \in Deployments
  /\ now \in 1..MaxTime
  /\ life \in [Processes -> 1..MaxLives]
  /\ closed \subseteq config.processes
  /\ \A k \in DOMAIN slots : {"value", "sealedBy", "expiresAt"} = DOMAIN slots[k]

InitStore ==
  /\ config \in Deployments
  /\ now = 1
  /\ life = [p \in Processes |-> 1]
  /\ closed = {}
  /\ slots = <<>>

-----------------------------------------------------------------------------
\* randomHex: a key of this life of the process.
RandomKey(p) == <<p, life[p]>>

\* What the server's encryption seals and opens with.  A store that encrypts is not wrapped again.
SealedBy(p) ==
  IF config.store = "encrypted" THEN <<"caller", 0>>
  ELSE IF config.encryptionKey = "off" THEN <<"plain", 0>>
  ELSE IF config.encryptionKey = "set" THEN <<"set", 0>>
  ELSE RandomKey(p)

SigningKey(p) == IF config.jwtSigningKey = "set" THEN <<"set", 0>> ELSE RandomKey(p)

\* Tokens and what stands behind them work at every process and after a restart.
Lasting ==
  /\ config.store # "own"
  /\ config.jwtSigningKey = "set"
  /\ config.store = "encrypted" \/ config.encryptionKey # "unset"

-----------------------------------------------------------------------------
Lapsed(slot) == slot.expiresAt < now

\* reveal: a value that does not open reads as missing.
Readable(p, k) ==
  /\ k \in DOMAIN slots
  /\ ~Lapsed(slots[k])
  /\ slots[k].sealedBy = SealedBy(p)

Value(k) == slots[k].value

Without(s, keys) == Restrict(s, DOMAIN s \ keys)

\* get forgets the lapsed entries it comes upon.
Visited(keys) == Without(slots, {k \in keys \cap DOMAIN slots : Lapsed(slots[k])})

\* take removes the entry before anyone looks whether it opens.
Taken(k) == Without(slots, {k})

\* A later save of the same key replaces the earlier one, and its expiry.
Saved(s, p, k, value, ttl) ==
  [j \in DOMAIN s \cup {k} |->
     IF j = k THEN [value |-> value, sealedBy |-> SealedBy(p), expiresAt |-> now + ttl] ELSE s[j]]

-----------------------------------------------------------------------------
\* The timers of the server and of its own store, and those of the caller's store.
Cleanup ==
  /\ config.store = "own" => closed = {}
  /\ \E k \in DOMAIN slots : Lapsed(slots[k])
  /\ slots' = Without(slots, {k \in DOMAIN slots : Lapsed(slots[k])})
  /\ UNCHANGED <<config, now, life, closed>>

\* A store the server made is emptied with its process or its provider.
Kept == IF config.store = "own" THEN <<>> ELSE slots

\* close: a store passed in is the caller's, and goes on as it was.
Close(p) ==
  /\ config.store = "own" /\ p \notin closed
  /\ closed' = closed \cup {p}
  /\ slots' = Kept
  /\ UNCHANGED <<config, now, life>>

\* The process ends, in whatever way, and starts anew.
Restart(p) ==
  /\ life[p] < MaxLives
  /\ life' = [life EXCEPT ![p] = @ + 1]
  /\ closed' = closed \ {p}
  /\ slots' = Kept
  /\ UNCHANGED <<config, now>>

Tick ==
  /\ now < MaxTime
  /\ now' = now + 1
  /\ UNCHANGED <<config, life, closed, slots>>

=============================================================================
