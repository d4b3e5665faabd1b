---------------------------- MODULE GrantsProofs ----------------------------
(***************************************************************************)
(* What the token endpoint guarantees for any number of requests, clients, *)
(* users and sign-ins, whatever fails and in whatever order things happen. *)
(***************************************************************************)
EXTENDS Grants, TLAPS

IsRefresh(j) == j \in Jtis /\ token[j] \in Jwt /\ token[j].use = "refresh"

EntryOK(e) ==
  e \in CodeEntry /\ (e.state = "active" => e.tokens \in Tokens /\ e.client \in Clients)

\* What a request's locals hold while it awaits at `label`.
LocalOK(label, l) ==
  /\ label \in {"takeCode", "deleteCode", "spendCode"} => l.code \in Codes
  /\ label \in {"deleteCode", "spendCode"} => EntryOK(l.read)
  /\ label = "deleteGrant" => IsRefresh(l.jti)
  /\ label \in Holding => /\ l.key \in Keys /\ signIn[l.key] # None
                          /\ l.owner \in Clients
  /\ (label \in InRotate \cup {"ask", "putBack"} \/ (label \in Issuing /\ l.jti # 0))
       => IsRefresh(l.jti) /\ token[l.jti].key = l.key
  /\ label \in {"checkRevoked", "ask", "recheck"} => l.cur \in Tokens
  /\ label \in {"recheck"} \cup Issuing => l.fresh \in Tokens
  /\ label \in {"findClient", "saveClient"} => l.owner \in Clients
  /\ label \in Holding \cup {"findClient", "saveClient"} => \A j \in l.issued : token[j] \in Jwt
  /\ label = "saveRevocation" => l.user \in Users

LocalsOK == \A r \in Requests : LocalOK(pc[r], req[r])

CodesOK == \A c \in Codes : EntryOK(codes[c])

TokensOK ==
  /\ \A j \in Jtis : j <= drawn => token[j] \in Jwt /\ signIn[token[j].key] # None
  /\ \A j \in Jtis : j > drawn => token[j] = None /\ grants[j] = 0
  /\ \A j \in handed : token[j] \in Jwt
  /\ \A k \in refused : signIn[k] # None

\* Each local, each code and each JWT is what its use needs it to be.
WellFormed == TypeOK /\ LocalsOK /\ CodesOK /\ TokensOK

LEMMA NoneDistinct ==
  /\ None \notin Clients /\ None \notin Users /\ None \notin Codes /\ None \notin Keys
  BY GrantsAssumption

LEMMA InitWellFormed == Init => WellFormed
<1> SUFFICES ASSUME Init PROVE WellFormed
  OBVIOUS
<1> USE GrantsAssumption
<1>1. NoLocals \in Locals
  BY DEF NoLocals, Locals, Time
<1>2. NoCode \in CodeEntry
  BY DEF NoCode, CodeEntry, Time
<1>3. TypeOK
  BY <1>1, <1>2 DEF Init, TypeOK, Labels, Time, Jtis
<1>4. LocalsOK
  BY DEF Init, LocalsOK, LocalOK, Holding, Issuing, InRotate
<1>5. CodesOK
  BY <1>2 DEF Init, CodesOK, EntryOK, NoCode
<1>6. TokensOK
  BY DEF Init, TokensOK, Jtis
<1> QED
  BY <1>3, <1>4, <1>5, <1>6 DEF WellFormed

\* A step of request r to `label` leaves the other requests where they were.
LEMMA GotoType ==
  ASSUME TypeOK, NEW r \in Requests, NEW label \in Labels, NEW l \in Locals,
         Goto(r, label, l)
  PROVE  /\ pc' \in [Requests -> Labels] /\ req' \in [Requests -> Locals]
         /\ pc'[r] = label /\ req'[r] = l
         /\ \A q \in Requests \ {r} : pc'[q] = pc[q] /\ req'[q] = req[q]
  BY DEF Goto, TypeOK

\* JWTs and keys, once drawn, stay as they are.
Monotone ==
  /\ \A j \in Jtis : token[j] \in Jwt => token'[j] = token[j]
  /\ \A k \in Keys : signIn[k] # None => signIn'[k] = signIn[k]

LEMMA LocalsStep ==
  ASSUME WellFormed, Monotone,
         NEW r \in Requests, NEW label \in Labels, NEW l \in Locals,
         Goto(r, label, l), LocalOK(label, l)'
  PROVE  LocalsOK'
<1>1. /\ pc'[r] = label /\ req'[r] = l
      /\ \A q \in Requests \ {r} : pc'[q] = pc[q] /\ req'[q] = req[q]
  BY GotoType DEF WellFormed
<1>2. ASSUME NEW q \in Requests PROVE LocalOK(pc[q], req[q])'
  <2>1. CASE q = r
    BY <2>1, <1>1 DEF LocalOK, IsRefresh, EntryOK
  <2>2. CASE q # r
    <3>1. pc'[q] = pc[q] /\ req'[q] = req[q] /\ LocalOK(pc[q], req[q])
      BY <1>1, <2>2 DEF WellFormed, LocalsOK
    <3>2. req[q].issued \subseteq Jtis
      BY DEF WellFormed, TypeOK, Locals
    <3> QED
      BY <3>1, <3>2 DEF LocalOK, IsRefresh, EntryOK, Monotone
  <2> QED
    BY <2>1, <2>2
<1> QED
  BY <1>2 DEF LocalsOK

\* The same, for locals that already are what the next await needs.
LEMMA MoveWF ==
  ASSUME WellFormed, Monotone,
         NEW r \in Requests, NEW label \in Labels, NEW l \in Locals,
         Goto(r, label, l), LocalOK(label, l)
  PROVE  /\ pc' \in [Requests -> Labels] /\ req' \in [Requests -> Locals]
         /\ LocalsOK'
<1>0. l.issued \subseteq Jtis
  BY DEF Locals
<1>1. LocalOK(label, l)'
  BY <1>0 DEF LocalOK, IsRefresh, EntryOK, Monotone
<1> QED
  BY <1>1, GotoType, LocalsStep DEF WellFormed

LEMMA LocalsStay ==
  ASSUME WellFormed, Monotone, UNCHANGED <<pc, req>>
  PROVE  LocalsOK'
<1>1. \A r \in Requests : req[r].issued \subseteq Jtis
  BY DEF WellFormed, TypeOK, Locals
<1> QED
  BY <1>1 DEF WellFormed, LocalsOK, LocalOK, IsRefresh, EntryOK, Monotone

\* A request that ends needs nothing of its locals.
LEMMA EndOK ==
  ASSUME NEW r \in Requests, End(r)
  PROVE  /\ NoLocals \in Locals /\ "idle" \in Labels /\ LocalOK("idle", NoLocals)'
         /\ Goto(r, "idle", NoLocals)
<1>1. NoLocals \in Locals
  BY DEF NoLocals, Locals, Time
<1> QED
  BY <1>1 DEF End, Labels, LocalOK, Holding, InRotate, Issuing

LEMMA EndWF ==
  ASSUME WellFormed, Monotone, NEW r \in Requests, End(r)
  PROVE  /\ pc' \in [Requests -> Labels] /\ req' \in [Requests -> Locals]
         /\ LocalsOK'
  BY EndOK, GotoType, LocalsStep DEF WellFormed

-----------------------------------------------------------------------------
(* One lemma for each action that changes more than pc and req.            *)

LEMMA IssueCodeWF ==
  ASSUME WellFormed, NEW c \in Codes, IssueCode(c)
  PROVE  WellFormed'
<1> USE GrantsAssumption
<1>1. PICK client \in Clients, user \in Users \cup {None}, life \in Lifetimes, rt \in {0, 1} :
        /\ codes' = [codes EXCEPT ![c] =
             [state |-> "active", client |-> client, expiresAt |-> now + CodeLifetime,
              tokens |-> [session |-> c, user |-> user, issuedAt |-> now, rt |-> rt,
                          life |-> life]]]
        /\ provider' = [provider EXCEPT ![c] = rt]
  BY DEF IssueCode
<1> DEFINE t == [session |-> c, user |-> user, issuedAt |-> now, rt |-> rt, life |-> life]
           e == [state |-> "active", client |-> client, expiresAt |-> now + CodeLifetime,
                 tokens |-> t]
<1>2. t \in Tokens
  BY DEF Tokens, Time, WellFormed, TypeOK
<1>3. EntryOK(e)
  BY <1>2 DEF EntryOK, CodeEntry, Time, WellFormed, TypeOK
<1>4. UNCHANGED <<now, pc, req, grants, upstream, revokedAt, clientUntil, minted, ghosts>>
  BY DEF IssueCode
<1>5. TypeOK'
  BY <1>1, <1>3, <1>4 DEF TypeOK, WellFormed, EntryOK, minted, ghosts
<1>6. LocalsOK'
  BY <1>4, LocalsStay DEF Monotone, minted, ghosts
<1>7. CodesOK'
  BY <1>1, <1>3 DEF CodesOK, WellFormed, TypeOK, EntryOK
<1>8. TokensOK'
  BY <1>4 DEF TokensOK, WellFormed, minted, ghosts
<1> QED
  BY <1>5, <1>6, <1>7, <1>8 DEF WellFormed

LEMMA StartRedeemWF ==
  ASSUME WellFormed, NEW r \in Requests, NEW c \in Codes, NEW client \in Clients,
         StartRedeem(r, c, client)
  PROVE  WellFormed'
<1>1. PICK ok \in BOOLEAN :
        Goto(r, "takeCode", [NoLocals EXCEPT !.client = client, !.code = c, !.verified = ok])
  BY DEF StartRedeem
<1> DEFINE l == [NoLocals EXCEPT !.client = client, !.code = c, !.verified = ok]
<1>2. l \in Locals
  BY DEF Locals, NoLocals, Time
<1>3. UNCHANGED <<now, store, minted, provider, ghosts>>
  BY DEF StartRedeem
<1>4. TypeOK'
  BY <1>1, <1>2, <1>3, GotoType DEF WellFormed, TypeOK, store, minted, ghosts, Labels
<1>5. LocalOK("takeCode", l)'
  BY DEF LocalOK, NoLocals, Holding, InRotate, Issuing
<1>6. LocalsOK'
  BY <1>1, <1>2, <1>3, <1>5, LocalsStep DEF Monotone, minted, ghosts, Labels
<1>7. CodesOK' /\ TokensOK'
  BY <1>3 DEF CodesOK, EntryOK, TokensOK, WellFormed, store, minted, ghosts
<1> QED
  BY <1>4, <1>6, <1>7 DEF WellFormed

LEMMA RedeemedWF ==
  ASSUME WellFormed, Monotone, NEW r \in Requests, NEW entry,
         EntryOK(entry), req[r].code \in Codes, Redeemed(r, entry)
  PROVE  /\ pc' \in [Requests -> Labels] /\ req' \in [Requests -> Locals]
         /\ LocalsOK'
<1>0. /\ [req[r] EXCEPT !.read = entry] \in Locals
      /\ [req[r] EXCEPT !.read = entry].code \in Codes
      /\ [req[r] EXCEPT !.read = entry].read = entry
  <2>1. req[r] \in Locals /\ entry \in CodeEntry
    BY DEF WellFormed, TypeOK, EntryOK
  <2> QED
    BY <2>1 DEF Locals
<1>1. PICK l \in Locals : /\ l = [req[r] EXCEPT !.read = entry]
                          /\ l.code \in Codes /\ l.read = entry
  BY <1>0
<1>2. LocalOK("spendCode", l)'
  BY <1>1 DEF LocalOK, EntryOK, Holding, InRotate, Issuing
<1>3. CASE Goto(r, "spendCode", l)
  <2>1. "spendCode" \in Labels
    BY DEF Labels
  <2> QED
    BY <1>1, <1>2, <1>3, <2>1, GotoType, LocalsStep DEF WellFormed
<1>4. CASE End(r)
  BY <1>4, EndOK, GotoType, LocalsStep DEF WellFormed
<1> QED
  BY <1>1, <1>3, <1>4 DEF Redeemed

LEMMA RemovedOK ==
  ASSUME WellFormed, NEW c \in Codes, Removed(c)
  PROVE  codes' \in [Codes -> CodeEntry] /\ CodesOK'
<1>1. codes[c] \in CodeEntry
  BY DEF WellFormed, TypeOK
<1>2. codes' = [codes EXCEPT ![c] = [codes[c] EXCEPT !.state = "gone", !.tokens = None]]
  BY <1>1 DEF Removed, WellFormed, TypeOK, CodeEntry
<1>3. EntryOK([codes[c] EXCEPT !.state = "gone", !.tokens = None])
  BY <1>1 DEF EntryOK, CodeEntry
<1> QED
  BY <1>2, <1>3 DEF WellFormed, TypeOK, CodesOK, EntryOK

LEMMA TakeCodeWF ==
  ASSUME WellFormed, NEW r \in Requests, TakeCode(r)
  PROVE  WellFormed'
<1>1. req[r].code \in Codes
  BY DEF TakeCode, WellFormed, LocalsOK, LocalOK
<1>2. UNCHANGED <<now, grants, upstream, revokedAt, clientUntil, minted, provider, ghosts>>
  BY DEF TakeCode
<1>3. codes' \in [Codes -> CodeEntry] /\ CodesOK'
  BY <1>1, RemovedOK DEF TakeCode
<1>4. /\ pc' \in [Requests -> Labels] /\ req' \in [Requests -> Locals]
      /\ LocalsOK'
  BY <1>1, <1>2, RedeemedWF DEF TakeCode, Monotone, minted, ghosts, WellFormed, CodesOK
<1> QED
  BY <1>2, <1>3, <1>4 DEF WellFormed, TypeOK, TokensOK, minted, ghosts

LEMMA ReadCodeWF ==
  ASSUME WellFormed, NEW r \in Requests, ReadCode(r)
  PROVE  WellFormed'
<1> DEFINE next == [req[r] EXCEPT !.read = codes[req[r].code]]
<1>0. /\ req[r].code \in Codes /\ Goto(r, "deleteCode", next)
      /\ EntryOK(codes[req[r].code])
  BY DEF ReadCode, WellFormed, LocalsOK, LocalOK, CodesOK
<1>1. next \in Locals /\ next.code \in Codes /\ EntryOK(next.read)
  <2>1. req[r] \in Locals /\ codes[req[r].code] \in CodeEntry
    BY <1>0 DEF WellFormed, TypeOK
  <2>2. next.code = req[r].code /\ next.read = codes[req[r].code]
    BY <2>1 DEF Locals
  <2>3. next \in Locals
    BY <2>1 DEF Locals
  <2> QED
    BY <1>0, <2>2, <2>3
<1>2. PICK l \in Locals : /\ Goto(r, "deleteCode", l)
                          /\ l.code \in Codes /\ EntryOK(l.read)
  BY <1>0, <1>1
<1>3. UNCHANGED <<now, store, minted, provider, ghosts>>
  BY DEF ReadCode
<1>4. LocalOK("deleteCode", l)'
  BY <1>2 DEF LocalOK, EntryOK, Holding, InRotate, Issuing
<1> "deleteCode" \in Labels /\ Monotone
  BY <1>3 DEF Labels, Monotone, minted, ghosts
<1>5. LocalsOK'
  BY <1>2, <1>4, LocalsStep
<1>6. pc' \in [Requests -> Labels] /\ req' \in [Requests -> Locals]
  BY <1>2, GotoType DEF WellFormed
<1> QED
  BY <1>3, <1>5, <1>6
  DEF WellFormed, TypeOK, CodesOK, EntryOK, TokensOK, store, minted, ghosts

LEMMA DeleteCodeWF ==
  ASSUME WellFormed, NEW r \in Requests, DeleteCode(r)
  PROVE  WellFormed'
<1>1. req[r].code \in Codes /\ EntryOK(req[r].read)
  BY DEF DeleteCode, WellFormed, LocalsOK, LocalOK
<1>2. UNCHANGED <<now, grants, upstream, revokedAt, clientUntil, minted, provider, ghosts>>
  BY DEF DeleteCode
<1>3. codes' \in [Codes -> CodeEntry] /\ CodesOK'
  BY <1>1, RemovedOK DEF DeleteCode
<1>4. /\ pc' \in [Requests -> Labels] /\ req' \in [Requests -> Locals]
      /\ LocalsOK'
  BY <1>1, <1>2, RedeemedWF DEF DeleteCode, Monotone, minted, ghosts
<1> QED
  BY <1>2, <1>3, <1>4 DEF WellFormed, TypeOK, TokensOK, minted, ghosts

LEMMA SpendCodeWF ==
  ASSUME WellFormed, NEW r \in Requests, SpendCode(r)
  PROVE  WellFormed'
<1> DEFINE entry == req[r].read
           c == req[r].code
           spent == [state |-> "spent", client |-> None, tokens |-> None,
                     expiresAt |-> entry.expiresAt]
<1>1. c \in Codes /\ EntryOK(entry)
  BY DEF SpendCode, WellFormed, LocalsOK, LocalOK
<1>2. EntryOK(spent)
  BY <1>1 DEF EntryOK, CodeEntry
<1>3. codes' = [codes EXCEPT ![c] = spent]
  BY DEF SpendCode
<1>4. codes' \in [Codes -> CodeEntry] /\ CodesOK'
  BY <1>1, <1>2, <1>3 DEF WellFormed, TypeOK, CodesOK, EntryOK
<1>5. UNCHANGED <<now, grants, upstream, revokedAt, clientUntil, minted, provider,
                  refused, ended, outran, begun, faults>>
  BY DEF SpendCode
<1>6. CASE End(r) /\ UNCHANGED signIn
  <2>1. /\ pc' \in [Requests -> Labels] /\ req' \in [Requests -> Locals]
        /\ LocalsOK'
    BY <1>5, <1>6, EndOK, GotoType, LocalsStep DEF Monotone, minted, WellFormed
  <2> QED
    BY <1>4, <1>5, <1>6, <2>1 DEF WellFormed, TypeOK, TokensOK, minted
<1>7. CASE /\ entry.state = "active"
           /\ \E k \in {key \in Keys : signIn[key] = None} :
                /\ signIn' = [signIn EXCEPT ![k] =
                     [code |-> c, user |-> entry.tokens.user, at |-> entry.tokens.issuedAt]]
                /\ Goto(r, "keepUpstream", [NoLocals EXCEPT !.key = k, !.fresh = entry.tokens,
                                               !.owner = entry.client, !.at = now])
  <2>1. PICK k \in Keys :
          /\ signIn[k] = None
          /\ signIn' = [signIn EXCEPT ![k] =
               [code |-> c, user |-> entry.tokens.user, at |-> entry.tokens.issuedAt]]
          /\ Goto(r, "keepUpstream", [NoLocals EXCEPT !.key = k, !.fresh = entry.tokens,
                                         !.owner = entry.client, !.at = now])
    BY <1>7
  <2> DEFINE next == [NoLocals EXCEPT !.key = k, !.fresh = entry.tokens, !.owner = entry.client,
                                      !.at = now]
             given == [code |-> c, user |-> entry.tokens.user, at |-> entry.tokens.issuedAt]
  <2>2. entry.tokens \in Tokens /\ entry.client \in Clients
    BY <1>1, <1>7 DEF EntryOK
  <2>3. /\ next \in Locals /\ next.key = k /\ next.fresh \in Tokens
        /\ next.owner \in Clients /\ next.jti = 0 /\ next.issued = {}
    BY <2>2 DEF Locals, NoLocals, Time, WellFormed, TypeOK
  <2>4. given \in SignIn
    BY <1>1, <2>2 DEF SignIn, Tokens
  <2>5. signIn' \in [Keys -> SignIn \cup {None}] /\ signIn'[k] # None
    BY <2>1, <2>4, NoneAssumption DEF WellFormed, TypeOK
  <2>51. Monotone
    BY <2>1, <1>5 DEF WellFormed, TypeOK, Monotone, minted
  <2>52. PICK l \in Locals : /\ Goto(r, "keepUpstream", l)
                             /\ l.key = k /\ l.fresh \in Tokens
                             /\ l.owner \in Clients /\ l.jti = 0 /\ l.issued = {}
    BY <2>1, <2>3
  <2>6. LocalOK("keepUpstream", l)'
    BY <2>52, <2>5 DEF LocalOK, Holding, InRotate, Issuing
  <2>61. "keepUpstream" \in Labels
    BY DEF Labels
  <2>7. /\ pc' \in [Requests -> Labels] /\ req' \in [Requests -> Locals]
        /\ LocalsOK'
    BY <2>52, <2>51, <2>6, <2>61, GotoType, LocalsStep DEF WellFormed
  <2>8. TokensOK'
    BY <1>5, <2>5, <2>51 DEF WellFormed, TypeOK, TokensOK, Monotone, minted, Jwt
  <2> QED
    BY <1>4, <1>5, <2>5, <2>7, <2>8 DEF WellFormed, TypeOK, minted
<1> QED
  BY <1>6, <1>7 DEF SpendCode

-----------------------------------------------------------------------------
LEMMA KeepUpstreamWF ==
  ASSUME WellFormed, NEW r \in Requests, KeepUpstream(r)
  PROVE  WellFormed'
<1>1. /\ req[r] \in Locals /\ LocalOK("keepUpstream", req[r])
      /\ req[r].key \in Keys /\ req[r].fresh \in Tokens
  BY DEF KeepUpstream, WellFormed, TypeOK, LocalsOK, LocalOK, Holding, Issuing
<1>2. PICK l \in Locals : Goto(r, "saveAccess", l) /\ LocalOK("saveAccess", l)
  <2>1. PICK l : l = [req[r] EXCEPT !.begun = req[r].at, !.at = now]
    OBVIOUS
  <2>2. l \in Locals
    BY <1>1, <2>1 DEF Locals, WellFormed, TypeOK
  <2>3. /\ l.key = req[r].key /\ l.owner = req[r].owner /\ l.jti = req[r].jti
        /\ l.fresh = req[r].fresh /\ l.issued = req[r].issued
    BY <1>1, <2>1 DEF Locals
  <2> QED
    BY <1>1, <2>1, <2>2, <2>3 DEF KeepUpstream, LocalOK, Holding, InRotate, Issuing
<1>3. UNCHANGED <<now, codes, grants, revokedAt, clientUntil, minted, provider, ghosts>>
  BY DEF KeepUpstream
<1>4. /\ pc' \in [Requests -> Labels] /\ req' \in [Requests -> Locals]
      /\ LocalsOK'
  BY <1>2, <1>3, MoveWF DEF KeepUpstream, Monotone, minted, ghosts, Labels
<1>5. UpstreamLifetime(req[r].fresh) \in Nat
  BY <1>1, GrantsAssumption DEF UpstreamLifetime, Later, Tokens
<1>6. upstream' \in [Keys -> Kept \cup {None}]
  BY <1>1, <1>5 DEF KeepUpstream, WellFormed, TypeOK, Kept, Time, Locals
<1> QED
  BY <1>3, <1>4, <1>6
  DEF WellFormed, TypeOK, CodesOK, EntryOK, TokensOK, minted, ghosts

LEMMA GrantForWF ==
  ASSUME WellFormed, NEW r \in Requests, NEW use \in {"access", "refresh"},
         NEW lifetime \in Nat, NEW next \in Labels,
         GrantFor(r, use, lifetime, next),
         req[r].key \in Keys, signIn[req[r].key] # None, req[r].owner \in Clients,
         LocalOK(next, req[r]),
         \A j \in req[r].issued : token[j] \in Jwt
  PROVE  WellFormed'
<1> DEFINE j == drawn + 1
           t == [use |-> use, client |-> req[r].owner, key |-> req[r].key, iat |-> req[r].at,
                 exp |-> req[r].at + lifetime]
<1>0. req[r] \in Locals /\ req[r].at \in Nat /\ req[r].begun \in Nat
  BY DEF WellFormed, TypeOK, Locals, Time
<1>1. j \in Jtis /\ drawn \in Nat /\ drawn' = j /\ req[r].at + lifetime \in Time
  BY <1>0, GrantsAssumption DEF GrantFor, WellFormed, TypeOK, Jtis, Time
<1>2. t \in Jwt /\ t.key = req[r].key
  BY <1>0, <1>1 DEF Jwt, Time
<1>3. token' = [token EXCEPT ![j] = t] /\ grants' = [grants EXCEPT ![j] = req[r].at + lifetime]
  BY DEF GrantFor
<1>4. /\ token' \in [Jtis -> Jwt \cup {None}] /\ grants' \in [Jtis -> Time]
      /\ token'[j] = t /\ begun' \in [Jtis -> Time]
  BY <1>0, <1>1, <1>2, <1>3 DEF GrantFor, WellFormed, TypeOK, Time
<1>5. UNCHANGED <<now, codes, upstream, revokedAt, clientUntil, handed, provider, signIn,
                  refused, ended, outran, faults>>
  BY DEF GrantFor
<1>6. token[j] = None
  BY <1>1 DEF WellFormed, TokensOK
<1>7. Monotone
  BY <1>3, <1>5, <1>6, NoneAssumption DEF Monotone, WellFormed, TypeOK
<1>8. PICK l \in Locals : /\ Goto(r, next, l)
                          /\ l = [req[r] EXCEPT !.issued = @ \cup {j}, !.at = now]
                          /\ l.issued = req[r].issued \cup {j}
  <2>1. /\ [req[r] EXCEPT !.issued = @ \cup {j}, !.at = now] \in Locals
        /\ [req[r] EXCEPT !.issued = @ \cup {j}, !.at = now].issued = req[r].issued \cup {j}
    <3>1. now \in Time
      BY DEF WellFormed, TypeOK
    <3> QED
      BY <1>0, <1>1, <3>1 DEF Locals
  <2> QED
    BY <2>1 DEF GrantFor
<1>9. \A i \in l.issued : token'[i] \in Jwt
  <2>1. req[r].issued \subseteq Jtis
    BY DEF WellFormed, TypeOK, Locals
  <2> QED
    BY <2>1, <1>2, <1>4, <1>7, <1>8 DEF Monotone
<1>10. /\ l.code = req[r].code /\ l.read = req[r].read /\ l.jti = req[r].jti
       /\ l.key = req[r].key /\ l.cur = req[r].cur /\ l.fresh = req[r].fresh
       /\ l.owner = req[r].owner /\ l.user = req[r].user
  BY <1>8 DEF WellFormed, TypeOK, Locals
<1>11. LocalOK(next, l)'
  BY <1>7, <1>9, <1>10 DEF LocalOK, IsRefresh, EntryOK, Monotone
<1>12. /\ pc' \in [Requests -> Labels] /\ req' \in [Requests -> Locals]
       /\ LocalsOK'
  BY <1>7, <1>8, <1>11, GotoType, LocalsStep DEF WellFormed
<1>13. TokensOK'
  <2>1. ASSUME NEW i \in Jtis, i <= drawn'
        PROVE  token'[i] \in Jwt /\ signIn'[token'[i].key] # None
    <3>1. CASE i = j
      BY <3>1, <1>2, <1>4, <1>5
    <3>2. CASE i # j
      <4>1. i <= drawn /\ token'[i] = token[i]
        BY <3>2, <2>1, <1>1, <1>3 DEF WellFormed, TypeOK, Jtis
      <4> QED
        BY <4>1, <1>5 DEF WellFormed, TokensOK
    <3> QED
      BY <3>1, <3>2
  <2>2. ASSUME NEW i \in Jtis, i > drawn'
        PROVE  token'[i] = None /\ grants'[i] = 0
    BY <2>2, <1>1, <1>3 DEF WellFormed, TypeOK, TokensOK, Jtis
  <2>3. \A i \in handed' : token'[i] \in Jwt
    BY <1>5, <1>7 DEF WellFormed, TypeOK, TokensOK, Monotone
  <2> QED
    BY <2>1, <2>2, <2>3, <1>5 DEF WellFormed, TokensOK
<1> QED
  BY <1>1, <1>4, <1>5, <1>12, <1>13
  DEF WellFormed, TypeOK, CodesOK, EntryOK, Jtis

LEMMA SaveAccessWF ==
  ASSUME WellFormed, NEW r \in Requests, SaveAccess(r)
  PROVE  WellFormed'
<1> DEFINE next == IF req[r].fresh.rt = 0 THEN "findClient" ELSE "saveRefresh"
<1>1. LocalOK("saveAccess", req[r])
  BY DEF SaveAccess, WellFormed, LocalsOK
<1>2. req[r].fresh.life.access \in Nat /\ next \in Labels
  BY <1>1, GrantsAssumption DEF LocalOK, Issuing, Tokens, Labels
<1>3. LocalOK(next, req[r])
  BY <1>1 DEF LocalOK, Holding, InRotate, Issuing
<1> QED
  BY <1>1, <1>2, <1>3, GrantForWF DEF SaveAccess, LocalOK, Holding, Issuing

LEMMA SaveRefreshWF ==
  ASSUME WellFormed, NEW r \in Requests, SaveRefresh(r)
  PROVE  WellFormed'
<1>1. LocalOK("saveRefresh", req[r])
  BY DEF SaveRefresh, WellFormed, LocalsOK
<1>2. req[r].fresh.life.refresh \in Nat /\ "findClient" \in Labels
  BY <1>1, GrantsAssumption DEF LocalOK, Issuing, Tokens, Labels
<1>3. LocalOK("findClient", req[r])
  BY <1>1 DEF LocalOK, Holding, InRotate, Issuing
<1> QED
  BY <1>1, <1>2, <1>3, GrantForWF DEF SaveRefresh, LocalOK, Holding, Issuing

\* Handing a request's JWTs over hands over signed JWTs.
LEMMA RespondWF ==
  ASSUME WellFormed, Monotone, NEW r \in Requests, Respond(r),
         \A j \in req[r].issued : token[j] \in Jwt
  PROVE  /\ pc' \in [Requests -> Labels] /\ req' \in [Requests -> Locals]
         /\ LocalsOK'
         /\ handed' \subseteq Jtis /\ \A j \in handed' : token'[j] \in Jwt
<1>1. req[r].issued \subseteq Jtis
  BY DEF WellFormed, TypeOK, Locals
<1>2. handed' \subseteq Jtis /\ \A j \in handed' : token'[j] \in Jwt
  BY <1>1 DEF Respond, WellFormed, TypeOK, TokensOK, Monotone
<1> QED
  BY <1>2, EndWF DEF Respond

LEMMA FindClientWF ==
  ASSUME WellFormed, NEW r \in Requests, FindClient(r)
  PROVE  WellFormed'
<1>1. req[r] \in Locals /\ LocalOK("findClient", req[r])
  BY DEF FindClient, WellFormed, TypeOK, LocalsOK
<1>2. PICK l \in Locals : /\ l = [req[r] EXCEPT !.at = now] /\ LocalOK("saveClient", l)
                          /\ \A j \in req[r].issued : token[j] \in Jwt
  <2>1. PICK l : l = [req[r] EXCEPT !.at = now]
    OBVIOUS
  <2>2. l \in Locals /\ l.owner = req[r].owner /\ l.issued = req[r].issued
    BY <1>1, <2>1 DEF Locals, WellFormed, TypeOK
  <2> QED
    BY <1>1, <2>1, <2>2 DEF LocalOK, Holding, InRotate, Issuing
<1>3. UNCHANGED <<now, store, token, drawn, provider, ghosts>> /\ Monotone
  BY DEF FindClient, Monotone, ghosts
<1>4. /\ pc' \in [Requests -> Labels] /\ req' \in [Requests -> Locals]
      /\ LocalsOK'
      /\ handed' \subseteq Jtis /\ \A j \in handed' : token'[j] \in Jwt
  <2>1. CASE Respond(r)
    BY <2>1, <1>2, <1>3, RespondWF
  <2>2. CASE Goto(r, "saveClient", l) /\ UNCHANGED handed
    BY <2>2, <1>1, <1>2, <1>3, MoveWF DEF Labels, WellFormed, TypeOK, TokensOK
  <2> QED
    BY <1>2, <2>1, <2>2 DEF FindClient
<1> QED
  BY <1>3, <1>4 DEF WellFormed, TypeOK, CodesOK, EntryOK, TokensOK, store, ghosts

LEMMA SaveClientWF ==
  ASSUME WellFormed, NEW r \in Requests, SaveClient(r)
  PROVE  WellFormed'
<1>1. req[r].owner \in Clients /\ \A j \in req[r].issued : token[j] \in Jwt
  BY DEF SaveClient, WellFormed, LocalsOK, LocalOK
<1>2. UNCHANGED <<now, codes, grants, upstream, revokedAt, token, drawn, provider, ghosts>>
  BY DEF SaveClient
<1>3. clientUntil' \in [Clients -> Time]
  BY <1>1, GrantsAssumption DEF SaveClient, WellFormed, TypeOK, Locals, Time
<1>4. /\ pc' \in [Requests -> Labels] /\ req' \in [Requests -> Locals]
      /\ LocalsOK'
      /\ handed' \subseteq Jtis /\ \A j \in handed' : token'[j] \in Jwt
  BY <1>1, <1>2, RespondWF DEF SaveClient, Monotone, ghosts
<1> QED
  BY <1>2, <1>3, <1>4 DEF WellFormed, TypeOK, CodesOK, EntryOK, TokensOK, ghosts

-----------------------------------------------------------------------------
LEMMA ClaimedWF ==
  ASSUME WellFormed, Monotone, NEW r \in Requests, NEW j, NEW client, IsRefresh(j),
         signIn[token[j].key] # None, Claimed(r, j, client)
  PROVE  /\ pc' \in [Requests -> Labels] /\ req' \in [Requests -> Locals]
         /\ LocalsOK'
<1> DEFINE label == IF client \in {None, token[j].client} THEN "findUpstream" ELSE "putBack"
           l == [NoLocals EXCEPT !.jti = j, !.key = token[j].key, !.owner = token[j].client]
<1>1. l \in Locals /\ label \in Labels
  BY DEF IsRefresh, Jwt, Locals, NoLocals, Time, Labels
<1>2. LocalOK(label, l)
  BY DEF LocalOK, IsRefresh, Jwt, NoLocals, Holding, InRotate, Issuing
<1> HIDE DEF l, label
<1> QED
  <2>1. Goto(r, label, l)
    BY DEF Claimed, l, label
  <2> QED
    BY <1>1, <1>2, <2>1, MoveWF

\* A refresh token that was handed over is one, and its sign-in is known.
LEMMA HandedRefresh ==
  ASSUME WellFormed, NEW j \in handed, token[j].use = "refresh"
  PROVE  IsRefresh(j) /\ signIn[token[j].key] # None
<1>1. j \in Jtis /\ token[j] \in Jwt
  BY DEF WellFormed, TypeOK, TokensOK
<1>2. j <= drawn
  BY <1>1, NoneAssumption, GrantsAssumption DEF WellFormed, TypeOK, TokensOK, Jtis
<1> QED
  BY <1>1, <1>2 DEF IsRefresh, WellFormed, TokensOK

LEMMA ClaimRefreshWF ==
  ASSUME WellFormed, NEW r \in Requests, NEW j \in Jtis, NEW client \in Clients \cup {None},
         ClaimRefresh(r, j, client)
  PROVE  WellFormed'
<1>1. IsRefresh(j) /\ signIn[token[j].key] # None
  BY HandedRefresh DEF ClaimRefresh
<1>2. UNCHANGED <<now, codes, upstream, revokedAt, clientUntil, minted, provider, ghosts>>
  BY DEF ClaimRefresh
<1>3. /\ pc' \in [Requests -> Labels] /\ req' \in [Requests -> Locals]
      /\ LocalsOK'
  BY <1>1, <1>2, ClaimedWF DEF ClaimRefresh, Monotone, minted, ghosts
<1>4. grants' \in [Jtis -> Time] /\ \A i \in Jtis : grants'[i] \in {0, grants[i]}
  BY DEF ClaimRefresh, RemovedGrant, WellFormed, TypeOK, Time
<1> QED
  BY <1>2, <1>3, <1>4 DEF WellFormed, TypeOK, CodesOK, EntryOK, TokensOK, minted, ghosts

LEMMA ReadGrantWF ==
  ASSUME WellFormed, NEW r \in Requests, NEW j \in Jtis, NEW client \in Clients \cup {None},
         ReadGrant(r, j, client)
  PROVE  WellFormed'
<1> DEFINE l == [NoLocals EXCEPT !.client = client, !.jti = j]
<1>1. IsRefresh(j)
  BY HandedRefresh DEF ReadGrant
<1>2. l \in Locals /\ "deleteGrant" \in Labels
  BY DEF Locals, NoLocals, Time, Labels
<1>3. LocalOK("deleteGrant", l)
  BY <1>1 DEF LocalOK, NoLocals, Holding, InRotate, Issuing
<1>4. UNCHANGED <<now, store, minted, provider, ghosts>>
  BY DEF ReadGrant
<1>5. /\ pc' \in [Requests -> Labels] /\ req' \in [Requests -> Locals]
      /\ LocalsOK'
  BY <1>2, <1>3, <1>4, MoveWF DEF ReadGrant, Monotone, minted, ghosts
<1> QED
  BY <1>4, <1>5 DEF WellFormed, TypeOK, CodesOK, EntryOK, TokensOK, store, minted, ghosts

LEMMA DeleteGrantWF ==
  ASSUME WellFormed, NEW r \in Requests, DeleteGrant(r)
  PROVE  WellFormed'
<1> DEFINE j == req[r].jti
<1>1. IsRefresh(j)
  BY DEF DeleteGrant, WellFormed, LocalsOK, LocalOK
<1>2. signIn[token[j].key] # None
  <2>1. j <= drawn
    BY <1>1, NoneAssumption, GrantsAssumption DEF IsRefresh, WellFormed, TypeOK, TokensOK, Jtis
  <2> QED
    BY <1>1, <2>1 DEF IsRefresh, WellFormed, TokensOK
<1>3. UNCHANGED <<now, codes, upstream, revokedAt, clientUntil, minted, provider, ghosts>>
  BY DEF DeleteGrant
<1>4. /\ pc' \in [Requests -> Labels] /\ req' \in [Requests -> Locals]
      /\ LocalsOK'
  BY <1>1, <1>2, <1>3, ClaimedWF DEF DeleteGrant, Monotone, minted, ghosts
<1>5. grants' \in [Jtis -> Time] /\ \A i \in Jtis : grants'[i] \in {0, grants[i]}
  BY DEF DeleteGrant, RemovedGrant, WellFormed, TypeOK, Time
<1> QED
  BY <1>3, <1>4, <1>5 DEF WellFormed, TypeOK, CodesOK, EntryOK, TokensOK, minted, ghosts

\* The steps of rotate that only move a request on, or refuse its sign-in.
LEMMA RotateWF ==
  ASSUME WellFormed, Monotone, NEW r \in Requests, NEW label \in Labels, NEW l \in Locals,
         \/ Goto(r, label, l) /\ LocalOK(label, l) /\ UNCHANGED refused
         \/ Refuse(r) /\ LocalOK(pc[r], req[r]) /\ pc[r] \in Holding,
         UNCHANGED <<now, store, minted, signIn, ended, begun>>,
         provider' \in [Codes -> Nat], outran' \in [Keys -> Time], faults' \in Nat
  PROVE  WellFormed'
<1>1. /\ pc' \in [Requests -> Labels] /\ req' \in [Requests -> Locals]
      /\ LocalsOK'
  BY MoveWF, EndWF DEF Refuse
<1>2. refused' \subseteq Keys /\ \A k \in refused' : signIn[k] # None
  BY DEF Refuse, LocalOK, WellFormed, TypeOK, TokensOK
<1> QED
  BY <1>1, <1>2 DEF WellFormed, TypeOK, CodesOK, EntryOK, TokensOK, store, minted

LEMMA FindUpstreamWF ==
  ASSUME WellFormed, NEW r \in Requests, FindUpstream(r)
  PROVE  WellFormed'
<1>1. /\ req[r] \in Locals /\ LocalOK("findUpstream", req[r]) /\ req[r].key \in Keys
  BY DEF FindUpstream, WellFormed, TypeOK, LocalsOK, LocalOK, Holding, InRotate
<1>2. UNCHANGED <<now, store, minted, provider, ghosts>> /\ Monotone
  BY DEF FindUpstream, Monotone, minted, ghosts
<1>3. /\ provider' \in [Codes -> Nat] /\ outran' \in [Keys -> Time] /\ faults' \in Nat
      /\ UNCHANGED <<signIn, ended, begun, refused>>
  BY <1>2 DEF WellFormed, TypeOK, ghosts
<1>4. CASE Found(req[r].key)
  <2> DEFINE l == [req[r] EXCEPT !.cur = upstream[req[r].key].tokens]
  <2>1. upstream[req[r].key].tokens \in Tokens
    BY <1>1, <1>4 DEF Found, Kept, WellFormed, TypeOK
  <2>2. l \in Locals /\ l.cur \in Tokens /\ "checkRevoked" \in Labels
    BY <1>1, <2>1 DEF Locals, Labels
  <2>3. LocalOK("checkRevoked", l)
    BY <1>1, <2>2 DEF LocalOK, Locals, Holding, InRotate, Issuing
  <2> QED
    BY <1>2, <1>3, <1>4, <2>2, <2>3, RotateWF DEF FindUpstream
<1>5. CASE ~Found(req[r].key)
  <2>1. LocalOK("putBack", req[r]) /\ "putBack" \in Labels
    BY <1>1 DEF LocalOK, Holding, InRotate, Issuing, Labels
  <2> QED
    BY <1>1, <1>2, <1>3, <1>5, <2>1, RotateWF DEF FindUpstream
<1> QED
  BY <1>4, <1>5

LEMMA CheckRevokedWF ==
  ASSUME WellFormed, NEW r \in Requests, CheckRevoked(r)
  PROVE  WellFormed'
<1> DEFINE label == IF req[r].cur.rt = 0 THEN "putBack" ELSE "ask"
<1>1. /\ req[r] \in Locals /\ LocalOK("checkRevoked", req[r])
      /\ pc[r] = "checkRevoked" /\ pc[r] \in Holding
  BY DEF CheckRevoked, WellFormed, TypeOK, LocalsOK, Holding, InRotate
<1>2. LocalOK(label, req[r]) /\ label \in Labels
  BY <1>1 DEF LocalOK, Holding, InRotate, Issuing, Labels
<1>3. /\ UNCHANGED <<now, store, minted, provider, signIn, ended, outran, begun, faults>>
      /\ Monotone
      /\ provider' \in [Codes -> Nat] /\ outran' \in [Keys -> Time] /\ faults' \in Nat
  BY DEF CheckRevoked, Monotone, minted, WellFormed, TypeOK
<1> QED
  BY <1>1, <1>2, <1>3, RotateWF DEF CheckRevoked

LEMMA ProviderAnswersWF ==
  ASSUME WellFormed, NEW r \in Requests, ProviderAnswers(r)
  PROVE  WellFormed'
<1> DEFINE cur == req[r].cur
           answer(rt, user, life) == [session |-> cur.session, user |-> user,
                                      issuedAt |-> now, rt |-> rt, life |-> life]
           l(rt, user, life) == [req[r] EXCEPT !.fresh = answer(rt, user, life)]
<1>1. /\ req[r] \in Locals /\ LocalOK("ask", req[r]) /\ cur \in Tokens
  BY DEF ProviderAnswers, WellFormed, TypeOK, LocalsOK, LocalOK
<1>2. PICK rt \in {cur.rt, cur.rt + 1}, user \in {cur.user, None}, life \in Lifetimes :
        /\ provider' = [provider EXCEPT ![cur.session] = rt]
        /\ Goto(r, "recheck", l(rt, user, life))
  BY DEF ProviderAnswers
<1>3. rt \in Nat /\ answer(rt, user, life) \in Tokens
  BY <1>1 DEF Tokens, WellFormed, TypeOK
<1>4. l(rt, user, life) \in Locals /\ l(rt, user, life).fresh \in Tokens
  BY <1>1, <1>3 DEF Locals
<1>5. LocalOK("recheck", l(rt, user, life)) /\ "recheck" \in Labels
  BY <1>1, <1>4 DEF LocalOK, Locals, Holding, InRotate, Issuing, Labels
<1>6. UNCHANGED <<now, store, minted, ghosts>> /\ Monotone
  BY DEF ProviderAnswers, Monotone, minted, ghosts
<1>7. /\ provider' \in [Codes -> Nat] /\ outran' \in [Keys -> Time] /\ faults' \in Nat
      /\ UNCHANGED <<signIn, ended, begun, refused>>
  BY <1>1, <1>2, <1>3, <1>6 DEF WellFormed, TypeOK, Tokens, ghosts
<1> QED
  BY <1>2, <1>4, <1>5, <1>6, <1>7, RotateWF

LEMMA ProviderFailsWF ==
  ASSUME WellFormed, NEW r \in Requests, ProviderFails(r)
  PROVE  WellFormed'
<1>1. req[r] \in Locals /\ LocalOK("ask", req[r])
  BY DEF ProviderFails, WellFormed, TypeOK, LocalsOK
<1>2. LocalOK("putBack", req[r]) /\ "putBack" \in Labels
  BY <1>1 DEF LocalOK, Holding, InRotate, Issuing, Labels
<1>3. UNCHANGED <<now, store, minted, signIn, refused, ended, outran, begun>> /\ Monotone
  BY DEF ProviderFails, Monotone, minted
<1>4. provider' \in [Codes -> Nat] /\ outran' \in [Keys -> Time] /\ faults' \in Nat
  BY DEF ProviderFails, Fault, WellFormed, TypeOK
<1> QED
  BY <1>1, <1>2, <1>3, <1>4, RotateWF DEF ProviderFails

LEMMA RecheckWF ==
  ASSUME WellFormed, NEW r \in Requests, Recheck(r)
  PROVE  WellFormed'
<1> DEFINE tokens == Merged(req[r].cur, req[r].fresh)
           l == [req[r] EXCEPT !.fresh = tokens, !.cur = None, !.at = now]
<1>1. /\ req[r] \in Locals /\ LocalOK("recheck", req[r]) /\ req[r].key \in Keys
      /\ pc[r] = "recheck" /\ pc[r] \in Holding
      /\ req[r].cur \in Tokens /\ req[r].fresh \in Tokens
  BY DEF Recheck, WellFormed, TypeOK, LocalsOK, LocalOK, Holding, InRotate
<1>2. tokens \in Tokens
  BY <1>1 DEF Merged, Tokens
<1>3. l \in Locals /\ l.fresh \in Tokens /\ "keepUpstream" \in Labels
  BY <1>1, <1>2 DEF Locals, Labels, WellFormed, TypeOK
<1>4. LocalOK("keepUpstream", l)
  BY <1>1, <1>3 DEF LocalOK, Locals, Holding, InRotate, Issuing
<1>5. /\ UNCHANGED <<now, store, minted, provider, signIn, ended, begun, faults>> /\ Monotone
      /\ provider' \in [Codes -> Nat] /\ faults' \in Nat
  BY DEF Recheck, Monotone, minted, WellFormed, TypeOK
<1>51. outran' \in [Keys -> Time]
  BY <1>1, <1>2 DEF Recheck, Later, Tokens, WellFormed, TypeOK
<1>6. CASE Refuse(r)
  BY <1>1, <1>5, <1>51, <1>6, <1>3, RotateWF
<1>7. CASE Goto(r, "keepUpstream", l) /\ UNCHANGED refused
  BY <1>3, <1>4, <1>5, <1>51, <1>7, RotateWF
<1> QED
  BY <1>6, <1>7 DEF Recheck

LEMMA PutBackWF ==
  ASSUME WellFormed, NEW r \in Requests, PutBack(r)
  PROVE  WellFormed'
<1> DEFINE j == req[r].jti
<1>1. IsRefresh(j)
  BY DEF PutBack, WellFormed, LocalsOK, LocalOK
<1>2. j <= drawn
  BY <1>1, NoneAssumption, GrantsAssumption DEF IsRefresh, WellFormed, TypeOK, TokensOK, Jtis
<1>3. UNCHANGED <<now, codes, upstream, revokedAt, clientUntil, minted, provider, ghosts>>
  BY DEF PutBack
<1>4. /\ grants' \in [Jtis -> Time]
      /\ \A i \in Jtis : i > drawn => grants'[i] = grants[i]
  BY <1>1, <1>2 DEF PutBack, Restored, IsRefresh, Jwt, WellFormed, TypeOK, Jtis
<1>5. /\ pc' \in [Requests -> Labels] /\ req' \in [Requests -> Locals]
      /\ LocalsOK'
  BY <1>3, EndWF DEF PutBack, Monotone, minted, ghosts
<1> QED
  BY <1>3, <1>4, <1>5 DEF WellFormed, TypeOK, CodesOK, EntryOK, TokensOK, minted, ghosts

LEMMA RevokeUserWF ==
  ASSUME WellFormed, NEW r \in Requests, NEW u \in Users, RevokeUser(r, u)
  PROVE  WellFormed'
<1> DEFINE l == [NoLocals EXCEPT !.user = u, !.at = now]
<1>1. l \in Locals /\ "saveRevocation" \in Labels
  BY DEF Locals, NoLocals, Time, Labels, WellFormed, TypeOK
<1>2. LocalOK("saveRevocation", l)
  BY DEF LocalOK, NoLocals, Holding, InRotate, Issuing
<1>3. UNCHANGED <<now, store, minted, provider, ghosts>> /\ Monotone
  BY DEF RevokeUser, Monotone, minted, ghosts
<1>4. /\ provider' \in [Codes -> Nat] /\ outran' \in [Keys -> Time] /\ faults' \in Nat
      /\ UNCHANGED <<signIn, ended, begun, refused>>
  BY <1>3 DEF WellFormed, TypeOK, ghosts
<1>5. Goto(r, "saveRevocation", l)
  BY DEF RevokeUser
<1> HIDE DEF l
<1> QED
  BY <1>1, <1>2, <1>3, <1>4, <1>5, RotateWF

LEMMA SaveRevocationWF ==
  ASSUME WellFormed, NEW r \in Requests, SaveRevocation(r)
  PROVE  WellFormed'
<1>1. req[r].user \in Users /\ req[r].at \in Time
  BY DEF SaveRevocation, WellFormed, TypeOK, LocalsOK, LocalOK, Locals
<1>2. revokedAt' \in [Users -> Time] /\ ended' \in [Users -> Time]
  BY <1>1 DEF SaveRevocation, Later, WellFormed, TypeOK
<1>3. UNCHANGED <<now, codes, grants, upstream, clientUntil, minted, provider, signIn,
                  refused, outran, begun, faults>>
  BY DEF SaveRevocation
<1>4. /\ pc' \in [Requests -> Labels] /\ req' \in [Requests -> Locals]
      /\ LocalsOK'
  BY <1>3, EndWF DEF SaveRevocation, Monotone, minted
<1> QED
  BY <1>2, <1>3, <1>4 DEF WellFormed, TypeOK, CodesOK, EntryOK, TokensOK, minted

-----------------------------------------------------------------------------
LEMMA StoreFailsWF ==
  ASSUME WellFormed, NEW r \in Requests, StoreFails(r)
  PROVE  WellFormed'
<1>1. /\ UNCHANGED <<now, store, token, drawn, provider, signIn, refused, ended, outran, begun>>
      /\ Monotone
  BY DEF StoreFails, Monotone
<1>2. faults' \in Nat
  BY DEF StoreFails, Fault, WellFormed, TypeOK
<1>3. req[r] \in Locals /\ LocalOK(pc[r], req[r])
  BY DEF WellFormed, TypeOK, LocalsOK
<1>4. /\ pc' \in [Requests -> Labels] /\ req' \in [Requests -> Locals]
      /\ LocalsOK'
      /\ handed' \subseteq Jtis /\ \A j \in handed' : token'[j] \in Jwt
  <2>1. CASE /\ pc[r] \in InRotate \/ (pc[r] \in Issuing /\ req[r].jti # 0)
             /\ Goto(r, "putBack", req[r])
             /\ UNCHANGED handed
    <3>1. LocalOK("putBack", req[r]) /\ "putBack" \in Labels
      BY <1>3, <2>1 DEF LocalOK, Holding, InRotate, Issuing, Labels
    <3> QED
      BY <1>1, <1>3, <2>1, <3>1, MoveWF DEF WellFormed, TypeOK, TokensOK
  <2>2. CASE End(r) /\ UNCHANGED handed
    BY <1>1, <2>2, EndWF DEF WellFormed, TypeOK, TokensOK
  <2>3. CASE pc[r] \in {"findClient", "saveClient"} /\ Respond(r)
    BY <1>1, <1>3, <2>3, RespondWF DEF LocalOK
  <2> QED
    BY <2>1, <2>2, <2>3 DEF StoreFails
<1> QED
  BY <1>1, <1>2, <1>4 DEF WellFormed, TypeOK, CodesOK, EntryOK, TokensOK, store

LEMMA CrashWF ==
  ASSUME WellFormed, NEW r \in Requests, Crash(r)
  PROVE  WellFormed'
<1>1. /\ UNCHANGED <<now, store, minted, provider, signIn, refused, ended, outran, begun>>
      /\ faults' \in Nat
  BY DEF Crash, Fault, WellFormed, TypeOK
<1>2. /\ pc' \in [Requests -> Labels] /\ req' \in [Requests -> Locals]
      /\ LocalsOK'
  BY <1>1, EndWF DEF Crash, Monotone, minted
<1> QED
  BY <1>1, <1>2 DEF WellFormed, TypeOK, CodesOK, EntryOK, TokensOK, store, minted

LEMMA TickWF ==
  ASSUME WellFormed, Tick
  PROVE  WellFormed'
<1>1. now' \in Time /\ UNCHANGED <<pc, req, store, minted, provider, ghosts>>
  BY DEF Tick, WellFormed, TypeOK, Time
<1>2. LocalsOK'
  BY <1>1, LocalsStay DEF Monotone, minted, ghosts
<1> QED
  BY <1>1, <1>2 DEF WellFormed, TypeOK, CodesOK, EntryOK, TokensOK, store, minted, ghosts

LEMMA StepWellFormed == WellFormed /\ [Next]_vars => WellFormed'
<1> SUFFICES ASSUME WellFormed, [Next]_vars PROVE WellFormed'
  OBVIOUS
<1>1. ASSUME NEW r \in Requests, Continue(r) PROVE WellFormed'
  BY <1>1, TakeCodeWF, ReadCodeWF, DeleteCodeWF, SpendCodeWF, KeepUpstreamWF, SaveAccessWF,
     SaveRefreshWF, FindClientWF, SaveClientWF, DeleteGrantWF, FindUpstreamWF,
     CheckRevokedWF, ProviderAnswersWF, ProviderFailsWF, RecheckWF, PutBackWF,
     SaveRevocationWF DEF Continue
<1>2. CASE UNCHANGED vars
  <2>1. LocalsOK'
    BY <1>2, LocalsStay DEF vars, Monotone, minted, ghosts
  <2> QED
    BY <1>2, <2>1
    DEF WellFormed, TypeOK, CodesOK, EntryOK, TokensOK, vars, store, minted, ghosts
<1>3. CASE Next
  BY <1>1, <1>3, IssueCodeWF, StartRedeemWF, ClaimRefreshWF, ReadGrantWF, RevokeUserWF,
     StoreFailsWF, CrashWF, TickWF DEF Next
<1> QED
  BY <1>2, <1>3

THEOREM SpecWellFormed == Spec => []WellFormed
  BY InitWellFormed, StepWellFormed, PTL DEF Spec

(* Each variable has its type in every reachable state, for any constants. *)
THEOREM TypeCorrect == Spec => []TypeOK
<1>1. WellFormed => TypeOK
  BY DEF WellFormed
<1> QED
  BY <1>1, SpecWellFormed, PTL

-----------------------------------------------------------------------------
(* One refresh token for each sign-in, when the store's take is atomic.  What *)
(* TLC shows for a few requests is inductive together with WellFormed: a key  *)
(* that was not drawn yet has no holder, no stored token and no refusal.      *)

NoSeparateDelete == \A r \in Requests : pc[r] # "deleteGrant"

OneInv == WellFormed /\ NoSeparateDelete /\ OneRefreshToken

\* A step of r that gains no right to refresh, stores no refresh token and refuses nobody.
LEMMA GainsNothing ==
  ASSUME OneRefreshToken, UNCHANGED refused,
         \A q \in Requests, k \in Keys : Holds(q, k)' => Holds(q, k),
         \A j \in Jtis, k \in Keys : StoredRefresh(j, k)' => StoredRefresh(j, k)
  PROVE  OneRefreshToken'
  BY DEF OneRefreshToken

\* The same, said of the one request that moves.
LEMMA MovesOnly ==
  ASSUME WellFormed, OneRefreshToken, NEW r \in Requests, NEW label \in Labels,
         NEW l \in Locals, Goto(r, label, l),
         label \in Holding => pc[r] \in Holding /\ l.key = req[r].key,
         UNCHANGED <<token, refused>>,
         \A j \in Jtis : grants'[j] # 0 => grants[j] # 0
  PROVE  OneRefreshToken'
<1>1. /\ pc'[r] = label /\ req'[r] = l
      /\ \A q \in Requests \ {r} : pc'[q] = pc[q] /\ req'[q] = req[q]
  BY GotoType DEF WellFormed
<1>2. \A q \in Requests, k \in Keys : Holds(q, k)' => Holds(q, k)
  BY <1>1 DEF Holds
<1>3. \A j \in Jtis, k \in Keys : StoredRefresh(j, k)' => StoredRefresh(j, k)
  BY DEF StoredRefresh
<1> QED
  BY <1>2, <1>3, GainsNothing

LEMMA EndsOnly ==
  ASSUME WellFormed, OneRefreshToken, NEW r \in Requests, End(r),
         UNCHANGED <<token, refused>>,
         \A j \in Jtis : grants'[j] # 0 => grants[j] # 0
  PROVE  OneRefreshToken'
  BY EndOK, MovesOnly DEF Holding, InRotate, Issuing

\* A request that moves on with what it has, or drops it.
LEMMA CarriesOn ==
  ASSUME WellFormed, OneRefreshToken, NEW r \in Requests,
         \/ End(r)
         \/ \E label \in Labels, l \in Locals :
              /\ Goto(r, label, l)
              /\ label \in Holding => pc[r] \in Holding /\ l.key = req[r].key,
         UNCHANGED <<token, grants, refused>>
  PROVE  OneRefreshToken'
  BY EndsOnly, MovesOnly

LEMMA RefusesOnly ==
  ASSUME WellFormed, OneRefreshToken, NEW r \in Requests, pc[r] \in Holding, Refuse(r),
         UNCHANGED <<token, grants>>
  PROVE  OneRefreshToken'
<1>1. /\ pc'[r] = "idle"
      /\ \A q \in Requests \ {r} : pc'[q] = pc[q] /\ req'[q] = req[q]
  BY EndOK, GotoType DEF Refuse, WellFormed
<1>2. \A q \in Requests, k \in Keys : Holds(q, k)' => Holds(q, k) /\ q # r
  BY <1>1 DEF Holds, Holding, InRotate, Issuing
<1>3. \A j \in Jtis, k \in Keys : StoredRefresh(j, k)' <=> StoredRefresh(j, k)
  BY DEF StoredRefresh
<1>4. req[r].key \in Keys => Holds(r, req[r].key)
  BY DEF Holds
<1>5. refused' = refused \cup {req[r].key}
  BY DEF Refuse
<1>6. ASSUME NEW k \in Keys, k \in refused'
      PROVE  /\ \A q \in Requests : ~Holds(q, k)'
             /\ \A j \in Jtis : ~StoredRefresh(j, k)'
  <2>1. CASE k = req[r].key
    BY <2>1, <1>2, <1>3, <1>4 DEF OneRefreshToken
  <2>2. CASE k # req[r].key
    BY <2>2, <1>2, <1>3, <1>5, <1>6 DEF OneRefreshToken
  <2> QED
    BY <2>1, <2>2
<1> QED
  BY <1>2, <1>3, <1>6 DEF OneRefreshToken

\* A code that is spent draws a key nobody has.
LEMMA SpendCodeOne ==
  ASSUME WellFormed, OneRefreshToken, NEW r \in Requests, SpendCode(r)
  PROVE  OneRefreshToken'
<1>1. UNCHANGED <<grants, token, refused>>
  BY DEF SpendCode, minted
<1>2. CASE End(r)
  BY <1>1, <1>2, CarriesOn
<1>3. CASE \E k \in {key \in Keys : signIn[key] = None} :
             Goto(r, "keepUpstream", [NoLocals EXCEPT !.key = k, !.fresh = req[r].read.tokens,
                                         !.owner = req[r].read.client, !.at = now])
  <2>1. PICK k \in Keys :
          /\ signIn[k] = None
          /\ Goto(r, "keepUpstream", [NoLocals EXCEPT !.key = k, !.fresh = req[r].read.tokens,
                                         !.owner = req[r].read.client, !.at = now])
    BY <1>3
  <2>2. /\ pc'[r] = "keepUpstream" /\ req'[r].key = k
        /\ \A q \in Requests \ {r} : pc'[q] = pc[q] /\ req'[q] = req[q]
    BY <2>1 DEF Goto, WellFormed, TypeOK, NoLocals
  <2>3. k \notin refused
    BY <2>1 DEF WellFormed, TokensOK
  <2>4. \A q \in Requests : ~Holds(q, k)
    BY <2>1 DEF Holds, WellFormed, LocalsOK, LocalOK
  <2>5. \A j \in Jtis : ~StoredRefresh(j, k)
    <3>1. \A j \in Jtis : j <= drawn \/ j > drawn
      BY GrantsAssumption DEF WellFormed, TypeOK, Jtis
    <3> QED
      BY <3>1, <2>1 DEF StoredRefresh, WellFormed, TokensOK
  <2>6. \A q \in Requests, k2 \in Keys :
          Holds(q, k2)' => IF q = r THEN k2 = k ELSE Holds(q, k2) /\ k2 # k
    BY <2>2, <2>4 DEF Holds
  <2>7. \A j \in Jtis, k2 \in Keys : StoredRefresh(j, k2)' => StoredRefresh(j, k2) /\ k2 # k
    BY <1>1, <2>5 DEF StoredRefresh
  <2> QED
    BY <1>1, <2>3, <2>6, <2>7 DEF OneRefreshToken
<1> QED
  BY <1>2, <1>3 DEF SpendCode

\* Signing and saving an access token, or saving the refresh token r holds the right to.
LEMMA GrantForOne ==
  ASSUME WellFormed, OneRefreshToken, NEW r \in Requests, NEW use \in {"access", "refresh"},
         NEW lifetime \in Nat, NEW next \in Labels,
         GrantFor(r, use, lifetime, next), pc[r] \in Holding, req[r].key \in Keys,
         next \in Holding => use = "access"
  PROVE  OneRefreshToken'
<1>0. PICK kr \in Keys : kr = req[r].key
  OBVIOUS
<1>1. PICK j \in Jtis : j = drawn + 1
  BY GrantsAssumption DEF GrantFor, WellFormed, TypeOK, Jtis
<1>2. /\ token' = [token EXCEPT ![j] = [use |-> use, client |-> req[r].owner, key |-> kr,
                                        iat |-> req[r].at, exp |-> req[r].at + lifetime]]
      /\ grants' = [grants EXCEPT ![j] = req[r].at + lifetime]
      /\ UNCHANGED refused
  BY <1>0, <1>1 DEF GrantFor
<1>3. /\ pc' = [pc EXCEPT ![r] = next]
      /\ req' = [req EXCEPT ![r] = [req[r] EXCEPT !.issued = @ \cup {j}, !.at = now]]
  BY <1>1 DEF GrantFor, Goto
<1>4. /\ pc'[r] = next /\ req'[r].key = kr
      /\ \A q \in Requests \ {r} : pc'[q] = pc[q] /\ req'[q] = req[q]
  BY <1>0, <1>3 DEF WellFormed, TypeOK, Locals
<1>5. Holds(r, kr)
  BY <1>0 DEF Holds
<1>6. \A q \in Requests, k \in Keys : Holds(q, k)' => Holds(q, k)
  BY <1>4, <1>5 DEF Holds
<1>7. CASE use = "access"
  <2>1. \A i \in Jtis, k \in Keys : StoredRefresh(i, k)' => StoredRefresh(i, k)
    BY <1>1, <1>2, <1>7 DEF StoredRefresh, WellFormed, TypeOK
  <2> QED
    BY <1>2, <1>6, <2>1, GainsNothing
<1>8. CASE use = "refresh"
  <2>1. \A i \in Jtis, k \in Keys :
          StoredRefresh(i, k)' => StoredRefresh(i, k) \/ (i = j /\ k = kr)
    BY <1>1, <1>2, <1>8 DEF StoredRefresh, WellFormed, TypeOK
  <2>2. \A q \in Requests : ~Holds(q, kr)'
    <3>1. next \notin Holding
      BY <1>8
    <3>2. \A q \in Requests \ {r} : ~Holds(q, kr)
      BY <1>5 DEF OneRefreshToken
    <3> QED
      BY <1>4, <3>1, <3>2 DEF Holds
  <2>3. kr \notin refused /\ \A i \in Jtis : ~StoredRefresh(i, kr)
    BY <1>5 DEF OneRefreshToken
  <2> QED
    BY <1>2, <1>6, <2>1, <2>2, <2>3 DEF OneRefreshToken
<1> QED
  BY <1>7, <1>8

LEMMA SaveAccessOne ==
  ASSUME WellFormed, OneRefreshToken, NEW r \in Requests, SaveAccess(r)
  PROVE  OneRefreshToken'
<1>1. LocalOK("saveAccess", req[r]) /\ pc[r] \in Holding
  BY DEF SaveAccess, WellFormed, LocalsOK, Holding, Issuing
<1>2. req[r].fresh.life.access \in Nat /\ req[r].key \in Keys
  BY <1>1, GrantsAssumption DEF LocalOK, Holding, Issuing, Tokens
<1> QED
  BY <1>1, <1>2, GrantForOne DEF SaveAccess, Labels

LEMMA SaveRefreshOne ==
  ASSUME WellFormed, OneRefreshToken, NEW r \in Requests, SaveRefresh(r)
  PROVE  OneRefreshToken'
<1>1. LocalOK("saveRefresh", req[r]) /\ pc[r] \in Holding
  BY DEF SaveRefresh, WellFormed, LocalsOK, Holding, Issuing
<1>2. req[r].fresh.life.refresh \in Nat /\ req[r].key \in Keys
  BY <1>1, GrantsAssumption DEF LocalOK, Holding, Issuing, Tokens
<1>3. "findClient" \notin Holding /\ "findClient" \in Labels
  BY DEF Holding, InRotate, Issuing, Labels
<1> QED
  BY <1>1, <1>2, <1>3, GrantForOne DEF SaveRefresh

\* A refresh token that is claimed leaves the store in the same step.
LEMMA ClaimRefreshOne ==
  ASSUME WellFormed, OneRefreshToken, NEW r \in Requests, NEW j \in Jtis,
         NEW client \in Clients \cup {None}, ClaimRefresh(r, j, client)
  PROVE  OneRefreshToken'
<1>0. IsRefresh(j) /\ token[j].key \in Keys /\ grants[j] # 0
  BY HandedRefresh DEF ClaimRefresh, IsRefresh, Jwt, Current
<1>1. PICK kr \in Keys : kr = token[j].key
  BY <1>0
<1>2. StoredRefresh(j, kr)
  BY <1>0, <1>1, NoneAssumption DEF StoredRefresh, IsRefresh
<1>3. grants' = [grants EXCEPT ![j] = 0] /\ UNCHANGED <<token, refused>>
  BY DEF ClaimRefresh, RemovedGrant, minted, ghosts
<1>4. /\ req'[r].key = kr
      /\ \A q \in Requests \ {r} : pc'[q] = pc[q] /\ req'[q] = req[q]
  BY <1>1 DEF ClaimRefresh, Claimed, Goto, WellFormed, TypeOK, NoLocals
<1>5. \A i \in Jtis, k \in Keys : StoredRefresh(i, k)' => StoredRefresh(i, k) /\ i # j
  BY <1>3 DEF StoredRefresh, WellFormed, TypeOK
<1>6. \A i \in Jtis : ~StoredRefresh(i, kr)'
  BY <1>1, <1>2, <1>5 DEF OneRefreshToken
<1>7. \A q \in Requests, k \in Keys : Holds(q, k)' => Holds(q, k) \/ (q = r /\ k = kr)
  BY <1>4 DEF Holds
<1>8. \A q \in Requests, k \in Keys : Holds(q, k)' /\ q = r => k = kr
  BY <1>4 DEF Holds
<1>9. kr \notin refused /\ \A q \in Requests : ~Holds(q, kr)
  BY <1>1, <1>2 DEF OneRefreshToken
<1> QED
  BY <1>3, <1>5, <1>6, <1>7, <1>8, <1>9 DEF OneRefreshToken

\* A refresh token that is put back is let go of in the same step.
LEMMA PutBackOne ==
  ASSUME WellFormed, OneRefreshToken, NEW r \in Requests, PutBack(r)
  PROVE  OneRefreshToken'
<1>0. /\ IsRefresh(req[r].jti) /\ token[req[r].jti].key = req[r].key
      /\ req[r].key \in Keys /\ pc[r] \in Holding
  BY DEF PutBack, WellFormed, LocalsOK, LocalOK, Holding
<1>1. PICK j \in Jtis, kr \in Keys : /\ j = req[r].jti /\ token[j].key = kr
                                     /\ Holds(r, kr)
  BY <1>0 DEF IsRefresh, Holds
<1>2. UNCHANGED <<token, refused>>
  BY DEF PutBack, minted, ghosts
<1>3. /\ pc'[r] = "idle"
      /\ \A q \in Requests \ {r} : pc'[q] = pc[q] /\ req'[q] = req[q]
  BY EndOK, GotoType DEF PutBack, WellFormed
<1>4. \A q \in Requests, k \in Keys : Holds(q, k)' => Holds(q, k) /\ q # r
  BY <1>3 DEF Holds, Holding, InRotate, Issuing
<1>5. \A i \in Jtis, k \in Keys :
        StoredRefresh(i, k)' => StoredRefresh(i, k) \/ (i = j /\ k = kr)
  BY <1>1, <1>2 DEF StoredRefresh, PutBack, Restored, WellFormed, TypeOK
<1>6. kr \notin refused /\ \A i \in Jtis : ~StoredRefresh(i, kr)
  BY <1>1 DEF OneRefreshToken
<1>7. \A q \in Requests : ~Holds(q, kr)'
  BY <1>1, <1>4 DEF OneRefreshToken
<1> QED
  BY <1>2, <1>4, <1>5, <1>6, <1>7 DEF OneRefreshToken

\* Recheck refuses the sign-in or carries on with its key.
LEMMA RecheckOne ==
  ASSUME WellFormed, OneRefreshToken, NEW r \in Requests, Recheck(r)
  PROVE  OneRefreshToken'
<1> DEFINE l == [req[r] EXCEPT !.fresh = Merged(req[r].cur, req[r].fresh), !.cur = None,
                               !.at = now]
<1>1. pc[r] \in Holding /\ UNCHANGED <<token, grants>>
  BY DEF Recheck, Holding, InRotate, store, minted
<1>2. CASE Refuse(r)
  BY <1>1, <1>2, RefusesOnly
<1>3. CASE Goto(r, "keepUpstream", l) /\ UNCHANGED refused
  <2>1. req[r].cur \in Tokens /\ req[r].fresh \in Tokens /\ req[r] \in Locals
    BY DEF Recheck, WellFormed, TypeOK, LocalsOK, LocalOK
  <2>2. Merged(req[r].cur, req[r].fresh) \in Tokens
    BY <2>1 DEF Merged, Tokens
  <2>3. l \in Locals /\ l.key = req[r].key /\ "keepUpstream" \in Labels
    BY <2>1, <2>2 DEF Locals, Labels, WellFormed, TypeOK
  <2> QED
    BY <1>1, <1>3, <2>3, CarriesOn
<1> QED
  BY <1>2, <1>3 DEF Recheck

\* The steps that hand a right on, drop it or never had one.
LEMMA RedeemedOne ==
  ASSUME WellFormed, OneRefreshToken, NEW r \in Requests, NEW entry,
         entry \in CodeEntry, Redeemed(r, entry), UNCHANGED <<token, grants, refused>>
  PROVE  OneRefreshToken'
<1>1. [req[r] EXCEPT !.read = entry] \in Locals
  BY DEF Locals, WellFormed, TypeOK
<1>2. "spendCode" \in Labels /\ "spendCode" \notin Holding
  BY DEF Labels, Holding, InRotate, Issuing
<1> QED
  BY <1>1, <1>2, CarriesOn DEF Redeemed

LEMMA ContinueOne ==
  ASSUME WellFormed, NoSeparateDelete, OneRefreshToken, NEW r \in Requests, Continue(r)
  PROVE  OneRefreshToken'
<1>1. req[r] \in Locals /\ LocalOK(pc[r], req[r])
  BY DEF WellFormed, TypeOK, LocalsOK
<1>2. CASE TakeCode(r) \/ ReadCode(r) \/ DeleteCode(r)
  <2>1. req[r].code \in Codes /\ UNCHANGED <<token, grants, refused>>
    BY <1>1, <1>2 DEF TakeCode, ReadCode, DeleteCode, LocalOK, store, minted, ghosts
  <2>2. codes[req[r].code] \in CodeEntry
    BY <2>1 DEF WellFormed, TypeOK
  <2>3. CASE TakeCode(r)
    BY <2>1, <2>2, <2>3, RedeemedOne DEF TakeCode
  <2>4. CASE ReadCode(r)
    <3>1. [req[r] EXCEPT !.read = codes[req[r].code]] \in Locals /\ "deleteCode" \in Labels
      BY <1>1, <2>2 DEF Locals, Labels
    <3>2. "deleteCode" \notin Holding
      BY DEF Holding, InRotate, Issuing
    <3> QED
      BY <2>1, <2>4, <3>1, <3>2, CarriesOn DEF ReadCode
  <2>5. CASE DeleteCode(r)
    <3>1. req[r].read \in CodeEntry
      BY <1>1, <2>5 DEF DeleteCode, LocalOK, EntryOK
    <3> QED
      BY <2>1, <2>5, <3>1, RedeemedOne DEF DeleteCode
  <2> QED
    BY <1>2, <2>3, <2>4, <2>5
<1>3. CASE KeepUpstream(r) \/ ProviderFails(r)
  <2>1. PICK l \in {[req[r] EXCEPT !.begun = req[r].at, !.at = now], req[r]} :
          /\ UNCHANGED <<token, grants, refused>> /\ pc[r] \in Holding
          /\ Goto(r, "saveAccess", l) \/ Goto(r, "putBack", l)
    BY <1>3 DEF KeepUpstream, ProviderFails, Holding, Issuing, store, minted, ghosts
  <2>2. l \in Locals /\ l.key = req[r].key
    BY <1>1 DEF Locals, WellFormed, TypeOK
  <2>3. "saveAccess" \in Labels /\ "putBack" \in Labels
    BY DEF Labels
  <2> QED
    BY <2>1, <2>2, <2>3, CarriesOn
<1>4. CASE FindClient(r) \/ SaveClient(r)
  <2>0. [req[r] EXCEPT !.at = now] \in Locals
    BY <1>1 DEF Locals, WellFormed, TypeOK
  <2>1. /\ UNCHANGED <<token, grants, refused>>
        /\ End(r) \/ Goto(r, "saveClient", [req[r] EXCEPT !.at = now])
    BY <1>4 DEF FindClient, SaveClient, Respond, store, ghosts
  <2>2. "saveClient" \in Labels /\ "saveClient" \notin Holding
    BY DEF Labels, Holding, InRotate, Issuing
  <2> QED
    BY <2>0, <2>1, <2>2, CarriesOn
<1>5. CASE FindUpstream(r)
  <2>1. /\ UNCHANGED <<token, grants, refused>> /\ pc[r] \in Holding /\ req[r].key \in Keys
    BY <1>1, <1>5 DEF FindUpstream, LocalOK, Holding, InRotate, store, minted, ghosts
  <2>2. CASE Found(req[r].key)
    <3> DEFINE l == [req[r] EXCEPT !.cur = upstream[req[r].key].tokens]
    <3>1. upstream[req[r].key].tokens \in Tokens
      BY <2>1, <2>2 DEF Found, Kept, WellFormed, TypeOK
    <3>2. l \in Locals /\ l.key = req[r].key /\ "checkRevoked" \in Labels
      BY <1>1, <3>1 DEF Locals, Labels
    <3> QED
      BY <1>5, <2>1, <2>2, <3>2, CarriesOn DEF FindUpstream
  <2>3. CASE ~Found(req[r].key)
    BY <1>1, <1>5, <2>1, <2>3, CarriesOn DEF FindUpstream, Labels
  <2> QED
    BY <2>2, <2>3
<1>6. CASE CheckRevoked(r)
  <2>1. UNCHANGED <<token, grants>> /\ pc[r] \in Holding
    BY <1>6 DEF CheckRevoked, Holding, InRotate, store, minted
  <2>2. "putBack" \in Labels /\ "ask" \in Labels
    BY DEF Labels
  <2> QED
    BY <1>1, <1>6, <2>1, <2>2, RefusesOnly, CarriesOn DEF CheckRevoked
<1>7. CASE ProviderAnswers(r)
  <2> DEFINE cur == req[r].cur
             l(rt, user, life) ==
               [req[r] EXCEPT !.fresh = [session |-> cur.session, user |-> user,
                                         issuedAt |-> now, rt |-> rt, life |-> life]]
  <2>1. /\ UNCHANGED <<token, grants, refused>> /\ pc[r] \in Holding /\ cur \in Tokens
    BY <1>1, <1>7 DEF ProviderAnswers, LocalOK, Holding, store, minted, ghosts
  <2>2. PICK rt \in {cur.rt, cur.rt + 1}, user \in {cur.user, None}, life \in Lifetimes :
          Goto(r, "recheck", l(rt, user, life))
    BY <1>7 DEF ProviderAnswers
  <2>3. [session |-> cur.session, user |-> user, issuedAt |-> now, rt |-> rt,
         life |-> life] \in Tokens
    BY <2>1 DEF Tokens, WellFormed, TypeOK
  <2>4. /\ l(rt, user, life) \in Locals /\ l(rt, user, life).key = req[r].key
        /\ "recheck" \in Labels
    BY <1>1, <2>3 DEF Locals, Labels
  <2> QED
    BY <2>1, <2>2, <2>4, CarriesOn
<1>8. CASE SaveRevocation(r)
  <2>1. UNCHANGED <<token, grants, refused>> /\ End(r)
    BY <1>8 DEF SaveRevocation, minted
  <2> QED
    BY <2>1, CarriesOn
<1>9. ~DeleteGrant(r)
  BY DEF DeleteGrant, NoSeparateDelete
<1> QED
  BY <1>2, <1>3, <1>4, <1>5, <1>6, <1>7, <1>8, <1>9, SpendCodeOne, SaveAccessOne,
     SaveRefreshOne, RecheckOne, PutBackOne DEF Continue

LEMMA NextOne ==
  ASSUME WellFormed, NoSeparateDelete, OneRefreshToken, AtomicTake, Next
  PROVE  OneRefreshToken'
<1>1. ASSUME NEW c \in Codes, IssueCode(c) PROVE OneRefreshToken'
  BY <1>1, GainsNothing DEF IssueCode, Holds, StoredRefresh, minted, ghosts
<1>2. ASSUME NEW r \in Requests, NEW c \in Codes, NEW client \in Clients,
             StartRedeem(r, c, client)
      PROVE OneRefreshToken'
  <2>1. UNCHANGED <<token, grants, refused>>
    BY <1>2 DEF StartRedeem, store, minted, ghosts
  <2>2. PICK ok \in BOOLEAN :
          Goto(r, "takeCode", [NoLocals EXCEPT !.client = client, !.code = c, !.verified = ok])
    BY <1>2 DEF StartRedeem
  <2>3. [NoLocals EXCEPT !.client = client, !.code = c, !.verified = ok] \in Locals
    BY DEF NoLocals, Locals, Time
  <2>4. "takeCode" \in Labels /\ "takeCode" \notin Holding
    BY DEF Labels, Holding, InRotate, Issuing
  <2> QED
    BY <2>1, <2>2, <2>3, <2>4, CarriesOn
<1>3. ASSUME NEW r \in Requests, NEW u \in Users, RevokeUser(r, u) PROVE OneRefreshToken'
  <2>1. UNCHANGED <<token, grants, refused>>
    BY <1>3 DEF RevokeUser, store, minted, ghosts
  <2>2. [NoLocals EXCEPT !.user = u, !.at = now] \in Locals
    BY DEF NoLocals, Locals, Time, WellFormed, TypeOK
  <2>3. "saveRevocation" \in Labels /\ "saveRevocation" \notin Holding
    BY DEF Labels, Holding, InRotate, Issuing
  <2>4. Goto(r, "saveRevocation", [NoLocals EXCEPT !.user = u, !.at = now])
    BY <1>3 DEF RevokeUser
  <2> QED
    BY <2>1, <2>2, <2>3, <2>4, CarriesOn
<1>4. ASSUME NEW r \in Requests, StoreFails(r) \/ Crash(r) PROVE OneRefreshToken'
  <2>1. UNCHANGED <<token, grants, refused>>
    BY <1>4 DEF StoreFails, Crash, store, minted
  <2>2. \/ End(r)
        \/ Goto(r, "putBack", req[r]) /\ pc[r] \in Holding
    BY <1>4 DEF StoreFails, Crash, Respond, Holding
  <2>3. req[r] \in Locals /\ "putBack" \in Labels
    BY DEF WellFormed, TypeOK, Labels
  <2> QED
    BY <2>1, <2>2, <2>3, CarriesOn
<1>5. CASE Tick
  BY <1>5, GainsNothing DEF Tick, Holds, StoredRefresh, store, minted, ghosts
<1>6. ASSUME NEW r \in Requests, NEW j \in Jtis, NEW client \in Clients \cup {None}
      PROVE ~ReadGrant(r, j, client)
  BY DEF ReadGrant
<1> QED
  BY <1>1, <1>2, <1>3, <1>4, <1>5, <1>6, ClaimRefreshOne, ContinueOne DEF Next

\* Only a store without take deletes on its own.
LEMMA NoSeparateDeleteStep ==
  ASSUME WellFormed, NoSeparateDelete, AtomicTake, Next
  PROVE  NoSeparateDelete'
<1> DEFINE Moves(r) == \E label : label # "deleteGrant" /\ pc' = [pc EXCEPT ![r] = label]
<1>1. ASSUME NEW r \in Requests, Moves(r) PROVE NoSeparateDelete'
  BY <1>1 DEF NoSeparateDelete, WellFormed, TypeOK
<1>2. \A r \in Requests : End(r) => Moves(r)
  BY DEF End, Goto
<1>3. ASSUME NEW r \in Requests, Continue(r) PROVE Moves(r)
  <2>1. CASE TakeCode(r) \/ DeleteCode(r)
    BY <1>2, <2>1 DEF TakeCode, DeleteCode, Redeemed, Goto
  <2>2. ~ReadCode(r) /\ ~DeleteGrant(r)
    BY DEF ReadCode, DeleteGrant, NoSeparateDelete
  <2>3. CASE SpendCode(r)
    BY <1>2, <2>3 DEF SpendCode, Goto
  <2>4. CASE KeepUpstream(r) \/ SaveAccess(r) \/ SaveRefresh(r)
    BY <2>4 DEF KeepUpstream, SaveAccess, SaveRefresh, GrantFor, Goto
  <2>5. CASE FindClient(r) \/ SaveClient(r)
    BY <1>2, <2>5 DEF FindClient, SaveClient, Respond, Goto
  <2>6. CASE FindUpstream(r) \/ CheckRevoked(r)
    BY <1>2, <2>6 DEF FindUpstream, CheckRevoked, Refuse, Goto
  <2>7. CASE ProviderAnswers(r) \/ ProviderFails(r)
    BY <2>7 DEF ProviderAnswers, ProviderFails, Goto
  <2>8. CASE Recheck(r) \/ PutBack(r) \/ SaveRevocation(r)
    BY <1>2, <2>8 DEF Recheck, PutBack, SaveRevocation, Refuse, Goto
  <2> QED
    BY <1>3, <2>1, <2>2, <2>3, <2>4, <2>5, <2>6, <2>7, <2>8 DEF Continue
<1>4. ASSUME NEW r \in Requests, StoreFails(r) \/ Crash(r) PROVE Moves(r)
  BY <1>2, <1>4 DEF StoreFails, Crash, Respond, Goto
<1>5. ASSUME NEW r \in Requests, NEW c \in Codes, NEW client \in Clients,
             StartRedeem(r, c, client)
      PROVE  Moves(r)
  BY <1>5 DEF StartRedeem, Goto
<1>6. ASSUME NEW r \in Requests, NEW j \in Jtis, NEW client \in Clients \cup {None},
             ClaimRefresh(r, j, client) \/ ReadGrant(r, j, client)
      PROVE  Moves(r)
  BY <1>6 DEF ClaimRefresh, ReadGrant, Claimed, Goto
<1>7. ASSUME NEW r \in Requests, NEW u \in Users, RevokeUser(r, u) PROVE Moves(r)
  BY <1>7 DEF RevokeUser, Goto
<1>8. ASSUME UNCHANGED pc PROVE NoSeparateDelete'
  BY <1>8 DEF NoSeparateDelete
<1>9. ASSUME NEW c \in Codes, IssueCode(c) PROVE UNCHANGED pc
  BY <1>9 DEF IssueCode
<1>10. Tick => UNCHANGED pc
  BY DEF Tick
<1> HIDE DEF Moves
<1> QED
  BY <1>1, <1>3, <1>4, <1>5, <1>6, <1>7, <1>8, <1>9, <1>10 DEF Next

LEMMA InitOne == Init => OneInv
<1>1. Init => NoSeparateDelete /\ OneRefreshToken
  BY DEF Init, NoSeparateDelete, OneRefreshToken, Holds, StoredRefresh, Holding, InRotate,
         Issuing
<1> QED
  BY <1>1, InitWellFormed DEF OneInv

LEMMA StepOne == AtomicTake /\ OneInv /\ [Next]_vars => OneInv'
<1> SUFFICES ASSUME AtomicTake, OneInv, [Next]_vars PROVE OneInv'
  OBVIOUS
<1>1. WellFormed'
  BY StepWellFormed DEF OneInv
<1>2. CASE UNCHANGED vars
  BY <1>1, <1>2
  DEF OneInv, NoSeparateDelete, OneRefreshToken, Holds, StoredRefresh, vars, store,
      minted, ghosts
<1>3. CASE Next
  BY <1>1, <1>3, NextOne, NoSeparateDeleteStep DEF OneInv
<1> QED
  BY <1>2, <1>3

(* However many requests race, fail or die, a sign-in has at most one refresh token that    *)
(* works, as long as the store takes atomically.                                             *)
THEOREM SingleUse ==
  ASSUME AtomicTake
  PROVE  Spec => []OneRefreshToken
<1>1. OneInv => OneRefreshToken
  BY DEF OneInv
<1> QED
  BY <1>1, InitOne, StepOne, PTL DEF Spec

-----------------------------------------------------------------------------
(* Put back, never extended: whatever the store can do, the grants that the   *)
(* store keeps are those of signed JWTs, and none outlasts its JWT.           *)

LEMMA GrantForRetry ==
  ASSUME WellFormed, WellFormed', RetryNeverExtends, NEW r \in Requests,
         NEW use, NEW lifetime \in Nat, NEW next, GrantFor(r, use, lifetime, next)
  PROVE  RetryNeverExtends'
<1>1. PICK j \in Jtis : j = drawn + 1
  BY GrantsAssumption DEF GrantFor, WellFormed, TypeOK, Jtis
<1>2. /\ token' = [token EXCEPT ![j] = [use |-> use, client |-> req[r].owner,
                                        key |-> req[r].key, iat |-> req[r].at,
                                        exp |-> req[r].at + lifetime]]
      /\ grants' = [grants EXCEPT ![j] = req[r].at + lifetime]
  BY <1>1 DEF GrantFor
<1>3. /\ token'[j] \in Jwt /\ token'[j].exp = req[r].at + lifetime
      /\ req[r].at + lifetime \in Nat
  <2>1. req[r].at \in Nat
    BY DEF WellFormed, TypeOK, Locals, Time
  <2> QED
    BY <1>1, <1>2, <2>1 DEF GrantFor, WellFormed, TypeOK, TokensOK, Time, Jtis
<1>4. ASSUME NEW q \in Jtis, grants'[q] # 0
      PROVE  token'[q] # None /\ grants'[q] <= token'[q].exp
  <2>1. CASE q = j
    BY <2>1, <1>2, <1>3, NoneAssumption DEF WellFormed, TypeOK
  <2>2. CASE q # j
    BY <2>2, <1>2, <1>4 DEF WellFormed, TypeOK, RetryNeverExtends
  <2> QED
    BY <2>1, <2>2
<1> QED
  BY <1>4 DEF RetryNeverExtends

LEMMA RestoredRetry ==
  ASSUME WellFormed, RetryNeverExtends, NEW j \in Jtis, IsRefresh(j),
         grants' = Restored(j), UNCHANGED token
  PROVE  RetryNeverExtends'
<1>1. token[j] # None /\ token[j].exp \in Nat
  BY NoneAssumption DEF IsRefresh, Jwt, Time
<1> QED
  BY <1>1 DEF RetryNeverExtends, Restored, WellFormed, TypeOK

LEMMA RemovedRetry ==
  ASSUME WellFormed, RetryNeverExtends, NEW j, UNCHANGED token,
         RemovedGrant(j) \/ UNCHANGED grants
  PROVE  RetryNeverExtends'
  BY DEF RetryNeverExtends, RemovedGrant, WellFormed, TypeOK

LEMMA StepRetry == WellFormed /\ RetryNeverExtends /\ [Next]_vars => RetryNeverExtends'
<1> SUFFICES ASSUME WellFormed, RetryNeverExtends, [Next]_vars PROVE RetryNeverExtends'
  OBVIOUS
<1>1. WellFormed'
  BY StepWellFormed
<1>2. ASSUME NEW r \in Requests, SaveAccess(r) \/ SaveRefresh(r)
      PROVE  RetryNeverExtends'
  <2>1. req[r].fresh.life \in [access: Nat, refresh: Nat]
    BY <1>2, GrantsAssumption
    DEF SaveAccess, SaveRefresh, WellFormed, LocalsOK, LocalOK, Issuing, Tokens
  <2> QED
    BY <1>1, <1>2, <2>1, GrantForRetry DEF SaveAccess, SaveRefresh
<1>3. ASSUME NEW r \in Requests, PutBack(r)
      PROVE  RetryNeverExtends'
  BY <1>3, RestoredRetry DEF PutBack, minted, WellFormed, LocalsOK, LocalOK, IsRefresh
<1>4. ASSUME NEW r \in Requests, Continue(r), ~(SaveAccess(r) \/ SaveRefresh(r) \/ PutBack(r))
      PROVE  UNCHANGED token /\ (UNCHANGED grants \/ \E j : RemovedGrant(j))
  BY <1>4 DEF Continue, TakeCode, ReadCode, DeleteCode, SpendCode, KeepUpstream, FindClient,
     SaveClient, DeleteGrant, FindUpstream, CheckRevoked, ProviderAnswers, ProviderFails,
     Recheck, SaveRevocation, store, minted
<1>5. ASSUME NEW r \in Requests, Continue(r)
      PROVE  RetryNeverExtends'
  BY <1>2, <1>3, <1>4, <1>5, RemovedRetry
<1>6. CASE UNCHANGED vars
  BY <1>6, RemovedRetry DEF vars, store, minted
<1>7. CASE Next
  <2>1. ASSUME ~\E r \in Requests : Continue(r)
        PROVE  UNCHANGED token /\ (UNCHANGED grants \/ \E j : RemovedGrant(j))
    BY <1>7, <2>1 DEF Next, IssueCode, StartRedeem, ClaimRefresh, ReadGrant, RevokeUser,
       StoreFails, Crash, Tick, store, minted
  <2> QED
    BY <1>5, <2>1, RemovedRetry
<1> QED
  BY <1>6, <1>7

(* No order of claims, failures and puts back keeps a refresh token longer than it was       *)
(* issued for, with or without take.                                                         *)
THEOREM NeverExtended == Spec => []RetryNeverExtends
<1>1. Init => RetryNeverExtends
  BY DEF Init, RetryNeverExtends
<1> QED
  BY <1>1, InitWellFormed, StepWellFormed, StepRetry, PTL DEF Spec

-----------------------------------------------------------------------------
(* One sign-in for each code, when the store's take is atomic.                *)

\* Request r has taken the entry of code c and may yet sign its client in.
Redeems(r, c) == pc[r] = "spendCode" /\ req[r].code = c /\ req[r].read.state = "active"

\* Key k was drawn for code c.
DrawnFor(k, c) == signIn[k] # None /\ signIn[k].code = c

NoSeparateCodeDelete == \A r \in Requests : pc[r] # "deleteCode"

\* A code that can still be taken has nobody redeeming it and no sign-in; a code is redeemed
\* by one request, and either that request or one sign-in has what came of it.
OneRedemption ==
  \A c \in Codes :
    /\ codes[c].state \in {"unissued", "active"} =>
         /\ \A r \in Requests : ~Redeems(r, c)
         /\ \A k \in Keys : ~DrawnFor(k, c)
    /\ \A r1, r2 \in Requests : Redeems(r1, c) /\ Redeems(r2, c) => r1 = r2
    /\ \A k1, k2 \in Keys : DrawnFor(k1, c) /\ DrawnFor(k2, c) => k1 = k2
    /\ \A r \in Requests, k \in Keys : ~(Redeems(r, c) /\ DrawnFor(k, c))

RedeemInv == WellFormed /\ NoSeparateCodeDelete /\ OneRedemption

\* A step that makes nobody redeem, draws no key and brings no code back.
LEMMA RedeemsNothing ==
  ASSUME OneRedemption,
         \A r \in Requests, c \in Codes : Redeems(r, c)' => Redeems(r, c),
         UNCHANGED signIn,
         \A c \in Codes : codes'[c].state \in {"unissued", "active"}
                            => codes[c].state \in {"unissued", "active"}
  PROVE  OneRedemption'
  BY DEF OneRedemption, DrawnFor

\* The same, said of the request that moves.
LEMMA RedeemsElsewhere ==
  ASSUME WellFormed, OneRedemption, NEW r \in Requests, NEW label, NEW l,
         Goto(r, label, l), label # "spendCode", UNCHANGED signIn,
         \A c \in Codes : codes'[c].state \in {"unissued", "active"}
                            => codes[c].state \in {"unissued", "active"}
  PROVE  OneRedemption' /\ (label # "deleteCode" /\ NoSeparateCodeDelete => NoSeparateCodeDelete')
<1>1. /\ pc'[r] = label
      /\ \A q \in Requests \ {r} : pc'[q] = pc[q] /\ req'[q] = req[q]
  BY DEF Goto, WellFormed, TypeOK
<1>2. \A q \in Requests, c \in Codes : Redeems(q, c)' => Redeems(q, c)
  BY <1>1 DEF Redeems
<1>3. label # "deleteCode" /\ NoSeparateCodeDelete => NoSeparateCodeDelete'
  BY <1>1 DEF NoSeparateCodeDelete
<1> QED
  BY <1>2, <1>3, RedeemsNothing

\* The take: whoever finds the code active is the only one to redeem it.
LEMMA TakeCodeOnce ==
  ASSUME RedeemInv, NEW r \in Requests, TakeCode(r)
  PROVE  OneRedemption' /\ NoSeparateCodeDelete'
<1>1. PICK cr \in Codes : cr = req[r].code
  BY DEF TakeCode, RedeemInv, WellFormed, LocalsOK, LocalOK
<1>2. codes[cr] \in CodeEntry /\ req[r] \in Locals
  BY DEF RedeemInv, WellFormed, TypeOK
<1>3. /\ codes'[cr].state = "gone"
      /\ \A c \in Codes \ {cr} : codes'[c] = codes[c]
  BY <1>1, <1>2 DEF TakeCode, Removed, CodeEntry, RedeemInv, WellFormed, TypeOK
<1>4. UNCHANGED signIn
  BY DEF TakeCode, ghosts
<1>5. CASE End(r)
  BY <1>3, <1>4, <1>5, RedeemsElsewhere DEF End, RedeemInv
<1>6. CASE Goto(r, "spendCode", [req[r] EXCEPT !.read = codes[cr]])
  <2>1. /\ pc'[r] = "spendCode" /\ req'[r].code = cr /\ req'[r].read = codes[cr]
        /\ \A q \in Requests \ {r} : pc'[q] = pc[q] /\ req'[q] = req[q]
    BY <1>1, <1>2, <1>6 DEF Goto, Locals, RedeemInv, WellFormed, TypeOK
  <2>2. \A q \in Requests, c \in Codes :
          Redeems(q, c)' => Redeems(q, c) \/ (q = r /\ c = cr /\ codes[cr].state = "active")
    BY <2>1 DEF Redeems
  <2>3. \A k \in Keys, c \in Codes : DrawnFor(k, c)' <=> DrawnFor(k, c)
    BY <1>4 DEF DrawnFor
  <2>4. OneRedemption'
    BY <1>3, <2>2, <2>3 DEF OneRedemption, RedeemInv
  <2> QED
    BY <2>1, <2>4 DEF RedeemInv, NoSeparateCodeDelete
<1> QED
  BY <1>1, <1>5, <1>6 DEF TakeCode, Redeemed

\* The spent marker: what the request redeemed becomes a sign-in, or nothing.
LEMMA SpendCodeOnce ==
  ASSUME RedeemInv, NEW r \in Requests, SpendCode(r)
  PROVE  OneRedemption' /\ NoSeparateCodeDelete'
<1>1. PICK cr \in Codes : cr = req[r].code
  BY DEF SpendCode, RedeemInv, WellFormed, LocalsOK, LocalOK
<1>2. /\ codes'[cr].state = "spent"
      /\ \A c \in Codes \ {cr} : codes'[c] = codes[c]
  BY <1>1 DEF SpendCode, RedeemInv, WellFormed, TypeOK
<1>3. CASE End(r) /\ UNCHANGED signIn
  BY <1>2, <1>3, RedeemsElsewhere DEF End, RedeemInv
<1>4. CASE /\ req[r].read.state = "active"
           /\ \E k \in {key \in Keys : signIn[key] = None} :
                /\ signIn' = [signIn EXCEPT ![k] =
                     [code |-> req[r].code, user |-> req[r].read.tokens.user,
                      at |-> req[r].read.tokens.issuedAt]]
                /\ Goto(r, "keepUpstream", [NoLocals EXCEPT !.key = k,
                                              !.fresh = req[r].read.tokens,
                                              !.owner = req[r].read.client, !.at = now])
  <2>1. PICK kr \in Keys :
          /\ signIn[kr] = None
          /\ signIn' = [signIn EXCEPT ![kr] =
               [code |-> cr, user |-> req[r].read.tokens.user,
                at |-> req[r].read.tokens.issuedAt]]
          /\ pc' = [pc EXCEPT ![r] = "keepUpstream"]
          /\ \A q \in Requests \ {r} : req'[q] = req[q]
    BY <1>1, <1>4 DEF Goto, RedeemInv, WellFormed, TypeOK
  <2>2. Redeems(r, cr)
    BY <1>1, <1>4 DEF SpendCode, Redeems
  <2>3. \A q \in Requests, c \in Codes : Redeems(q, c)' => Redeems(q, c) /\ q # r
    BY <2>1 DEF Redeems, RedeemInv, WellFormed, TypeOK
  <2>4. \A k \in Keys, c \in Codes : DrawnFor(k, c)' => DrawnFor(k, c) \/ (k = kr /\ c = cr)
    BY <2>1 DEF DrawnFor, RedeemInv, WellFormed, TypeOK
  <2>5. OneRedemption'
    BY <1>2, <2>2, <2>3, <2>4 DEF OneRedemption, RedeemInv
  <2> QED
    BY <2>1, <2>5 DEF RedeemInv, NoSeparateCodeDelete, WellFormed, TypeOK
<1> QED
  BY <1>3, <1>4 DEF SpendCode

LEMMA NextRedeem ==
  ASSUME RedeemInv, AtomicTake, Next
  PROVE  OneRedemption' /\ NoSeparateCodeDelete'
<1> DEFINE Elsewhere(r) == \E label, l : /\ label \notin {"spendCode", "deleteCode"}
                                         /\ Goto(r, label, l)
<1>1. ASSUME NEW r \in Requests, Elsewhere(r), UNCHANGED <<codes, signIn>>
      PROVE  OneRedemption' /\ NoSeparateCodeDelete'
  BY <1>1, RedeemsElsewhere DEF RedeemInv
<1>2. ASSUME NEW r \in Requests PROVE End(r) => Elsewhere(r)
  BY DEF End
<1>3. ASSUME NEW r \in Requests, Continue(r), ~TakeCode(r), ~SpendCode(r)
      PROVE  Elsewhere(r) /\ UNCHANGED <<codes, signIn>>
  <2>1. ~ReadCode(r) /\ ~DeleteCode(r)
    BY DEF ReadCode, DeleteCode, RedeemInv, NoSeparateCodeDelete
  <2>2. CASE KeepUpstream(r) \/ SaveAccess(r) \/ SaveRefresh(r)
    BY <2>2 DEF KeepUpstream, SaveAccess, SaveRefresh, GrantFor, ghosts
  <2>3. CASE FindClient(r) \/ SaveClient(r)
    BY <1>2, <2>3 DEF FindClient, SaveClient, Respond, store, ghosts
  <2>4. CASE DeleteGrant(r) \/ FindUpstream(r) \/ CheckRevoked(r)
    BY <1>2, <2>4 DEF DeleteGrant, Claimed, FindUpstream, CheckRevoked, Refuse, store, ghosts
  <2>5. CASE ProviderAnswers(r) \/ ProviderFails(r) \/ Recheck(r)
    BY <1>2, <2>5 DEF ProviderAnswers, ProviderFails, Recheck, Refuse, store, ghosts
  <2>6. CASE PutBack(r) \/ SaveRevocation(r)
    BY <1>2, <2>6 DEF PutBack, SaveRevocation, ghosts
  <2> QED
    BY <1>3, <2>1, <2>2, <2>3, <2>4, <2>5, <2>6 DEF Continue
<1>4. ASSUME NEW r \in Requests, Continue(r)
      PROVE  OneRedemption' /\ NoSeparateCodeDelete'
  BY <1>1, <1>3, <1>4, TakeCodeOnce, SpendCodeOnce
<1>5. ASSUME NEW c \in Codes, IssueCode(c)
      PROVE  OneRedemption' /\ NoSeparateCodeDelete'
  BY <1>5, RedeemsNothing
  DEF IssueCode, RedeemInv, WellFormed, TypeOK, Redeems, NoSeparateCodeDelete, ghosts
<1>6. ASSUME NEW r \in Requests, NEW c \in Codes, NEW client \in Clients,
             StartRedeem(r, c, client)
      PROVE  Elsewhere(r) /\ UNCHANGED <<codes, signIn>>
  BY <1>6 DEF StartRedeem, store, ghosts
<1>7. ASSUME NEW r \in Requests, NEW j \in Jtis, NEW client \in Clients \cup {None},
             ClaimRefresh(r, j, client) \/ ReadGrant(r, j, client)
      PROVE  Elsewhere(r) /\ UNCHANGED <<codes, signIn>>
  BY <1>7 DEF ClaimRefresh, ReadGrant, Claimed, store, ghosts
<1>8. ASSUME NEW r \in Requests, NEW u \in Users, RevokeUser(r, u)
      PROVE  Elsewhere(r) /\ UNCHANGED <<codes, signIn>>
  BY <1>8 DEF RevokeUser, store, ghosts
<1>9. ASSUME NEW r \in Requests, StoreFails(r) \/ Crash(r)
      PROVE  Elsewhere(r) /\ UNCHANGED <<codes, signIn>>
  BY <1>2, <1>9 DEF StoreFails, Crash, Respond, store
<1>10. CASE Tick
  BY <1>10, RedeemsNothing
  DEF Tick, RedeemInv, Redeems, NoSeparateCodeDelete, store, ghosts
<1> HIDE DEF Elsewhere
<1> QED
  BY <1>1, <1>4, <1>5, <1>6, <1>7, <1>8, <1>9, <1>10 DEF Next

LEMMA InitRedeem == Init => RedeemInv
<1>1. Init => NoSeparateCodeDelete /\ OneRedemption
  BY DEF Init, NoSeparateCodeDelete, OneRedemption, Redeems, DrawnFor
<1> QED
  BY <1>1, InitWellFormed DEF RedeemInv

LEMMA StepRedeem == AtomicTake /\ RedeemInv /\ [Next]_vars => RedeemInv'
<1> SUFFICES ASSUME AtomicTake, RedeemInv, [Next]_vars PROVE RedeemInv'
  OBVIOUS
<1>1. WellFormed'
  BY StepWellFormed DEF RedeemInv
<1>2. CASE UNCHANGED vars
  BY <1>1, <1>2
  DEF RedeemInv, NoSeparateCodeDelete, OneRedemption, Redeems, DrawnFor, vars, store, ghosts
<1>3. CASE Next
  BY <1>1, <1>3, NextRedeem DEF RedeemInv
<1> QED
  BY <1>2, <1>3

(* However many requests race for an authorization code, and whatever fails, it signs its    *)
(* client in once, as long as the store takes atomically.                                    *)
THEOREM RedeemedOnce ==
  ASSUME AtomicTake
  PROVE  Spec => []CodeRedeemedOnce
<1>1. RedeemInv => CodeRedeemedOnce
  <2> SUFFICES ASSUME RedeemInv, NEW k1 \in Keys, NEW k2 \in Keys, signIn[k1] # None,
                      signIn[k2] # None, signIn[k1].code = signIn[k2].code
               PROVE  k1 = k2
    BY DEF CodeRedeemedOnce
  <2>1. signIn[k1].code \in Codes
    BY DEF RedeemInv, WellFormed, TypeOK, SignIn
  <2> QED
    BY <2>1 DEF RedeemInv, OneRedemption, DrawnFor
<1> QED
  BY <1>1, InitRedeem, StepRedeem, PTL DEF Spec

-----------------------------------------------------------------------------
(* Revocation.  Tokens that stand for a sign-in were issued no later than any *)
(* revocation, on record or on its way there, that is no earlier than the     *)
(* sign-in and the tokens that outran another one: a refresh that read the    *)
(* revocations before it began looks again on the tokens it started from, and *)
(* what it passes then is accounted for in outran.                            *)

\* The moments of user u's revocations that are on record or may yet be.
Revocations(u) ==
  {revokedAt[u]} \cup
    {req[q].at : q \in {p \in Requests : pc[p] = "saveRevocation" /\ req[p].user = u}}

\* From this moment on a revocation ends the sign-in of key k.
Reached(k) == Later(signIn[k].at, outran[k])

\* Tokens t stand for the sign-in of key k, and are revoked whenever it is.
Covered(t, k) ==
  /\ signIn[k] # None
  /\ t.issuedAt <= now
  /\ signIn[k].user # None =>
       /\ t.user = signIn[k].user
       /\ \A m \in Revocations(signIn[k].user) : Reached(k) <= m => t.issuedAt <= m

CodeCovered(e) == e.state = "active" => e.tokens.issuedAt <= now

LocalCovered(label, l) ==
  /\ label \in {"deleteCode", "spendCode"} => CodeCovered(l.read)
  /\ label \in {"checkRevoked", "ask", "recheck"} => Covered(l.cur, l.key)
  /\ label = "recheck" => l.fresh.user \in {l.cur.user, None} /\ l.fresh.issuedAt <= now
  /\ label \in Issuing => Covered(l.fresh, l.key)

StoreCovered ==
  /\ \A c \in Codes : CodeCovered(codes[c])
  /\ \A k \in Keys : upstream[k] # None => Covered(upstream[k].tokens, k)

AllCovered ==
  /\ StoreCovered
  /\ \A r \in Requests : LocalCovered(pc[r], req[r])

RevokeInv == WellFormed /\ AllCovered

\* A step that brings no revocation that is earlier than the moment it happens in.
Steady ==
  /\ Monotone
  /\ now <= now'
  /\ \A k \in Keys : signIn[k] # None => outran[k] <= outran'[k]
  /\ \A u \in Users : \A m \in Revocations(u)' : m \in Revocations(u) \/ now <= m

LEMMA RevocationsTimed ==
  ASSUME WellFormed', NEW u \in Users
  PROVE  Revocations(u)' \subseteq Nat
<1>1. revokedAt'[u] \in Nat /\ \A q \in Requests : req'[q].at \in Nat
  BY DEF WellFormed, TypeOK, Locals, Time
<1> QED
  BY <1>1 DEF Revocations

LEMMA CoveredStays ==
  ASSUME WellFormed, WellFormed', Steady, NEW k \in Keys, NEW t \in Tokens, Covered(t, k)
  PROVE  Covered(t, k)'
<1>1. /\ now \in Nat /\ now' \in Nat /\ t.issuedAt \in Nat
      /\ outran[k] \in Nat /\ outran'[k] \in Nat
  BY DEF WellFormed, TypeOK, Tokens, Time
<1>2. signIn[k] \in SignIn /\ signIn'[k] = signIn[k] /\ signIn[k] # None
  BY DEF Covered, Steady, Monotone, WellFormed, TypeOK
<1>3. t.issuedAt <= now'
  BY <1>1 DEF Covered, Steady
<1>4. ASSUME signIn[k].user # None, NEW m \in Revocations(signIn[k].user)', Reached(k)' <= m
      PROVE  t.issuedAt <= m
  <2>1. PICK u \in Users : u = signIn[k].user
    BY <1>2, <1>4 DEF SignIn
  <2>2. Revocations(u)' = Revocations(signIn[k].user)'
    BY <1>2, <2>1 DEF Revocations
  <2>21. m \in Nat /\ m \in Revocations(u)'
    BY <2>2, <1>4, RevocationsTimed
  <2>3. CASE now <= m
    BY <1>1, <2>21, <2>3 DEF Covered
  <2>4. CASE m \in Revocations(u)
    <3>1. Reached(k) <= m
      BY <1>1, <1>2, <1>4, <2>21 DEF Reached, Later, Steady, SignIn, Time
    <3> QED
      BY <1>4, <2>1, <2>4, <3>1 DEF Covered
  <2> QED
    BY <2>21, <2>3, <2>4 DEF Steady
<1> QED
  BY <1>2, <1>3, <1>4 DEF Covered

LEMMA CodeCoveredStays ==
  ASSUME WellFormed, WellFormed', Steady, NEW e, EntryOK(e), CodeCovered(e)
  PROVE  CodeCovered(e)'
  BY DEF CodeCovered, EntryOK, Tokens, Time, Steady, WellFormed, TypeOK

LEMMA LocalCoveredStays ==
  ASSUME WellFormed, WellFormed', Steady, NEW label, NEW l, LocalCovered(label, l),
         LocalOK(label, l)
  PROVE  LocalCovered(label, l)'
<1>1. label \in {"checkRevoked", "ask", "recheck"} =>
        l.key \in Keys /\ l.cur \in Tokens /\ Covered(l.cur, l.key)
  BY DEF LocalOK, LocalCovered, Holding, InRotate
<1>2. label \in Issuing => l.key \in Keys /\ l.fresh \in Tokens /\ Covered(l.fresh, l.key)
  BY DEF LocalOK, LocalCovered, Holding
<1>3. label \in {"checkRevoked", "ask", "recheck"} => Covered(l.cur, l.key)'
  BY <1>1, CoveredStays
<1>4. label \in Issuing => Covered(l.fresh, l.key)'
  BY <1>2, CoveredStays
<1>5. label \in {"deleteCode", "spendCode"} => CodeCovered(l.read)'
  BY CodeCoveredStays DEF LocalOK, LocalCovered
<1>6. label = "recheck" => l.fresh.issuedAt <= now'
  BY DEF LocalOK, LocalCovered, Tokens, Time, Steady, WellFormed, TypeOK
<1> QED
  BY <1>3, <1>4, <1>5, <1>6 DEF LocalCovered

\* A step of r to `label` brings no revocation, unless it calls one.
LEMMA GotoSteady ==
  ASSUME WellFormed, WellFormed', Monotone, UNCHANGED <<now, revokedAt>>,
         \A k \in Keys : signIn[k] # None => outran[k] <= outran'[k],
         NEW r \in Requests, NEW label, NEW l, Goto(r, label, l),
         label = "saveRevocation" => l.at = now
  PROVE  Steady
<1>1. /\ pc'[r] = label /\ req'[r] = l
      /\ \A q \in Requests \ {r} : pc'[q] = pc[q] /\ req'[q] = req[q]
  BY DEF Goto, WellFormed, TypeOK
<1>2. now \in Nat
  BY DEF WellFormed, TypeOK, Time
<1>3. ASSUME NEW u \in Users, NEW m \in Revocations(u)'
      PROVE  m \in Revocations(u) \/ now <= m
  <2>1. CASE m = revokedAt'[u]
    BY <2>1 DEF Revocations
  <2>2. ASSUME NEW q \in Requests, pc'[q] = "saveRevocation", req'[q].user = u, m = req'[q].at
        PROVE  m \in Revocations(u) \/ now <= m
    <3>1. CASE q = r
      BY <1>1, <1>2, <2>2, <3>1
    <3>2. CASE q # r
      BY <1>1, <2>2, <3>2 DEF Revocations
    <3> QED
      BY <3>1, <3>2
  <2> QED
    BY <1>3, <2>1, <2>2 DEF Revocations
<1> QED
  BY <1>2, <1>3 DEF Steady

\* The same for a step that leaves outran alone.
LEMMA PlainSteady ==
  ASSUME WellFormed, WellFormed', Monotone, UNCHANGED <<now, revokedAt, outran>>,
         NEW r \in Requests, NEW label, NEW l, Goto(r, label, l),
         label = "saveRevocation" => l.at = now
  PROVE  Steady
<1>1. \A k \in Keys : outran[k] <= outran'[k]
  BY DEF WellFormed, TypeOK, Time
<1> QED
  BY <1>1, GotoSteady

\* Locals that are covered make a step of r to `label` that leaves a covered store.
LEMMA CoveredMove ==
  ASSUME RevokeInv, WellFormed', Steady, NEW r \in Requests, NEW label, NEW l,
         Goto(r, label, l), LocalCovered(label, l)', StoreCovered'
  PROVE  AllCovered'
<1>1. /\ pc'[r] = label /\ req'[r] = l
      /\ \A q \in Requests \ {r} : pc'[q] = pc[q] /\ req'[q] = req[q]
  BY DEF Goto, RevokeInv, WellFormed, TypeOK
<1>2. ASSUME NEW q \in Requests PROVE LocalCovered(pc[q], req[q])'
  <2>1. CASE q = r
    BY <2>1, <1>1 DEF LocalCovered, CodeCovered, Covered
  <2>2. CASE q # r
    <3>1. LocalCovered(pc[q], req[q]) /\ LocalOK(pc[q], req[q])
      BY DEF RevokeInv, AllCovered, WellFormed, LocalsOK
    <3>2. PICK label2, l2 : label2 = pc[q] /\ l2 = req[q]
      OBVIOUS
    <3>3. LocalCovered(label2, l2)'
      BY <3>1, <3>2, LocalCoveredStays DEF RevokeInv
    <3> QED
      BY <3>2, <3>3, <2>2, <1>1 DEF LocalCovered, CodeCovered, Covered
  <2> QED
    BY <2>1, <2>2
<1> QED
  BY <1>2 DEF AllCovered

\* A step in which no request moves.
LEMMA CoveredWaits ==
  ASSUME RevokeInv, WellFormed', Steady, UNCHANGED <<pc, req>>, StoreCovered'
  PROVE  AllCovered'
<1>1. ASSUME NEW q \in Requests PROVE LocalCovered(pc[q], req[q])'
  <2>1. PICK label, l : label = pc[q] /\ l = req[q]
    OBVIOUS
  <2>2. LocalCovered(label, l)'
    BY <2>1, LocalCoveredStays DEF RevokeInv, AllCovered, WellFormed, LocalsOK
  <2> QED
    BY <2>1, <2>2 DEF LocalCovered, CodeCovered, Covered
<1> QED
  BY <1>1 DEF AllCovered

LEMMA UpstreamStays ==
  ASSUME RevokeInv, WellFormed', Steady, NEW k \in Keys, upstream[k] # None
  PROVE  \A t : t = upstream[k].tokens => Covered(t, k)'
<1>1. upstream[k].tokens \in Tokens
  BY DEF RevokeInv, WellFormed, TypeOK, Kept
<1> QED
  BY <1>1, CoveredStays DEF RevokeInv, AllCovered, StoreCovered

LEMMA CodeStays ==
  ASSUME RevokeInv, WellFormed', Steady, NEW c \in Codes
  PROVE  \A e : e = codes[c] => CodeCovered(e)'
  BY CodeCoveredStays DEF RevokeInv, AllCovered, StoreCovered, WellFormed, CodesOK

LEMMA StoreStays ==
  ASSUME RevokeInv, WellFormed', Steady, UNCHANGED <<codes, upstream>>
  PROVE  StoreCovered'
<1>1. \A k \in Keys : upstream'[k] # None => Covered(upstream[k].tokens, k)'
  BY UpstreamStays DEF Covered
<1>2. \A c \in Codes : CodeCovered(codes[c])'
  BY CodeStays DEF CodeCovered
<1> QED
  BY <1>1, <1>2 DEF StoreCovered

LEMMA CoveredEnd ==
  ASSUME RevokeInv, WellFormed', Steady, NEW r \in Requests, End(r), StoreCovered'
  PROVE  AllCovered'
<1>1. LocalCovered("idle", NoLocals)'
  BY DEF LocalCovered, Issuing
<1> QED
  BY <1>1, CoveredMove DEF End

LEMMA RedeemedCovered ==
  ASSUME RevokeInv, WellFormed', Steady, NEW r \in Requests, NEW entry, EntryOK(entry),
         CodeCovered(entry), Redeemed(r, entry), StoreCovered'
  PROVE  AllCovered'
<1>0. req[r] \in Locals
  BY DEF RevokeInv, WellFormed, TypeOK
<1>1. PICK l : l = [req[r] EXCEPT !.read = entry]
  OBVIOUS
<1>11. l.read = entry
  BY <1>0, <1>1 DEF Locals
<1>12. CodeCovered(entry)'
  BY CodeCoveredStays DEF RevokeInv
<1>2. LocalCovered("spendCode", l)'
  BY <1>11, <1>12 DEF LocalCovered, CodeCovered, Issuing
<1> QED
  BY <1>1, <1>2, CoveredMove, CoveredEnd DEF Redeemed

LEMMA RemovedCovered ==
  ASSUME RevokeInv, WellFormed', Steady, NEW c \in Codes, Removed(c), UNCHANGED upstream
  PROVE  StoreCovered'
<1>1. \A k \in Keys : upstream'[k] # None => Covered(upstream[k].tokens, k)'
  BY UpstreamStays DEF Covered
<1>2. codes[c] \in CodeEntry
  BY DEF RevokeInv, WellFormed, TypeOK
<1>3. codes'[c].state = "gone" /\ \A d \in Codes \ {c} : codes'[d] = codes[d]
  BY <1>2 DEF Removed, RevokeInv, WellFormed, TypeOK, CodeEntry
<1>4. \A d \in Codes : CodeCovered(codes[d])'
  BY <1>3, CodeStays DEF CodeCovered
<1> QED
  BY <1>1, <1>4 DEF StoreCovered

\* The key of a new sign-in gets the moment and the user of its tokens.
LEMMA SpendCodeCovered ==
  ASSUME RevokeInv, WellFormed', NEW r \in Requests, SpendCode(r)
  PROVE  AllCovered'
<1>1. /\ req[r].code \in Codes /\ EntryOK(req[r].read) /\ CodeCovered(req[r].read)
  BY DEF SpendCode, RevokeInv, WellFormed, LocalsOK, LocalOK, AllCovered, LocalCovered
<1>2. UNCHANGED <<now, grants, upstream, revokedAt, clientUntil, minted, provider,
                  refused, ended, outran, begun, faults>>
  BY DEF SpendCode
<1>3. \A c \in Codes : codes'[c] = codes[c] \/ codes'[c].state = "spent"
  BY <1>1 DEF SpendCode, RevokeInv, WellFormed, TypeOK
<1>4. ASSUME Steady PROVE StoreCovered'
  <2>1. \A k \in Keys : upstream'[k] # None => Covered(upstream[k].tokens, k)'
    BY <1>2, <1>4, UpstreamStays DEF Covered
  <2>2. \A c \in Codes : CodeCovered(codes[c])'
    BY <1>3, <1>4, CodeStays DEF CodeCovered
  <2> QED
    BY <2>1, <2>2 DEF StoreCovered
<1>5. CASE End(r) /\ UNCHANGED signIn
  <2>1. Monotone
    BY <1>2, <1>5 DEF Monotone, minted
  <2>2. Steady
    BY <1>2, <1>5, <2>1, PlainSteady DEF End, RevokeInv
  <2> QED
    BY <1>4, <1>5, <2>2, CoveredEnd
<1>6. CASE /\ req[r].read.state = "active"
           /\ \E k \in {key \in Keys : signIn[key] = None} :
                /\ signIn' = [signIn EXCEPT ![k] =
                     [code |-> req[r].code, user |-> req[r].read.tokens.user,
                      at |-> req[r].read.tokens.issuedAt]]
                /\ Goto(r, "keepUpstream", [NoLocals EXCEPT !.key = k,
                                              !.fresh = req[r].read.tokens,
                                              !.owner = req[r].read.client, !.at = now])
  <2>1. PICK t \in Tokens : t = req[r].read.tokens
    BY <1>1, <1>6 DEF EntryOK
  <2>2. PICK k \in Keys :
          /\ signIn[k] = None
          /\ signIn' = [signIn EXCEPT ![k] =
               [code |-> req[r].code, user |-> t.user, at |-> t.issuedAt]]
          /\ Goto(r, "keepUpstream", [NoLocals EXCEPT !.key = k, !.fresh = t,
                                         !.owner = req[r].read.client, !.at = now])
    BY <1>6, <2>1
  <2>3. PICK l : /\ Goto(r, "keepUpstream", l) /\ l.key = k /\ l.fresh = t
    <3>1. PICK l : l = [NoLocals EXCEPT !.key = k, !.fresh = t, !.owner = req[r].read.client,
                                        !.at = now]
      OBVIOUS
    <3>2. l.key = k /\ l.fresh = t
      BY <3>1 DEF NoLocals
    <3> QED
      BY <2>2, <3>1, <3>2
  <2>4. signIn'[k] = [code |-> req[r].code, user |-> t.user, at |-> t.issuedAt]
    BY <2>2 DEF RevokeInv, WellFormed, TypeOK
  <2>5. signIn'[k] \in SignIn
    BY <1>1, <2>1, <2>4 DEF SignIn, Tokens
  <2>6. t.issuedAt <= now
    BY <1>1, <1>6, <2>1 DEF CodeCovered
  <2>7. Steady
    <3>1. Monotone
      BY <1>2, <2>2 DEF Monotone, minted, RevokeInv, WellFormed, TypeOK
    <3> QED
      BY <1>2, <2>3, <3>1, PlainSteady DEF RevokeInv
  <2>8. Covered(t, k)'
    <3>1. t.user = signIn'[k].user /\ t.issuedAt <= now' /\ signIn'[k] # None
      BY <1>2, <2>4, <2>5, <2>6, NoneAssumption
    <3>2. ASSUME signIn'[k].user # None, NEW m \in Revocations(signIn[k].user)',
                 Reached(k)' <= m
          PROVE  t.issuedAt <= m
      <4>1. PICK u \in Users : u = signIn'[k].user
        BY <2>5, <3>2 DEF SignIn
      <4>2. Revocations(u)' = Revocations(signIn[k].user)'
        BY <4>1 DEF Revocations
      <4>3. m \in Nat
        BY <3>2, <4>2, RevocationsTimed
      <4>4. t.issuedAt \in Nat /\ outran'[k] \in Nat
        BY DEF Tokens, Time, WellFormed, TypeOK
      <4> QED
        BY <2>4, <3>2, <4>3, <4>4 DEF Reached, Later
    <3> QED
      BY <3>1, <3>2 DEF Covered
  <2>9. LocalCovered("keepUpstream", l)'
    BY <2>3, <2>8 DEF LocalCovered, Covered
  <2> QED
    BY <1>4, <2>3, <2>7, <2>9, CoveredMove
<1> QED
  BY <1>5, <1>6 DEF SpendCode

\* What is kept upstream is what the request was covered with.
LEMMA KeepUpstreamCovered ==
  ASSUME RevokeInv, WellFormed', NEW r \in Requests, KeepUpstream(r)
  PROVE  AllCovered'
<1>1. /\ LocalOK("keepUpstream", req[r]) /\ LocalCovered("keepUpstream", req[r])
      /\ req[r] \in Locals
  BY DEF KeepUpstream, RevokeInv, WellFormed, TypeOK, LocalsOK, AllCovered
<1>2. PICK kr \in Keys, t \in Tokens : kr = req[r].key /\ t = req[r].fresh
  BY <1>1 DEF LocalOK, Holding, Issuing
<1>3. PICK l : Goto(r, "saveAccess", l) /\ l.key = kr /\ l.fresh = t
  <2>1. PICK l : l = [req[r] EXCEPT !.begun = req[r].at, !.at = now]
    OBVIOUS
  <2>2. l.key = kr /\ l.fresh = t
    BY <1>1, <1>2, <2>1 DEF Locals
  <2> QED
    BY <2>1, <2>2 DEF KeepUpstream
<1>4. Steady
  <2>1. Monotone
    BY DEF KeepUpstream, Monotone, minted, ghosts
  <2> QED
    BY <1>3, <2>1, PlainSteady DEF KeepUpstream, RevokeInv, ghosts
<1>5. Covered(t, kr)'
  BY <1>1, <1>2, <1>4, CoveredStays DEF LocalCovered, Issuing, RevokeInv
<1>6. upstream'[kr].tokens = t /\ \A k \in Keys \ {kr} : upstream'[k] = upstream[k]
  BY <1>2 DEF KeepUpstream, RevokeInv, WellFormed, TypeOK
<1>7. \A k \in Keys : upstream'[k] # None => Covered(upstream[k].tokens, k)'
  BY <1>4, <1>5, <1>6, UpstreamStays DEF Covered
<1>8. StoreCovered'
  <2>1. \A c \in Codes : CodeCovered(codes[c])'
    BY <1>4, CodeStays DEF CodeCovered, KeepUpstream
  <2> QED
    BY <1>7, <2>1 DEF StoreCovered
<1>9. LocalCovered("saveAccess", l)'
  BY <1>3, <1>5 DEF LocalCovered, Covered
<1> QED
  BY <1>3, <1>4, <1>8, <1>9, CoveredMove

LEMMA GrantForCovered ==
  ASSUME RevokeInv, WellFormed', NEW r \in Requests, pc[r] \in Issuing, NEW use, NEW lifetime,
         NEW next \in {"saveRefresh", "findClient"}, GrantFor(r, use, lifetime, next)
  PROVE  AllCovered'
<1>1. LocalOK(pc[r], req[r]) /\ LocalCovered(pc[r], req[r]) /\ req[r] \in Locals
  BY DEF RevokeInv, WellFormed, TypeOK, LocalsOK, AllCovered
<1>2. PICK l : /\ Goto(r, next, l) /\ l.key = req[r].key /\ l.fresh = req[r].fresh
  <2>1. PICK l : l = [req[r] EXCEPT !.issued = @ \cup {drawn + 1}, !.at = now]
    OBVIOUS
  <2>2. l.key = req[r].key /\ l.fresh = req[r].fresh
    BY <1>1, <2>1 DEF Locals
  <2> QED
    BY <2>1, <2>2 DEF GrantFor
<1>3. Monotone
  <2>1. drawn + 1 \in Jtis
    BY GrantsAssumption DEF GrantFor, RevokeInv, WellFormed, TypeOK, Jtis
  <2>2. token[drawn + 1] = None
    BY <2>1 DEF RevokeInv, WellFormed, TypeOK, TokensOK
  <2>3. \A j \in Jtis \ {drawn + 1} : token'[j] = token[j]
    BY <2>1 DEF GrantFor, RevokeInv, WellFormed, TypeOK
  <2> QED
    BY <2>2, <2>3, NoneAssumption DEF GrantFor, Monotone
<1>4. Steady
  BY <1>2, <1>3, PlainSteady DEF GrantFor, RevokeInv
<1>5. Covered(l.fresh, l.key)'
  <2>1. l.key \in Keys /\ l.fresh \in Tokens /\ Covered(l.fresh, l.key)
    BY <1>1, <1>2 DEF LocalCovered, LocalOK, Holding, Covered
  <2> QED
    BY <1>4, <2>1, CoveredStays DEF RevokeInv
<1>6. LocalCovered(next, l)'
  BY <1>5 DEF LocalCovered, Issuing
<1>7. StoreCovered'
  BY <1>4, StoreStays DEF GrantFor
<1> QED
  BY <1>2, <1>4, <1>6, <1>7, CoveredMove

\* The steps between claiming a refresh token and the second look at the revocations.
LEMMA RotateCovered ==
  ASSUME RevokeInv, WellFormed', NEW r \in Requests,
         FindUpstream(r) \/ CheckRevoked(r) \/ ProviderAnswers(r) \/ ProviderFails(r)
  PROVE  AllCovered'
<1>1. /\ req[r] \in Locals /\ LocalOK(pc[r], req[r]) /\ LocalCovered(pc[r], req[r])
  BY DEF RevokeInv, WellFormed, TypeOK, LocalsOK, AllCovered
<1>2. UNCHANGED <<now, revokedAt, outran, codes, upstream>> /\ Monotone
  BY DEF FindUpstream, CheckRevoked, ProviderAnswers, ProviderFails, Monotone, store, minted,
     ghosts
<1>3. ASSUME NEW label, NEW l, Goto(r, label, l), label # "saveRevocation",
             Steady => LocalCovered(label, l)'
      PROVE  AllCovered'
  <2>1. Steady
    BY <1>2, <1>3, PlainSteady DEF RevokeInv
  <2> QED
    BY <1>2, <1>3, <2>1, StoreStays, CoveredMove
<1>4. ASSUME Refuse(r) PROVE AllCovered'
  BY <1>3, <1>4 DEF Refuse, End, LocalCovered, Issuing
<1>5. ASSUME NEW l, Goto(r, "putBack", l) PROVE AllCovered'
  BY <1>3, <1>5 DEF LocalCovered, Issuing
<1>6. CASE FindUpstream(r)
  <2>1. PICK kr \in Keys : kr = req[r].key
    BY <1>1, <1>6 DEF FindUpstream, LocalOK, Holding, InRotate
  <2>2. CASE Found(kr)
    <3>1. PICK l : /\ Goto(r, "checkRevoked", l)
                   /\ l.key = kr /\ l.cur = upstream[kr].tokens
      BY <1>1, <1>6, <2>1, <2>2 DEF FindUpstream, Locals
    <3>2. ASSUME Steady PROVE LocalCovered("checkRevoked", l)'
      <4>1. Covered(l.cur, l.key)'
        BY <2>2, <3>1, <3>2, UpstreamStays DEF Found, Covered
      <4> QED
        BY <4>1 DEF LocalCovered, Issuing
    <3> QED
      BY <1>3, <3>1, <3>2
  <2> QED
    BY <1>5, <1>6, <2>1, <2>2 DEF FindUpstream
<1>7. CASE CheckRevoked(r)
  <2>1. ASSUME Goto(r, "ask", req[r]) PROVE AllCovered'
    <3>1. PICK l : l = req[r]
      OBVIOUS
    <3>2. LocalOK("ask", l) /\ LocalCovered("ask", l)
      BY <1>1, <1>7, <3>1
      DEF CheckRevoked, LocalOK, LocalCovered, Covered, Holding, InRotate, Issuing
    <3>3. Steady => LocalCovered("ask", l)'
      BY <3>2, LocalCoveredStays DEF RevokeInv
    <3> QED
      BY <1>3, <2>1, <3>1, <3>3
  <2> QED
    BY <1>4, <1>5, <1>7, <2>1 DEF CheckRevoked
<1>8. CASE ProviderAnswers(r)
  <2>1. Covered(req[r].cur, req[r].key) /\ req[r].key \in Keys /\ req[r].cur \in Tokens
    BY <1>1, <1>8 DEF ProviderAnswers, LocalOK, LocalCovered, Holding
  <2>2. PICK l : /\ Goto(r, "recheck", l) /\ l.key = req[r].key /\ l.cur = req[r].cur
                 /\ l.fresh.user \in {l.cur.user, None} /\ l.fresh.issuedAt = now
    <3>1. PICK rt \in {req[r].cur.rt, req[r].cur.rt + 1}, user \in {req[r].cur.user, None},
               life \in Lifetimes :
            Goto(r, "recheck", [req[r] EXCEPT !.fresh =
              [session |-> req[r].cur.session, user |-> user, issuedAt |-> now, rt |-> rt,
               life |-> life]])
      BY <1>8 DEF ProviderAnswers
    <3> QED
      BY <1>1, <3>1 DEF Locals
  <2>3. ASSUME Steady PROVE LocalCovered("recheck", l)'
    <3>1. l.cur \in Tokens /\ l.key \in Keys /\ Covered(l.cur, l.key)
      BY <2>1, <2>2 DEF Covered
    <3>2. Covered(l.cur, l.key)'
      BY <2>3, <3>1, CoveredStays DEF RevokeInv
    <3> QED
      BY <1>2, <2>2, <3>2 DEF LocalCovered, Issuing, RevokeInv, WellFormed, TypeOK, Time
  <2> QED
    BY <1>3, <2>2, <2>3
<1>9. CASE ProviderFails(r)
  BY <1>5, <1>9 DEF ProviderFails
<1> QED
  BY <1>6, <1>7, <1>8, <1>9

\* The second look: tokens that outrun a revocation raise the moment from which one counts.
LEMMA RecheckCovered ==
  ASSUME RevokeInv, WellFormed', NEW r \in Requests, Recheck(r)
  PROVE  AllCovered'
<1>1. /\ req[r] \in Locals /\ LocalOK("recheck", req[r]) /\ LocalCovered("recheck", req[r])
  BY DEF Recheck, RevokeInv, WellFormed, TypeOK, LocalsOK, AllCovered
<1>2. PICK kr \in Keys, cur \in Tokens, fresh \in Tokens :
        /\ kr = req[r].key /\ cur = req[r].cur /\ fresh = req[r].fresh
        /\ Covered(cur, kr)
        /\ fresh.user \in {cur.user, None} /\ fresh.issuedAt <= now
  BY <1>1 DEF LocalOK, LocalCovered, Holding, InRotate, Covered
<1>3. PICK t \in Tokens : /\ t = Merged(cur, fresh)
                          /\ t.user = cur.user /\ t.issuedAt = fresh.issuedAt
  <2>1. PICK t : t = Merged(cur, fresh)
    OBVIOUS
  <2>2. t \in Tokens /\ t.issuedAt = fresh.issuedAt
    BY <1>2, <2>1 DEF Merged, Tokens
  <2>3. t.user = IF fresh.user = None THEN cur.user ELSE fresh.user
    BY <1>2, <2>1 DEF Merged, Tokens
  <2> QED
    BY <1>2, <2>1, <2>2, <2>3
<1>4. UNCHANGED <<now, revokedAt, codes, upstream>> /\ Monotone
  BY DEF Recheck, Monotone, store, minted
<1>5. CASE Refuse(r) /\ UNCHANGED outran
  <2>1. Steady
    BY <1>4, <1>5, PlainSteady DEF Refuse, End, RevokeInv
  <2> QED
    BY <1>4, <1>5, <2>1, StoreStays, CoveredEnd DEF Refuse
<1>6. CASE /\ ~IsRevoked(cur)
           /\ Goto(r, "keepUpstream", [req[r] EXCEPT !.fresh = t, !.cur = None, !.at = now])
           /\ outran' = IF RevocationComing(cur.user, t.issuedAt)
                        THEN [outran EXCEPT ![kr] = Later(@, t.issuedAt)] ELSE outran
  <2>1. PICK l : Goto(r, "keepUpstream", l) /\ l.key = kr /\ l.fresh = t
    <3>1. PICK l : l = [req[r] EXCEPT !.fresh = t, !.cur = None, !.at = now]
      OBVIOUS
    <3>2. l.key = kr /\ l.fresh = t
      BY <1>1, <1>2, <3>1 DEF Locals
    <3> QED
      BY <1>6, <3>1, <3>2
  <2>2. \A k \in Keys : outran[k] <= outran'[k]
    BY <1>6 DEF Later, Tokens, Time, RevokeInv, WellFormed, TypeOK
  <2>3. Steady
    BY <1>4, <2>1, <2>2, GotoSteady DEF RevokeInv
  <2>4. /\ signIn[kr] \in SignIn /\ signIn'[kr] = signIn[kr] /\ signIn[kr] # None
        /\ t.issuedAt \in Nat /\ cur.issuedAt \in Nat /\ t.issuedAt <= now'
        /\ outran[kr] \in Nat /\ outran'[kr] \in Nat
    BY <1>2, <1>3, <1>4 DEF Covered, Monotone, Tokens, Time, RevokeInv, WellFormed, TypeOK
  <2>5. ASSUME signIn[kr].user # None, NEW m \in Revocations(signIn[kr].user)',
               Reached(kr)' <= m
        PROVE  t.issuedAt <= m
    <3>1. PICK u \in Users : u = signIn[kr].user /\ u = cur.user /\ u # None
      BY <1>2, <2>4, <2>5 DEF Covered, SignIn
    <3>2. Revocations(u)' = Revocations(signIn[kr].user)' /\ revokedAt[u] \in Nat
      BY <2>4, <3>1 DEF Revocations, RevokeInv, WellFormed, TypeOK, Time
    <3>3. m \in Nat /\ m \in Revocations(u)'
      BY <2>5, <3>2, RevocationsTimed
    <3>4. Reached(kr) <= m
      BY <2>2, <2>4, <2>5, <3>3 DEF Reached, Later, SignIn, Time
    <3>5. CASE m = revokedAt[u]
      <4>1. cur.issuedAt <= revokedAt[u]
        BY <1>2, <3>1, <3>4, <3>5 DEF Covered, Revocations
      <4> QED
        BY <1>6, <3>1, <4>1 DEF IsRevoked
    <3>6. ASSUME NEW q \in Requests, pc'[q] = "saveRevocation", req'[q].user = u,
                 m = req'[q].at
          PROVE  t.issuedAt <= m
      <4>1. pc[q] = "saveRevocation" /\ req[q].user = u /\ m = req[q].at
        BY <2>1, <3>6 DEF Goto, RevokeInv, WellFormed, TypeOK
      <4>2. ASSUME m < t.issuedAt PROVE FALSE
        <5>1. RevocationComing(cur.user, t.issuedAt)
          BY <3>1, <4>1, <4>2 DEF RevocationComing
        <5>2. t.issuedAt <= outran'[kr]
          BY <1>6, <2>4, <5>1 DEF Later, RevokeInv, WellFormed, TypeOK
        <5> QED
          BY <2>4, <2>5, <3>3, <4>2, <5>2 DEF Reached, Later, SignIn, Time
      <4> QED
        BY <2>4, <3>3, <4>2
    <3> QED
      BY <1>4, <3>3, <3>5, <3>6 DEF Revocations
  <2>6. Covered(t, kr)'
    <3>1. signIn[kr].user # None => t.user = signIn[kr].user
      BY <1>2, <1>3 DEF Covered
    <3> QED
      BY <2>4, <2>5, <3>1 DEF Covered
  <2>7. LocalCovered("keepUpstream", l)'
    BY <2>1, <2>6 DEF LocalCovered, Covered
  <2> QED
    BY <1>4, <2>1, <2>3, <2>7, StoreStays, CoveredMove
<1> QED
  BY <1>2, <1>3, <1>5, <1>6 DEF Recheck, JudgedOn

\* The steps of a request that concern neither its tokens nor a revocation.
LEMMA OtherCovered ==
  ASSUME RevokeInv, WellFormed', NEW r \in Requests,
         TakeCode(r) \/ ReadCode(r) \/ DeleteCode(r) \/ FindClient(r) \/ SaveClient(r)
           \/ DeleteGrant(r) \/ PutBack(r)
  PROVE  AllCovered'
<1>1. /\ req[r] \in Locals /\ LocalOK(pc[r], req[r]) /\ LocalCovered(pc[r], req[r])
  BY DEF RevokeInv, WellFormed, TypeOK, LocalsOK, AllCovered
<1>2. UNCHANGED <<now, revokedAt, outran, upstream>> /\ Monotone
  BY DEF TakeCode, ReadCode, DeleteCode, FindClient, SaveClient, DeleteGrant, PutBack,
     Monotone, store, minted, ghosts
<1>20. ASSUME NEW label, NEW l, Goto(r, label, l), label # "saveRevocation"
       PROVE  Steady
  BY <1>2, <1>20, PlainSteady DEF RevokeInv
<1>21. ASSUME NEW entry, Redeemed(r, entry) PROVE Steady
  BY <1>20, <1>21 DEF Redeemed, End
<1>3. ASSUME UNCHANGED codes, Steady PROVE StoreCovered'
  BY <1>2, <1>3, StoreStays
<1>4. CASE TakeCode(r)
  <2>1. PICK c \in Codes : c = req[r].code
    BY <1>1, <1>4 DEF TakeCode, LocalOK
  <2>2. EntryOK(codes[c]) /\ CodeCovered(codes[c])
    BY DEF RevokeInv, WellFormed, CodesOK, AllCovered, StoreCovered
  <2> QED
    BY <1>2, <1>21, <1>4, <2>1, <2>2, RemovedCovered, RedeemedCovered DEF TakeCode
<1>5. CASE ReadCode(r)
  <2>1. PICK e : e = codes[req[r].code] /\ EntryOK(e) /\ CodeCovered(e)
    BY <1>1, <1>5
    DEF ReadCode, LocalOK, RevokeInv, WellFormed, CodesOK, AllCovered, StoreCovered, EntryOK,
        CodeCovered
  <2>2. PICK l : /\ Goto(r, "deleteCode", l) /\ l.read = e
    BY <1>1, <1>5, <2>1 DEF ReadCode, Locals
  <2>3. Steady
    BY <1>20, <2>2
  <2>4. CodeCovered(e)'
    BY <2>1, <2>3, CodeCoveredStays DEF RevokeInv
  <2>5. LocalCovered("deleteCode", l)'
    BY <2>2, <2>4 DEF LocalCovered, CodeCovered, Issuing
  <2>6. UNCHANGED codes
    BY <1>5 DEF ReadCode, store
  <2> QED
    BY <1>3, <2>2, <2>3, <2>5, <2>6, CoveredMove
<1>6. CASE DeleteCode(r)
  <2>1. PICK c \in Codes : c = req[r].code
    BY <1>1, <1>6 DEF DeleteCode, LocalOK
  <2>2. EntryOK(req[r].read) /\ CodeCovered(req[r].read)
    BY <1>1, <1>6 DEF DeleteCode, LocalOK, LocalCovered
  <2> QED
    BY <1>2, <1>21, <1>6, <2>1, <2>2, RemovedCovered, RedeemedCovered DEF DeleteCode
<1>7. ASSUME NEW l, NEW label \in {"saveClient", "findUpstream", "putBack"},
             Goto(r, label, l), UNCHANGED codes
      PROVE  AllCovered'
  <2>1. LocalCovered(label, l)'
    BY DEF LocalCovered, Issuing
  <2> QED
    BY <1>3, <1>7, <1>20, <2>1, CoveredMove
<1>8. ASSUME End(r), UNCHANGED codes PROVE AllCovered'
  BY <1>3, <1>8, <1>20, CoveredEnd DEF End
<1>9. CASE FindClient(r) \/ SaveClient(r)
  BY <1>7, <1>8, <1>9 DEF FindClient, SaveClient, Respond, store
<1>10. CASE DeleteGrant(r)
  BY <1>7, <1>10 DEF DeleteGrant, Claimed
<1>11. CASE PutBack(r)
  BY <1>8, <1>11 DEF PutBack
<1> QED
  BY <1>4, <1>5, <1>6, <1>9, <1>10, <1>11

\* A revocation that lands was on its way, so that what is kept by then accounts for it.
LEMMA SaveRevocationCovered ==
  ASSUME RevokeInv, WellFormed', NEW r \in Requests, SaveRevocation(r)
  PROVE  AllCovered'
<1>1. PICK u \in Users, at \in Nat : u = req[r].user /\ at = req[r].at
  BY DEF SaveRevocation, RevokeInv, WellFormed, TypeOK, LocalsOK, LocalOK, Locals, Time
<1>2. /\ revokedAt' = [revokedAt EXCEPT ![u] = at] /\ End(r)
      /\ UNCHANGED <<now, codes, upstream, token, signIn, outran>>
  BY <1>1 DEF SaveRevocation, minted
<1>3. /\ pc'[r] = "idle"
      /\ \A q \in Requests \ {r} : pc'[q] = pc[q] /\ req'[q] = req[q]
  BY <1>2, EndOK, GotoType DEF RevokeInv, WellFormed
<1>4. Steady
  <2>1. ASSUME NEW v \in Users, NEW m \in Revocations(v)' PROVE m \in Revocations(v)
    <3>1. CASE m = revokedAt'[v]
      BY <1>1, <1>2, <3>1 DEF SaveRevocation, Revocations, RevokeInv, WellFormed, TypeOK
    <3>2. ASSUME NEW q \in Requests, pc'[q] = "saveRevocation", req'[q].user = v,
                 m = req'[q].at
          PROVE  m \in Revocations(v)
      BY <1>3, <3>2 DEF Revocations
    <3> QED
      BY <2>1, <3>1, <3>2 DEF Revocations
  <2> QED
    BY <1>2, <2>1 DEF Steady, Monotone, RevokeInv, WellFormed, TypeOK, Time
<1> QED
  BY <1>2, <1>4, StoreStays, CoveredEnd

LEMMA TickCovered ==
  ASSUME RevokeInv, WellFormed', Tick
  PROVE  AllCovered'
<1>1. /\ now' = now + 1 /\ now \in Nat
      /\ UNCHANGED <<pc, req, codes, upstream, revokedAt, token, signIn, outran>>
  BY DEF Tick, store, minted, ghosts, RevokeInv, WellFormed, TypeOK, Time
<1>2. \A u \in Users : Revocations(u)' = Revocations(u)
  BY <1>1 DEF Revocations
<1>3. Steady
  BY <1>1, <1>2 DEF Steady, Monotone, RevokeInv, WellFormed, TypeOK, Time
<1> QED
  BY <1>1, <1>3, StoreStays, CoveredWaits

LEMMA NextCovered ==
  ASSUME RevokeInv, WellFormed', Next
  PROVE  AllCovered'
<1>1. ASSUME NEW r \in Requests, NEW label, NEW l, Goto(r, label, l),
             label \notin {"deleteCode", "spendCode", "checkRevoked", "ask", "recheck"} \cup Issuing,
             label = "saveRevocation" => l.at = now,
             Monotone, UNCHANGED <<now, revokedAt, outran, codes, upstream>>
      PROVE  AllCovered'
  <2>1. Steady
    BY <1>1, PlainSteady DEF RevokeInv
  <2>2. LocalCovered(label, l)'
    BY <1>1 DEF LocalCovered
  <2> QED
    BY <1>1, <2>1, <2>2, StoreStays, CoveredMove
<1>3. ASSUME NEW c \in Codes, IssueCode(c) PROVE AllCovered'
  <2>1. /\ UNCHANGED <<now, revokedAt, outran, pc, req, upstream>> /\ Monotone
    BY <1>3 DEF IssueCode, Monotone, minted, ghosts
  <2>2. \A u \in Users : Revocations(u)' = Revocations(u)
    BY <2>1 DEF Revocations
  <2>3. Steady
    BY <2>1, <2>2 DEF Steady, RevokeInv, WellFormed, TypeOK, Time
  <2>4. \A k \in Keys : upstream'[k] # None => Covered(upstream[k].tokens, k)'
    BY <2>1, <2>3, UpstreamStays DEF Covered
  <2>5. codes'[c].tokens.issuedAt = now /\ \A d \in Codes \ {c} : codes'[d] = codes[d]
    BY <1>3 DEF IssueCode, RevokeInv, WellFormed, TypeOK
  <2>6. \A d \in Codes : CodeCovered(codes[d])'
    <3>1. now \in Nat
      BY DEF RevokeInv, WellFormed, TypeOK, Time
    <3> QED
      BY <2>1, <2>3, <2>5, <3>1, CodeStays DEF CodeCovered
  <2> QED
    BY <2>1, <2>3, <2>4, <2>6, CoveredWaits DEF StoreCovered
<1>4. ASSUME NEW r \in Requests, NEW c \in Codes, NEW client \in Clients,
             StartRedeem(r, c, client)
      PROVE  AllCovered'
  <2>1. Monotone /\ UNCHANGED <<now, revokedAt, outran, codes, upstream>>
    BY <1>4 DEF StartRedeem, Monotone, store, minted, ghosts
  <2>2. PICK l : Goto(r, "takeCode", l)
    BY <1>4 DEF StartRedeem
  <2> QED
    BY <1>1, <2>1, <2>2 DEF Issuing
<1>5. ASSUME NEW r \in Requests, NEW j \in Jtis, NEW client \in Clients \cup {None},
             ClaimRefresh(r, j, client) \/ ReadGrant(r, j, client)
      PROVE  AllCovered'
  <2>1. Monotone /\ UNCHANGED <<now, revokedAt, outran, codes, upstream>>
    BY <1>5 DEF ClaimRefresh, ReadGrant, Monotone, store, minted, ghosts
  <2>2. PICK label \in {"findUpstream", "putBack", "deleteGrant"} : \E l : Goto(r, label, l)
    BY <1>5 DEF ClaimRefresh, ReadGrant, Claimed
  <2> QED
    BY <1>1, <2>1, <2>2 DEF Issuing
<1>6. ASSUME NEW r \in Requests, NEW u \in Users, RevokeUser(r, u) PROVE AllCovered'
  <2>1. Monotone /\ UNCHANGED <<now, revokedAt, outran, codes, upstream>>
    BY <1>6 DEF RevokeUser, Monotone, store, minted, ghosts
  <2>2. PICK l : Goto(r, "saveRevocation", l) /\ l.at = now
    <3>1. [NoLocals EXCEPT !.user = u, !.at = now].at = now
      BY DEF NoLocals
    <3> QED
      BY <1>6, <3>1 DEF RevokeUser
  <2> QED
    BY <1>1, <2>1, <2>2 DEF Issuing
<1>7. ASSUME NEW r \in Requests, StoreFails(r) \/ Crash(r) PROVE AllCovered'
  <2>1. Monotone /\ UNCHANGED <<now, revokedAt, outran, codes, upstream>>
    BY <1>7 DEF StoreFails, Crash, Monotone, store, minted
  <2>2. PICK label \in {"idle", "putBack"} : \E l : Goto(r, label, l)
    BY <1>7 DEF StoreFails, Crash, Respond, End
  <2> QED
    BY <1>1, <2>1, <2>2 DEF Issuing
<1>8. ASSUME NEW r \in Requests, SaveAccess(r) \/ SaveRefresh(r) PROVE AllCovered'
  BY <1>8, GrantForCovered DEF SaveAccess, SaveRefresh, Issuing
<1>9. ASSUME NEW r \in Requests, Continue(r) PROVE AllCovered'
  BY <1>8, <1>9, SpendCodeCovered, KeepUpstreamCovered, RotateCovered, RecheckCovered,
     OtherCovered, SaveRevocationCovered DEF Continue
<1> QED
  BY <1>3, <1>4, <1>5, <1>6, <1>7, <1>9, TickCovered DEF Next

(* A revocation on record ends every sign-in of its user made until then, however many        *)
(* refreshes of it are under way, in whichever order revocations land, whatever the provider  *)
(* leaves out of its answers and whatever fails; for a sign-in whose last refresh outran an   *)
(* earlier revocation, if it is no earlier than that refresh.  Nothing is assumed of how long *)
(* a revocation takes to be saved.                                                            *)
THEOREM RevokedSignInsEnd == Spec => []RevocationReaches
<1>1. Init => RevokeInv
  <2>1. Init => AllCovered
    BY DEF Init, AllCovered, StoreCovered, CodeCovered, NoCode, LocalCovered, Issuing
  <2> QED
    BY <2>1, InitWellFormed DEF RevokeInv
<1>2. RevokeInv /\ [Next]_vars => RevokeInv'
  <2> SUFFICES ASSUME RevokeInv, [Next]_vars PROVE RevokeInv'
    OBVIOUS
  <2>1. WellFormed'
    BY StepWellFormed DEF RevokeInv
  <2>2. CASE UNCHANGED vars
    BY <2>1, <2>2
    DEF RevokeInv, AllCovered, StoreCovered, CodeCovered, LocalCovered, Covered, Revocations,
        Reached, vars, store, ghosts
  <2>3. CASE Next
    BY <2>1, <2>3, NextCovered DEF RevokeInv
  <2> QED
    BY <2>2, <2>3
<1>3. RevokeInv => RevocationReaches
  <2> SUFFICES ASSUME RevokeInv, NEW k \in Keys, signIn[k] # None, signIn[k].user # None,
                      Later(signIn[k].at, outran[k]) <= revokedAt[signIn[k].user]
               PROVE  Ended(k)
    BY DEF RevocationReaches
  <2>1. signIn[k].user \in Users
    BY DEF RevokeInv, WellFormed, TypeOK, SignIn
  <2>2. upstream[k] # None => IsRevoked(upstream[k].tokens)
    BY <2>1
    DEF RevokeInv, AllCovered, StoreCovered, Covered, Reached, Revocations, IsRevoked
  <2> QED
    BY <2>2 DEF Ended, Resolves, Found
<1> QED
  BY <1>1, <1>2, <1>3, PTL DEF Spec

-----------------------------------------------------------------------------
(* The provider's refresh token, as long as nothing breaks.  A sign-in's      *)
(* tokens move from its code to the request that redeems it, to the store and *)
(* through each refresh, and the provider honours the refresh token wherever  *)
(* they are: one holder of the right to refresh is one caller of the provider.*)

\* Tokens t carry the refresh token the provider honours for code c.
FromCode(t, c) == t.session = c /\ t.rt = provider[c]

\* What is kept upstream for k could be refreshed now.
Standing(k) == upstream[k] # None /\ FromCode(upstream[k].tokens, signIn[k].code)

LocalCurrent(label, l) ==
  /\ label = "spendCode" /\ l.read.state = "active" => FromCode(l.read.tokens, l.code)
  /\ label \in {"findUpstream", "checkRevoked", "ask", "putBack"} => Standing(l.key)
  /\ label \in {"checkRevoked", "ask"} => l.cur = upstream[l.key].tokens
  /\ label \in {"recheck"} \cup Issuing => FromCode(l.fresh, signIn[l.key].code)
  /\ label \in {"saveAccess", "saveRefresh"} =>
       upstream[l.key] # None /\ upstream[l.key].tokens = l.fresh

ProviderCurrent ==
  /\ \A c \in Codes : codes[c].state = "active" => FromCode(codes[c].tokens, c)
  /\ \A j \in Jtis, k \in Keys : StoredRefresh(j, k) => Standing(k)
  /\ \A r \in Requests : LocalCurrent(pc[r], req[r])

QuietInv == OneInv /\ RedeemInv /\ (faults = 0 => ProviderCurrent)

\* A step of r that leaves the tokens where they are.
LEMMA CurrentMove ==
  ASSUME WellFormed, ProviderCurrent, NEW r \in Requests, NEW label, NEW l,
         Goto(r, label, l), UNCHANGED <<upstream, provider, signIn>>,
         LocalCurrent(label, l),
         \A c \in Codes : codes'[c].state = "active" => codes'[c] = codes[c],
         \A j \in Jtis, k \in Keys : StoredRefresh(j, k)' => Standing(k)
  PROVE  ProviderCurrent'
<1>1. /\ pc'[r] = label /\ req'[r] = l
      /\ \A q \in Requests \ {r} : pc'[q] = pc[q] /\ req'[q] = req[q]
  BY DEF Goto, WellFormed, TypeOK
<1>2. \A q \in Requests : LocalCurrent(pc[q], req[q])'
  BY <1>1 DEF ProviderCurrent, LocalCurrent, Standing, FromCode
<1> QED
  BY <1>2 DEF ProviderCurrent, Standing, FromCode

\* The same, for a request that awaits nothing of its sign-in afterwards.
LEMMA CurrentLeave ==
  ASSUME WellFormed, ProviderCurrent, NEW r \in Requests, NEW label, NEW l,
         Goto(r, label, l), label \notin Holding \cup {"spendCode"},
         UNCHANGED <<upstream, provider, signIn, codes>>,
         \A j \in Jtis, k \in Keys : StoredRefresh(j, k)' => Standing(k)
  PROVE  ProviderCurrent'
<1>1. LocalCurrent(label, l)
  BY DEF LocalCurrent, Holding, InRotate, Issuing
<1> QED
  BY <1>1, CurrentMove

LEMMA TakeCodeCurrent ==
  ASSUME WellFormed, ProviderCurrent, NEW r \in Requests, TakeCode(r)
  PROVE  ProviderCurrent'
<1>1. PICK cr \in Codes : cr = req[r].code
  BY DEF TakeCode, WellFormed, LocalsOK, LocalOK
<1>2. codes[cr] \in CodeEntry /\ req[r] \in Locals
  BY DEF WellFormed, TypeOK
<1>3. \A c \in Codes : codes'[c].state = "active" => codes'[c] = codes[c]
  BY <1>1, <1>2 DEF TakeCode, Removed, WellFormed, TypeOK, CodeEntry
<1>4. UNCHANGED <<upstream, provider, signIn, token, grants>>
  BY DEF TakeCode, minted, ghosts
<1>5. \A j \in Jtis, k \in Keys : StoredRefresh(j, k)' => Standing(k)
  BY <1>4 DEF StoredRefresh, ProviderCurrent
<1>6. CASE End(r)
  <2>1. LocalCurrent("idle", NoLocals)
    BY DEF LocalCurrent, Issuing
  <2> QED
    BY <1>3, <1>4, <1>5, <1>6, <2>1, CurrentMove DEF End
<1>7. CASE Goto(r, "spendCode", [req[r] EXCEPT !.read = codes[cr]])
  <2>1. PICK l : l = [req[r] EXCEPT !.read = codes[cr]]
    OBVIOUS
  <2>2. l.read = codes[cr] /\ l.code = cr
    BY <1>1, <1>2, <2>1 DEF Locals
  <2>3. LocalCurrent("spendCode", l)
    BY <2>2 DEF LocalCurrent, ProviderCurrent, Issuing
  <2> QED
    BY <1>3, <1>4, <1>5, <1>7, <2>1, <2>3, CurrentMove
<1> QED
  BY <1>1, <1>6, <1>7 DEF TakeCode, Redeemed

\* The sign-in of a new key begins with the tokens of its code.
LEMMA SpendCodeCurrent ==
  ASSUME OneInv, ProviderCurrent, NEW r \in Requests, SpendCode(r)
  PROVE  ProviderCurrent'
<1>0. WellFormed
  BY DEF OneInv
<1>1. PICK cr \in Codes : cr = req[r].code
  BY <1>0 DEF SpendCode, WellFormed, LocalsOK, LocalOK
<1>2. \A c \in Codes : codes'[c].state = "active" => codes'[c] = codes[c]
  BY <1>0, <1>1 DEF SpendCode, WellFormed, TypeOK
<1>3. UNCHANGED <<upstream, provider, token, grants>>
  BY DEF SpendCode, minted
<1>4. CASE End(r) /\ UNCHANGED signIn
  <2>1. LocalCurrent("idle", NoLocals)
    BY DEF LocalCurrent, Issuing
  <2>2. \A j \in Jtis, k \in Keys : StoredRefresh(j, k)' => Standing(k)
    BY <1>3 DEF StoredRefresh, ProviderCurrent
  <2> QED
    BY <1>0, <1>2, <1>3, <1>4, <2>1, <2>2, CurrentMove DEF End
<1>5. CASE /\ req[r].read.state = "active"
           /\ \E k \in {key \in Keys : signIn[key] = None} :
                /\ signIn' = [signIn EXCEPT ![k] =
                     [code |-> req[r].code, user |-> req[r].read.tokens.user,
                      at |-> req[r].read.tokens.issuedAt]]
                /\ Goto(r, "keepUpstream", [NoLocals EXCEPT !.key = k,
                                              !.fresh = req[r].read.tokens,
                                              !.owner = req[r].read.client, !.at = now])
  <2>1. PICK kr \in Keys :
          /\ signIn[kr] = None
          /\ signIn' = [signIn EXCEPT ![kr] =
               [code |-> cr, user |-> req[r].read.tokens.user,
                at |-> req[r].read.tokens.issuedAt]]
          /\ Goto(r, "keepUpstream", [NoLocals EXCEPT !.key = kr,
                                        !.fresh = req[r].read.tokens,
                                        !.owner = req[r].read.client, !.at = now])
    BY <1>1, <1>5
  <2>2. PICK l : l = [NoLocals EXCEPT !.key = kr, !.fresh = req[r].read.tokens,
                                      !.owner = req[r].read.client, !.at = now]
    OBVIOUS
  <2>3. l.key = kr /\ l.fresh = req[r].read.tokens
    BY <2>2 DEF NoLocals
  <2>4. /\ pc'[r] = "keepUpstream" /\ req'[r] = l
        /\ \A q \in Requests \ {r} : pc'[q] = pc[q] /\ req'[q] = req[q]
    BY <1>0, <2>1, <2>2 DEF Goto, WellFormed, TypeOK
  <2>5. /\ signIn'[kr].code = cr
        /\ \A k \in Keys \ {kr} : signIn'[k] = signIn[k]
    BY <1>0, <2>1 DEF WellFormed, TypeOK
  <2>6. FromCode(l.fresh, cr)
    BY <1>1, <1>5, <2>3 DEF SpendCode, ProviderCurrent, LocalCurrent
  <2>7. \A q \in Requests : pc[q] \in Holding => req[q].key \in Keys \ {kr}
    BY <1>0, <2>1 DEF WellFormed, LocalsOK, LocalOK
  <2>8. \A q \in Requests \ {r} : LocalCurrent(pc[q], req[q])'
    BY <1>3, <2>4, <2>5, <2>7
    DEF ProviderCurrent, LocalCurrent, Standing, FromCode, Holding, InRotate, Issuing
  <2>9. LocalCurrent(pc[r], req[r])'
    BY <1>3, <2>3, <2>4, <2>5, <2>6 DEF LocalCurrent, FromCode, Issuing
  <2>10. \A j \in Jtis, k \in Keys : StoredRefresh(j, k) => k # kr
    <3>1. \A j \in Jtis : j <= drawn \/ j > drawn
      BY <1>0, GrantsAssumption DEF WellFormed, TypeOK, Jtis
    <3> QED
      BY <1>0, <3>1, <2>1 DEF StoredRefresh, WellFormed, TokensOK
  <2>11. \A j \in Jtis, k \in Keys : StoredRefresh(j, k)' => Standing(k)'
    BY <1>3, <2>5, <2>10 DEF StoredRefresh, ProviderCurrent, Standing, FromCode
  <2>12. \A c \in Codes : codes'[c].state = "active" => FromCode(codes[c].tokens, c)'
    BY <1>2, <1>3 DEF ProviderCurrent, FromCode
  <2> QED
    BY <2>8, <2>9, <2>11, <2>12 DEF ProviderCurrent
<1> QED
  BY <1>4, <1>5 DEF SpendCode

\* The provider's tokens are kept for a time, and no shorter than either JWT is good for.
LEMMA LifetimeEnough ==
  ASSUME NEW t \in Tokens
  PROVE  /\ UpstreamLifetime(t) \in Nat
         /\ t.life.access <= UpstreamLifetime(t)
         /\ t.rt # 0 => t.life.refresh <= UpstreamLifetime(t)
  BY GrantsAssumption DEF UpstreamLifetime, Later, Tokens

\* What a request keeps upstream is nobody else's: no other request holds its key, and no
\* refresh token for it is stored.
LEMMA KeepUpstreamCurrent ==
  ASSUME OneInv, ProviderCurrent, NEW r \in Requests, KeepUpstream(r)
  PROVE  ProviderCurrent'
<1>0. /\ WellFormed /\ LocalOK(pc[r], req[r]) /\ LocalCurrent(pc[r], req[r])
      /\ req[r] \in Locals
  BY DEF OneInv, WellFormed, TypeOK, LocalsOK, ProviderCurrent
<1>1. PICK kr \in Keys : kr = req[r].key
  BY <1>0 DEF KeepUpstream, LocalOK, Holding, Issuing
<1>2. Holds(r, kr)
  BY <1>1 DEF KeepUpstream, Holds, Holding, Issuing
<1>3. /\ upstream'[kr] = [tokens |-> req[r].fresh,
                          until |-> req[r].at + UpstreamLifetime(req[r].fresh)]
      /\ \A k \in Keys \ {kr} : upstream'[k] = upstream[k]
      /\ UNCHANGED <<codes, provider, signIn, token, grants>>
  BY <1>0, <1>1 DEF KeepUpstream, WellFormed, TypeOK, minted, ghosts
<1>4. upstream'[kr] # None
  <2>1. req[r].fresh \in Tokens
    BY <1>0 DEF KeepUpstream, LocalOK, Issuing
  <2>2. upstream'[kr] \in Kept
    BY <1>0, <1>3, <2>1, LifetimeEnough DEF Kept, Time, Locals
  <2> QED
    BY <2>2, NoneAssumption
<1>5. /\ pc'[r] = "saveAccess" /\ req'[r].key = kr /\ req'[r].fresh = req[r].fresh
      /\ \A q \in Requests \ {r} : pc'[q] = pc[q] /\ req'[q] = req[q]
  <2>1. PICK l : l = [req[r] EXCEPT !.begun = req[r].at, !.at = now]
    OBVIOUS
  <2>2. l.key = kr /\ l.fresh = req[r].fresh
    BY <1>0, <1>1, <2>1 DEF Locals
  <2> QED
    BY <1>0, <2>1, <2>2 DEF KeepUpstream, Goto, WellFormed, TypeOK
<1>6. \A q \in Requests \ {r} : pc[q] \in Holding => req[q].key \in Keys \ {kr}
  BY <1>0, <1>2 DEF WellFormed, LocalsOK, LocalOK, OneInv, OneRefreshToken, Holds
<1>7. \A q \in Requests \ {r} : LocalCurrent(pc[q], req[q])'
  BY <1>3, <1>5, <1>6
  DEF ProviderCurrent, LocalCurrent, Standing, FromCode, Holding, InRotate, Issuing
<1>8. LocalCurrent(pc[r], req[r])'
  BY <1>0, <1>1, <1>3, <1>4, <1>5 DEF KeepUpstream, LocalCurrent, FromCode, Issuing
<1>9. \A j \in Jtis, k \in Keys : StoredRefresh(j, k) => k # kr
  BY <1>2 DEF OneInv, OneRefreshToken
<1>10. \A j \in Jtis, k \in Keys : StoredRefresh(j, k)' => Standing(k)'
  BY <1>3, <1>9 DEF StoredRefresh, ProviderCurrent, Standing, FromCode
<1>11. \A c \in Codes : codes'[c].state = "active" => FromCode(codes[c].tokens, c)'
  BY <1>3 DEF ProviderCurrent, FromCode
<1> QED
  BY <1>3, <1>7, <1>8, <1>10, <1>11 DEF ProviderCurrent

\* The provider's answer is about the sign-in of the one request that asks for it: nobody
\* else has, and no store entry is, a token of that code.
LEMMA ProviderAnswersCurrent ==
  ASSUME OneInv, RedeemInv, ProviderCurrent, NEW r \in Requests, ProviderAnswers(r)
  PROVE  ProviderCurrent'
<1>0. /\ WellFormed /\ LocalOK(pc[r], req[r]) /\ LocalCurrent(pc[r], req[r])
      /\ req[r] \in Locals
  BY DEF OneInv, WellFormed, TypeOK, LocalsOK, ProviderCurrent
<1>1. PICK kr \in Keys : kr = req[r].key
  BY <1>0 DEF ProviderAnswers, LocalOK, Holding
<1>2. PICK cur \in Tokens : cur = req[r].cur
  BY <1>0 DEF ProviderAnswers, LocalOK
<1>3. PICK cr \in Codes : cr = cur.session
  BY <1>2 DEF Tokens
<1>4. /\ Holds(r, kr) /\ DrawnFor(kr, cr)
  BY <1>0, <1>1, <1>2, <1>3
  DEF ProviderAnswers, LocalOK, LocalCurrent, Standing, FromCode, Holds, Holding, DrawnFor
<1>5. PICK rt \in {cur.rt, cur.rt + 1}, user \in {cur.user, None}, life \in Lifetimes :
        /\ provider' = [provider EXCEPT ![cr] = rt]
        /\ Goto(r, "recheck", [req[r] EXCEPT !.fresh =
             [session |-> cr, user |-> user, issuedAt |-> now, rt |-> rt, life |-> life]])
  BY <1>2, <1>3 DEF ProviderAnswers
<1>6. UNCHANGED <<codes, upstream, grants, token, signIn>>
  BY DEF ProviderAnswers, store, minted, ghosts
<1>7. /\ pc'[r] = "recheck" /\ req'[r].key = kr
      /\ req'[r].fresh.session = cr /\ req'[r].fresh.rt = rt
      /\ \A q \in Requests \ {r} : pc'[q] = pc[q] /\ req'[q] = req[q]
  BY <1>0, <1>1, <1>5 DEF Goto, WellFormed, TypeOK, Locals
<1>8. /\ provider'[cr] = rt
      /\ \A c \in Codes \ {cr} : provider'[c] = provider[c]
  BY <1>0, <1>5 DEF WellFormed, TypeOK
<1>9. \A k \in Keys \ {kr} : signIn[k] # None => signIn[k].code \in Codes \ {cr}
  BY <1>0, <1>4 DEF DrawnFor, RedeemInv, OneRedemption, WellFormed, TypeOK, SignIn
<1>10. \A q \in Requests \ {r} : pc[q] \in Holding =>
         req[q].key \in Keys \ {kr} /\ signIn[req[q].key] # None
  BY <1>0, <1>4 DEF WellFormed, LocalsOK, LocalOK, OneInv, OneRefreshToken, Holds
<1>11. \A q \in Requests : pc[q] = "spendCode" /\ req[q].read.state = "active" =>
         req[q].code \in Codes \ {cr}
  BY <1>0, <1>4 DEF WellFormed, LocalsOK, LocalOK, RedeemInv, OneRedemption, Redeems
<1>12. ASSUME NEW q \in Requests \ {r} PROVE LocalCurrent(pc[q], req[q])'
  <2>1. LocalCurrent(pc[q], req[q])
    BY DEF ProviderCurrent
  <2>2. pc[q] = "spendCode" /\ req[q].read.state = "active" =>
          FromCode(req[q].read.tokens, req[q].code)'
    BY <2>1, <1>7, <1>8, <1>11 DEF LocalCurrent, FromCode
  <2>3. pc[q] \in Holding => provider'[signIn[req[q].key].code] = provider[signIn[req[q].key].code]
    BY <1>8, <1>9, <1>10
  <2> QED
    BY <2>1, <2>2, <2>3, <1>6, <1>7
    DEF LocalCurrent, Standing, FromCode, Holding, InRotate, Issuing
<1>13. LocalCurrent(pc[r], req[r])'
  BY <1>4, <1>6, <1>7, <1>8 DEF LocalCurrent, FromCode, DrawnFor, Issuing
<1>14. ASSUME NEW j \in Jtis, NEW k \in Keys, StoredRefresh(j, k)' PROVE Standing(k)'
  <2>1. StoredRefresh(j, k) /\ k # kr
    BY <1>4, <1>6, <1>14 DEF StoredRefresh, OneInv, OneRefreshToken
  <2>2. signIn[k] # None
    <3>1. j <= drawn
      BY <1>0, <2>1, GrantsAssumption DEF StoredRefresh, WellFormed, TypeOK, TokensOK, Jtis
    <3> QED
      BY <1>0, <2>1, <3>1 DEF StoredRefresh, WellFormed, TokensOK
  <2>3. provider'[signIn[k].code] = provider[signIn[k].code]
    BY <1>8, <1>9, <2>1, <2>2
  <2> QED
    BY <1>6, <2>1, <2>3 DEF ProviderCurrent, Standing, FromCode
<1>15. \A c \in Codes : codes'[c].state = "active" => FromCode(codes[c].tokens, c)'
  <2>1. codes[cr].state # "active"
    BY <1>4 DEF RedeemInv, OneRedemption
  <2> QED
    BY <2>1, <1>6, <1>8 DEF ProviderCurrent, FromCode
<1> QED
  BY <1>6, <1>12, <1>13, <1>14, <1>15 DEF ProviderCurrent

\* A code that is issued was nobody's before.
LEMMA IssueCodeCurrent ==
  ASSUME RedeemInv, ProviderCurrent, NEW cr \in Codes, IssueCode(cr)
  PROVE  ProviderCurrent'
<1>0. WellFormed
  BY DEF RedeemInv
<1>1. /\ codes'[cr].tokens.session = cr /\ codes'[cr].tokens.rt = provider'[cr]
      /\ \A c \in Codes \ {cr} : codes'[c] = codes[c] /\ provider'[c] = provider[c]
      /\ UNCHANGED <<pc, req, upstream, grants, token, signIn>>
  BY <1>0 DEF IssueCode, WellFormed, TypeOK, minted, ghosts
<1>2. /\ \A k \in Keys : signIn[k] # None => signIn[k].code \in Codes \ {cr}
      /\ \A q \in Requests : pc[q] = "spendCode" /\ req[q].read.state = "active" =>
           req[q].code \in Codes \ {cr}
  BY <1>0
  DEF IssueCode, RedeemInv, OneRedemption, DrawnFor, Redeems, WellFormed, TypeOK, LocalsOK,
      LocalOK, SignIn
<1>3. ASSUME NEW q \in Requests PROVE LocalCurrent(pc[q], req[q])'
  <2>1. LocalCurrent(pc[q], req[q])
    BY DEF ProviderCurrent
  <2>2. pc[q] \in Holding => provider'[signIn[req[q].key].code] = provider[signIn[req[q].key].code]
    BY <1>0, <1>1, <1>2 DEF WellFormed, LocalsOK, LocalOK
  <2> QED
    BY <2>1, <2>2, <1>1, <1>2 DEF LocalCurrent, Standing, FromCode, Holding, InRotate, Issuing
<1>4. ASSUME NEW j \in Jtis, NEW k \in Keys, StoredRefresh(j, k)' PROVE Standing(k)'
  <2>1. StoredRefresh(j, k)
    BY <1>1, <1>4 DEF StoredRefresh
  <2>2. signIn[k] # None
    <3>1. j <= drawn
      BY <1>0, <2>1, GrantsAssumption DEF StoredRefresh, WellFormed, TypeOK, TokensOK, Jtis
    <3> QED
      BY <1>0, <2>1, <3>1 DEF StoredRefresh, WellFormed, TokensOK
  <2>3. provider'[signIn[k].code] = provider[signIn[k].code]
    BY <1>1, <1>2, <2>2
  <2> QED
    BY <1>1, <2>1, <2>3 DEF ProviderCurrent, Standing, FromCode
<1> QED
  BY <1>1, <1>3, <1>4 DEF ProviderCurrent, FromCode

\* The steps that move on within a refresh or an issue.
LEMMA RotateCurrent ==
  ASSUME OneInv, ProviderCurrent, NEW r \in Requests, UNCHANGED faults,
         FindUpstream(r) \/ CheckRevoked(r) \/ ProviderFails(r) \/ Recheck(r)
           \/ SaveAccess(r) \/ SaveRefresh(r) \/ PutBack(r)
  PROVE  ProviderCurrent'
<1>0. /\ WellFormed /\ LocalOK(pc[r], req[r]) /\ LocalCurrent(pc[r], req[r])
      /\ req[r] \in Locals
  BY DEF OneInv, WellFormed, TypeOK, LocalsOK, ProviderCurrent
<1>1. PICK kr \in Keys : kr = req[r].key
  BY <1>0 DEF FindUpstream, CheckRevoked, ProviderFails, Recheck, SaveAccess, SaveRefresh,
     PutBack, LocalOK, Holding, InRotate, Issuing
<1>2. UNCHANGED <<codes, upstream, provider, signIn>>
  BY <1>0 DEF FindUpstream, CheckRevoked, ProviderFails, Recheck, SaveAccess, SaveRefresh,
     GrantFor, PutBack, Fault, store, ghosts, WellFormed, TypeOK
<1>3. ASSUME UNCHANGED <<token, grants>>
      PROVE  \A j \in Jtis, k \in Keys : StoredRefresh(j, k)' => Standing(k)
  BY <1>3 DEF StoredRefresh, ProviderCurrent
<1>4. CASE FindUpstream(r)
  <2>1. UNCHANGED <<token, grants>> /\ pc[r] = "findUpstream"
    BY <1>4 DEF FindUpstream, store, minted
  <2>2. CASE Found(kr)
    <3>1. PICK l : l = [req[r] EXCEPT !.cur = upstream[kr].tokens]
      OBVIOUS
    <3>2. l.key = kr /\ l.cur = upstream[kr].tokens
      BY <1>0, <1>1, <3>1 DEF Locals
    <3>3. LocalCurrent("checkRevoked", l)
      BY <1>0, <1>1, <2>1, <3>2 DEF LocalCurrent, Issuing
    <3> QED
      BY <1>0, <1>1, <1>2, <1>3, <1>4, <2>1, <2>2, <3>1, <3>3, CurrentMove DEF FindUpstream
  <2>3. CASE ~Found(kr)
    <3>1. LocalCurrent("putBack", req[r])
      BY <1>0, <2>1 DEF LocalCurrent, Issuing
    <3> QED
      BY <1>0, <1>1, <1>2, <1>3, <1>4, <2>1, <2>3, <3>1, CurrentMove DEF FindUpstream
  <2> QED
    BY <2>2, <2>3
<1>5. ASSUME Refuse(r), UNCHANGED <<token, grants>> PROVE ProviderCurrent'
  BY <1>0, <1>2, <1>3, <1>5, CurrentLeave DEF Refuse, End, Holding, InRotate, Issuing
<1>6. CASE CheckRevoked(r) \/ ProviderFails(r)
  <2>1. UNCHANGED <<token, grants>> /\ pc[r] \in {"checkRevoked", "ask"}
    BY <1>6 DEF CheckRevoked, ProviderFails, store, minted
  <2>2. LocalCurrent("putBack", req[r]) /\ LocalCurrent("ask", req[r])
    BY <1>0, <2>1 DEF LocalCurrent, Issuing
  <2> QED
    BY <1>0, <1>2, <1>3, <1>5, <1>6, <2>1, <2>2, CurrentMove DEF CheckRevoked, ProviderFails
<1>7. CASE Recheck(r)
  <2>1. UNCHANGED <<token, grants>> /\ pc[r] = "recheck" /\ req[r].fresh \in Tokens
    BY <1>0, <1>7 DEF Recheck, LocalOK, store, minted
  <2>2. PICK l : l = [req[r] EXCEPT !.fresh = Merged(req[r].cur, req[r].fresh), !.cur = None,
                                    !.at = now]
    OBVIOUS
  <2>3. /\ l.key = kr /\ l.fresh.session = req[r].fresh.session
        /\ l.fresh.rt = req[r].fresh.rt
    BY <1>0, <1>1, <2>1, <2>2 DEF Locals, Merged, Tokens
  <2>4. LocalCurrent("keepUpstream", l)
    BY <1>0, <1>1, <2>1, <2>3 DEF LocalCurrent, FromCode
  <2>5. Refuse(r) \/ Goto(r, "keepUpstream", l)
    BY <1>7, <2>2 DEF Recheck
  <2> QED
    BY <1>0, <1>2, <1>3, <1>5, <2>1, <2>4, <2>5, CurrentMove
<1>8. CASE SaveAccess(r) \/ SaveRefresh(r)
  <2>1. PICK j \in Jtis : j = drawn + 1
    BY <1>0, <1>8, GrantsAssumption DEF SaveAccess, SaveRefresh, GrantFor, WellFormed, TypeOK, Jtis
  <2>2. token'[j].key = kr /\ \A i \in Jtis \ {j} : token'[i] = token[i] /\ grants'[i] = grants[i]
    BY <1>0, <1>1, <1>8, <2>1 DEF SaveAccess, SaveRefresh, GrantFor, WellFormed, TypeOK
  <2>3. Standing(kr)
    BY <1>0, <1>1, <1>8 DEF SaveAccess, SaveRefresh, LocalCurrent, Standing, Issuing
  <2>4. \A i \in Jtis, k \in Keys : StoredRefresh(i, k)' => Standing(k)
    BY <2>2, <2>3 DEF StoredRefresh, ProviderCurrent
  <2>5. PICK l : l = [req[r] EXCEPT !.issued = @ \cup {j}, !.at = now]
    OBVIOUS
  <2>6. l.key = kr /\ l.fresh = req[r].fresh
    BY <1>0, <1>1, <2>5 DEF Locals
  <2>7. /\ LocalCurrent("saveRefresh", l) /\ LocalCurrent("findClient", l)
    BY <1>0, <1>1, <1>8, <2>6 DEF SaveAccess, SaveRefresh, LocalCurrent, Issuing
  <2>8. Goto(r, "saveRefresh", l) \/ Goto(r, "findClient", l)
    BY <1>8, <2>1, <2>5 DEF SaveAccess, SaveRefresh, GrantFor
  <2> QED
    BY <1>0, <1>2, <2>4, <2>7, <2>8, CurrentMove
<1>9. CASE PutBack(r)
  <2>1. Standing(kr) /\ req[r].jti \in Jtis /\ token[req[r].jti].key = kr
    BY <1>0, <1>1, <1>9 DEF PutBack, LocalCurrent, LocalOK, IsRefresh
  <2>2. \A i \in Jtis, k \in Keys : StoredRefresh(i, k)' => Standing(k)
    BY <1>0, <1>9, <2>1
    DEF PutBack, Restored, StoredRefresh, ProviderCurrent, minted, WellFormed, TypeOK
  <2> QED
    BY <1>0, <1>2, <1>9, <2>2, CurrentLeave DEF PutBack, End, Holding, InRotate, Issuing
<1> QED
  BY <1>4, <1>6, <1>7, <1>8, <1>9

\* A refresh token that is claimed was one the provider honours.
LEMMA ClaimRefreshCurrent ==
  ASSUME WellFormed, ProviderCurrent, NEW r \in Requests, NEW j \in Jtis,
         NEW client \in Clients \cup {None}, ClaimRefresh(r, j, client)
  PROVE  ProviderCurrent'
<1>0. IsRefresh(j) /\ token[j].key \in Keys /\ grants[j] # 0
  BY HandedRefresh DEF ClaimRefresh, IsRefresh, Jwt, Current
<1>1. PICK kr \in Keys : kr = token[j].key
  BY <1>0
<1>2. Standing(kr)
  BY <1>0, <1>1, NoneAssumption DEF StoredRefresh, IsRefresh, ProviderCurrent
<1>3. PICK l : l = [NoLocals EXCEPT !.jti = j, !.key = token[j].key, !.owner = token[j].client]
  OBVIOUS
<1>4. l.key = kr
  BY <1>1, <1>3 DEF NoLocals
<1>5. LocalCurrent("findUpstream", l) /\ LocalCurrent("putBack", l)
  BY <1>2, <1>4 DEF LocalCurrent, Issuing
<1>6. Goto(r, "findUpstream", l) \/ Goto(r, "putBack", l)
  BY <1>3 DEF ClaimRefresh, Claimed
<1>7. \A i \in Jtis, k \in Keys : StoredRefresh(i, k)' => Standing(k)
  BY DEF ClaimRefresh, RemovedGrant, StoredRefresh, ProviderCurrent, minted, WellFormed, TypeOK
<1> QED
  BY <1>5, <1>6, <1>7, CurrentMove DEF ClaimRefresh, ghosts

LEMMA NextCurrent ==
  ASSUME OneInv, RedeemInv, ProviderCurrent, AtomicTake, UNCHANGED faults, Next
  PROVE  ProviderCurrent'
<1>0. WellFormed
  BY DEF OneInv
<1>1. ASSUME NEW r \in Requests, NEW label, NEW l, Goto(r, label, l),
             label \notin Holding \cup {"spendCode"},
             UNCHANGED <<codes, upstream, provider, signIn, token, grants>>
      PROVE  ProviderCurrent'
  BY <1>0, <1>1, CurrentLeave DEF StoredRefresh, ProviderCurrent
<1>2. ASSUME NEW r \in Requests, StoreFails(r) \/ Crash(r) PROVE FALSE
  BY <1>0, <1>2 DEF StoreFails, Crash, Fault, WellFormed, TypeOK
<1>3. ASSUME NEW r \in Requests, Continue(r) PROVE ProviderCurrent'
  <2>1. ~ReadCode(r) /\ ~DeleteCode(r) /\ ~DeleteGrant(r)
    BY DEF ReadCode, DeleteCode, DeleteGrant, RedeemInv, NoSeparateCodeDelete, OneInv,
       NoSeparateDelete
  <2>2. CASE FindClient(r) \/ SaveClient(r) \/ SaveRevocation(r)
    <3>1. /\ UNCHANGED <<codes, upstream, provider, signIn, token, grants>>
          /\ \E label \in {"idle", "saveClient"} : \E l : Goto(r, label, l)
      BY <2>2 DEF FindClient, SaveClient, SaveRevocation, Respond, End, store, minted, ghosts
    <3> QED
      BY <1>1, <3>1 DEF Holding, InRotate, Issuing
  <2> QED
    BY <1>0, <1>3, <2>1, <2>2, TakeCodeCurrent, SpendCodeCurrent, KeepUpstreamCurrent,
       ProviderAnswersCurrent, RotateCurrent DEF Continue
<1>4. ASSUME NEW r \in Requests, NEW c \in Codes, NEW client \in Clients,
             StartRedeem(r, c, client)
      PROVE  ProviderCurrent'
  <2>1. /\ UNCHANGED <<codes, upstream, provider, signIn, token, grants>>
        /\ \E l : Goto(r, "takeCode", l)
    BY <1>4 DEF StartRedeem, store, minted, ghosts
  <2> QED
    BY <1>1, <2>1 DEF Holding, InRotate, Issuing
<1>5. ASSUME NEW r \in Requests, NEW u \in Users, RevokeUser(r, u) PROVE ProviderCurrent'
  <2>1. /\ UNCHANGED <<codes, upstream, provider, signIn, token, grants>>
        /\ \E l : Goto(r, "saveRevocation", l)
    BY <1>5 DEF RevokeUser, store, minted, ghosts
  <2> QED
    BY <1>1, <2>1 DEF Holding, InRotate, Issuing
<1>6. ASSUME NEW r \in Requests, NEW j \in Jtis, NEW client \in Clients \cup {None}
      PROVE  ~ReadGrant(r, j, client)
  BY DEF ReadGrant
<1>7. CASE Tick
  BY <1>7 DEF Tick, ProviderCurrent, LocalCurrent, Standing, FromCode, StoredRefresh, store,
     minted, ghosts
<1> QED
  BY <1>0, <1>2, <1>3, <1>4, <1>5, <1>6, <1>7, IssueCodeCurrent, ClaimRefreshCurrent DEF Next

\* Faults are only ever added to.
LEMMA FaultsStay ==
  ASSUME WellFormed, [Next]_vars, faults' = 0
  PROVE  faults = 0
<1>1. faults' = faults \/ faults' = faults + 1
  BY DEF Next, Continue, IssueCode, StartRedeem, TakeCode, ReadCode, DeleteCode, SpendCode,
     KeepUpstream, SaveAccess, SaveRefresh, GrantFor, FindClient, SaveClient, ClaimRefresh,
     ReadGrant, DeleteGrant, FindUpstream, CheckRevoked, ProviderAnswers, ProviderFails,
     Recheck, PutBack, RevokeUser, SaveRevocation, StoreFails, Crash, Tick, Fault, vars, ghosts
<1> QED
  BY <1>1 DEF WellFormed, TypeOK

LEMMA InitQuiet == Init => QuietInv
<1>1. Init => ProviderCurrent
  BY DEF Init, ProviderCurrent, NoCode, StoredRefresh, LocalCurrent, Issuing
<1> QED
  BY <1>1, InitOne, InitRedeem DEF QuietInv

LEMMA StepQuiet == AtomicTake /\ QuietInv /\ [Next]_vars => QuietInv'
<1> SUFFICES ASSUME AtomicTake, QuietInv, [Next]_vars PROVE QuietInv'
  OBVIOUS
<1>1. OneInv' /\ RedeemInv'
  BY StepOne, StepRedeem DEF QuietInv
<1>2. ASSUME faults' = 0 PROVE ProviderCurrent'
  <2>1. faults = 0 /\ UNCHANGED faults /\ ProviderCurrent
    BY <1>2, FaultsStay DEF QuietInv, OneInv
  <2>2. CASE UNCHANGED vars
    BY <2>1, <2>2 DEF vars, ProviderCurrent, LocalCurrent, Standing, FromCode, StoredRefresh,
       store, minted, ghosts
  <2>3. CASE Next
    BY <2>1, <2>3, NextCurrent DEF QuietInv
  <2> QED
    BY <2>2, <2>3
<1> QED
  BY <1>1, <1>2 DEF QuietInv

(* Without faults the refresh token the store keeps for a sign-in is the one its provider    *)
(* honours, however many refreshes race, fail at the provider or are answered with a new one.*)
THEOREM NeverStranded ==
  ASSUME AtomicTake
  PROVE  Spec => []ProviderTokenCurrent
<1>1. QuietInv => ProviderTokenCurrent
  BY DEF QuietInv, ProviderTokenCurrent, ProviderCurrent, Standing, FromCode
<1> QED
  BY <1>1, InitQuiet, StepQuiet, PTL DEF Spec

-----------------------------------------------------------------------------
(* What is kept for a sign-in, as long as nothing breaks.  The right to       *)
(* refresh follows the refresh token signed last, so whoever drops an earlier *)
(* one leaves a later one behind; and the provider's tokens are kept until    *)
(* the last pair has run out, once that pair has been issued.                 *)

RefreshOf(j, k) == token[j] # None /\ token[j].use = "refresh" /\ token[j].key = k

\* No refresh token of k was signed after j.
Latest(j, k) == \A i \in Jtis : RefreshOf(i, k) => i <= j

Busy(k) == \E r \in Requests : Holds(r, k) /\ pc[r] \in Issuing

\* JWT j lives no longer than what is kept upstream for k, each counted from the call that
\* saved it.
Backed(j, k) ==
  upstream[k] # None /\ token[j].exp + begun[j] <= upstream[k].until + token[j].iat

LocalKept(label, l) ==
  /\ label \in InRotate \cup {"ask", "putBack"} \/ (label \in Issuing /\ l.jti # 0)
       => Latest(l.jti, l.key)
  /\ label = "ask" => l.cur.rt # 0
  /\ label = "recheck" => l.fresh.rt # 0
  /\ label \in Issuing /\ l.fresh.rt = 0 => \A j \in Jtis : ~RefreshOf(j, l.key)
  /\ label \in {"saveAccess", "saveRefresh"} =>
       /\ upstream[l.key] # None
       /\ l.begun + UpstreamLifetime(l.fresh) <= upstream[l.key].until
  /\ label = "saveRefresh" =>
       /\ l.fresh.rt # 0
       /\ \A j \in Jtis : Newest(j) /\ token[j].use = "access" /\ token[j].key = l.key
                            => Backed(j, l.key)

\* The refresh token j of k is being worked on, has a successor, or was refused.
Succeeded(j, k) ==
  \/ \E r \in Requests : Holds(r, k)
  \/ \E i \in Jtis : i > j /\ RefreshOf(i, k)
  \/ k \in refused

StoreKept ==
  /\ \A j \in Jtis, k \in Keys : StoredRefresh(j, k) => Latest(j, k)
  /\ \A j \in Jtis, k \in Keys :
       RefreshOf(j, k) /\ now < token[j].exp /\ grants[j] = 0 => Succeeded(j, k)
  /\ \A j \in Jtis, k \in Keys :
       token[j] # None /\ token[j].key = k /\ Newest(j) /\ ~Busy(k) => Backed(j, k)

AllKept ==
  /\ now >= 1
  /\ StoreKept
  /\ \A r \in Requests : LocalKept(pc[r], req[r])

KeptInv == OneInv /\ RedeemInv /\ RetryNeverExtends /\ (faults = 0 => AllKept)

\* A step of r that signs nothing and changes nothing upstream: the right to refresh is
\* still somewhere, and an issue under way is not cut short.
LEMMA KeptMove ==
  ASSUME WellFormed, AllKept, NEW r \in Requests, NEW label, NEW l,
         Goto(r, label, l), UNCHANGED <<now, upstream, token, begun>>,
         LocalKept(label, l),
         pc[r] \in Issuing => label \in Issuing /\ l.key = req[r].key,
         \A j \in Jtis, k \in Keys : StoredRefresh(j, k)' => Latest(j, k),
         \A j \in Jtis, k \in Keys :
           RefreshOf(j, k) /\ now < token[j].exp /\ grants'[j] = 0 => Succeeded(j, k)'
  PROVE  AllKept'
<1>1. /\ pc'[r] = label /\ req'[r] = l
      /\ \A q \in Requests \ {r} : pc'[q] = pc[q] /\ req'[q] = req[q]
  BY DEF Goto, WellFormed, TypeOK
<1>2. \A q \in Requests : LocalKept(pc[q], req[q])'
  BY <1>1 DEF AllKept, LocalKept, Latest, RefreshOf, Newest, Backed
<1>3. \A k \in Keys : Busy(k) => Busy(k)'
  BY <1>1 DEF Busy, Holds, Holding
<1>4. \A j \in Jtis, k \in Keys : StoredRefresh(j, k)' => Latest(j, k)'
  BY DEF Latest, RefreshOf
<1>5. \A j \in Jtis, k \in Keys :
       (RefreshOf(j, k) /\ now < token[j].exp /\ grants[j] = 0)' => Succeeded(j, k)'
  BY DEF RefreshOf
<1>6. \A j \in Jtis, k \in Keys :
       (token[j] # None /\ token[j].key = k /\ Newest(j) /\ ~Busy(k))' => Backed(j, k)'
  BY <1>3 DEF AllKept, StoreKept, Newest, Backed
<1> QED
  BY <1>2, <1>4, <1>5, <1>6 DEF AllKept, StoreKept

\* The same, for a step that leaves the grants alone and keeps the right where it is.
LEMMA KeptCarries ==
  ASSUME WellFormed, AllKept, NEW r \in Requests, NEW label, NEW l,
         Goto(r, label, l), UNCHANGED <<now, upstream, token, grants, begun>>,
         refused \subseteq refused', pc[r] \notin Issuing, LocalKept(label, l),
         pc[r] \in Holding =>
           \/ label \in Holding /\ l.key = req[r].key
           \/ req[r].key \in refused'
  PROVE  AllKept'
<1>1. /\ pc'[r] = label /\ req'[r] = l
      /\ \A q \in Requests \ {r} : pc'[q] = pc[q] /\ req'[q] = req[q]
  BY DEF Goto, WellFormed, TypeOK
<1>2. \A j \in Jtis, k \in Keys : StoredRefresh(j, k)' => Latest(j, k)
  BY DEF StoredRefresh, AllKept, StoreKept
<1>3. ASSUME NEW j \in Jtis, NEW k \in Keys, Succeeded(j, k) PROVE Succeeded(j, k)'
  <2>1. CASE \E q \in Requests : Holds(q, k)
    <3>1. PICK q \in Requests : Holds(q, k)
      BY <2>1
    <3> QED
      BY <1>1, <3>1 DEF Holds, Succeeded
  <2>2. CASE \E i \in Jtis : i > j /\ RefreshOf(i, k)
    BY <2>2 DEF Succeeded, RefreshOf
  <2> QED
    BY <1>3, <2>1, <2>2 DEF Succeeded
<1> QED
  BY <1>2, <1>3, KeptMove DEF AllKept, StoreKept

\* A claim takes the latest refresh token of its sign-in.
LEMMA ClaimRefreshKept ==
  ASSUME WellFormed, AllKept, NEW r \in Requests, NEW j \in Jtis,
         NEW client \in Clients \cup {None}, ClaimRefresh(r, j, client)
  PROVE  AllKept'
<1>0. IsRefresh(j) /\ token[j].key \in Keys /\ grants[j] # 0
  BY HandedRefresh DEF ClaimRefresh, IsRefresh, Jwt, Current
<1>1. PICK kr \in Keys : kr = token[j].key
  BY <1>0
<1>2. Latest(j, kr)
  BY <1>0, <1>1, NoneAssumption DEF StoredRefresh, IsRefresh, AllKept, StoreKept
<1>3. PICK l : l = [NoLocals EXCEPT !.jti = j, !.key = token[j].key, !.owner = token[j].client]
  OBVIOUS
<1>4. l.key = kr /\ l.jti = j
  BY <1>1, <1>3 DEF NoLocals
<1>5. LocalKept("findUpstream", l) /\ LocalKept("putBack", l)
  BY <1>2, <1>4 DEF LocalKept, InRotate, Issuing
<1>6. PICK label \in {"findUpstream", "putBack"} : Goto(r, label, l)
  BY <1>3 DEF ClaimRefresh, Claimed
<1>7. /\ UNCHANGED <<now, upstream, token, begun, refused>> /\ pc[r] = "idle"
      /\ \A i \in Jtis : i # j => grants'[i] = grants[i]
      /\ grants'[j] = 0
  BY DEF ClaimRefresh, RemovedGrant, minted, ghosts, WellFormed, TypeOK
<1>8. /\ pc'[r] \in Holding /\ req'[r].key = kr
      /\ \A q \in Requests \ {r} : pc'[q] = pc[q] /\ req'[q] = req[q]
  BY <1>4, <1>6 DEF Goto, WellFormed, TypeOK, Holding, InRotate
<1>9. \A i \in Jtis, k \in Keys : StoredRefresh(i, k)' => Latest(i, k)
  BY <1>7 DEF StoredRefresh, AllKept, StoreKept
<1>10. ASSUME NEW i \in Jtis, NEW k \in Keys,
              RefreshOf(i, k) /\ now < token[i].exp /\ grants'[i] = 0
       PROVE  Succeeded(i, k)'
  <2>1. CASE k = kr
    BY <1>8, <2>1 DEF Succeeded, Holds
  <2>2. CASE k # kr
    <3>1. Succeeded(i, k)
      BY <1>1, <1>7, <1>10, <2>2 DEF RefreshOf, AllKept, StoreKept
    <3>2. CASE \E q \in Requests : Holds(q, k)
      <4>1. PICK q \in Requests : Holds(q, k)
        BY <3>2
      <4>2. q # r
        BY <1>7, <4>1 DEF Holds, Holding, InRotate, Issuing
      <4> QED
        BY <1>8, <4>1, <4>2 DEF Succeeded, Holds
    <3> QED
      BY <1>7, <3>1, <3>2 DEF Succeeded, RefreshOf
  <2> QED
    BY <2>1, <2>2
<1> QED
  BY <1>5, <1>6, <1>7, <1>9, <1>10, KeptMove DEF Issuing

\* What is put back is the latest refresh token; if its time is up, nothing is owed.
LEMMA PutBackKept ==
  ASSUME OneInv, AllKept, NEW r \in Requests, PutBack(r)
  PROVE  AllKept'
<1>0. WellFormed /\ LocalOK(pc[r], req[r]) /\ LocalKept(pc[r], req[r]) /\ pc[r] = "putBack"
  BY DEF PutBack, OneInv, WellFormed, LocalsOK, AllKept
<1>1. PICK j \in Jtis : /\ j = req[r].jti /\ token[j] \in Jwt /\ token[j].use = "refresh"
                        /\ token[j].key = req[r].key
  BY <1>0 DEF LocalOK, IsRefresh
<1>2. PICK kr \in Keys : kr = token[j].key
  BY <1>1 DEF Jwt
<1>3. Latest(j, kr) /\ RefreshOf(j, kr)
  BY <1>0, <1>1, <1>2, NoneAssumption DEF LocalKept, RefreshOf
<1>4. /\ UNCHANGED <<now, upstream, token, begun, refused>>
      /\ \A i \in Jtis : i # j => grants'[i] = grants[i]
      /\ token[j].exp > now => grants'[j] = token[j].exp
  BY <1>0, <1>1 DEF PutBack, Restored, minted, ghosts, WellFormed, TypeOK, Jwt, Time
<1>5. /\ pc'[r] = "idle"
      /\ \A q \in Requests \ {r} : pc'[q] = pc[q] /\ req'[q] = req[q]
  BY <1>0 DEF PutBack, End, Goto, WellFormed, TypeOK
<1>6. \A i \in Jtis, k \in Keys : StoredRefresh(i, k)' => Latest(i, k)
  <2>1. ASSUME NEW i \in Jtis, NEW k \in Keys, StoredRefresh(i, k)' PROVE Latest(i, k)
    <3>1. CASE i = j
      BY <1>2, <1>3, <1>4, <2>1, <3>1 DEF StoredRefresh
    <3>2. CASE i # j
      BY <1>4, <2>1, <3>2 DEF StoredRefresh, AllKept, StoreKept
    <3> QED
      BY <3>1, <3>2
  <2> QED
    BY <2>1
<1>7. ASSUME NEW i \in Jtis, NEW k \in Keys,
             RefreshOf(i, k) /\ now < token[i].exp /\ grants'[i] = 0
      PROVE  Succeeded(i, k)'
  <2>1. i # j
    BY <1>1, <1>4, <1>7 DEF AllKept, Jwt, Time, RefreshOf, OneInv, WellFormed, TypeOK
  <2>2. CASE k = kr
    <3>1. j > i
      BY <1>3, <1>7, <2>1, <2>2 DEF Latest, Jtis
    <3> QED
      BY <1>3, <1>4, <2>2, <3>1 DEF Succeeded, RefreshOf
  <2>3. CASE k # kr
    <3>1. Succeeded(i, k)
      BY <1>4, <1>7, <2>1 DEF RefreshOf, AllKept, StoreKept
    <3>2. CASE \E q \in Requests : Holds(q, k)
      <4>1. PICK q \in Requests : Holds(q, k)
        BY <3>2
      <4>2. q # r
        BY <1>1, <1>2, <2>3, <4>1 DEF Holds
      <4> QED
        BY <1>5, <4>1, <4>2 DEF Succeeded, Holds
    <3> QED
      BY <1>4, <3>1, <3>2 DEF Succeeded, RefreshOf
  <2> QED
    BY <2>2, <2>3
<1>8. LocalKept("idle", NoLocals)
  BY DEF LocalKept, InRotate, Issuing
<1> QED
  BY <1>0, <1>4, <1>6, <1>7, <1>8, KeptMove DEF PutBack, End, Issuing

\* The provider's tokens are kept for as long as either JWT that will be signed for them.
LEMMA KeepUpstreamKept ==
  ASSUME OneInv, AllKept, NEW r \in Requests, KeepUpstream(r)
  PROVE  AllKept'
<1>0. /\ WellFormed /\ LocalOK(pc[r], req[r]) /\ LocalKept(pc[r], req[r])
      /\ pc[r] = "keepUpstream" /\ req[r] \in Locals
  BY DEF KeepUpstream, OneInv, WellFormed, TypeOK, LocalsOK, AllKept
<1>1. PICK kr \in Keys : kr = req[r].key
  BY <1>0 DEF LocalOK, Holding, Issuing
<1>2. Holds(r, kr) /\ Busy(kr)
  BY <1>0, <1>1 DEF Holds, Busy, Holding, Issuing
<1>3. PICK t \in Tokens : t = req[r].fresh
  BY <1>0 DEF LocalOK, Issuing
<1>4. /\ upstream'[kr] = [tokens |-> t, until |-> req[r].at + UpstreamLifetime(t)]
      /\ \A k \in Keys \ {kr} : upstream'[k] = upstream[k]
      /\ UNCHANGED <<now, token, grants, begun, refused>>
  BY <1>0, <1>1, <1>3 DEF KeepUpstream, WellFormed, TypeOK, minted, ghosts
<1>5. upstream'[kr] # None
  <2>1. upstream'[kr] \in Kept
    BY <1>0, <1>3, <1>4, LifetimeEnough DEF Kept, Time, Locals
  <2> QED
    BY <2>1, NoneAssumption
<1>6. /\ pc'[r] = "saveAccess"
      /\ req'[r].key = kr /\ req'[r].fresh = t /\ req'[r].jti = req[r].jti
      /\ req'[r].begun = req[r].at
      /\ \A q \in Requests \ {r} : pc'[q] = pc[q] /\ req'[q] = req[q]
  <2>1. PICK l : l = [req[r] EXCEPT !.begun = req[r].at, !.at = now]
    OBVIOUS
  <2>2. l.key = kr /\ l.fresh = t /\ l.jti = req[r].jti /\ l.begun = req[r].at
    BY <1>0, <1>1, <1>3, <2>1 DEF Locals
  <2> QED
    BY <1>0, <2>1, <2>2 DEF KeepUpstream, Goto, WellFormed, TypeOK
<1>7. \A q \in Requests, k \in Keys : Holds(q, k)' <=> Holds(q, k)
  BY <1>0, <1>1, <1>6 DEF Holds, Holding, Issuing
<1>8. \A k \in Keys : Busy(k)' <=> Busy(k)
  BY <1>0, <1>6, <1>7 DEF Busy, Issuing
<1>9. \A q \in Requests \ {r} : pc[q] \in Holding => req[q].key \in Keys \ {kr}
  BY <1>0, <1>2 DEF WellFormed, LocalsOK, LocalOK, OneInv, OneRefreshToken, Holds
<1>10. \A q \in Requests \ {r} : LocalKept(pc[q], req[q])'
  BY <1>4, <1>6, <1>9
  DEF AllKept, LocalKept, Latest, RefreshOf, Newest, Backed, Holding, InRotate, Issuing
<1>11. LocalKept(pc[r], req[r])'
  <2>1. /\ upstream'[kr].until = req[r].at + UpstreamLifetime(t)
        /\ req[r].at + UpstreamLifetime(t) \in Nat
    BY <1>0, <1>3, <1>4, LifetimeEnough DEF Locals, Time
  <2> QED
    BY <1>0, <1>1, <1>3, <1>4, <1>5, <1>6, <2>1
    DEF LocalKept, Latest, RefreshOf, InRotate, Issuing
<1>12. /\ \A j \in Jtis, k \in Keys : StoredRefresh(j, k)' => Latest(j, k)'
       /\ \A j \in Jtis, k \in Keys :
           (RefreshOf(j, k) /\ now < token[j].exp /\ grants[j] = 0)' => Succeeded(j, k)'
  BY <1>4, <1>7 DEF AllKept, StoreKept, StoredRefresh, Latest, RefreshOf, Succeeded
<1>13. \A j \in Jtis, k \in Keys :
         (token[j] # None /\ token[j].key = k /\ Newest(j) /\ ~Busy(k))' => Backed(j, k)'
  BY <1>2, <1>4, <1>8 DEF AllKept, StoreKept, Newest, Backed
<1> QED
  BY <1>4, <1>10, <1>11, <1>12, <1>13 DEF AllKept, StoreKept

\* What signing the JWT j for key k changes for other keys and for JWTs of the other use:
\* nothing; and of its own use j is the newest.
Signs(r, j, k, use, lifetime) ==
  /\ j = drawn + 1
  /\ k = req[r].key
  /\ token[j] = None
  /\ token'[j] # None
  /\ token'[j].use = use /\ token'[j].key = k
  /\ token'[j].iat = req[r].at /\ token'[j].exp = req[r].at + lifetime
  /\ begun'[j] = req[r].begun
  /\ \A i \in Jtis \ {j} : /\ token'[i] = token[i] /\ grants'[i] = grants[i]
                           /\ begun'[i] = begun[i]
  /\ \A i \in Jtis : token[i] # None => i < j
  /\ \A i \in Jtis : token'[i] # None => i <= j
  /\ grants'[j] = token'[j].exp
  /\ \A q \in Requests \ {r} : pc'[q] = pc[q] /\ req'[q] = req[q]
  /\ \A q \in Requests \ {r} : pc[q] \in Holding => req[q].key \in Keys \ {k}
  /\ Holds(r, k)
  /\ UNCHANGED <<now, upstream, refused>>

LEMMA GrantForSigns ==
  ASSUME OneInv, NEW r \in Requests, NEW use \in {"access", "refresh"},
         NEW lifetime \in Nat, NEW next, GrantFor(r, use, lifetime, next),
         pc[r] \in Issuing, WellFormed'
  PROVE  \E j \in Jtis : \E k \in Keys : Signs(r, j, k, use, lifetime)
<1>0. WellFormed /\ LocalOK(pc[r], req[r])
  BY DEF OneInv, WellFormed, LocalsOK
<1>1. PICK j \in Jtis : j = drawn + 1
  BY <1>0, GrantsAssumption DEF GrantFor, WellFormed, TypeOK, Jtis
<1>2. PICK k \in Keys : k = req[r].key
  BY <1>0 DEF LocalOK, Holding
<1>3. /\ token' = [token EXCEPT ![j] = [use |-> use, client |-> req[r].owner, key |-> k,
                                        iat |-> req[r].at, exp |-> req[r].at + lifetime]]
      /\ grants' = [grants EXCEPT ![j] = req[r].at + lifetime]
      /\ begun' = [begun EXCEPT ![j] = req[r].begun]
      /\ UNCHANGED <<now, upstream, refused>> /\ drawn' = j
      /\ \A q \in Requests \ {r} : pc'[q] = pc[q] /\ req'[q] = req[q]
  BY <1>0, <1>1, <1>2 DEF GrantFor, Goto, WellFormed, TypeOK
<1>4. /\ token'[j].use = use /\ token'[j].key = k
      /\ token'[j].iat = req[r].at /\ token'[j].exp = req[r].at + lifetime
      /\ grants'[j] = token'[j].exp /\ begun'[j] = req[r].begun
      /\ \A i \in Jtis \ {j} : /\ token'[i] = token[i] /\ grants'[i] = grants[i]
                               /\ begun'[i] = begun[i]
  BY <1>0, <1>3 DEF WellFormed, TypeOK
<1>5. /\ \A i \in Jtis : token[i] # None => i < j
      /\ \A i \in Jtis : token'[i] # None => i <= j
  BY <1>0, <1>1, <1>3 DEF WellFormed, TypeOK, TokensOK, Jtis
<1>6. token[j] = None
  BY <1>5 DEF Jtis
<1>7. token'[j] # None
  BY <1>3, NoneAssumption DEF WellFormed, TokensOK, Jtis
<1>8. Holds(r, k)
  BY <1>2 DEF Holds, Holding
<1>9. \A q \in Requests \ {r} : pc[q] \in Holding => req[q].key \in Keys \ {k}
  BY <1>0, <1>8 DEF WellFormed, LocalsOK, LocalOK, OneInv, OneRefreshToken, Holds
<1> QED
  BY <1>1, <1>2, <1>3, <1>4, <1>5, <1>6, <1>7, <1>8, <1>9 DEF Signs

LEMMA SignsElsewhere ==
  ASSUME WellFormed, AllKept, NEW r \in Requests, NEW j \in Jtis, NEW kr \in Keys,
         NEW use \in {"access", "refresh"}, NEW lifetime \in Nat,
         Signs(r, j, kr, use, lifetime)
  PROVE  /\ \A i \in Jtis, k \in Keys : i # j => (RefreshOf(i, k)' <=> RefreshOf(i, k))
         /\ \A i \in Jtis, k \in Keys \ {kr} : RefreshOf(i, k)' <=> RefreshOf(i, k)
         /\ RefreshOf(j, kr)' <=> use = "refresh"
         /\ \A k \in Keys \ {kr} : Busy(k)' <=> Busy(k) \/ (pc'[r] \in Issuing /\ req'[r].key = k)
         /\ \A i \in Jtis : Newest(i)' => i = j \/ Newest(i)
         /\ \A i \in Jtis : Newest(i)' /\ token'[i].key = kr /\ token'[i].use = use => i = j
         /\ \A i \in Jtis, k \in Keys \ {kr} : Succeeded(i, k) =>
              Succeeded(i, k)'
<1>1. /\ \A i \in Jtis, k \in Keys : i # j => (RefreshOf(i, k)' <=> RefreshOf(i, k))
      /\ \A i \in Jtis, k \in Keys \ {kr} : RefreshOf(i, k)' <=> RefreshOf(i, k)
      /\ RefreshOf(j, kr)' <=> use = "refresh"
  BY DEF Signs, RefreshOf
<1>2. \A k \in Keys \ {kr} : Busy(k)' <=> Busy(k) \/ (pc'[r] \in Issuing /\ req'[r].key = k)
  BY DEF Signs, Busy, Holds, Holding
<1>3. \A i \in Jtis : Newest(i)' => i = j \/ Newest(i)
  BY DEF Signs, Newest, Jtis
<1>4. \A i \in Jtis : Newest(i)' /\ token'[i].key = kr /\ token'[i].use = use => i = j
  <2>1. ASSUME NEW i \in Jtis, Newest(i)', token'[i].key = kr, token'[i].use = use
        PROVE  i = j
    <3>1. i <= j
      BY <2>1 DEF Newest, Signs
    <3>2. CASE i < j
      <4>1. j \in (i + 1)..MaxTokens
        BY <3>2 DEF Jtis
      <4> QED
        BY <2>1, <4>1 DEF Newest, Signs
    <3> QED
      BY <3>1, <3>2 DEF Jtis
  <2> QED
    BY <2>1
<1>5. ASSUME NEW i \in Jtis, NEW k \in Keys \ {kr}, Succeeded(i, k)
      PROVE  Succeeded(i, k)'
  <2>1. CASE \E q \in Requests : Holds(q, k)
    <3>1. PICK q \in Requests : Holds(q, k)
      BY <2>1
    <3>2. q # r
      BY <3>1 DEF Signs, Holds
    <3> QED
      BY <3>1, <3>2 DEF Signs, Holds, Succeeded
  <2>2. CASE \E i2 \in Jtis : i2 > i /\ RefreshOf(i2, k)
    BY <1>1, <2>2 DEF Succeeded
  <2> QED
    BY <1>5, <2>1, <2>2 DEF Succeeded, Signs
<1> QED
  BY <1>1, <1>2, <1>3, <1>4, <1>5

\* The locals of the other requests are about other keys.
LEMMA SignsOthers ==
  ASSUME WellFormed, AllKept, NEW r \in Requests, NEW j \in Jtis, NEW kr \in Keys,
         NEW use \in {"access", "refresh"}, NEW lifetime \in Nat,
         Signs(r, j, kr, use, lifetime)
  PROVE  \A q \in Requests \ {r} : LocalKept(pc[q], req[q])'
<1> SUFFICES ASSUME NEW q \in Requests \ {r} PROVE LocalKept(pc[q], req[q])'
  OBVIOUS
<1>1. CASE pc[q] \in Holding
  <2>1. PICK kq \in Keys \ {kr} : kq = req[q].key
    BY <1>1 DEF Signs
  <2>2. LocalKept(pc[q], req[q]) /\ UNCHANGED <<now, upstream>>
        /\ pc'[q] = pc[q] /\ req'[q] = req[q]
    BY DEF AllKept, Signs
  <2>3. \A i \in Jtis : RefreshOf(i, kq)' <=> RefreshOf(i, kq)
    BY SignsElsewhere
  <2>4. \A i \in Jtis : Newest(i)' /\ token'[i].key = kq =>
                         Newest(i) /\ token'[i] = token[i] /\ begun'[i] = begun[i]
    BY <2>1, SignsElsewhere DEF Signs
  <2> QED
    BY <2>1, <2>2, <2>3, <2>4 DEF LocalKept, Latest, Backed
<1>2. CASE pc[q] \notin Holding
  BY <1>2 DEF Signs, LocalKept, Holding, InRotate, Issuing
<1> QED
  BY <1>1, <1>2

LEMMA SaveAccessKept ==
  ASSUME OneInv, AllKept, WellFormed', NEW r \in Requests, SaveAccess(r)
  PROVE  AllKept'
<1>0. /\ WellFormed /\ LocalOK(pc[r], req[r]) /\ LocalKept(pc[r], req[r])
      /\ pc[r] = "saveAccess" /\ req[r] \in Locals
  BY DEF SaveAccess, OneInv, WellFormed, TypeOK, LocalsOK, AllKept
<1>1. PICK t \in Tokens : t = req[r].fresh
  BY <1>0 DEF LocalOK, Issuing
<1>2. PICK next \in {"saveRefresh", "findClient"} :
        /\ next = IF t.rt = 0 THEN "findClient" ELSE "saveRefresh"
        /\ GrantFor(r, "access", t.life.access, next)
  BY <1>1 DEF SaveAccess
<1>3. t.life.access \in Nat
  BY <1>1, GrantsAssumption DEF Tokens
<1>4. PICK j \in Jtis : \E kr \in Keys : Signs(r, j, kr, "access", t.life.access)
  BY <1>0, <1>2, <1>3, GrantForSigns DEF Issuing
<1>5. PICK kr \in Keys : Signs(r, j, kr, "access", t.life.access)
  BY <1>4
<1>6. /\ kr = req[r].key /\ upstream[kr] # None
      /\ req[r].begun + UpstreamLifetime(t) <= upstream[kr].until
      /\ t.rt = 0 => \A i \in Jtis : ~RefreshOf(i, kr)
  BY <1>0, <1>1, <1>5 DEF Signs, LocalKept, Issuing
<1>7. Backed(j, kr)'
  <2>1. t.life.access <= UpstreamLifetime(t) /\ UpstreamLifetime(t) \in Nat
    BY LifetimeEnough
  <2>2. upstream[kr].until \in Nat
    BY <1>0, <1>6 DEF WellFormed, TypeOK, Kept, Time
  <2>3. req[r].at \in Nat /\ req[r].begun \in Nat
    BY <1>0 DEF Locals, Time
  <2> QED
    BY <1>3, <1>5, <1>6, <2>1, <2>2, <2>3 DEF Signs, Backed
<1>8. /\ pc'[r] = next /\ req'[r].key = kr /\ req'[r].jti = req[r].jti /\ req'[r].fresh = t
      /\ req'[r].begun = req[r].begun
  <2>1. PICK l : l = [req[r] EXCEPT !.issued = @ \cup {drawn + 1}, !.at = now]
    OBVIOUS
  <2>2. /\ l.key = kr /\ l.jti = req[r].jti /\ l.fresh = t /\ l.begun = req[r].begun
    BY <1>0, <1>1, <1>6, <2>1 DEF Locals
  <2> QED
    BY <1>0, <1>2, <2>1, <2>2 DEF GrantFor, Goto, WellFormed, TypeOK
<1>9. /\ \A i \in Jtis, k \in Keys : RefreshOf(i, k)' <=> RefreshOf(i, k)
      /\ \A i \in Jtis : Newest(i)' /\ token'[i].use = "access" /\ token'[i].key = kr => i = j
      /\ \A i \in Jtis : Newest(i)' => i = j \/ Newest(i)
      /\ \A k \in Keys \ {kr} : Busy(k)' <=> Busy(k)
      /\ \A i \in Jtis, k \in Keys \ {kr} : Succeeded(i, k) => Succeeded(i, k)'
  <2>1. ~RefreshOf(j, kr) /\ ~RefreshOf(j, kr)'
    BY <1>5, SignsElsewhere, <1>0, <1>3 DEF Signs, RefreshOf
  <2> QED
    BY <1>0, <1>3, <1>5, <1>8, <2>1, SignsElsewhere
<1>10. LocalKept(pc[r], req[r])'
  BY <1>0, <1>1, <1>2, <1>5, <1>6, <1>7, <1>8, <1>9
  DEF LocalKept, Signs, Latest, Backed, InRotate, Issuing
<1>11. \A i \in Jtis, k \in Keys : StoredRefresh(i, k)' => Latest(i, k)'
  <2>1. \A i \in Jtis, k \in Keys : StoredRefresh(i, k)' => StoredRefresh(i, k)
    BY <1>5 DEF Signs, StoredRefresh
  <2> QED
    BY <1>9, <2>1 DEF AllKept, StoreKept, Latest
<1>12. ASSUME NEW i \in Jtis, NEW k \in Keys,
              (RefreshOf(i, k) /\ now < token[i].exp /\ grants[i] = 0)'
       PROVE  Succeeded(i, k)'
  <2>1. i # j
    BY <1>5, <1>12 DEF Signs, RefreshOf
  <2>2. RefreshOf(i, k) /\ Succeeded(i, k)
    BY <1>5, <1>9, <1>12, <2>1 DEF Signs, AllKept, StoreKept
  <2>3. CASE k # kr
    BY <1>9, <2>2, <2>3
  <2>4. CASE k = kr
    <3>1. next = "saveRefresh"
      BY <1>2, <1>6, <2>2, <2>4
    <3> QED
      BY <1>8, <2>4, <3>1 DEF Succeeded, Holds, Holding, Issuing
  <2> QED
    BY <2>3, <2>4
<1>13. ASSUME NEW i \in Jtis, NEW k \in Keys,
              (token[i] # None /\ token[i].key = k /\ Newest(i) /\ ~Busy(k))'
       PROVE  Backed(i, k)'
  <2>1. CASE k # kr
    <3>1. /\ i # j /\ Newest(i) /\ token[i] # None /\ token'[i] = token[i]
          /\ begun'[i] = begun[i]
      BY <1>5, <1>9, <1>13, <2>1 DEF Signs, Newest
    <3> QED
      BY <1>5, <1>9, <1>13, <2>1, <3>1 DEF Signs, AllKept, StoreKept, Backed
  <2>2. CASE k = kr
    <3>1. next = "findClient"
      BY <1>8, <1>13, <2>2 DEF Busy, Holds, Holding, Issuing
    <3>2. ~RefreshOf(i, kr)'
      BY <1>2, <1>6, <1>9, <3>1
    <3>3. token'[i] \in Jwt
      BY <1>13 DEF WellFormed, TypeOK
    <3>4. i = j
      BY <1>9, <1>13, <2>2, <3>2, <3>3 DEF RefreshOf, Jwt
    <3> QED
      BY <1>7, <2>2, <3>4 DEF Backed
  <2> QED
    BY <2>1, <2>2
<1>14. \A q \in Requests \ {r} : LocalKept(pc[q], req[q])'
  BY <1>0, <1>3, <1>5, SignsOthers
<1> QED
  BY <1>5, <1>10, <1>11, <1>12, <1>13, <1>14 DEF AllKept, StoreKept, Signs

LEMMA SaveRefreshKept ==
  ASSUME OneInv, AllKept, WellFormed', NEW r \in Requests, SaveRefresh(r)
  PROVE  AllKept'
<1>0. /\ WellFormed /\ LocalOK(pc[r], req[r]) /\ LocalKept(pc[r], req[r])
      /\ pc[r] = "saveRefresh" /\ req[r] \in Locals
  BY DEF SaveRefresh, OneInv, WellFormed, TypeOK, LocalsOK, AllKept
<1>1. PICK t \in Tokens : t = req[r].fresh
  BY <1>0 DEF LocalOK, Issuing
<1>2. GrantFor(r, "refresh", t.life.refresh, "findClient")
  BY <1>1 DEF SaveRefresh
<1>3. t.life.refresh \in Nat
  BY <1>1, GrantsAssumption DEF Tokens
<1>4. PICK j \in Jtis : \E kr \in Keys : Signs(r, j, kr, "refresh", t.life.refresh)
  BY <1>0, <1>2, <1>3, GrantForSigns DEF Issuing
<1>5. PICK kr \in Keys : Signs(r, j, kr, "refresh", t.life.refresh)
  BY <1>4
<1>6. /\ kr = req[r].key /\ upstream[kr] # None
      /\ req[r].begun + UpstreamLifetime(t) <= upstream[kr].until
      /\ t.rt # 0
      /\ \A i \in Jtis : Newest(i) /\ token[i].use = "access" /\ token[i].key = kr
                           => Backed(i, kr)
  BY <1>0, <1>1, <1>5 DEF Signs, LocalKept, Issuing
<1>7. Backed(j, kr)'
  <2>1. t.life.refresh <= UpstreamLifetime(t) /\ UpstreamLifetime(t) \in Nat
    BY <1>6, LifetimeEnough
  <2>2. upstream[kr].until \in Nat
    BY <1>0, <1>6 DEF WellFormed, TypeOK, Kept, Time
  <2>3. req[r].at \in Nat /\ req[r].begun \in Nat
    BY <1>0 DEF Locals, Time
  <2> QED
    BY <1>3, <1>5, <1>6, <2>1, <2>2, <2>3 DEF Signs, Backed
<1>8. pc'[r] = "findClient"
  BY <1>0, <1>2 DEF GrantFor, Goto, WellFormed, TypeOK
<1>9. LocalKept(pc[r], req[r])'
  BY <1>8 DEF LocalKept, InRotate, Issuing
<1>10. /\ \A i \in Jtis, k \in Keys : i # j => (RefreshOf(i, k)' <=> RefreshOf(i, k))
       /\ \A i \in Jtis, k \in Keys \ {kr} : RefreshOf(i, k)' <=> RefreshOf(i, k)
       /\ RefreshOf(j, kr)'
       /\ \A i \in Jtis : Newest(i)' /\ token'[i].use = "refresh" /\ token'[i].key = kr => i = j
       /\ \A i \in Jtis : Newest(i)' => i = j \/ Newest(i)
       /\ \A k \in Keys \ {kr} : Busy(k)' <=> Busy(k)
       /\ \A i \in Jtis, k \in Keys \ {kr} : Succeeded(i, k) => Succeeded(i, k)'
  BY <1>0, <1>3, <1>5, <1>8, SignsElsewhere DEF Issuing
<1>11. ASSUME NEW i \in Jtis, NEW k \in Keys, StoredRefresh(i, k)' PROVE Latest(i, k)'
  <2>1. CASE k # kr
    <3>1. StoredRefresh(i, k)
      BY <1>5, <1>11, <2>1 DEF Signs, StoredRefresh
    <3> QED
      BY <1>10, <2>1, <3>1 DEF AllKept, StoreKept, Latest
  <2>2. CASE k = kr
    <3>1. i = j
      <4>1. ~StoredRefresh(i, kr)
        BY <1>5 DEF Signs, OneInv, OneRefreshToken
      <4> QED
        BY <1>5, <1>11, <2>2, <4>1 DEF Signs, StoredRefresh
    <3> QED
      BY <1>5, <2>2, <3>1 DEF Signs, Latest, RefreshOf
  <2> QED
    BY <2>1, <2>2
<1>12. ASSUME NEW i \in Jtis, NEW k \in Keys,
              (RefreshOf(i, k) /\ now < token[i].exp /\ grants[i] = 0)'
       PROVE  Succeeded(i, k)'
  <2>1. i # j
    BY <1>0, <1>3, <1>5, <1>12 DEF Signs, AllKept, WellFormed, TypeOK, Time
  <2>2. RefreshOf(i, k)
    BY <1>10, <1>12, <2>1
  <2>3. CASE k # kr
    <3>1. Succeeded(i, k)
      BY <1>5, <1>12, <2>1, <2>2 DEF Signs, AllKept, StoreKept
    <3> QED
      BY <1>10, <2>3, <3>1
  <2>4. CASE k = kr
    <3>1. i < j
      BY <1>5, <2>2 DEF Signs, RefreshOf
    <3> QED
      BY <1>10, <2>4, <3>1 DEF Succeeded, Jtis
  <2> QED
    BY <2>3, <2>4
<1>13. ASSUME NEW i \in Jtis, NEW k \in Keys,
              (token[i] # None /\ token[i].key = k /\ Newest(i) /\ ~Busy(k))'
       PROVE  Backed(i, k)'
  <2>1. CASE k # kr
    <3>1. /\ i # j /\ Newest(i) /\ token[i] # None /\ token'[i] = token[i]
          /\ begun'[i] = begun[i]
      BY <1>5, <1>10, <1>13, <2>1 DEF Signs, Newest
    <3> QED
      BY <1>5, <1>10, <1>13, <2>1, <3>1 DEF Signs, AllKept, StoreKept, Backed
  <2>2. CASE k = kr /\ i # j
    <3>1. token'[i] \in Jwt
      BY <1>13 DEF WellFormed, TypeOK
    <3>2. token[i] = token'[i] /\ begun[i] = begun'[i] /\ Newest(i)
      BY <1>5, <1>10, <1>13, <2>2 DEF Signs
    <3>3. token[i].use = "access"
      BY <1>10, <1>13, <2>2, <3>1, <3>2 DEF Jwt
    <3> QED
      BY <1>5, <1>6, <1>13, <2>2, <3>2, <3>3 DEF Signs, Backed
  <2>3. CASE k = kr /\ i = j
    BY <1>7, <2>3 DEF Backed
  <2> QED
    BY <2>1, <2>2, <2>3
<1>14. \A q \in Requests \ {r} : LocalKept(pc[q], req[q])'
  BY <1>0, <1>3, <1>5, SignsOthers
<1> QED
  BY <1>5, <1>9, <1>11, <1>12, <1>13, <1>14 DEF AllKept, StoreKept, Signs

\* The steps of a refresh up to its issue, and of a redemption before it.
LEMMA RotateKept ==
  ASSUME WellFormed, AllKept, NEW r \in Requests,
         FindUpstream(r) \/ CheckRevoked(r) \/ ProviderAnswers(r) \/ ProviderFails(r)
           \/ Recheck(r)
  PROVE  AllKept'
<1>0. /\ LocalOK(pc[r], req[r]) /\ LocalKept(pc[r], req[r]) /\ req[r] \in Locals
  BY DEF WellFormed, TypeOK, LocalsOK, AllKept
<1>1. /\ UNCHANGED <<now, upstream, token, grants, begun>> /\ refused \subseteq refused'
      /\ pc[r] \in Holding /\ pc[r] \notin Issuing
      /\ pc[r] \in InRotate \cup {"ask"}
  BY DEF FindUpstream, CheckRevoked, ProviderAnswers, ProviderFails, Recheck, Refuse, store,
     minted, ghosts, Holding, InRotate, Issuing
<1>2. PICK kr \in Keys, j \in Jtis : kr = req[r].key /\ j = req[r].jti
  BY <1>0, <1>1 DEF LocalOK, Holding, InRotate, IsRefresh
<1>3. Latest(j, kr)
  BY <1>0, <1>1, <1>2 DEF LocalKept
<1>4. ASSUME NEW label \in Holding, NEW l, Goto(r, label, l), l.key = kr, LocalKept(label, l)
      PROVE  AllKept'
  BY <1>1, <1>2, <1>4, KeptCarries
<1>5. ASSUME Refuse(r) PROVE AllKept'
  <2>1. LocalKept("idle", NoLocals)
    BY DEF LocalKept, InRotate, Issuing
  <2> QED
    BY <1>1, <1>5, <2>1, KeptCarries DEF Refuse, End
<1>6. LocalKept("putBack", req[r]) /\ "putBack" \in Holding
  BY <1>2, <1>3 DEF LocalKept, Holding, InRotate, Issuing
<1>7. CASE FindUpstream(r)
  <2>1. PICK l : l = [req[r] EXCEPT !.cur = upstream[req[r].key].tokens]
    OBVIOUS
  <2>2. l.key = kr /\ l.jti = j
    BY <1>0, <1>2, <2>1 DEF Locals
  <2>3. LocalKept("checkRevoked", l) /\ "checkRevoked" \in Holding
    BY <1>3, <2>2 DEF LocalKept, Holding, InRotate, Issuing
  <2> QED
    BY <1>2, <1>4, <1>6, <1>7, <2>1, <2>2, <2>3 DEF FindUpstream
<1>8. CASE CheckRevoked(r)
  <2>1. req[r].cur.rt # 0 => LocalKept("ask", req[r])
    BY <1>2, <1>3 DEF LocalKept, InRotate, Issuing
  <2> QED
    BY <1>2, <1>4, <1>5, <1>6, <1>8, <2>1 DEF CheckRevoked, Holding
<1>9. CASE ProviderAnswers(r)
  <2>1. PICK rt \in {req[r].cur.rt, req[r].cur.rt + 1}, user \in {req[r].cur.user, None},
             life \in Lifetimes :
          Goto(r, "recheck", [req[r] EXCEPT !.fresh =
            [session |-> req[r].cur.session, user |-> user, issuedAt |-> now, rt |-> rt,
             life |-> life]])
    BY <1>9 DEF ProviderAnswers
  <2>2. PICK l : l = [req[r] EXCEPT !.fresh =
            [session |-> req[r].cur.session, user |-> user, issuedAt |-> now, rt |-> rt,
             life |-> life]]
    OBVIOUS
  <2>3. l.key = kr /\ l.jti = j /\ l.fresh.rt = rt
    BY <1>0, <1>2, <2>2 DEF Locals
  <2>4. rt # 0
    BY <1>0, <1>9 DEF ProviderAnswers, LocalOK, LocalKept, Tokens
  <2>5. LocalKept("recheck", l) /\ "recheck" \in Holding
    BY <1>3, <2>3, <2>4 DEF LocalKept, Holding, InRotate, Issuing
  <2> QED
    BY <1>4, <2>1, <2>2, <2>3, <2>5
<1>10. CASE ProviderFails(r)
  BY <1>2, <1>4, <1>6, <1>10 DEF ProviderFails
<1>11. CASE Recheck(r)
  <2>1. PICK l : l = [req[r] EXCEPT !.fresh = Merged(req[r].cur, req[r].fresh), !.cur = None,
                                    !.at = now]
    OBVIOUS
  <2>2. req[r].fresh \in Tokens /\ req[r].fresh.rt # 0
    BY <1>0, <1>11 DEF Recheck, LocalOK, LocalKept
  <2>3. l.key = kr /\ l.jti = j /\ l.fresh.rt # 0
    BY <1>0, <1>2, <2>1, <2>2 DEF Locals, Merged, Tokens
  <2>4. LocalKept("keepUpstream", l) /\ "keepUpstream" \in Holding
    BY <1>3, <2>3 DEF LocalKept, Holding, InRotate, Issuing
  <2> QED
    BY <1>4, <1>5, <1>11, <2>1, <2>3, <2>4 DEF Recheck
<1> QED
  BY <1>7, <1>8, <1>9, <1>10, <1>11

\* A key that is drawn has no JWT yet.
LEMMA SpendCodeKept ==
  ASSUME WellFormed, AllKept, NEW r \in Requests, SpendCode(r)
  PROVE  AllKept'
<1>1. UNCHANGED <<now, upstream, token, grants, begun, refused>> /\ pc[r] = "spendCode"
  BY DEF SpendCode, minted
<1>2. CASE End(r)
  <2>1. LocalKept("idle", NoLocals)
    BY DEF LocalKept, InRotate, Issuing
  <2> QED
    BY <1>1, <1>2, <2>1, KeptCarries DEF End, Holding, InRotate, Issuing
<1>3. CASE \E k \in {key \in Keys : signIn[key] = None} :
             Goto(r, "keepUpstream", [NoLocals EXCEPT !.key = k, !.fresh = req[r].read.tokens,
                                         !.owner = req[r].read.client, !.at = now])
  <2>1. PICK k \in Keys :
          /\ signIn[k] = None
          /\ Goto(r, "keepUpstream", [NoLocals EXCEPT !.key = k, !.fresh = req[r].read.tokens,
                                         !.owner = req[r].read.client, !.at = now])
    BY <1>3
  <2>2. PICK l : l = [NoLocals EXCEPT !.key = k, !.fresh = req[r].read.tokens,
                                      !.owner = req[r].read.client, !.at = now]
    OBVIOUS
  <2>3. l.key = k /\ l.jti = 0
    BY <2>2 DEF NoLocals
  <2>4. \A j \in Jtis : ~RefreshOf(j, k)
    <3>1. \A j \in Jtis : j <= drawn \/ j > drawn
      BY GrantsAssumption DEF WellFormed, TypeOK, Jtis
    <3> QED
      BY <3>1, <2>1 DEF RefreshOf, WellFormed, TokensOK
  <2>5. LocalKept("keepUpstream", l)
    BY <2>3, <2>4 DEF LocalKept, InRotate, Issuing
  <2> QED
    BY <1>1, <2>1, <2>2, <2>5, KeptCarries DEF Holding, InRotate, Issuing
<1> QED
  BY <1>2, <1>3 DEF SpendCode

LEMMA TickKept ==
  ASSUME WellFormed, AllKept, Tick
  PROVE  AllKept'
<1>1. /\ now' = now + 1 /\ now \in Nat
      /\ UNCHANGED <<pc, req, upstream, token, grants, begun, refused>>
  BY DEF Tick, store, minted, ghosts, WellFormed, TypeOK, Time
<1>2. \A r \in Requests : LocalKept(pc[r], req[r])'
  BY <1>1 DEF AllKept, LocalKept, Latest, RefreshOf, Newest, Backed
<1>3. ASSUME NEW j \in Jtis, NEW k \in Keys, RefreshOf(j, k), now' < token[j].exp, grants[j] = 0
      PROVE  Succeeded(j, k)'
  <2>1. token[j] \in Jwt
    BY <1>3 DEF RefreshOf, WellFormed, TypeOK
  <2>2. now < token[j].exp
    BY <1>1, <1>3, <2>1 DEF Jwt, Time
  <2>3. Succeeded(j, k)
    BY <1>3, <2>2 DEF AllKept, StoreKept
  <2> QED
    BY <1>1, <2>3 DEF Succeeded, Holds, RefreshOf
<1>4. StoreKept'
  BY <1>1, <1>3
  DEF AllKept, StoreKept, StoredRefresh, Latest, RefreshOf, Newest, Busy, Holds, Backed
<1> QED
  BY <1>1, <1>2, <1>4 DEF AllKept

LEMMA NextKept ==
  ASSUME OneInv, NoSeparateCodeDelete, AllKept, WellFormed', AtomicTake, UNCHANGED faults, Next
  PROVE  AllKept'
<1>0. WellFormed
  BY DEF OneInv
<1>1. ASSUME NEW r \in Requests, NEW label, NEW l, Goto(r, label, l),
             label \notin Holding, pc[r] \notin Holding,
             UNCHANGED <<now, upstream, token, grants, begun, refused>>
      PROVE  AllKept'
  <2>1. LocalKept(label, l)
    BY <1>1 DEF LocalKept, Holding, InRotate, Issuing
  <2> QED
    BY <1>0, <1>1, <2>1, KeptCarries DEF Holding
<1>2. ASSUME NEW r \in Requests, StoreFails(r) \/ Crash(r) PROVE FALSE
  BY <1>0, <1>2 DEF StoreFails, Crash, Fault, WellFormed, TypeOK
<1>3. ASSUME NEW r \in Requests, Continue(r) PROVE AllKept'
  <2>1. ~ReadCode(r) /\ ~DeleteCode(r) /\ ~DeleteGrant(r)
    BY DEF ReadCode, DeleteCode, DeleteGrant, NoSeparateCodeDelete, OneInv, NoSeparateDelete
  <2>2. CASE TakeCode(r) \/ FindClient(r) \/ SaveClient(r) \/ SaveRevocation(r)
    <3>1. /\ UNCHANGED <<now, upstream, token, grants, begun, refused>>
          /\ pc[r] \in {"takeCode", "findClient", "saveClient", "saveRevocation"}
          /\ \E label \in {"idle", "spendCode", "saveClient"} : \E l : Goto(r, label, l)
      BY <2>2
      DEF TakeCode, Redeemed, FindClient, SaveClient, SaveRevocation, Respond, End, store,
          minted, ghosts
    <3> QED
      BY <1>1, <3>1 DEF Holding, InRotate, Issuing
  <2> QED
    BY <1>0, <1>3, <2>1, <2>2, SpendCodeKept, KeepUpstreamKept, SaveAccessKept,
       SaveRefreshKept, RotateKept, PutBackKept DEF Continue
<1>4. ASSUME NEW r \in Requests, NEW c \in Codes, NEW client \in Clients,
             StartRedeem(r, c, client)
      PROVE  AllKept'
  <2>1. /\ UNCHANGED <<now, upstream, token, grants, begun, refused>> /\ pc[r] = "idle"
        /\ \E l : Goto(r, "takeCode", l)
    BY <1>4 DEF StartRedeem, store, minted, ghosts
  <2> QED
    BY <1>1, <2>1 DEF Holding, InRotate, Issuing
<1>5. ASSUME NEW r \in Requests, NEW u \in Users, RevokeUser(r, u) PROVE AllKept'
  <2>1. /\ UNCHANGED <<now, upstream, token, grants, begun, refused>> /\ pc[r] = "idle"
        /\ \E l : Goto(r, "saveRevocation", l)
    BY <1>5 DEF RevokeUser, store, minted, ghosts
  <2> QED
    BY <1>1, <2>1 DEF Holding, InRotate, Issuing
<1>6. ASSUME NEW r \in Requests, NEW j \in Jtis, NEW client \in Clients \cup {None}
      PROVE  ~ReadGrant(r, j, client)
  BY DEF ReadGrant
<1>7. ASSUME NEW c \in Codes, IssueCode(c) PROVE AllKept'
  BY <1>7 DEF IssueCode, AllKept, StoreKept, LocalKept, StoredRefresh, Latest, RefreshOf,
     Newest, Busy, Holds, Backed, Succeeded, minted, ghosts
<1> QED
  BY <1>0, <1>2, <1>3, <1>4, <1>5, <1>6, <1>7, ClaimRefreshKept, TickKept DEF Next

LEMMA InitKept == Init => KeptInv
<1>1. Init => AllKept
  BY DEF Init, AllKept, StoreKept, StoredRefresh, RefreshOf, LocalKept, InRotate, Issuing
<1>2. Init => RetryNeverExtends
  BY DEF Init, RetryNeverExtends
<1> QED
  BY <1>1, <1>2, InitOne, InitRedeem DEF KeptInv

LEMMA StepKept == AtomicTake /\ KeptInv /\ [Next]_vars => KeptInv'
<1> SUFFICES ASSUME AtomicTake, KeptInv, [Next]_vars PROVE KeptInv'
  OBVIOUS
<1>1. OneInv' /\ RedeemInv' /\ RetryNeverExtends'
  BY StepOne, StepRedeem, StepRetry DEF KeptInv, OneInv
<1>2. ASSUME faults' = 0 PROVE AllKept'
  <2>1. faults = 0 /\ UNCHANGED faults /\ AllKept
    BY <1>2, FaultsStay DEF KeptInv, OneInv
  <2>2. CASE UNCHANGED vars
    BY <2>1, <2>2 DEF vars, AllKept, StoreKept, LocalKept, StoredRefresh, Latest, RefreshOf,
       Newest, Busy, Holds, Backed, Succeeded, store, minted, ghosts
  <2>3. CASE Next
    BY <1>1, <2>1, <2>3, NextKept DEF KeptInv, RedeemInv, OneInv
  <2> QED
    BY <2>2, <2>3
<1> QED
  BY <1>1, <1>2 DEF KeptInv

(* Without faults no order of refreshes, failures of the provider and puts back loses the     *)
(* refresh token a client holds: it works, is worked on, has a successor or was refused.     *)
THEOREM NeverLost ==
  ASSUME AtomicTake
  PROVE  Spec => []RefreshTokenNotLost
<1>1. KeptInv => RefreshTokenNotLost
  <2> SUFFICES ASSUME KeptInv, faults = 0, NEW j \in handed, token[j].use = "refresh",
                      now < token[j].exp, grants[j] = 0
               PROVE  LET k == token[j].key IN
                      \/ \E r \in Requests : Holds(r, k)
                      \/ \E j2 \in Jtis : j2 > j /\ token[j2] # None /\ token[j2].use = "refresh"
                                         /\ token[j2].key = k
                      \/ k \in refused
    BY DEF RefreshTokenNotLost
  <2>1. j \in Jtis /\ token[j] \in Jwt
    BY DEF KeptInv, OneInv, WellFormed, TypeOK, TokensOK
  <2>2. PICK k \in Keys : k = token[j].key
    BY <2>1 DEF Jwt
  <2>3. Succeeded(j, k)
    BY <2>1, <2>2, NoneAssumption DEF KeptInv, AllKept, StoreKept, RefreshOf
  <2> QED
    BY <2>2, <2>3 DEF Succeeded, RefreshOf
<1> QED
  BY <1>1, InitKept, StepKept, PTL DEF Spec

(* Without faults the provider's tokens are kept for as long as the grant of either JWT of    *)
(* the last pair, whatever lifetimes the provider gave before and however long the store      *)
(* takes: each counted from the call that saved it (grants.ts:87-116).                        *)
THEOREM LastPairBacked ==
  ASSUME AtomicTake
  PROVE  Spec => []UpstreamKeptForPair
<1>1. KeptInv => UpstreamKeptForPair
  <2> SUFFICES ASSUME KeptInv, NEW j \in Jtis, Current(grants[j]), Newest(j),
                      Settled(token[j].key)
               PROVE  /\ upstream[token[j].key] # None
                      /\ grants[j] + begun[j] <= upstream[token[j].key].until + token[j].iat
    BY DEF UpstreamKeptForPair
  <2>1. WellFormed /\ RetryNeverExtends /\ AllKept
    BY DEF KeptInv, OneInv, Settled
  <2>2. token[j] \in Jwt /\ grants[j] <= token[j].exp
    BY <2>1 DEF RetryNeverExtends, Current, WellFormed, TypeOK
  <2>3. PICK k \in Keys : k = token[j].key
    BY <2>2 DEF Jwt
  <2>4. ~Busy(k)
    BY <2>3 DEF Settled, Busy
  <2>5. Backed(j, k)
    BY <2>1, <2>2, <2>3, <2>4, NoneAssumption DEF AllKept, StoreKept
  <2>6. grants[j] \in Nat /\ begun[j] \in Nat /\ token[j].exp \in Nat /\ token[j].iat \in Nat
    BY <2>1, <2>2 DEF WellFormed, TypeOK, Jwt, Time
  <2>7. upstream[k].until \in Nat
    BY <2>1, <2>3, <2>5 DEF WellFormed, TypeOK, Kept, Time, Backed
  <2> QED
    BY <2>2, <2>3, <2>5, <2>6, <2>7 DEF Backed
<1> QED
  BY <1>1, InitKept, StepKept, PTL DEF Spec

=============================================================================
