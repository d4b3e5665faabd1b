--------------------------- MODULE WideningProofs ---------------------------
(***************************************************************************)
(* Proofs about Widening, for any scopes, lists, bounds and length of the  *)
(* memory of a refusal.                                                    *)
(***************************************************************************)
EXTENDS Widening, TLAPS

Asking == {"readDeclined", "askWide", "saveDeclined"}

\* What an answer may hold, and what a sign-in keeps.
Bounded(scopes) == scopes # {} /\ scopes \subseteq allowed \cup Always

(* A refresh asks for nothing beyond its grant but the server's own list; what comes back, and *)
(* what is stored, is within what was granted to the sign-in.                                  *)
Capped ==
  /\ TypeOK
  /\ ClientNeverAdds
  /\ carried \subseteq allowed
  /\ pc # "idle" => allowed # {}
  /\ pc \in Asking => req.wide \in Lists
  /\ req.scope # None => req.scope \subseteq held \cup Always
  /\ pc \in {"keepUpstream", "saveGrant"} => Bounded(req.fresh)

-----------------------------------------------------------------------------
LEMMA NarrowedWithin ==
  ASSUME NEW requested \in SUBSET Scopes, NEW may \in SUBSET Scopes
  PROVE  /\ NarrowScope(requested, may) \in Asked
         /\ NarrowScope(requested, may) # None => NarrowScope(requested, may) \subseteq may
BY DEF NarrowScope, Asked

LEMMA NoLocalsType == NoLocals \in Locals /\ NoLocals.scope = None
BY DEF NoLocals, Locals, Asked

LEMMA InitCapped == Init => Capped
<1> SUFFICES ASSUME Init PROVE Capped
  OBVIOUS
<1>1. TypeOK
  BY WideningAssumption, NoLocalsType DEF Init, TypeOK, Labels, Ages
<1> QED
  BY <1>1, NoLocalsType DEF Init, Capped, ClientNeverAdds, Asking

LEMMA SignInCapped ==
  ASSUME Capped, NEW requested \in SUBSET Scopes, SignIn(requested)
  PROVE  Capped'
<1>1. PICK asked \in SUBSET Scopes : \E granted \in (SUBSET asked) \ {{}} :
           \E reported \in Reported(granted, asked) :
        /\ consented' = consented \cup granted
        /\ carried' = granted /\ allowed' = granted
        /\ kept' = (IF reported = {} THEN asked ELSE reported)
        /\ held' = (IF reported = {} THEN asked ELSE reported)
  <2> DEFINE narrowed == NarrowScope(requested, configured)
             asked == IF narrowed = None THEN configured ELSE narrowed
  <2>1. configured \in SUBSET Scopes
    BY WideningAssumption DEF Capped, TypeOK
  <2>2. asked \in SUBSET Scopes
    BY <2>1, NarrowedWithin
  <2> QED
    BY <2>2 DEF SignIn
<1> PICK granted \in (SUBSET asked) \ {{}} : \E reported \in Reported(granted, asked) :
        /\ consented' = consented \cup granted
        /\ carried' = granted /\ allowed' = granted
        /\ kept' = (IF reported = {} THEN asked ELSE reported)
        /\ held' = (IF reported = {} THEN asked ELSE reported)
  BY <1>1
<1>2. /\ kept' = held' /\ kept' # {} /\ kept' \subseteq granted
      /\ consented' = consented \cup granted /\ carried' = granted /\ allowed' = granted
  BY DEF Reported
<1>3. UNCHANGED <<widens, configured, pc, req, declined, reports, refusedFor, lastRefused,
                  releases, faults>> /\ allowed = {}
  BY DEF SignIn
<1>4. pc = "idle" /\ req.scope # None => req.scope \subseteq Always
  BY <1>3 DEF Capped, ClientNeverAdds
<1> QED
  BY <1>2, <1>3, <1>4
  DEF Capped, TypeOK, ClientNeverAdds, Asking, Bounded

LEMMA RefreshCapped ==
  ASSUME Capped, NEW requested \in SUBSET Scopes, Refresh(requested)
  PROVE  Capped'
<1> DEFINE wide == IF requested = {} THEN WidenedScope(held) ELSE None
           scope == NarrowScope(requested, RefreshCap(held))
           locals == [NoLocals EXCEPT !.scope = scope, !.wide = wide,
                                      !.unscoped = requested = {}]
<1>1. /\ pc' = (IF wide = None THEN "ask" ELSE "readDeclined") /\ req' = locals
      /\ UNCHANGED <<widens, configured, store, provider, ghosts>> /\ allowed # {}
  BY DEF Refresh, Goto
<1>2. held \in SUBSET Scopes /\ configured \in Lists /\ configured \in SUBSET Scopes
  BY WideningAssumption DEF Capped, TypeOK
<1>3. RefreshCap(held) \in SUBSET Scopes /\ RefreshCap(held) \subseteq held \cup Always
  BY <1>2 DEF RefreshCap
<1>4. scope \in Asked /\ (scope # None => scope \subseteq held \cup Always)
  BY <1>3, NarrowedWithin
<1>5. wide \in Asked /\ (wide # None => wide \in Lists)
  BY <1>2 DEF WidenedScope, Asked
<1>6. locals.scope = scope /\ locals.wide = wide
  BY DEF NoLocals
<1>7. locals \in Locals
  BY <1>4, <1>5 DEF NoLocals, Locals
<1>8. TypeOK'
  BY <1>1, <1>7 DEF Capped, TypeOK, Labels, store, provider, ghosts
<1> QED
  BY <1>1, <1>4, <1>5, <1>6, <1>8
  DEF Capped, ClientNeverAdds, Asking, store, provider, ghosts

\* A step that leaves the stored scopes and the sign-in's grant alone, and goes on with the same
\* scope or none.
LEMMA WaitCapped ==
  ASSUME Capped, NEW label \in Labels, NEW locals \in Locals, Goto(label, locals),
         UNCHANGED <<widens, configured, kept, held, provider, allowed>>, TypeOK',
         locals.scope \in {req.scope, None},
         label # "idle" => pc # "idle",
         label \in Asking => locals.wide \in Lists,
         label \notin {"keepUpstream", "saveGrant"}
  PROVE  Capped'
BY DEF Capped, ClientNeverAdds, Goto, provider

LEMMA ReadDeclinedCapped ==
  ASSUME Capped, ReadDeclined
  PROVE  Capped'
<1>1. [req EXCEPT !.wide = None] \in Locals /\ req \in Locals
  BY DEF Capped, TypeOK, Locals, Asked
<1>2. [req EXCEPT !.wide = None].scope = req.scope
  BY DEF Capped, TypeOK, Locals
<1>3. faults' \in Nat
  BY DEF ReadDeclined, Fault, Capped, TypeOK
<1>4. UNCHANGED <<widens, configured, store, provider, allowed, refusedFor, lastRefused, releases>>
  BY DEF ReadDeclined
<1>5. CASE Goto("ask", [req EXCEPT !.wide = None])
  <2>1. TypeOK'
    BY <1>1, <1>3, <1>4, <1>5 DEF Goto, Capped, TypeOK, Labels, store, provider
  <2> QED
    BY <1>1, <1>2, <1>4, <1>5, <2>1, WaitCapped
    DEF ReadDeclined, Labels, Asking, store
<1>6. CASE Goto("askWide", req)
  <2>1. TypeOK'
    BY <1>1, <1>3, <1>4, <1>6 DEF Goto, Capped, TypeOK, Labels, store, provider
  <2>2. req.wide \in Lists
    BY DEF ReadDeclined, Capped, Asking
  <2> QED
    BY <1>1, <1>4, <1>6, <2>1, <2>2, WaitCapped DEF ReadDeclined, Labels, store
<1> QED
  BY <1>5, <1>6 DEF ReadDeclined

\* What the provider answers with, merged, is within what it granted and what was kept.
LEMMA AnsweredBounded ==
  ASSUME Capped, pc # "idle", NEW granted \in SUBSET Scopes, granted # {},
         \E asked : Answered(granted, asked)
  PROVE  /\ pc' = "keepUpstream" /\ req' \in Locals /\ req'.scope = req.scope
         /\ req'.fresh # {} /\ req'.fresh \subseteq granted \cup kept
<1> PICK asked : Answered(granted, asked)
  OBVIOUS
<1>1. PICK reported \in Reported(granted, asked) :
        Goto("keepUpstream", [req EXCEPT !.fresh = Merged(reported)])
  BY DEF Answered
<1>2. reported \subseteq granted
  BY DEF Reported
<1>3. kept \in SUBSET Scopes /\ kept # {} /\ req \in Locals
  BY DEF Capped, TypeOK
<1>4. Merged(reported) \in SUBSET Scopes /\ Merged(reported) # {}
      /\ Merged(reported) \subseteq granted \cup kept
  BY <1>2, <1>3 DEF Merged
<1>5. [req EXCEPT !.fresh = Merged(reported)] \in Locals
  BY <1>3, <1>4 DEF Locals
<1>6. /\ [req EXCEPT !.fresh = Merged(reported)].scope = req.scope
      /\ [req EXCEPT !.fresh = Merged(reported)].fresh = Merged(reported)
  BY <1>3 DEF Locals
<1> QED
  BY <1>1, <1>4, <1>5, <1>6 DEF Goto

LEMMA WideGrantedCapped ==
  ASSUME Capped, WideGranted
  PROVE  Capped'
<1> DEFINE granted == req.wide \cap consented
<1>1. granted \in SUBSET Scopes /\ granted # {}
  BY DEF WideGranted, Capped, TypeOK
<1>2. /\ pc' = "keepUpstream" /\ req' \in Locals /\ req'.scope = req.scope
      /\ req'.fresh # {} /\ req'.fresh \subseteq granted \cup kept
  BY <1>1, AnsweredBounded DEF WideGranted
<1>3. /\ carried' = carried \cup granted /\ allowed' = allowed \cup granted
      /\ UNCHANGED <<widens, configured, store, reports, consented, refusedFor, lastRefused,
                     releases, faults>>
  BY DEF WideGranted
<1>4. TypeOK'
  BY <1>1, <1>2, <1>3 DEF WideGranted, Capped, TypeOK, Labels, store
<1>5. Bounded(req.fresh)'
  BY <1>2, <1>3 DEF Bounded, Capped, ClientNeverAdds
<1> QED
  BY <1>1, <1>2, <1>3, <1>4, <1>5
  DEF WideGranted, Capped, ClientNeverAdds, Asking, store

LEMMA WideRefusedCapped ==
  ASSUME Capped, NEW transient \in BOOLEAN, WideRefused(transient)
  PROVE  Capped'
<1>1. req \in Locals /\ req.wide \in Lists /\ pc = "askWide"
  BY DEF WideRefused, Capped, TypeOK, Asking
<1>2. AfterRefusal(transient) \in {"ask", "saveDeclined"} /\ Goto(AfterRefusal(transient), req)
  BY DEF WideRefused, AfterRefusal
<1>3. UNCHANGED <<widens, configured, store, provider, allowed, releases, faults>>
  BY DEF WideRefused
<1>4. refusedFor' \in [Lists -> Ages] /\ lastRefused' \in {None} \cup Lists
  BY <1>1, WideningAssumption DEF WideRefused, Capped, TypeOK, Ages
<1>5. TypeOK'
  BY <1>1, <1>2, <1>3, <1>4 DEF Goto, Capped, TypeOK, Labels, store, provider
<1>6. AfterRefusal(transient) \in Labels
  BY <1>2 DEF Labels
<1> QED
  BY <1>1, <1>2, <1>3, <1>5, <1>6, WaitCapped DEF store

LEMMA SaveDeclinedCapped ==
  ASSUME Capped, SaveDeclined
  PROVE  Capped'
<1>1. req \in Locals /\ req.wide \in Lists /\ pc = "saveDeclined"
  BY DEF SaveDeclined, Capped, TypeOK, Asking
<1>2. /\ Goto("ask", req)
      /\ UNCHANGED <<widens, configured, kept, held, provider, allowed, refusedFor, lastRefused,
                     releases>>
  BY DEF SaveDeclined
<1>3. declined' \in {None} \cup Refusal /\ faults' \in Nat
  BY <1>1, WideningAssumption DEF SaveDeclined, Fault, Capped, TypeOK, Refusal
<1>4. TypeOK'
  BY <1>1, <1>2, <1>3 DEF Goto, Capped, TypeOK, Labels, provider
<1> QED
  BY <1>1, <1>2, <1>4, WaitCapped DEF Labels, Asking

LEMMA GrantedCapped ==
  ASSUME Capped, Granted
  PROVE  Capped'
<1>1. PICK granted \in SUBSET Scopes :
        /\ granted # {} /\ \E asked : Answered(granted, asked)
        /\ granted \subseteq carried \/ granted \subseteq held \cup Always
  <2>1. CASE req.scope = None
    BY <2>1 DEF Granted, Capped, TypeOK
  <2>2. CASE req.scope # None
    <3>1. req.scope \cap consented \in SUBSET Scopes
          /\ req.scope \cap consented \subseteq held \cup Always
      BY <2>2 DEF Capped, TypeOK
    <3>2. req.scope \cap consented # {} /\ Answered(req.scope \cap consented, req.scope)
      BY <2>2 DEF Granted
    <3> QED
      BY <3>1, <3>2
  <2> QED
    BY <2>1, <2>2
<1>2. /\ pc = "ask" /\ UNCHANGED <<widens, configured, store, provider, ghosts>>
  BY DEF Granted
<1>3. /\ pc' = "keepUpstream" /\ req' \in Locals /\ req'.scope = req.scope
      /\ req'.fresh # {} /\ req'.fresh \subseteq granted \cup kept
  BY <1>1, <1>2, AnsweredBounded
<1>4. TypeOK'
  BY <1>2, <1>3 DEF Capped, TypeOK, Labels, store, provider, ghosts
<1>5. Bounded(req.fresh)'
  BY <1>1, <1>2, <1>3 DEF Bounded, Capped, ClientNeverAdds, ghosts
<1> QED
  BY <1>2, <1>3, <1>4, <1>5
  DEF Capped, ClientNeverAdds, Asking, store, provider, ghosts

\* A refresh that ends, with the stored scopes as they are or one of them replaced by its answer.
LEMMA EndCapped ==
  ASSUME Capped, End, pc # "idle",
         UNCHANGED <<widens, configured, declined, provider, allowed, refusedFor, lastRefused,
                     releases>>,
         faults' \in Nat,
         kept' = kept \/ (kept' = req.fresh /\ Bounded(req.fresh)),
         held' = held \/ (held' = req.fresh /\ Bounded(req.fresh))
  PROVE  Capped'
<1>1. pc' = "idle" /\ req' = NoLocals
  BY DEF End, Goto
<1>2. req.fresh \in SUBSET Scopes
  BY DEF Capped, TypeOK, Locals
<1>3. /\ kept' \in SUBSET Scopes /\ kept' # {} /\ kept' \subseteq allowed \cup Always
      /\ held' \in SUBSET Scopes /\ held' # {} /\ held' \subseteq allowed \cup Always
  BY <1>2 DEF Capped, TypeOK, Bounded, ClientNeverAdds
<1>4. TypeOK'
  BY <1>1, <1>3, NoLocalsType DEF Capped, TypeOK, Labels, provider
<1> QED
  BY <1>1, <1>3, <1>4, NoLocalsType DEF Capped, ClientNeverAdds, Asking, provider

LEMMA KeepUpstreamCapped ==
  ASSUME Capped, KeepUpstream
  PROVE  Capped'
<1>1. /\ pc = "keepUpstream" /\ Bounded(req.fresh) /\ req \in Locals
      /\ UNCHANGED <<widens, configured, held, declined, provider, allowed, refusedFor,
                     lastRefused, releases>>
  BY DEF KeepUpstream, Capped, TypeOK
<1>2. CASE kept' = req.fresh /\ Goto("saveGrant", req) /\ UNCHANGED faults
  <2>1. kept' \in SUBSET Scopes /\ kept' # {} /\ kept' \subseteq allowed \cup Always
    BY <1>1, <1>2 DEF Bounded, Locals
  <2>2. TypeOK'
    BY <1>1, <1>2, <2>1 DEF Goto, Capped, TypeOK, Labels, provider
  <2> QED
    BY <1>1, <1>2, <2>1, <2>2
    DEF Goto, Capped, ClientNeverAdds, Asking, Bounded, provider
<1>3. CASE Fault /\ End /\ UNCHANGED kept
  <2>1. faults' \in Nat
    BY <1>3 DEF Fault, Capped, TypeOK
  <2> QED
    BY <1>1, <1>3, <2>1, EndCapped
<1> QED
  BY <1>2, <1>3 DEF KeepUpstream

LEMMA SaveGrantCapped ==
  ASSUME Capped, SaveGrant
  PROVE  Capped'
<1>1. /\ pc = "saveGrant" /\ Bounded(req.fresh) /\ End
      /\ held' = req.fresh \/ held' = held
      /\ UNCHANGED <<widens, configured, kept, declined, provider, allowed, refusedFor,
                     lastRefused, releases>>
  BY DEF SaveGrant, Capped
<1>2. faults' \in Nat
  BY DEF SaveGrant, Fault, Capped, TypeOK
<1> QED
  BY <1>1, <1>2, EndCapped

\* Releases, the user's consent and passing days change nothing a sign-in was granted.
LEMMA MeanwhileCapped ==
  ASSUME Capped,
         \/ \E list \in Lists : Release(list)
         \/ \E scope \in Scopes : Consent(scope)
         \/ Tick
  PROVE  Capped'
<1>1. CASE \E list \in Lists : Release(list)
  <2>1. TypeOK'
    BY <1>1 DEF Release, Capped, TypeOK, store, provider
  <2> QED
    BY <1>1, <2>1 DEF Release, Capped, ClientNeverAdds, Asking, Bounded, store, provider
<1>2. CASE \E scope \in Scopes : Consent(scope)
  <2>1. TypeOK'
    BY <1>2 DEF Consent, Capped, TypeOK, store, ghosts
  <2> QED
    BY <1>2, <2>1 DEF Consent, Capped, ClientNeverAdds, Asking, Bounded, store, ghosts
<1>3. CASE Tick
  <2>1. declined' \in {None} \cup Refusal
    BY <1>3, WideningAssumption DEF Tick, Aged, Capped, TypeOK, Refusal
  <2>2. refusedFor' \in [Lists -> Ages]
    BY <1>3, WideningAssumption DEF Tick, Capped, TypeOK, Ages
  <2>3. TypeOK'
    BY <1>3, <2>1, <2>2 DEF Tick, Capped, TypeOK, provider
  <2> QED
    BY <1>3, <2>3 DEF Tick, Capped, ClientNeverAdds, Asking, Bounded, provider
<1> QED
  BY <1>1, <1>2, <1>3

LEMMA NextCapped == Capped /\ [Next]_vars => Capped'
<1> SUFFICES ASSUME Capped, [Next]_vars PROVE Capped'
  OBVIOUS
<1>1. CASE \E requested \in SUBSET Scopes : SignIn(requested) \/ Refresh(requested)
  BY <1>1, SignInCapped, RefreshCapped
<1>2. CASE Continue
  <2>1. CASE AskFails
    <3>1. faults' \in Nat
      BY <2>1 DEF AskFails, ghosts, Capped, TypeOK
    <3> QED
      BY <2>1, <3>1, EndCapped DEF AskFails, store, ghosts
  <2> QED
    BY <1>2, <2>1, ReadDeclinedCapped, WideGrantedCapped, WideRefusedCapped, SaveDeclinedCapped,
       GrantedCapped, KeepUpstreamCapped, SaveGrantCapped DEF Continue
<1>3. CASE \/ \E list \in Lists : Release(list)
           \/ \E scope \in Scopes : Consent(scope)
           \/ Tick
  BY <1>3, MeanwhileCapped
<1>4. CASE UNCHANGED vars
  BY <1>4 DEF vars, store, provider, ghosts, Capped, TypeOK, ClientNeverAdds, Asking, Bounded
<1> QED
  BY <1>1, <1>2, <1>3, <1>4 DEF Next

-----------------------------------------------------------------------------
(* Every variable of Widening keeps its type, and no sign-in's grant is ever empty: a provider *)
(* that leaves scope out of its answer, however often, does not empty it (grants.ts:271).      *)
THEOREM TypeCorrect == Spec => []TypeOK
<1>1. Capped => TypeOK
  BY DEF Capped
<1> QED
  BY <1>1, InitCapped, NextCapped, PTL DEF Spec

(* However many refreshes follow one another, whatever scopes clients name in them, however   *)
(* the server's list and the user's consents grow: a sign-in holds only what its user granted *)
(* it or the server widened it to (scopes.ts:2, grants.ts:324-326).                           *)
THEOREM NeverAdds == Spec => []ClientNeverAdds
<1>1. Capped => ClientNeverAdds
  BY DEF Capped
<1> QED
  BY <1>1, InitCapped, NextCapped, PTL DEF Spec

-----------------------------------------------------------------------------
(* The memory of a refusal.                                                *)

\* The list the provider refused last is on record for as long as it is to be left alone.
OnRecord ==
  \/ declined # None /\ declined.list = lastRefused /\ declined.age = refusedFor[lastRefused]
  \/ refusedFor[lastRefused] > Day

(* A refresh that asks for a list asks for the one the server has; an entry is as old as the  *)
(* refusal it stands for, or older; and the last refusal is on record, unless a save failed.  *)
Remembered ==
  /\ Capped
  /\ pc \in Asking => req.wide = configured
  /\ pc = "saveDeclined" => req.wide = lastRefused /\ refusedFor[req.wide] = 0
  /\ declined # None => refusedFor[declined.list] <= declined.age
  /\ faults = 0 /\ lastRefused # None /\ pc # "saveDeclined" => OnRecord
  /\ RefusalKeptADay

LEMMA ListsNotNone == \A list \in Lists : list # None /\ list \in SUBSET Scopes
BY WideningAssumption, NoneAssumption

LEMMA InitRemembered == Init => Remembered
<1> SUFFICES ASSUME Init PROVE Remembered
  OBVIOUS
<1> QED
  BY InitCapped DEF Init, Remembered, Asking, RefusalKeptADay

LEMMA StartRemembered ==
  ASSUME Remembered, Capped', NEW requested \in SUBSET Scopes,
         SignIn(requested) \/ Refresh(requested)
  PROVE  Remembered'
<1>1. CASE SignIn(requested)
  <2>1. pc = "idle"
    BY <1>1 DEF SignIn, Remembered, Capped
  <2>2. UNCHANGED <<configured, pc, req, declined, refusedFor, lastRefused, faults>>
    BY <1>1 DEF SignIn
  <2> QED
    BY <2>1, <2>2 DEF Remembered, OnRecord, Asking, RefusalKeptADay
<1>2. CASE Refresh(requested)
  <2> DEFINE wide == IF requested = {} THEN WidenedScope(held) ELSE None
             locals == [NoLocals EXCEPT !.scope = NarrowScope(requested, RefreshCap(held)),
                                        !.wide = wide, !.unscoped = requested = {}]
  <2>1. /\ pc = "idle" /\ pc' = (IF wide = None THEN "ask" ELSE "readDeclined") /\ req' = locals
        /\ UNCHANGED <<widens, configured, kept, held, declined, refusedFor, lastRefused, faults>>
    BY <1>2 DEF Refresh, Goto, store, provider, ghosts
  <2>2. locals.wide = wide /\ (locals.unscoped <=> requested = {})
    BY DEF NoLocals
  <2>3. wide # None => wide = configured
    BY DEF WidenedScope
  <2>4. widens /\ requested = {} /\ wide = None => configured \ Always \subseteq held
    BY ListsNotNone DEF WidenedScope, Remembered, Capped, TypeOK
  <2> HIDE DEF wide, locals
  <2>5. RefusalKeptADay'
    BY <2>1, <2>2, <2>4 DEF RefusalKeptADay
  <2> QED
    BY <2>1, <2>2, <2>3, <2>5 DEF Remembered, OnRecord, Asking
<1> QED
  BY <1>1, <1>2

LEMMA ReadDeclinedRemembered ==
  ASSUME Remembered, Capped', ReadDeclined
  PROVE  Remembered'
<1>1. /\ pc = "readDeclined" /\ req \in Locals /\ req.wide \in Lists /\ req.wide = configured
      /\ UNCHANGED <<widens, configured, held, declined, refusedFor, lastRefused>>
  BY DEF ReadDeclined, Remembered, Capped, TypeOK, Asking, store
<1>2. CASE RefusedBefore(req.wide) /\ Goto("ask", [req EXCEPT !.wide = None]) /\ UNCHANGED faults
  <2>1. declined \in Refusal /\ declined.list = configured
    BY <1>1, <1>2 DEF RefusedBefore, Remembered, Capped, TypeOK
  <2>2. refusedFor[configured] <= Day
    <3>1. declined.age \in 0..Day /\ configured \in Lists
      BY <1>1, <2>1 DEF Refusal
    <3>2. refusedFor[configured] \in Ages /\ refusedFor[configured] <= declined.age
      BY <1>2, <2>1, <3>1 DEF Remembered, Capped, TypeOK, RefusedBefore
    <3> QED
      BY <3>1, <3>2, WideningAssumption DEF Ages
  <2>3. pc' = "ask"
    BY <1>2 DEF Goto
  <2>4. RefusalKeptADay'
    BY <1>1, <2>2, <2>3 DEF RefusalKeptADay
  <2> QED
    BY <1>1, <1>2, <2>3, <2>4 DEF Remembered, OnRecord, Asking
<1>3. CASE ~RefusedBefore(req.wide) /\ Goto("askWide", req) /\ UNCHANGED faults
  <2>1. faults = 0 /\ req.wide = lastRefused => refusedFor[req.wide] > Day
    BY <1>1, <1>3, ListsNotNone DEF Remembered, OnRecord, RefusedBefore
  <2>2. RefusalKeptADay'
    BY <1>1, <1>3, <2>1 DEF RefusalKeptADay, Goto
  <2> QED
    BY <1>1, <1>3, <2>2 DEF Remembered, OnRecord, Asking, Goto
<1>4. CASE Fault /\ Goto("askWide", req)
  <2>1. faults' # 0
    BY <1>4 DEF Fault, Remembered, Capped, TypeOK
  <2>2. RefusalKeptADay'
    BY <1>1, <1>4, <2>1 DEF RefusalKeptADay, Goto
  <2> QED
    BY <1>1, <1>4, <2>1, <2>2 DEF Remembered, OnRecord, Asking, Goto
<1> QED
  BY <1>2, <1>3, <1>4 DEF ReadDeclined

LEMMA WideRefusedRemembered ==
  ASSUME Remembered, Capped', NEW transient \in BOOLEAN, WideRefused(transient)
  PROVE  Remembered'
<1>1. /\ pc = "askWide" /\ req.wide \in Lists /\ req.wide = configured /\ req.wide # None
      /\ Goto(AfterRefusal(transient), req)
      /\ UNCHANGED <<widens, configured, held, declined, faults>>
  BY ListsNotNone DEF WideRefused, Remembered, Capped, Asking, store
<1>2. RefusalKeptADay'
  BY <1>1 DEF RefusalKeptADay, Goto, AfterRefusal
<1>3. CASE transient
  BY <1>1, <1>2, <1>3 DEF WideRefused, AfterRefusal, Goto, Remembered, OnRecord, Asking
<1>4. CASE ~transient
  <2>1. /\ pc' = "saveDeclined" /\ req' = req /\ lastRefused' = req.wide
        /\ refusedFor' = [refusedFor EXCEPT ![req.wide] = 0]
    BY <1>1, <1>4 DEF WideRefused, AfterRefusal, Goto
  <2>2. refusedFor'[req.wide] = 0
    BY <1>1, <2>1 DEF Remembered, Capped, TypeOK
  <2>3. declined # None => refusedFor'[declined.list] <= declined.age
    <3> SUFFICES ASSUME declined # None PROVE refusedFor'[declined.list] <= declined.age
      OBVIOUS
    <3>1. declined \in Refusal /\ declined.list \in Lists /\ declined.age \in 0..Day
      BY DEF Remembered, Capped, TypeOK, Refusal
    <3>2. refusedFor'[declined.list] \in {0, refusedFor[declined.list]}
      BY <2>1, <3>1 DEF Remembered, Capped, TypeOK
    <3> QED
      BY <3>1, <3>2 DEF Remembered
  <2> QED
    BY <1>1, <1>2, <2>1, <2>2, <2>3 DEF Remembered, Asking
<1> QED
  BY <1>3, <1>4

LEMMA SaveDeclinedRemembered ==
  ASSUME Remembered, Capped', SaveDeclined
  PROVE  Remembered'
<1>1. /\ pc = "saveDeclined" /\ req.wide \in Lists /\ req.wide # None /\ req.wide = lastRefused
      /\ refusedFor[req.wide] = 0
      /\ pc' = "ask" /\ req' = req
      /\ UNCHANGED <<widens, configured, held, refusedFor, lastRefused>>
  BY ListsNotNone DEF SaveDeclined, Remembered, Capped, Asking, Goto
<1>2. RefusalKeptADay'
  BY <1>1 DEF RefusalKeptADay
<1>3. CASE declined' = [list |-> req.wide, age |-> 0] /\ UNCHANGED faults
  <2>1. declined'.list = req.wide /\ declined'.age = 0
    BY <1>3
  <2>2. declined' # None => refusedFor'[declined'.list] <= declined'.age
    BY <1>1, <2>1
  <2>3. OnRecord'
    <3>1. declined' \in Refusal
      BY <1>1, <1>3, WideningAssumption DEF Refusal
    <3> QED
      BY <1>1, <2>1, <3>1, NoneAssumption DEF OnRecord
  <2> QED
    BY <1>1, <1>2, <2>2, <2>3 DEF Remembered, Asking
<1>4. CASE Fault /\ UNCHANGED declined
  <2>1. faults' # 0
    BY <1>4 DEF Fault, Remembered, Capped, TypeOK
  <2> QED
    BY <1>1, <1>2, <1>4, <2>1 DEF Remembered, Asking
<1> QED
  BY <1>3, <1>4 DEF SaveDeclined

\* A step that leads away from asking for a list, and leaves the memory alone.
LEMMA AwayRemembered ==
  ASSUME Remembered, Capped', pc # "saveDeclined",
         pc' \in {"idle", "keepUpstream", "saveGrant"},
         UNCHANGED <<configured, declined, refusedFor, lastRefused>>,
         faults' = faults \/ faults' # 0
  PROVE  Remembered'
BY DEF Remembered, OnRecord, Asking, RefusalKeptADay

LEMMA TickRemembered ==
  ASSUME Remembered, Capped', Tick
  PROVE  Remembered'
<1>1. /\ pc = "idle" /\ pc' = "idle" /\ declined' = Aged(declined)
      /\ refusedFor' = [l \in Lists |->
                          IF refusedFor[l] > Day THEN Day + 1 ELSE refusedFor[l] + 1]
      /\ UNCHANGED <<lastRefused, faults>>
  BY DEF Tick
<1>2. \A l \in Lists : refusedFor[l] \in Ages
  BY DEF Remembered, Capped, TypeOK
<1>3. declined # None =>
        /\ declined \in Refusal /\ declined.list \in Lists /\ declined.age \in 0..Day
        /\ refusedFor[declined.list] <= declined.age
  BY DEF Remembered, Capped, TypeOK, Refusal
<1>4. declined' # None =>
        /\ declined # None /\ declined.age # Day
        /\ declined'.list = declined.list /\ declined'.age = declined.age + 1
  BY <1>1, <1>3 DEF Aged, Refusal
<1>5. declined' # None => refusedFor'[declined'.list] <= declined'.age
  BY <1>1, <1>2, <1>3, <1>4, WideningAssumption DEF Ages
<1>6. faults' = 0 /\ lastRefused' # None => OnRecord'
  <2> SUFFICES ASSUME faults' = 0, lastRefused' # None PROVE OnRecord'
    OBVIOUS
  <2>1. OnRecord /\ lastRefused \in Lists /\ lastRefused' = lastRefused
    BY <1>1 DEF Remembered, Capped, TypeOK
  <2>2. CASE refusedFor[lastRefused] > Day
    <3>1. refusedFor'[lastRefused] = Day + 1
      BY <1>1, <2>1, <2>2
    <3> QED
      BY <2>1, <3>1, WideningAssumption DEF OnRecord
  <2>3. CASE declined # None /\ declined.list = lastRefused
             /\ declined.age = refusedFor[lastRefused]
    <3>1. refusedFor'[lastRefused] = declined.age + 1
      BY <1>1, <1>3, <2>1, <2>3, WideningAssumption
    <3>2. CASE declined.age = Day
      BY <2>1, <3>1, <3>2, WideningAssumption DEF OnRecord
    <3>3. CASE declined.age # Day
      <4>1. declined' = [declined EXCEPT !.age = @ + 1]
        BY <1>1, <2>3, <3>3 DEF Aged
      <4>2. declined'.list = lastRefused /\ declined'.age = declined.age + 1
        BY <1>3, <2>3, <4>1 DEF Refusal
      <4>3. declined' # None
        <5>1. declined' \in Refusal
          BY <1>3, <2>3, <3>3, <4>1, WideningAssumption DEF Refusal
        <5> QED
          BY <5>1, NoneAssumption
      <4> QED
        BY <2>1, <3>1, <4>2, <4>3 DEF OnRecord
    <3> QED
      BY <3>2, <3>3
  <2> QED
    BY <2>1, <2>2, <2>3 DEF OnRecord
<1> QED
  BY <1>1, <1>5, <1>6 DEF Remembered, Asking, RefusalKeptADay

LEMMA NextRemembered == Remembered /\ [Next]_vars => Remembered'
<1> SUFFICES ASSUME Remembered, [Next]_vars PROVE Remembered'
  OBVIOUS
<1>1. Capped'
  BY NextCapped DEF Remembered
<1>2. CASE \E requested \in SUBSET Scopes : SignIn(requested) \/ Refresh(requested)
  BY <1>1, <1>2, StartRemembered
<1>3. CASE Continue
  <2>1. CASE WideGranted \/ Granted
    <3>1. pc # "saveDeclined" /\ pc' = "keepUpstream"
          /\ UNCHANGED <<configured, declined, refusedFor, lastRefused, faults>>
      BY <2>1 DEF WideGranted, Granted, Answered, Goto, store, ghosts
    <3> QED
      BY <1>1, <3>1, AwayRemembered
  <2>2. CASE AskFails \/ KeepUpstream \/ SaveGrant
    <3>1. /\ pc # "saveDeclined" /\ pc' \in {"idle", "saveGrant"}
          /\ UNCHANGED <<configured, declined, refusedFor, lastRefused>>
          /\ faults' = faults \/ faults' # 0
      BY <2>2 DEF AskFails, KeepUpstream, SaveGrant, Fault, End, Goto, store, ghosts,
                  Remembered, Capped, TypeOK
    <3> QED
      BY <1>1, <3>1, AwayRemembered
  <2> QED
    BY <1>1, <1>3, <2>1, <2>2, ReadDeclinedRemembered, WideRefusedRemembered,
       SaveDeclinedRemembered DEF Continue
<1>4. CASE Tick
  BY <1>1, <1>4, TickRemembered
<1>5. CASE \E list \in Lists : Release(list)
  <2>1. pc = "idle" /\ UNCHANGED <<pc, declined, refusedFor, lastRefused, faults>>
    BY <1>5 DEF Release, store
  <2> QED
    BY <1>1, <2>1 DEF Remembered, OnRecord, Asking, RefusalKeptADay
<1>6. CASE (\E scope \in Scopes : Consent(scope)) \/ UNCHANGED vars
  <2>1. UNCHANGED <<widens, configured, pc, req, held, declined, refusedFor, lastRefused, faults>>
    BY <1>6 DEF Consent, vars, store, ghosts
  <2> QED
    BY <1>1, <2>1 DEF Remembered, OnRecord, Asking, RefusalKeptADay
<1> QED
  BY <1>2, <1>3, <1>4, <1>5, <1>6 DEF Next

(* While the store works, a list the provider refused for good is not asked for again within  *)
(* the day unless it refused another since; and no refresh that names no scope leaves out a   *)
(* list the grant lacks unless the provider refused that list within the day                  *)
(* (grants.ts:220-250): for any lists, releases, consents and length of the day.              *)
THEOREM RefusalLasts == Spec => []RefusalKeptADay
<1>1. Remembered => RefusalKeptADay
  BY DEF Remembered
<1> QED
  BY <1>1, InitRemembered, NextRemembered, PTL DEF Spec

=============================================================================
