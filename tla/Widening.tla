------------------------------ MODULE Widening ------------------------------
(***************************************************************************)
(* What one sign-in is granted, from its consent to its last refresh: the  *)
(* scopes the server asks the provider for, what it keeps of the answers,  *)
(* and the widening of widenScopesOnRefresh                                *)
(* (src/src/node/oauth/grants.ts over scopes.ts and records.ts).           *)
(*                                                                         *)
(* A sign-in has one refresh token (Grants), so its refreshes follow one   *)
(* another; what goes on meanwhile is that scopes are added to the         *)
(* server's list, that the user consents to more, and that days pass.      *)
(* This is what happens between Grants' ask and its saved tokens; the      *)
(* refresh token itself, revocations and lapsing are left to that module.  *)
(***************************************************************************)
EXTENDS Naturals, FiniteSets

CONSTANTS
  Scopes,
  Always,       \* the scopes kept whatever a client asks for: openid, offline_access
  Lists,        \* what settings.scopes may be, from one release of the server to the next
  Day,          \* how many ticks a refused widening is remembered for
  MaxReleases,  \* bound: changes of settings.scopes
  MaxFaults,    \* bound: failed store operations
  None

ASSUME WideningAssumption ==
  /\ Always \subseteq Scopes
  /\ Lists \subseteq SUBSET Scopes /\ {} \notin Lists
  /\ {Day, MaxReleases, MaxFaults} \subseteq Nat

VARIABLES
  widens,       \* settings.widenScopesOnRefresh
  configured,   \* settings.scopes of the process that serves the next request
  pc,           \* what the refresh awaits
  req,          \* its locals
  kept,         \* store: the scope of the provider's tokens; empty before the sign-in
  held,         \* store: the scope of the refresh token's grant
  declined,     \* store: the list the provider last refused to widen to, and its age
  reports,      \* external: whether the provider reports a scope that is as it was asked
  consented,    \* external: what the user has consented to at the provider
  carried,      \* external: what the provider's refresh token stands for
  allowed,      \* history: what the user granted this sign-in, or the server widened it to
  refusedFor,   \* history: ticks since the provider last refused each list for good
  lastRefused,  \* history: the list it refused last
  releases,     \* history: how often settings.scopes changed
  faults        \* history: how many store operations failed

store    == <<kept, held, declined>>
provider == <<reports, consented, carried>>
ghosts   == <<allowed, refusedFor, lastRefused, releases, faults>>
vars     == <<widens, configured, pc, req, store, provider, ghosts>>

Labels  == {"idle", "readDeclined", "askWide", "saveDeclined", "ask", "keepUpstream",
            "saveGrant"}
Asked   == {None} \cup SUBSET Scopes
Locals  == [scope: Asked, wide: Asked, fresh: SUBSET Scopes, unscoped: BOOLEAN]
Ages    == 0..(Day + 1)
Refusal == [list: Lists, age: 0..Day]

ASSUME NoneAssumption == None \notin Refusal /\ \A scopes \in SUBSET Scopes : None # scopes

NoLocals == [scope |-> None, wide |-> None, fresh |-> {}, unscoped |-> FALSE]

Init ==
  /\ widens \in BOOLEAN
  /\ configured \in Lists
  /\ pc = "idle"
  /\ req = NoLocals
  /\ kept = {} /\ held = {}
  /\ declined = None
  /\ reports \in BOOLEAN
  /\ consented \in SUBSET Scopes
  /\ carried = {}
  /\ allowed = {}
  /\ refusedFor = [l \in Lists |-> Day + 1]
  /\ lastRefused = None
  /\ releases = 0 /\ faults = 0

-----------------------------------------------------------------------------
(* Which scopes may be asked for.                                          *)

\* None when nothing that is asked for may be; else what may be, with what is always kept.
NarrowScope(requested, may) ==
  IF requested \cap may = {} THEN None ELSE may \cap (requested \cup Always)

RefreshCap_WholeList(granted) == granted \cup configured

RefreshCap(granted) == granted \cup (configured \cap Always)

\* The whole list, when the grant lacks any of it that is not always kept.
WidenedScope(granted) ==
  IF widens /\ ~(configured \ Always \subseteq granted) THEN configured ELSE None

-----------------------------------------------------------------------------
Goto(label, locals) == pc' = label /\ req' = locals

End == Goto("idle", NoLocals)

Fault == faults < MaxFaults /\ faults' = faults + 1

\* What the provider says it granted: always, or only when it is not what was asked for; the
\* scopes of Always are often left out.
Reported(granted, asked) ==
  IF ~reports /\ granted = asked THEN {{}} ELSE {granted, granted \ Always} \ {{}}

\* authorize narrows what the client asked for, the user consents to some of it, and the
\* callback keeps what the provider reports, or what was asked for when it reports nothing.
SignIn(requested) ==
  /\ allowed = {}
  /\ LET narrowed == NarrowScope(requested, configured)
         asked == IF narrowed = None THEN configured ELSE narrowed
     IN \E granted \in (SUBSET asked) \ {{}} : \E reported \in Reported(granted, asked) :
          LET tokens == IF reported = {} THEN asked ELSE reported IN
          /\ consented' = consented \cup granted
          /\ carried' = granted
          /\ allowed' = granted
          /\ kept' = tokens
          /\ held' = tokens
  /\ UNCHANGED <<widens, configured, pc, req, declined, reports, refusedFor, lastRefused,
                 releases, faults>>

\* refresh up to rotate's call to the provider.
Refresh(requested) ==
  /\ pc = "idle"
  /\ allowed # {}
  /\ LET wide == IF requested = {} THEN WidenedScope(held) ELSE None
     IN Goto(IF wide = None THEN "ask" ELSE "readDeclined",
             [NoLocals EXCEPT !.scope = NarrowScope(requested, RefreshCap(held)),
                              !.wide = wide, !.unscoped = requested = {}])
  /\ UNCHANGED <<widens, configured, store, provider, ghosts>>

RefusedBefore(wide) == declined # None /\ declined.list = wide

\* worthAsking.  A list that cannot be read is asked for.
ReadDeclined ==
  /\ pc = "readDeclined"
  /\ \/ /\ RefusedBefore(req.wide)
        /\ Goto("ask", [req EXCEPT !.wide = None])
        /\ UNCHANGED faults
     \/ /\ ~RefusedBefore(req.wide)
        /\ Goto("askWide", req)
        /\ UNCHANGED faults
     \/ /\ Fault
        /\ Goto("askWide", req)
  /\ UNCHANGED <<widens, configured, store, provider, allowed, refusedFor, lastRefused, releases>>

Merged_AsAnswered(fresh) == fresh

\* A provider that leaves scope out of a refresh keeps what it granted.
Merged(fresh) == IF fresh = {} THEN kept ELSE fresh

Answered(granted, asked) ==
  \E reported \in Reported(granted, asked) :
    Goto("keepUpstream", [req EXCEPT !.fresh = Merged(reported)])

\* The provider grants the whole list, or what of it the user consented to.
WideGranted ==
  /\ pc = "askWide"
  /\ req.wide \cap consented # {}
  /\ Answered(req.wide \cap consented, req.wide)
  /\ carried' = carried \cup (req.wide \cap consented)
  /\ allowed' = allowed \cup (req.wide \cap consented)
  /\ UNCHANGED <<widens, configured, store, reports, consented, refusedFor, lastRefused, releases,
                 faults>>

AfterRefusal_Transient(transient) == "saveDeclined"

\* A transient refusal is not remembered.
AfterRefusal(transient) == IF transient THEN "ask" ELSE "saveDeclined"

\* ProviderRejected: for good while the user has not consented, or with a transient code.
WideRefused(transient) ==
  /\ pc = "askWide"
  /\ transient \/ ~(req.wide \subseteq consented)
  /\ Goto(AfterRefusal(transient), req)
  /\ IF transient
     THEN UNCHANGED <<refusedFor, lastRefused>>
     ELSE /\ refusedFor' = [refusedFor EXCEPT ![req.wide] = 0]
          /\ lastRefused' = req.wide
  /\ UNCHANGED <<widens, configured, store, provider, allowed, releases, faults>>

\* rememberDeclined, which never fails the refresh.
SaveDeclined ==
  /\ pc = "saveDeclined"
  /\ \/ declined' = [list |-> req.wide, age |-> 0] /\ UNCHANGED faults
     \/ Fault /\ UNCHANGED declined
  /\ Goto("ask", req)
  /\ UNCHANGED <<widens, configured, kept, held, provider, allowed, refusedFor, lastRefused, releases>>

\* As without widening: what the client asked for, or what the provider's token stands for.
Granted ==
  /\ pc = "ask"
  /\ LET granted == IF req.scope = None THEN carried ELSE req.scope \cap consented
     IN granted # {} /\ Answered(granted, IF req.scope = None THEN carried ELSE req.scope)
  /\ UNCHANGED <<widens, configured, store, provider, ghosts>>

\* The provider refuses, or does not answer either way: the refresh token goes back.
AskFails ==
  /\ pc \in {"ask", "askWide"}
  /\ End
  /\ UNCHANGED <<widens, configured, store, provider, ghosts>>

KeepUpstream ==
  /\ pc = "keepUpstream"
  /\ \/ kept' = req.fresh /\ Goto("saveGrant", req) /\ UNCHANGED faults
     \/ Fault /\ End /\ UNCHANGED kept
  /\ UNCHANGED <<widens, configured, held, declined, provider, allowed, refusedFor, lastRefused,
                 releases>>

\* A grant that cannot be saved puts the old one back, with its scope.
SaveGrant ==
  /\ pc = "saveGrant"
  /\ \/ held' = req.fresh /\ UNCHANGED faults
     \/ Fault /\ UNCHANGED held
  /\ End
  /\ UNCHANGED <<widens, configured, kept, declined, provider, allowed, refusedFor, lastRefused,
                 releases>>

-----------------------------------------------------------------------------
(* What happens meanwhile.                                                 *)

\* Another release of the server, or another instance of it, serves the next request.  A refresh
\* reads the list as it begins, so a release during one is one after it.
Release(list) ==
  /\ pc = "idle"
  /\ releases < MaxReleases
  /\ configured' = list
  /\ releases' = releases + 1
  /\ UNCHANGED <<widens, pc, req, store, provider, allowed, refusedFor, lastRefused, faults>>

\* External: the user, or their administrator, consents to more.
Consent(scope) ==
  /\ scope \notin consented
  /\ consented' = consented \cup {scope}
  /\ UNCHANGED <<widens, configured, pc, req, store, reports, carried, ghosts>>

Aged_Not(refusal) == refusal
\* An entry lapses when its day is over.
Aged(refusal) ==
  IF refusal = None \/ refusal.age = Day THEN None ELSE [refusal EXCEPT !.age = @ + 1]

\* Time passes while no refresh is under way: a refresh takes no tick.
Tick ==
  /\ pc = "idle"
  /\ declined' = Aged(declined)
  /\ refusedFor' = [l \in Lists |-> IF refusedFor[l] > Day THEN Day + 1 ELSE refusedFor[l] + 1]
  /\ UNCHANGED <<widens, configured, pc, req, kept, held, provider, allowed, lastRefused, releases,
                 faults>>

-----------------------------------------------------------------------------
Continue ==
  \/ ReadDeclined \/ WideGranted \/ (\E transient \in BOOLEAN : WideRefused(transient))
  \/ SaveDeclined \/ Granted \/ AskFails \/ KeepUpstream \/ SaveGrant

Next ==
  \/ \E requested \in SUBSET Scopes : SignIn(requested) \/ Refresh(requested)
  \/ Continue
  \/ \E list \in Lists : Release(list)
  \/ \E scope \in Scopes : Consent(scope)
  \/ Tick

Spec == Init /\ [][Next]_vars

\* A refresh goes on, clients refresh without naming a scope, days pass, and a provider that
\* can grant what it is asked for does not fail for ever.
Fairness ==
  /\ WF_vars(Continue)
  /\ SF_vars(Refresh({}))
  /\ SF_vars(Tick)
  /\ SF_vars(WideGranted)

FairSpec == Spec /\ Fairness

-----------------------------------------------------------------------------
TypeOK ==
  /\ widens \in BOOLEAN /\ reports \in BOOLEAN
  /\ configured \in Lists
  /\ pc \in Labels
  /\ req \in Locals
  /\ kept \subseteq Scopes /\ held \subseteq Scopes
  /\ allowed # {} => kept # {} /\ held # {}
  /\ declined \in {None} \cup Refusal
  /\ consented \subseteq Scopes /\ carried \subseteq Scopes
  /\ allowed \subseteq Scopes
  /\ refusedFor \in [Lists -> Ages]
  /\ lastRefused \in {None} \cup Lists
  /\ releases \in Nat /\ faults \in Nat

(* A sign-in holds nothing but what its user granted it and what the server itself widened it  *)
(* to: a client's refreshes, with whatever scopes they name, narrow and never add, although   *)
(* the user may have consented to more elsewhere (scopes.ts:2, README.md:323).                *)
ClientNeverAdds == kept \cup held \subseteq allowed \cup Always

(* A refusal is remembered for what was refused, and for a day.  While the store works, a list *)
(* the provider refused for good is not asked for again for a day, unless it refused another  *)
(* since; and a refresh that names no scope asks for the whole list whenever its grant lacks  *)
(* some of it, so that no transient refusal, no refusal of another list and no lapsed one     *)
(* keeps a scope from a user who consented to it (grants.ts:220-250, README.md:324).          *)
RefusalKeptADay ==
  /\ faults = 0 /\ pc = "askWide" /\ req.wide = lastRefused => refusedFor[req.wide] > Day
  /\ (/\ widens /\ pc = "ask" /\ req.unscoped /\ req.wide = None
      /\ ~(configured \ Always \subseteq held))
        => refusedFor[configured] <= Day

(* With widening on, a provider that reports what it grants, and the user's consent, the scopes *)
(* added to the list keep reaching the sign-in (grants.ts:11, README.md:324, "a grant widens    *)
(* within a day of consent being given").                                                       *)
WideningLands ==
  (widens /\ reports /\ <>[](allowed # {} /\ configured \subseteq consented))
     => []<>(configured \ Always \subseteq held)

=============================================================================
