--------------------------- MODULE BackendProofs ---------------------------
(***************************************************************************)
(* What the SDK backend guarantees for any number of exchanges and of      *)
(* overlapping calls to start and stop: tools run with the rights they     *)
(* need, the handler that is served is open whenever no stop is under way, *)
(* and, while calls do not overlap, no listener is leaked.                 *)
(***************************************************************************)
EXTENDS Backend, TLAPS

CallRecords ==
  [step: Steps, closing: Listeners \cup {None}, asked: Endpoints \cup {None}]

\* The types of what the exchanges own, of what starts and stops own, and of the counters.
ExchangeTypes ==
  /\ pc \in [Exchanges -> Labels]
  /\ session \in [Exchanges -> SUBSET Needs]
  /\ at \in [Exchanges -> 0..made]
  /\ bound \in [Exchanges -> {None} \cup SUBSET Needs]
  /\ answer \in [Exchanges -> Answers \cup {None}]
  /\ changed \subseteq Exchanges

ServingTypes ==
  /\ config \in [node: BOOLEAN, auth: BOOLEAN]
  /\ handler \in 1..made /\ made \in Nat
  /\ json \in BOOLEAN
  /\ endpoint \in Endpoints
  /\ listener \in Listeners \cup {None}
  /\ state \in {"running", "stopped", "error"}
  /\ call \in [Calls -> CallRecords]
  /\ closed \subseteq 1..made
  /\ open \subseteq 1..opened /\ opened \in Nat
  /\ stdioRights \in SUBSET Needs
  /\ overlapped \in BOOLEAN
  /\ calls \in 0..MaxCalls

RegistryTypes == tool \in {None} \cup SUBSET Needs /\ changes \in 0..MaxChanges

LEMMA TypeParts == TypeOK <=> ExchangeTypes /\ ServingTypes /\ RegistryTypes
  BY DEF TypeOK, ExchangeTypes, ServingTypes, RegistryTypes, CallRecords

LEMMA InitTypes == Init => TypeOK
<1> SUFFICES ASSUME Init PROVE TypeOK
  OBVIOUS
<1>1. ExchangeTypes
  BY DEF Init, ExchangeTypes, Labels, Needs
<1>2. NoCall \in CallRecords
  BY DEF NoCall, CallAt, CallRecords, Steps
<1>3. ServingTypes
  <2>1. calls \in 0..MaxCalls
    BY BackendAssumption DEF Init
  <2>2. call \in [Calls -> CallRecords]
    BY <1>2 DEF Init
  <2>3. handler \in 1..made /\ made \in Nat /\ closed \subseteq 1..made
        /\ open \subseteq 1..opened /\ opened \in Nat
    BY DEF Init
  <2> QED
    BY <2>1, <2>2, <2>3, BackendAssumption DEF Init, ServingTypes
<1>4. RegistryTypes
  BY BackendAssumption DEF Init, RegistryTypes
<1> QED
  BY <1>1, <1>3, <1>4, TypeParts

-----------------------------------------------------------------------------
(* The exchanges.                                                          *)

\* Until its scope check an exchange has no handler and no answer; from its lookup on it has
\* what the tool it resolved needs; between the two it may lack scopes only when the registry
\* changed.
RightsHeld(e) ==
  /\ pc[e] \in {"idle", "authenticate", "readBody"} => at[e] = 0 /\ answer[e] = None
  /\ pc[e] \in {"validate", "execute"} => bound[e] \subseteq session[e]
  /\ pc[e] = "call" /\ at[e] # 0 /\ e \notin changed => ~Refused(session[e])
  /\ answer[e] = "needsPermission" /\ at[e] # 0 => e \in changed

ExchangeInv == TypeOK /\ \A e \in Exchanges : RightsHeld(e)

LEMMA InitExchanges == Init => ExchangeInv
  BY InitTypes DEF Init, ExchangeInv, RightsHeld, Refused

\* A step of exchange e touches nothing but what is kept of e.
Others(e) ==
  /\ \A f \in Exchanges \ {e} :
       /\ pc'[f] = pc[f] /\ session'[f] = session[f] /\ at'[f] = at[f]
       /\ bound'[f] = bound[f] /\ answer'[f] = answer[f]
  /\ UNCHANGED <<config, tool, served, listened, call, changed, counts, changes>>

LEMMA OneExchange ==
  ASSUME ExchangeInv, NEW e \in Exchanges, Others(e), ExchangeTypes', RightsHeld(e)'
  PROVE  ExchangeInv'
<1>1. ServingTypes' /\ RegistryTypes'
  BY TypeParts
  DEF ExchangeInv, Others, ServingTypes, RegistryTypes, served, listened, counts
<1>2. \A f \in Exchanges \ {e} : RightsHeld(f)'
  BY DEF ExchangeInv, Others, RightsHeld, Refused, Visible,
     Lacking, MissingScopes, served
<1>3. TypeOK'
  <2>1. TypeOK' <=> ExchangeTypes' /\ ServingTypes' /\ RegistryTypes'
    BY TypeParts, PTL
  <2> QED
    BY <1>1, <2>1
<1> QED
  BY <1>2, <1>3 DEF ExchangeInv

LEMMA Hands ==
  ASSUME ExchangeInv, NEW e \in Exchanges, Hand(e), ~Refused(session'[e]), answer[e] = None,
         session' \in [Exchanges -> SUBSET Needs],
         \A f \in Exchanges \ {e} : session'[f] = session[f],
         UNCHANGED <<config, tool, served, listened, call, bound, changed, counts, changes>>
  PROVE  ExchangeInv'
<1>1. ExchangeTypes /\ ServingTypes
  BY TypeParts DEF ExchangeInv
<1>2. /\ at'[e] = handler /\ handler \in 1..made /\ handler # 0
      /\ at' \in [Exchanges -> 0..made] /\ \A f \in Exchanges \ {e} : at'[f] = at[f]
  BY <1>1 DEF Hand, ExchangeTypes, ServingTypes
<1>3. /\ pc' \in [Exchanges -> Labels] /\ answer' \in [Exchanges -> Answers \cup {None}]
      /\ \A f \in Exchanges \ {e} : pc'[f] = pc[f] /\ answer'[f] = answer[f]
      /\ \/ handler \in closed /\ pc'[e] = "done" /\ answer'[e] = "error"
         \/ handler \notin closed /\ pc'[e] = "call" /\ answer'[e] = None
  BY <1>1 DEF Hand, ExchangeTypes, Labels, Answers
<1>4. ExchangeTypes' /\ Others(e)
  BY <1>1, <1>2, <1>3 DEF ExchangeTypes, Others, served
<1>5. RightsHeld(e)'
  BY <1>2, <1>3, NoneAssumption
  DEF RightsHeld, Answers, Refused, Visible, Lacking, MissingScopes, served
<1> QED
  BY <1>4, <1>5, OneExchange

\* A step of exchange e that takes it to `label`, and may answer it.
Moves(e, label) ==
  /\ pc' = [pc EXCEPT ![e] = label]
  /\ UNCHANGED at
  /\ session' \in [Exchanges -> SUBSET Needs]
  /\ \A f \in Exchanges \ {e} : session'[f] = session[f]
  /\ bound' \in [Exchanges -> {None} \cup SUBSET Needs]
  /\ \A f \in Exchanges \ {e} : bound'[f] = bound[f]
  /\ answer' \in [Exchanges -> Answers \cup {None}]
  /\ \A f \in Exchanges \ {e} : answer'[f] = answer[f]
  /\ UNCHANGED <<config, tool, served, listened, call, changed, counts, changes>>

LEMMA MovesKeep ==
  ASSUME ExchangeInv, NEW e \in Exchanges, NEW label \in Labels, Moves(e, label), RightsHeld(e)'
  PROVE  ExchangeInv'
<1>1. ExchangeTypes
  BY TypeParts DEF ExchangeInv
<1>2. ExchangeTypes' /\ Others(e)
  BY <1>1 DEF Moves, ExchangeTypes, Others, served
<1> QED
  BY <1>2, OneExchange

\* A step of e that ends it with an answer.
LEMMA AnswersKeep ==
  ASSUME ExchangeInv, NEW e \in Exchanges, NEW what \in Answers, Answer(e, what),
         what = "needsPermission" /\ at[e] # 0 => e \in changed,
         session' \in [Exchanges -> SUBSET Needs],
         \A f \in Exchanges \ {e} : session'[f] = session[f],
         UNCHANGED <<config, tool, served, listened, call, at, bound, changed, counts, changes>>
  PROVE  ExchangeInv'
<1>1. ExchangeTypes
  BY TypeParts DEF ExchangeInv
<1>2. "done" \in Labels /\ answer' \in [Exchanges -> Answers \cup {None}]
      /\ pc' = [pc EXCEPT ![e] = "done"] /\ pc'[e] = "done"
      /\ answer'[e] = (IF answer[e] = None THEN what ELSE answer[e])
      /\ \A f \in Exchanges \ {e} : answer'[f] = answer[f]
  BY <1>1 DEF Answer, ExchangeTypes, Labels
<1>3. Moves(e, "done")
  BY <1>1, <1>2 DEF Moves, ExchangeTypes
<1>4. RightsHeld(e)'
  BY <1>2 DEF RightsHeld, ExchangeInv
<1> QED
  BY <1>2, <1>3, <1>4, MovesKeep

\* The needs of the tool of the moment that a session lets through are held.
LEMMA PermittedHolds ==
  ASSUME TypeOK, NEW rights \in SUBSET Needs, Visible(rights), Permitted(rights)
  PROVE  tool \in SUBSET Needs /\ tool \subseteq rights
  BY DEF TypeOK, Visible, Permitted, Lacking, MissingScopes, Needs

LEMMA ArriveKeeps ==
  ASSUME ExchangeInv, NEW e \in Exchanges, Arrive(e) \/ ArriveStdio(e)
  PROVE  ExchangeInv'
<1>1. ExchangeTypes /\ ServingTypes /\ RightsHeld(e)
  BY TypeParts DEF ExchangeInv
<1>2. pc[e] = "idle" /\ at[e] = 0 /\ answer[e] = None
  BY <1>1 DEF Arrive, ArriveStdio, RightsHeld
<1>3. CASE Arrive(e) /\ Await(e, "authenticate") /\ UNCHANGED <<session, at>>
  <2>1. Moves(e, "authenticate") /\ "authenticate" \in Labels /\ answer' = answer
    BY <1>1, <1>3 DEF Moves, Await, Arrive, ExchangeTypes, Labels
  <2>2. RightsHeld(e)'
    BY <1>1, <1>2, <2>1 DEF Moves, RightsHeld, ExchangeTypes
  <2> QED
    BY <2>1, <2>2, MovesKeep
<1>4. CASE Arrive(e) /\ session' = [session EXCEPT ![e] = Needs] /\ Hand(e)
  <2>1. /\ session' \in [Exchanges -> SUBSET Needs] /\ session'[e] = Needs
        /\ \A f \in Exchanges \ {e} : session'[f] = session[f]
    BY <1>1, <1>4 DEF ExchangeTypes
  <2>2. ~Refused(session'[e])
    BY <2>1 DEF Refused, Lacking, MissingScopes, Needs
  <2> QED
    BY <1>2, <1>4, <2>1, <2>2, Hands DEF Arrive
<1>5. CASE ArriveStdio(e)
  <2>1. Moves(e, "call") /\ "call" \in Labels /\ answer' = answer /\ at' = at
    BY <1>1, <1>5 DEF Moves, Await, ArriveStdio, ExchangeTypes, ServingTypes, Labels
  <2>2. RightsHeld(e)'
    BY <1>1, <1>2, <2>1, NoneAssumption DEF Moves, RightsHeld, ExchangeTypes, Answers
  <2> QED
    BY <2>1, <2>2, MovesKeep
<1> QED
  BY <1>3, <1>4, <1>5 DEF Arrive

LEMMA AuthenticatedKeeps ==
  ASSUME ExchangeInv, NEW e \in Exchanges, Authenticated(e)
  PROVE  ExchangeInv'
<1>1. ExchangeTypes /\ ServingTypes /\ RightsHeld(e) /\ tool \in {None} \cup SUBSET Needs
  BY TypeParts DEF ExchangeInv, RegistryTypes
<1>2. pc[e] = "authenticate" /\ at[e] = 0 /\ answer[e] = None
  BY <1>1 DEF Authenticated, RightsHeld
<1>3. CASE Answer(e, "401") /\ UNCHANGED <<session, at>>
  <2>1. /\ session' \in [Exchanges -> SUBSET Needs]
        /\ \A f \in Exchanges \ {e} : session'[f] = session[f]
    BY <1>1, <1>3 DEF ExchangeTypes
  <2> QED
    BY <1>3, <2>1, AnswersKeep DEF Authenticated, Answers
<1>4. ASSUME NEW rights \in SUBSET Needs, session' = [session EXCEPT ![e] = rights],
             \/ Await(e, "readBody") /\ UNCHANGED at
             \/ ~(tool # None /\ "scopes" \in tool) /\ Hand(e)
      PROVE  ExchangeInv'
  <2>1. /\ session' \in [Exchanges -> SUBSET Needs] /\ session'[e] = rights
        /\ \A f \in Exchanges \ {e} : session'[f] = session[f]
    BY <1>1, <1>4 DEF ExchangeTypes
  <2>2. CASE Await(e, "readBody") /\ UNCHANGED at
    <3>1. Moves(e, "readBody") /\ "readBody" \in Labels /\ answer' = answer
      BY <1>1, <2>1, <2>2 DEF Moves, Await, Authenticated, ExchangeTypes, Labels
    <3>2. RightsHeld(e)'
      BY <1>1, <1>2, <3>1, NoneAssumption DEF Moves, RightsHeld, ExchangeTypes, Answers
    <3> QED
      BY <3>1, <3>2, MovesKeep
  <2>3. CASE ~(tool # None /\ "scopes" \in tool) /\ Hand(e)
    <3>1. ~Refused(session'[e])
      BY <2>3 DEF Refused, Visible, Lacking, MissingScopes
    <3> QED
      BY <1>2, <2>1, <2>3, <3>1, Hands DEF Authenticated
  <2> QED
    BY <1>4, <2>2, <2>3
<1> QED
  BY <1>3, <1>4 DEF Authenticated, Outcomes

LEMMA ReadBodyKeeps ==
  ASSUME ExchangeInv, NEW e \in Exchanges, ReadBody(e)
  PROVE  ExchangeInv'
<1>1. ExchangeTypes /\ RightsHeld(e)
  BY TypeParts DEF ExchangeInv
<1>2. at[e] = 0 /\ answer[e] = None /\ session' = session
  BY <1>1 DEF ReadBody, RightsHeld
<1>3. /\ session' \in [Exchanges -> SUBSET Needs]
      /\ \A f \in Exchanges \ {e} : session'[f] = session[f]
  BY <1>1, <1>2 DEF ExchangeTypes
<1>4. CASE Refused(session[e])
  BY <1>2, <1>3, <1>4, AnswersKeep DEF ReadBody, Answers
<1>5. CASE ~Refused(session[e])
  BY <1>2, <1>3, <1>5, Hands DEF ReadBody
<1> QED
  BY <1>4, <1>5

LEMMA CallToolKeeps ==
  ASSUME ExchangeInv, NEW e \in Exchanges, CallTool(e)
  PROVE  ExchangeInv'
<1>1. ExchangeTypes /\ RightsHeld(e) /\ TypeOK /\ session[e] \in SUBSET Needs
  BY TypeParts DEF ExchangeInv, ExchangeTypes
<1>2. /\ session' \in [Exchanges -> SUBSET Needs]
      /\ \A f \in Exchanges \ {e} : session'[f] = session[f]
      /\ pc[e] = "call" /\ session' = session
  BY <1>1 DEF ExchangeTypes, CallTool
<1>3. CASE Answer(e, "unknown") /\ UNCHANGED bound
  BY <1>2, <1>3, AnswersKeep DEF CallTool, Answers
<1>4. CASE Visible(session[e]) /\ ~Permitted(session[e]) /\ Answer(e, "needsPermission")
           /\ UNCHANGED bound
  <2>1. Refused(session[e])
    BY <1>4 DEF Refused, Permitted
  <2>2. at[e] # 0 => e \in changed
    BY <1>1, <1>2, <2>1 DEF RightsHeld
  <2> QED
    BY <1>2, <1>4, <2>2, AnswersKeep DEF CallTool, Answers
<1>5. CASE Visible(session[e]) /\ Permitted(session[e]) /\ bound' = [bound EXCEPT ![e] = tool]
           /\ Await(e, "validate")
  <2>1. tool \in SUBSET Needs /\ tool \subseteq session[e]
    BY <1>1, <1>5, PermittedHolds
  <2>2. Moves(e, "validate") /\ "validate" \in Labels /\ answer' = answer /\ bound'[e] = tool
    BY <1>1, <1>2, <1>5, <2>1 DEF Moves, Await, CallTool, ExchangeTypes, Labels
  <2>3. RightsHeld(e)'
    BY <1>1, <1>2, <2>1, <2>2 DEF Moves, RightsHeld, ExchangeTypes, CallTool
  <2> QED
    BY <2>2, <2>3, MovesKeep
<1> QED
  BY <1>3, <1>4, <1>5 DEF CallTool

LEMMA RunKeeps ==
  ASSUME ExchangeInv, NEW e \in Exchanges, Validated(e) \/ Executed(e)
  PROVE  ExchangeInv'
<1>1. ExchangeTypes /\ RightsHeld(e)
  BY TypeParts DEF ExchangeInv
<1>2. /\ session' \in [Exchanges -> SUBSET Needs]
      /\ \A f \in Exchanges \ {e} : session'[f] = session[f]
      /\ UNCHANGED <<config, tool, served, listened, call, session, at, bound, changed, counts, changes>>
  BY <1>1 DEF ExchangeTypes, Validated, Executed
<1>3. ASSUME NEW what \in {"error", "result"}, Answer(e, what) PROVE ExchangeInv'
  BY <1>2, <1>3, AnswersKeep DEF Answers
<1>4. CASE pc[e] = "validate" /\ Await(e, "execute")
  <2>1. /\ pc' = [pc EXCEPT ![e] = "execute"] /\ pc'[e] = "execute" /\ "execute" \in Labels
        /\ answer' = answer /\ session' = session /\ bound' = bound /\ at' = at /\ changed' = changed
    BY <1>1, <1>2, <1>4 DEF Await, ExchangeTypes, Labels
  <2>2. Moves(e, "execute")
    BY <1>1, <1>2, <2>1 DEF Moves, ExchangeTypes
  <2>3. RightsHeld(e)'
    BY <1>1, <1>4, <2>1 DEF RightsHeld
  <2> QED
    BY <2>1, <2>2, <2>3, MovesKeep
<1> QED
  BY <1>3, <1>4 DEF Validated, Executed

LEMMA SetToolKeeps ==
  ASSUME ExchangeInv, NEW needs \in {None} \cup SUBSET Needs, SetTool(needs)
  PROVE  ExchangeInv'
<1>1. ExchangeTypes /\ ServingTypes /\ RegistryTypes
  BY TypeParts DEF ExchangeInv
<1>2. RegistryTypes'
  BY <1>1, BackendAssumption DEF SetTool, RegistryTypes
<1>3. ExchangeTypes' /\ ServingTypes'
  BY <1>1 DEF SetTool, ExchangeTypes, ServingTypes, served, listened, counts
<1>4. TypeOK'
  <2>1. TypeOK' <=> ExchangeTypes' /\ ServingTypes' /\ RegistryTypes'
    BY TypeParts, PTL
  <2> QED
    BY <1>2, <1>3, <2>1
<1>5. \A e \in Exchanges : RightsHeld(e)'
  BY DEF ExchangeInv, SetTool, RightsHeld, served
<1> QED
  BY <1>4, <1>5 DEF ExchangeInv

-----------------------------------------------------------------------------
(* Starts and stops.                                                       *)

StopSteps == {"closeHandler", "closeListener", "stopped"}

\* A stop that will renew the handler, however the others end.
Renews(c) ==
  \/ call[c].step \in {"closeHandler", "stopped"}
  \/ /\ call[c].step = "closeListener"
     /\ call[c].closing # None
     /\ call[c].closing.id \in open \/ call[c].closing.kind = "stdio"

\* A closed handler has a stop that renews it; a listener of the moment whose port is closed has
\* one that forgets it.
Answering ==
  /\ handler \in closed => \E c \in Calls : Renews(c)
  /\ listener # None /\ listener.id \notin open => \E c \in Calls : call[c].step = "stopped"

\* What the one call under way has come to, while calls do not overlap.
CallOK(c) ==
  /\ call[c].step \in {"openHttp", "openStdio"} =>
       listener = None /\ call[c].asked \in {None, endpoint}
  /\ call[c].step = "closeListener" => call[c].closing = listener /\ listener # None
  /\ call[c].step = "stopped" => open = {}
  /\ call[c].step \in StopSteps => handler \in closed

\* The one listener that is open is the one of the moment, unless a stop has closed it.
Listening ==
  /\ open = (IF listener = None \/ (\E c \in Calls : call[c].step = "stopped")
             THEN {} ELSE {listener.id})
  /\ listener # None => state = "running"
  /\ listener # None /\ listener.path # None => endpoint = listener.path

OneCall ==
  /\ \A c, d \in UnderWay : c = d
  /\ \A c \in Calls : CallOK(c)
  /\ Listening

\* An idle step is the end of a call.
Stepping == \A c \in Calls : call[c].step = "idle" => Idle(c)

BackendInv == ExchangeInv /\ Answering /\ Stepping /\ (~overlapped => OneCall)

LEMMA InitBackend == Init => BackendInv
<1> SUFFICES ASSUME Init PROVE BackendInv
  OBVIOUS
<1>1. ExchangeInv
  BY InitExchanges
<1>2. Stepping /\ UnderWay = {} /\ \A c \in Calls : call[c].step = "idle"
  BY DEF Init, Stepping, UnderWay, Idle, NoCall, CallAt
<1>3. Answering
  BY DEF Init, Answering
<1>4. OneCall
  BY <1>2 DEF Init, OneCall, CallOK, Listening, StopSteps
<1> QED
  BY <1>1, <1>2, <1>3, <1>4 DEF BackendInv

\* The exchanges' steps change nothing of this.
LEMMA ExchangeStays ==
  ASSUME BackendInv, ExchangeInv', UNCHANGED <<served, listened, call, counts>>
  PROVE  BackendInv'
<1>1. Answering' /\ Stepping'
  BY DEF BackendInv, Answering, Renews, Stepping, Idle, served, listened
<1>2. ~overlapped' => OneCall'
  BY DEF BackendInv, OneCall, UnderWay, Idle, CallOK, Listening, served, listened, counts
<1> QED
  BY <1>1, <1>2 DEF BackendInv

LEMMA ExchangeStep ==
  ASSUME BackendInv,
         \/ \E needs \in {None} \cup SUBSET Needs : SetTool(needs)
         \/ \E e \in Exchanges :
              \/ Arrive(e) \/ Authenticated(e) \/ ReadBody(e) \/ ArriveStdio(e)
              \/ CallTool(e) \/ Validated(e) \/ Executed(e)
  PROVE  BackendInv'
<1>1. ExchangeInv'
  BY SetToolKeeps, ArriveKeeps, AuthenticatedKeeps, ReadBodyKeeps, CallToolKeeps, RunKeeps
  DEF BackendInv
<1>2. UNCHANGED <<served, listened, call, counts>>
  BY DEF SetTool, Arrive, Authenticated, ReadBody, ArriveStdio, CallTool, Validated, Executed
<1> QED
  BY <1>1, <1>2, ExchangeStays

\* A call that is where its step is: the record it awaits with.
LEMMA CallParts ==
  ASSUME BackendInv, NEW c \in Calls
  PROVE  /\ ExchangeTypes /\ ServingTypes /\ RegistryTypes
         /\ call[c] \in CallRecords /\ NoCall \in CallRecords /\ NoCall.step = "idle"
         /\ Idle(c) => call[c].step = "idle" /\ call[c].closing = None
<1>1. NoCall \in CallRecords /\ NoCall.step = "idle" /\ NoCall.closing = None
  BY DEF NoCall, CallAt, CallRecords, Steps
<1>2. ExchangeTypes /\ ServingTypes /\ RegistryTypes
  BY TypeParts DEF BackendInv, ExchangeInv
<1> QED
  BY <1>1, <1>2 DEF ServingTypes, Idle

\* Begin: one call is under way, or they overlap.
LEMMA Begins ==
  ASSUME BackendInv, NEW c \in Calls, NEW step \in Steps, NEW path \in Endpoints \cup {None},
         Begin(c, step, path), step = "idle" => path = None
  PROVE  /\ call' \in [Calls -> CallRecords] /\ calls' \in 0..MaxCalls
         /\ overlapped' \in BOOLEAN
         /\ call'[c].step = step /\ call'[c].asked = path
         /\ \A d \in Calls \ {c} : call'[d] = call[d]
         /\ call[c].step = "idle" /\ (step = "idle" => call' = call)
         /\ ~overlapped' => ~overlapped /\ (\A d \in Calls : Idle(d) /\ call[d].step = "idle")
<1>1. /\ ServingTypes /\ call[c] \in CallRecords /\ Idle(c) /\ call[c].step = "idle"
      /\ \A d \in Calls : Idle(d) => call[d].step = "idle"
  BY CallParts DEF Begin
<1>2. PICK new : new = CallAt(step, path)
  OBVIOUS
<1>3. /\ new \in CallRecords /\ new.step = step /\ new.asked = path
      /\ step = "idle" => new = call[c]
  BY <1>1, <1>2 DEF CallRecords, CallAt, Idle, NoCall
<1>4. call' = [call EXCEPT ![c] = new]
  BY <1>2 DEF Begin
<1>5. /\ call' \in [Calls -> CallRecords] /\ call'[c].step = step /\ call'[c].asked = path
      /\ \A d \in Calls \ {c} : call'[d] = call[d]
      /\ step = "idle" => call' = call
  BY <1>1, <1>3, <1>4 DEF ServingTypes
<1>6. calls' \in 0..MaxCalls
  BY <1>1, BackendAssumption DEF Begin, ServingTypes
<1>7. /\ overlapped' \in BOOLEAN
      /\ ~overlapped' => ~overlapped /\ (\A d \in Calls : Idle(d) /\ call[d].step = "idle")
  BY <1>1 DEF Begin, ServingTypes, UnderWay
<1> QED
  BY <1>1, <1>5, <1>6, <1>7

\* What is left to show of a step that leaves the exchanges and the closed handlers alone.
LEMMA ExchangesRest ==
  ASSUME BackendInv, ServingTypes', made \in 0..made', closed' = closed,
         UNCHANGED <<tool, changes, exchange>>
  PROVE  ExchangeInv'
<1>1. ExchangeTypes /\ RegistryTypes /\ ServingTypes
  BY TypeParts DEF BackendInv, ExchangeInv
<1>2. ExchangeTypes'
  <2>1. at' \in [Exchanges -> 0..made']
    BY <1>1 DEF ExchangeTypes, ServingTypes, exchange
  <2> QED
    BY <1>1, <2>1 DEF ExchangeTypes, exchange
<1>3. RegistryTypes'
  BY <1>1 DEF RegistryTypes
<1>4. TypeOK'
  <2>1. TypeOK' <=> ExchangeTypes' /\ ServingTypes' /\ RegistryTypes'
    BY TypeParts, PTL
  <2> QED
    BY <1>2, <1>3, <2>1
<1>5. \A e \in Exchanges : RightsHeld(e)'
  BY DEF BackendInv, ExchangeInv, RightsHeld, Refused, Visible,
     Lacking, MissingScopes, exchange
<1> QED
  BY <1>4, <1>5 DEF ExchangeInv

LEMMA StartMainKeeps ==
  ASSUME BackendInv, NEW c \in Calls, NEW bare \in BOOLEAN, StartMain(c, bare)
  PROVE  BackendInv'
<1>1. Begin(c, "idle", None) /\ listener = None /\ "idle" \in Steps
      /\ UNCHANGED <<config, tool, served, listener, open, opened, stdioRights, exchange, changes>>
  BY DEF StartMain, MayStart, Steps
<1>2. /\ call' = call /\ calls' \in 0..MaxCalls /\ overlapped' \in BOOLEAN
      /\ ~overlapped' => ~overlapped /\ (\A d \in Calls : Idle(d) /\ call[d].step = "idle")
  BY <1>1, Begins
<1>3. ServingTypes'
  BY <1>1, <1>2, CallParts DEF StartMain, ServingTypes, served
<1>4. ExchangeInv'
  <2>1. made \in 0..made'
    BY <1>1, CallParts DEF ServingTypes, served
  <2> QED
    BY <1>1, <1>3, <2>1, ExchangesRest DEF served
<1>5. Answering' /\ Stepping'
  BY <1>1, <1>2 DEF BackendInv, Answering, Renews, Stepping, Idle, served
<1>6. ~overlapped' => OneCall'
  BY <1>1, <1>2
  DEF BackendInv, OneCall, UnderWay, Idle, CallOK, Listening, served
<1> QED
  BY <1>4, <1>5, <1>6 DEF BackendInv

\* A start while nothing listens: it opens a listener next, in front of the handler of the
\* moment or of a new one.
LEMMA StartOpens ==
  ASSUME BackendInv, NEW c \in Calls, NEW step \in {"openHttp", "openStdio"},
         NEW path \in Endpoints \cup {None}, Begin(c, step, path), path \in {None, endpoint'},
         listener = None, endpoint' \in Endpoints, json' \in BOOLEAN,
         UNCHANGED <<handler, made>> \/ (handler' = made + 1 /\ made' = made + 1),
         UNCHANGED <<config, tool, closed, listened, exchange, changes>>
  PROVE  BackendInv'
<1>1. ServingTypes /\ ExchangeTypes
  BY CallParts
<1>2. /\ call' \in [Calls -> CallRecords] /\ calls' \in 0..MaxCalls /\ overlapped' \in BOOLEAN
      /\ call'[c].step = step /\ call'[c].asked = path /\ call[c].step = "idle"
      /\ \A d \in Calls \ {c} : call'[d] = call[d]
      /\ ~overlapped' => ~overlapped /\ (\A d \in Calls : Idle(d) /\ call[d].step = "idle")
  BY Begins DEF Steps
<1>3. /\ made \in 0..made' /\ handler' \in 1..made' /\ made' \in Nat
      /\ closed' \subseteq 1..made'
      /\ handler' = handler \/ handler' \notin closed
  <2>1. /\ made \in Nat /\ handler \in 1..made /\ made \in 0..made /\ made \in 0..(made + 1)
        /\ made + 1 \in 1..(made + 1) /\ made + 1 \notin 1..made
        /\ 1..made \subseteq 1..(made + 1)
    BY <1>1 DEF ServingTypes
  <2>2. closed' = closed /\ closed \subseteq 1..made
    BY <1>1 DEF ServingTypes
  <2>3. PICK next, upTo : next = made + 1 /\ upTo = 1..(made + 1)
    OBVIOUS
  <2>4. CASE UNCHANGED <<handler, made>>
    BY <2>1, <2>2, <2>4
  <2>5. CASE handler' = next /\ made' = next
    <3>1. /\ next \in upTo /\ next \in Nat /\ 1..made' = upTo /\ made \in 0..made'
          /\ next \notin 1..made /\ 1..made \subseteq upTo
      BY <2>1, <2>3, <2>5
    <3> QED
      BY <2>1, <2>2, <2>5, <3>1, Zenon
  <2> QED
    BY <2>3, <2>4, <2>5
<1>4. ServingTypes'
  BY <1>1, <1>2, <1>3 DEF ServingTypes, listened
<1>5. ExchangeInv'
  BY <1>3, <1>4, ExchangesRest
<1>6. Stepping' /\ \A d \in Calls : Renews(d) => Renews(d)'
  BY <1>2 DEF BackendInv, Stepping, Idle, Renews, listened
<1>7. Answering'
  BY <1>3, <1>6 DEF BackendInv, Answering, listened
<1>8. ASSUME ~overlapped' PROVE OneCall'
  <2>1. UnderWay' \subseteq {c} /\ OneCall
    BY <1>2, <1>8 DEF BackendInv, UnderWay, Idle
  <2>2. \A d \in Calls : CallOK(d)'
    BY <1>2, <1>8 DEF CallOK, StopSteps, listened
  <2>3. Listening'
    BY <1>2, <2>1, <1>8 DEF OneCall, Listening, listened
  <2> QED
    BY <2>1, <2>2, <2>3 DEF OneCall
<1> QED
  BY <1>5, <1>6, <1>7, <1>8 DEF BackendInv

LEMMA StartKeeps ==
  ASSUME BackendInv, NEW c \in Calls,
         \/ \E path \in Endpoints \cup {None}, wantsJson \in BOOLEAN : StartHttp(c, path, wantsJson)
         \/ StartStdio(c)
  PROVE  BackendInv'
<1>1. ServingTypes
  BY CallParts
<1>2. ASSUME NEW path \in Endpoints \cup {None}, NEW wantsJson \in BOOLEAN,
             StartHttp(c, path, wantsJson)
      PROVE  BackendInv'
  <2>1. endpoint' \in Endpoints /\ json' \in BOOLEAN /\ path \in {None, endpoint'}
    BY <1>1, <1>2 DEF StartHttp, EndpointFor, ServingTypes
  <2>2. UNCHANGED <<handler, made>> \/ (handler' = made + 1 /\ made' = made + 1)
    BY <1>2 DEF StartHttp
  <2> QED
    BY <1>2, <2>1, <2>2, StartOpens DEF StartHttp, MayStart
<1>3. CASE StartStdio(c)
  BY <1>1, <1>3, StartOpens DEF StartStdio, MayStart, served, ServingTypes
<1> QED
  BY <1>2, <1>3

\* The open settles.
LEMMA OpenedKeeps ==
  ASSUME BackendInv, NEW c \in Calls, (\E kind \in Kinds : Opened(c, kind)) \/ OpenFails(c)
  PROVE  BackendInv'
<1>1. ServingTypes /\ ExchangeTypes /\ NoCall \in CallRecords /\ NoCall.step = "idle"
  BY CallParts
<1>2. /\ call[c].step \in {"openHttp", "openStdio"} /\ call' = [call EXCEPT ![c] = NoCall]
      /\ UNCHANGED <<config, tool, served, exchange, counts, changes>>
  BY DEF Opened, OpenFails, Kinds
<1>3. /\ call' \in [Calls -> CallRecords] /\ call'[c] = NoCall
      /\ \A d \in Calls \ {c} : call'[d] = call[d]
  BY <1>1, <1>2 DEF ServingTypes
<1>4. \/ /\ state' = "error" /\ UNCHANGED <<listener, open, opened, stdioRights>>
      \/ /\ opened' = opened + 1 /\ open' = open \cup {opened'} /\ state' = "running"
         /\ listener' \in Listeners /\ listener'.id = opened' /\ listener'.path = call[c].asked
         /\ stdioRights' \in SUBSET Needs
  <2>1. ASSUME NEW kind \in Kinds, Opened(c, kind)
        PROVE  /\ opened' = opened + 1 /\ open' = open \cup {opened'} /\ state' = "running"
               /\ listener' \in Listeners /\ listener'.id = opened' /\ listener'.path = call[c].asked
               /\ stdioRights' \in SUBSET Needs
    <3>1. /\ opened' = opened + 1 /\ open' = open \cup {opened'} /\ state' = "running"
          /\ listener' = [id |-> opened', kind |-> kind, path |-> call[c].asked]
          /\ opened' \in Nat /\ call[c].asked \in Endpoints \cup {None}
      BY <1>1, <2>1 DEF Opened, ServingTypes, CallRecords
    <3>2. stdioRights' \in SUBSET Needs
      BY <1>1, <2>1 DEF Opened, ServingTypes, Needs
    <3> QED
      BY <3>1, <3>2 DEF Listeners
  <2> QED
    BY <2>1 DEF OpenFails
<1>5. opened' \in Nat /\ open' \subseteq 1..opened'
  <2>1. /\ opened \in Nat /\ open \subseteq 1..opened /\ opened + 1 \in 1..(opened + 1)
        /\ 1..opened \subseteq 1..(opened + 1)
    BY <1>1 DEF ServingTypes
  <2>2. CASE opened' = opened /\ open' = open
    BY <2>1, <2>2
  <2>3. CASE opened' = opened + 1 /\ open' = open \cup {opened'}
    <3>1. PICK next, upTo : next = opened + 1 /\ upTo = 1..(opened + 1)
      OBVIOUS
    <3>2. /\ opened' = next /\ open' = open \cup {next} /\ next \in upTo /\ next \in Nat
          /\ 1..opened \subseteq upTo /\ 1..opened' = upTo
      BY <2>1, <2>3, <3>1
    <3> QED
      BY <2>1, <3>2, Zenon
  <2> QED
    BY <1>4, <2>2, <2>3
<1>6. ServingTypes'
  BY <1>1, <1>2, <1>3, <1>4, <1>5 DEF ServingTypes, served, counts
<1>7. ExchangeInv'
  <2>1. made \in 0..made' /\ closed' = closed
    BY <1>1, <1>2 DEF ServingTypes, served
  <2> QED
    BY <1>2, <1>6, <2>1, ExchangesRest
<1>8. Stepping' /\ \A d \in Calls : Renews(d) => Renews(d)'
  BY <1>2, <1>3, <1>4 DEF BackendInv, Stepping, Idle, Renews
<1>9. Answering'
  BY <1>1, <1>2, <1>3, <1>4, <1>8 DEF BackendInv, Answering, served
<1>10. ASSUME ~overlapped' PROVE OneCall'
  <2>1. /\ OneCall /\ UnderWay \subseteq {c} /\ UnderWay' = {} /\ listener = None
        /\ call[c].asked \in {None, endpoint}
    BY <1>1, <1>2, <1>3, <1>10
    DEF BackendInv, OneCall, UnderWay, Idle, counts, CallOK
  <2>2. \A d \in Calls : call'[d] = NoCall
    BY <2>1 DEF UnderWay, Idle
  <2>3. open = {} /\ open' = IF listener' = None THEN {} ELSE {listener'.id}
    BY <1>4, <2>1, NoneAssumption DEF OneCall, Listening
  <2>4. Listening'
    BY <1>1, <1>2, <1>4, <2>1, <2>2, <2>3 DEF Listening, served
  <2>5. \A d \in Calls : CallOK(d)'
    BY <1>1, <2>2 DEF CallOK, StopSteps
  <2> QED
    BY <2>1, <2>4, <2>5 DEF OneCall
<1> QED
  BY <1>7, <1>8, <1>9, <1>10 DEF BackendInv

\* A stop closes the handler of the moment and aborts what it was given.
LEMMA StopKeeps ==
  ASSUME BackendInv, NEW c \in Calls, Stop(c)
  PROVE  BackendInv'
<1>1. /\ ServingTypes /\ ExchangeTypes /\ RegistryTypes
      /\ UNCHANGED <<config, tool, handler, json, endpoint, made, listened,
                     pc, session, at, bound, changed, changes>>
      /\ closed' = closed \cup {handler}
  BY CallParts DEF Stop
<1>2. /\ call' \in [Calls -> CallRecords] /\ calls' \in 0..MaxCalls /\ overlapped' \in BOOLEAN
      /\ call'[c].step = "closeHandler" /\ call[c].step = "idle"
      /\ \A d \in Calls \ {c} : call'[d] = call[d]
      /\ ~overlapped' => ~overlapped /\ (\A d \in Calls : Idle(d) /\ call[d].step = "idle")
  BY Begins DEF Stop, Steps
<1>3. ServingTypes' /\ RegistryTypes'
  BY <1>1, <1>2 DEF ServingTypes, RegistryTypes, listened
<1>4. ASSUME NEW e \in Exchanges
      PROVE  /\ answer'[e] \in {answer[e], "aborted"}
             /\ answer'[e] = answer[e] \/ InHandler(e)
  BY <1>1, NoneAssumption DEF Stop, Aborted, InHandler, Answers
<1>5. ExchangeTypes'
  <2>1. answer' \in [Exchanges -> Answers \cup {None}]
    BY <1>1 DEF Stop, Aborted, ExchangeTypes, Answers
  <2> QED
    BY <1>1, <2>1 DEF ExchangeTypes
<1>6. ExchangeInv'
  <2>1. TypeOK'
    <3>1. TypeOK' <=> ExchangeTypes' /\ ServingTypes' /\ RegistryTypes'
      BY TypeParts, PTL
    <3> QED
      BY <1>3, <1>5, <3>1
  <2>2. ASSUME NEW e \in Exchanges PROVE RightsHeld(e)'
    <3>1. RightsHeld(e)
      BY DEF BackendInv, ExchangeInv
    <3> QED
      BY <1>1, <1>4, <3>1 DEF RightsHeld, InHandler, Refused, Visible, Lacking, MissingScopes
  <2> QED
    BY <2>1, <2>2 DEF ExchangeInv
<1>7. Stepping'
  BY <1>2 DEF BackendInv, Stepping, Idle
<1>8. Answering'
  <2>1. Renews(c)'
    BY <1>2 DEF Renews
  <2> QED
    BY <1>1, <1>2, <2>1 DEF BackendInv, Answering, listened
<1>9. ASSUME ~overlapped' PROVE OneCall'
  <2>1. UnderWay' \subseteq {c} /\ OneCall /\ ~overlapped
    BY <1>2, <1>9 DEF BackendInv, UnderWay, Idle
  <2>2. \A d \in Calls : CallOK(d)'
    BY <1>1, <1>2, <1>9 DEF CallOK, StopSteps
  <2>3. Listening'
    BY <1>1, <1>2, <1>9, <2>1 DEF OneCall, Listening, listened
  <2> QED
    BY <2>1, <2>2, <2>3 DEF OneCall
<1> QED
  BY <1>6, <1>7, <1>8, <1>9 DEF BackendInv

LEMMA HandlerClosedKeeps ==
  ASSUME BackendInv, NEW c \in Calls, HandlerClosed(c)
  PROVE  BackendInv'
<1>1. ServingTypes
  BY CallParts
<1>2. PICK new :
        new = [call[c] EXCEPT !.step = IF listener = None THEN "stopped" ELSE "closeListener",
                              !.closing = listener]
  OBVIOUS
<1>3. /\ new \in CallRecords
      /\ listener = None => new.step = "stopped"
      /\ listener # None => new.step = "closeListener" /\ new.closing = listener
  <2>1. call[c] \in CallRecords /\ listener \in Listeners \cup {None}
    BY <1>1 DEF ServingTypes
  <2> QED
    BY <1>2, <2>1 DEF CallRecords, Steps
<1>4. /\ call[c].step = "closeHandler" /\ call' = [call EXCEPT ![c] = new]
      /\ UNCHANGED <<config, tool, served, listened, exchange, counts, changes>>
  BY <1>2 DEF HandlerClosed
<1>5. /\ call' \in [Calls -> CallRecords] /\ call'[c] = new
      /\ \A d \in Calls \ {c} : call'[d] = call[d]
  BY <1>1, <1>3, <1>4 DEF ServingTypes
<1>6. ServingTypes'
  BY <1>1, <1>4, <1>5 DEF ServingTypes, served, listened, counts
<1>7. ExchangeInv'
  <2>1. made \in 0..made' /\ closed' = closed
    BY <1>1, <1>4 DEF ServingTypes, served
  <2> QED
    BY <1>4, <1>6, <2>1, ExchangesRest
<1>8. Stepping'
  BY <1>3, <1>5 DEF BackendInv, Stepping, Idle
<1>9. Answering'
  <2>1. \A d \in Calls : call[d].step = "stopped" => call'[d].step = "stopped"
    BY <1>4, <1>5
  <2>2. Renews(c)' \/ \E d \in Calls : call'[d].step = "stopped"
    <3>1. CASE listener = None
      BY <1>3, <1>5, <3>1
    <3>2. CASE listener # None /\ listener.id \in open
      BY <1>3, <1>4, <1>5, <3>2 DEF Renews, listened
    <3>3. CASE listener # None /\ listener.id \notin open
      BY <2>1, <3>3 DEF BackendInv, Answering
    <3> QED
      BY <3>1, <3>2, <3>3
  <2>3. \E d \in Calls : Renews(d)'
    BY <2>2 DEF Renews
  <2> QED
    BY <1>4, <2>1, <2>3 DEF BackendInv, Answering, served, listened
<1>10. ASSUME ~overlapped' PROVE OneCall'
  <2>1. OneCall /\ UnderWay \subseteq {c} /\ UnderWay' \subseteq {c}
    <3>1. OneCall /\ c \in UnderWay
      BY <1>4, <1>10 DEF BackendInv, counts, UnderWay, Idle, NoCall, CallAt
    <3> QED
      BY <1>5, <3>1 DEF OneCall, UnderWay, Idle
  <2>2. \A d \in Calls : d # c => call[d].step = "idle" /\ call'[d].step = "idle"
    BY <1>5, <2>1 DEF UnderWay, Idle, NoCall, CallAt
  <2>3. handler \in closed /\ CallOK(c)
    BY <1>4, <2>1 DEF OneCall, CallOK, StopSteps
  <2>4. open = IF listener = None THEN {} ELSE {listener.id}
    BY <1>4, <2>1, <2>2 DEF OneCall, Listening
  <2>5. \A d \in Calls : CallOK(d)'
    BY <1>3, <1>4, <1>5, <2>2, <2>3, <2>4 DEF CallOK, StopSteps, served, listened
  <2>6. Listening'
    BY <1>3, <1>4, <1>5, <2>1, <2>2, <2>4 DEF OneCall, Listening, served, listened
  <2> QED
    BY <2>1, <2>5, <2>6 DEF OneCall
<1> QED
  BY <1>7, <1>8, <1>9, <1>10 DEF BackendInv

LEMMA ListenerClosedKeeps ==
  ASSUME BackendInv, NEW c \in Calls, ListenerClosed(c)
  PROVE  BackendInv'
<1>1. ServingTypes /\ call[c] \in CallRecords /\ NoCall \in CallRecords /\ NoCall.step = "idle"
  BY CallParts
<1>2. PICK l : l = call[c].closing
  OBVIOUS
<1>3. PICK new : new = [call[c] EXCEPT !.step = "stopped"]
  OBVIOUS
<1>4. new \in CallRecords /\ new.step = "stopped"
  BY <1>1, <1>3 DEF CallRecords, Steps
<1>5. /\ call[c].step = "closeListener"
      /\ UNCHANGED <<config, tool, served, listener, state, opened, stdioRights, exchange, counts,
                     changes>>
      /\ \/ open' = open \ {l.id} /\ call' = [call EXCEPT ![c] = new]
         \/ /\ l.id \notin open /\ l.kind = "http" /\ open' = open
            /\ call' = [call EXCEPT ![c] = NoCall]
  BY <1>2, <1>3 DEF ListenerClosed
<1>6. /\ call' \in [Calls -> CallRecords] /\ \A d \in Calls \ {c} : call'[d] = call[d]
      /\ \/ open' = open \ {l.id} /\ call'[c] = new
         \/ l.id \notin open /\ l.kind = "http" /\ open' = open /\ call'[c] = NoCall
  BY <1>1, <1>4, <1>5 DEF ServingTypes
<1>7. ServingTypes'
  BY <1>1, <1>5, <1>6 DEF ServingTypes, served, counts
<1>8. ExchangeInv'
  <2>1. made \in 0..made' /\ closed' = closed
    BY <1>1, <1>5 DEF ServingTypes, served
  <2> QED
    BY <1>5, <1>7, <2>1, ExchangesRest
<1>9. Stepping'
  BY <1>4, <1>6 DEF BackendInv, Stepping, Idle
<1>10. Answering'
  <2>1. CASE call'[c] = new
    BY <1>4, <2>1 DEF Answering, Renews
  <2>2. CASE l.id \notin open /\ l.kind = "http" /\ open' = open /\ call'[c] = NoCall
    <3>1. ~Renews(c)
      BY <1>2, <1>5, <2>2 DEF Renews
    <3>2. \A d \in Calls : Renews(d) => Renews(d)'
      BY <1>6, <2>2, <3>1 DEF Renews
    <3>3. \A d \in Calls : call[d].step = "stopped" => call'[d].step = "stopped"
      BY <1>5, <1>6
    <3> QED
      BY <1>5, <2>2, <3>2, <3>3 DEF BackendInv, Answering, served
  <2> QED
    BY <1>6, <2>1, <2>2
<1>11. ASSUME ~overlapped' PROVE OneCall'
  <2>1. OneCall /\ UnderWay \subseteq {c} /\ UnderWay' \subseteq {c}
    <3>1. OneCall /\ c \in UnderWay
      BY <1>5, <1>11 DEF BackendInv, counts, UnderWay, Idle, NoCall, CallAt
    <3> QED
      BY <1>6, <3>1 DEF OneCall, UnderWay, Idle
  <2>2. \A d \in Calls : d # c => call[d].step = "idle" /\ call'[d].step = "idle"
    BY <1>6, <2>1 DEF UnderWay, Idle, NoCall, CallAt
  <2>3. handler \in closed /\ l = listener /\ listener # None
    BY <1>2, <1>5, <2>1 DEF OneCall, CallOK, StopSteps
  <2>4. open = {listener.id}
    BY <1>5, <2>1, <2>2, <2>3 DEF OneCall, Listening
  <2>5. open' = {} /\ call'[c] = new
    BY <1>6, <2>3, <2>4
  <2>6. \A d \in Calls : CallOK(d)'
    BY <1>4, <1>5, <2>2, <2>3, <2>5 DEF CallOK, StopSteps, served
  <2>7. Listening'
    BY <1>4, <1>5, <2>1, <2>5 DEF OneCall, Listening, served
  <2> QED
    BY <2>1, <2>6, <2>7 DEF OneCall
<1> QED
  BY <1>8, <1>9, <1>10, <1>11 DEF BackendInv

LEMMA StoppedKeeps ==
  ASSUME BackendInv, NEW c \in Calls, Stopped(c)
  PROVE  BackendInv'
<1>1. ServingTypes /\ NoCall \in CallRecords /\ NoCall.step = "idle"
  BY CallParts
<1>2. /\ call[c].step = "stopped" /\ listener' = None /\ handler' = made + 1 /\ made' = made + 1
      /\ state' = "stopped" /\ call' = [call EXCEPT ![c] = NoCall]
      /\ UNCHANGED <<config, tool, json, endpoint, closed, open, opened, stdioRights,
                     exchange, counts, changes>>
  BY DEF Stopped, Forgotten, Renewed
<1>3. /\ call' \in [Calls -> CallRecords] /\ call'[c] = NoCall
      /\ \A d \in Calls \ {c} : call'[d] = call[d]
  BY <1>1, <1>2 DEF ServingTypes
<1>4. /\ made \in 0..made' /\ handler' \in 1..made' /\ made' \in Nat /\ handler' \notin closed
      /\ closed' \subseteq 1..made'
  <2>1. /\ made \in Nat /\ made \in 0..(made + 1) /\ made + 1 \in 1..(made + 1)
        /\ made + 1 \notin 1..made /\ 1..made \subseteq 1..(made + 1)
    BY <1>1 DEF ServingTypes
  <2>2. closed \subseteq 1..made
    BY <1>1 DEF ServingTypes
  <2> QED
    BY <1>2, <2>1, <2>2
<1>5. ServingTypes'
  BY <1>1, <1>2, <1>3, <1>4 DEF ServingTypes, counts
<1>6. ExchangeInv'
  BY <1>2, <1>4, <1>5, ExchangesRest
<1>7. Stepping' /\ Answering'
  BY <1>2, <1>3, <1>4 DEF BackendInv, Stepping, Idle, Answering
<1>8. ASSUME ~overlapped' PROVE OneCall'
  <2>1. OneCall /\ UnderWay \subseteq {c} /\ UnderWay' = {}
    <3>1. OneCall /\ c \in UnderWay
      BY <1>1, <1>2, <1>8 DEF BackendInv, counts, UnderWay, Idle
    <3> QED
      BY <1>3, <3>1 DEF OneCall, UnderWay, Idle
  <2>2. \A d \in Calls : call'[d].step = "idle"
    BY <1>1, <2>1 DEF UnderWay, Idle
  <2>3. handler \in closed /\ open = {}
    BY <1>2, <2>1 DEF OneCall, CallOK, StopSteps
  <2>4. Listening' /\ \A d \in Calls : CallOK(d)'
    BY <1>2, <2>2, <2>3 DEF Listening, CallOK, StopSteps
  <2> QED
    BY <2>1, <2>4 DEF OneCall
<1> QED
  BY <1>6, <1>7, <1>8 DEF BackendInv

LEMMA StepBackend == BackendInv /\ [Next]_vars => BackendInv'
<1> SUFFICES ASSUME BackendInv, [Next]_vars PROVE BackendInv'
  OBVIOUS
<1>1. CASE UNCHANGED vars
  <2>1. ExchangeInv'
    <3>1. ServingTypes /\ made \in 0..made
      BY TypeParts DEF BackendInv, ExchangeInv, ServingTypes
    <3>2. ServingTypes' /\ made \in 0..made'
      BY <1>1, <3>1 DEF vars, served, listened, counts, ServingTypes
    <3> QED
      BY <1>1, <3>2, ExchangesRest DEF vars, served
  <2> QED
    BY <1>1, <2>1, ExchangeStays DEF vars, exchange, InHandler
<1>2. ASSUME NEW c \in Calls,
             \/ \E bare \in BOOLEAN : StartMain(c, bare)
             \/ \E path \in Endpoints \cup {None}, wantsJson \in BOOLEAN : StartHttp(c, path, wantsJson)
             \/ StartStdio(c) \/ (\E kind \in Kinds : Opened(c, kind)) \/ OpenFails(c)
             \/ Stop(c) \/ HandlerClosed(c) \/ ListenerClosed(c) \/ Stopped(c)
      PROVE  BackendInv'
  BY <1>2, StartMainKeeps, StartKeeps, OpenedKeeps, StopKeeps, HandlerClosedKeeps,
     ListenerClosedKeeps, StoppedKeeps
<1> QED
  BY <1>1, <1>2, ExchangeStep DEF Next

THEOREM SpecBackend == Spec => []BackendInv
  BY InitBackend, StepBackend, PTL DEF Spec

(* Each variable has its type in every reachable state. *)
THEOREM TypeCorrect == Spec => []TypeOK
<1>1. BackendInv => TypeOK
  BY DEF BackendInv, ExchangeInv
<1> QED
  BY <1>1, SpecBackend, PTL

(* However registrations interleave with the awaits of a request, a tool runs only in a        *)
(* session that holds what that tool needs (handlers.ts:207-212).                              *)
THEOREM Rights == Spec => []RunsWithRights
<1>1. BackendInv => RunsWithRights
  BY DEF BackendInv, ExchangeInv, RightsHeld, RunsWithRights
<1> QED
  BY <1>1, SpecBackend, PTL

(* However starts and stops overlap and reject, a closed handler is one some stop under way    *)
(* replaces (index.ts:139).                                                                    *)
THEOREM KeepsAnswering == Spec => []AnswersBetweenStops
<1>1. BackendInv => AnswersBetweenStops
  BY DEF BackendInv, Answering, Renews, AnswersBetweenStops
<1> QED
  BY <1>1, SpecBackend, PTL

(* While calls do not overlap, no start or stop leaks a listener, and the one open serves the  *)
(* endpoint it was asked for, if start named one (index.ts:382-406).                           *)
THEOREM KeepsListener == Spec => []ListenerKept
<1>1. BackendInv => ListenerKept
  <2> SUFFICES ASSUME BackendInv, ~overlapped, UnderWay = {}
               PROVE  /\ open = IF listener = None THEN {} ELSE {listener.id}
                      /\ listener # None =>
                           /\ state = "running"
                           /\ listener.path # None => endpoint = listener.path
    BY DEF ListenerKept
  <2>1. Listening /\ \A c \in Calls : call[c].step = "idle"
    BY DEF BackendInv, OneCall, UnderWay, Idle, NoCall, CallAt
  <2> QED
    BY <2>1 DEF Listening
<1> QED
  BY <1>1, SpecBackend, PTL

=============================================================================
