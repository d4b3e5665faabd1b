------------------------------ MODULE Backend ------------------------------
(***************************************************************************)
(* The SDK backend (src/src/backend/sdk/index.ts) with the tool calls it   *)
(* serves (handlers.ts): exchanges come in through fetch, the HTTP         *)
(* listener or stdio, while start() and stop() come and go and tools are   *)
(* added, replaced and removed.                                            *)
(*                                                                         *)
(* Each action is the code between two awaits.  One tool name stands for   *)
(* the registry: what a call needs of its session is looked up in it twice *)
(* over HTTP, once for the 403 and once when the call runs.  The handlers  *)
(* createHandler makes are numbered, and so are the listeners.             *)
(***************************************************************************)
EXTENDS Naturals, FiniteSets

CONSTANTS
  Exchanges,     \* requests that may overlap
  Calls,         \* calls to start and stop that may overlap
  Endpoints,     \* MCP paths; start may name one
  DefaultPath,   \* the one served until then
  MaxCalls,      \* bound: how many calls to start and stop are made
  MaxChanges,    \* bound: how often the registry changes
  None

ASSUME BackendAssumption ==
  /\ {MaxCalls, MaxChanges} \subseteq Nat
  /\ DefaultPath \in Endpoints
  /\ None \notin Endpoints

VARIABLES
  config,      \* which build it is (node), and whether authenticate is configured (auth)
  tool,        \* registry: what the tool needs of a session, or None without the tool
  handler,     \* the number of the handler that is served
  json,        \* whether responseMode is "json"
  endpoint,    \* mcpPath
  listener,    \* the listener that stop would close
  state,       \* serverState
  call,        \* each start and stop under way: what it awaits and its locals
  pc,          \* what each exchange awaits
  session,     \* the rights each exchange's session holds
  at,          \* the handler each exchange was handed to; 0 for none
  bound,       \* the needs of the tool each exchange resolved
  answer,      \* what each exchange was answered with
  closed,      \* external: handlers that were closed
  open,        \* external: listeners that accept connections
  stdioRights, \* external: the rights the stdio server was built with
  opened,      \* history: how many listeners were opened
  made,        \* history: how many handlers were made
  changed,     \* history: exchanges under which the registry changed after their scope check
  overlapped,  \* history: whether a start or stop began while another was under way
  calls,       \* history: how many calls to start and stop began
  changes      \* history: how often the registry changed

served   == <<handler, json, endpoint, closed, made>>
listened == <<listener, state, open, opened, stdioRights>>
exchange == <<pc, session, at, bound, answer, changed>>
counts   == <<overlapped, calls>>
vars == <<config, tool, served, listened, call, exchange, counts, changes>>

\* What a tool may need: that canAccess lets the session through, and its requiredScopes.
Needs  == {"access", "scopes"}
Labels == {"idle", "authenticate", "readBody", "call", "validate", "execute", "done"}
Steps  == {"idle", "openHttp", "openStdio", "closeHandler", "closeListener", "stopped"}
Kinds  == {"http", "stdio"}
\* What a listener was started with; path is None when start named none.
Listeners == [id: Nat, kind: Kinds, path: Endpoints \cup {None}]
Answers == {"401", "403", "unknown", "needsPermission", "result", "error", "aborted"}

ASSUME NoneAssumption == None \notin Listeners \cup Answers /\ \A needs \in SUBSET Needs : None # needs

CallAt(step, path) == [step |-> step, closing |-> None, asked |-> path]
NoCall == CallAt("idle", None)

Init ==
  /\ config \in [node: BOOLEAN, auth: BOOLEAN]
  /\ tool \in {None} \cup SUBSET Needs
  /\ handler = 1
  /\ json = FALSE
  /\ endpoint = DefaultPath
  /\ listener = None
  /\ state = "running"
  /\ call = [c \in Calls |-> NoCall]
  /\ pc = [e \in Exchanges |-> "idle"]
  /\ session = [e \in Exchanges |-> {}]
  /\ at = [e \in Exchanges |-> 0]
  /\ bound = [e \in Exchanges |-> None]
  /\ answer = [e \in Exchanges |-> None]
  /\ closed = {}
  /\ open = {}
  /\ stdioRights = {}
  /\ opened = 0
  /\ made = 1
  /\ changed = {}
  /\ overlapped = FALSE
  /\ calls = 0
  /\ changes = 0

-----------------------------------------------------------------------------
(* The registry.                                                           *)

\* addTool replaces what has the name, and removeTool drops it.
SetTool(needs) ==
  /\ changes < MaxChanges
  /\ changes' = changes + 1
  /\ tool' = needs
  /\ changed' = changed \cup {e \in Exchanges : pc[e] = "call"}
  /\ UNCHANGED <<config, served, listened, call, pc, session, at, bound, answer, counts>>

\* canUse, and a call for a scope the session lacks; without authentication all are held.
Visible(rights) == tool # None /\ ("access" \in tool => "access" \in rights)

MissingScopes(rights) == (tool \cap {"scopes"}) \ rights

Lacking(rights) == MissingScopes(rights) # {}

-----------------------------------------------------------------------------
(* serveMcp.                                                               *)

\* Hand exchange e to the handler of the moment.  A closed one answers with an error.
Hand(e) ==
  /\ at' = [at EXCEPT ![e] = handler]
  /\ IF handler \in closed
     THEN pc' = [pc EXCEPT ![e] = "done"] /\ answer' = [answer EXCEPT ![e] = "error"]
     ELSE pc' = [pc EXCEPT ![e] = "call"] /\ UNCHANGED answer

Answer(e, what) ==
  /\ pc' = [pc EXCEPT ![e] = "done"]
  /\ answer' = [answer EXCEPT ![e] = IF @ = None THEN what ELSE @]

Await(e, label) == pc' = [pc EXCEPT ![e] = label] /\ UNCHANGED answer

Arrive(e) ==
  /\ pc[e] = "idle"
  /\ \/ config.auth /\ Await(e, "authenticate") /\ UNCHANGED <<session, at>>
     \/ ~config.auth /\ session' = [session EXCEPT ![e] = Needs] /\ Hand(e)
  /\ UNCHANGED <<config, tool, served, listened, call, bound, changed, counts, changes>>

\* runAuthenticate: no session, whether authenticate says so, throws or rejects; or one with
\* some rights.
Outcomes == {None} \cup SUBSET Needs

\* Rejected, or let in.  The body is read when some tool needs scopes: this one, or another of
\* the registry.
Authenticated(e) ==
  /\ pc[e] = "authenticate"
  /\ \E rights \in Outcomes :
       \/ rights = None /\ Answer(e, "401") /\ UNCHANGED <<session, at>>
       \/ /\ rights # None
          /\ session' = [session EXCEPT ![e] = rights]
          /\ \/ Await(e, "readBody") /\ UNCHANGED at
             \/ ~(tool # None /\ "scopes" \in tool) /\ Hand(e)
  /\ UNCHANGED <<config, tool, served, listened, call, bound, changed, counts, changes>>

\* scopeRefusal: a tool the session cannot see is left to be answered as unknown.
Refused(rights) == Visible(rights) /\ Lacking(rights)

ReadBody(e) ==
  /\ pc[e] = "readBody"
  /\ IF Refused(session[e]) THEN Answer(e, "403") /\ UNCHANGED at ELSE Hand(e)
  /\ UNCHANGED <<config, tool, served, listened, call, session, bound, changed, counts, changes>>

\* A message on stdio, with the rights the connection's server was built with.
ArriveStdio(e) ==
  /\ pc[e] = "idle"
  /\ listener # None /\ listener.kind = "stdio" /\ listener.id \in open
  /\ session' = [session EXCEPT ![e] = stdioRights]
  /\ Await(e, "call")
  /\ UNCHANGED <<config, tool, served, listened, call, at, bound, changed, counts, changes>>

-----------------------------------------------------------------------------
(* tools/call.                                                             *)

\* What is missing is looked at again, in the registry of the moment.
Permitted_Assumed(rights) == TRUE

Permitted(rights) == ~Lacking(rights)

CallTool(e) ==
  /\ pc[e] = "call"
  /\ \/ ~Visible(session[e]) /\ Answer(e, "unknown") /\ UNCHANGED bound
     \/ /\ Visible(session[e])
        /\ ~Permitted(session[e])
        /\ Answer(e, "needsPermission")
        /\ UNCHANGED bound
     \/ /\ Visible(session[e])
        /\ Permitted(session[e])
        /\ bound' = [bound EXCEPT ![e] = tool]
        /\ Await(e, "validate")
  /\ UNCHANGED <<config, tool, served, listened, call, session, at, changed, counts, changes>>

\* Invalid arguments are a tool error; valid ones are run with.
Validated(e) ==
  /\ pc[e] = "validate"
  /\ Answer(e, "error") \/ Await(e, "execute")
  /\ UNCHANGED <<config, tool, served, listened, call, session, at, bound, changed, counts, changes>>

\* The tool returns, throws or times out.
Executed(e) ==
  /\ pc[e] = "execute"
  /\ Answer(e, "result") \/ Answer(e, "error")
  /\ UNCHANGED <<config, tool, served, listened, call, session, at, bound, changed, counts, changes>>

-----------------------------------------------------------------------------
(* start.                                                                  *)

Idle(c) == call[c] = NoCall
UnderWay == {c \in Calls : ~Idle(c)}

Begin(c, step, path) ==
  /\ Idle(c)
  /\ calls < MaxCalls
  /\ calls' = calls + 1
  /\ overlapped' = (overlapped \/ UnderWay # {})
  /\ call' = [call EXCEPT ![c] = CallAt(step, path)]

MayStart_Unguarded == TRUE

\* A start while listening is ignored.
MayStart == listener = None

\* On the main entry a transport is refused, and a bare start listens on nothing.
StartMain(c, bare) ==
  /\ ~config.node
  /\ MayStart
  /\ Begin(c, "idle", None)
  /\ state' = IF bare THEN "running" ELSE "error"
  /\ UNCHANGED <<config, tool, served, listener, open, opened, stdioRights, exchange, changes>>

EndpointFor_Unset(path) == path

\* An endpoint that is not given stays as it was.
EndpointFor(path) == IF path = None THEN endpoint ELSE path

\* startHttp: the configuration applies before the port is open.  JSON responses come from a
\* new handler; nobody closes the old one.
StartHttp(c, path, wantsJson) ==
  /\ config.node
  /\ MayStart
  /\ Begin(c, "openHttp", path)
  /\ endpoint' = EndpointFor(path)
  /\ json' = (json \/ wantsJson)
  /\ handler' = IF wantsJson THEN made + 1 ELSE handler
  /\ made' = IF wantsJson THEN made + 1 ELSE made
  /\ UNCHANGED <<config, tool, closed, listened, exchange, changes>>

\* startStdio: authenticate runs once, and its failure only leaves the server without rights.
StartStdio(c) ==
  /\ config.node
  /\ MayStart
  /\ Begin(c, "openStdio", None)
  /\ UNCHANGED <<config, tool, served, listened, exchange, changes>>

Opened(c, kind) ==
  /\ call[c].step = IF kind = "http" THEN "openHttp" ELSE "openStdio"
  /\ opened' = opened + 1
  /\ open' = open \cup {opened + 1}
  /\ listener' = [id |-> opened + 1, kind |-> kind, path |-> call[c].asked]
  /\ \E rights \in (IF config.auth THEN SUBSET Needs ELSE {Needs}) :
       stdioRights' = IF kind = "stdio" THEN rights ELSE stdioRights
  /\ state' = "running"
  /\ call' = [call EXCEPT ![c] = NoCall]
  /\ UNCHANGED <<config, tool, served, exchange, counts, changes>>

OpenFails(c) ==
  /\ call[c].step \in {"openHttp", "openStdio"}
  /\ state' = "error"
  /\ call' = [call EXCEPT ![c] = NoCall]
  /\ UNCHANGED <<config, tool, served, listener, open, opened, stdioRights, exchange, counts, changes>>

-----------------------------------------------------------------------------
(* stop.                                                                   *)

InHandler(e) == at[e] # 0 /\ answer[e] = None

\* External: closing a handler aborts the exchanges it was given.
Aborted(h) ==
  answer' = [e \in Exchanges |-> IF InHandler(e) /\ at[e] = h THEN "aborted" ELSE answer[e]]

Stop(c) ==
  /\ Begin(c, "closeHandler", None)
  /\ closed' = closed \cup {handler}
  /\ Aborted(handler)
  /\ UNCHANGED <<config, tool, handler, json, endpoint, made, listened,
                 pc, session, at, bound, changed, changes>>

\* The listener of the moment is closed, if there is one.
HandlerClosed(c) ==
  /\ call[c].step = "closeHandler"
  /\ call' = [call EXCEPT ![c].step = IF listener = None THEN "stopped" ELSE "closeListener",
                          ![c].closing = listener]
  /\ UNCHANGED <<config, tool, served, listened, exchange, counts, changes>>

\* It closes; or, when an overlapping stop has closed its port already, it rejects, and stop
\* with it.
ListenerClosed(c) ==
  /\ call[c].step = "closeListener"
  /\ LET l == call[c].closing IN
       \/ /\ l.id \in open \/ l.kind = "stdio"
          /\ open' = open \ {l.id}
          /\ call' = [call EXCEPT ![c].step = "stopped"]
       \/ /\ l.id \notin open /\ l.kind = "http"
          /\ call' = [call EXCEPT ![c] = NoCall]
          /\ UNCHANGED open
  /\ UNCHANGED <<config, tool, served, listener, state, opened, stdioRights, exchange, counts, changes>>

Renewed_Not == UNCHANGED <<handler, made>>

\* A closed handler answers every request with an error, so a new one takes its place.
Renewed == handler' = made + 1 /\ made' = made + 1

Forgotten == listener' = None

Stopped(c) ==
  /\ call[c].step = "stopped"
  /\ Forgotten
  /\ Renewed
  /\ state' = "stopped"
  /\ call' = [call EXCEPT ![c] = NoCall]
  /\ UNCHANGED <<config, tool, json, endpoint, closed, open, opened, stdioRights,
                 exchange, counts, changes>>

-----------------------------------------------------------------------------
Next ==
  \/ \E needs \in {None} \cup SUBSET Needs : SetTool(needs)
  \/ \E e \in Exchanges :
       \/ Arrive(e) \/ Authenticated(e) \/ ReadBody(e) \/ ArriveStdio(e)
       \/ CallTool(e) \/ Validated(e) \/ Executed(e)
  \/ \E c \in Calls :
       \/ \E bare \in BOOLEAN : StartMain(c, bare)
       \/ \E path \in Endpoints \cup {None}, wantsJson \in BOOLEAN : StartHttp(c, path, wantsJson)
       \/ StartStdio(c) \/ (\E kind \in Kinds : Opened(c, kind)) \/ OpenFails(c)
       \/ Stop(c) \/ HandlerClosed(c) \/ ListenerClosed(c) \/ Stopped(c)

Spec == Init /\ [][Next]_vars

-----------------------------------------------------------------------------
TypeOK ==
  /\ config \in [node: BOOLEAN, auth: BOOLEAN]
  /\ tool \in {None} \cup SUBSET Needs
  /\ handler \in 1..made /\ made \in Nat
  /\ json \in BOOLEAN
  /\ endpoint \in Endpoints
  /\ listener \in Listeners \cup {None}
  /\ state \in {"running", "stopped", "error"}
  /\ call \in [Calls -> [step: Steps, closing: Listeners \cup {None}, asked: Endpoints \cup {None}]]
  /\ pc \in [Exchanges -> Labels]
  /\ session \in [Exchanges -> SUBSET Needs]
  /\ at \in [Exchanges -> 0..made]
  /\ bound \in [Exchanges -> {None} \cup SUBSET Needs]
  /\ answer \in [Exchanges -> Answers \cup {None}]
  /\ closed \subseteq 1..made
  /\ open \subseteq 1..opened /\ opened \in Nat
  /\ stdioRights \in SUBSET Needs
  /\ changed \subseteq Exchanges
  /\ overlapped \in BOOLEAN
  /\ calls \in 0..MaxCalls /\ changes \in 0..MaxChanges

(* A tool runs only in a session that holds what that tool needs, whatever was registered     *)
(* while the request was authenticated and its body read (handlers.ts:207-212).  Over HTTP a  *)
(* call that lacks scopes gets its 403 up front: only one whose tool changed after that check *)
(* can come to a tool error instead (handlers.ts:208, "serveMcp has already answered this").  *)
RunsWithRights ==
  \A e \in Exchanges :
    /\ pc[e] = "execute" => bound[e] \subseteq session[e]
    /\ answer[e] = "needsPermission" /\ at[e] # 0 => e \in changed

(* With nothing under way and no two calls ever overlapping, the one listener that is open is *)
(* the one stop would close, a server that listens reports running, and what it serves is the *)
(* endpoint its listener was asked for, if start named one: neither a failed start nor a      *)
(* restart leaks a port, and a start while listening changes nothing (index.ts:382-406).      *)
ListenerKept ==
  ~overlapped /\ UnderWay = {} =>
    /\ open = IF listener = None THEN {} ELSE {listener.id}
    /\ listener # None =>
         /\ state = "running"
         /\ listener.path # None => endpoint = listener.path

(* However starts and stops overlap and whichever of them reject, once no stop is under way   *)
(* the handler that is served is not a closed one (index.ts:139, "fetch() keeps answering").  *)
AnswersBetweenStops ==
  (\A c \in Calls : call[c].step \notin {"closeHandler", "closeListener", "stopped"}) =>
    handler \notin closed

=============================================================================
