------------------------------- MODULE Server -------------------------------
(***************************************************************************)
(* The server core (src/src/Server.ts) over its gateways and the registry  *)
(* of its backend: start() connects the gateways and registers their tools *)
(* (toolProxy.ts), stop() disconnects them, and tools and resources are    *)
(* added and removed while it runs.  The inventory that info and           *)
(* getCapabilities report is kept beside the registry, entry by entry.     *)
(*                                                                         *)
(* Every gateway is taken to have the empty toolPrefix: names of two       *)
(* gateways, and of local tools, may then be the same.                     *)
(***************************************************************************)
EXTENDS Gateway, Integers

CONSTANTS
  Proxied,      \* the gateways that did not turn proxyTools off
  Resources,    \* names of resources; prompts are kept the same way
  Info,         \* the introspection tool, a name of Tools
  MaxCalls,     \* bound: calls to start and stop
  MaxChanges    \* bound: registrations and removals

ASSUME ServerAssumption ==
  /\ Proxied \subseteq Gateways
  /\ Info \in Tools
  /\ {MaxCalls, MaxChanges} \subseteq Nat

VARIABLES
  removal,      \* whether the backend can remove (supportsRemoval)
  call,         \* what each start and stop awaits
  served,       \* backend registry: the tools
  counted,      \* registeredTools: how often it holds each name
  resources,    \* backend registry: the resources
  listed,       \* registeredResources: how often it holds each name
  calls,        \* history: calls to start and stop so far
  changes       \* history: registrations and removals so far

registry   == <<served, counted, resources, listed>>
serverVars == <<removal, call, registry, calls, changes>>
vars       == <<gatewayVars, serverVars>>

Steps == {"idle", "startBackend", "connecting", "disconnecting", "stopBackend"}

\* A server as it is before its first start, with the resources it was set up with.
Init ==
  /\ GatewayInit
  /\ removal \in BOOLEAN
  /\ call = [c \in Callers |-> "idle"]
  /\ served = {Info}
  /\ counted = [n \in Tools |-> IF n = Info THEN 1 ELSE 0]
  /\ resources \in SUBSET Resources
  /\ listed = [n \in Resources |-> IF n \in resources THEN 1 ELSE 0]
  /\ calls = 0
  /\ changes = 0

-----------------------------------------------------------------------------
(* The inventory.                                                          *)

\* trackTool: once for each name.
Tracked(names) == [n \in Tools |-> IF n \in names THEN 1 ELSE counted[n]]

Untracked_Unfound(inventory, n) ==
  IF removal THEN [inventory EXCEPT ![n] = @ - 1] ELSE inventory

\* untrack: the first entry of that name, unless the backend goes on serving it.
Untracked(inventory, n) ==
  IF removal THEN [inventory EXCEPT ![n] = IF @ = 0 THEN 0 ELSE @ - 1] ELSE inventory

Change ==
  /\ changes < MaxChanges
  /\ changes' = changes + 1
  /\ UNCHANGED <<gatewayVars, removal, call, calls>>

AddTool(n) ==
  /\ Change
  /\ served' = served \cup {n}
  /\ counted' = Tracked({n})
  /\ UNCHANGED <<resources, listed>>

RemoveTool(n) ==
  /\ Change
  /\ served' = IF removal THEN served \ {n} ELSE served
  /\ counted' = Untracked(counted, n)
  /\ UNCHANGED <<resources, listed>>

\* A resource is entered each time it is added, the registry's entry being replaced.
AddResource(n) ==
  /\ Change
  /\ resources' = resources \cup {n}
  /\ listed' = [listed EXCEPT ![n] = @ + 1]
  /\ UNCHANGED <<served, counted>>

RemoveResource(n) ==
  /\ Change
  /\ resources' = IF removal THEN resources \ {n} ELSE resources
  /\ listed' = Untracked(listed, n)
  /\ UNCHANGED <<served, counted>>

-----------------------------------------------------------------------------
(* start and stop.                                                         *)

To(c, step) == call' = [call EXCEPT ![c] = step]

Begin(c, step) ==
  /\ call[c] = "idle"
  /\ calls < MaxCalls
  /\ calls' = calls + 1
  /\ To(c, step)

Start(c) ==
  /\ Begin(c, "startBackend")
  /\ UNCHANGED <<gatewayVars, removal, registry, changes>>

\* backend.start resolves, and every gateway is told to connect; or it rejects, and start with it.
BackendStarted(c) ==
  /\ call[c] = "startBackend"
  /\ \/ ConnectAll(c) /\ To(c, "connecting")
     \/ To(c, "idle") /\ UNCHANGED gatewayVars
  /\ UNCHANGED <<removal, registry, calls, changes>>

\* What the connected gateways offer, as far as their tools are proxied.
ProxiedTools ==
  UNION {remoteTools[g] : g \in {h \in Proxied : status[h] = "connected"}}

Registered_Untracked(names) == served' = served \cup names /\ UNCHANGED counted

Registered(names) == served' = served \cup names /\ counted' = Tracked(names)

\* connectAll has settled: the tools of the gateways connected by now are registered.
ConnectSettled(c) ==
  /\ call[c] = "connecting"
  /\ \A g \in Gateways : \A a \in attempts[g] : a.by # c
  /\ Registered(ProxiedTools)
  /\ To(c, "idle")
  /\ UNCHANGED <<gatewayVars, removal, resources, listed, calls, changes>>

Stop(c) ==
  /\ Begin(c, "disconnecting")
  /\ DisconnectAll(c)
  /\ UNCHANGED <<removal, registry, changes>>

DisconnectSettled(c) ==
  /\ call[c] = "disconnecting"
  /\ \A g \in Gateways : \A d \in closing[g] : d.by # c
  /\ To(c, "stopBackend")
  /\ UNCHANGED <<gatewayVars, removal, registry, calls, changes>>

\* backend.stop settles, and with it stop; the flush that follows changes nothing here.
BackendStopped(c) ==
  /\ call[c] = "stopBackend"
  /\ To(c, "idle")
  /\ UNCHANGED <<gatewayVars, removal, registry, calls, changes>>

-----------------------------------------------------------------------------
GatewayStep(g) ==
  /\ Settle(g) \/ \E t \in armed[g] : TimerFires(g, t)
  /\ UNCHANGED serverVars

Next ==
  \/ \E n \in Tools : AddTool(n) \/ RemoveTool(n)
  \/ \E n \in Resources : AddResource(n) \/ RemoveResource(n)
  \/ \E c \in Callers :
       \/ Start(c) \/ BackendStarted(c) \/ ConnectSettled(c)
       \/ Stop(c) \/ DisconnectSettled(c) \/ BackendStopped(c)
  \/ \E g \in Gateways : GatewayStep(g)

Spec == Init /\ [][Next]_vars

-----------------------------------------------------------------------------
TypeOK ==
  /\ GatewayTypeOK
  /\ removal \in BOOLEAN
  /\ call \in [Callers -> Steps]
  /\ served \subseteq Tools
  /\ counted \in [Tools -> Nat]
  /\ resources \subseteq Resources
  /\ listed \in [Resources -> Nat]
  /\ calls \in 0..MaxCalls /\ changes \in 0..MaxChanges

(* The inventory holds each tool that is served once and no other, whatever is added twice,   *)
(* removed, proxied again by another start, or cannot be removed (Server.ts:127-132).         *)
ToolsCounted == \A n \in Tools : counted[n] = IF n \in served THEN 1 ELSE 0

=============================================================================
