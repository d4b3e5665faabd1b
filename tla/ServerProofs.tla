---------------------------- MODULE ServerProofs ----------------------------
(***************************************************************************)
(* What the server core and its gateways guarantee for any number of       *)
(* gateways, tools, resources and overlapping calls to start and stop: the *)
(* inventory agrees with the registry, a gateway's status is true, and one *)
(* in error is retried.                                                    *)
(***************************************************************************)
EXTENDS Server, TLAPS

LEMMA InitTypes == Init => TypeOK
  BY GatewayAssumption, ServerAssumption
  DEF Init, GatewayInit, TypeOK, GatewayTypeOK, Statuses, Steps

-----------------------------------------------------------------------------
(* The gateways' types.                                                    *)

LEMMA ConnectTypes ==
  ASSUME GatewayTypeOK, NEW gs \in SUBSET Gateways, NEW by \in Callers \cup {None}, Connect(gs, by)
  PROVE  /\ status' \in [Gateways -> Statuses]
         /\ client' \in [Gateways -> 0..MaxClients]
         /\ made' \in [Gateways -> 0..MaxClients]
         /\ attempts' \in [Gateways -> SUBSET Attempts]
         /\ crossed' \subseteq Gateways
<1> DEFINE begun == {g \in gs : MayConnect(g)}
<1>1. ASSUME NEW g \in begun PROVE made[g] + 1 \in 1..MaxClients
  BY GatewayAssumption DEF Connect, GatewayTypeOK
<1>2. ASSUME NEW g \in begun
      PROVE  [client |-> made[g] + 1, await |-> "connect", by |-> by] \in Attempts
  BY <1>1 DEF Attempts
<1>3. status' \in [Gateways -> Statuses] /\ crossed' \subseteq Gateways
  BY DEF Connect, GatewayTypeOK, Statuses
<1>4. client' \in [Gateways -> 0..MaxClients] /\ made' \in [Gateways -> 0..MaxClients]
  <2>1. \A g \in begun : made[g] + 1 \in 0..MaxClients
    BY <1>1
  <2> HIDE DEF begun
  <2>2. /\ made' = [g \in Gateways |-> IF g \in begun THEN made[g] + 1 ELSE made[g]]
        /\ client' = [g \in Gateways |-> IF g \in begun THEN made[g] + 1 ELSE client[g]]
    BY DEF Connect, begun
  <2> QED
    BY <2>1, <2>2 DEF GatewayTypeOK
<1>5. attempts' \in [Gateways -> SUBSET Attempts]
  <2> HIDE DEF begun
  <2>1. attempts' = [g \in Gateways |->
          IF g \in begun
          THEN attempts[g] \cup {[client |-> made[g] + 1, await |-> "connect", by |-> by]}
          ELSE attempts[g]]
    BY DEF Connect, begun
  <2>2. ASSUME NEW g \in Gateways
        PROVE  (IF g \in begun
                THEN attempts[g] \cup {[client |-> made[g] + 1, await |-> "connect", by |-> by]}
                ELSE attempts[g]) \in SUBSET Attempts
    BY <1>2 DEF GatewayTypeOK
  <2> QED
    BY <2>1, <2>2
<1> QED
  BY <1>3, <1>4, <1>5

LEMMA ConnectAllTypes ==
  ASSUME GatewayTypeOK, NEW by \in Callers, ConnectAll(by)
  PROVE  GatewayTypeOK'
<1>1. Connect(Gateways, by)
  BY DEF ConnectAll
<1>2. hastened' \subseteq Gateways
  BY DEF ConnectAll, GatewayTypeOK
<1> QED
  BY <1>1, <1>2, ConnectTypes DEF ConnectAll, GatewayTypeOK

LEMMA SettleTypes ==
  ASSUME GatewayTypeOK, NEW g \in Gateways, Settle(g)
  PROVE  GatewayTypeOK'
<1>1. ASSUME NEW a \in attempts[g], Connected(g, a) PROVE GatewayTypeOK'
  <2>1. a \in Attempts
    BY DEF GatewayTypeOK
  <2>2. [a EXCEPT !.await = "listTools"] \in Attempts /\ a.client \in 1..MaxClients
    BY <2>1 DEF Attempts
  <2> QED
    BY <1>1, <2>2 DEF Connected, GatewayTypeOK
<1>2. ASSUME NEW a \in attempts[g], Listed(g, a) PROVE GatewayTypeOK'
  BY <1>2 DEF Listed, GatewayTypeOK, Statuses
<1>3. ASSUME NEW a \in attempts[g], AttemptFails(g, a) PROVE GatewayTypeOK'
  <2>1. timers' \in [Gateways -> Nat] /\ timer' \in [Gateways -> Nat]
        /\ armed' \in [Gateways -> SUBSET Nat]
    BY <1>3 DEF AttemptFails, ScheduleReconnect, GatewayTypeOK
  <2> QED
    BY <1>3, <2>1 DEF AttemptFails, GatewayTypeOK, Statuses
<1>4. ASSUME NEW d \in closing[g], Disconnected(g, d) PROVE GatewayTypeOK'
  <2>1. client' \in [Gateways -> 0..MaxClients]
    BY <1>4, GatewayAssumption DEF Disconnected, GatewayTypeOK
  <2> QED
    BY <1>4, <2>1 DEF Disconnected, DisconnectedStatus, GatewayTypeOK, Statuses
<1> QED
  BY <1>1, <1>2, <1>3, <1>4 DEF Settle

LEMMA TimerTypes ==
  ASSUME GatewayTypeOK, NEW g \in Gateways, NEW t \in armed[g], TimerFires(g, t)
  PROVE  GatewayTypeOK'
<1>1. Connect({g}, None)
  BY DEF TimerFires
<1>2. armed' \in [Gateways -> SUBSET Nat]
  BY DEF TimerFires, GatewayTypeOK
<1> QED
  BY <1>1, <1>2, ConnectTypes DEF TimerFires, GatewayTypeOK

LEMMA DisconnectAllTypes ==
  ASSUME GatewayTypeOK, NEW by \in Callers, DisconnectAll(by)
  PROVE  GatewayTypeOK'
<1>1. closing' \in [Gateways -> SUBSET Closings]
  <2>1. ASSUME NEW g \in Gateways, client[g] # 0 PROVE [client |-> client[g], by |-> by] \in Closings
    <3>1. client[g] \in 1..MaxClients
      BY <2>1, GatewayAssumption DEF GatewayTypeOK
    <3> QED
      BY <3>1 DEF Closings
  <2> QED
    BY <2>1 DEF DisconnectAll, GatewayTypeOK
<1>2. armed' \in [Gateways -> SUBSET Nat] /\ timer' \in [Gateways -> Nat]
  BY DEF DisconnectAll, Cleared, GatewayTypeOK
<1>3. status' \in [Gateways -> Statuses] /\ remoteTools' \in [Gateways -> SUBSET Tools]
  BY DEF DisconnectAll, Statuses, GatewayTypeOK
<1> QED
  BY <1>1, <1>2, <1>3 DEF DisconnectAll, GatewayTypeOK

-----------------------------------------------------------------------------
(* The server's types and the inventory.                                   *)

\* The types, and the inventory beside the registry.
InventoryInv == TypeOK /\ ToolsCounted

LEMMA InitInventory == Init => InventoryInv
  BY InitTypes DEF Init, InventoryInv, ToolsCounted

\* The tools of remote servers are tools.
LEMMA ProxiedAreTools == ASSUME TypeOK PROVE ProxiedTools \subseteq Tools
  BY ServerAssumption DEF TypeOK, GatewayTypeOK, ProxiedTools

LEMMA TrackedCounts ==
  ASSUME TypeOK, ToolsCounted, NEW names \in SUBSET Tools,
         served' = served \cup names, counted' = Tracked(names)
  PROVE  ToolsCounted' /\ counted' \in [Tools -> Nat] /\ served' \subseteq Tools
  BY DEF TypeOK, ToolsCounted, Tracked

LEMMA UntrackedCounts ==
  ASSUME TypeOK, ToolsCounted, NEW n \in Tools,
         served' = IF removal THEN served \ {n} ELSE served, counted' = Untracked(counted, n)
  PROVE  ToolsCounted' /\ counted' \in [Tools -> Nat] /\ served' \subseteq Tools
  BY DEF TypeOK, ToolsCounted, Untracked

LEMMA ChangeInventory ==
  ASSUME InventoryInv,
         \/ \E n \in Tools : AddTool(n) \/ RemoveTool(n)
         \/ \E n \in Resources : AddResource(n) \/ RemoveResource(n)
  PROVE  InventoryInv'
<1>1. Change /\ changes' \in 0..MaxChanges
  <2>1. Change
    BY DEF AddTool, RemoveTool, AddResource, RemoveResource
  <2> QED
    BY <2>1, ServerAssumption DEF Change, InventoryInv, TypeOK
<1>2. GatewayTypeOK' /\ UNCHANGED <<removal, call, calls>>
  BY <1>1 DEF Change, gatewayVars, GatewayTypeOK, InventoryInv, TypeOK
<1>3. ASSUME NEW n \in Tools, AddTool(n) PROVE InventoryInv'
  <2>1. ToolsCounted' /\ counted' \in [Tools -> Nat] /\ served' \subseteq Tools
    BY <1>3, TrackedCounts DEF AddTool, InventoryInv
  <2> QED
    BY <1>1, <1>2, <1>3, <2>1 DEF AddTool, InventoryInv, TypeOK
<1>4. ASSUME NEW n \in Tools, RemoveTool(n) PROVE InventoryInv'
  <2>1. ToolsCounted' /\ counted' \in [Tools -> Nat] /\ served' \subseteq Tools
    BY <1>4, UntrackedCounts DEF RemoveTool, InventoryInv
  <2> QED
    BY <1>1, <1>2, <1>4, <2>1 DEF RemoveTool, InventoryInv, TypeOK
<1>5. ASSUME NEW n \in Resources, AddResource(n) PROVE InventoryInv'
  BY <1>1, <1>2, <1>5 DEF AddResource, InventoryInv, TypeOK, ToolsCounted
<1>6. ASSUME NEW n \in Resources, RemoveResource(n) PROVE InventoryInv'
  <2>1. listed' \in [Resources -> Nat]
    BY <1>6 DEF RemoveResource, Untracked, InventoryInv, TypeOK
  <2> QED
    BY <1>1, <1>2, <1>6, <2>1 DEF RemoveResource, InventoryInv, TypeOK, ToolsCounted
<1> QED
  BY <1>3, <1>4, <1>5, <1>6

\* A step that leaves the registry and the inventory alone.
LEMMA RegistryStays ==
  ASSUME InventoryInv, GatewayTypeOK', call' \in [Callers -> Steps], calls' \in 0..MaxCalls,
         UNCHANGED <<removal, registry, changes>>
  PROVE  InventoryInv'
  BY DEF InventoryInv, TypeOK, ToolsCounted, registry

LEMMA CallInventory ==
  ASSUME InventoryInv, NEW c \in Callers,
         \/ Start(c) \/ BackendStarted(c) \/ ConnectSettled(c)
         \/ Stop(c) \/ DisconnectSettled(c) \/ BackendStopped(c)
  PROVE  InventoryInv'
<1>1. call' \in [Callers -> Steps] /\ calls' \in 0..MaxCalls
  <2>1. call' \in [Callers -> Steps]
    BY DEF Start, BackendStarted, ConnectSettled, Stop, DisconnectSettled, BackendStopped, Begin,
       To, Steps, InventoryInv, TypeOK
  <2>2. calls' \in 0..MaxCalls
    BY ServerAssumption DEF Start, BackendStarted, ConnectSettled, Stop, DisconnectSettled,
       BackendStopped, Begin, InventoryInv, TypeOK
  <2> QED
    BY <2>1, <2>2
<1>2. GatewayTypeOK'
  <2>1. GatewayTypeOK
    BY DEF InventoryInv, TypeOK
  <2>2. CASE UNCHANGED gatewayVars
    BY <2>1, <2>2 DEF gatewayVars, GatewayTypeOK
  <2>3. CASE ConnectAll(c)
    BY <2>1, <2>3, ConnectAllTypes
  <2>4. CASE DisconnectAll(c)
    BY <2>1, <2>4, DisconnectAllTypes
  <2> QED
    BY <2>2, <2>3, <2>4 DEF Start, BackendStarted, ConnectSettled, Stop, DisconnectSettled,
       BackendStopped
<1>3. CASE ConnectSettled(c)
  <2>1. ToolsCounted' /\ counted' \in [Tools -> Nat] /\ served' \subseteq Tools
    BY <1>3, ProxiedAreTools, TrackedCounts DEF ConnectSettled, Registered, InventoryInv
  <2> QED
    BY <1>1, <1>2, <1>3, <2>1 DEF ConnectSettled, InventoryInv, TypeOK
<1>4. CASE ~ConnectSettled(c)
  <2>1. UNCHANGED <<removal, registry, changes>>
    BY <1>4 DEF Start, BackendStarted, Stop, DisconnectSettled, BackendStopped
  <2> QED
    BY <1>1, <1>2, <2>1, RegistryStays
<1> QED
  BY <1>3, <1>4

LEMMA StepInventory == InventoryInv /\ [Next]_vars => InventoryInv'
<1> SUFFICES ASSUME InventoryInv, [Next]_vars PROVE InventoryInv'
  OBVIOUS
<1>1. ASSUME NEW g \in Gateways, GatewayStep(g) PROVE InventoryInv'
  <2>1. GatewayTypeOK
    BY DEF InventoryInv, TypeOK
  <2>2. GatewayTypeOK'
    BY <1>1, <2>1, SettleTypes, TimerTypes DEF GatewayStep
  <2> QED
    BY <1>1, <2>2, RegistryStays DEF GatewayStep, serverVars, InventoryInv, TypeOK
<1>2. CASE UNCHANGED vars
  <2>1. GatewayTypeOK'
    BY <1>2 DEF vars, gatewayVars, GatewayTypeOK, InventoryInv, TypeOK
  <2> QED
    BY <1>2, <2>1, RegistryStays DEF vars, serverVars, InventoryInv, TypeOK
<1> QED
  BY <1>1, <1>2, ChangeInventory, CallInventory DEF Next

THEOREM SpecInventory == Spec => []InventoryInv
  BY InitInventory, StepInventory, PTL DEF Spec

(* Each variable has its type in every reachable state. *)
THEOREM TypeCorrect == Spec => []TypeOK
<1>1. InventoryInv => TypeOK
  BY DEF InventoryInv
<1> QED
  BY <1>1, SpecInventory, PTL

(* The inventory holds each served tool once and no other, whatever starts register over and   *)
(* over and whichever backend cannot remove (Server.ts:127-132).                               *)
THEOREM InventoryIsTrue == Spec => []ToolsCounted
<1>1. InventoryInv => ToolsCounted
  BY DEF InventoryInv
<1> QED
  BY <1>1, SpecInventory, PTL

-----------------------------------------------------------------------------
(* The gateways.  On one that was not crossed, one connect or disconnect   *)
(* is under way at most, and its client is the client of the moment.       *)

\* While a connect is under way no timer is armed; one that is armed is the one disconnect
\* clears.  A start that connects while a timer is armed breaks that.
TimersHeld(g) ==
  /\ armed[g] \subseteq {timer[g]}
  /\ attempts[g] # {} \/ closing[g] # {} \/ status[g] = "disconnected" => armed[g] = {}

OneAtATime(g) ==
  /\ \A a, b \in attempts[g] : a = b
  /\ \A d, e \in closing[g] : d = e
  /\ attempts[g] = {} \/ closing[g] = {}
  /\ \A a \in attempts[g] : a.client = client[g] /\ (a.await = "listTools" => a.client \in live[g])
  /\ attempts[g] # {} => status[g] = "connecting"
  /\ \A d \in closing[g] : d.client = client[g]
  /\ status[g] = "connected" => client[g] \in live[g]
  /\ status[g] = "disconnected" => client[g] = 0 /\ ~Busy(g)
  /\ g \notin hastened => TimersHeld(g)

Uncrossed == \A g \in Gateways \ crossed : OneAtATime(g)

GatewayInv == GatewayTypeOK /\ Uncrossed /\ ErrorIsRetried

LEMMA InitGateways == Init => GatewayInv
<1> SUFFICES ASSUME Init PROVE GatewayInv
  OBVIOUS
<1>1. GatewayTypeOK
  BY InitTypes DEF TypeOK
<1>2. Uncrossed /\ ErrorIsRetried
  BY GatewayAssumption
  DEF Init, GatewayInit, Uncrossed, OneAtATime, TimersHeld, Busy, ErrorIsRetried
<1> QED
  BY <1>1, <1>2 DEF GatewayInv

\* What a gateway that a step leaves alone keeps.
LEMMA OneStays ==
  ASSUME NEW g \in Gateways, OneAtATime(g),
         status'[g] = status[g], client'[g] = client[g], timer'[g] = timer[g],
         attempts'[g] = attempts[g], closing'[g] = closing[g], armed'[g] = armed[g],
         live'[g] = live[g], hastened \subseteq hastened'
  PROVE  OneAtATime(g)'
  BY DEF OneAtATime, TimersHeld, Busy

\* A gateway connects that nothing was under way on; if it is not hastened, no timer is left.
LEMMA BegunOne ==
  ASSUME GatewayTypeOK, NEW g \in Gateways, NEW gs \in SUBSET Gateways, g \in gs,
         NEW by \in Callers \cup {None}, Connect(gs, by), MayConnect(g), g \notin crossed',
         live' = live, closing' = closing, g \notin hastened' => armed'[g] = {}
  PROVE  OneAtATime(g)'
<1>1. attempts[g] = {} /\ closing[g] = {}
  BY DEF Connect, Busy
<1>2. PICK a : a = [client |-> made[g] + 1, await |-> "connect", by |-> by]
  OBVIOUS
<1>3. /\ attempts'[g] = {a} /\ a.client = made[g] + 1 /\ a.await = "connect"
      /\ client'[g] = made[g] + 1 /\ status'[g] = "connecting" /\ closing'[g] = {}
  BY <1>1, <1>2 DEF Connect
<1> QED
  BY <1>3 DEF OneAtATime, TimersHeld, Busy

LEMMA ConnectAllKeeps ==
  ASSUME GatewayInv, NEW by \in Callers, ConnectAll(by)
  PROVE  GatewayInv'
<1>1. GatewayTypeOK'
  BY ConnectAllTypes DEF GatewayInv
<1>2. Connect(Gateways, by) /\ crossed \subseteq crossed' /\ hastened \subseteq hastened'
      /\ UNCHANGED <<timer, closing, armed, live>>
  BY DEF ConnectAll, Connect
<1>3. ASSUME NEW g \in Gateways \ crossed' PROVE OneAtATime(g)'
  <2>1. OneAtATime(g)
    BY <1>2, <1>3 DEF GatewayInv, Uncrossed
  <2>2. CASE MayConnect(g)
    <3>1. g \notin hastened' => armed'[g] = {}
      BY <2>2 DEF ConnectAll
    <3> QED
      BY <1>2, <1>3, <2>2, <3>1, BegunOne DEF GatewayInv
  <2>3. CASE ~MayConnect(g)
    <3>1. status'[g] = status[g] /\ client'[g] = client[g] /\ attempts'[g] = attempts[g]
      BY <1>2, <2>3 DEF Connect
    <3> QED
      BY <1>2, <2>1, <3>1, OneStays
  <2> QED
    BY <2>2, <2>3
<1>4. ErrorIsRetried'
  <2> SUFFICES ASSUME NEW g \in Reconnecting, status'[g] = "error"
               PROVE  armed'[g] # {} \/ Busy(g)'
    BY DEF ErrorIsRetried
  <2>1. g \in Gateways
    BY GatewayAssumption
  <2>2. ~MayConnect(g) /\ status[g] = "error"
    BY <1>2, <2>1 DEF Connect
  <2> QED
    BY <2>2 DEF MayConnect
<1> QED
  BY <1>1, <1>3, <1>4 DEF GatewayInv, Uncrossed

LEMMA TimerKeeps ==
  ASSUME GatewayInv, NEW h \in Gateways, NEW t \in armed[h], TimerFires(h, t)
  PROVE  GatewayInv'
<1>1. GatewayTypeOK'
  BY TimerTypes DEF GatewayInv
<1>2. Connect({h}, None) /\ crossed \subseteq crossed' /\ hastened' = hastened
      /\ UNCHANGED <<timer, closing, live>>
  BY DEF TimerFires, Connect
<1>3. ASSUME NEW g \in Gateways \ {h}
      PROVE  status'[g] = status[g] /\ client'[g] = client[g] /\ attempts'[g] = attempts[g]
             /\ armed'[g] = armed[g]
  BY <1>2, <1>3 DEF Connect, TimerFires, GatewayInv, GatewayTypeOK
<1>4. armed'[h] = armed[h] \ {t}
  BY DEF TimerFires, GatewayInv, GatewayTypeOK
<1>5. ASSUME NEW g \in Gateways \ crossed' PROVE OneAtATime(g)'
  <2>1. OneAtATime(g)
    BY <1>2, <1>5 DEF GatewayInv, Uncrossed
  <2>2. CASE g # h
    BY <1>2, <1>3, <2>1, <2>2, OneStays
  <2>3. CASE g = h /\ MayConnect(h)
    <3>1. h \notin hastened' => armed'[h] = {}
      BY <1>2, <1>4, <2>1, <2>3 DEF OneAtATime, TimersHeld
    <3> QED
      BY <1>2, <1>5, <2>3, <3>1, BegunOne DEF GatewayInv
  <2>4. CASE g = h /\ ~MayConnect(h)
    <3>1. status'[h] = status[h] /\ client'[h] = client[h] /\ attempts'[h] = attempts[h]
      BY <1>2, <2>4 DEF Connect
    <3> QED
      BY <1>2, <1>4, <2>1, <2>4, <3>1 DEF OneAtATime, TimersHeld, Busy
  <2> QED
    BY <2>2, <2>3, <2>4
<1>6. ErrorIsRetried'
  <2> SUFFICES ASSUME NEW g \in Reconnecting, status'[g] = "error"
               PROVE  armed'[g] # {} \/ Busy(g)'
    BY DEF ErrorIsRetried
  <2>1. g \in Gateways
    BY GatewayAssumption
  <2>2. CASE g # h
    BY <1>2, <1>3, <2>1, <2>2 DEF GatewayInv, ErrorIsRetried, Busy
  <2>3. CASE g = h
    <3>1. ~MayConnect(h) /\ status[h] = "error"
      BY <1>2, <2>1, <2>3 DEF Connect
    <3> QED
      BY <3>1 DEF MayConnect
  <2> QED
    BY <2>2, <2>3
<1> QED
  BY <1>1, <1>5, <1>6 DEF GatewayInv, Uncrossed

\* A step of one gateway by itself.
LEMMA SettleKeeps ==
  ASSUME GatewayInv, NEW g \in Gateways, Settle(g)
  PROVE  GatewayInv'
<1>1. GatewayTypeOK'
  BY SettleTypes DEF GatewayInv
<1>2. UNCHANGED <<crossed, hastened>>
  BY DEF Settle, Connected, Listed, AttemptFails, Disconnected
<1>3. ASSUME NEW h \in Gateways \ {g}
      PROVE  /\ status'[h] = status[h] /\ client'[h] = client[h] /\ timer'[h] = timer[h]
             /\ attempts'[h] = attempts[h] /\ closing'[h] = closing[h] /\ armed'[h] = armed[h]
             /\ live'[h] = live[h]
  BY <1>3 DEF Settle, Connected, Listed, AttemptFails, ScheduleReconnect, Disconnected,
     DisconnectedStatus, GatewayInv, GatewayTypeOK
<1>4. SUFFICES /\ g \notin crossed => OneAtATime(g)'
               /\ g \in Reconnecting /\ status'[g] = "error" => armed'[g] # {} \/ Busy(g)'
  <2>1. ASSUME NEW h \in Gateways \ {g}, h \notin crossed PROVE OneAtATime(h)'
    BY <1>2, <1>3, <2>1, OneStays DEF GatewayInv, Uncrossed
  <2>2. Uncrossed'
    BY <1>2, <1>4, <2>1 DEF Uncrossed
  <2>3. ErrorIsRetried'
    BY <1>3, <1>4, GatewayAssumption DEF ErrorIsRetried, GatewayInv, Busy
  <2> QED
    BY <1>1, <2>2, <2>3 DEF GatewayInv
<1>5. /\ g \notin crossed => OneAtATime(g)
      /\ g \in Reconnecting /\ status[g] = "error" => armed[g] # {} \/ Busy(g)
  BY DEF GatewayInv, Uncrossed, ErrorIsRetried
<1>6. ASSUME NEW a \in attempts[g], Connected(g, a)
      PROVE  /\ g \notin crossed => OneAtATime(g)'
             /\ g \in Reconnecting /\ status'[g] = "error" => armed'[g] # {} \/ Busy(g)'
  <2>1. PICK b : b = [a EXCEPT !.await = "listTools"]
    OBVIOUS
  <2>2. a \in Attempts
    BY DEF GatewayInv, GatewayTypeOK
  <2>3. b.client = a.client /\ b.await = "listTools"
    BY <2>1, <2>2 DEF Attempts
  <2>4. /\ attempts'[g] = (attempts[g] \ {a}) \cup {b} /\ live'[g] = live[g] \cup {a.client}
        /\ UNCHANGED <<status, client, timer, closing, armed>>
    BY <1>6, <2>1 DEF Connected, GatewayInv, GatewayTypeOK
  <2>5. Busy(g) /\ Busy(g)'
    BY <2>4 DEF Busy
  <2> QED
    BY <1>2, <1>5, <2>3, <2>4, <2>5 DEF OneAtATime, TimersHeld
<1>7. ASSUME NEW a \in attempts[g], Listed(g, a)
      PROVE  /\ g \notin crossed => OneAtATime(g)'
             /\ g \in Reconnecting /\ status'[g] = "error" => armed'[g] # {} \/ Busy(g)'
  <2>1. /\ attempts'[g] = attempts[g] \ {a} /\ status'[g] = "connected" /\ a.client \in live[g]
        /\ UNCHANGED <<client, timer, closing, armed, live>>
    BY <1>7 DEF Listed, GatewayInv, GatewayTypeOK
  <2> QED
    BY <1>2, <1>5, <2>1 DEF OneAtATime, TimersHeld, Busy
<1>8. ASSUME NEW a \in attempts[g], AttemptFails(g, a)
      PROVE  /\ g \notin crossed => OneAtATime(g)'
             /\ g \in Reconnecting /\ status'[g] = "error" => armed'[g] # {} \/ Busy(g)'
  <2>1. /\ attempts'[g] = attempts[g] \ {a} /\ status'[g] = "error"
        /\ UNCHANGED <<client, closing, live>>
    BY <1>8 DEF AttemptFails, GatewayInv, GatewayTypeOK
  <2>2. \/ armed'[g] = armed[g] \cup {timer'[g]} /\ g \in Reconnecting
        \/ armed' = armed /\ timer' = timer /\ g \notin Reconnecting
    BY <1>8 DEF AttemptFails, ScheduleReconnect, GatewayInv, GatewayTypeOK
  <2>3. g \notin crossed => OneAtATime(g)'
    BY <1>2, <1>5, <2>1, <2>2 DEF OneAtATime, TimersHeld, Busy
  <2> QED
    BY <2>2, <2>3
<1>9. ASSUME NEW d \in closing[g], Disconnected(g, d)
      PROVE  /\ g \notin crossed => OneAtATime(g)'
             /\ g \in Reconnecting /\ status'[g] = "error" => armed'[g] # {} \/ Busy(g)'
  <2>1. /\ closing'[g] = closing[g] \ {d} /\ status'[g] = "disconnected" /\ client'[g] = 0
        /\ UNCHANGED <<timer, attempts, armed>>
    BY <1>9 DEF Disconnected, DisconnectedStatus, GatewayInv, GatewayTypeOK
  <2> QED
    BY <1>2, <1>5, <2>1 DEF OneAtATime, TimersHeld, Busy
<1> QED
  BY <1>6, <1>7, <1>8, <1>9 DEF Settle

LEMMA DisconnectAllKeeps ==
  ASSUME GatewayInv, NEW by \in Callers, DisconnectAll(by)
  PROVE  GatewayInv'
<1>1. GatewayTypeOK'
  BY DisconnectAllTypes DEF GatewayInv
<1>2. UNCHANGED <<client, attempts, live, hastened>> /\ crossed \subseteq crossed'
      /\ \A g \in Gateways \ crossed' : ~Busy(g)
  BY DEF DisconnectAll
<1>3. ASSUME NEW g \in Gateways, client[g] = 0
      PROVE  closing'[g] = closing[g] /\ status'[g] = "disconnected"
  BY <1>3 DEF DisconnectAll
<1>4. ASSUME NEW g \in Gateways, client[g] # 0
      PROVE  /\ status'[g] = status[g]
             /\ \E d : d.client = client[g] /\ closing'[g] = closing[g] \cup {d}
  <2>1. PICK d : d = [client |-> client[g], by |-> by]
    OBVIOUS
  <2>2. closing'[g] = closing[g] \cup {d} /\ d.client = client[g] /\ status'[g] = status[g]
    BY <1>4, <2>1 DEF DisconnectAll
  <2> QED
    BY <2>2
<1>5. \A g \in Gateways : armed'[g] = armed[g] \ {timer[g]}
  BY DEF DisconnectAll, Cleared
<1>6. ASSUME NEW g \in Gateways \ crossed' PROVE OneAtATime(g)'
  <2>1. OneAtATime(g) /\ attempts[g] = {} /\ closing[g] = {}
    BY <1>2, <1>6 DEF GatewayInv, Uncrossed, Busy
  <2>2. g \notin hastened => armed'[g] = {}
    BY <1>5, <2>1 DEF OneAtATime, TimersHeld
  <2>3. CASE client[g] = 0
    BY <1>2, <1>3, <2>1, <2>2, <2>3 DEF OneAtATime, TimersHeld, Busy
  <2>4. CASE client[g] # 0
    BY <1>2, <1>4, <2>1, <2>2, <2>4 DEF OneAtATime, TimersHeld, Busy
  <2> QED
    BY <2>3, <2>4
<1>7. ErrorIsRetried'
  <2> SUFFICES ASSUME NEW g \in Reconnecting, status'[g] = "error" PROVE Busy(g)'
    BY DEF ErrorIsRetried
  <2>1. g \in Gateways /\ client[g] # 0
    BY <1>3, GatewayAssumption
  <2> QED
    BY <1>4, <2>1 DEF Busy
<1> QED
  BY <1>1, <1>6, <1>7 DEF GatewayInv, Uncrossed

LEMMA StepGateways == GatewayInv /\ [Next]_vars => GatewayInv'
<1> SUFFICES ASSUME GatewayInv, [Next]_vars PROVE GatewayInv'
  OBVIOUS
<1>1. CASE UNCHANGED gatewayVars
  BY <1>1
  DEF gatewayVars, GatewayInv, GatewayTypeOK, Uncrossed, OneAtATime, TimersHeld, Busy,
      ErrorIsRetried
<1>2. ASSUME NEW c \in Callers, ConnectAll(c) PROVE GatewayInv'
  BY <1>2, ConnectAllKeeps
<1>3. ASSUME NEW c \in Callers, DisconnectAll(c) PROVE GatewayInv'
  BY <1>3, DisconnectAllKeeps
<1>4. ASSUME NEW g \in Gateways, GatewayStep(g) PROVE GatewayInv'
  BY <1>4, SettleKeeps, TimerKeeps DEF GatewayStep
<1> QED
  BY <1>1, <1>2, <1>3, <1>4
  DEF Next, vars, AddTool, RemoveTool, AddResource, RemoveResource, Change, Start, BackendStarted,
      ConnectSettled, Stop, DisconnectSettled, BackendStopped

THEOREM SpecGateways == Spec => []GatewayInv
  BY InitGateways, StepGateways, PTL DEF Spec

(* A gateway whose connects and disconnects came one after the other tells its status truly:   *)
(* connected to the client a tool call would use, or disconnected for good (Gateway.ts:63-68,  *)
(* 132-148).                                                                                   *)
THEOREM StatusTrue == Spec => []StatusIsTrue
<1>1. GatewayInv => StatusIsTrue
  BY DEF GatewayInv, Uncrossed, OneAtATime, TimersHeld, StatusIsTrue, Quiet
<1> QED
  BY <1>1, SpecGateways, PTL

(* However connects and disconnects meet, a reconnecting gateway in error has something under  *)
(* way or a timer armed (Gateway.ts:101-113).                                                  *)
THEOREM ErrorRetried == Spec => []ErrorIsRetried
<1>1. GatewayInv => ErrorIsRetried
  BY DEF GatewayInv
<1> QED
  BY <1>1, SpecGateways, PTL

=============================================================================
