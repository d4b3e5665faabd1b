------------------------------ MODULE Gateway ------------------------------
(***************************************************************************)
(* The gateways (src/src/gateway/Gateway.ts) under their manager           *)
(* (GatewayManager.ts): each keeps a client to one remote server, connects *)
(* and disconnects on demand, and after a failure arms a timer to connect  *)
(* again.                                                                  *)
(*                                                                         *)
(* Each action is the code between two awaits.  connect() guards only      *)
(* against being connected, so several attempts may be under way at once;  *)
(* they share the one client, status and timer reference.  Clients and     *)
(* timers are numbered as they are made.  Server.tla drives these actions. *)
(***************************************************************************)
EXTENDS Naturals

CONSTANTS
  Gateways,
  Reconnecting,   \* the gateways that did not turn reconnect off
  Tools,          \* names of tools, remote and local
  MaxClients,     \* bound: how many clients each gateway makes
  Callers,        \* start and stop calls that connect and disconnect
  None

ASSUME GatewayAssumption ==
  /\ MaxClients \in Nat
  /\ Reconnecting \subseteq Gateways
  /\ None \notin Callers \cup Gateways

VARIABLES
  status,       \* currentStatus of each gateway
  client,       \* the client of the moment; 0 for none
  remoteTools,  \* the tools it listed last
  timer,        \* the timer reference; 0 for none
  attempts,     \* connects under way: their client, what they await, and who called
  closing,      \* disconnects under way: the client they close, and who called
  armed,        \* external: timers that will fire
  live,         \* external: clients that are connected
  made,         \* history: clients made so far
  timers,       \* history: timers armed so far
  crossed,      \* history: gateways on which a connect or disconnect met another under way
  hastened      \* history: gateways that a start connected while a timer was about to

gatewayVars == <<status, client, remoteTools, timer, attempts, closing, armed, live, made,
                 timers, crossed, hastened>>

Statuses == {"connected", "connecting", "disconnected", "error"}
Attempts == [client: 1..MaxClients, await: {"connect", "listTools"}, by: Callers \cup {None}]
Closings == [client: 1..MaxClients, by: Callers]

GatewayInit ==
  /\ status = [g \in Gateways |-> "disconnected"]
  /\ client = [g \in Gateways |-> 0]
  /\ remoteTools = [g \in Gateways |-> {}]
  /\ timer = [g \in Gateways |-> 0]
  /\ attempts = [g \in Gateways |-> {}]
  /\ closing = [g \in Gateways |-> {}]
  /\ armed = [g \in Gateways |-> {}]
  /\ live = [g \in Gateways |-> {}]
  /\ made = [g \in Gateways |-> 0]
  /\ timers = [g \in Gateways |-> 0]
  /\ crossed = {}
  /\ hastened = {}

-----------------------------------------------------------------------------
Busy(g) == attempts[g] # {} \/ closing[g] # {}

MayConnect(g) == status[g] # "connected"

\* connect() of each gateway of gs up to its first await: a new client replaces the last one,
\* which nobody closes.
Connect(gs, by) ==
  LET begun == {g \in gs : MayConnect(g)} IN
  /\ \A g \in begun : made[g] < MaxClients
  /\ status' = [g \in Gateways |-> IF g \in begun THEN "connecting" ELSE status[g]]
  /\ made' = [g \in Gateways |-> IF g \in begun THEN made[g] + 1 ELSE made[g]]
  /\ client' = [g \in Gateways |-> IF g \in begun THEN made[g] + 1 ELSE client[g]]
  /\ attempts' = [g \in Gateways |->
       IF g \in begun
       THEN attempts[g] \cup {[client |-> made[g] + 1, await |-> "connect", by |-> by]}
       ELSE attempts[g]]
  /\ crossed' = crossed \cup {g \in begun : Busy(g)}

\* manager.connectAll.
ConnectAll(by) ==
  /\ Connect(Gateways, by)
  /\ hastened' = hastened \cup {g \in Gateways : MayConnect(g) /\ armed[g] # {}}
  /\ UNCHANGED <<remoteTools, timer, closing, armed, live, timers>>

\* The reconnect timer fires; the reference to it stays.
TimerFires(g, t) ==
  /\ t \in armed[g]
  /\ armed' = [armed EXCEPT ![g] = @ \ {t}]
  /\ Connect({g}, None)
  /\ UNCHANGED <<remoteTools, timer, closing, live, timers, hastened>>

\* c.connect resolves.
Connected(g, a) ==
  /\ a \in attempts[g] /\ a.await = "connect"
  /\ live' = [live EXCEPT ![g] = @ \cup {a.client}]
  /\ attempts' = [attempts EXCEPT ![g] = (@ \ {a}) \cup {[a EXCEPT !.await = "listTools"]}]
  /\ UNCHANGED <<status, client, remoteTools, timer, closing, armed, made, timers, crossed, hastened>>

\* c.listTools resolves.
Listed(g, a) ==
  /\ a \in attempts[g] /\ a.await = "listTools"
  /\ a.client \in live[g]
  /\ \E offered \in SUBSET Tools : remoteTools' = [remoteTools EXCEPT ![g] = offered]
  /\ status' = [status EXCEPT ![g] = "connected"]
  /\ attempts' = [attempts EXCEPT ![g] = @ \ {a}]
  /\ UNCHANGED <<client, timer, closing, armed, live, made, timers, crossed, hastened>>

ScheduleReconnect_Not(g) == UNCHANGED <<armed, timer, timers>>

\* scheduleReconnect: the reference is set anew, and a timer it held before is not cleared.
ScheduleReconnect(g) ==
  /\ timers' = [timers EXCEPT ![g] = @ + 1]
  /\ armed' = [armed EXCEPT ![g] = @ \cup {timers[g] + 1}]
  /\ timer' = [timer EXCEPT ![g] = timers[g] + 1]

\* The attempt fails, at either of its awaits.  A client that was connected stays so.
AttemptFails(g, a) ==
  /\ a \in attempts[g]
  /\ status' = [status EXCEPT ![g] = "error"]
  /\ attempts' = [attempts EXCEPT ![g] = @ \ {a}]
  /\ \/ g \in Reconnecting /\ ScheduleReconnect(g)
     \/ g \notin Reconnecting /\ UNCHANGED <<armed, timer, timers>>
  /\ UNCHANGED <<client, remoteTools, closing, live, made, crossed, hastened>>

-----------------------------------------------------------------------------
Cleared_ReferenceOnly(g) == armed[g]

\* clearTimeout, of the timer the reference holds.
Cleared(g) == armed[g] \ {timer[g]}

\* manager.disconnectAll up to the first awaits: a gateway without a client is done at once.
DisconnectAll(by) ==
  LET done == {g \in Gateways : client[g] = 0} IN
  /\ armed' = [g \in Gateways |-> Cleared(g)]
  /\ timer' = [g \in Gateways |-> 0]
  /\ closing' = [g \in Gateways |->
       IF g \in done THEN closing[g] ELSE closing[g] \cup {[client |-> client[g], by |-> by]}]
  /\ status' = [g \in Gateways |-> IF g \in done THEN "disconnected" ELSE status[g]]
  /\ remoteTools' = [g \in Gateways |-> IF g \in done THEN {} ELSE remoteTools[g]]
  /\ crossed' = crossed \cup {g \in Gateways : Busy(g)}
  /\ UNCHANGED <<client, attempts, live, made, timers, hastened>>

DisconnectedStatus(g) == [status EXCEPT ![g] = "disconnected"]

\* The client is closed, or closing it fails; the rest is forgotten either way.
Disconnected(g, d) ==
  /\ d \in closing[g]
  /\ closing' = [closing EXCEPT ![g] = @ \ {d}]
  /\ live' = [live EXCEPT ![g] = @ \ {d.client}]
  /\ client' = [client EXCEPT ![g] = 0]
  /\ remoteTools' = [remoteTools EXCEPT ![g] = {}]
  /\ status' = DisconnectedStatus(g)
  /\ UNCHANGED <<timer, attempts, armed, made, timers, crossed, hastened>>

\* What goes on by itself.
Settle(g) ==
  \/ \E a \in attempts[g] : Connected(g, a) \/ Listed(g, a) \/ AttemptFails(g, a)
  \/ \E d \in closing[g] : Disconnected(g, d)

-----------------------------------------------------------------------------
GatewayTypeOK ==
  /\ status \in [Gateways -> Statuses]
  /\ client \in [Gateways -> 0..MaxClients]
  /\ remoteTools \in [Gateways -> SUBSET Tools]
  /\ timer \in [Gateways -> Nat]
  /\ attempts \in [Gateways -> SUBSET Attempts]
  /\ closing \in [Gateways -> SUBSET Closings]
  /\ armed \in [Gateways -> SUBSET Nat]
  /\ live \in [Gateways -> SUBSET (1..MaxClients)]
  /\ made \in [Gateways -> 0..MaxClients]
  /\ timers \in [Gateways -> Nat]
  /\ crossed \subseteq Gateways /\ hastened \subseteq Gateways

\* Nothing is left that would connect gateway g again by itself.
Quiet(g) == armed[g] = {} /\ ~Busy(g) /\ client[g] = 0

(* A gateway's status is true, through failures, reconnects and restarts, as long as its      *)
(* connects and disconnects come one after the other.  Connected, it has the client a tool    *)
(* call would use, and that client is connected (Gateway.ts:63-68); disconnected, it stays so *)
(* until someone connects it: neither a timer, unless it was connected again while one was    *)
(* armed, nor an attempt begun before is left (Gateway.ts:132-148).                           *)
StatusIsTrue ==
  \A g \in Gateways \ crossed :
    /\ status[g] = "connected" => client[g] \in live[g]
    /\ status[g] = "disconnected" /\ g \notin hastened => Quiet(g)

(* A gateway in error is never stuck there: however connects and disconnects meet, something  *)
(* is under way, or a timer will retry (Gateway.ts:101-113).                                  *)
ErrorIsRetried ==
  \A g \in Reconnecting : status[g] = "error" => armed[g] # {} \/ Busy(g)

=============================================================================
