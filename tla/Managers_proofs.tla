---------------------------- MODULE Managers_proofs ----------------------------
(***************************************************************************)
(* Proofs about the device managers, for every set of devices, switches,   *)
(* nodes and values and any number of requests, retries and changes of the *)
(* network: what the dongle has been told, which device an event belongs   *)
(* to, which values of the network are known, and that the tables of       *)
(* requests, replies and results fit together.                             *)
(***************************************************************************)
EXTENDS Managers, FiniteSetTheorems, TLAPS

(***************************************************************************)
(* setSwitch() of two threads over one line                                *)
(***************************************************************************)

(* What setSwitch() reads and writes. *)
lineVars == <<pg, packet, dongle, agreed>>

(* The packets are records, or nothing. *)
Formed ==
  /\ packet = [t \in Setters |-> packet[t]]
  /\ \A t \in Setters : packet[t] # None =>
       packet[t] = [outputs |-> packet[t].outputs, good |-> packet[t].good,
                    bad |-> packet[t].bad, disturbed |-> packet[t].disturbed]

LineInv == Formed /\ PacketsInv /\ SwitchAgrees

(* A new setSwitch() disturbs the other one, if there is any. *)
LEMMA StartsSwitch ==
  ASSUME LineInv, NEW t \in Setters, NEW device, NEW value, StartSwitch(t, device, value)
  PROVE  LineInv'
<1>1. /\ packet[t] = None /\ ~agreed' /\ dongle' = dongle
      /\ packet' = [u \in Setters |->
           IF u = t
             THEN [outputs |-> None, good |-> 0, bad |-> 0,
                   disturbed |-> \E v \in Setters : packet[v] # None]
             ELSE IF packet[u] = None THEN None ELSE [packet[u] EXCEPT !.disturbed = TRUE]]
  BY DEF StartSwitch
<1>2. /\ packet'[t].outputs = None /\ packet'[t].good = 0
      /\ packet'[t] = [outputs |-> None, good |-> 0, bad |-> 0, disturbed |-> packet'[t].disturbed]
      /\ packet'[t].disturbed <=> \E v \in Setters : packet[v] # None
  BY <1>1
<1>3. ASSUME NEW u \in Setters, u # t
      PROVE  /\ packet[u] = None => packet'[u] = None
             /\ packet'[u] # None => packet'[u].disturbed
  BY <1>1, <1>3 DEF LineInv, Formed
<1>4. Formed'
  BY <1>1, <1>2 DEF LineInv, Formed
<1>5. PacketsInv'
  BY <1>1, <1>2, <1>3 DEF PacketsInv
<1> QED
  BY <1>1, <1>4, <1>5 DEF LineInv, SwitchAgrees

(* The undisturbed packet goes on alone; at its end the dongle has it.      *)
LEMMA SwitchGoesOn ==
  ASSUME LineInv, NEW t \in Setters, Switching(t)
  PROVE  LineInv'
<1> USE DEF LineInv, Formed, PacketsInv, SwitchAgrees
<1>1. CASE Build(t)
  BY <1>1 DEF Build
<1>2. CASE Transmit(t)
  BY <1>2 DEF Transmit
<1>3. CASE EndSwitch(t)
  <2>1. /\ packet[t] # None /\ packet' = [packet EXCEPT ![t] = None]
        /\ pg' = pg /\ dongle' = dongle
        /\ agreed' => ~packet[t].disturbed /\ packet[t].good > 0
    BY <1>3 DEF EndSwitch
  <2>2. packet'[t] = None /\ \A u \in Setters : u # t => packet'[u] = packet[u]
    BY <2>1
  <2>3. Formed'
    BY <2>1, <2>2
  <2>4. agreed' => dongle = pg /\ \A u \in Setters : packet'[u] = None
    BY <2>1, <2>2
  <2>5. PacketsInv'
    BY <2>1, <2>2, <2>4
  <2> QED
    BY <2>1, <2>3, <2>4, <2>5
<1> QED
  BY <1>1, <1>2, <1>3 DEF Switching

(* To the line, a step of a manager is one of setSwitch() or nothing; only *)
(* a value of the server and a set command start one.                      *)
LEMMA StepOfLine ==
  ASSUME [Next]_vars
  PROVE  TakeOne \/ DoSetValuesCommand \/ (\E t \in Setters : Switching(t)) \/ UNCHANGED lineVars
<1> USE DEF lineVars, switchVars, Setters
<1>1. CASE CheckQueue \/ BatchDone \/ OpenSerial \/ LoadRegDevices \/ AskForValue \/ Loaded
           \/ ReadNothing \/ Message \/ SendEvent
  BY <1>1 DEF CheckQueue, BatchDone, OpenSerial, LoadRegDevices, AskForValue, Loaded, ReadNothing,
              Message, ReadMessage, SendEvent
<1>2. CASE SwitchStep("main") \/ SwitchStep("client")
  BY <1>2 DEF SwitchStep
<1>3. CASE ClientReply \/ ClientContent \/ DoDeviceUnpairCommand \/ DoListenCommand \/ StopListen
           \/ TimerEnters
  BY <1>3 DEF ClientReply, ClientContent, DoDeviceUnpairCommand, DoListenCommand, StopListen, TimerEnters,
              jablotronVars
<1>4. CASE UNCHANGED jablotronVars
  BY <1>4 DEF jablotronVars
<1> QED
  BY <1>1, <1>2, <1>3, <1>4 DEF Next, Jablotron, MainLoop, Client, vars

LEMMA StartOfLine ==
  ASSUME TakeOne \/ DoSetValuesCommand
  PROVE  (\E t \in Setters : \E device, value : StartSwitch(t, device, value)) \/ UNCHANGED lineVars
BY DEF TakeOne, DoSetValuesCommand, lineVars, switchVars, Setters

LEMMA LineInit == Init => LineInv
BY DEF Init, JablotronInit, LineInv, Formed, PacketsInv, SwitchAgrees, Setters

LEMMA LineStep ==
  ASSUME LineInv, [Next]_vars
  PROVE  LineInv'
<1>1. CASE UNCHANGED lineVars
  BY <1>1 DEF lineVars, LineInv, Formed, PacketsInv, SwitchAgrees
<1> QED
  BY <1>1, StepOfLine, StartOfLine, StartsSwitch, SwitchGoesOn

(* Whatever the two threads have mixed up on the line before: once a       *)
(* setSwitch() ran alone and got through, the dongle has been told what    *)
(* the manager believes of both outputs.                                   *)
THEOREM SwitchesAgree == Spec => []SwitchAgrees
<1>1. LineInv => SwitchAgrees
  BY DEF LineInv
<1>2. LineInv /\ [Next]_vars => LineInv'
  BY LineStep
<1> QED
  BY <1>1, <1>2, LineInit, PTL DEF Spec

(***************************************************************************)
(* Events of sensors                                                       *)
(***************************************************************************)

LEMMA EventStep ==
  ASSUME EventInv, [Next]_vars
  PROVE  EventInv'
<1> USE DEF EventInv, eventVars, listenVars
<1>1. CASE TakeOne \/ CheckQueue \/ BatchDone \/ OpenSerial \/ LoadRegDevices \/ AskForValue \/ Loaded
           \/ ReadNothing
  BY <1>1 DEF TakeOne, CheckQueue, BatchDone, OpenSerial, LoadRegDevices, AskForValue, Loaded, ReadNothing
<1>2. CASE Message
  <2>1. PICK serial \in Devices, word \in Words : ReadMessage(serial, word, 1)
    BY <1>2 DEF Message
  <2>2. /\ jpc = "read" /\ jpc' = "sent" /\ following' = serial
        /\ event' \in {event, serial} /\ listen' = listen
    BY <2>1 DEF ReadMessage
  <2> QED
    BY <2>2
<1>3. CASE SendEvent
  BY <1>3 DEF SendEvent
<1>4. CASE SwitchStep("main") \/ SwitchStep("client")
  BY <1>4 DEF SwitchStep
<1>5. CASE DoSetValuesCommand \/ ClientReply \/ ClientContent \/ DoDeviceUnpairCommand \/ TimerEnters
  BY <1>5 DEF DoSetValuesCommand, ClientReply, ClientContent, DoDeviceUnpairCommand, TimerEnters, jablotronVars
<1>6. CASE DoListenCommand \/ StopListen
  BY <1>6 DEF DoListenCommand, StopListen
<1>7. CASE UNCHANGED jablotronVars
  BY <1>7 DEF jablotronVars
<1> QED
  BY <1>1, <1>2, <1>3, <1>4, <1>5, <1>6, <1>7 DEF Next, Jablotron, MainLoop, Client, vars

LEMMA EventInit == Init => EventInv
BY DEF Init, JablotronInit, EventInv

(* The message that switches an event off is about the device that has     *)
(* raised it: no event is left over when the next message is read.         *)
THEOREM EventsAreSwitchedOff == Spec => []NoEventLeftOver
<1>1. EventInv /\ [Next]_vars => EventInv'
  BY EventStep
<1>2. EventInv => NoEventLeftOver
  BY DEF EventInv, NoEventLeftOver
<1> QED
  BY <1>1, <1>2, EventInit, PTL DEF Spec

(***************************************************************************)
(* The nodes and values of a Z-Wave network                                *)
(***************************************************************************)

NotificationTypes == {"NodeAdded", "NodeRemoved", "ValueAdded", "ValueRemoved", "Queried"}
Notifications ==
  [type : NotificationTypes, node : Nodes \cup {None}, value : NodeValues \cup {None}]

(* What OpenZWave and its notifications read and write. *)
knownVars == <<network, queued, nodesMap>>

Shaped ==
  /\ queued \in Seq(Notifications)
  /\ network = [node \in DOMAIN network |-> network[node]]
  /\ DOMAIN network \subseteq Nodes /\ \A node \in DOMAIN network : network[node] \subseteq NodeValues
  /\ nodesMap = [node \in DOMAIN nodesMap |-> nodesMap[node]]

KnownInv == Shaped /\ NoStaleValues /\ NoStaleNews

(* A notification goes behind all others; one that says that a node or a   *)
(* value goes says so of all that are before it.                           *)
LEMMA Tells ==
  ASSUME Shaped, NEW node \in Nodes \cup {None}, NEW value \in NodeValues \cup {None},
         NEW type \in NotificationTypes,
         Tell(type, node, value)
  PROVE  /\ Len(queued) \in Nat /\ Len(queued') = Len(queued) + 1
         /\ queued' \in Seq(Notifications)
         /\ \A k \in 1..Len(queued) : queued'[k] = queued[k]
         /\ queued'[Len(queued')] = [type |-> type, node |-> node, value |-> value]
         /\ \A n \in Nat : \A m, v : LeavesBehind(n, m, v) => LeavesBehind(n, m, v)'
         /\ type = "NodeRemoved" => \A n \in 0..Len(queued) : \A v : LeavesBehind(n, node, v)'
         /\ type = "ValueRemoved" => \A n \in 0..Len(queued) : LeavesBehind(n, node, value)'
<1> USE DEF Notifications
<1> DEFINE new == [type |-> type, node |-> node, value |-> value]
<1>1. queued' = Append(queued, new)
  BY DEF Tell
<1>2. /\ Len(queued) \in Nat /\ Len(queued') = Len(queued) + 1
      /\ \A k \in 1..Len(queued) : queued'[k] = queued[k]
      /\ queued'[Len(queued')] = new
  BY <1>1 DEF Shaped
<1>3. queued' \in Seq(Notifications)
  BY <1>1 DEF Shaped
<1>4. ASSUME NEW n \in Nat, NEW m, NEW v, LeavesBehind(n, m, v) PROVE LeavesBehind(n, m, v)'
  BY <1>2, <1>4 DEF LeavesBehind
<1>5. ASSUME type = "NodeRemoved", NEW n \in 0..Len(queued), NEW v PROVE LeavesBehind(n, node, v)'
  BY <1>2, <1>5 DEF LeavesBehind
<1>6. ASSUME type = "ValueRemoved", NEW n \in 0..Len(queued) PROVE LeavesBehind(n, node, value)'
  BY <1>2, <1>6 DEF LeavesBehind
<1> QED
  BY <1>2, <1>3, <1>4, <1>5, <1>6

(* A change of the network is told behind all that is on its way, so what  *)
(* was there or was leaving is there or is leaving.                        *)
LEMMA ChangeStep ==
  ASSUME KnownInv, NetworkChanges
  PROVE  KnownInv'
<1> USE DEF NotificationTypes
<1> DEFINE Kept == \A n \in 0..Len(queued) : \A m, v : ThereOrLeaving(n, m, v) => ThereOrLeaving(n, m, v)'
<1>0. Shaped /\ nodesMap' = nodesMap
  BY DEF KnownInv, NetworkChanges
<1>7. ASSUME \A n \in Nat : \A m, v : LeavesBehind(n, m, v) => LeavesBehind(n, m, v)',
             \A m \in DOMAIN network : \A v \in network[m] :
               \/ m \in DOMAIN network' /\ v \in network'[m]
               \/ \A n \in 0..Len(queued) : LeavesBehind(n, m, v)'
      PROVE  Kept
  BY <1>7 DEF ThereOrLeaving
<1>1. ASSUME NEW node \in Nodes \cup {None}, NEW value \in NodeValues \cup {None},
             NEW type \in NotificationTypes,
             Tell(type, node, value), Kept,
             type = "ValueAdded" => node \in DOMAIN network' /\ value \in network'[node]
      PROVE  NoStaleValues' /\ NoStaleNews'
  <2>1. /\ Len(queued) \in Nat /\ Len(queued') = Len(queued) + 1
        /\ \A k \in 1..Len(queued) : queued'[k] = queued[k]
        /\ queued'[Len(queued')] = [type |-> type, node |-> node, value |-> value]
    BY <1>0, <1>1, Tells
  <2>2. NoStaleValues'
    BY <1>0, <1>1, <2>1 DEF KnownInv, NoStaleValues
  <2>3. ASSUME NEW k \in 1..Len(queued'), queued'[k].type = "ValueAdded"
        PROVE  ThereOrLeaving(k, queued[k].node, queued[k].value)'
    <3>1. CASE k \in 1..Len(queued)
      <4>1. queued'[k] = queued[k] /\ k \in 0..Len(queued)
        BY <2>1, <3>1
      <4>2. ThereOrLeaving(k, queued[k].node, queued[k].value)
        BY <2>3, <3>1, <4>1 DEF KnownInv, NoStaleNews
      <4> QED
        BY <1>1, <4>1, <4>2
    <3>2. CASE k = Len(queued')
      BY <1>1, <2>1, <2>3, <3>2 DEF ThereOrLeaving
    <3> QED
      BY <2>1, <3>1, <3>2
  <2>4. NoStaleNews'
    BY <2>3 DEF NoStaleNews
  <2> QED BY <2>2, <2>4
<1>2. ASSUME NEW node \in Nodes \ DOMAIN network, network' = Insert(network, node, {}),
             Tell("NodeAdded", node, None)
      PROVE  KnownInv'
  <2>1. /\ network' = [m \in DOMAIN network \cup {node} |-> IF m \in DOMAIN network THEN network[m] ELSE {}]
    BY <1>2 DEF Insert
  <2>2. Kept
    <3>1. /\ \A n \in Nat : \A m, v : LeavesBehind(n, m, v) => LeavesBehind(n, m, v)'
      BY <1>0, <1>2, <2>1, Tells
    <3> QED
      BY <1>0, <1>2, <1>7, <2>1, <3>1 DEF Shaped
  <2> QED
    BY <1>0, <1>1, <1>2, <2>1, <2>2, Tells DEF KnownInv, Shaped
<1>3. ASSUME NEW node \in DOMAIN network, network' = Restrict(network, DOMAIN network \ {node}),
             Tell("NodeRemoved", node, None)
      PROVE  KnownInv'
  <2>1. network' = [m \in DOMAIN network \ {node} |-> network[m]] /\ node \in Nodes
    BY <1>0, <1>3 DEF Restrict, Shaped
  <2>2. Kept
    <3>1. /\ \A n \in Nat : \A m, v : LeavesBehind(n, m, v) => LeavesBehind(n, m, v)'
          /\ \A n \in 0..Len(queued) : \A v : LeavesBehind(n, node, v)'
      BY <1>0, <1>3, <2>1, Tells
    <3>2. ASSUME NEW m \in DOMAIN network, NEW v \in network[m]
          PROVE  \/ m \in DOMAIN network' /\ v \in network'[m]
                 \/ \A n \in 0..Len(queued) : LeavesBehind(n, m, v)'
      <4>1. CASE m = node
        BY <3>1, <4>1
      <4>2. CASE m # node
        BY <2>1, <4>2
      <4> QED BY <4>1, <4>2
    <3> QED
      BY <1>7, <3>1, <3>2
  <2> QED
    BY <1>0, <1>1, <1>3, <2>1, <2>2, Tells DEF KnownInv, Shaped
<1>4. ASSUME NEW node \in DOMAIN network, NEW value \in NodeValues,
             network' = [network EXCEPT ![node] = @ \cup {value}], Tell("ValueAdded", node, value)
      PROVE  KnownInv'
  <2>1. node \in Nodes
    BY <1>0 DEF Shaped
  <2>2. Kept
    <3>1. /\ \A n \in Nat : \A m, v : LeavesBehind(n, m, v) => LeavesBehind(n, m, v)'
      BY <1>0, <1>4, <2>1, Tells
    <3> QED
      BY <1>0, <1>4, <1>7, <2>1, <3>1 DEF Shaped
  <2> QED
    BY <1>0, <1>1, <1>4, <2>1, <2>2, Tells DEF KnownInv, Shaped
<1>5. ASSUME NEW node \in DOMAIN network, NEW value \in network[node],
             network' = [network EXCEPT ![node] = @ \ {value}], Tell("ValueRemoved", node, value)
      PROVE  KnownInv'
  <2>1. node \in Nodes /\ value \in NodeValues
    BY <1>0 DEF Shaped
  <2>2. Kept
    <3>1. /\ \A n \in Nat : \A m, v : LeavesBehind(n, m, v) => LeavesBehind(n, m, v)'
          /\ \A n \in 0..Len(queued) : LeavesBehind(n, node, value)'
      BY <1>0, <1>5, <2>1, Tells
    <3> QED
      BY <1>0, <1>5, <1>7, <2>1, <3>1 DEF Shaped
  <2> QED
    BY <1>0, <1>1, <1>5, <2>1, <2>2, Tells DEF KnownInv, Shaped
<1>6. ASSUME network' = network, Tell("Queried", None, None) PROVE KnownInv'
  <2>1. Kept
    <3>1. \A n \in Nat : \A m, v : LeavesBehind(n, m, v) => LeavesBehind(n, m, v)'
      BY <1>0, <1>6, Tells
    <3> QED
      BY <1>6, <1>7, <3>1
  <2> QED
    BY <1>0, <1>1, <1>6, <2>1, Tells DEF KnownInv, Shaped
<1> QED
  BY <1>2, <1>3, <1>4, <1>5, <1>6 DEF NetworkChanges

(* The first notification leaves: what the others say stays said.          *)
LEMMA Arrives ==
  ASSUME Shaped, queued # << >>, queued' = Tail(queued), network' = network
  PROVE  /\ queued' \in Seq(Notifications)
         /\ \A n \in Nat : \A m, v : ThereOrLeaving(n + 1, m, v) => ThereOrLeaving(n, m, v)'
         /\ \A m, v : ThereOrLeaving(0, m, v) =>
              \/ ThereOrLeaving(0, m, v)'
              \/ Head(queued).type \in {"NodeRemoved", "ValueRemoved"} /\ Head(queued).node = m
         /\ NoStaleNews => NoStaleNews'
<1> USE DEF Notifications
<1>1. /\ Len(queued) \in Nat /\ Len(queued') = Len(queued) - 1 /\ Head(queued) = queued[1]
      /\ \A k \in 1..Len(queued') : queued'[k] = queued[k + 1] /\ k + 1 \in 1..Len(queued)
      /\ queued' \in Seq(Notifications)
  BY DEF Shaped
<1>2. ASSUME NEW n \in Nat, NEW m, NEW v, LeavesBehind(n + 1, m, v) PROVE LeavesBehind(n, m, v)'
  <2>1. PICK k \in 1..Len(queued) :
          /\ k > n + 1 /\ queued[k].node = m
          /\ queued[k].type = "NodeRemoved" \/ (queued[k].type = "ValueRemoved" /\ queued[k].value = v)
    BY <1>2 DEF LeavesBehind
  <2>2. k - 1 \in 1..Len(queued') /\ k - 1 > n /\ queued'[k - 1] = queued[k]
    BY <1>1, <2>1
  <2> QED
    BY <2>1, <2>2 DEF LeavesBehind
<1>3. ASSUME NEW n \in Nat, NEW m, NEW v, ThereOrLeaving(n + 1, m, v) PROVE ThereOrLeaving(n, m, v)'
  BY <1>2, <1>3 DEF ThereOrLeaving
<1>4. ASSUME NEW m, NEW v, ThereOrLeaving(0, m, v),
             ~(Head(queued).type \in {"NodeRemoved", "ValueRemoved"} /\ Head(queued).node = m)
      PROVE  ThereOrLeaving(0, m, v)'
  <2>1. CASE LeavesBehind(0, m, v)
    <3>1. PICK k \in 1..Len(queued) :
            /\ queued[k].node = m
            /\ queued[k].type = "NodeRemoved" \/ (queued[k].type = "ValueRemoved" /\ queued[k].value = v)
      BY <2>1 DEF LeavesBehind
    <3>2. k # 1
      BY <1>1, <1>4, <3>1
    <3>3. LeavesBehind(0 + 1, m, v)
      BY <1>1, <3>1, <3>2 DEF LeavesBehind
    <3> QED
      BY <1>2, <3>3 DEF ThereOrLeaving
  <2> QED
    BY <1>4, <2>1 DEF ThereOrLeaving
<1>5. ASSUME NoStaleNews PROVE NoStaleNews'
  <2>1. ASSUME NEW k \in 1..Len(queued'), queued'[k].type = "ValueAdded"
        PROVE  ThereOrLeaving(k, queued[k].node, queued[k].value)'
    <3>1. queued'[k] = queued[k + 1] /\ k + 1 \in 1..Len(queued) /\ k \in Nat
      BY <1>1
    <3>2. ThereOrLeaving(k + 1, queued[k + 1].node, queued[k + 1].value)
      BY <1>5, <2>1, <3>1 DEF NoStaleNews
    <3> QED
      BY <1>3, <3>1, <3>2
  <2> QED
    BY <2>1 DEF NoStaleNews
<1> QED
  BY <1>1, <1>3, <1>4, <1>5

(* A notification makes m_nodesMap follow the network as far as it says:   *)
(* what it adds is there or leaves behind it, what it removes is forgotten. *)
LEMMA DeliverStep ==
  ASSUME KnownInv, Deliver
  PROVE  KnownInv'
<1>1. /\ queued # << >> /\ queued' = Tail(queued) /\ network' = network /\ Shaped
      /\ NoStaleValues /\ NoStaleNews
  BY DEF Deliver, NodeAdded, NodeRemoved, ValueAdded, ValueRemoved, NodesQueried, Delivered, networkVars,
         KnownInv
<1>2. NoStaleNews' /\ (nodesMap' = [m \in DOMAIN nodesMap' |-> nodesMap'[m]] => Shaped')
  BY <1>1, Arrives DEF Shaped
<1>3. \A m, v : ThereOrLeaving(0, m, v) =>
        \/ ThereOrLeaving(0, m, v)'
        \/ Head(queued).type \in {"NodeRemoved", "ValueRemoved"} /\ Head(queued).node = m
  BY <1>1, Arrives
<1>4. CASE NodeAdded
  <2>1. /\ Head(queued).type = "NodeAdded"
        /\ nodesMap' = [n \in DOMAIN nodesMap \cup {Head(queued).node} |->
                         IF n \in DOMAIN nodesMap THEN nodesMap[n] ELSE {}]
    BY <1>4 DEF NodeAdded, Delivered, Insert
  <2>2. NoStaleValues'
    BY <1>1, <1>3, <2>1 DEF NoStaleValues
  <2> QED
    BY <1>2, <2>1, <2>2 DEF KnownInv
<1>5. CASE NodeRemoved \/ ValueRemoved
  <2>1. /\ Head(queued).type \in {"NodeRemoved", "ValueRemoved"}
        /\ nodesMap' = [n \in DOMAIN nodesMap \ {Head(queued).node} |-> nodesMap[n]]
    BY <1>5 DEF NodeRemoved, ValueRemoved, Delivered, Restrict
  <2>2. NoStaleValues'
    BY <1>1, <1>3, <2>1 DEF NoStaleValues
  <2> QED
    BY <1>2, <2>1, <2>2 DEF KnownInv
<1>6. CASE ValueAdded
  <2>0. PICK node, value : node = Head(queued).node /\ value = Head(queued).value
    OBVIOUS
  <2>1. /\ Head(queued).type = "ValueAdded"
        /\ nodesMap' = IF node \in DOMAIN nodesMap THEN [nodesMap EXCEPT ![node] = @ \cup {value}]
                       ELSE nodesMap
    BY <1>6, <2>0 DEF ValueAdded, Delivered, Known
  <2>2. ThereOrLeaving(0, node, value)'
    <3>1. 1 \in 1..Len(queued) /\ Head(queued) = queued[1]
      BY <1>1 DEF Shaped
    <3>2. ThereOrLeaving(1, node, value)
      BY <1>1, <2>0, <2>1, <3>1 DEF NoStaleNews
    <3>3. ThereOrLeaving(0 + 1, node, value)
      BY <3>2
    <3> QED
      BY <1>1, <3>3, Arrives
  <2>3. NoStaleValues'
    <3>1. ASSUME NEW m \in DOMAIN nodesMap', NEW v \in nodesMap'[m] PROVE ThereOrLeaving(0, m, v)'
      <4>1. m \in DOMAIN nodesMap /\ (v \in nodesMap[m] \/ (m = node /\ v = value))
        BY <2>1, <3>1
      <4>2. CASE v \in nodesMap[m]
        BY <1>1, <1>3, <2>1, <4>1, <4>2 DEF NoStaleValues
      <4>3. CASE m = node /\ v = value
        BY <2>2, <4>3
      <4> QED BY <4>1, <4>2, <4>3
    <3> QED
      BY <3>1 DEF NoStaleValues
  <2>4. nodesMap' = [m \in DOMAIN nodesMap' |-> nodesMap'[m]]
    BY <1>1, <2>1 DEF Shaped
  <2> QED
    BY <1>2, <2>3, <2>4 DEF KnownInv
<1>7. CASE NodesQueried
  <2>1. Head(queued).type = "Queried" /\ nodesMap' = nodesMap
    BY <1>7 DEF NodesQueried, Delivered
  <2>2. NoStaleValues'
    BY <1>1, <1>3, <2>1 DEF NoStaleValues
  <2> QED
    BY <1>1, <1>2, <2>1, <2>2 DEF KnownInv, Shaped
<1> QED
  BY <1>4, <1>5, <1>6, <1>7 DEF Deliver

(* The requests, the controller and the timers leave all that alone.       *)
LEMMA StepOfNetwork ==
  ASSUME [Next]_vars
  PROVE  NetworkChanges \/ Deliver \/ UNCHANGED knownVars
<1> USE DEF knownVars, networkVars, zwaveVars
<1>1. CASE Run
  BY <1>1 DEF Run, WaitUntilQueried, FirstList, ZCheckQueue, ZTakeOne, SetLastState, LastStateSet, ZBatchDone
<1>2. CASE ZClient
  BY <1>2 DEF ZClient, ZReply, ZContent, ZDoDeviceUnpairCommand, ZDoListenCommand
<1>3. CASE ZStopListen \/ StopUnpair \/ ZTimerEnters
  BY <1>3 DEF ZStopListen, StopUnpair, ZTimerEnters
<1>4. CASE UNCHANGED zwaveVars
  BY <1>4
<1> QED
  BY <1>1, <1>2, <1>3, <1>4 DEF Next, ZWave, vars

LEMMA KnownInit == Init => KnownInv
<1> SUFFICES ASSUME Init PROVE KnownInv
  OBVIOUS
<1>1. network = << >> /\ queued = << >> /\ nodesMap = << >>
  BY DEF Init, ZWaveInit
<1>2. Len(queued) = 0 /\ DOMAIN network = {} /\ DOMAIN nodesMap = {}
  BY <1>1
<1>3. Shaped
  BY <1>1, <1>2 DEF Shaped
<1> QED
  BY <1>2, <1>3 DEF KnownInv, NoStaleValues, NoStaleNews

LEMMA KnownStep ==
  ASSUME KnownInv, [Next]_vars
  PROVE  KnownInv'
<1>1. CASE UNCHANGED knownVars
  BY <1>1 DEF knownVars, KnownInv, Shaped, NoStaleValues, NoStaleNews, ThereOrLeaving, LeavesBehind
<1> QED
  BY <1>1, StepOfNetwork, ChangeStep, DeliverStep

(* Whatever the network adds and removes and however late the thread of    *)
(* the library says so: no value is known that is gone, unless the         *)
(* notification of it is on its way.                                       *)
THEOREM NoValueIsStale == Spec => []NoStaleValues
<1>1. KnownInv /\ [Next]_vars => KnownInv'
  BY KnownStep
<1>2. KnownInv => NoStaleValues
  BY DEF KnownInv
<1> QED
  BY <1>1, <1>2, KnownInit, PTL DEF Spec

(***************************************************************************)
(* The requests and their results                                          *)
(***************************************************************************)

Contents(id) == {None} \cup (IF Kind(id) = "list" THEN SUBSET Devices ELSE Values)

(* An id stays what it has been asked for: an entry of a map is not        *)
(* replaced, so a list never gets a value for its content.                 *)
RequestsFormed ==
  /\ IsFiniteSet(DOMAIN request)
  /\ request = [id \in DOMAIN request |-> request[id]]
  /\ \A id \in DOMAIN request :
       request[id] = [what |-> request[id].what, open |-> request[id].open]

ResultsFormed ==
  /\ table \subseteq Ids
  /\ DOMAIN result \subseteq DOMAIN request
  /\ result = [id \in DOMAIN result |-> result[id]]
  /\ \A id \in DOMAIN result :
       /\ result[id] = [status |-> result[id].status, content |-> result[id].content]
       /\ result[id].content \in Contents(id)

AskedInv == RequestsInv /\ RequestsFormed /\ ResultsFormed

Asking == \E t \in Askers, cleared \in {{}, paired} : \E what : Ask(t, what, cleared)
Replying == \E id \in DOMAIN request : \E status : Reply(id, status)
Writing ==
  /\ replying # None
  /\ \E content \in IF Kind(replying) = "list" THEN Lists ELSE Values : WriteContent(content)
Taking == TakeBatch \/ TakeList \/ TakeFailure \/ TakeValue

(* To the requests, a step of either manager is one of these, or nothing.  *)
LEMMA StepOfRequests ==
  ASSUME [Next]_vars
  PROVE  \/ Asking \/ (\E t \in Askers : Enter(t)) \/ Replying \/ Writing \/ Taking
         \/ (\E device : Forget(device))
         \/ UNCHANGED requestVars
<1> USE DEF Askers
<1>1. CASE TakeOne
  BY <1>1 DEF TakeOne, Taking
<1>2. CASE CheckQueue
  BY <1>2 DEF CheckQueue, Taking
<1>3. CASE BatchDone \/ OpenSerial \/ LoadRegDevices \/ Loaded \/ ReadNothing \/ Message \/ SendEvent
  BY <1>3 DEF BatchDone, OpenSerial, LoadRegDevices, Loaded, ReadNothing, Message, ReadMessage, SendEvent
<1>4. CASE AskForValue
  BY <1>4 DEF AskForValue, GetLastValue, Asking
<1>5. CASE SwitchStep("main") \/ SwitchStep("client")
  BY <1>5 DEF SwitchStep
<1>6. CASE DoSetValuesCommand \/ DoListenCommand
  BY <1>6 DEF DoSetValuesCommand, DoListenCommand
<1>7. CASE DoDeviceUnpairCommand \/ TimerEnters
  BY <1>7 DEF DoDeviceUnpairCommand, TimerEnters
<1>8. CASE ClientReply \/ ZReply
  BY <1>8 DEF ClientReply, ZReply, Replying
<1>9. CASE ClientContent \/ ZContent
  BY <1>9, SwitchAssumption DEF ClientContent, ZContent, Writing
<1>10. CASE StopListen
  BY <1>10 DEF StopListen, GetDeviceList, Asking
<1>11. CASE NetworkChanges
  BY <1>11 DEF NetworkChanges
<1>12. CASE Deliver
  BY <1>12 DEF Deliver, NodeAdded, NodeRemoved, ValueAdded, ValueRemoved, NodesQueried
<1>13. CASE Run
  <2>1. CASE WaitUntilQueried \/ LastStateSet \/ ZBatchDone
    BY <2>1 DEF WaitUntilQueried, LastStateSet, ZBatchDone
  <2>2. CASE FirstList \/ SetLastState
    BY <2>2 DEF FirstList, SetLastState, GetList, GetValue, Asking
  <2>3. CASE ZCheckQueue \/ ZTakeOne
    BY <2>3 DEF ZCheckQueue, ZTakeOne, Taking
  <2> QED
    BY <1>13, <2>1, <2>2, <2>3 DEF Run
<1>14. CASE ZDoDeviceUnpairCommand \/ ZDoListenCommand \/ StopUnpair \/ ZTimerEnters
  BY <1>14 DEF ZDoDeviceUnpairCommand, ZDoListenCommand, StopUnpair, ZTimerEnters
<1>15. CASE ZStopListen
  BY <1>15 DEF ZStopListen, GetList, Asking
<1> QED
  BY <1>1, <1>2, <1>3, <1>4, <1>5, <1>6, <1>7, <1>8, <1>9, <1>10, <1>11, <1>12, <1>13, <1>14, <1>15
     DEF Next, Jablotron, MainLoop, Client, ZWave, ZClient, vars

(* Every set of ids has a first one. *)
LEMMA FirstOfIds ==
  ASSUME NEW S \in SUBSET Nat, S # {}
  PROVE  Min(S) \in S
<1> DEFINE R == {p \in Nat \X Nat : p[1] < p[2]}
<1>1. IsWellFoundedOn(R, Nat)
  <2>1. R = OpToRel(<, Nat)
    BY DEF OpToRel
  <2> QED
    BY <2>1, NatLessThanWellFounded
<1>2. \E x \in S : \A y \in S : ~ (<<y, x>> \in R)
  <2> HIDE DEF R
  <2> QED
    BY <1>1, WFMin
<1>3. \E x \in S : \A y \in S : x <= y
  <2>1. PICK x \in S : \A y \in S : ~ (<<y, x>> \in R)
    BY <1>2
  <2>2. ASSUME NEW y \in S
        PROVE  x <= y
    <3>1. /\ x \in Nat /\ y \in Nat
          /\ <<y, x>> \in Nat \X Nat /\ <<y, x>>[1] = y /\ <<y, x>>[2] = x
      OBVIOUS
    <3>2. ~(y < x)
      BY <2>1, <3>1
    <3> QED
      BY <3>1, <3>2
  <2> QED
    BY <2>2
<1> QED
  BY <1>3 DEF Min

LEMMA AskStep ==
  ASSUME AskedInv, Asking
  PROVE  AskedInv'
<1>1. PICK t \in Askers, cleared \in {{}, paired} : \E what : Ask(t, what, cleared)
  BY DEF Asking
<1>0. PICK what : Ask(t, what, cleared)
  BY <1>1
<1> DEFINE id == Cardinality(DOMAIN request) + 1
<1>2. /\ Cardinality(DOMAIN request) < MaxRequests
      /\ request' = Insert(request, id, [what |-> what, open |-> TRUE])
      /\ sending' = [sending EXCEPT ![t] = id]
      /\ paired' = cleared
      /\ UNCHANGED <<table, replying, result, dirty, batch, seen>>
  BY <1>0 DEF Ask, Free
<1>3. id \in Ids
  BY <1>2, FS_CardinalityType, RequestsAssumption DEF AskedInv, RequestsFormed, Ids
<1> HIDE DEF id
<1>4. /\ DOMAIN request' = DOMAIN request \cup {id}
      /\ \A n \in DOMAIN request : request'[n] = request[n]
      /\ \A n \in DOMAIN request' \ DOMAIN request : request'[n] = [what |-> what, open |-> TRUE]
      /\ request' = [n \in DOMAIN request' |-> request'[n]]
  BY <1>2 DEF Insert
<1>5. RequestsFormed'
  BY <1>4, FS_AddElement DEF AskedInv, RequestsFormed
<1>6. ResultsFormed'
  BY <1>2, <1>4 DEF AskedInv, ResultsFormed, Contents, Kind
<1>7. RequestsInv'
  BY <1>2, <1>3 DEF AskedInv, RequestsInv
<1> QED
  BY <1>5, <1>6, <1>7 DEF AskedInv

LEMMA ReplyStep ==
  ASSUME AskedInv, Replying
  PROVE  AskedInv'
<1>1. PICK id \in DOMAIN request : \E status : Reply(id, status)
  BY DEF Replying
<1>0. PICK status : Reply(id, status)
  BY <1>1
<1>2. /\ request' = [request EXCEPT ![id].open = FALSE]
      /\ UNCHANGED <<sending, table, batch, seen, paired>>
  BY <1>0 DEF Reply
<1>3. /\ DOMAIN request' = DOMAIN request
      /\ \A n \in DOMAIN request : request'[n].what = request[n].what
      /\ RequestsFormed'
  <2>1. ASSUME NEW n \in DOMAIN request
        PROVE  /\ request'[n].what = request[n].what
               /\ request'[n] = [what |-> request'[n].what, open |-> request'[n].open]
    <3>0. request[n] = [what |-> request[n].what, open |-> request[n].open]
      BY DEF AskedInv, RequestsFormed
    <3>1. CASE n = id
      <4>1. request'[n] = [what |-> request[n].what, open |-> FALSE]
        BY <1>2, <3>0, <3>1
      <4> QED
        BY <4>1
    <3>2. CASE n # id
      <4>1. request'[n] = request[n]
        BY <1>2, <3>2
      <4> QED
        BY <3>0, <4>1
    <3> QED
      BY <3>1, <3>2
  <2>2. DOMAIN request' = DOMAIN request /\ request' = [n \in DOMAIN request' |-> request'[n]]
    BY <1>2
  <2> QED
    BY <2>1, <2>2 DEF AskedInv, RequestsFormed
<1>4. \A n \in DOMAIN request : Contents(n)' = Contents(n)
  BY <1>3 DEF Contents, Kind
<1>5. CASE id \notin table
  <2>1. UNCHANGED <<result, dirty, replying>>
    BY <1>0, <1>5 DEF Reply
  <2> QED
    BY <1>2, <1>3, <1>4, <2>1 DEF AskedInv, RequestsInv, ResultsFormed
<1>6. CASE id \in table
  <2>1. /\ result' = Insert(result, id, [status |-> status, content |-> None])
        /\ dirty' \subseteq dirty \cup {id}
        /\ replying' = id
    BY <1>0, <1>6 DEF Reply
  <2>2. /\ DOMAIN result' = DOMAIN result \cup {id}
        /\ \A n \in DOMAIN result : result'[n] = result[n]
        /\ \A n \in DOMAIN result' \ DOMAIN result : result'[n] = [status |-> status, content |-> None]
        /\ result' = [n \in DOMAIN result' |-> result'[n]]
    BY <2>1 DEF Insert
  <2>3. ResultsFormed'
    <3>1. ASSUME NEW n \in DOMAIN result'
          PROVE  /\ result'[n] = [status |-> result'[n].status, content |-> result'[n].content]
                 /\ result'[n].content \in Contents(n)'
      <4>1. n \in DOMAIN request /\ Contents(n)' = Contents(n) /\ None \in Contents(n)
        BY <1>4, <2>2 DEF AskedInv, ResultsFormed, Contents
      <4> QED
        BY <2>2, <4>1 DEF AskedInv, ResultsFormed
    <3> QED
      BY <1>2, <1>3, <2>2, <3>1 DEF AskedInv, ResultsFormed, Ids
  <2>4. RequestsInv'
    BY <1>2, <1>6, <2>1, <2>2 DEF AskedInv, RequestsInv, ResultsFormed, Ids
  <2> QED
    BY <1>3, <2>3, <2>4 DEF AskedInv
<1> QED
  BY <1>5, <1>6

LEMMA WriteStep ==
  ASSUME AskedInv, Writing
  PROVE  AskedInv'
<1>1. PICK content \in IF Kind(replying) = "list" THEN Lists ELSE Values : WriteContent(content)
  BY DEF Writing
<1>2. /\ result' = [result EXCEPT ![replying].content = content]
      /\ replying' = None
      /\ UNCHANGED <<request, sending, table, dirty, batch, seen, paired>>
  BY <1>1 DEF WriteContent
<1>3. content \in Contents(replying)
  BY <1>1, RequestsAssumption DEF Contents
<1>4. ASSUME NEW n \in DOMAIN result
      PROVE  /\ result'[n] = [status |-> result'[n].status, content |-> result'[n].content]
             /\ result'[n].content \in Contents(n)
  <2>1. CASE n = replying
    BY <1>2, <1>3, <2>1 DEF AskedInv, ResultsFormed
  <2>2. CASE n # replying
    BY <1>2, <2>2 DEF AskedInv, ResultsFormed
  <2> QED
    BY <2>1, <2>2
<1>5. DOMAIN result' = DOMAIN result /\ result' = [n \in DOMAIN result' |-> result'[n]]
  BY <1>2 DEF AskedInv, ResultsFormed
<1>6. ResultsFormed'
  BY <1>2, <1>4, <1>5 DEF AskedInv, ResultsFormed, Contents, Kind
<1>7. RequestsInv' /\ RequestsFormed'
  BY <1>2, <1>5 DEF AskedInv, RequestsInv, RequestsFormed
<1> QED
  BY <1>6, <1>7 DEF AskedInv

LEMMA TakeStep ==
  ASSUME AskedInv, Taking
  PROVE  AskedInv'
<1>1. UNCHANGED <<request, sending, table, replying, result>>
  BY DEF Taking, TakeBatch, TakeList, TakeFailure, TakeValue
<1>2. RequestsFormed' /\ ResultsFormed'
  BY <1>1 DEF AskedInv, RequestsFormed, ResultsFormed, Contents, Kind
<1>3. dirty' \cup batch' \subseteq dirty \cup batch
  BY DEF Taking, TakeBatch, TakeList, TakeFailure, TakeValue
<1>4. paired' \subseteq Devices
  <2>1. CASE TakeList
    <3>1. batch # {} /\ batch \subseteq Nat /\ batch \subseteq DOMAIN result
      BY <2>1 DEF TakeList, AskedInv, RequestsInv, ResultsFormed, Ids
    <3>2. Foremost \in DOMAIN result
      BY <3>1, FirstOfIds DEF Foremost
    <3>3. result[Foremost].content \in {None} \cup SUBSET Devices
      BY <2>1, <3>2 DEF TakeList, AskedInv, ResultsFormed, Contents
    <3> QED
      BY <2>1, <3>3 DEF TakeList
  <2>2. CASE ~TakeList
    BY <2>2 DEF Taking, TakeBatch, TakeFailure, TakeValue, AskedInv, RequestsInv
  <2> QED
    BY <2>1, <2>2
<1>5. RequestsInv'
  BY <1>1, <1>3, <1>4 DEF AskedInv, RequestsInv
<1> QED
  BY <1>2, <1>5 DEF AskedInv

LEMMA AskedStep ==
  ASSUME AskedInv, [Next]_vars
  PROVE  AskedInv'
<1> USE DEF AskedInv, RequestsInv, RequestsFormed, ResultsFormed, Contents, Kind
<1>1. ASSUME NEW t \in Askers, Enter(t) PROVE AskedInv'
  BY <1>1, RequestsAssumption DEF Enter
<1>2. ASSUME NEW device, Forget(device) PROVE AskedInv'
  BY <1>2 DEF Forget
<1>3. CASE UNCHANGED requestVars
  BY <1>3 DEF requestVars
<1> HIDE DEF AskedInv
<1> QED
  BY <1>1, <1>2, <1>3, StepOfRequests, AskStep, ReplyStep, WriteStep, TakeStep

(***************************************************************************)
(* What the runs check of both managers at once                            *)
(***************************************************************************)

ValuesTyped ==
  /\ pg \in [Outputs -> Values] /\ dongle \in [Outputs -> Values]
  /\ \A t \in Setters : packet[t] # None =>
       packet[t].outputs \in [Outputs -> Values] \cup {None}

PlacesTyped ==
  /\ jpc \in {"queue", "batch", "load", "ask", "read", "sent"}
  /\ zpc \in {"start", "waiting", "queue", "batch", "last"}
  /\ controller \in {"idle", "adding", "removing"}

(* A switch is only ever set to a value: one that the server remembers, or *)
(* off if its content is not written yet.                                  *)
LEMMA ValuesStart ==
  ASSUME AskedInv, TakeOne \/ DoSetValuesCommand
  PROVE  \/ \E t \in Setters, value \in Values : \E device : StartSwitch(t, device, value)
         \/ UNCHANGED lineVars
<1> USE DEF lineVars, switchVars, Setters
<1>1. CASE DoSetValuesCommand
  BY <1>1 DEF DoSetValuesCommand
<1>2. CASE TakeOne /\ ~TakeValue
  BY <1>2 DEF TakeOne
<1>3. CASE TakeOne /\ TakeValue
  <2> DEFINE value == IF result[Foremost].content = None THEN 0 ELSE result[Foremost].content
  <2>1. /\ batch # {} /\ batch \subseteq Nat /\ batch \subseteq DOMAIN result
        /\ Kind(Foremost) = "value"
    BY <1>3 DEF TakeValue, AskedInv, RequestsInv, ResultsFormed, Ids
  <2>2. Foremost \in DOMAIN result
    BY <2>1, FirstOfIds DEF Foremost
  <2>3. value \in Values
    BY <2>1, <2>2, SwitchAssumption DEF AskedInv, ResultsFormed, Contents
  <2>4. \/ StartSwitch("main", request[Foremost].what[2], value)
        \/ UNCHANGED switchVars
    BY <1>3 DEF TakeOne
  <2> HIDE DEF value
  <2> QED
    BY <2>3, <2>4
<1> QED
  BY <1>1, <1>2, <1>3

LEMMA ValuesStep ==
  ASSUME AskedInv, Formed, ValuesTyped, [Next]_vars
  PROVE  ValuesTyped'
<1> USE DEF ValuesTyped
<1>1. ASSUME NEW t \in Setters, NEW value \in Values, NEW device, StartSwitch(t, device, value)
      PROVE  ValuesTyped'
  <2>1. /\ pg' = [pg EXCEPT ![OutputOf(device)] = value] /\ dongle' = dongle
        /\ packet' = [u \in Setters |->
             IF u = t
               THEN [outputs |-> None, good |-> 0, bad |-> 0,
                     disturbed |-> \E v \in Setters : packet[v] # None]
               ELSE IF packet[u] = None THEN None ELSE [packet[u] EXCEPT !.disturbed = TRUE]]
    BY <1>1 DEF StartSwitch
  <2>2. pg' \in [Outputs -> Values]
    BY <2>1
  <2>3. ASSUME NEW u \in Setters, packet'[u] # None
        PROVE  packet'[u].outputs \in [Outputs -> Values] \cup {None}
    <3>1. CASE u = t
      BY <2>1, <3>1
    <3>2. CASE u # t
      BY <2>1, <2>3, <3>2 DEF Formed
    <3> QED
      BY <3>1, <3>2
  <2> QED
    BY <2>1, <2>2, <2>3
<1>2. ASSUME NEW t \in Setters, Switching(t) PROVE ValuesTyped'
  <2>1. CASE Build(t)
    BY <1>2, <2>1 DEF Build, Formed
  <2>2. CASE Transmit(t)
    BY <1>2, <2>2 DEF Transmit, Formed
  <2>3. CASE EndSwitch(t)
    BY <1>2, <2>3 DEF EndSwitch, Formed
  <2> QED
    BY <1>2, <2>1, <2>2, <2>3 DEF Switching
<1>3. CASE UNCHANGED lineVars
  BY <1>3 DEF lineVars
<1> HIDE DEF ValuesTyped
<1> QED
  BY <1>1, <1>2, <1>3, StepOfLine, ValuesStart

LEMMA PlacesStep ==
  ASSUME PlacesTyped, [Next]_vars
  PROVE  PlacesTyped'
<1> USE DEF PlacesTyped, controlVars
<1>1. CASE MainLoop /\ UNCHANGED zwaveVars
  <2>1. UNCHANGED <<zpc, controller>>
    BY <1>1 DEF zwaveVars
  <2> QED
    BY <1>1, <2>1
       DEF MainLoop, TakeOne, CheckQueue, BatchDone, OpenSerial, LoadRegDevices, AskForValue, Loaded,
           ReadNothing, Message, ReadMessage, SendEvent, SwitchStep
<1>2. CASE (Client \/ StopListen \/ TimerEnters) /\ UNCHANGED zwaveVars
  BY <1>2
     DEF Client, ClientReply, ClientContent, DoSetValuesCommand, DoDeviceUnpairCommand, DoListenCommand,
         SwitchStep, StopListen, TimerEnters, jablotronVars, zwaveVars
<1>3. CASE ZWave /\ UNCHANGED jablotronVars
  <2>1. jpc' = jpc
    BY <1>3 DEF jablotronVars
  <2>2. CASE Run
    BY <2>1, <2>2 DEF Run, WaitUntilQueried, FirstList, ZCheckQueue, ZTakeOne, SetLastState, LastStateSet,
                      ZBatchDone
  <2>3. CASE NetworkChanges \/ Deliver
    BY <2>1, <2>3 DEF NetworkChanges, Deliver, NodeAdded, NodeRemoved, ValueAdded, ValueRemoved, NodesQueried
  <2>4. CASE ZClient
    BY <2>1, <2>4 DEF ZClient, ZReply, ZContent, ZDoDeviceUnpairCommand, ZDoListenCommand, zwaveVars
  <2>5. CASE ZStopListen \/ StopUnpair \/ ZTimerEnters
    BY <2>1, <2>5 DEF ZStopListen, StopUnpair, ZTimerEnters, zwaveVars
  <2> QED
    BY <1>3, <2>2, <2>3, <2>4, <2>5 DEF ZWave
<1>4. CASE UNCHANGED vars
  BY <1>4 DEF vars, jablotronVars, zwaveVars
<1> HIDE DEF PlacesTyped
<1> QED
  BY <1>1, <1>2, <1>3, <1>4 DEF Next, Jablotron

(* What both managers rest on: their lines, events, maps and requests. *)
BothInv == LineInv /\ EventInv /\ KnownInv /\ AskedInv /\ ValuesTyped /\ PlacesTyped

(* Each conjunct of what the runs check of both managers, for any number   *)
(* of requests, retries, switches, nodes and values: above all, the main   *)
(* loop never meets an answer it does not know or one without a result.    *)
THEOREM ManagersInvariance == Spec => []ManagersInv
<1>1. Init => BothInv
  <2> SUFFICES ASSUME Init PROVE BothInv
    OBVIOUS
  <2>1. LineInv /\ EventInv /\ KnownInv
    BY LineInit, EventInit, KnownInit
  <2>2. AskedInv
    <3>1. IsFiniteSet({}) /\ DOMAIN << >> = {}
      BY FS_EmptySet
    <3> QED
      BY <3>1 DEF Init, RequestsInit, AskedInv, RequestsInv, RequestsFormed, ResultsFormed
  <2>3. ValuesTyped /\ PlacesTyped
    BY SwitchAssumption DEF Init, JablotronInit, ZWaveInit, ValuesTyped, PlacesTyped
  <2> QED
    BY <2>1, <2>2, <2>3 DEF BothInv
<1>2. BothInv /\ [Next]_vars => BothInv'
  BY LineStep, EventStep, KnownStep, AskedStep, ValuesStep, PlacesStep DEF BothInv, LineInv
<1>3. BothInv => ManagersInv
  BY DEF BothInv, ManagersInv, LineInv, KnownInv, AskedInv, ValuesTyped, PlacesTyped
<1> QED
  BY <1>1, <1>2, <1>3, PTL DEF Spec
================================================================================
