----------------------------- MODULE ZWaveManager ----------------------------
(***************************************************************************)
(* ZWaveDeviceManager and its NotificationProcessor on top of OpenZWave,   *)
(* which is external: a network of nodes with values, a queue of           *)
(* notifications that a thread of the library delivers, and a controller   *)
(* that adds or removes nodes until it is told to stop.                    *)
(***************************************************************************)
EXTENDS ManagerRequests, Sequences, SequencesExt

CONSTANTS
  Nodes,       \* the nodes of the network
  NodeValues,  \* the values a node may have
  MaxChanges   \* bound on the changes of the network

ASSUME NetworkAssumption == MaxChanges \in Nat

VARIABLES
  zpc,         \* where run() is: start, waiting, queue, batch, last
  toGet,       \* the devices setLastState() has still to ask for
  network,     \* the values of each node of the network
  changes,     \* the changes of the network so far
  queued,      \* the notifications on their way
  nodesMap,    \* m_nodesMap: the known values of each known node
  queried,     \* a broadcast has come while run() waited
  controller,  \* idle, adding or removing
  adding,      \* the listen command: none, timed (its timer runs), done
  listenTimer, \* m_derefListen: never, armed, fired
  unpairTimer  \* m_derefUnpair: never, armed, fired

networkVars == <<network, changes, queued, nodesMap>>
controlVars == <<controller, adding, listenTimer, unpairTimer>>
zwaveVars == <<zpc, toGet, networkVars, queried, controlVars>>

ZWaveInit ==
  /\ zpc = "start"
  /\ toGet = {}
  /\ network = << >>
  /\ changes = 0
  /\ queued = << >>
  /\ nodesMap = << >>
  /\ queried = FALSE
  /\ controller = "idle"
  /\ adding = "none"
  /\ listenTimer = "never"
  /\ unpairTimer = "never"

(***************************************************************************)
(* OpenZWave                                                               *)
(***************************************************************************)

Tell(type, node, value) ==
  /\ changes < MaxChanges /\ changes' = changes + 1
  /\ queued' = Append(queued, [type |-> type, node |-> node, value |-> value])

(* The library changes its network and queues the notification. *)
NetworkChanges ==
  /\ \/ \E node \in Nodes \ DOMAIN network :
          /\ network' = Insert(network, node, {})
          /\ Tell("NodeAdded", node, None)
     \/ \E node \in DOMAIN network :
          /\ network' = Restrict(network, DOMAIN network \ {node})
          /\ Tell("NodeRemoved", node, None)
     \/ \E node \in DOMAIN network : \E value \in NodeValues \ network[node] :
          /\ network' = [network EXCEPT ![node] = @ \cup {value}]
          /\ Tell("ValueAdded", node, value)
     \/ \E node \in DOMAIN network : \E value \in network[node] :
          /\ network' = [network EXCEPT ![node] = @ \ {value}]
          /\ Tell("ValueRemoved", node, value)
     \/ UNCHANGED network /\ Tell("Queried", None, None)
  /\ UNCHANGED <<zpc, toGet, nodesMap, queried, controlVars, requestVars>>

(***************************************************************************)
(* onNotification(), in the thread of the library                          *)
(***************************************************************************)

Delivered(type) ==
  /\ queued # << >> /\ Head(queued).type = type
  /\ queued' = Tail(queued)
  /\ UNCHANGED changes

Known(node) == node \in DOMAIN nodesMap

NodeAdded ==
  /\ Delivered("NodeAdded")
  /\ nodesMap' = Insert(nodesMap, Head(queued).node, {})
  /\ controller' = "idle"
  /\ UNCHANGED <<zpc, toGet, network, queried, adding, listenTimer, unpairTimer, requestVars>>

NodeRemoved ==
  /\ Delivered("NodeRemoved")
  /\ nodesMap' = Restrict(nodesMap, DOMAIN nodesMap \ {Head(queued).node})
  /\ UNCHANGED <<zpc, toGet, network, queried, controlVars, requestVars>>

ValueAdded ==
  /\ Delivered("ValueAdded")
  /\ LET node == Head(queued).node
     IN  nodesMap' = IF Known(node) THEN [nodesMap EXCEPT ![node] = @ \cup {Head(queued).value}]
                     ELSE nodesMap
  /\ UNCHANGED <<zpc, toGet, network, queried, controlVars, requestVars>>

(* Mutated: a value that goes leaves its node as it is. *)
ValueRemovedKept ==
  /\ Delivered("ValueRemoved")
  /\ UNCHANGED nodesMap
  /\ UNCHANGED <<zpc, toGet, network, queried, controlVars, requestVars>>

(* A value that goes takes its whole node along. *)
ValueRemoved ==
  /\ Delivered("ValueRemoved")
  /\ nodesMap' = Restrict(nodesMap, DOMAIN nodesMap \ {Head(queued).node})
  /\ UNCHANGED <<zpc, toGet, network, queried, controlVars, requestVars>>

(* The broadcast wakes run() if it waits, and is gone if it does not. *)
NodesQueried ==
  /\ Delivered("Queried")
  /\ queried' = (queried \/ zpc = "waiting")
  /\ UNCHANGED <<zpc, toGet, network, nodesMap, controlVars, requestVars>>

Deliver == NodeAdded \/ NodeRemoved \/ ValueAdded \/ ValueRemoved \/ NodesQueried

(***************************************************************************)
(* run(): checkQueue(), getDeviceList(), setLastState()                    *)
(***************************************************************************)

(* waitUntilQueried(): no flag is looked at before the waiting. *)
WaitUntilQueried ==
  /\ zpc = "start"
  /\ zpc' = "waiting"
  /\ UNCHANGED <<toGet, networkVars, queried, controlVars, requestVars>>

GetList(t) == Ask(t, <<"list", None>>, {})
GetValue(t, device) == Ask(t, <<"value", device>>, paired)

FirstList ==
  /\ zpc = "waiting" /\ queried
  /\ zpc' = "last"
  /\ GetList("main")
  /\ UNCHANGED <<toGet, networkVars, queried, controlVars>>

ZCheckQueue ==
  /\ zpc = "queue"
  /\ zpc' = "batch"
  /\ TakeBatch
  /\ UNCHANGED <<toGet, networkVars, queried, controlVars>>

(* A list makes the manager ask for the last values of its devices, a      *)
(* value goes to its node.                                                 *)
ZTakeOne ==
  /\ zpc = "batch"
  /\ \/ TakeList /\ toGet' = paired' /\ zpc' = "last"
     \/ (TakeValue \/ TakeFailure) /\ UNCHANGED <<toGet, zpc>>
  /\ UNCHANGED <<networkVars, queried, controlVars>>

SetLastState ==
  /\ zpc = "last"
  /\ \/ \E device \in toGet : GetValue("main", device) /\ toGet' = toGet \ {device}
     \/ Enter("main") /\ UNCHANGED toGet
  /\ UNCHANGED <<zpc, networkVars, queried, controlVars>>

LastStateSet ==
  /\ zpc = "last" /\ sending["main"] = None /\ (toGet = {} \/ ~Free("main"))
  /\ zpc' = "batch" /\ toGet' = {}
  /\ UNCHANGED <<networkVars, queried, controlVars, requestVars>>

ZBatchDone ==
  /\ zpc = "batch" /\ batch = {}
  /\ zpc' = "queue"
  /\ UNCHANGED <<toGet, networkVars, queried, controlVars, requestVars>>

Run ==
  \/ WaitUntilQueried \/ FirstList \/ ZCheckQueue \/ ZTakeOne
  \/ SetLastState \/ LastStateSet \/ ZBatchDone

(***************************************************************************)
(* onEvent(), in the thread of the ZMQ client, and the timers              *)
(***************************************************************************)

ZClientFree == replying = None /\ adding # "timed"

ZReply ==
  /\ ZClientFree
  /\ \E id \in DOMAIN request : \E status \in {"success", "failed", "pending"} : Reply(id, status)
  /\ UNCHANGED zwaveVars

ZContent ==
  /\ replying # None
  /\ IF Kind(replying) = "list"
       THEN \E list \in Lists : WriteContent(list)
       ELSE WriteContent(0)  \* any: the node is told, and nothing else
  /\ UNCHANGED zwaveVars

(* Mutated: the timer first, as in the listen command. *)
ZDoDeviceUnpairCommandLate ==
  /\ ZClientFree
  /\ \/ /\ unpairTimer = "never"
        /\ unpairTimer' = "armed"
        /\ UNCHANGED <<controller, requestVars>>
     \/ /\ unpairTimer # "never" /\ controller = "idle"
        /\ \E device \in paired : Forget(device)
        /\ controller' = "removing"
        /\ UNCHANGED unpairTimer
  /\ UNCHANGED <<zpc, toGet, networkVars, queried, adding, listenTimer>>

(* doDeviceUnpairCommand(): the controller removes, until a timer fires. *)
ZDoDeviceUnpairCommand ==
  /\ ZClientFree /\ unpairTimer = "never"
  /\ \E device \in Devices : Forget(device)
  /\ controller' = "removing"
  /\ unpairTimer' = "armed"
  /\ UNCHANGED <<zpc, toGet, networkVars, queried, adding, listenTimer>>

(* doListenCommand(): the timer runs before the controller adds. *)
ZDoListenCommand ==
  /\ \/ /\ ZClientFree /\ listenTimer = "never"
        /\ listenTimer' = "armed" /\ adding' = "timed"
        /\ UNCHANGED controller
     \/ /\ adding = "timed"
        /\ controller' = "adding" /\ adding' = "done"
        /\ UNCHANGED listenTimer
  /\ UNCHANGED <<zpc, toGet, networkVars, queried, unpairTimer, requestVars>>

ZStopListen ==
  /\ listenTimer = "armed"
  /\ listenTimer' = "fired"
  /\ controller' = "idle"
  /\ GetList("timer")
  /\ UNCHANGED <<zpc, toGet, networkVars, queried, adding, unpairTimer>>

StopUnpair ==
  /\ unpairTimer = "armed"
  /\ unpairTimer' = "fired"
  /\ controller' = "idle"
  /\ UNCHANGED <<zpc, toGet, networkVars, queried, adding, listenTimer, requestVars>>

ZTimerEnters == Enter("timer") /\ UNCHANGED zwaveVars

(***************************************************************************)
(* Properties                                                              *)
(***************************************************************************)

(* What is on its way behind place n says that the value or its node goes. *)
LeavesBehind(n, node, value) ==
  \E k \in 1..Len(queued) :
    /\ k > n /\ queued[k].node = node
    /\ \/ queued[k].type = "NodeRemoved"
       \/ queued[k].type = "ValueRemoved" /\ queued[k].value = value

ThereOrLeaving(n, node, value) ==
  \/ node \in DOMAIN network /\ value \in network[node]
  \/ LeavesBehind(n, node, value)

(* sendValue() asks the library for every value of m_nodesMap: none of     *)
(* them is gone, unless the notification that says so still waits.         *)
NoStaleValues ==
  \A node \in DOMAIN nodesMap : \A value \in nodesMap[node] : ThereOrLeaving(0, node, value)

(* A value that is on its way to m_nodesMap is not stale when it arrives.  *)
NoStaleNews ==
  \A k \in 1..Len(queued) :
    queued[k].type = "ValueAdded" => ThereOrLeaving(k, queued[k].node, queued[k].value)

(* A controller that removes nodes stops doing so: a device is not removed *)
(* hours after the command.                                                *)
RemovingEnds == controller = "removing" ~> controller # "removing"
=============================================================================
