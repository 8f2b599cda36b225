--------------------------- MODULE ManagerRequests ---------------------------
(***************************************************************************)
(* The requests of a device manager to the server, the same in the         *)
(* Jablotron and in the Z-Wave manager: the list of paired devices and the *)
(* last value of a device.  The threads that ask send the message and then *)
(* enter it in m_table; the thread of the ZMQ client finds the replies     *)
(* there; the main loop takes the dirty answers.  Neither m_table nor the  *)
(* set of devices has a lock; an operation on one of them is a step.       *)
(***************************************************************************)
EXTENDS Naturals, FiniteSets, FiniteSetsExt, TLC

CONSTANTS
  None,
  Devices,      \* the devices the server may list
  Lists,        \* the sets of them it may list
  Values,       \* the values it may remember
  MaxRequests   \* bound on the requests

ASSUME RequestsAssumption == None \notin Devices /\ Lists \subseteq SUBSET Devices /\ MaxRequests \in Nat

Askers == {"main", "timer"}

VARIABLES
  request,   \* what has been asked under each id, and where it stands
  sending,   \* the request each asker has sent and not entered
  table,     \* the ids in m_table
  replying,  \* the request whose result the client is in the middle of
  result,    \* the results: the status, and the content when it is written
  dirty,     \* the ids whose answer is dirty
  batch,     \* the dirty answers checkQueue() has still to look at
  seen,      \* the ids it is done with, looked at or thrown away
  paired     \* m_devicesWithFlag, m_devices: the devices of the last list

requestVars == <<request, sending, table, replying, result, dirty, batch, seen, paired>>

Ids == 1..MaxRequests

RequestsInit ==
  /\ request = << >>
  /\ sending = [t \in Askers |-> None]
  /\ table = {}
  /\ replying = None
  /\ result = << >>
  /\ dirty = {}
  /\ batch = {}
  /\ seen = {}
  /\ paired = {}

Free(t) == sending[t] = None /\ Cardinality(DOMAIN request) < MaxRequests

(* std::map::insert() and emplace(): what is there stays. *)
Insert(map, key, value) ==
  [k \in DOMAIN map \cup {key} |-> IF k \in DOMAIN map THEN map[k] ELSE value]

(* The message leaves with a new id; its reply may come from now on. *)
Ask(t, what, cleared) ==
  LET id == Cardinality(DOMAIN request) + 1
  IN  /\ Free(t)
      /\ request' = Insert(request, id, [what |-> what, open |-> TRUE])
      /\ sending' = [sending EXCEPT ![t] = id]
      /\ paired' = cleared
      /\ UNCHANGED <<table, replying, result, dirty, batch, seen>>

(* m_table.insert(), behind the sending. *)
Enter(t) ==
  /\ sending[t] # None
  /\ table' = table \cup {sending[t]}
  /\ sending' = [sending EXCEPT ![t] = None]
  /\ UNCHANGED <<request, replying, result, dirty, batch, seen, paired>>

(* Mutated: a result that is settled at once does not notify its queue. *)
ReplyQuietly(id, status) ==
  /\ replying = None
  /\ request[id].open
  /\ request' = [request EXCEPT ![id].open = FALSE]
  /\ IF id \in table
       THEN /\ result' = Insert(result, id, [status |-> status, content |-> None])
            /\ replying' = id
       ELSE UNCHANGED <<result, replying>>
  /\ UNCHANGED <<sending, table, dirty, batch, seen, paired>>

(* Mutated: a reply is written for an id nobody has entered. *)
ReplyUnchecked(id, status) ==
  /\ replying = None
  /\ request[id].open
  /\ request' = [request EXCEPT ![id].open = FALSE]
  /\ result' = Insert(result, id, [status |-> status, content |-> None])
  /\ dirty' = dirty \cup (IF status = "pending" THEN {} ELSE {id})
  /\ replying' = id
  /\ UNCHANGED <<sending, table, batch, seen, paired>>

(* A reply of the server: one that is not in the table (yet) is ignored.   *)
(* The status comes first, and makes the answer dirty, unless it is that   *)
(* of a new result.                                                        *)
Reply(id, status) ==
  /\ replying = None
  /\ request[id].open
  /\ request' = [request EXCEPT ![id].open = FALSE]
  /\ IF id \in table
       THEN /\ result' = Insert(result, id, [status |-> status, content |-> None])
            /\ dirty' = dirty \cup (IF status = "pending" THEN {} ELSE {id})
            /\ replying' = id
       ELSE UNCHANGED <<result, dirty, replying>>
  /\ UNCHANGED <<sending, table, batch, seen, paired>>

(* Then the list, or the value, which nobody is told about. *)
WriteContent(content) ==
  /\ replying # None
  /\ result' = [result EXCEPT ![replying].content = content]
  /\ replying' = None
  /\ UNCHANGED <<request, sending, table, dirty, batch, seen, paired>>

(* AnswerQueue::wait(), which may time out. *)
TakeBatch ==
  /\ batch = {}
  /\ batch' = dirty
  /\ dirty' = {}
  /\ UNCHANGED <<request, sending, table, replying, result, seen, paired>>

(* The answers of a batch come in the order of their creation. *)
Foremost == Min(batch)

Kind(id) == request[id].what[1]

(* A list replaces the devices, by nothing if it is not written yet. *)
TakeList ==
  /\ batch # {} /\ Kind(Foremost) = "list"
  /\ paired' = IF result[Foremost].content = None THEN {} ELSE result[Foremost].content
  /\ batch' = batch \ {Foremost}
  /\ seen' = seen \cup {Foremost}
  /\ UNCHANGED <<request, sending, table, replying, result, dirty>>

(* A value that failed ends checkQueue(): the rest of the batch, which is  *)
(* clean by now, is never looked at.                                       *)
TakeFailure ==
  /\ batch # {} /\ Kind(Foremost) = "value"
  /\ result[Foremost].status = "failed"
  /\ batch' = {}
  /\ seen' = seen \cup batch
  /\ UNCHANGED <<request, sending, table, replying, result, dirty, paired>>

(* A value is handed to the device. *)
TakeValue ==
  /\ batch # {} /\ Kind(Foremost) = "value"
  /\ result[Foremost].status = "success"
  /\ batch' = batch \ {Foremost}
  /\ seen' = seen \cup {Foremost}
  /\ UNCHANGED <<request, sending, table, replying, result, dirty, paired>>

(* doDeviceUnpairCommand() *)
Forget(device) ==
  /\ paired' = paired \ {device}
  /\ UNCHANGED <<request, sending, table, replying, result, dirty, batch, seen>>

(***************************************************************************)
(* Properties                                                              *)
(***************************************************************************)

(* Types, and: the main loop never meets an answer it does not know, or    *)
(* one without a result, though the table is filled after the sending.     *)
RequestsInv ==
  /\ sending \in [Askers -> Ids \cup {None}]
  /\ replying \in Ids \cup {None}
  /\ paired \subseteq Devices
  /\ DOMAIN result \subseteq table
  /\ dirty \cup batch \subseteq DOMAIN result

Settled(id) == id \in {n \in DOMAIN result : result[n].status # "pending"}
=============================================================================
