------------------------------- MODULE Broker --------------------------------
(***************************************************************************)
(* ZMQBroker and the daemons that talk to it through ZMQClient.  A daemon  *)
(* gets an identity from the hello server and uses it on the data socket.  *)
(* Commands go out through handle(), on threads of the pool, their results *)
(* come back by the id of the message; requests of the daemons come in and *)
(* are answered from the answer queue.  Daemons crash and start again.     *)
(*                                                                         *)
(* The data socket of the broker is used by the pool threads and by run()  *)
(* without a lock; a message is two frames, and frames of two threads may  *)
(* mix.  A ROUTER takes the first frame for the identity of the receiver   *)
(* and drops what is addressed to nobody.                                  *)
(***************************************************************************)
EXTENDS DeviceManagerTable, FiniteSets, TLC

CONSTANTS
  None, Error,
  Daemons,      \* the daemons
  PrefixOf,     \* the prefix of each daemon
  Commands,     \* answers of commands that are dispatched to the broker
  MaxBoots,     \* bound on the starts of all daemons
  MaxRequests,  \* bound on the requests of all daemons
  MaxIds        \* bound on the messages with an id

ASSUME BrokerAssumption ==
  /\ None # Error /\ {None, Error} \cap Identities = {}
  /\ PrefixOf \in [Daemons -> Technologies]
  /\ MaxBoots \in Nat
  /\ MaxRequests \in Nat
  /\ MaxIds \in Nat

VARIABLES
  phase,     \* of each daemon: down, asking, up or failed
  ident,     \* the identity of each daemon
  boots,     \* how often each daemon has been started
  hello,     \* the hello requests that wait, with the start they belong to
  welcome,   \* the reply to the hello of each daemon
  inbox,     \* the frames that wait for each identity
  inward,    \* the messages from each identity to the broker
  part,      \* the frames of a message the data socket is still waiting for
  lost,      \* the ids of messages that somebody has dropped
  todo,      \* the managers handle() has still to send each command to
  sending,   \* the id of the message handle() is in the middle of
  cmdTable,  \* m_cmdTable: the ids of messages, with the status of the result
  asked,     \* m_resultTable: the ids of requests, who asked and the status
  dirty,     \* the requests whose answer is dirty
  outgoing,  \* the request whose result checkQueue() is in the middle of
  got,       \* the last status the asker of each request has received
  ids        \* GlobalID::random(), counted

daemonVars == <<phase, ident, boots>>
helloVars == <<table, hello, welcome>>
socketVars == <<inbox, part, lost>>
commandVars == <<todo, sending, cmdTable>>
requestVars == <<asked, dirty, outgoing, got>>
vars == <<daemonVars, helloVars, socketVars, inward, commandVars, requestVars, ids>>

Init ==
  /\ table = << >>
  /\ phase = [d \in Daemons |-> "down"]
  /\ ident = [d \in Daemons |-> None]
  /\ boots = [d \in Daemons |-> 0]
  /\ hello = << >>
  /\ welcome = [d \in Daemons |-> None]
  /\ inbox = [i \in Identities |-> << >>]
  /\ inward = [i \in Identities |-> << >>]
  /\ part = << >>
  /\ lost = {}
  /\ todo = [c \in Commands |-> None]
  /\ sending = [c \in Commands |-> None]
  /\ cmdTable = << >>
  /\ asked = << >>
  /\ dirty = {}
  /\ outgoing = None
  /\ got = << >>
  /\ ids = 0

(* std::map::insert(): what is there stays. *)
Insert(map, key, value) ==
  [k \in DOMAIN map \cup {key} |-> IF k \in DOMAIN map THEN map[k] ELSE value]

Connected(i) == \E d \in Daemons : phase[d] = "up" /\ ident[d] = i

(***************************************************************************)
(* The data socket of the broker                                           *)
(***************************************************************************)

(* ZMQUtil::sendMultipart(): one more frame of the current message. *)
SendMore(i) ==
  /\ part' = Append(part, [kind |-> "identity", id |-> None, to |-> i])
  /\ UNCHANGED <<inbox, lost>>

(* ZMQUtil::send() ends the current message and routes it. *)
SendLast(frame) ==
  /\ part' = << >>
  /\ IF part # << >> /\ Connected(Head(part).to)
       THEN /\ inbox' = [inbox EXCEPT ![Head(part).to] = @ \o Tail(part) \o <<frame>>]
            /\ UNCHANGED lost
       ELSE /\ lost' = lost \cup ({frame.id} \ {None})
            /\ UNCHANGED inbox

(***************************************************************************)
(* Hello: ZMQClient::run() and ZMQBroker::helloServerReceive()             *)
(***************************************************************************)

Starts == FoldFunction(+, 0, boots)

(* run() of a client sends one hello request and waits for the reply. *)
Boot(d) ==
  /\ phase[d] = "down"
  /\ Starts < MaxBoots
  /\ phase' = [phase EXCEPT ![d] = "asking"]
  /\ boots' = [boots EXCEPT ![d] = @ + 1]
  /\ hello' = Append(hello, <<d, boots'[d]>>)
  /\ UNCHANGED <<ident, table, welcome, socketVars, inward, commandVars, requestVars, ids>>

(* registerDeviceManager(), in run() of the broker: the reply goes to the  *)
(* socket that asked, and to nobody if its daemon has been restarted.      *)
RegisterDeviceManager ==
  /\ hello # << >> /\ outgoing = None
  /\ LET d == Head(hello)[1]
         alive == phase[d] = "asking" /\ boots[d] = Head(hello)[2]
     IN  /\ IF Full THEN table' = table ELSE Register(PrefixOf[d])
         /\ welcome' = IF ~alive THEN welcome
                       ELSE [welcome EXCEPT ![d] = IF Full THEN Error ELSE Last(table')]
  /\ hello' = Tail(hello)
  /\ UNCHANGED <<daemonVars, socketVars, inward, commandVars, requestVars, ids>>

(* The client has its identity and opens the data socket; an error instead *)
(* is answered on that socket, which is not there, and ends the client.    *)
Welcome(d) ==
  /\ phase[d] = "asking"
  /\ welcome[d] # None
  /\ welcome' = [welcome EXCEPT ![d] = None]
  /\ IF welcome[d] = Error
       THEN phase' = [phase EXCEPT ![d] = "failed"] /\ ident' = ident
       ELSE /\ phase' = [phase EXCEPT ![d] = "up"]
            /\ ident' = [ident EXCEPT ![d] = welcome[d]]
  /\ UNCHANGED <<boots, table, hello, socketVars, inward, commandVars, requestVars, ids>>

(* The process ends.  Nobody tells the broker: unregisterDaemon() is never *)
(* called, and the entry of the table stays.                               *)
Crash(d) ==
  /\ phase[d] \in {"asking", "up"}
  /\ phase' = [phase EXCEPT ![d] = "down"]
  /\ ident' = [ident EXCEPT ![d] = None]
  /\ welcome' = [welcome EXCEPT ![d] = None]
  /\ IF phase[d] = "up"
       THEN /\ inbox' = [inbox EXCEPT ![ident[d]] = << >>]
            /\ lost' = lost \cup {f.id : f \in ToSet(inbox[ident[d]])}
       ELSE UNCHANGED <<inbox, lost>>
  /\ UNCHANGED <<boots, table, hello, part, inward, commandVars, requestVars, ids>>

(***************************************************************************)
(* Commands: handle(), on threads of the pool                              *)
(***************************************************************************)

(* accept() wants a manager for a set command; the managers are copied. *)
Collect(c) ==
  /\ todo[c] = None
  /\ \/ \E p \in Technologies :  \* DeviceSetValueCommand
          IsRegistered(p) /\ todo' = [todo EXCEPT ![c] = GetAll(p)]
     \/ \E p \in Technologies :  \* DeviceUnpairCommand
          todo' = [todo EXCEPT ![c] = GetAll(p)]
     \/ todo' = [todo EXCEPT ![c] = GetEverybody]  \* GatewayListenCommand
  /\ UNCHANGED <<daemonVars, helloVars, socketVars, inward, sending, cmdTable, requestVars, ids>>

(* Mutated: no result is registered for the id. *)
SendIdentityOnly(c) ==
  /\ todo[c] \notin {None, << >>} /\ sending[c] = None
  /\ ids < MaxIds /\ ids' = ids + 1
  /\ sending' = [sending EXCEPT ![c] = ids']
  /\ SendMore(Head(todo[c]))
  /\ UNCHANGED <<daemonVars, helloVars, inward, todo, cmdTable, requestVars>>

(* The message gets a random id, the id a new result; the first frame. *)
SendIdentity(c) ==
  /\ todo[c] \notin {None, << >>} /\ sending[c] = None
  /\ ids < MaxIds /\ ids' = ids + 1
  /\ sending' = [sending EXCEPT ![c] = ids']
  /\ cmdTable' = Insert(cmdTable, ids', "pending")
  /\ SendMore(Head(todo[c]))
  /\ UNCHANGED <<daemonVars, helloVars, inward, todo, requestVars>>

SendCommand(c) ==
  /\ sending[c] # None
  /\ SendLast([kind |-> "command", id |-> sending[c]])
  /\ sending' = [sending EXCEPT ![c] = None]
  /\ todo' = [todo EXCEPT ![c] = Tail(@)]
  /\ UNCHANGED <<daemonVars, helloVars, inward, cmdTable, requestVars, ids>>

(***************************************************************************)
(* The daemon: dataServerReceive() of ZMQClient, onReceive() of its device *)
(* manager, which answers at once                                          *)
(***************************************************************************)

Take(d) ==
  /\ phase[d] = "up" /\ inbox[ident[d]] # << >>
  /\ inbox' = [inbox EXCEPT ![ident[d]] = Tail(@)]

First(d) == Head(inbox[ident[d]])

Send(d, message) == inward' = [inward EXCEPT ![ident[d]] = Append(@, message)]

ReceiveCommand(d) ==
  /\ Take(d) /\ First(d).kind = "command"
  /\ \E status \in {"success", "failed"} :
       Send(d, [kind |-> "done", id |-> First(d).id, status |-> status])
  /\ UNCHANGED <<daemonVars, helloVars, part, lost, commandVars, requestVars, ids>>

(* A result is looked up by its id; a reply to another one is dropped. *)
ReceiveResult(d) ==
  /\ Take(d) /\ First(d).kind = "result"
  /\ LET request == First(d).id
         mine == request \in DOMAIN asked /\ asked[request].by = ident[d]
     IN  /\ got' = IF mine THEN (request :> First(d).status) @@ got ELSE got
         /\ lost' = IF mine THEN lost ELSE lost \cup {request}
  /\ UNCHANGED <<daemonVars, helloVars, part, inward, commandVars, asked, dirty, outgoing, ids>>

(* Mutated: the exception of the parser ends the client. *)
ReceiveJunkFailing(d) ==
  /\ Take(d) /\ First(d).kind = "identity"
  /\ phase' = [phase EXCEPT ![d] = "failed"]
  /\ UNCHANGED <<ident, boots, helloVars, part, lost, inward, commandVars, requestVars, ids>>

(* What is no JSON is answered with an error of syntax, and dropped. *)
ReceiveJunk(d) ==
  /\ Take(d) /\ First(d).kind = "identity"
  /\ Send(d, [kind |-> "error", id |-> None])
  /\ UNCHANGED <<daemonVars, helloVars, part, lost, commandVars, requestVars, ids>>

(* An error of the broker is no command and no result. *)
ReceiveError(d) ==
  /\ Take(d) /\ First(d).kind = "error"
  /\ UNCHANGED <<daemonVars, helloVars, part, lost, inward, commandVars, requestVars, ids>>

(* The manager asks for the last value or for the list of devices. *)
Request(d) ==
  /\ phase[d] = "up"
  /\ Cardinality(DOMAIN asked) < MaxRequests
  /\ \A i \in Identities : \A k \in 1..Len(inward[i]) : inward[i][k].kind # "request"
  /\ ids < MaxIds /\ ids' = ids + 1
  /\ Send(d, [kind |-> "request", id |-> ids'])
  /\ UNCHANGED <<daemonVars, helloVars, socketVars, commandVars, requestVars>>

(***************************************************************************)
(* run() of the broker: receive, answer, one after the other               *)
(***************************************************************************)

Arrives(i, kind) ==
  /\ outgoing = None
  /\ inward[i] # << >> /\ Head(inward[i]).kind = kind
  /\ inward' = [inward EXCEPT ![i] = Tail(@)]

(* doDefaultResult(); an id that is not in m_cmdTable is the end() of it.  *)
ReceiveDone(i) ==
  /\ Arrives(i, "done")
  /\ LET message == Head(inward[i])
     IN  IF message.id \in DOMAIN cmdTable
           THEN cmdTable' = [cmdTable EXCEPT ![message.id] = message.status]
           ELSE UNCHANGED cmdTable
  /\ UNCHANGED <<daemonVars, helloVars, socketVars, todo, sending, requestVars, ids>>

(* doDeviceListCommand(), doDeviceLastValueCommand(): who asked is kept,   *)
(* the command is dispatched.                                              *)
ReceiveRequest(i) ==
  /\ Arrives(i, "request")
  /\ asked' = Insert(asked, Head(inward[i]).id, [by |-> i, status |-> "pending", settled |-> FALSE])
  /\ UNCHANGED <<daemonVars, helloVars, socketVars, commandVars, dirty, outgoing, got, ids>>

(* An error is answered with an error, of one frame: it ends the message   *)
(* that another thread has begun, or is dropped.                           *)
ReceiveErrorMessage(i) ==
  /\ Arrives(i, "error")
  /\ SendLast([kind |-> "error", id |-> None])
  /\ UNCHANGED <<daemonVars, helloVars, commandVars, requestVars, ids>>

(* Mutated: the status is changed without notifyUpdated(). *)
SettleQuietly(r) ==
  /\ ~asked[r].settled
  /\ \E status \in {"success", "failed", "pending"} :
       asked' = [asked EXCEPT ![r].status = status, ![r].settled = TRUE]
  /\ UNCHANGED <<daemonVars, helloVars, socketVars, inward, commandVars, dirty, outgoing, got, ids>>

(* handle() of the fake handler, once: the result is settled, or left      *)
(* PENDING for a device it does not know, and the answer notified.         *)
Settle(r) ==
  /\ ~asked[r].settled
  /\ \E status \in {"success", "failed", "pending"} :
       asked' = [asked EXCEPT ![r].status = status, ![r].settled = TRUE]
  /\ dirty' = dirty \cup {r}
  /\ UNCHANGED <<daemonVars, helloVars, socketVars, inward, commandVars, outgoing, got, ids>>

(* checkQueue() for a dirty answer, in two frames. *)
ReplyIdentity(r) ==
  /\ outgoing = None
  /\ r \in dirty
  /\ dirty' = dirty \ {r}
  /\ outgoing' = r
  /\ SendMore(asked[r].by)
  /\ UNCHANGED <<daemonVars, helloVars, inward, commandVars, asked, got, ids>>

ReplyResult ==
  /\ outgoing # None
  /\ SendLast([kind |-> "result", id |-> outgoing, status |-> asked[outgoing].status])
  /\ outgoing' = None
  /\ UNCHANGED <<daemonVars, helloVars, inward, commandVars, asked, dirty, got, ids>>

(***************************************************************************)
(* Specification                                                           *)
(***************************************************************************)

Handle(c) == SendIdentity(c) \/ SendCommand(c)

Client(d) ==
  \/ Welcome(d)
  \/ ReceiveCommand(d) \/ ReceiveResult(d) \/ ReceiveJunk(d) \/ ReceiveError(d)

Receive(i) == ReceiveDone(i) \/ ReceiveRequest(i) \/ ReceiveErrorMessage(i)

Next ==
  \/ RegisterDeviceManager
  \/ ReplyResult
  \/ \E d \in Daemons : Boot(d) \/ Crash(d) \/ Request(d) \/ Client(d)
  \/ \E c \in Commands : Collect(c) \/ Handle(c)
  \/ \E i \in Identities : Receive(i)
  \/ \E r \in DOMAIN asked : Settle(r) \/ ReplyIdentity(r)

(* The threads of the pool, the loop of the broker, which does each of its *)
(* jobs again and again, and the loops of the clients go on.  Daemons need *)
(* not start, ask or end, and nobody need dispatch a command.              *)
Fairness ==
  /\ WF_vars(RegisterDeviceManager) /\ WF_vars(ReplyResult)
  /\ \A d \in Daemons : WF_vars(Client(d))
  /\ \A c \in Commands : WF_vars(Handle(c))
  /\ \A i \in Identities : WF_vars(Receive(i))
  /\ WF_vars(\E r \in DOMAIN asked : Settle(r))
  /\ WF_vars(\E r \in DOMAIN asked : ReplyIdentity(r))

Spec == Init /\ [][Next]_vars /\ Fairness

(***************************************************************************)
(* Properties                                                              *)
(***************************************************************************)

(* Nobody reuses the number of a manager, though managers are told apart   *)
(* by it and it is computed from the ends of the table only.               *)
UniqueIdents ==
  \A j, k \in 1..Len(table) : j # k => table[j].ident # table[k].ident

(* Two processes are never connected under one identity, whatever crashed  *)
(* and started again while its hello was on its way: a socket would        *)
(* deliver the commands of one to the other.                               *)
OneProcessPerIdentity ==
  \A d, e \in Daemons :
    d # e /\ ident[d] # None /\ ident[e] # None => ident[d] # ident[e]

(* Types, and the numbers of the managers. *)
BInv ==
  /\ table \in Seq(Identities) /\ Len(table) <= UINT8_MAX + 1
  /\ phase \in [Daemons -> {"down", "asking", "up", "failed"}]
  /\ ident \in [Daemons -> Identities \cup {None}]
  /\ UniqueIdents
  /\ OneProcessPerIdentity

(* Every result that arrives, or may still arrive, belongs to a command:   *)
(* doDefaultResult() would dereference the end of the table otherwise,     *)
(* however the frames of the threads have mixed.                           *)
ResultMeetsCommand ==
  \A i \in Identities :
    /\ \A k \in 1..Len(inward[i]) :
         inward[i][k].kind = "done" => inward[i][k].id \in DOMAIN cmdTable
    /\ \A k \in 1..Len(inbox[i]) :
         inbox[i][k].kind = "command" => inbox[i][k].id \in DOMAIN cmdTable

(* A command that is on its way to a manager gets a result, unless a       *)
(* socket dropped the message or its receiver died.                        *)
CommandEnds ==
  \A n \in 1..MaxIds :
    n \in DOMAIN cmdTable ~>
      n \in lost \/ n \in {m \in DOMAIN cmdTable : cmdTable[m] # "pending"}

(* The one who asked gets an answer to its request, unless it is lost.     *)
EveryRequestIsAnswered ==
  \A n \in 1..MaxIds : n \in DOMAIN asked ~> n \in DOMAIN got \/ n \in lost
=============================================================================
