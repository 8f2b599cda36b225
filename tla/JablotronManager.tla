--------------------------- MODULE JablotronManager --------------------------
(***************************************************************************)
(* JablotronDeviceManager with its dongle on a serial line.  The main loop *)
(* takes results, opens the line, reads a message; the thread of the ZMQ   *)
(* client handles commands, a timer ends a listening.  setSwitch() runs in *)
(* the main loop and in the client at once.  A message of the dongle       *)
(* stands for its tokens: the serial number of the device, the word that   *)
(* says what happened, the number behind it and the one of the battery.    *)
(***************************************************************************)
EXTENDS ManagerRequests, Sequences

CONSTANTS
  Switches,                   \* the AC-88 the dongle knows, in its order
  NUMBER_OF_RETRIES,
  MAX_NUMBER_FAILED_REPEATS,
  MaxLoads,                   \* bound on the loads of the dongle's devices
  MaxSets                     \* bound on the set commands

ASSUME SwitchAssumption ==
  /\ Switches \in Seq(Devices) /\ Switches # << >>
  /\ NUMBER_OF_RETRIES \in Nat \ {0} /\ MAX_NUMBER_FAILED_REPEATS \in Nat \ {0}
  /\ MaxLoads \in Nat /\ MaxSets \in Nat
  /\ 0 \in Values  \* an output that is off

(***************************************************************************)
(* What the dongle says: the type of a device from its serial number, the  *)
(* value of a module from the words of a message.                          *)
(***************************************************************************)

Types == {"AC88", "JA80L", "TP82N", "JA83M", "JA81M", "JA82SH", "JA83P", "JA85ST", "RC86K"}

Mega == 65536  \* serial numbers come in blocks of 0x10000

(* The first and the last block of each type; AC88 has the upper 0xCF.     *)
Blocks ==
  [AC88 |-> <<207, 207>>, JA80L |-> <<88, 89>>, TP82N |-> <<36, 37>>,
   JA83M |-> <<28, 29>>, JA81M |-> <<24, 27>>, JA82SH |-> <<127, 127>>,
   JA83P |-> <<100, 101>>, JA85ST |-> <<118, 118>>, RC86K |-> <<128, 151>>]

IsOf(serial, type) == serial \div Mega \in Blocks[type][1]..Blocks[type][2]

(* getDeviceType(), "none" for its 0. *)
GetDeviceType(serial) ==
  IF \E type \in Types : IsOf(serial, type)
    THEN CHOOSE type \in Types : IsOf(serial, type)
    ELSE "none"

STATE_ON == 1
STATE_OFF == 2
FULL_BATTERY == 100
LOW_BATTERY == 5

(* convert(): 1 is an open contact, anything else a closed one. *)
Convert(number, reverse) ==
  IF number = 1 THEN 1 ELSE IF reverse THEN 2 ELSE 0

GetBatteryStatus(number) == IF number # 0 THEN LOW_BATTERY ELSE FULL_BATTERY

Value(module, value) == [module |-> module, value |-> value, off |-> {}]

(* A sensor that only says it went on: the value it goes off to follows.   *)
Event(module, value, off) == [module |-> module, value |-> value, off |-> {off}]

(* What a message of no use is: the parser throws. *)
Unknown == [module |-> "none", value |-> 0, off |-> {}]

(* The fire sensor counts from 0, its button does not. *)
ParseJA85ST(word, number) ==
  CASE word = "SENSOR" -> Event("fire", 1, 0)
    [] word = "BUTTON" -> Value("fire", STATE_ON)
    [] word = "TAMPER" -> Value("alarm", Convert(number, TRUE))
    [] word = "DEFECT" -> Value("error", Convert(number, TRUE))
    [] OTHER -> Unknown

ParseJA83PJA82SH(word, number) ==
  CASE word = "TAMPER" -> Value("alarm", Convert(number, TRUE))
    [] word = "SENSOR" -> Event("sensor", STATE_ON, STATE_OFF)
    [] OTHER -> Unknown

ParseJA81MJA83M(word, number) ==
  CASE word = "SENSOR" -> Value("contact", Convert(number, TRUE))
    [] word = "TAMPER" -> Value("alarm", Convert(number, TRUE))
    [] OTHER -> Unknown

ParseRC86K(word, number) ==
  IF word = "PANIC" THEN Event("alarm", STATE_ON, STATE_OFF)
  ELSE Value("control", Convert(number, TRUE))

ParseTP82N(word, number) ==
  IF word = "SET" THEN Value("requested", number) ELSE Value("current", number)

(* parseMessageFromDevice(): the value behind the one of the battery. *)
Parse(serial, word, number) ==
  LET type == GetDeviceType(serial)
  IN  CASE type = "AC88" -> Value("state", Convert(number, FALSE))
        [] type = "JA85ST" -> ParseJA85ST(word, number)
        [] type \in {"JA83P", "JA82SH"} -> ParseJA83PJA82SH(word, number)
        [] type \in {"JA81M", "JA83M"} -> ParseJA81MJA83M(word, number)
        [] type = "RC86K" -> ParseRC86K(word, number)
        [] type = "TP82N" -> ParseTP82N(word, number)
        [] OTHER -> Unknown

(***************************************************************************)
(* The manager                                                             *)
(***************************************************************************)

Setters == {"main", "client"}
Outputs == {"pgx", "pgy"}

VARIABLES
  jpc,          \* where the main loop is
  fd,           \* the serial line: open or closed
  loadDevices,  \* the devices of the dongle have been loaded
  devices,      \* m_devices: their serial numbers
  toAsk,        \* the switches loadRegDevices() has still to ask for
  listening,    \* the timer of a listening: never, armed, fired
  listen,       \* m_listen
  pg,           \* pgx and pgy
  packet,       \* the setSwitch() of each thread that runs it
  dongle,       \* the outputs the dongle has been told
  agreed,       \* the last setSwitch() was alone and got through
  sets,         \* the set commands so far
  event,        \* m_sensorEvent, with the device whose message set it
  following     \* the device of the message that is being sent

serialVars == <<fd, loadDevices, devices, toAsk>>
switchVars == <<pg, packet, dongle, agreed, sets>>
listenVars == <<listening, listen>>
eventVars == <<event, following>>
jablotronVars == <<jpc, serialVars, switchVars, listenVars, eventVars>>

JablotronInit ==
  /\ jpc = "queue"
  /\ fd = "closed"
  /\ loadDevices = FALSE
  /\ devices = << >>
  /\ toAsk = {}
  /\ listening = "never"
  /\ listen = TRUE
  /\ pg = [o \in Outputs |-> 0]
  /\ packet = [t \in Setters |-> None]
  /\ dongle = [o \in Outputs |-> 0]
  /\ agreed = FALSE
  /\ sets = 0
  /\ event = None
  /\ following = None

(***************************************************************************)
(* setSwitch() and retransmissionPacket()                                  *)
(***************************************************************************)

(* The first switch of the dongle is on output X, any other on Y. *)
OutputOf(device) ==
  IF devices # << >> /\ device = devices[1] THEN "pgx" ELSE "pgy"

(* The output is set; whoever transmits meanwhile is disturbed. *)
StartSwitch(t, device, value) ==
  /\ packet[t] = None
  /\ pg' = [pg EXCEPT ![OutputOf(device)] = value]
  /\ packet' = [u \in Setters |->
       IF u = t
         THEN [outputs |-> None, good |-> 0, bad |-> 0,
               disturbed |-> \E v \in Setters : packet[v] # None]
         ELSE IF packet[u] = None THEN None ELSE [packet[u] EXCEPT !.disturbed = TRUE]]
  /\ agreed' = FALSE
  /\ UNCHANGED dongle

(* Mutated: the packet sets the output of the command only. *)
BuildOne(t) ==
  /\ packet[t] # None /\ packet[t].outputs = None
  /\ packet' = [packet EXCEPT ![t].outputs = [pg EXCEPT !["pgy"] = 0]]
  /\ UNCHANGED <<pg, dongle, agreed>>

(* The packet carries both outputs. *)
Build(t) ==
  /\ packet[t] # None /\ packet[t].outputs = None
  /\ packet' = [packet EXCEPT ![t].outputs = pg]
  /\ UNCHANGED <<pg, dongle, agreed>>

Finished(p) == p.good = MAX_NUMBER_FAILED_REPEATS \/ p.bad = NUMBER_OF_RETRIES

(* Mutated: a write that failed is repeated without being counted. *)
TransmitForever(t) ==
  /\ packet[t] # None /\ packet[t].outputs # None
  /\ ~Finished(packet[t])
  /\ IF fd = "open"
       THEN packet' = [packet EXCEPT ![t].good = @ + 1] /\ dongle' = packet[t].outputs
       ELSE UNCHANGED <<packet, dongle>>
  /\ UNCHANGED <<pg, agreed>>

(* ssend() says true when the write has failed: a write that succeeded is  *)
(* taken for a failure and repeated, up to the number of failures, and one *)
(* that failed counts as one of the retries.                               *)
Transmit(t) ==
  /\ packet[t] # None /\ packet[t].outputs # None
  /\ ~Finished(packet[t])
  /\ \/ /\ fd = "open"
        /\ packet' = [packet EXCEPT ![t].good = @ + 1]
        /\ dongle' = packet[t].outputs
     \/ /\ packet' = [packet EXCEPT ![t].bad = @ + 1]
        /\ UNCHANGED dongle
  /\ UNCHANGED <<pg, agreed>>

EndSwitch(t) ==
  /\ packet[t] # None /\ Finished(packet[t])
  /\ agreed' = (~packet[t].disturbed /\ packet[t].good > 0)
  /\ packet' = [packet EXCEPT ![t] = None]
  /\ UNCHANGED <<pg, dongle>>

Switching(t) == Build(t) \/ Transmit(t) \/ EndSwitch(t)

SwitchStep(t) ==
  /\ Switching(t)
  /\ UNCHANGED <<jpc, serialVars, listenVars, eventVars, sets, requestVars>>

(***************************************************************************)
(* The main loop                                                           *)
(***************************************************************************)

(* getDeviceList(), getLastValue(): the list is emptied before the asking. *)
GetDeviceList(t) == Ask(t, <<"list", None>>, {})
GetLastValue(t, device) == Ask(t, <<"value", device>>, paired)

CheckQueue ==
  /\ jpc = "queue"
  /\ jpc' = "batch"
  /\ TakeBatch
  /\ UNCHANGED <<serialVars, switchVars, listenVars, eventVars>>

TakeOne ==
  /\ jpc = "batch" /\ packet["main"] = None
  /\ \/ (TakeList \/ TakeFailure) /\ UNCHANGED switchVars
     \/ /\ TakeValue
        /\ StartSwitch("main", request[Foremost].what[2],
             IF result[Foremost].content = None THEN 0 ELSE result[Foremost].content)
        /\ UNCHANGED sets
  /\ UNCHANGED <<jpc, serialVars, listenVars, eventVars>>

BatchDone ==
  /\ jpc = "batch" /\ batch = {} /\ packet["main"] = None
  /\ jpc' = "load"
  /\ UNCHANGED <<serialVars, switchVars, listenVars, eventVars, requestVars>>

(* initSerial(); a dongle that is not there is tried again later. *)
OpenSerial ==
  /\ jpc = "load" /\ fd = "closed"
  /\ \/ fd' = "open" /\ UNCHANGED <<jpc, loadDevices>>
     \/ fd' = "closed" /\ loadDevices' = FALSE /\ jpc' = "queue"
  /\ UNCHANGED <<devices, toAsk, switchVars, listenVars, eventVars, requestVars>>

(* loadRegDevices(): the slots are read, the devices added to the ones of  *)
(* an earlier load, the paired switches asked for.                         *)
LoadRegDevices ==
  /\ jpc = "load" /\ fd = "open" /\ ~loadDevices
  /\ \/ /\ Len(devices) < MaxLoads * Len(Switches)
        /\ devices' = devices \o Switches
        /\ loadDevices' = TRUE
        /\ toAsk' = paired
        /\ jpc' = "ask"
     \/ jpc' = "queue" /\ UNCHANGED <<devices, loadDevices, toAsk>>
  /\ UNCHANGED <<fd, switchVars, listenVars, eventVars, requestVars>>

AskForValue ==
  /\ jpc = "ask"
  /\ \/ \E device \in toAsk : GetLastValue("main", device) /\ toAsk' = toAsk \ {device}
     \/ Enter("main") /\ UNCHANGED toAsk
  /\ UNCHANGED <<jpc, fd, loadDevices, devices, switchVars, listenVars, eventVars>>

Loaded ==
  /\ \/ jpc = "load" /\ fd = "open" /\ loadDevices
     \/ jpc = "ask" /\ sending["main"] = None /\ (toAsk = {} \/ ~Free("main"))
  /\ jpc' = "read"
  /\ toAsk' = {}
  /\ UNCHANGED <<fd, loadDevices, devices, switchVars, listenVars, eventVars, requestVars>>

(* sread(): nothing, or an error, which closes the line. *)
ReadNothing ==
  /\ jpc = "read"
  /\ fd' \in {"open", "closed"}
  /\ jpc' = "queue"
  /\ UNCHANGED <<loadDevices, devices, toAsk, switchVars, listenVars, eventVars, requestVars>>

(* A message of a device: what is parsed is sent, unless nobody listens    *)
(* and the device is not paired.  An event is marked while it is parsed.   *)
ReadMessage(serial, word, number) ==
  LET parsed == Parse(serial, word, number)
  IN  /\ jpc = "read"
      /\ parsed # Unknown
      /\ event' = IF parsed.off = {} THEN event ELSE serial
      /\ IF listen \/ serial \in paired
           THEN jpc' = "sent" /\ following' = serial
           ELSE jpc' = "queue" /\ UNCHANGED following
  /\ UNCHANGED <<serialVars, switchVars, listenVars, requestVars>>

(* The message that switches an event off follows a second later. *)
SendEvent ==
  /\ jpc = "sent"
  /\ jpc' = "queue"
  /\ event' = None
  /\ following' = None
  /\ UNCHANGED <<serialVars, switchVars, listenVars, requestVars>>

(***************************************************************************)
(* onEvent(), in the thread of the ZMQ client, and the timer               *)
(***************************************************************************)

ClientFree == replying = None /\ packet["client"] = None

ClientReply ==
  /\ ClientFree
  /\ \E id \in DOMAIN request : \E status \in {"success", "failed", "pending"} : Reply(id, status)
  /\ UNCHANGED jablotronVars

ClientContent ==
  /\ replying # None
  /\ IF Kind(replying) = "list"
       THEN \E list \in Lists : WriteContent(list)
       ELSE \E value \in Values : WriteContent(value)
  /\ UNCHANGED jablotronVars

DoSetValuesCommand ==
  /\ ClientFree
  /\ sets < MaxSets
  /\ sets' = sets + 1
  /\ \E device \in Devices : \E value \in Values : StartSwitch("client", device, value)
  /\ UNCHANGED <<jpc, serialVars, listenVars, eventVars, requestVars>>

DoDeviceUnpairCommand ==
  /\ ClientFree
  /\ \E device \in paired : Forget(device)
  /\ UNCHANGED jablotronVars

DoListenCommand ==
  /\ ClientFree /\ listening = "never"
  /\ listening' = "armed"
  /\ listen' = TRUE
  /\ UNCHANGED <<jpc, serialVars, switchVars, eventVars, requestVars>>

(* Mutated: the end of a listening ends it. *)
StopListenIndeed ==
  /\ listening = "armed"
  /\ listening' = "fired"
  /\ listen' = FALSE
  /\ GetDeviceList("timer")
  /\ UNCHANGED <<jpc, serialVars, switchVars, eventVars>>

(* The end of a listening does not end it; the list is asked for again. *)
StopListen ==
  /\ listening = "armed"
  /\ listening' = "fired"
  /\ listen' = TRUE
  /\ GetDeviceList("timer")
  /\ UNCHANGED <<jpc, serialVars, switchVars, eventVars>>

TimerEnters == Enter("timer") /\ UNCHANGED jablotronVars

(***************************************************************************)
(* Properties                                                              *)
(***************************************************************************)

(* A setSwitch() that ran alone and got through leaves the dongle with     *)
(* what the manager believes of both outputs, whatever the calls before it *)
(* have mixed up on the line.                                              *)
SwitchAgrees == agreed => dongle = pg

(* A packet nobody disturbed is the only one, and says what was set last.  *)
PacketsInv ==
  /\ agreed => \A t \in Setters : packet[t] = None
  /\ \A t \in Setters : packet[t] # None /\ ~packet[t].disturbed =>
       /\ \A u \in Setters : u # t => packet[u] = None
       /\ packet[t].outputs # None => packet[t].outputs = pg
       /\ packet[t].good > 0 => packet[t].outputs # None /\ packet[t].outputs = dongle

(* An event is switched off before another message is read: the message    *)
(* that switches it off names the device of the last message.              *)
NoEventLeftOver ==
  /\ jpc = "read" => event = None
  /\ event # None => event = following

(* Somebody listens at all times, so that no event is marked and dropped.  *)
EventInv == listen /\ (event # None => jpc = "sent" /\ event = following)

(* The main loop comes round: a broken line, a dongle that does not answer *)
(* or the repetitions of a packet never hold it for ever.                  *)
MainLoopGoesOn == []<>(jpc = "queue")
=============================================================================
