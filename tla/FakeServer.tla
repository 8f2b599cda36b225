----------------------------- MODULE FakeServer ------------------------------
(***************************************************************************)
(* FakeHandlerTest, which plays the server: it is told by the configuration *)
(* which devices there are and what their last values are, learns of more  *)
(* from the values they measure, and answers the device managers.  Every   *)
(* command, result and measurement goes through a message of its own.      *)
(***************************************************************************)
EXTENDS Messages, FiniteSets

CONSTANTS None,
          Kinds,       \* the setters of devices that are used, of the 14
          Numbers,     \* serial numbers and nodes; 0 is no device
          LastSlots,   \* the setters of last values that are used, of the 6
          LastValues,  \* what the last values may be, in units
          Actions,     \* the commands of setAction() and its parameters
          Measured     \* what devices measure

VARIABLES paired,  \* m_pairedDevice
          own,     \* m_deviceAC881 and the like
          last,    \* m_deviceAC881LastState and the like
          active,  \* m_activeAction
          action,  \* m_action with its parameters
          phase,   \* "configure", "idle"; "sent", "answered" and then "read"
          wire,    \* the message on its way
          asked,   \* what it has been written from
          truth,   \* what the reader of the last message has to get
          got      \* what he has got: a set

configVars == <<own, last, action>>
serverVars == <<paired, active, phase, wire, asked, truth, got, configVars>>

Jablotron == {"AC881", "AC882", "JA81M", "JA82SH", "JA83M", "JA83P", "JA85ST", "RC86K", "TP82N"}
ZWave == {"Aeotec", "DLink", "Fibaro", "Philio", "Popp"}
Remembered == {"AC881", "AC882", "Aeotec", "DLink", "Popp"}
Slots == {"AC881", "AC882", "AeotecPir", "AeotecRefresh", "DLink", "Popp"}

PIR == 6      \* the modules of Aeotec with a slot
REFRESH == 8

(* generateDeviceID(): the nodes of Z-Wave share a home. *)
GenerateDeviceID(kind, number) ==
  IF kind \in ZWave THEN [prefix |-> "Z-Wave", home |-> 1, number |-> number]
  ELSE [prefix |-> "Jablotron", home |-> 0, number |-> number]

ServerInit ==
  /\ paired = {} /\ own = [kind \in Remembered |-> None] /\ last = [slot \in Slots |-> 0]
  /\ active = TRUE /\ action = None
  /\ phase = "configure" /\ wire = None /\ asked = None /\ truth = None /\ got = {}

(* The setters.  A last value nobody sets is not initialized. *)
SetDevice(kind, number) ==
  /\ phase = "configure"
  /\ LET id == GenerateDeviceID(kind, number)
     IN  /\ paired' = IF number = 0 THEN paired ELSE paired \cup {id}
         /\ own' = IF kind \in Remembered
                   THEN [own EXCEPT ![kind] = IF number = 0 THEN None ELSE id] ELSE own
  /\ UNCHANGED <<last, active, action, phase, wire, asked, truth, got>>

SetLastValue(slot, value) ==
  /\ phase = "configure" /\ last' = [last EXCEPT ![slot] = value]
  /\ UNCHANGED <<paired, own, active, action, phase, wire, asked, truth, got>>

SetAction(command) ==
  /\ phase = "configure" /\ action' = command
  /\ UNCHANGED <<paired, own, last, active, phase, wire, asked, truth, got>>

Configured ==
  /\ phase = "configure" /\ phase' = "idle"
  /\ UNCHANGED <<paired, active, wire, asked, truth, got, configVars>>

Send(what, message) ==
  /\ phase = "idle" /\ phase' = "sent"
  /\ asked' = what /\ truth' = what /\ wire' = message
  /\ UNCHANGED <<paired, active, got, configVars>>

(* A device manager has measured something: the broker exports it and the  *)
(* device counts as paired.                                                *)
Measure == \E data \in Measured : Send(data, FromSensorData(data))

AddPairedDeviceID ==
  /\ phase = "sent" /\ wire.message_type = "measured_values"
  /\ phase' = "read" /\ got' = ToSensorData(wire)
  /\ paired' = paired \cup {data.device : data \in got'}
  /\ UNCHANGED <<own, last, active, action, wire, asked, truth>>

(* A manager asks; it knows its prefix, its devices and their modules. *)
AskForList ==
  \E prefix \in {"Jablotron", "Z-Wave"} :
    LET command == [name |-> "list", prefix |-> prefix]
    IN  Send(command, FromCommand(1, command))

AskForValue ==
  \E kind \in Kinds, number \in Numbers \ {0}, module \in {0, PIR, REFRESH} :
    LET command == [name |-> "last", device |-> GenerateDeviceID(kind, number), module |-> module]
    IN  Send(command, FromCommand(1, command))

(* The broker has read the command and sends the result of the handler. *)
Reply(command, result) ==
  /\ phase' = "answered" /\ got' = {command}
  /\ truth' = result /\ wire' = FromResult(result)
  /\ UNCHANGED <<paired, asked, configVars>>

(* pairedDevices(): a set in the order of the ids. *)
DeviceAt(ids, place) ==
  CHOOSE id \in ids : Cardinality({other \in ids : other.number < id.number}) = place - 1

PairedDevices(prefix) ==
  LET ids == {id \in paired : id.prefix = prefix}
  IN  [place \in 1..Cardinality(ids) |-> DeviceAt(ids, place)]

(* The first request for a list starts the timer of the action. *)
HandleDeviceList ==
  /\ phase = "sent"
  /\ wire.message_type = "device_list_cmd"
  /\ \E command \in ToDeviceListRequest(wire) :
       Reply(command,
             [name |-> "list", status |-> "SUCCESS", list |-> PairedDevices(command.prefix)])
  /\ active' = FALSE

(* In the order they are looked at: two kinds may have got one number. *)
SlotOf(device, module) ==
  LET Is(slot) ==
        CASE slot = "AeotecPir" -> own["Aeotec"] = device /\ module = PIR
          [] slot = "AeotecRefresh" -> own["Aeotec"] = device /\ module = REFRESH
          [] OTHER -> own[slot] = device
  IN  SelectSeq(<<"AC881", "AC882", "Popp", "DLink", "AeotecPir", "AeotecRefresh">>, Is)

(* A device without a slot: FAILED, or left as the result has been created, *)
(* with whatever value there is in it.                                     *)
HandleLastValue ==
  /\ phase = "sent"
  /\ wire.message_type = "device_last_value_cmd"
  /\ \E command \in ToServerLastValueCommand(wire) :
       LET slot == SlotOf(command.device, command.module)
           Result(status, value) ==
             Reply(command, [name |-> "last", status |-> status, value |-> 10 * Second * value])
       IN  \/ slot # <<>> /\ Result("SUCCESS", last[slot[1]])
           \/ slot = <<>> /\ command.device.prefix = "Jablotron" /\ Result("FAILED", 0)
           \/ /\ slot = <<>> /\ command.device.prefix = "Z-Wave"
              /\ \E value \in LastValues : Result("PENDING", value)
  /\ UNCHANGED active

ReadResult ==
  /\ phase = "answered" /\ phase' = "read"
  /\ got' = IF wire.message_type = "device_list_result" THEN ToServerDeviceListResult(wire)
            ELSE ToServerLastValueResult(wire)
  /\ UNCHANGED <<paired, active, wire, asked, truth, configVars>>

(* fire(): the action, once.  The broker sends it to the managers. *)
Fire ==
  /\ ~active /\ action # None
  /\ Send(action, FromCommand(1, action))

ReceiveCommand ==
  /\ phase = "sent" /\ phase' = "read"
  /\ got' = CASE wire.message_type = "listen_cmd" -> ToGatewayListenCommand(wire)
              [] wire.message_type = "set_values_cmd" -> ToDeviceSetValueCommand(wire)
              [] wire.message_type = "device_unpair_cmd" -> ToDeviceUnpairCommand(wire)
              [] OTHER -> {None}
  /\ got' # {None}
  /\ UNCHANGED <<paired, active, wire, asked, truth, configVars>>

(* What the managers answer it with. *)
SendResult ==
  \E status \in {"PENDING", "SUCCESS", "FAILED"} :
    \/ LET result == [name |-> "default", status |-> status]
       IN  Send(result, FromResult(result))
    \/ \E extended \in {"DEVICE_SUCCESS", "GW_DEVICE_TIMEOUT"} :
         LET result == [name |-> "set", status |-> status, extended |-> extended]
         IN  Send(result, FromResult(result))

ReceiveResult ==
  /\ phase = "sent" /\ phase' = "read"
  /\ got' = CASE wire.message_type = "default_result" -> ToDefaultResult(wire)
              [] wire.message_type = "set_values_result" -> ToDeviceSetValueResult(wire)
              [] OTHER -> {None}
  /\ got' # {None}
  /\ UNCHANGED <<paired, active, wire, asked, truth, configVars>>

Forget ==
  /\ phase = "read" /\ phase' = "idle"
  /\ wire' = None /\ asked' = None /\ truth' = None /\ got' = {}
  /\ UNCHANGED <<paired, active, configVars>>

ServerNext ==
  \/ \E kind \in Kinds, number \in Numbers : SetDevice(kind, number)
  \/ \E slot \in LastSlots, value \in LastValues : SetLastValue(slot, value)
  \/ \E command \in Actions : SetAction(command)
  \/ Configured \/ Measure \/ AddPairedDeviceID \/ AskForList \/ AskForValue
  \/ HandleDeviceList \/ HandleLastValue \/ ReadResult
  \/ Fire \/ ReceiveCommand \/ SendResult \/ ReceiveResult \/ Forget

(* What a double and a time are worth behind the wire: six decimals, whole *)
(* seconds.                                                                *)
RoundedItem(item) == [item EXCEPT !.value = ParseFloat(Written(@))]

Rounded(item) ==
  [field \in DOMAIN item |->
     CASE field \in {"duration", "timeout"} -> ParseTime(WrittenTime(item[field]))
       [] field = "value" -> ParseFloat(Written(item[field]))
       [] field = "values" -> [i \in DOMAIN item.values |-> RoundedItem(item.values[i])]
       [] OTHER -> item[field]]

(* Whoever reads a message gets what its writer has put into it, and       *)
(* nothing reads as something else: the server exports what has been       *)
(* measured; a manager gets the devices that are configured or have been   *)
(* heard of, each once, and the last values the server has.  This is for   *)
(* module numbers below ten, all the products have; ModuleID writes and    *)
(* reads larger ones in different ways.                                    *)
MessagesReadBack ==
  /\ phase = "answered" => got = {asked}
  /\ phase = "read" => got = {Rounded(truth)}
=============================================================================
