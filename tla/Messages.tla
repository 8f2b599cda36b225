------------------------------ MODULE Messages -------------------------------
(***************************************************************************)
(* ZMQMessage: commands, results and measured values as JSON objects.  An  *)
(* object is a record of its attributes.  What a reader makes of an object *)
(* is the set of its one result, the empty set when it throws.             *)
(*                                                                         *)
(* A double is a number of ten-millionths, a time one of microseconds.     *)
(***************************************************************************)
EXTENDS Integers, Sequences

Second == 1000000

(* to_string() writes six decimals. *)
Written(value) == (value + 5) \div 10
ParseFloat(text) == 10 * text

(* ModuleID::toString() writes hexadecimal digits, parse() reads decimal.  *)
WrittenModule(id) == IF id < 16 THEN <<id>> ELSE <<id \div 16, id % 16>>
ParseModule(digits) ==
  IF \E i \in DOMAIN digits : digits[i] > 9 THEN {}
  ELSE {IF Len(digits) = 1 THEN digits[1] ELSE 10 * digits[1] + digits[2]}

(* The time of the wire, in seconds. *)
WrittenTime(time) == time \div Second
ParseTime(seconds) == Second * seconds

SetValue(value) == [raw |-> Written(value), type |-> "double"]
SetSensorValue(item) ==
  [module_id |-> WrittenModule(item.module), raw |-> Written(item.value), type |-> "double"]

(* "double" is the only type there is; the name of another one throws. *)
GetValue(json) == IF json.type = "double" THEN {ParseFloat(json.raw)} ELSE {}

GetSensorValue(json) ==
  {[module |-> module, value |-> value] :
     module \in ParseModule(json.module_id), value \in GetValue(json)}

(* Every item, or none when one of them throws. *)
GetSensorValues(items) ==
  IF \E i \in DOMAIN items : GetSensorValue(items[i]) = {} THEN {}
  ELSE {[i \in DOMAIN items |-> CHOOSE item \in GetSensorValue(items[i]) : TRUE]}

FromError(code, text) == [message_type |-> "error", error_code |-> code, error_message |-> text]
ToError(json) == {[code |-> json.error_code, text |-> json.error_message]}

FromHelloRequest(prefix) == [message_type |-> "hello_request", device_manager_prefix |-> prefix]
ToHelloRequest(json) == {json.device_manager_prefix}

FromHelloResponse(id) == [message_type |-> "hello_response", device_manager_id |-> id]
ToHelloResponse(json) == {json.device_manager_id}

FromSensorData(data) ==
  [message_type |-> "measured_values", device_id |-> data.device,
   values |-> [i \in DOMAIN data.values |-> SetSensorValue(data.values[i])]]

ToSensorData(json) ==
  {[device |-> json.device_id, values |-> values] : values \in GetSensorValues(json.values)}

(* Commands.  The id is a fresh one in three of them, set by the sender in *)
(* the two that go to the server.                                          *)
FromGatewayListenCommand(id, command) ==
  [message_type |-> "listen_cmd", id |-> id, duration |-> WrittenTime(command.duration)]
ToGatewayListenCommand(json) == {[name |-> "listen", duration |-> ParseTime(json.duration)]}

FromDeviceSetValueCommand(id, command) ==
  [message_type |-> "set_values_cmd", id |-> id, timeout |-> WrittenTime(command.timeout),
   values |-> SetSensorValue(command), device_id |-> command.device]
ToDeviceSetValueCommand(json) ==
  {[name |-> "set", device |-> json.device_id, module |-> module, value |-> value,
    timeout |-> ParseTime(json.timeout)] :
     module \in ParseModule(json.values.module_id), value \in GetValue(json.values)}

FromDeviceUnpairCommand(id, command) ==
  [message_type |-> "device_unpair_cmd", id |-> id, device_id |-> command.device]
ToDeviceUnpairCommand(json) == {[name |-> "unpair", device |-> json.device_id]}

FromServerDeviceListCommand(id, command) ==
  [message_type |-> "device_list_cmd", id |-> id, device_manager_prefix |-> command.prefix]
ToDeviceListRequest(json) == {[name |-> "list", prefix |-> json.device_manager_prefix]}

FromServerLastValueCommand(id, command) ==
  [message_type |-> "device_last_value_cmd", id |-> id, device_id |-> command.device,
   module_id |-> WrittenModule(command.module)]
ToServerLastValueCommand(json) ==
  {[name |-> "last", device |-> json.device_id, module |-> module] :
     module \in ParseModule(json.module_id)}

FromCommand(id, command) ==
  CASE command.name = "listen" -> FromGatewayListenCommand(id, command)
    [] command.name = "set" -> FromDeviceSetValueCommand(id, command)
    [] command.name = "unpair" -> FromDeviceUnpairCommand(id, command)
    [] command.name = "list" -> FromServerDeviceListCommand(id, command)
    [] OTHER -> FromServerLastValueCommand(id, command)

(* Results. *)
FromDefaultResult(result) == [message_type |-> "default_result", result_status |-> result.status]
ToDefaultResult(json) == {[name |-> "default", status |-> json.result_status]}

FromServerDeviceListResult(result) ==
  [message_type |-> "device_list_result", result_status |-> result.status,
   device_list |-> [i \in DOMAIN result.list |-> [device_id |-> result.list[i]]]]
ToServerDeviceListResult(json) ==
  {[name |-> "list", status |-> json.result_status,
    list |-> [i \in DOMAIN json.device_list |-> json.device_list[i].device_id]]}

FromServerLastValueResult(result) ==
  [message_type |-> "device_last_value_result", result_status |-> result.status,
   values |-> SetValue(result.value)]
ToServerLastValueResult(json) ==
  {[name |-> "last", status |-> json.result_status, value |-> value] : value \in GetValue(json.values)}

FromDeviceSetValueResult(result) ==
  [message_type |-> "set_values_result", result_status |-> result.status,
   extented_set_status |-> result.extended]
ToDeviceSetValueResult(json) ==
  {[name |-> "set", status |-> json.result_status, extended |-> json.extented_set_status]}

FromResult(result) ==
  CASE result.name = "default" -> FromDefaultResult(result)
    [] result.name = "list" -> FromServerDeviceListResult(result)
    [] result.name = "last" -> FromServerLastValueResult(result)
    [] OTHER -> FromDeviceSetValueResult(result)
=============================================================================
