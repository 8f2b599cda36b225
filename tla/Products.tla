------------------------------ MODULE Products -------------------------------
(***************************************************************************)
(* The Z-Wave products: what a product makes of the values of its node     *)
(* when one of them has changed, and how it sets them.  A value of the     *)
(* network has a command class, an index, a type, a unit and a value: a    *)
(* number, a Boolean 0 or 1, or the text of a list by its place in it.     *)
(***************************************************************************)
EXTENDS Integers

CONSTANTS ProductNodes,   \* the nodes of the network: their product and values
          Changes,        \* the numbers a device may change a value to
          Commands        \* the numbers somebody may set a module to

VARIABLES node,      \* [product, values]
          changed,   \* a notification waits: the value that has changed
          paired,    \* the node is in m_pairedDevices, or m_listen is set
          reported,  \* module |-> the last value that has been sent
          wanted     \* module |-> the last value that has been set

productVars == <<node, changed, paired, reported, wanted>>

ALARM == 113
BATTERY == 128
CONFIGURATION == 112
SENSOR_BINARY == 48
SENSOR_MULTILEVEL == 49
SWITCH_BINARY == 37
BULGAR == 10  \* SENSOR_INDEX_BULGAR

Sensor(module, how, class, index) == [module |-> module, how |-> how, class |-> class, index |-> index]

(* What is read, by getTemperature() and the like. *)
Temperature(module) == Sensor(module, "temperature", SENSOR_MULTILEVEL, 1)
Switch(module) == Sensor(module, "bool", SWITCH_BINARY, 0)
Battery(module) == Sensor(module, "number", BATTERY, 0)
Contact(module) == Sensor(module, "bool", SENSOR_BINARY, 0)
Luminance(module) == Sensor(module, "number", SENSOR_MULTILEVEL, 3)
Humidity(module) == Sensor(module, "number", SENSOR_MULTILEVEL, 5)
Ultraviolet(module) == Sensor(module, "number", SENSOR_MULTILEVEL, 27)
Sensitivity(module) == Sensor(module, "list", CONFIGURATION, 4)
RefreshTime(module) == Sensor(module, "number", CONFIGURATION, 111)

(* extractValues(): the sensors. *)
AeotecZW100 ==
  {Ultraviolet(2), Luminance(3), Temperature(4), Humidity(5), Sensitivity(6), Battery(7), RefreshTime(8)}
DLinkDchZ120 == {Luminance(1), Temperature(2), Sensor(4, "number", CONFIGURATION, 3), Battery(5)}
FibaroFGK107 == {Contact(0), Battery(1)}
PhilioPST021C == {Luminance(2), Temperature(1), Contact(0), Battery(3)}
Popp123601 == {Switch(0)}

(* getDetectionSensor(): the states of an alarm and their modules. *)
AeotecAlarms == {[state |-> 3, module |-> 0], [state |-> 8, module |-> 1]}
DLinkAlarms == {[state |-> 3, module |-> 3], [state |-> 8, module |-> 0]}

(* setValue(): the modules that can be set. *)
AeotecActuators == {6, 8}
DLinkActuators == {4}
PoppActuators == {0}

(* create() of the factories: of a manufacturer and a product nobody has   *)
(* registered it throws.                                                   *)
Factories ==
  [Aeotec |-> [sensors |-> AeotecZW100, alarms |-> AeotecAlarms, actuators |-> AeotecActuators],
   DLink |-> [sensors |-> DLinkDchZ120, alarms |-> DLinkAlarms, actuators |-> DLinkActuators],
   Fibaro |-> [sensors |-> FibaroFGK107, alarms |-> {}, actuators |-> {}],
   Philio |-> [sensors |-> PhilioPST021C, alarms |-> {}, actuators |-> {}],
   Popp |-> [sensors |-> Popp123601, alarms |-> {}, actuators |-> PoppActuators]]

Supported == node.product \in DOMAIN Factories
Product == Factories[node.product]

ProductsInit ==
  /\ node = [product |-> "none", values |-> <<>>] /\ paired = FALSE
  /\ changed = FALSE /\ reported = <<>> /\ wanted = <<>>

(* A node joins; the manager knows it, or listens, or drops its values. *)
NodeJoins ==
  /\ node.product = "none"
  /\ node' \in ProductNodes /\ paired' \in BOOLEAN
  /\ UNCHANGED <<changed, reported, wanted>>

(* isEqual() and what can be read: a Boolean has to be one, a temperature  *)
(* a number.                                                               *)
Matches(value, sensor) ==
  /\ value.class = sensor.class /\ value.index = sensor.index
  /\ sensor.how = "bool" => value.type = "bool"

LevelsOfPir == 0..5  \* m_pirSensor

(* getTemperature(), getSwitchBinary(), getSpecificValue() and the like:   *)
(* the first value that matches.                                           *)
Read(value, how) ==
  IF how = "temperature" /\ value.unit = "F" THEN ((value.value - 32) * 5) \div 9 ELSE value.value

FirstOf(values, sensor) ==
  {i \in DOMAIN values :
     /\ Matches(values[i], sensor)
     /\ \A j \in DOMAIN values : Matches(values[j], sensor) => i <= j}

Extracted(values, sensor) ==
  {Read(values[i], sensor.how) :
     i \in {first \in FirstOf(values, sensor) : sensor.how = "list" => values[first].value \in LevelsOfPir}}

(* getDetectionSensor(): a state sets its module, another one resets all   *)
(* of them; the last alarm that says something about a module counts.      *)
Tells(alarms, value, alarm) ==
  /\ value.class = ALARM /\ value.index = BULGAR
  /\ \A other \in alarms : value.value = other.state => other = alarm

LastOf(alarms, values, alarm) ==
  {i \in DOMAIN values :
     /\ Tells(alarms, values[i], alarm)
     /\ \A j \in DOMAIN values : Tells(alarms, values[j], alarm) => j <= i}

Detected(alarms, values, alarm) ==
  {IF values[i].value = alarm.state THEN 1 ELSE 0 : i \in LastOf(alarms, values, alarm)}

(* No module is both a sensor's and an alarm's. *)
Inserted(product, values, module) ==
  UNION ({Extracted(values, sensor) : sensor \in {s \in product.sensors : s.module = module}} \cup
         {Detected(product.alarms, values, alarm) : alarm \in {a \in product.alarms : a.module = module}})

Modules(product) == {source.module : source \in product.sensors \cup product.alarms}

ExtractValues(product, values) ==
  [module \in {m \in Modules(product) : Inserted(product, values, m) # {}} |->
     CHOOSE number \in Inserted(product, values, module) : TRUE]

Over(numbers, older) ==
  [module \in DOMAIN numbers \cup DOMAIN older |->
     IF module \in DOMAIN numbers THEN numbers[module] ELSE older[module]]

(* The device changes one of its values: somebody moves, it gets warm, or  *)
(* somebody turns its knob.                                                *)
DeviceChanges ==
  /\ ~changed /\ changed' = TRUE
  /\ \E i \in DOMAIN node.values, number \in Changes :
       /\ number # node.values[i].value
       /\ node.values[i].type = "bool" => number \in {0, 1}
       /\ node' = [node EXCEPT !.values[i].value = number]
       /\ wanted' = [module \in {m \in DOMAIN wanted :
                       \A sensor \in Product.sensors :
                         sensor.module = m => ~Matches(node.values[i], sensor)} |-> wanted[module]]
  /\ UNCHANGED <<paired, reported>>

(* valueChanged() and sendValue() *)
ValueChanged ==
  /\ changed /\ changed' = FALSE
  /\ reported' = IF Supported /\ paired THEN Over(ExtractValues(Product, node.values), reported) ELSE reported
  /\ UNCHANGED <<node, paired, wanted>>

(* sendActuatorValue(): by the type of the value; nothing else is set. *)
Sent(type, number) ==
  CASE type = "bool" -> {IF number # 0 THEN 1 ELSE 0}
    [] type = "byte" -> {number % 256}
    [] type \in {"short", "int", "list"} -> {number}
    [] OTHER -> {}

(* setValue() and setActuator(): every value the sensor of the module is   *)
(* read from, the first one that is there.                                 *)
SensorOf(product, module) == CHOOSE sensor \in product.sensors : sensor.module = module

(* ... when only the class is compared. *)
SetActuatorOfClass(module, number) ==
  \E i \in DOMAIN node.values :
    /\ node.values[i].class = SensorOf(Product, module).class
    /\ \A j \in DOMAIN node.values : node.values[j].class = SensorOf(Product, module).class => i <= j
    /\ \E sent \in Sent(node.values[i].type, number) : node' = [node EXCEPT !.values[i].value = sent]

SetActuator(module, number) ==
  LET sensor == SensorOf(Product, module)
      Is(value) == value.class = sensor.class /\ value.index = sensor.index
  IN  \E i \in DOMAIN node.values :
        /\ Is(node.values[i]) /\ \A j \in DOMAIN node.values : Is(node.values[j]) => i <= j
        /\ \E sent \in Sent(node.values[i].type, number) : node' = [node EXCEPT !.values[i].value = sent]

(* doSetValueCommand() of something the product can set, which the device  *)
(* then notifies; of a level of the PIR sensor only the ones there are.    *)
DoSetValueCommand ==
  /\ Supported /\ ~changed /\ changed' = TRUE
  /\ \E module \in Product.actuators, number \in Commands :
       /\ SensorOf(Product, module).how = "list" => number \in LevelsOfPir
       /\ SensorOf(Product, module).how = "bool" => number \in {0, 1}
       /\ SetActuator(module, number)
       /\ wanted' = Over([m \in {module} |-> number], wanted)
  /\ UNCHANGED <<paired, reported>>

ProductsNext == NodeJoins \/ DeviceChanges \/ ValueChanged \/ DoSetValueCommand

(* What has been set is what is reported back, under the same module,      *)
(* unless the device has changed it: setting and reporting find the same   *)
(* value of the network and translate it in opposite directions.  And an   *)
(* alarm that is over leaves none of its modules set.                      *)
ProductsReadBack ==
  ~changed /\ paired /\ Supported =>
    /\ \A module \in DOMAIN wanted : reported[module] = wanted[module]
    /\ \A i \in DOMAIN node.values :
         node.values[i].class = ALARM /\ node.values[i].index = BULGAR /\ node.values[i].value = 0 =>
           \A alarm \in Product.alarms : alarm.module \in DOMAIN reported => reported[alarm.module] = 0
=============================================================================
