------------------------------ MODULE MCValues -------------------------------
(* Small documents, devices and numbers for the families of Values.        *)
EXTENDS Values, Integers, TLC

CONSTANTS t1, t2

(* Documents, event by event. *)
Attributes == [id |-> "", name |-> "", type |-> "", unavailable |-> "", size |-> 0]
Opens(name, attributes) == <<[event |-> "start", name |-> name, attributes |-> attributes @@ Attributes]>>
Says(words) == <<[event |-> "text", text |-> words, indented |-> FALSE]>>
Blank == <<[event |-> "text", text |-> "", indented |-> FALSE]>>
Entity(words) == <<[event |-> "entity", text |-> words]>>
Close == <<[event |-> "end"]>>
Within(name, content) == Opens(name, <<>>) \o content \o Close

Described(key, type, content) == Opens("sensor", [id |-> key, type |-> type, unavailable |-> "-1"]) \o content \o Close
Device(key, content) == Opens("device", [id |-> key, name |-> "0x" \o key]) \o content \o Close

Thermometer ==
  Device("1", Blank \o Within("name", Says("Thermo") \o Says("meter")) \o Within("manufacturer", Says("ACME")) \o
    Within("modules", Blank \o
      Described("0", "temperature", Within("name", Says("Inside")) \o Within("group", Says("Room"))) \o
      Described("1", "weight", <<>>)))

(* Neither a manufacturer nor the name or the group of a module. *)
Switch ==
  Device("2", Within("modules",
                Described("0", "on_off", Within("constraints", Within("min", Says("0")) \o Within("max", Says("1")))) \o
                Opens("actuator", [id |-> "1", type |-> "on_off", unavailable |-> ""]) \o Close) \o
              Within("name", Says("Switch")))

SwitchRight ==
  Device("2", Within("modules",
                Described("0", "on_off", Within("constraints", Within("min", Says("0")) \o Within("max", Says("1")))) \o
                Opens("refresh", [id |-> "1", type |-> "temperature", unavailable |-> "0"]) \o
                  Within("default", Says("30")) \o Close \o
                Opens("battery", [id |-> "2", type |-> "temperature", unavailable |-> "0"]) \o Close) \o
              Within("name", Says("Switch")))

ThermometerInfo ==
  [id |-> "1", name |-> <<"Thermo", "meter">>, display |-> "0x1", vendor |-> <<"ACME">>,
   modules |-> <<[id |-> "0", class |-> "sensor", type |-> "temperature", name |-> <<"Inside">>,
                  group |-> <<"Room">>, unavailable |-> "-1", default |-> <<>>]>>]

SwitchInfo ==
  [id |-> "2", name |-> <<"Switch">>, display |-> "0x2", vendor |-> <<>>,
   modules |-> <<[id |-> "0", class |-> "sensor", type |-> "on_off", name |-> <<>>,
                  group |-> <<>>, unavailable |-> "-1", default |-> <<>>],
                 [id |-> "1", class |-> "refresh", type |-> "temperature", name |-> <<>>,
                  group |-> <<>>, unavailable |-> "0", default |-> <<"30">>],
                 [id |-> "2", class |-> "battery", type |-> "temperature", name |-> <<>>,
                  group |-> <<>>, unavailable |-> "0", default |-> <<>>]>>]

TypeOf(key, content) == Opens("type", [id |-> key]) \o content \o Close
Var(type, size) == Opens("var", [size |-> size]) \o Says(type) \o Close

TypesText ==
  TypeOf("temperature", Within("name", Says("Temp")) \o Var("float", 32) \o
                        Within("unit", Entity("unknown") \o Entity("deg") \o Says("C")) \o
                        Within("transform", Within("from", Says("x")))) \o
  TypeOf("on_off", Within("name", Says("On or off"))) \o
  TypeOf("alarm", Var("bitarray", 8) \o Within("name", Says("Alarm")))

TypesInfo ==
  <<[id |-> "temperature", name |-> <<"Temp">>, unit |-> <<"deg", "C">>, ctype |-> <<"float">>, width |-> 32],
    [id |-> "on_off", name |-> <<"On or off">>, unit |-> <<>>, ctype |-> <<"int">>, width |-> 1],
    [id |-> "alarm", name |-> <<"Alarm">>, unit |-> <<>>, ctype |-> <<"int">>, width |-> 8]>>

Good(kind, events, means) == [kind |-> kind, events |-> events, valid |-> TRUE, means |-> means]
Bad(kind, events) == [kind |-> kind, events |-> events, valid |-> FALSE, means |-> <<>>]

MCDocuments ==
  {Good("devices", Within("devices", Thermometer \o SwitchRight), <<ThermometerInfo, SwitchInfo>>),
   Good("devices", Within("devices", SwitchRight \o Thermometer), <<SwitchInfo, ThermometerInfo>>),
   Good("types", Within("types", TypesText), TypesInfo),
   Bad("devices", Within("devices", Thermometer \o Switch)),
   Bad("devices", Within("devices", Thermometer \o Thermometer)),
   Bad("devices", Within("devices", Device("1", Within("modules", <<>>)))),
   Bad("devices", Within("devices", Says("text"))),
   Bad("devices", Within("types", <<>>)),
   Bad("devices", Within("devices", Device("1", Within("name", Says("x")) \o
         Within("modules", Described("0", "on_off", <<>>) \o Described("0", "weight", <<>>))))),
   Bad("types", Within("types", TypeOf("x", Within("name", Says("X")) \o Var("string", 1)))),
   Bad("types", Within("types", TypeOf("x", Within("name", Says("X")) \o Var("int", 0))))}

(* The server: a command of each kind and values with decimals. *)
Jablotron1 == [prefix |-> "Jablotron", home |-> 0, number |-> 1]

MCActions ==
  {[name |-> "listen", duration |-> 2500000], [name |-> "unpair", device |-> Jablotron1],
   [name |-> "set", device |-> Jablotron1, module |-> 6, value |-> 26, timeout |-> 1000000]}

MCMeasured ==
  {[device |-> Jablotron1, values |-> <<[module |-> 0, value |-> 26], [module |-> 9, value |-> -16]>>],
   [device |-> [prefix |-> "Z-Wave", home |-> 1, number |-> 2], values |-> <<>>]}

MCKinds == {"AC881", "Aeotec", "RC86K"}

(* Z-Wave nodes. *)
Value(class, index, type, number) ==
  [class |-> class, index |-> index, type |-> type, unit |-> "", value |-> number]

MCProductNodes ==
  {[product |-> "Aeotec",
    values |-> <<Value(112, 8, "int", 1), Value(112, 4, "list", 9), Value(112, 111, "int", 60),
                 Value(113, 10, "byte", 3)>>],
   [product |-> "DLink",
    values |-> <<Value(112, 3, "byte", 5), Value(113, 9, "byte", 0),
                 Value(113, 10, "byte", 8), Value(112, 3, "byte", 6)>>],
   [product |-> "Popp", values |-> <<Value(37, 1, "bool", 0), Value(37, 0, "bool", 0)>>],
   [product |-> "Fibaro", values |-> <<Value(48, 0, "short", 1), Value(48, 0, "bool", 0), Value(128, 0, "byte", 90)>>],
   [product |-> "Philio", values |-> <<Value(48, 0, "bool", 0), [Value(49, 1, "int", 50) EXCEPT !.unit = "F"]>>],
   [product |-> "unknown", values |-> <<Value(128, 0, "byte", 90)>>]}

MCChanges == {0, 1, 3, 8}
MCCommands == {0, 1, 5}

(* What others have written: no device, a type nobody knows, half of it.   *)
MCForeign ==
  ("nobody" :> [type |-> "pin"]) @@ ("d1" :> [type |-> "token", pin |-> "x"])

MCContents ==
  {[username |-> "name", password |-> "word"], [pin |-> "1"], [pin |-> "2"]}

(* Identifiers: the first and the last, and digits with every neighbour.   *)
MCGatewayNumbers ==
  {[i \in 1..14 |-> 0], [i \in 1..14 |-> 9], [i \in 1..14 |-> i % 10], [i \in 1..14 |-> (i * i) % 10],
   [i \in 1..14 |-> (7 * i) % 10], [i \in 1..14 |-> ((i * (i + 1)) \div 2) % 10]}

MCDeviceNumbers ==
  {<<168, 0, 0, 0, 1, 0, 0, 2>>, <<9, 0, 0, 0, 0, 0, 0, 0>>, <<0, 0, 0, 0, 172, 69, 101, 113>>,
   <<0, 0, 0, 0, 9, 0, 0, 1>>, <<0, 0, 0, 0, 0, 0, 0, 1>>, <<0, 1, 0, 0, 9, 0, 0, 1>>,
   <<255, 255, 255, 255, 255, 255, 255, 255>>, <<163, 255, 255, 255, 255, 255, 255, 255>>}

MCIdents == {0, 1, 16, 255}

(* With no pad, one and two, on one line and on several. *)
MCCertificates ==
  {SubSeq(<<48, 130, 1, 255, 0, 64, 251, 240>>, 1, length) : length \in 1..8}

(* Samples with a negative, an invalid and an equal value. *)
Sample(module, value, valid) == [module |-> module, value |-> value, valid |-> valid]
MCSamples ==
  {[device |-> "d1", values |-> <<Sample(0, 2, TRUE), Sample(1, -3, TRUE)>>],
   [device |-> "d1", values |-> <<Sample(1, 5, TRUE), Sample(1, 5, TRUE)>>],
   [device |-> "d1", values |-> <<Sample(0, 0, FALSE)>>],
   [device |-> "d2", values |-> <<Sample(0, 4, TRUE)>>], [device |-> "d3", values |-> <<>>]}

(* SSL: two keys with the right passphrase, a plain one, a wrong one and   *)
(* one whose passphrase was forgotten.                                     *)
MCPassphrase == [f1 |-> "one", f2 |-> "two", f3 |-> "", f4 |-> "wrong", f5 |-> ""]
MCPrivateKey == [f1 |-> "one", f2 |-> "two", f3 |-> "", f4 |-> "four", f5 |-> "five"]
MCProtocols == [f1 |-> None, f2 |-> {"sslv2", "tlsv1"}, f3 |-> {"sslv4"}, f4 |-> None, f5 |-> None]

(* Generators: the virtual sensor's, and ranges and limits over each other. *)
Span(min, max) == [kind |-> "range", min |-> min, max |-> max]
Counts(count) == [kind |-> "limited", count |-> count]
Before(before) == [kind |-> "timeLimited", at |-> 10, step |-> 3, before |-> before]
Stamps == [kind |-> "timestamped", at |-> 10, step |-> 2]

MCChains ==
  {[source |-> "random", layers |-> layers] : layers \in
     {<<Span(-20, 30)>>, <<Span(30, 30)>>, <<Counts(0)>>, <<Counts(2)>>, <<Counts(1), Counts(3)>>,
      <<Counts(2), Span(0, 5)>>, <<Span(0, 5), Counts(2)>>, <<Stamps, Counts(3)>>,
      <<Counts(1), Stamps>>, <<Counts(3), Before(16)>>, <<Before(17)>>, <<Before(10)>>,
      <<Before(13), Counts(2)>>, <<Stamps, Before(14)>>}} \cup
  {[source |-> "sin", layers |-> <<Span(0, 1000), Counts(2)>>],
   [source |-> "const", layers |-> <<Span(-10, 0), Before(20)>>],
   [source |-> "const", layers |-> <<[Before(12) EXCEPT !.step = 0]>>],
   [source |-> "const", layers |-> <<[Before(12) EXCEPT !.step = -3], Counts(2)>>]}
=============================================================================
