------------------------------ MODULE MCDaemon -------------------------------
(***************************************************************************)
(* An instance of Daemon for TLC: a gateway reduced to the testing center, *)
(* the broker and the dispatcher, which refer to each other, one           *)
(* configuration for each thing that can be wrong with it, and one with    *)
(* early instances.                                                        *)
(***************************************************************************)
EXTENDS Daemon, TLC

Class(methods, casts, hook, run) ==
  [methods |-> methods, casts |-> casts, hook |-> hook, run |-> run]

GatewayClasses ==
  ("LoopRunner" :> Class([runnables |-> "StoppableRunnable", autoStart |-> "bool"],
                         {}, "autoStart", "none")) @@
  ("CommandDispatcher" :> Class([registerHandler |-> "CommandHandler"],
                                {"CommandDispatcher"}, "none", "none")) @@
  ("ZMQBroker" :> Class([commandDispatcher |-> "CommandDispatcher", dataServerPort |-> "int"],
                        {"StoppableRunnable", "CommandHandler"}, "none", "prompt")) @@
  ("TestingCenter" :> Class([commandDispatcher |-> "CommandDispatcher", console |-> "Console"],
                            {"StoppableRunnable"}, "none", "console")) @@
  ("TCPConsole" :> Class([port |-> "int", eol |-> "char"], {"Console"}, "listen", "none")) @@
  ("VirtualSensor" :> Class([deviceId |-> "string"], {"StoppableRunnable"}, "none", "brief"))

Key0(kind, property, value, ifYes, size) ==
  [kind |-> kind, property |-> property, value |-> value, ifYes |-> ifYes, size |-> size]
RefKey(property, value) == Key0("ref", property, value, "none", 0)
TextKey(property, size) == Key0("text", property, 0, "none", size)
NumberKey(property, value) == Key0("number", property, value, "none", 0)
Instance0(name, class, early, keys) == [name |-> name, class |-> class, early |-> early, keys |-> keys]

MainRunner(more) == Instance0("main", "LoopRunner", FALSE,
  <<RefKey("runnables", "center"), RefKey("runnables", "broker")>> \o more)
Dispatcher == Instance0("dispatcher", "CommandDispatcher", FALSE, <<RefKey("registerHandler", "sender")>>)
BrokerInstance(more) == Instance0("broker", "ZMQBroker", FALSE,
  <<RefKey("commandDispatcher", "dispatcher"), NumberKey("dataServerPort", 1)>> \o more)
Center == Instance0("center", "TestingCenter", FALSE,
  <<RefKey("commandDispatcher", "dispatcher"), RefKey("console", "console")>>)
ConsoleInstance(more) == Instance0("console", "TCPConsole", FALSE, more)
Sender == [name |-> "sender", ref |-> "broker"]

Xml(instances, aliases) ==
  [is |-> "file", extension |-> "xml", document |-> "factory",
   factory |-> [instances |-> instances, aliases |-> aliases]]

Ini == [Xml(<<>>, <<>>) EXCEPT !.extension = "ini"]
Disabled == [Xml(<<>>, <<>>) EXCEPT !.extension = "xml_disable"]
Sub == [Xml(<<>>, <<>>) EXCEPT !.is = "dir"]

Gateway(main, broker, console) ==
  <<Disabled, Xml(<<MainRunner(main), Dispatcher, BrokerInstance(broker)>>, <<Sender>>),
    Ini, Sub, Xml(<<Center, ConsoleInstance(console), Instance0("broker", "None", FALSE, <<>>)>>, <<>>)>>

Ordinary ==
  Gateway(<<[RefKey("runnables", "nobody") EXCEPT !.ifYes = "no"]>>,
          <<[RefKey("none", "nobody") EXCEPT !.kind = "malformed"],
            [RefKey("none", "nobody") EXCEPT !.kind = "nameless"]>>,
          <<TextKey("eol", 1)>>)

(* A runner that starts its loops by itself, twice the same. *)
Restarted == Gateway(<<NumberKey("autoStart", 1), RefKey("runnables", "broker")>>, <<>>, <<>>)

(* Something wrong somewhere. *)
Mistakes ==
  {Gateway(<<RefKey("runnables", "nobody")>>, <<>>, <<>>),
   Gateway(<<RefKey("runnables", "console")>>, <<>>, <<>>),
   Gateway(<<>>, <<NumberKey("commandDispatcher", 1)>>, <<>>),
   Gateway(<<>>, <<>>, <<TextKey("eol", 2)>>),
   Gateway(<<>>, <<RefKey("missing", "center")>>, <<>>),
   <<[Xml(<<>>, <<>>) EXCEPT !.document = "malformed"]>>,
   <<Xml(<<ConsoleInstance(<<>>)>>, <<[name |-> "main", ref |-> "main"]>>)>>,
   <<Xml(<<ConsoleInstance(<<>>)>>, <<[name |-> "main", ref |-> "console"]>>)>>}

(* A runner somebody refers to: no method takes it, but it is created, and  *)
(* starts the loop of an instance that is still under construction.        *)
Nested ==
  Append(Gateway(<<>>, <<RefKey("commandDispatcher", "helper")>>, <<>>),
         Xml(<<Instance0("helper", "LoopRunner", FALSE,
               <<NumberKey("autoStart", 1), RefKey("runnables", "broker")>>)>>, <<>>))

(* Early instances: the sensors are created for their runner, then once    *)
(* more; the last one may be of no class.                                  *)
Early(class) ==
  <<Xml(<<Instance0("main", "LoopRunner", TRUE, <<>>),
          Instance0("sensors", "LoopRunner", TRUE,
            <<NumberKey("autoStart", 1), RefKey("runnables", "one"), RefKey("runnables", "two")>>),
          Instance0("one", "VirtualSensor", TRUE, <<TextKey("deviceId", 5)>>),
          Instance0("two", "VirtualSensor", FALSE, <<>>),
          Instance0("three", class, TRUE, <<>>)>>, <<>>)>>

(* Command lines: the runner by hand, by a file and by both; the process   *)
(* to tell, a number and not; a wrong option behind others and behind      *)
(* --help, which hides it.                                                 *)
Option(name, value) == [name |-> name, key |-> "none", value |-> value]
Define(key, value) == [name |-> "define", key |-> key, value |-> value]
Runner(name) == Define("application.di.runner", name)

GatewayLines ==
  {<<>>, <<Option("config", "main")>>,
   <<Option("config", "nothing"), Runner("main")>>,
   <<Runner("main"), Runner("nothing"), Option("debugStartup", "none")>>,
   <<Option("notifyStarted", "number")>>,
   <<Option("notifyStarted", "number"), Define("di.daemon.notify.started", "text")>>,
   <<Option("version", "none"), Option("unknown", "none")>>,
   <<Option("help", "none")>>,
   <<Define("other", "none"), Option("unknown", "none")>>,
   <<Option("config", "main"), Option("config", "main")>>,
   <<Option("config", "missing")>>}

GatewayDirectories == {Ordinary, Restarted, Nested} \cup Mistakes \cup {Early("VirtualSensor"), Early("None")}
=============================================================================
