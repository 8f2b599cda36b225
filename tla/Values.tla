------------------------------- MODULE Values --------------------------------
(***************************************************************************)
(* The parts that keep, translate or compute values and have nothing to do *)
(* with each other: a behaviour is one of one of them, its family.         *)
(***************************************************************************)
EXTENDS Integers, Sequences

CONSTANTS Documents, KnownTypes,
          None, Kinds, Numbers, LastSlots, LastValues, Actions, Measured,
          ProductNodes, Changes, Commands,
          Devices, Salts, Contents, Algorithms, Iterations, Foreign,
          GatewayNumbers, DeviceNumbers, Idents, Certificates,
          Samples, Interval, MaxTime, MaxSamples,
          Threads, MaxCalls,
          Passphrase, PrivateKey, Protocols,
          Chains, Length

VARIABLES family,
          document, next, path, temp, infos, provided, parse,
          paired, own, last, active, action, phase, wire, asked, truth, got,
          node, changed, joined, reported, wanted,
          storage, conf, crypto, put, saved, loaded,
          id, text, damage, parsed,
          clock, collected, printedAt, printed, measured,
          self, wrapper, ended, stack, result, broken,
          owner, keyLock, delegates, context, opened, caller,
          chain, read

Info == INSTANCE InfoParser
Server == INSTANCE FakeServer
Product == INSTANCE Products WITH paired <- joined
Credentials == INSTANCE CredentialsStorage
Ids == INSTANCE Identifiers
Collector == INSTANCE Statistics
Transactional == INSTANCE Transactions
Ssl == INSTANCE SSLFacility
Generator == INSTANCE Generators

infoVars == <<document, next, path, temp, infos, provided, parse>>
serverVars == <<paired, own, last, active, action, phase, wire, asked, truth, got>>
productVars == <<node, changed, joined, reported, wanted>>
credentialsVars == <<storage, conf, crypto, put, saved, loaded>>
identifierVars == <<id, text, damage, parsed>>
statisticsVars == <<clock, collected, printedAt, printed, measured>>
transactionVars == <<self, wrapper, ended, stack, result, broken>>
sslVars == <<owner, keyLock, delegates, context, opened, caller>>
generatorVars == <<chain, read>>

(* A thread, a context and a set of protocols are something. *)
ASSUME NoneAssumption ==
  None \notin Threads /\ None # "made" /\ \A protocols \in SUBSET Ssl!Known : None # protocols

(* What is put are credentials of a class there is. *)
ASSUME ContentsAssumption ==
  \A content \in Contents : \E type \in DOMAIN Credentials!Fields : Credentials!Fields[type] = DOMAIN content

(* What is described by a document is what it says, place by place, and a  *)
(* document without a mistake is one where every event is fine.            *)
ASSUME DocumentsAssumption ==
  \A d \in Documents :
    /\ Info!WellFormed(d)
    /\ d.valid = \A n \in DOMAIN d.events : Info!Fine(d, n)
    /\ d.valid => d.means = Info!Meaning(d)

(* Commands are the ones of setAction(); the modules of devices are below ten. *)
ASSUME ActionsAssumption ==
  \A command \in Actions :
    \/ command.name = "listen" /\ command = [name |-> "listen", duration |-> command.duration]
    \/ command.name = "unpair" /\ command = [name |-> "unpair", device |-> command.device]
    \/ /\ command.name = "set"
       /\ command = [name |-> "set", device |-> command.device, module |-> command.module,
                     value |-> command.value, timeout |-> command.timeout]
       /\ command.module \in 0..9

ASSUME MeasuredAssumption ==
  \A data \in Measured :
    /\ data = [device |-> data.device, values |-> [i \in DOMAIN data.values |->
                 [module |-> data.values[i].module, value |-> data.values[i].value]]]
    /\ \A i \in DOMAIN data.values : data.values[i].module \in 0..9

(* The values of a node have what an OpenZWave value has: a switch is a    *)
(* Boolean, a parameter of a configuration is not, and a product with      *)
(* alarms has one.  What a module is set to fits a byte.                   *)
ASSUME ProductNodesAssumption ==
  \A n \in ProductNodes :
    /\ n = [product |-> n.product, values |-> [i \in DOMAIN n.values |->
              [class |-> n.values[i].class, index |-> n.values[i].index, type |-> n.values[i].type,
               unit |-> n.values[i].unit, value |-> n.values[i].value]]]
    /\ n.product # "none" /\ DOMAIN n.values \subseteq Nat
    /\ \A i \in DOMAIN n.values :
         /\ n.values[i].class = Product!SWITCH_BINARY => n.values[i].type = "bool"
         /\ n.values[i].class = Product!CONFIGURATION => n.values[i].type # "bool"
         /\ \A j \in DOMAIN n.values :
              /\ n.values[i].class = Product!ALARM /\ n.values[i].index = Product!BULGAR
              /\ n.values[j].class = Product!ALARM /\ n.values[j].index = Product!BULGAR
              => i = j

ASSUME CommandsAssumption == Commands \subseteq 0..255

(* A chain is layers over a source; a count fits the integer it is in. *)
ASSUME ChainsAssumption ==
  /\ Chains \subseteq [source : Generator!Sources, layers : Seq(Generator!Layers)]
  /\ None \notin [source : Generator!Sources, layers : Seq(Generator!Layers)]

ASSUME LengthAssumption == Length \in Nat

(* The digits of a gateway, the bytes of a device and of a certificate,    *)
(* which is not empty.                                                     *)
ASSUME NumbersAssumption ==
  /\ GatewayNumbers \subseteq [1..14 -> 0..9]
  /\ DeviceNumbers \subseteq [1..8 -> 0..255] /\ Idents \subseteq 0..255
  /\ Certificates \subseteq Seq(0..255) \ {<<>>}

(* A module of a device has a number; none measures more than the largest  *)
(* double.                                                                 *)
ASSUME SamplesAssumption ==
  /\ Interval \in Nat
  /\ \A data \in Samples :
       /\ data.values \in Seq([module : Nat, value : Int, valid : BOOLEAN])
       /\ \A i \in DOMAIN data.values : data.values[i].value <= Collector!Largest

vars == <<family, infoVars, serverVars, productVars, credentialsVars, identifierVars,
          statisticsVars, transactionVars, sslVars, generatorVars>>

Init ==
  /\ family \in {"info", "server", "product", "credentials", "identifier", "statistics", "transaction",
                "ssl", "generator"}
  /\ Info!InfoInit /\ Server!ServerInit /\ Product!ProductsInit /\ Credentials!CredentialsInit
  /\ Ids!IdentifiersInit /\ Collector!StatisticsInit /\ Transactional!TransactionsInit
  /\ Ssl!SSLInit /\ Generator!GeneratorsInit

(* A family alone moves. *)
InfoStep ==
  /\ family = "info" /\ Info!InfoNext
  /\ UNCHANGED <<family, serverVars, productVars, credentialsVars, identifierVars,
                 statisticsVars, transactionVars, sslVars, generatorVars>>

ServerStep ==
  /\ family = "server" /\ Server!ServerNext
  /\ UNCHANGED <<family, infoVars, productVars, credentialsVars, identifierVars,
                 statisticsVars, transactionVars, sslVars, generatorVars>>

ProductStep ==
  /\ family = "product" /\ Product!ProductsNext
  /\ UNCHANGED <<family, infoVars, serverVars, credentialsVars, identifierVars,
                 statisticsVars, transactionVars, sslVars, generatorVars>>

CredentialsStep ==
  /\ family = "credentials" /\ Credentials!CredentialsNext
  /\ UNCHANGED <<family, infoVars, serverVars, productVars, identifierVars,
                 statisticsVars, transactionVars, sslVars, generatorVars>>

IdentifierStep ==
  /\ family = "identifier" /\ Ids!IdentifiersNext
  /\ UNCHANGED <<family, infoVars, serverVars, productVars, credentialsVars,
                 statisticsVars, transactionVars, sslVars, generatorVars>>

StatisticsStep ==
  /\ family = "statistics" /\ Collector!StatisticsNext
  /\ UNCHANGED <<family, infoVars, serverVars, productVars, credentialsVars,
                 identifierVars, transactionVars, sslVars, generatorVars>>

TransactionStep ==
  /\ family = "transaction" /\ Transactional!TransactionsNext
  /\ UNCHANGED <<family, infoVars, serverVars, productVars, credentialsVars,
                 identifierVars, statisticsVars, sslVars, generatorVars>>

SslStep ==
  /\ family = "ssl" /\ Ssl!SSLNext
  /\ UNCHANGED <<family, infoVars, serverVars, productVars, credentialsVars,
                 identifierVars, statisticsVars, transactionVars, generatorVars>>

GeneratorStep ==
  /\ family = "generator" /\ Generator!GeneratorsNext
  /\ UNCHANGED <<family, infoVars, serverVars, productVars, credentialsVars,
                 identifierVars, statisticsVars, transactionVars, sslVars>>

Next ==
  \/ InfoStep \/ ServerStep \/ ProductStep \/ CredentialsStep
  \/ IdentifierStep \/ StatisticsStep \/ TransactionStep \/ SslStep \/ GeneratorStep

Spec == Init /\ [][Next]_vars

(* What the author of a document described is what the providers have. *)
NothingCarriedOver == Info!NothingCarriedOver

(* Whoever reads, sets, loads, parses, prints or commits a value gets the  *)
(* one that was written, reported, saved, shown, measured, made, opened or *)
(* limited, for each of the families as it says.                           *)
ReadsBack ==
  /\ Server!MessagesReadBack /\ Product!ProductsReadBack /\ Credentials!CredentialsReadBack
  /\ Ids!IdentifiersReadBack /\ Collector!StatisticsAreRight /\ Transactional!TransactionsEnd
  /\ Ssl!KeysAreOpened /\ Generator!GeneratedRight
=============================================================================
