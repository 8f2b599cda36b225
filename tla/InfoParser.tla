----------------------------- MODULE InfoParser ------------------------------
(***************************************************************************)
(* The information about devices and types: SAXHelper with its two         *)
(* handlers, and the providers that take what they have parsed.  The       *)
(* parser calls the handler with one event of the document after the       *)
(* other; the handler builds a device, a module or a type in members it    *)
(* uses again for the next one.                                            *)
(*                                                                         *)
(* A document is [kind, events, valid, means]: whose handler reads it, the *)
(* events ("start" with a name and attributes, "text", "entity" and "end"), *)
(* and the infos the author of the document has described.  Content is the *)
(* sequence of the texts it is put together from, <<>> when it is empty.   *)
(***************************************************************************)
EXTENDS Naturals, Sequences, SequencesExt

CONSTANTS Documents, KnownTypes  \* KnownTypes: the ids the types file defines

VARIABLES document,  \* what is parsed
          next,      \* its next event
          path,      \* m_path without the element of the root
          temp,      \* m_device, m_module and m_temp
          infos,     \* m_result
          provided,  \* the set of infos of the provider
          parse      \* "idle", "parsing", "parsed", "loaded"; "threw" by an error()

infoVars == <<document, next, path, temp, infos, provided, parse>>

NewDevice(id, display) ==
  [id |-> id, name |-> <<>>, display |-> display, vendor |-> <<>>, modules |-> <<>>]
NewModule(id, class, type, unavailable) ==
  [id |-> id, class |-> class, type |-> type, name |-> <<>>, group |-> <<>>,
   unavailable |-> unavailable, default |-> <<>>]
NewType(id) == [id |-> id, name |-> <<>>, unit |-> <<>>, ctype |-> <<"int">>, width |-> 1]

InfoInit ==
  /\ document = {} /\ next = 1 /\ path = <<>> /\ infos = <<>> /\ provided = <<>> /\ parse = "idle"
  /\ temp = [device |-> NewDevice("", ""), module |-> NewModule("", "", "", ""), type |-> NewType("")]

(* parseFile() makes a handler and has the file parsed. *)
ParseFile ==
  /\ parse = "idle" /\ parse' = "parsing" /\ document' \in Documents
  /\ UNCHANGED <<next, path, temp, infos, provided>>

(* The elements an element may have, by the names on its path from the     *)
(* root.                                                                   *)
Constraints == {"min", "max", "step"}
Common == {"order", "group", "name", "constraints", "values"}

ModuleChildren ==
  [sensor |-> Common, actuator |-> Common \cup {"rules"},
   refresh |-> {"default", "constraints", "values"},
   battery |-> {}, rssi |-> {}, led |-> {}]

Starts(names, prefix) == Len(names) >= Len(prefix) /\ SubSeq(names, 1, Len(prefix)) = prefix
Modules == <<"devices", "device", "modules">>

DevicesExpect(names) ==
  CASE names = <<>> -> {"devices"}
    [] names = <<"devices">> -> {"device"}
    [] names = <<"devices", "device">> -> {"name", "manufacturer", "modules"}
    [] names = Modules -> DOMAIN ModuleChildren
    [] Starts(names, Modules) /\ Len(names) = 4 -> ModuleChildren[names[4]]
    [] Starts(names, Modules) /\ Len(names) = 5 /\ names[5] = "constraints" -> Constraints
    [] Starts(names, Modules) /\ Len(names) = 5 /\ names[5] = "values" -> {"value"}
    [] names = <<"devices", "device", "modules", "actuator", "rules">> -> {"if"}
    [] names = <<"devices", "device", "modules", "actuator", "rules", "if">> -> {"hide-module"}
    [] OTHER -> {}

TypesExpect(names) ==
  CASE names = <<>> -> {"types"}
    [] names = <<"types">> -> {"type"}
    [] names = <<"types", "type">> -> {"name", "var", "unit", "transform"}
    [] names = <<"types", "type", "transform">> -> {"from", "to"}
    [] OTHER -> {}

DevicesContent == {"name", "manufacturer", "order", "group", "value", "default",
                   "min", "max", "step", "hide-module"}
TypesContent == {"name", "var", "unit", "from", "to"}

ExpectElement(kind, names) == IF kind = "devices" THEN DevicesExpect(names) ELSE TypesExpect(names)
ExpectContent(kind) == IF kind = "devices" THEN DevicesContent ELSE TypesContent
IsDevices == document.kind = "devices"

(* trimContent(): behind white space the chunk starts later but is as long *)
(* as before, so it ends in what follows it.                               *)
TrimContent(chunk) == IF chunk.indented THEN "shifted" ELSE chunk.text

Event == document.events[next]
IsNext(what) == parse = "parsing" /\ next <= Len(document.events) /\ Event.event = what
Names == [i \in DOMAIN path |-> path[i].name]
IsPath(names) == Names = names
InModule(names) == Starts(Names, Modules) /\ Len(Names) = 4 + Len(names)
                   /\ SubSeq(Names, 5, Len(Names)) = names
Content == Last(path).content

Append2(text) == path' = [path EXCEPT ![Len(path)].content = Append(@, text)]

Goes == next' = next + 1 /\ UNCHANGED <<document, provided, parse>>
Throw == parse' = "threw" /\ UNCHANGED <<document, next, path, temp, infos, provided>>

(* startElement() of the handlers: what has been left of the device or the *)
(* type before is cleared.                                                 *)
DeviceStartedDirty(attributes) ==
  [temp EXCEPT !.device = [NewDevice(attributes.id, attributes.name) EXCEPT !.vendor = temp.device.vendor]]
DeviceStarted(attributes) == [temp EXCEPT !.device = NewDevice(attributes.id, attributes.name)]

ModuleStarted(class, attributes) ==
  [temp EXCEPT !.module = NewModule(attributes.id, class, attributes.type, attributes.unavailable)]

Started(names, attributes) ==
  CASE names = <<"devices", "device">> -> DeviceStarted(attributes)
    [] Starts(names, Modules) /\ Len(names) = 4 -> ModuleStarted(names[4], attributes)
    [] names = <<"types", "type">> -> [temp EXCEPT !.type = NewType(attributes.id)]
    [] names = <<"types", "type", "var">> -> [temp EXCEPT !.type.width = attributes.size]
    [] OTHER -> temp

(* Attributes that are missing or empty. *)
BadAttributes(names, attributes) ==
  \/ names = <<"devices", "device">> /\ "" \in {attributes.id, attributes.name}
  \/ Starts(names, Modules) /\ Len(names) = 4
       /\ "" \in {attributes.id, attributes.type, attributes.unavailable}
  \/ names = <<"types", "type">> /\ attributes.id = ""
  \/ names = <<"types", "type", "var">> /\ attributes.size = 0

StartElement ==
  /\ IsNext("start")
  /\ LET names == Append(Names, Event.name)
     IN  IF Event.name \notin ExpectElement(document.kind, Names) \/ BadAttributes(names, Event.attributes)
         THEN Throw
         ELSE /\ path' = Append(path, [name |-> Event.name, content |-> <<>>])
              /\ temp' = Started(names, Event.attributes)
              /\ Goes /\ UNCHANGED infos

(* characters(): trimmed, and nothing but white space where no content is  *)
(* expected.                                                               *)
Characters ==
  /\ IsNext("text")
  /\ LET text == TrimContent(Event)
     IN  CASE text # "" /\ Last(path).name \notin ExpectContent(document.kind) -> Throw
           [] text = "" -> Goes /\ UNCHANGED <<path, temp, infos>>
           [] OTHER -> Append2(text) /\ Goes /\ UNCHANGED <<temp, infos>>

(* skippedEntity(): only the handler of types knows some, and it does not  *)
(* ask whether content is expected.                                        *)
SkippedEntity ==
  /\ IsNext("entity")
  /\ IF ~IsDevices /\ Event.text # "unknown" THEN Append2(Event.text) ELSE UNCHANGED path
  /\ Goes /\ UNCHANGED <<temp, infos>>

(* setCType(); what is not one of these throws. *)
CTypes == [int |-> "int", bitarray |-> "int", float |-> "float"]
SetCType(content) == <<CTypes[content[1]]>>

Ids(set) == {set[i].id : i \in DOMAIN set}

(* endElement(): content goes where it belongs, *)
Filled ==
  CASE InModule(<<"name">>) -> [temp EXCEPT !.module.name = Content]
    [] InModule(<<"default">>) -> [temp EXCEPT !.module.default = Content]
    [] InModule(<<"group">>) -> [temp EXCEPT !.module.group = Content]
    [] InModule(<<>>) -> [temp EXCEPT !.device.modules = Append(@, temp.module)]
    [] IsPath(<<"devices", "device", "name">>) -> [temp EXCEPT !.device.name = Content]
    [] IsPath(<<"devices", "device", "manufacturer">>) -> [temp EXCEPT !.device.vendor = Content]
    [] IsPath(<<"types", "type", "name">>) -> [temp EXCEPT !.type.name = Content]
    [] IsPath(<<"types", "type", "var">>) -> [temp EXCEPT !.type.ctype = SetCType(Content)]
    [] IsPath(<<"types", "type", "unit">>) -> [temp EXCEPT !.type.unit = Content]
    [] OTHER -> temp

Complete ==
  CASE IsPath(<<"devices", "device">>) -> <<temp.device>>
    [] IsPath(<<"types", "type">>) -> <<temp.type>>
    [] OTHER -> <<>>

(* a module twice, a C type nobody knows, an info without a name or twice  *)
(* are errors,                                                             *)
BadElement ==
  \/ InModule(<<>>) /\ temp.module.id \in Ids(temp.device.modules)
  \/ IsPath(<<"types", "type", "var">>) /\ Content \notin {<<type>> : type \in DOMAIN CTypes}
  \/ Complete # <<>> /\ (Complete[1].name = <<>> \/ Complete[1].id \in Ids(infos))

(* and a device or a type that is complete goes to the result.             *)
EndElement ==
  /\ IsNext("end")
  /\ IF BadElement THEN Throw
     ELSE /\ temp' = Filled
          /\ infos' = infos \o Complete
          /\ path' = Front(path)
          /\ Goes

EndDocument ==
  /\ parse = "parsing" /\ next > Len(document.events) /\ path = <<>>
  /\ parse' = "parsed"
  /\ UNCHANGED <<document, next, path, temp, infos, provided>>

(* loadInfo(): the infos are registered, then the types of their modules   *)
(* resolved; a module of a type nobody knows is left out.                  *)
ResolveTypes(device) ==
  LET Known(module) == module.type \in KnownTypes
  IN  [device EXCEPT !.modules = SelectSeq(@, Known)]

LoadInfo ==
  /\ parse = "parsed" /\ parse' = "loaded"
  /\ provided' = IF IsDevices THEN [i \in DOMAIN infos |-> ResolveTypes(infos[i])] ELSE infos
  /\ UNCHANGED <<document, next, path, temp, infos>>

InfoNext ==
  ParseFile \/ StartElement \/ Characters \/ SkippedEntity \/ EndElement \/ EndDocument \/ LoadInfo

(***************************************************************************)
(* What has been provided is what the author of the document described,    *)
(* element by element: nothing of one device or type is carried over to    *)
(* the next one, whatever elements it leaves out and in whatever order it  *)
(* has them; and only documents with a mistake are refused.                *)
(***************************************************************************)
NothingCarriedOver ==
  /\ parse = "loaded" => document.valid /\ provided = document.means
  /\ parse = "threw" => ~document.valid

-----------------------------------------------------------------------------
(***************************************************************************)
(* What a document says, by the places of its elements: where one of a     *)
(* path begins and where it ends, and what is between them.                *)
(***************************************************************************)
(* The elements that are open behind an event. *)
OpenAfter(d) ==
  LET open[n \in 0..Len(d.events)] ==
        IF n = 0 THEN <<>>
        ELSE CASE d.events[n].event = "start" -> Append(open[n - 1], d.events[n].name)
               [] d.events[n].event = "end" -> Front(open[n - 1])
               [] OTHER -> open[n - 1]
  IN  open

(* The pieces of content there have been since an element has begun. *)
IsPiece(d, event) ==
  \/ event.event = "text" /\ event.text # ""
  \/ event.event = "entity" /\ d.kind # "devices" /\ event.text # "unknown"

PiecesAfter(d) ==
  LET pieces[n \in 0..Len(d.events)] ==
        IF n = 0 \/ d.events[n].event = "start" THEN <<>>
        ELSE IF IsPiece(d, d.events[n]) THEN Append(pieces[n - 1], d.events[n].text) ELSE pieces[n - 1]
  IN  pieces

Begins(d, paths) == {n \in DOMAIN d.events : d.events[n].event = "start" /\ OpenAfter(d)[n] \in paths}
Ends(d, paths) == {n \in DOMAIN d.events : d.events[n].event = "end" /\ OpenAfter(d)[n - 1] \in paths}

(* The latest of some places up to one of them; 0 is none. *)
Latest(places, to) ==
  CHOOSE n \in {0} \cup (places \cap (1..to)) : \A m \in {0} \cup (places \cap (1..to)) : m <= n

DevicePath == {<<"devices", "device">>}
DevicePaths(name) == {<<"devices", "device", name>>}
ModulePath == {<<"devices", "device", "modules", class>> : class \in DOMAIN ModuleChildren}
ModulePaths(name) == {<<"devices", "device", "modules", class, name>> : class \in DOMAIN ModuleChildren}
TypePath == {<<"types", "type">>}
TypePaths(name) == {<<"types", "type", name>>}

(* The content of the latest of the elements that has ended within the     *)
(* present one.                                                            *)
EndedIn(d, paths, within, to) == Latest(Ends(d, paths), to) > Latest(Begins(d, within), to)

ContentOf(d, paths, within, to) ==
  IF EndedIn(d, paths, within, to) THEN PiecesAfter(d)[Latest(Ends(d, paths), to) - 1] ELSE <<>>

ModuleOf(d, to) ==
  LET begin == d.events[Latest(Begins(d, ModulePath), to)]
  IN  [id |-> begin.attributes.id, class |-> begin.name, type |-> begin.attributes.type,
       name |-> ContentOf(d, ModulePaths("name"), ModulePath, to),
       group |-> ContentOf(d, ModulePaths("group"), ModulePath, to),
       unavailable |-> begin.attributes.unavailable,
       default |-> ContentOf(d, ModulePaths("default"), ModulePath, to)]

(* The modules that have ended since a device has begun. *)
ModulesAfter(d) ==
  LET modules[n \in 0..Len(d.events)] ==
        IF n = 0 \/ n \in Begins(d, DevicePath) THEN <<>>
        ELSE IF n \in Ends(d, ModulePath) THEN Append(modules[n - 1], ModuleOf(d, n)) ELSE modules[n - 1]
  IN  modules

DeviceOf(d, to) ==
  LET begin == d.events[Latest(Begins(d, DevicePath), to)]
  IN  [id |-> begin.attributes.id, name |-> ContentOf(d, DevicePaths("name"), DevicePath, to),
       display |-> begin.attributes.name, vendor |-> ContentOf(d, DevicePaths("manufacturer"), DevicePath, to),
       modules |-> ModulesAfter(d)[to]]

TypeOf(d, to) ==
  LET begin == d.events[Latest(Begins(d, TypePath), to)]
      var == Latest(Begins(d, TypePaths("var")), to)
  IN  [id |-> begin.attributes.id, name |-> ContentOf(d, TypePaths("name"), TypePath, to),
       unit |-> ContentOf(d, TypePaths("unit"), TypePath, to),
       ctype |-> IF EndedIn(d, TypePaths("var"), TypePath, to)
                 THEN SetCType(ContentOf(d, TypePaths("var"), TypePath, to)) ELSE <<"int">>,
       width |-> IF var > Latest(Begins(d, TypePath), to) THEN d.events[var].attributes.size ELSE 1]

InfoOf(d, n) ==
  IF n \in Ends(d, DevicePath) THEN <<DeviceOf(d, n)>>
  ELSE IF n \in Ends(d, TypePath) THEN <<TypeOf(d, n)>> ELSE <<>>

InfosAfter(d) ==
  LET all[n \in 0..Len(d.events)] == IF n = 0 THEN <<>> ELSE all[n - 1] \o InfoOf(d, n)
  IN  all

Meaning(d) ==
  LET all == InfosAfter(d)[Len(d.events)]
  IN  IF d.kind = "devices" THEN [i \in DOMAIN all |-> ResolveTypes(all[i])] ELSE all

(* An event is as it should be: an element where there may be one and with *)
(* its attributes, content where there may be some, modules and infos that *)
(* have not been there yet.                                                *)
Fine(d, n) ==
  /\ d.events[n].event = "start" =>
       /\ d.events[n].name \in ExpectElement(d.kind, OpenAfter(d)[n - 1])
       /\ ~BadAttributes(OpenAfter(d)[n], d.events[n].attributes)
  /\ d.events[n].event = "text" =>
       d.events[n].text = "" \/ Last(OpenAfter(d)[n - 1]) \in ExpectContent(d.kind)
  /\ n \in Ends(d, ModulePath) => ModuleOf(d, n).id \notin Ids(ModulesAfter(d)[n - 1])
  /\ n \in Ends(d, TypePaths("var")) => PiecesAfter(d)[n - 1] \in {<<type>> : type \in DOMAIN CTypes}
  /\ InfoOf(d, n) # <<>> => InfoOf(d, n)[1].name # <<>> /\ InfoOf(d, n)[1].id \notin Ids(InfosAfter(d)[n - 1])

(* What every parser of XML sees to, and that no text is indented: what    *)
(* trimContent() makes of one that is is not what it says.                 *)
WellFormed(d) ==
  /\ d.events \in Seq({d.events[n] : n \in DOMAIN d.events})
  /\ \A n \in DOMAIN d.events :
       /\ d.events[n].event \in {"start", "text", "entity", "end"}
       /\ d.events[n].event # "start" => OpenAfter(d)[n - 1] # <<>>
       /\ d.events[n].event = "text" => ~d.events[n].indented
=============================================================================
