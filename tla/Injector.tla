------------------------------ MODULE Injector -------------------------------
(***************************************************************************)
(* DependencyInjector: the instances of a factory, created when somebody   *)
(* refers to them.  create() recurses through the references, so an        *)
(* instance under construction is a frame of the stack; it can be referred *)
(* to from the moment it is registered, before it has its own references.  *)
(*                                                                         *)
(* A key of an instance is a record of the name of the property, the kind  *)
(* ("ref", "number", "text", "malformed" without any of them, "nameless"), *)
(* the value and the condition if-yes.  A class (a wrapper) is a record of *)
(* its methods, what each of them takes, the types it can be cast to, and  *)
(* what its hook "done" does.                                              *)
(***************************************************************************)
EXTENDS Configuration

CONSTANT Classes

VARIABLES factory,  \* the configuration
          objects,  \* m_free: the wrappers in the order of their creation
          set,      \* m_set: name |-> index in objects
          stack     \* create() and what waits for it

injectorVars == <<factory, objects, set, stack>>

InjectorInit ==
  factory = EmptyFactory /\ objects = <<>> /\ set = <<>> /\ stack = <<>>

Instances == {factory.instances[i].name : i \in DOMAIN factory.instances}

(* Of two instances of a name the configuration finds the first. *)
Instance(name) ==
  factory.instances[CHOOSE i \in DOMAIN factory.instances :
    /\ factory.instances[i].name = name
    /\ \A j \in 1..(i - 1) : factory.instances[j].name # name]

(* resolveAlias() *)
Aliased(name) == {factory.aliases[i].ref : i \in
  {j \in DOMAIN factory.aliases : factory.aliases[j].name = name}}

ResolveAlias(name) == IF Aliased(name) = {} THEN name ELSE CHOOSE ref \in Aliased(name) : TRUE

(* The XML configuration names the first element "instance", the others    *)
(* "instance[1]" and so on: createEarly() looks for the bracket.           *)
IsEarly(instance) == instance.early
EarlyInstances == SelectSeq(SubSeq(factory.instances, 2, Len(factory.instances)), IsEarly)
EarlyNames == [i \in DOMAIN EarlyInstances |-> EarlyInstances[i].name]

(* testConditions() and resolveKeys() *)
TestConditions(key) == key.ifYes \in {"none", "y", "yes", "true"}
ResolveKeys(name) == SelectSeq(Instance(name).keys, TestConditions)

(* validate() and createNew(): no such instance, no such class. *)
CanCreate(name) == name \in Instances /\ Instance(name).class \in DOMAIN Classes

Object(name) == [name |-> name, class |-> Instance(name).class, props |-> <<>>, done |-> FALSE]

(* ... when it is disowned: nobody finds it again. *)
CreateNoAliasDisowned(name) ==
  /\ objects' = Append(objects, Object(name))
  /\ set' = set
  /\ stack' = Append(stack, [name |-> name, object |-> Len(objects) + 1, next |-> 1])

(* What std::map has after operator[] has been assigned to. *)
Insert(map, key, value) ==
  [k \in DOMAIN map \cup {key} |-> IF k = key THEN value ELSE map[k]]

(* createNoAlias(): registered, under a name only once, then the           *)
(* dependencies are injected.                                              *)
CreateNoAlias(name) ==
  /\ objects' = Append(objects, Object(name))
  /\ set' = IF name \in DOMAIN set THEN set ELSE Insert(set, name, Len(objects) + 1)
  /\ stack' = Append(stack, [name |-> name, object |-> Len(objects) + 1, next |-> 1])

(* create(): an instance of the name, or of what it is an alias of, is     *)
(* reused; else it has to be created, if it can be.                        *)
Reused(name) ==
  IF name \in DOMAIN set THEN {set[name]}
  ELSE IF ResolveAlias(name) \in DOMAIN set /\ Aliased(name) # {name}
  THEN {set[ResolveAlias(name)]} ELSE {}

NotCreated(name) ==
  /\ Reused(name) = {}
  /\ Aliased(name) = {name} \/ ~CanCreate(ResolveAlias(name))

Frame == Last(stack)
Keys == ResolveKeys(Frame.name)
InFrame == stack # <<>>
HasKey == InFrame /\ Frame.next \in DOMAIN Keys
Key == Keys[Frame.next]
NextKey(frames) == [frames EXCEPT ![Len(frames)].next = @ + 1]

Methods(object) == Classes[objects[object].class].methods

(* DIWCast::find() *)
Castable(target, takes) == takes \in Classes[objects[target].class].casts

(* injectRef(), injectNumber(), injectText(): there is such a method, it   *)
(* takes such a thing, and the thing can be cast to what it takes.         *)
CanInject(object, key, target) ==
  /\ key.property \in DOMAIN Methods(object)
  /\ LET takes == Methods(object)[key.property]
     IN  CASE key.kind = "ref" -> Castable(target, takes)
           [] key.kind = "number" -> takes \in {"int", "bool"}
           [] OTHER -> takes = "string" \/ (takes = "char" /\ key.size = 1)

(* DIWBoolSetter: a number is whether it is not zero. *)
SetterValue(object, key) ==
  IF Methods(object)[key.property] = "bool" THEN key.value # 0 ELSE key.value

Set(object, value) ==
  objects' = [objects EXCEPT ![object].props =
                Append(@, [property |-> Key.property, value |-> value])]

(* injectValue() of something that is no reference. *)
InjectValue ==
  /\ HasKey /\ Key.kind \in {"number", "text"}
  /\ CanInject(Frame.object, Key, Frame.object)
  /\ Set(Frame.object, SetterValue(Frame.object, Key))
  /\ stack' = NextKey(stack)
  /\ UNCHANGED <<factory, set>>

(* Without a name or a value there is only a line in the log. *)
SkipKey ==
  /\ HasKey /\ Key.kind \in {"malformed", "nameless"}
  /\ stack' = NextKey(stack)
  /\ UNCHANGED <<factory, objects, set>>

(* tryInjectRef() of an instance that is there. *)
InjectRef ==
  /\ HasKey /\ Key.kind = "ref"
  /\ \E target \in Reused(Key.value) :
       /\ CanInject(Frame.object, Key, target)
       /\ Set(Frame.object, target)
  /\ stack' = NextKey(stack)
  /\ UNCHANGED <<factory, set>>

(* ... of one that has to be created first. *)
CreateRef ==
  /\ HasKey /\ Key.kind = "ref"
  /\ Reused(Key.value) = {} /\ ~NotCreated(Key.value)
  /\ CreateNoAlias(ResolveAlias(Key.value))
  /\ UNCHANGED factory

(* What throws: every create() on the stack is left. *)
Fails ==
  /\ HasKey
  /\ \/ Key.kind = "ref" /\ NotCreated(Key.value)
     \/ Key.kind = "ref" /\ \E t \in Reused(Key.value) : ~CanInject(Frame.object, Key, t)
     \/ Key.kind \in {"number", "text"} /\ ~CanInject(Frame.object, Key, Frame.object)

Unwind == stack' = <<>> /\ UNCHANGED <<factory, objects, set>>

AllInjected == InFrame /\ Frame.next \notin DOMAIN Keys
Hook == Classes[objects[Frame.object].class].hook

(* The hook "done" has returned, and so does create(); the one who asked   *)
(* for the instance finds it when it looks again.                          *)
Created ==
  /\ objects' = [objects EXCEPT ![Frame.object].done = TRUE]
  /\ stack' = Front(stack)
  /\ UNCHANGED <<factory, set>>
=============================================================================
