----------------------------- MODULE Daemon_proofs -----------------------------
(***************************************************************************)
(* Proofs about the daemon, for every command line, every directory of     *)
(* configuration files and every set of classes: how the injector wires    *)
(* instances whose references form cycles, and that no thread of a loop is *)
(* left behind when the daemon exits.                                      *)
(***************************************************************************)
EXTENDS Daemon, SequenceTheorems, TLAPS

(***************************************************************************)
(* Sequences of whatever                                                   *)
(***************************************************************************)

Listed(list) == \E S : list \in Seq(S)

LEMMA EmptyList == Listed(<< >>) /\ Len(<< >>) = 0 /\ DOMAIN << >> = {}
<1>1. << >> \in Seq({})
  OBVIOUS
<1> QED
  BY <1>1 DEF Listed

LEMMA ListDomain ==
  ASSUME NEW list, Listed(list)
  PROVE  Len(list) \in Nat /\ DOMAIN list = 1..Len(list) /\ (list # << >> => Len(list) > 0)
BY LenProperties, EmptySeq DEF Listed

LEMMA Appended ==
  ASSUME NEW list, Listed(list), NEW e
  PROVE  /\ Listed(Append(list, e)) /\ DOMAIN Append(list, e) = 1..Len(list) + 1
         /\ Len(Append(list, e)) = Len(list) + 1
         /\ \A k \in 1..Len(list) : Append(list, e)[k] = list[k]
         /\ Append(list, e)[Len(list) + 1] = e
<1>1. PICK S : list \in Seq(S)
  BY DEF Listed
<1> DEFINE T == S \cup {e}
<1>2. list \in Seq(T) /\ e \in T
  <2>1. list \in [1..Len(list) -> S] /\ Len(list) \in Nat
    BY <1>1, LenProperties
  <2>2. list \in [1..Len(list) -> T]
    BY <2>1
  <2> QED
    BY <2>1, <2>2, SeqDef
<1> HIDE DEF T
<1>3. /\ Append(list, e) \in Seq(T) /\ Len(Append(list, e)) = Len(list) + 1
      /\ \A k \in 1..Len(list) : Append(list, e)[k] = list[k]
      /\ Append(list, e)[Len(list) + 1] = e
  BY <1>2, AppendProperties
<1> QED
  BY <1>3, LenProperties DEF Listed

LEMMA Tailed ==
  ASSUME NEW list, Listed(list), list # << >>
  PROVE  /\ Listed(Tail(list)) /\ DOMAIN Tail(list) = 1..Len(list) - 1
         /\ \A k \in 1..Len(list) - 1 : Tail(list)[k] = list[k + 1]
         /\ Head(list) = list[1] /\ 1 \in DOMAIN list
<1>1. PICK S : list \in Seq(S)
  BY DEF Listed
<1>2. /\ Tail(list) \in Seq(S) /\ Len(Tail(list)) = Len(list) - 1
      /\ \A k \in 1..Len(Tail(list)) : Tail(list)[k] = list[k + 1]
      /\ Head(list) = list[1] /\ Len(list) \in Nat \ {0}
  BY <1>1, HeadTailProperties, LenProperties, EmptySeq
<1> QED
  BY <1>1, <1>2, LenProperties DEF Listed

LEMMA Fronted ==
  ASSUME NEW list, Listed(list), list # << >>
  PROVE  /\ Listed(Front(list)) /\ DOMAIN Front(list) = 1..Len(list) - 1
         /\ \A k \in 1..Len(list) - 1 : Front(list)[k] = list[k]
         /\ Last(list) = list[Len(list)]
<1>1. PICK S : list \in Seq(S)
  BY DEF Listed
<1>2. Len(list) \in Nat \ {0}
  BY <1>1, LenProperties, EmptySeq
<1>3. /\ Front(list) \in Seq(S) /\ Len(Front(list)) = Len(list) - 1
      /\ \A k \in 1..Len(list) - 1 : Front(list)[k] = list[k]
  <2> DEFINE n == Len(list) - 1
  <2>1. 1 \in Int /\ n \in Int /\ \A k \in 1..n : list[k] \in S
    <3>1. list \in [1..Len(list) -> S] /\ 1..n \subseteq 1..Len(list)
      BY <1>1, <1>2, LenProperties
    <3> QED
      BY <1>2, <3>1
  <2>2. /\ SubSeq(list, 1, n) \in Seq(S)
        /\ Len(SubSeq(list, 1, n)) = IF 1 <= n THEN n - 1 + 1 ELSE 0
        /\ \A k \in 1..n - 1 + 1 : SubSeq(list, 1, n)[k] = list[1 + k - 1]
    BY <2>1, SubSeqProperties
  <2>3. /\ n \in Nat /\ n - 1 + 1 = n /\ (IF 1 <= n THEN n - 1 + 1 ELSE 0) = n
        /\ \A k \in 1..n : 1 + k - 1 = k
    <3>1. n \in Nat
      BY <1>2
    <3> HIDE DEF n
    <3>2. \A k \in 1..n : 1 + k - 1 = k
      BY <3>1
    <3> QED
      BY <3>1, <3>2
  <2>4. Front(list) = SubSeq(list, 1, n)
    BY Zenon DEF Front
  <2> HIDE DEF n
  <2>5. /\ Front(list) \in Seq(S) /\ Len(Front(list)) = n
        /\ \A k \in 1..n : Front(list)[k] = list[k]
    BY <2>2, <2>3, <2>4
  <2> QED
    BY <2>5 DEF n
<1> QED
  BY <1>3, LenProperties DEF Listed, Last

LEMMA Altered ==
  ASSUME NEW list, Listed(list), NEW i \in DOMAIN list, NEW e
  PROVE  Listed([list EXCEPT ![i] = e]) /\ DOMAIN [list EXCEPT ![i] = e] = DOMAIN list
<1>1. PICK S : list \in Seq(S)
  BY DEF Listed
<1> DEFINE T == S \cup {e}  new == [list EXCEPT ![i] = e]
<1>2. list \in [1..Len(list) -> S] /\ Len(list) \in Nat
  BY <1>1, LenProperties
<1>3. new \in [1..Len(list) -> T]
  BY <1>2
<1>4. new \in Seq(T)
  BY <1>2, <1>3, SeqDef
<1> QED
  BY <1>4 DEF Listed

(***************************************************************************)
(* The injector                                                            *)
(***************************************************************************)

(* Objects, frames and the map of names are what they are built as. *)
Formed ==
  /\ Listed(objects) /\ Listed(stack)
  /\ set = [name \in DOMAIN set |-> set[name]]
  /\ \A k \in DOMAIN objects :
       /\ objects[k] = [name |-> objects[k].name, class |-> objects[k].class,
                        props |-> objects[k].props, done |-> objects[k].done]
       /\ Listed(objects[k].props)
  /\ \A i \in DOMAIN stack :
       stack[i] = [name |-> stack[i].name, object |-> stack[i].object, next |-> stack[i].next]

(* What is under construction has a name, which no other frame has. *)
StackInv ==
  /\ \A i \in DOMAIN stack :
       /\ stack[i].object \in DOMAIN objects
       /\ objects[stack[i].object].name = stack[i].name
       /\ stack[i].name \in DOMAIN set /\ stack[i].name \in Instances
  /\ \A i, j \in DOMAIN stack : stack[i].name = stack[j].name => i = j

SetInv ==
  \A name \in DOMAIN set : set[name] \in DOMAIN objects /\ objects[set[name]].name = name

(* References lead to objects; those that are not finished have a frame.   *)
RefInv ==
  /\ \A object \in DOMAIN objects : \A prop \in RefsOf(object) : prop.value \in DOMAIN objects
  /\ ~Unwound => \A object \in DOMAIN objects : objects[object].done \/ object \in UnderConstruction

EarlyInv ==
  \A object \in DOMAIN objects \ Range(set) : objects[object].name \in Range(EarlyNames)

(* The injector works in two phases of the main thread. *)
PhaseInv ==
  /\ pc \in {"options", "main", "early", "create", "start", "serve", "stop", "destroy", "exited", "aborted"}
  /\ pc \notin {"early", "create"} => stack = << >>
  /\ pc \in {"options", "main"} => objects = << >> /\ DOMAIN set = {}

InjectorInv == Formed /\ StackInv /\ SetInv /\ RefInv /\ EarlyInv /\ PhaseInv

(* A new instance: one more object, one more frame, one name in the map.   *)
LEMMA Pushed ==
  ASSUME Formed, NEW name, CreateNoAlias(name)
  PROVE  /\ Formed'
         /\ DOMAIN objects' = DOMAIN objects \cup {Len(objects) + 1}
         /\ Len(objects) + 1 \notin DOMAIN objects
         /\ \A k \in DOMAIN objects : objects'[k] = objects[k]
         /\ objects'[Len(objects) + 1] = Object(name)
         /\ Len(stack) \in Nat /\ DOMAIN stack = 1..Len(stack) /\ DOMAIN stack' = 1..Len(stack) + 1
         /\ \A i \in DOMAIN stack : stack'[i] = stack[i]
         /\ stack'[Len(stack) + 1] = [name |-> name, object |-> Len(objects) + 1, next |-> 1]
         /\ DOMAIN set' = DOMAIN set \cup {name}
         /\ \A m \in DOMAIN set : set'[m] = set[m]
         /\ name \notin DOMAIN set => set'[name] = Len(objects) + 1
<1> DEFINE n == Len(objects) + 1
           frame == [name |-> name, object |-> n, next |-> 1]
<1>1. /\ Len(objects) \in Nat /\ DOMAIN objects = 1..Len(objects)
      /\ Len(stack) \in Nat /\ DOMAIN stack = 1..Len(stack)
  BY ListDomain DEF Formed
<1>2. /\ Listed(objects') /\ DOMAIN objects' = 1..n
      /\ \A k \in DOMAIN objects : objects'[k] = objects[k]
      /\ objects'[n] = Object(name)
  BY <1>1, Appended DEF CreateNoAlias, Formed
<1>3. /\ Listed(stack') /\ DOMAIN stack' = 1..Len(stack) + 1
      /\ \A i \in DOMAIN stack : stack'[i] = stack[i]
      /\ stack'[Len(stack) + 1] = frame
  BY <1>1, Appended DEF CreateNoAlias, Formed
<1>4. /\ set' = [m \in DOMAIN set' |-> set'[m]]
      /\ DOMAIN set' = DOMAIN set \cup {name}
      /\ \A m \in DOMAIN set : set'[m] = set[m]
      /\ name \notin DOMAIN set => set'[name] = n
  BY DEF CreateNoAlias, Insert, Formed
<1>5. 1..n = DOMAIN objects \cup {n} /\ n \notin DOMAIN objects
  BY <1>1
<1>6. Object(name) = [name |-> Object(name).name, class |-> Object(name).class,
                      props |-> Object(name).props, done |-> Object(name).done]
      /\ Listed(Object(name).props)
  BY EmptyList DEF Object
<1>7. \A k \in DOMAIN objects' :
        /\ objects'[k] = [name |-> objects'[k].name, class |-> objects'[k].class,
                          props |-> objects'[k].props, done |-> objects'[k].done]
        /\ Listed(objects'[k].props)
  BY <1>2, <1>5, <1>6 DEF Formed
<1>8. \A i \in DOMAIN stack' :
        stack'[i] = [name |-> stack'[i].name, object |-> stack'[i].object, next |-> stack'[i].next]
  BY <1>1, <1>3 DEF Formed
<1>9. Formed'
  BY <1>2, <1>3, <1>4, <1>7, <1>8 DEF Formed
<1> QED
  BY <1>1, <1>2, <1>3, <1>4, <1>5, <1>9

(* The next key of the instance on top. *)
LEMMA NextFrame ==
  ASSUME Formed, stack # << >>, stack' = NextKey(stack)
  PROVE  /\ Listed(stack') /\ DOMAIN stack' = DOMAIN stack
         /\ \A i \in DOMAIN stack :
              /\ stack'[i].object = stack[i].object /\ stack'[i].name = stack[i].name
              /\ stack'[i] = [name |-> stack'[i].name, object |-> stack'[i].object, next |-> stack'[i].next]
<1> DEFINE n == Len(stack)
           next == stack[n].next + 1
           top == [stack[n] EXCEPT !.next = next]
<1>1. n \in DOMAIN stack
  BY ListDomain DEF Formed
<1>2. stack' = [stack EXCEPT ![n] = top]
  BY DEF NextKey
<1> HIDE DEF next, n
<1>3. /\ top.object = stack[n].object /\ top.name = stack[n].name
      /\ top = [name |-> top.name, object |-> top.object, next |-> top.next]
  BY <1>1 DEF Formed
<1> HIDE DEF top
<1>4. Listed(stack') /\ DOMAIN stack' = DOMAIN stack
  <2>1. Listed(stack)
    BY DEF Formed
  <2>2. /\ Listed([stack EXCEPT ![n] = top])
        /\ DOMAIN [stack EXCEPT ![n] = top] = DOMAIN stack
    BY <1>1, <2>1, Altered
  <2> QED
    BY <1>2, <2>2, Zenon
<1>5. \A i \in DOMAIN stack : stack'[i] = IF i = n THEN top ELSE stack[i]
  BY <1>2
<1> QED
  BY <1>3, <1>4, <1>5 DEF Formed

(* What a setter has been given goes into the object on top. *)
LEMMA Injected ==
  ASSUME Formed, stack # << >>, Frame.object \in DOMAIN objects, NEW value,
         Set(Frame.object, value), stack' = NextKey(stack), UNCHANGED set
  PROVE  /\ Formed' /\ DOMAIN objects' = DOMAIN objects
         /\ \A k \in DOMAIN objects :
              /\ objects'[k].name = objects[k].name /\ objects'[k].class = objects[k].class
              /\ objects'[k].done = objects[k].done
              /\ objects'[k].props =
                   IF k = Frame.object
                   THEN Append(objects[k].props, [property |-> Key.property, value |-> value])
                   ELSE objects[k].props
         /\ DOMAIN stack' = DOMAIN stack
         /\ \A i \in DOMAIN stack : stack'[i].object = stack[i].object /\ stack'[i].name = stack[i].name
<1> DEFINE f == Frame.object
           more == Append(objects[f].props, [property |-> Key.property, value |-> value])
           new == [objects[f] EXCEPT !.props = more]
<1>1. objects' = [objects EXCEPT ![f] = new]
  BY DEF Set
<1>2. Listed(more)
  BY Appended DEF Formed
<1> HIDE DEF more
<1>3. /\ new.name = objects[f].name /\ new.class = objects[f].class /\ new.done = objects[f].done
      /\ new.props = more
      /\ new = [name |-> new.name, class |-> new.class, props |-> new.props, done |-> new.done]
  BY DEF Formed
<1> HIDE DEF new
<1>4. Listed(objects') /\ DOMAIN objects' = DOMAIN objects
  BY <1>1, Altered DEF Formed
<1>5. \A k \in DOMAIN objects : objects'[k] = IF k = f THEN new ELSE objects[k]
  BY <1>1
<1>6. \A k \in DOMAIN objects :
        /\ objects'[k].name = objects[k].name /\ objects'[k].class = objects[k].class
        /\ objects'[k].done = objects[k].done
        /\ objects'[k].props = IF k = f THEN more ELSE objects[k].props
        /\ objects'[k] = [name |-> objects'[k].name, class |-> objects'[k].class,
                          props |-> objects'[k].props, done |-> objects'[k].done]
        /\ Listed(objects'[k].props)
  BY <1>2, <1>3, <1>5 DEF Formed
<1>7. Formed'
  BY <1>4, <1>6, NextFrame, ZenonT(60) DEF Formed
<1> QED
  BY <1>4, <1>6, <1>7, NextFrame DEF more

(* The instance on top is finished. *)
LEMMA Popped ==
  ASSUME Formed, stack # << >>, Frame.object \in DOMAIN objects, Created
  PROVE  /\ Formed' /\ DOMAIN objects' = DOMAIN objects
         /\ \A k \in DOMAIN objects :
              /\ objects'[k].name = objects[k].name /\ objects'[k].class = objects[k].class
              /\ objects'[k].props = objects[k].props
              /\ IF k = Frame.object THEN objects'[k].done ELSE objects'[k].done = objects[k].done
         /\ Len(stack) \in Nat \ {0} /\ DOMAIN stack = 1..Len(stack)
         /\ DOMAIN stack' = 1..Len(stack) - 1
         /\ \A i \in DOMAIN stack' : stack'[i] = stack[i]
         /\ Frame = stack[Len(stack)]
<1> DEFINE f == Frame.object
           yes == TRUE
           new == [objects[f] EXCEPT !.done = yes]
<1>1. objects' = [objects EXCEPT ![f] = new]
  BY Zenon DEF Created
<1> HIDE DEF yes
<1>2. /\ new.name = objects[f].name /\ new.class = objects[f].class /\ new.done = yes
      /\ new.props = objects[f].props
      /\ new = [name |-> new.name, class |-> new.class, props |-> new.props, done |-> new.done]
  BY DEF Formed
<1> HIDE DEF new
<1>3. Listed(objects') /\ DOMAIN objects' = DOMAIN objects
  <2>1. Listed(objects)
    BY DEF Formed
  <2> QED
    BY <1>1, <2>1, Altered
<1>4. \A k \in DOMAIN objects : objects'[k] = IF k = f THEN new ELSE objects[k]
  BY <1>1
<1>5. \A k \in DOMAIN objects :
        /\ objects'[k].name = objects[k].name /\ objects'[k].class = objects[k].class
        /\ objects'[k].props = objects[k].props
        /\ objects'[k].done = IF k = f THEN yes ELSE objects[k].done
        /\ objects'[k] = [name |-> objects'[k].name, class |-> objects'[k].class,
                          props |-> objects'[k].props, done |-> objects'[k].done]
        /\ Listed(objects'[k].props)
  BY <1>2, <1>4 DEF Formed
<1>6. Len(stack) \in Nat \ {0} /\ DOMAIN stack = 1..Len(stack)
  BY ListDomain DEF Formed
<1>7. /\ Listed(stack') /\ DOMAIN stack' = 1..Len(stack) - 1
      /\ \A i \in DOMAIN stack' : stack'[i] = stack[i]
      /\ Frame = stack[Len(stack)]
  BY Fronted DEF Created, Frame, Formed
<1>8. Formed'
  <2>1. set' = [name \in DOMAIN set' |-> set'[name]]
    BY DEF Formed, Created
  <2>2. \A i \in DOMAIN stack' :
          stack'[i] = [name |-> stack'[i].name, object |-> stack'[i].object, next |-> stack'[i].next]
    BY <1>6, <1>7 DEF Formed
  <2> QED
    BY <1>3, <1>5, <1>7, <2>1, <2>2 DEF Formed
<1> QED
  BY <1>3, <1>5, <1>6, <1>7, <1>8 DEF yes

(* To the injector, a step of the daemon is one of these. *)
Creating(name) ==
  /\ CreateNoAlias(name) /\ CanCreate(name) /\ UNCHANGED <<factory, pc>>
  /\ pc \in {"early", "create"}
  /\ name \in DOMAIN set => stack = << >> /\ name \in Range(EarlyNames)
  /\ stack = << >> \/ (HasKey /\ Key.kind = "ref" /\ name = ResolveAlias(Key.value))

Setting(value) ==
  /\ stack # << >> /\ Frame.object \in DOMAIN objects
  /\ Set(Frame.object, value) /\ stack' = NextKey(stack) /\ UNCHANGED <<factory, set, pc>>
  /\ \/ value \in DOMAIN objects
     \/ Methods(Frame.object)[Key.property] \in {"int", "bool", "string", "char"}

Passing == stack # << >> /\ stack' = NextKey(stack) /\ UNCHANGED <<factory, objects, set, pc>>
Finishing == stack # << >> /\ Frame.object \in DOMAIN objects /\ Created /\ UNCHANGED pc
Throwing == Unwind /\ pc' \in {"aborted", "destroy"}

Quiet ==
  /\ UNCHANGED injectorVars
  /\ pc' \in {"options", "main", "early", "create", "start", "serve", "stop", "destroy", "exited", "aborted"}
  /\ pc \in {"early", "create"} => pc' \in {"early", "create"} \/ stack = << >>
  /\ pc' \in {"options", "main"} => pc \in {"options", "main"}
  /\ Unwound => Unwound'

(* Something to be reused is an object. *)
LEMMA ReusedObject ==
  ASSUME SetInv, NEW name, NEW target \in Reused(name)
  PROVE  target \in DOMAIN objects
BY DEF SetInv, Reused

LEMMA FrameObject ==
  ASSUME Formed, StackInv, stack # << >>
  PROVE  Len(stack) \in DOMAIN stack /\ Frame = stack[Len(stack)] /\ Frame.object \in DOMAIN objects
<1>1. Len(stack) \in DOMAIN stack /\ Frame = stack[Len(stack)]
  BY ListDomain, Fronted DEF Formed, Frame
<1> QED
  BY <1>1 DEF StackInv

LEMMA KindsOfInject ==
  ASSUME InjectorInv, Inject
  PROVE  (\E name : Creating(name)) \/ (\E value : Setting(value)) \/ Passing
<1>1. UNCHANGED pc
  BY DEF Inject, Stay, daemonVars
<1>2. CASE HasKey
  <2>1. stack # << >> /\ Frame.object \in DOMAIN objects
    BY <1>2, FrameObject DEF HasKey, InFrame, InjectorInv
  <2>2. pc \in {"early", "create"}
    BY <2>1 DEF InjectorInv, PhaseInv
  <2>3. ASSUME InjectValue PROVE \E value : Setting(value)
    <3>1. Methods(Frame.object)[Key.property] \in {"int", "bool", "string", "char"}
      BY <2>3 DEF InjectValue, CanInject
    <3> QED
      BY <1>1, <2>1, <2>3, <3>1 DEF InjectValue, Setting
  <2>4. ASSUME SkipKey PROVE Passing
    BY <1>1, <2>1, <2>4 DEF SkipKey, Passing
  <2>5. ASSUME InjectRef PROVE \E value : Setting(value)
    <3>1. PICK target \in Reused(Key.value) : Set(Frame.object, target)
      BY <2>5 DEF InjectRef
    <3>2. target \in DOMAIN objects
      BY <3>1, ReusedObject DEF InjectorInv
    <3> QED
      BY <1>1, <2>1, <2>5, <3>1, <3>2 DEF InjectRef, Setting
  <2>6. ASSUME CreateRef PROVE \E name : Creating(name)
    <3> DEFINE name == ResolveAlias(Key.value)
    <3>1. name \notin DOMAIN set /\ CanCreate(name)
      BY <2>6 DEF CreateRef, Reused, NotCreated
    <3> QED
      BY <1>1, <2>2, <2>6, <3>1 DEF CreateRef, Creating
  <2> QED
    BY <2>3, <2>4, <2>5, <2>6 DEF Inject, AddRunnable
<1> QED
  BY <1>2 DEF Inject, AddRunnable, InjectValue, SkipKey, InjectRef, CreateRef

LEMMA Kinds ==
  ASSUME InjectorInv, [Next]_vars
  PROVE  \/ Initialize
         \/ \E name : Creating(name)
         \/ \E value : Setting(value)
         \/ Passing \/ Finishing \/ Throwing \/ Quiet
<1> USE DEF Unwound, PhaseInv, InjectorInv
<1>1. CASE Prepares
  BY <1>1 DEF Prepares, ProcessOption, RejectOption, GiveUp, PrintHelp, TooOldPoco, Main, Leave,
     injectorVars, Quiet
<1>2. CASE StartRunner \/ EarlyDone \/ RunnerCreated
  BY <1>2 DEF StartRunner, EarlyDone, RunnerCreated, Main, injectorVars, Quiet
<1>3. CASE CreateEarly
  <2>1. EarlyNames[cursor] \in Range(EarlyNames)
    BY <1>3 DEF CreateEarly, Range
  <2> QED
    BY <1>3, <2>1 DEF CreateEarly, Creating
<1>4. CASE CreateRunner
  <2> DEFINE name == ResolveAlias(RunnerName)
  <2>1. name \notin DOMAIN set /\ CanCreate(name)
    BY <1>4 DEF CreateRunner, Reused, NotCreated
  <2> QED
    BY <1>4, <2>1 DEF CreateRunner, Creating, Stay, daemonVars
<1>5. CASE Inject
  BY <1>5, KindsOfInject
<1>6. CASE HookReturns
  <2>1. stack # << >> /\ Frame.object \in DOMAIN objects
    BY <1>6, FrameObject DEF HookReturns, AllInjected, InFrame
  <2> QED
    BY <1>6, <2>1 DEF HookReturns, Finishing, Stay, daemonVars
<1>7. CASE Throws
  BY <1>7 DEF Throws, Throwing, Main
<1>8. CASE CallAutoStart \/ Serve \/ NotifyThrows \/ StartThrows
  BY <1>8 DEF CallAutoStart, Serve, NotifyThrows, StartThrows, Main, Stay, daemonVars, injectorVars, Quiet
<1>9. CASE Finishes
  BY <1>9 DEF Finishes, StopReturns, DestroyRunner, RunnerDestroyed, DestroyObject, MainReturns, Main,
     Leave, Stay, daemonVars, injectorVars, Quiet
<1>10. CASE LoopStep \/ Threads \/ TesterRuns \/ UserActs
  BY <1>10 DEF LoopStep, Threads, TesterRuns, UserActs, Stay, daemonVars, injectorVars, Quiet
<1>11. CASE TerminationRequest
  BY <1>11 DEF TerminationRequest, Main, injectorVars, Quiet
<1>12. CASE UNCHANGED vars
  BY <1>12 DEF vars, daemonVars, injectorVars, Quiet
<1> QED
  BY <1>1, <1>2, <1>3, <1>4, <1>5, <1>6, <1>7, <1>8, <1>9, <1>10, <1>11, <1>12
     DEF Next, MainThread, Begins, Works

(* What the configuration says does not change any more. *)
LEMMA SameNames ==
  ASSUME factory' = factory
  PROVE  Instances' = Instances /\ EarlyNames' = EarlyNames
BY Zenon DEF Instances, EarlyNames, EarlyInstances

LEMMA CreatingKeeps ==
  ASSUME InjectorInv, NEW name, Creating(name)
  PROVE  InjectorInv'
<1> PICK n : n = Len(objects) + 1
  OBVIOUS
<1> PICK d : d = Len(stack) + 1
  OBVIOUS
<1>0. /\ Formed /\ StackInv /\ SetInv /\ RefInv /\ EarlyInv /\ PhaseInv
      /\ CreateNoAlias(name) /\ UNCHANGED <<factory, pc>>
  BY DEF InjectorInv, Creating
<1>1. /\ Formed'
      /\ DOMAIN objects' = DOMAIN objects \cup {n} /\ n \notin DOMAIN objects
      /\ \A k \in DOMAIN objects : objects'[k] = objects[k]
      /\ objects'[n] = Object(name)
      /\ Len(stack) \in Nat /\ DOMAIN stack = 1..Len(stack) /\ DOMAIN stack' = 1..d
      /\ \A i \in DOMAIN stack : stack'[i] = stack[i]
      /\ stack'[d] = [name |-> name, object |-> n, next |-> 1]
      /\ DOMAIN set' = DOMAIN set \cup {name}
      /\ \A m \in DOMAIN set : set'[m] = set[m]
      /\ name \notin DOMAIN set => set'[name] = n
  BY <1>0, Pushed
<1>2. Instances' = Instances /\ EarlyNames' = EarlyNames /\ name \in Instances
  BY <1>0, SameNames DEF Creating, CanCreate
<1>3. objects'[n].name = name /\ objects'[n].props = << >>
  BY <1>1 DEF Object
<1>4. DOMAIN stack' = DOMAIN stack \cup {d} /\ d \notin DOMAIN stack
      /\ stack'[d].name = name /\ stack'[d].object = n
  BY <1>1
<1>5. StackInv'
  <2>1. \A i \in DOMAIN stack' :
          /\ stack'[i].object \in DOMAIN objects'
          /\ objects'[stack'[i].object].name = stack'[i].name
          /\ stack'[i].name \in DOMAIN set' /\ stack'[i].name \in Instances
    BY <1>0, <1>1, <1>2, <1>3, <1>4 DEF StackInv
  <2>2. \A i \in DOMAIN stack : stack[i].name # name
    BY <1>0, <1>1 DEF StackInv, Creating
  <2>3. \A i, j \in DOMAIN stack' : stack'[i].name = stack'[j].name => i = j
    BY <1>0, <1>1, <1>4, <2>2 DEF StackInv
  <2> QED
    BY <1>2, <2>1, <2>3 DEF StackInv
<1>6. SetInv'
  BY <1>0, <1>1, <1>3 DEF SetInv
<1>7. RefInv'
  <2>1. \A object \in DOMAIN objects : RefsOf(object)' = RefsOf(object)
    BY <1>1 DEF RefsOf, Methods
  <2>2. RefsOf(n)' = {}
    BY <1>3, EmptyList DEF RefsOf, Range
  <2>3. UnderConstruction' = UnderConstruction \cup {n}
    BY <1>1, <1>4 DEF UnderConstruction
  <2>4. Unwound' = Unwound
    BY <1>0 DEF Unwound
  <2> QED
    BY <1>0, <1>1, <2>1, <2>2, <2>3, <2>4 DEF RefInv
<1>8. EarlyInv'
  <2>1. Range(set) \subseteq Range(set')
    BY <1>1 DEF Range
  <2>2. n \in Range(set') \/ name \in Range(EarlyNames)
    BY <1>1 DEF Range, Creating
  <2>3. \A object \in DOMAIN objects' \ Range(set') : objects'[object].name \in Range(EarlyNames)
    BY <1>0, <1>1, <1>3, <2>1, <2>2 DEF EarlyInv
  <2> QED
    BY <1>2, <2>3 DEF EarlyInv
<1>9. PhaseInv'
  BY <1>0 DEF PhaseInv, Creating
<1> QED
  BY <1>1, <1>5, <1>6, <1>7, <1>8, <1>9 DEF InjectorInv

(* The frames are the same, and the names of the objects.                  *)
SameShape ==
  /\ Formed' /\ DOMAIN objects' = DOMAIN objects
  /\ \A k \in DOMAIN objects : objects'[k].name = objects[k].name /\ objects'[k].class = objects[k].class
  /\ DOMAIN stack' \subseteq DOMAIN stack
  /\ \A i \in DOMAIN stack' : stack'[i].object = stack[i].object /\ stack'[i].name = stack[i].name
  /\ UNCHANGED <<factory, set, pc>>

LEMMA ShapeKeeps ==
  ASSUME InjectorInv, SameShape, stack # << >>
  PROVE  StackInv' /\ SetInv' /\ EarlyInv' /\ PhaseInv'
<1> USE DEF InjectorInv, SameShape
<1>1. Instances' = Instances /\ EarlyNames' = EarlyNames
  BY SameNames
<1>2. StackInv'
  BY <1>1 DEF StackInv
<1>3. SetInv'
  BY DEF SetInv
<1>4. EarlyInv'
  <2>1. Range(set') = Range(set)
    BY DEF Range
  <2> QED
    BY <1>1, <2>1 DEF EarlyInv
<1>5. PhaseInv'
  BY DEF PhaseInv
<1> QED
  BY <1>2, <1>3, <1>4, <1>5

LEMMA SettingKeeps ==
  ASSUME InjectorInv, NEW value, Setting(value)
  PROVE  InjectorInv'
<1> PICK f : f = Frame.object
  OBVIOUS
<1> PICK prop : prop = [property |-> Key.property, value |-> value]
  OBVIOUS
<1>1. /\ Formed' /\ DOMAIN objects' = DOMAIN objects
      /\ \A k \in DOMAIN objects :
           /\ objects'[k].name = objects[k].name /\ objects'[k].class = objects[k].class
           /\ objects'[k].done = objects[k].done
           /\ objects'[k].props = IF k = f THEN Append(objects[k].props, prop) ELSE objects[k].props
      /\ DOMAIN stack' = DOMAIN stack
      /\ \A i \in DOMAIN stack : stack'[i].object = stack[i].object /\ stack'[i].name = stack[i].name
  BY Injected DEF InjectorInv, Setting
<1>2. SameShape /\ stack # << >>
  BY <1>1 DEF SameShape, Setting
<1>3. \A object \in DOMAIN objects : Methods(object)' = Methods(object)
  BY <1>1 DEF Methods
<1>4. \A object \in DOMAIN objects \ {f} : RefsOf(object)' = RefsOf(object)
  BY <1>1, <1>3 DEF RefsOf
<1>5. f \in DOMAIN objects => RefsOf(f)' \subseteq RefsOf(f) \cup ({prop} \cap RefsOf(f)')
  <2> SUFFICES ASSUME f \in DOMAIN objects, NEW new \in RefsOf(f)', new # prop
               PROVE  new \in RefsOf(f)
    OBVIOUS
  <2> DEFINE old == objects[f].props
  <2>1. Listed(old)
    BY DEF InjectorInv, Formed
  <2>2. PICK i \in DOMAIN Append(old, prop) : new = Append(old, prop)[i]
    <3>1. objects'[f].props = Append(old, prop)
      BY <1>1
    <3>2. new \in Range(objects'[f].props)
      BY DEF RefsOf
    <3> QED
      BY <3>1, <3>2, Zenon DEF Range
  <2> HIDE DEF old
  <2>3. i \in DOMAIN old /\ new = old[i]
    BY <2>1, <2>2, Appended, ListDomain
  <2> QED
    BY <1>3, <2>3 DEF RefsOf, Range, old
<1>6. prop \in RefsOf(f)' => value \in DOMAIN objects
  BY <1>3 DEF RefsOf, Setting
<1>7. RefInv'
  <2>1. UnderConstruction' = UnderConstruction /\ Unwound' = Unwound
    BY <1>1 DEF UnderConstruction, Unwound, Setting
  <2>2. \A object \in DOMAIN objects : \A p \in RefsOf(object)' : p.value \in DOMAIN objects
    BY <1>4, <1>5, <1>6 DEF InjectorInv, RefInv
  <2> QED
    BY <1>1, <2>1, <2>2 DEF InjectorInv, RefInv
<1> QED
  BY <1>1, <1>2, <1>7, ShapeKeeps DEF InjectorInv

LEMMA PassingKeeps ==
  ASSUME InjectorInv, Passing
  PROVE  InjectorInv'
<1>1. /\ DOMAIN stack' = DOMAIN stack /\ Formed'
      /\ \A i \in DOMAIN stack : stack'[i].object = stack[i].object /\ stack'[i].name = stack[i].name
  BY NextFrame DEF InjectorInv, Passing, Formed
<1>2. SameShape /\ stack # << >>
  BY <1>1 DEF SameShape, Passing
<1>3. RefInv'
  <2>1. UnderConstruction' = UnderConstruction /\ Unwound' = Unwound
    BY <1>1 DEF UnderConstruction, Unwound, Passing
  <2>2. \A object \in DOMAIN objects : RefsOf(object)' = RefsOf(object)
    BY DEF RefsOf, Methods, Passing
  <2> QED
    BY <2>1, <2>2 DEF InjectorInv, RefInv, Passing
<1> QED
  BY <1>1, <1>2, <1>3, ShapeKeeps DEF InjectorInv

LEMMA FinishingKeeps ==
  ASSUME InjectorInv, Finishing
  PROVE  InjectorInv'
<1> DEFINE f == Frame.object
<1>1. /\ Formed' /\ DOMAIN objects' = DOMAIN objects
      /\ \A k \in DOMAIN objects :
           /\ objects'[k].name = objects[k].name /\ objects'[k].class = objects[k].class
           /\ objects'[k].props = objects[k].props
           /\ IF k = f THEN objects'[k].done ELSE objects'[k].done = objects[k].done
      /\ Len(stack) \in Nat \ {0} /\ DOMAIN stack = 1..Len(stack)
      /\ DOMAIN stack' = 1..Len(stack) - 1
      /\ \A i \in DOMAIN stack' : stack'[i] = stack[i]
      /\ Frame = stack[Len(stack)]
  BY Popped DEF InjectorInv, Finishing
<1>2. SameShape /\ stack # << >>
  BY <1>1 DEF SameShape, Finishing, Created
<1>3. RefInv'
  <2>1. UnderConstruction \subseteq UnderConstruction' \cup {f}
    <3>1. ASSUME NEW i \in DOMAIN stack
          PROVE  stack[i].object \in UnderConstruction' \cup {f}
      <4>1. CASE i = Len(stack)
        BY <1>1, <4>1
      <4>2. CASE i # Len(stack)
        <5>1. i \in DOMAIN stack'
          BY <1>1, <4>2
        <5> QED
          BY <1>1, <5>1 DEF UnderConstruction
      <4> QED
        BY <4>1, <4>2
    <3> QED
      BY <3>1 DEF UnderConstruction
  <2>2. Unwound' = Unwound
    BY DEF Unwound, Finishing
  <2>3. \A object \in DOMAIN objects : RefsOf(object)' = RefsOf(object)
    BY <1>1 DEF RefsOf, Methods
  <2> QED
    BY <1>1, <2>1, <2>2, <2>3 DEF InjectorInv, RefInv
<1> QED
  BY <1>1, <1>2, <1>3, ShapeKeeps DEF InjectorInv

LEMMA LeavingKeeps ==
  ASSUME InjectorInv, Throwing \/ Quiet \/ Initialize
  PROVE  InjectorInv'
<1>1. UNCHANGED <<objects, set>> /\ (UNCHANGED stack \/ stack' = << >>)
  BY DEF Throwing, Unwind, Quiet, injectorVars, Initialize
<1>2. PhaseInv'
  BY DEF Throwing, Unwind, Quiet, injectorVars, Initialize, Main, InjectorInv, PhaseInv, Unwound
<1>3. Formed'
  BY <1>1, EmptyList DEF InjectorInv, Formed
<1>4. \A object : RefsOf(object)' = RefsOf(object)
  BY <1>1 DEF RefsOf, Methods
<1>5. CASE Initialize
  <2>1. objects = << >> /\ stack = << >> /\ DOMAIN set = {} /\ UNCHANGED stack
    BY <1>5 DEF Initialize, Main, InjectorInv, PhaseInv
  <2>2. DOMAIN objects = {} /\ DOMAIN stack = {}
    BY <2>1, EmptyList
  <2> QED
    BY <1>1, <1>2, <1>3, <2>1, <2>2 DEF InjectorInv, StackInv, SetInv, RefInv, EarlyInv
<1>6. CASE Throwing
  <2>1. stack' = << >> /\ DOMAIN stack' = {} /\ Unwound' /\ Instances' = Instances /\ EarlyNames' = EarlyNames
    BY <1>6, EmptyList, SameNames DEF Throwing, Unwind, Unwound
  <2> QED
    BY <1>1, <1>2, <1>3, <1>4, <2>1 DEF InjectorInv, StackInv, SetInv, RefInv, EarlyInv
<1>7. CASE Quiet
  <2>1. UNCHANGED <<objects, set, stack>> /\ Instances' = Instances /\ EarlyNames' = EarlyNames /\ (Unwound => Unwound')
    BY <1>7, SameNames DEF Quiet, injectorVars
  <2> QED
    BY <1>2, <1>3, <1>4, <2>1 DEF InjectorInv, StackInv, SetInv, RefInv, EarlyInv, UnderConstruction
<1> QED
  BY <1>5, <1>6, <1>7

LEMMA InjectorKeeps ==
  ASSUME InjectorInv, [Next]_vars
  PROVE  InjectorInv'
BY Kinds, CreatingKeeps, SettingKeeps, PassingKeeps, FinishingKeeps, LeavingKeeps

LEMMA InjectorStarts == Init => InjectorInv
<1> SUFFICES ASSUME Init PROVE InjectorInv
  OBVIOUS
<1>1. pc = "options" /\ objects = << >> /\ set = << >> /\ stack = << >>
  BY DEF Init, InjectorInit
<1> QED
  BY <1>1, EmptyList DEF InjectorInv, Formed, StackInv, SetInv, RefInv, EarlyInv, PhaseInv

(* Objects are never removed, nor finished ones unfinished.                *)
LEMMA ObjectsStay ==
  ASSUME InjectorInv, [Next]_vars, NEW k \in DOMAIN objects
  PROVE  /\ k \in DOMAIN objects'
         /\ objects'[k].name = objects[k].name /\ objects'[k].class = objects[k].class
         /\ objects[k].done => objects'[k].done
<1>1. ASSUME NEW name, Creating(name)
      PROVE  k \in DOMAIN objects' /\ objects'[k] = objects[k]
  BY <1>1, Pushed DEF Creating, InjectorInv
<1>2. ASSUME NEW value, Setting(value)
      PROVE  /\ k \in DOMAIN objects' /\ objects'[k].name = objects[k].name
             /\ objects'[k].class = objects[k].class /\ objects'[k].done = objects[k].done
  BY <1>2, Injected DEF Setting, InjectorInv
<1>3. ASSUME Finishing
      PROVE  /\ k \in DOMAIN objects' /\ objects'[k].name = objects[k].name
             /\ objects'[k].class = objects[k].class
             /\ IF k = Frame.object THEN objects'[k].done ELSE objects'[k].done = objects[k].done
  BY <1>3, Popped DEF Finishing, InjectorInv
<1>4. ASSUME Initialize \/ Passing \/ Throwing \/ Quiet
      PROVE  objects' = objects
  BY <1>4 DEF Initialize, Passing, Throwing, Unwind, Quiet, injectorVars
<1> QED
  BY <1>1, <1>2, <1>3, <1>4, Kinds

(***************************************************************************)
(* The loops                                                               *)
(***************************************************************************)

(* The loops of a runner are objects that are no runners.                  *)
LoopsInv ==
  /\ loops = [r \in DOMAIN loops |-> loops[r]]
  /\ \A r \in DOMAIN loops :
       /\ r \in DOMAIN objects /\ IsRunner(r) /\ Listed(loops[r])
       /\ \A i \in DOMAIN loops[r] : loops[r][i] \in DOMAIN objects /\ ~IsRunner(loops[r][i])

LEMMA LoopsListed ==
  ASSUME LoopsInv, NEW r
  PROVE  /\ Listed(LoopsOf(r))
         /\ r \notin DOMAIN loops => DOMAIN LoopsOf(r) = {}
         /\ \A i \in DOMAIN LoopsOf(r) : LoopsOf(r)[i] \in DOMAIN objects /\ ~IsRunner(LoopsOf(r)[i])
BY EmptyList DEF LoopsInv, LoopsOf

(* Only an injection adds a loop, behind the others.                       *)
LEMMA LoopsStep ==
  ASSUME InjectorInv, LoopsInv, [Next]_vars
  PROVE  /\ LoopsInv'
         /\ ~HasKey => loops' = loops
         /\ \A r : \A i \in DOMAIN LoopsOf(r) : i \in DOMAIN LoopsOf(r)' /\ LoopsOf(r)'[i] = LoopsOf(r)[i]
<1>1. \A k \in DOMAIN objects : k \in DOMAIN objects' /\ (IsRunner(k)' <=> IsRunner(k))
  BY ObjectsStay DEF IsRunner
<1>2. CASE AddRunnable
  <2>1. PICK f : f = Frame.object
    OBVIOUS
  <2>2. PICK key : key = Key
    OBVIOUS
  <2>3. HasKey /\ stack # << >> /\ f \in DOMAIN objects /\ IsRunner(f)
    BY <1>2, <2>1, FrameObject DEF AddRunnable, InjectRef, HasKey, InFrame, AddsRunnable, InjectorInv
  <2>4. PICK target \in Reused(key.value) : loops' = Insert(loops, f, Append(LoopsOf(f), target))
    BY <1>2, <2>1, <2>2 DEF AddRunnable
  <2>5. ~IsRunner(target) /\ target \in DOMAIN objects
    <3>1. PICK other \in Reused(key.value) : CanInject(f, key, other)
      BY <1>2, <2>1, <2>2 DEF AddRunnable, InjectRef
    <3>2. other = target
      BY <2>4 DEF Reused
    <3>3. key.kind = "ref"
      BY <1>2, <2>2 DEF AddRunnable, InjectRef
    <3>4. \E takes : Castable(target, takes)
      BY <3>1, <3>2, <3>3 DEF CanInject
    <3>5. ~IsRunner(target)
      BY <3>4, RunnersAssumption DEF Castable, IsRunner
    <3> QED
      BY <2>4, <3>5, ReusedObject DEF InjectorInv
  <2> DEFINE old == LoopsOf(f)  new == Append(old, target)
  <2>6. Listed(old) /\ \A i \in DOMAIN old : old[i] \in DOMAIN objects /\ ~IsRunner(old[i])
    BY LoopsListed
  <2>7. /\ Listed(new)
        /\ \A i \in DOMAIN old : i \in DOMAIN new /\ new[i] = old[i]
        /\ \A i \in DOMAIN new : new[i] \in DOMAIN objects /\ ~IsRunner(new[i])
    <3> HIDE DEF old
    <3>1. /\ Len(old) \in Nat /\ DOMAIN old = 1..Len(old)
          /\ Listed(new) /\ DOMAIN new = 1..Len(old) + 1
          /\ \A i \in 1..Len(old) : new[i] = old[i]
          /\ new[Len(old) + 1] = target
      BY <2>6, Appended, ListDomain
    <3> QED
      BY <2>5, <2>6, <3>1
  <2>8. loops' = [r \in DOMAIN loops \cup {f} |-> IF r = f THEN new ELSE loops[r]]
    BY <2>4 DEF Insert
  <2> HIDE DEF new
  <2>9. LoopsInv'
    BY <1>1, <2>3, <2>7, <2>8 DEF LoopsInv
  <2>10. \A r : \A i \in DOMAIN LoopsOf(r) : i \in DOMAIN LoopsOf(r)' /\ LoopsOf(r)'[i] = LoopsOf(r)[i]
    <3>1. ASSUME NEW r, NEW i \in DOMAIN LoopsOf(r)
          PROVE  i \in DOMAIN LoopsOf(r)' /\ LoopsOf(r)'[i] = LoopsOf(r)[i]
      <4>1. CASE r = f
        <5>1. LoopsOf(r)' = new
          BY <2>8, <4>1 DEF LoopsOf
        <5> QED
          BY <2>7, <3>1, <4>1, <5>1
      <4>2. CASE r # f
        <5>1. LoopsOf(r)' = LoopsOf(r)
          BY <2>8, <4>2 DEF LoopsOf
        <5> QED
          BY <3>1, <5>1
      <4> QED
        BY <4>1, <4>2
    <3> QED
      BY <3>1
  <2> QED
    BY <2>3, <2>9, <2>10
<1>3. CASE UNCHANGED loops
  <2>1. LoopsInv'
    BY <1>1, <1>3 DEF LoopsInv
  <2>2. \A r : LoopsOf(r)' = LoopsOf(r)
    BY <1>3 DEF LoopsOf
  <2> QED
    BY <1>3, <2>1, <2>2
<1>4. AddRunnable \/ UNCHANGED loops
  <2>1. CASE Prepares
    BY <2>1 DEF Prepares, ProcessOption, RejectOption, Initialize, GiveUp, PrintHelp, TooOldPoco, loopVars
  <2>2. CASE StartRunner \/ CreateEarly \/ EarlyDone \/ CreateRunner \/ RunnerCreated
    BY <2>2 DEF StartRunner, CreateEarly, EarlyDone, CreateRunner, RunnerCreated, loopVars
  <2>3. CASE Works
    BY <2>3 DEF Works, Inject, CallAutoStart, HookReturns, Throws, Serve, NotifyThrows, StartThrows, loopVars
  <2>4. CASE Finishes \/ TerminationRequest
    BY <2>4 DEF Finishes, StopReturns, DestroyRunner, RunnerDestroyed, DestroyObject, MainReturns,
       TerminationRequest, loopVars
  <2>5. CASE LoopStep
    BY <2>5 DEF LoopStep, StartLoop, StartFails, NothingToStop, AskToStop, Join, JoinTimesOut
  <2>6. CASE Threads \/ TesterRuns \/ UserActs \/ UNCHANGED vars
    BY <2>6 DEF Threads, RunEnds, TesterRuns, UserActs, vars, loopVars
  <2> QED
    BY <2>1, <2>2, <2>3, <2>4, <2>5, <2>6 DEF Next, MainThread, Begins
<1> QED
  BY <1>2, <1>3, <1>4

(* Loops of a runner, in the order in which they are to be handled.        *)
Within(runner, list) == Listed(list) /\ \A k \in DOMAIN list : list[k] \in DOMAIN LoopsOf(runner)

LEMMA WithinStays ==
  ASSUME InjectorInv, LoopsInv, [Next]_vars, NEW r, NEW list, Within(r, list)
  PROVE  Within(r, list)'
BY LoopsStep DEF Within

LEMMA AllWithin ==
  ASSUME LoopsInv, NEW r
  PROVE  Within(r, AllLoops(r)) /\ DOMAIN AllLoops(r) = DOMAIN LoopsOf(r)
<1> DEFINE n == Len(LoopsOf(r))
<1>1. n \in Nat /\ DOMAIN LoopsOf(r) = 1..n
  BY LoopsListed, ListDomain
<1> HIDE DEF n
<1>2. AllLoops(r) \in [1..n -> Nat]
  BY <1>1 DEF AllLoops
<1>3. AllLoops(r) \in Seq(Nat)
  BY <1>1, <1>2, SeqDef
<1> QED
  BY <1>3 DEF Within, Listed, AllLoops

JobFormed ==
  /\ job = [do |-> job.do, runner |-> job.runner, left |-> job.left, asked |-> job.asked]
  /\ Within(job.runner, job.left)
  /\ started = [r \in DOMAIN started |-> started[r]]
  /\ \A r \in DOMAIN started : Within(r, started[r])

(* Where the main thread may be in a method of a runner: in the hook of    *)
(* the instance on top, or in a method of DIDaemon, or in a destructor.    *)
JobWhere ==
  /\ \/ job.do = "none"
     \/ job.do \in {"start", "undo"} /\ (pc = "start" \/ (pc \in {"early", "create"} /\ AllInjected))
     \/ job.do = "stop" /\ pc \in {"stop", "destroy"}
     \/ job.do = "end" /\ pc = "destroy"
  /\ job.do \in {"stop", "end"} /\ pc = "destroy" => job.runner = cursor

JobInv == JobFormed /\ JobWhere

LEMMA NothingWithin == ASSUME NEW r PROVE Within(r, << >>)
BY EmptyList DEF Within

LEMMA StartedWithin ==
  ASSUME JobFormed, NEW r
  PROVE  Within(r, Started(r))
BY NothingWithin DEF JobFormed, Started

(* The next loop of the method the main thread is in. *)
LEMMA Advanced ==
  ASSUME JobFormed, job.left # << >>, NextLoop
  PROVE  /\ job' = [do |-> job.do, runner |-> job.runner, left |-> Tail(job.left), asked |-> FALSE]
         /\ Listed(job.left) /\ Len(job.left) \in Nat /\ DOMAIN job.left = 1..Len(job.left)
         /\ Listed(job'.left) /\ DOMAIN job'.left = 1..Len(job.left) - 1
         /\ \A k \in DOMAIN job'.left : job'.left[k] = job.left[k + 1] /\ k + 1 \in DOMAIN job.left
         /\ Head(job.left) = job.left[1] /\ 1 \in DOMAIN job.left
<1>1. Listed(job.left)
  BY DEF JobFormed, Within
<1>2. PICK no : no = FALSE
  OBVIOUS
<1>3. job' = [job EXCEPT !.left = Tail(@), !.asked = no]
  BY <1>2, Zenon DEF NextLoop
<1>4. job' = [do |-> job.do, runner |-> job.runner, left |-> Tail(job.left), asked |-> no]
  BY <1>3 DEF JobFormed
<1>5. Len(job.left) \in Nat /\ DOMAIN job.left = 1..Len(job.left)
  BY <1>1, ListDomain
<1>6. /\ Listed(Tail(job.left)) /\ DOMAIN Tail(job.left) = 1..Len(job.left) - 1
      /\ \A k \in 1..Len(job.left) - 1 : Tail(job.left)[k] = job.left[k + 1]
      /\ Head(job.left) = job.left[1] /\ 1 \in DOMAIN job.left
  BY <1>1, Tailed
<1>7. \A k \in 1..Len(job.left) - 1 : k + 1 \in 1..Len(job.left)
  BY <1>5
<1>8. job' = [do |-> job.do, runner |-> job.runner, left |-> Tail(job.left), asked |-> FALSE]
  BY <1>2, <1>4, Zenon
<1>9. job'.left = Tail(job.left)
  BY <1>4
<1> QED
  BY <1>1, <1>5, <1>6, <1>7, <1>8, <1>9

(* What a step does to the job, and to what the runners have started.      *)
JobIs(d, r, l, a) == job = [do |-> d, runner |-> r, left |-> l, asked |-> a]

LEMMA JobSteps ==
  ASSUME InjectorInv, LoopsInv, JobFormed, [Next]_vars
  PROVE  /\ \E d, r, l, a : Within(r, l) /\ JobIs(d, r, l, a)'
         /\ \/ UNCHANGED started
            \/ \E r, l : Within(r, l) /\ started' = Insert(started, r, l)
<1>1. \A d, r, l, a : Within(r, l) /\ job' = [do |-> d, runner |-> r, left |-> l, asked |-> a] =>
        \E dd, rr, ll, aa : Within(rr, ll) /\ JobIs(dd, rr, ll, aa)'
  BY DEF JobIs
<1>2. ASSUME job' = job PROVE \E d, r, l, a : Within(r, l) /\ JobIs(d, r, l, a)'
  BY <1>2 DEF JobFormed, JobIs
<1>3. ASSUME job' = Idle PROVE \E d, r, l, a : Within(r, l) /\ JobIs(d, r, l, a)'
  BY <1>1, <1>3, NothingWithin DEF Idle
<1>4. \A r : (Start(r) \/ Stop(r)) => \E d, rr, l, a : Within(rr, l) /\ JobIs(d, rr, l, a)'
  BY <1>1, AllWithin, StartedWithin DEF Start, Stop, Do
<1>5. ASSUME job.left # << >>, NextLoop PROVE \E d, r, l, a : Within(r, l) /\ JobIs(d, r, l, a)'
  <2>1. Within(job.runner, Tail(job.left))
    <3>1. Within(job.runner, job.left)
      BY DEF JobFormed
    <3>2. /\ Listed(Tail(job.left)) /\ DOMAIN Tail(job.left) = 1..Len(job.left) - 1
          /\ \A k \in 1..Len(job.left) - 1 : Tail(job.left)[k] = job.left[k + 1]
          /\ DOMAIN job.left = 1..Len(job.left) /\ Len(job.left) \in Nat
      BY <1>5, <3>1, Tailed, ListDomain DEF Within
    <3>3. \A k \in 1..Len(job.left) - 1 : k + 1 \in 1..Len(job.left)
      BY <3>2
    <3> QED
      BY <3>1, <3>2, <3>3 DEF Within
  <2> QED
    BY <1>1, <1>5, <2>1, Advanced
<1>6. CASE Prepares \/ StartRunner \/ CreateEarly \/ EarlyDone \/ CreateRunner
  BY <1>2, <1>6 DEF Prepares, ProcessOption, RejectOption, Initialize, GiveUp, PrintHelp, TooOldPoco, loopVars,
     StartRunner, CreateEarly, EarlyDone, CreateRunner
<1>7. CASE RunnerCreated
  BY <1>4, <1>7 DEF RunnerCreated
<1>8. CASE Inject
  BY <1>2, <1>8 DEF Inject, AddRunnable, loopVars
<1>9. CASE CallAutoStart \/ NotifyThrows \/ TerminationRequest
  BY <1>4, <1>9 DEF CallAutoStart, NotifyThrows, TerminationRequest
<1>10. CASE HookReturns \/ Throws \/ Serve \/ StartThrows
  BY <1>3, <1>10 DEF HookReturns, Throws, Serve, StartThrows
<1>11. CASE StopReturns
  BY <1>3, <1>11, NothingWithin DEF StopReturns
<1>12. CASE DestroyRunner
  BY <1>4, <1>12 DEF DestroyRunner
<1>13. CASE RunnerDestroyed
  <2>1. CASE DestroyLoops
    BY <1>1, <1>13, <2>1, AllWithin DEF DestroyLoops, Do, RunnerDestroyed
  <2> QED
    BY <1>3, <1>13, <2>1 DEF RunnerDestroyed
<1>14. CASE DestroyObject \/ MainReturns \/ Threads \/ TesterRuns \/ UserActs \/ UNCHANGED vars
  BY <1>2, <1>14 DEF DestroyObject, MainReturns, Threads, RunEnds, TesterRuns, UserActs, vars, loopVars
<1>15. CASE LoopStep
  <2>1. CASE StartLoop
    <3>1. job.left # << >> /\ NextLoop
      BY <2>1 DEF StartLoop, InJob
    <3> PICK r : r = job.runner
      OBVIOUS
    <3> PICK e : e = Head(job.left)
      OBVIOUS
    <3>2. e \in DOMAIN LoopsOf(r)
      <4>1. Within(job.runner, job.left)
        BY DEF JobFormed
      <4>2. Head(job.left) = job.left[1] /\ 1 \in DOMAIN job.left
        BY <3>1, <4>1, Tailed DEF Within
      <4> QED
        BY <4>1, <4>2 DEF Within
    <3>3. started' = Insert(started, r, Append(Started(r), e))
      BY <2>1 DEF StartLoop, Loop
    <3>4. Within(r, Append(Started(r), e))
      <4> PICK old : old = Started(r)
        OBVIOUS
      <4>1. Within(r, old) /\ Listed(old)
        BY StartedWithin DEF Within
      <4>2. /\ Len(old) \in Nat /\ DOMAIN old = 1..Len(old)
            /\ Listed(Append(old, e)) /\ DOMAIN Append(old, e) = 1..Len(old) + 1
            /\ \A k \in 1..Len(old) : Append(old, e)[k] = old[k]
            /\ Append(old, e)[Len(old) + 1] = e
        BY <4>1, Appended, ListDomain
      <4>3. \A k \in DOMAIN Append(old, e) : Append(old, e)[k] \in DOMAIN LoopsOf(r)
        BY <3>2, <4>1, <4>2 DEF Within
      <4> QED
        BY <4>2, <4>3 DEF Within
    <3> QED
      BY <1>5, <3>1, <3>3, <3>4
  <2>2. CASE StartFails
    BY <1>1, <2>2, StartedWithin DEF StartFails, Do
  <2>3. CASE NothingToStop \/ Join \/ JoinTimesOut(BlockedObjects)
    BY <1>5, <2>3 DEF NothingToStop, Join, JoinTimesOut, Stopping, InJob
  <2>4. CASE AskToStop
    <3> PICK yes : yes = TRUE
      OBVIOUS
    <3>1. job' = [job EXCEPT !.asked = yes]
      BY <2>4, Zenon DEF AskToStop
    <3>2. job' = [do |-> job.do, runner |-> job.runner, left |-> job.left, asked |-> yes]
      BY <3>1 DEF JobFormed
    <3> QED
      BY <1>1, <2>4, <3>2 DEF JobFormed, AskToStop
  <2> QED
    BY <1>15, <2>1, <2>2, <2>3, <2>4 DEF LoopStep
<1> QED
  BY <1>6, <1>7, <1>8, <1>9, <1>10, <1>11, <1>12, <1>13, <1>14, <1>15
     DEF Next, MainThread, Begins, Works, Finishes

LEMMA JobFormedKeeps ==
  ASSUME InjectorInv, LoopsInv, JobFormed, [Next]_vars
  PROVE  JobFormed'
<1>1. \A r, l : Within(r, l) => Within(r, l)'
  BY WithinStays
<1>2. PICK d, r, l, a : Within(r, l) /\ JobIs(d, r, l, a)'
  BY JobSteps
<1>3. /\ job' = [do |-> job'.do, runner |-> job'.runner, left |-> job'.left, asked |-> job'.asked]
      /\ job'.runner = r /\ job'.left = l
  BY <1>2 DEF JobIs
<1>4. Within(job.runner, job.left)'
  BY <1>1, <1>2, <1>3 DEF Within, LoopsOf
<1>5. CASE UNCHANGED started
  BY <1>1, <1>3, <1>4, <1>5 DEF JobFormed, Within, LoopsOf
<1>6. ASSUME NEW rr, NEW ll, Within(rr, ll), started' = Insert(started, rr, ll)
      PROVE  JobFormed'
  <2>1. /\ DOMAIN started' = DOMAIN started \cup {rr}
        /\ started' = [k \in DOMAIN started' |-> started'[k]]
        /\ \A k \in DOMAIN started' : started'[k] = IF k = rr THEN ll ELSE started[k]
    BY <1>6 DEF Insert
  <2>2. \A k \in DOMAIN started' : Within(k, started'[k])
    BY <1>6, <2>1 DEF JobFormed
  <2>3. \A k \in DOMAIN started' : Within(k, started[k])'
    BY <1>1, <2>2 DEF Within, LoopsOf
  <2> QED
    BY <1>3, <1>4, <2>1, <2>3 DEF JobFormed
<1> QED
  BY <1>5, <1>6, JobSteps

(* The instance on top stays where it is while stack and configuration do. *)
LEMMA SameFrame ==
  ASSUME UNCHANGED <<factory, stack>>
  PROVE  AllInjected' <=> AllInjected
<1>1. factory' = factory /\ stack' = stack
  OBVIOUS
<1> QED
  BY <1>1, Zenon DEF AllInjected, InFrame, Frame, Keys, ResolveKeys, Instance

LEMMA JobWhereKeeps ==
  ASSUME InjectorInv, JobInv, [Next]_vars
  PROVE  JobWhere'
<1> USE DEF JobWhere, JobInv
<1>1. ASSUME job' = Idle PROVE JobWhere'
  BY <1>1 DEF Idle
<1>2. job = Idle => job.do = "none"
  BY DEF Idle
<1>3. /\ \A r : Start(r) => job'.do = "start" /\ job'.runner = r
      /\ \A r : Stop(r) => job'.do = "stop" /\ job'.runner = r
  BY DEF Start, Stop, Do
<1>4. pc \notin {"early", "create"} => stack = << >>
  BY DEF InjectorInv, PhaseInv
<1>5. CASE Prepares \/ StartRunner
  BY <1>5 DEF Prepares, ProcessOption, RejectOption, Initialize, GiveUp, PrintHelp, TooOldPoco, loopVars,
     StartRunner, Main, Leave, OptionsDone
<1>6. CASE CreateEarly \/ EarlyDone \/ CreateRunner
  BY <1>6 DEF CreateEarly, EarlyDone, CreateRunner, Main, Stay, daemonVars, loopVars, AllInjected, InFrame
<1>7. CASE RunnerCreated
  BY <1>3, <1>7 DEF RunnerCreated, Main
<1>8. CASE Inject
  <2>1. ~AllInjected
    BY <1>8 DEF Inject, AddRunnable, InjectValue, SkipKey, InjectRef, CreateRef, HasKey, AllInjected
  <2> QED
    BY <1>8, <2>1 DEF Inject, AddRunnable, Stay, daemonVars, loopVars
<1>9. CASE CallAutoStart
  <2>1. AllInjected /\ AllInjected' /\ pc \in {"early", "create"}
    BY <1>4, <1>9, SameFrame DEF CallAutoStart, AutoStarts, AllInjected, InFrame, injectorVars
  <2> QED
    BY <1>3, <1>9, <2>1 DEF CallAutoStart, Stay, daemonVars
<1>10. CASE HookReturns \/ Throws \/ Serve \/ StartThrows \/ StopReturns
  BY <1>1, <1>10 DEF HookReturns, Throws, Serve, StartThrows, StopReturns
<1>11. CASE NotifyThrows \/ TerminationRequest
  BY <1>3, <1>11 DEF NotifyThrows, TerminationRequest, Main
<1>12. CASE DestroyRunner
  BY <1>3, <1>12 DEF DestroyRunner, Stay, daemonVars
<1>13. CASE RunnerDestroyed
  <2>1. CASE DestroyLoops /\ UNCHANGED cursor
    BY <1>13, <2>1 DEF RunnerDestroyed, DestroyLoops, Do, JobDone
  <2> QED
    BY <1>1, <1>13, <2>1 DEF RunnerDestroyed
<1>14. CASE DestroyObject \/ MainReturns
  BY <1>2, <1>14 DEF DestroyObject, MainReturns, Leave, loopVars
<1>15. CASE Threads \/ TesterRuns \/ UserActs \/ UNCHANGED vars
  <2>1. UNCHANGED <<job, pc, cursor, factory, stack>>
    BY <1>15 DEF Threads, RunEnds, TesterRuns, UserActs, Stay, daemonVars, injectorVars, loopVars, vars
  <2> QED
    BY <2>1, SameFrame
<1>16. CASE LoopStep
  <2>1. UNCHANGED <<pc, cursor, factory, stack>>
    BY <1>16 DEF LoopStep, Stay, daemonVars, injectorVars
  <2>2. AllInjected' <=> AllInjected
    BY <2>1, SameFrame
  <2>3. \/ job'.do = job.do /\ job'.runner = job.runner
        \/ job.do = "start" /\ job'.do = "undo"
    <3>1. CASE StartLoop \/ NothingToStop \/ Join \/ JoinTimesOut(BlockedObjects)
      BY <3>1, Advanced DEF StartLoop, NothingToStop, Join, JoinTimesOut, Stopping, InJob
    <3>2. CASE StartFails
      BY <3>2 DEF StartFails, InJob, Do
    <3>3. CASE AskToStop
      <4> PICK yes : yes = TRUE
        OBVIOUS
      <4>1. job' = [job EXCEPT !.asked = yes]
        BY <3>3, Zenon DEF AskToStop
      <4> QED
        BY <4>1 DEF JobFormed
    <3> QED
      BY <1>16, <3>1, <3>2, <3>3 DEF LoopStep
  <2> QED
    BY <2>1, <2>2, <2>3
<1> QED
  BY <1>5, <1>6, <1>7, <1>8, <1>9, <1>10, <1>11, <1>12, <1>13, <1>14, <1>15, <1>16
     DEF Next, MainThread, Begins, Works, Finishes

(***************************************************************************)
(* The threads                                                             *)
(***************************************************************************)

(* A thread is that of a loop of a runner; it is never detached.           *)
ThreadsInv ==
  /\ threads = [loop \in DOMAIN threads |-> threads[loop]]
  /\ \A loop \in DOMAIN threads :
       /\ \E r : \E i \in DOMAIN LoopsOf(r) : loop = <<r, i>>
       /\ threads[loop] \in {"running", "ended", "joined", "forgotten"}

LEMMA ThreadOfLoop ==
  ASSUME InjectorInv, LoopsInv, ThreadsInv, NEW loop \in DOMAIN threads
  PROVE  /\ Len(objects) \in Nat /\ loop[1] \in 1..Len(objects)
         /\ IsRunner(loop[1]) /\ loop[2] \in DOMAIN LoopsOf(loop[1]) /\ loop = <<loop[1], loop[2]>>
<1>1. PICK r : \E i \in DOMAIN LoopsOf(r) : loop = <<r, i>>
  BY DEF ThreadsInv
<1>2. PICK i \in DOMAIN LoopsOf(r) : loop = <<r, i>>
  BY <1>1
<1>3. r \in DOMAIN loops
  BY LoopsListed
<1>4. r \in DOMAIN objects /\ IsRunner(r)
  BY <1>3 DEF LoopsInv
<1>5. Len(objects) \in Nat /\ DOMAIN objects = 1..Len(objects)
  BY ListDomain DEF InjectorInv, Formed
<1>6. loop[1] = r /\ loop[2] = i
  BY <1>2
<1> QED
  BY <1>2, <1>4, <1>5, <1>6

(* The loop that is started or stopped next is one of the runner. *)
LEMMA LoopListed ==
  ASSUME JobFormed, job.left # << >>
  PROVE  Loop = <<job.runner, job.left[1]>> /\ job.left[1] \in DOMAIN LoopsOf(job.runner)
<1>1. Listed(job.left)
  BY DEF JobFormed, Within
<1>2. Head(job.left) = job.left[1] /\ 1 \in DOMAIN job.left
  BY <1>1, Tailed
<1> QED
  BY <1>2 DEF JobFormed, Within, Loop

(* What a step does to the threads. *)
Moves(loop, from, to) ==
  /\ loop \in DOMAIN threads /\ threads[loop] = from
  /\ threads' = [threads EXCEPT ![loop] = to]

LEMMA ThreadSteps ==
  ASSUME [Next]_vars
  PROVE  \/ UNCHANGED threads
         \/ LoopStep /\ StartLoop
         \/ ~Ended /\ \E loop : Moves(loop, "running", "ended")
         \/ LoopStep /\ Stopping /\ NextLoop /\ UNCHANGED started
              /\ (Moves(Loop, "ended", "joined") \/ Moves(Loop, "running", "forgotten"))
<1> USE DEF State
<1>1. CASE Begins \/ Works \/ Finishes \/ TerminationRequest \/ UserActs \/ UNCHANGED vars
  <2>1. CASE Prepares
    BY <2>1 DEF Prepares, ProcessOption, RejectOption, Initialize, GiveUp, PrintHelp, TooOldPoco, loopVars
  <2>2. CASE StartRunner \/ CreateEarly \/ EarlyDone \/ CreateRunner \/ RunnerCreated
    BY <2>2 DEF StartRunner, CreateEarly, EarlyDone, CreateRunner, RunnerCreated, loopVars
  <2>3. CASE Works
    BY <2>3 DEF Works, Inject, AddRunnable, CallAutoStart, HookReturns, Throws, Serve, NotifyThrows, StartThrows, loopVars
  <2>4. CASE Finishes \/ TerminationRequest \/ UserActs \/ UNCHANGED vars
    BY <2>4 DEF Finishes, StopReturns, DestroyRunner, RunnerDestroyed, DestroyObject, MainReturns,
       TerminationRequest, UserActs, vars, loopVars
  <2> QED
    BY <1>1, <2>1, <2>2, <2>3, <2>4 DEF Begins
<1>2. CASE Threads
  BY <1>2 DEF Threads, RunEnds, Runs, Ends, Moves
<1>3. CASE TesterRuns
  BY <1>3 DEF TesterRuns, TesterLoops, Runs, Ends, Moves
<1>4. CASE LoopStep
  BY <1>4 DEF LoopStep, StartFails, NothingToStop, AskToStop, Join, JoinTimesOut, Moves
<1> QED
  BY <1>1, <1>2, <1>3, <1>4 DEF Next, MainThread

LEMMA ThreadsKeep ==
  ASSUME InjectorInv, LoopsInv, JobFormed, ThreadsInv, [Next]_vars
  PROVE  ThreadsInv'
<1>1. \A r : \A i \in DOMAIN LoopsOf(r) : i \in DOMAIN LoopsOf(r)'
  BY LoopsStep
<1>2. CASE UNCHANGED threads
  BY <1>1, <1>2 DEF ThreadsInv
<1>3. CASE StartLoop
  <2>1. job.left # << >> /\ threads' = Insert(threads, Loop, "running")
    BY <1>3 DEF StartLoop, InJob
  <2>2. PICK r : r = job.runner
    OBVIOUS
  <2>3. \E i \in DOMAIN LoopsOf(r) : Loop = <<r, i>>
    BY <2>1, <2>2, LoopListed
  <2>4. PICK loop : loop = Loop
    OBVIOUS
  <2>5. threads' = [l \in DOMAIN threads \cup {loop} |-> IF l = loop THEN "running" ELSE threads[l]]
    BY <2>1, <2>4 DEF Insert
  <2> QED
    BY <1>1, <2>3, <2>4, <2>5 DEF ThreadsInv
<1>4. ASSUME NEW loop, NEW from, NEW to \in {"ended", "joined", "forgotten"}, Moves(loop, from, to)
      PROVE  ThreadsInv'
  <2>1. /\ DOMAIN threads' = DOMAIN threads /\ loop \in DOMAIN threads
        /\ threads' = [l \in DOMAIN threads |-> IF l = loop THEN to ELSE threads[l]]
    BY <1>4 DEF Moves, ThreadsInv
  <2> QED
    BY <1>1, <1>4, <2>1 DEF ThreadsInv
<1> QED
  BY <1>2, <1>3, <1>4, ThreadSteps

(* The destructors have come to the object at cursor; in that of a runner  *)
(* the loops that are not left have been dealt with.                       *)
Gone(loop) == threads[loop] \in {"joined", "forgotten"}

Passed(loop) ==
  \/ loop[1] < cursor
  \/ job.do = "end" /\ loop[1] = cursor /\ loop[2] \notin Range(job.left)

GoneInv ==
  /\ pc \in {"options", "main"} => DOMAIN threads = {}
  /\ pc \in {"create", "start", "serve", "stop"} => cursor = 1
  /\ pc = "destroy" => cursor \in Nat /\ \A loop \in DOMAIN threads : Passed(loop) => Gone(loop)
  /\ pc = "exited" => \A loop \in DOMAIN threads : Gone(loop)

DaemonInv == InjectorInv /\ LoopsInv /\ JobInv /\ ThreadsInv /\ GoneInv

(* In a destructor every step on a loop that is gone leaves it gone, and   *)
(* the loops that are no longer left are gone.                             *)
LEMMA GoneInLoopStep ==
  ASSUME DaemonInv, LoopStep
  PROVE  GoneInv'
<1> USE DEF DaemonInv, JobInv
<1>0. UNCHANGED <<pc, cursor>>
  BY DEF LoopStep, Stay, daemonVars
<1>1. job.do \in {"start", "stop", "undo", "end"} /\ job.left # << >>
  BY DEF LoopStep, StartLoop, StartFails, NothingToStop, AskToStop, Join, JoinTimesOut, Stopping, InJob
<1>2. pc \notin {"options", "main", "exited"}
  BY <1>1 DEF JobWhere
<1>3. ASSUME pc = "destroy"
      PROVE  \A loop \in DOMAIN threads' : Passed(loop)' => Gone(loop)'
  <2>1. job.do \in {"stop", "end"} /\ job.runner = cursor
    BY <1>1, <1>3 DEF JobWhere
  <2>2. PICK this : this = Loop
    OBVIOUS
  <2>3. this = <<cursor, job.left[1]>>
    BY <1>1, <2>1, <2>2, LoopListed
  <2>4. CASE AskToStop
    <3> PICK yes : yes = TRUE
      OBVIOUS
    <3>1. job' = [job EXCEPT !.asked = yes] /\ threads' = threads
      BY <2>4, Zenon DEF AskToStop
    <3>2. job'.do = job.do /\ job'.left = job.left
      BY <3>1 DEF JobFormed
    <3>3. Range(job.left)' = Range(job.left)
      BY <3>2 DEF Range
    <3> QED
      BY <1>0, <1>3, <3>1, <3>2, <3>3 DEF GoneInv, Passed, Gone
  <2>5. CASE NothingToStop \/ Join \/ JoinTimesOut(BlockedObjects)
    <3>1. /\ NextLoop /\ DOMAIN threads' = DOMAIN threads
          /\ \A l \in DOMAIN threads : Gone(l) \/ l = this => threads'[l] \in {"joined", "forgotten"}
      <4>1. CASE NothingToStop
        BY <2>2, <2>5, <4>1 DEF NothingToStop, HasThread, State, Gone, ThreadsInv
      <4>2. CASE Join \/ JoinTimesOut(BlockedObjects)
        <5>1. NextLoop /\ this \in DOMAIN threads
          BY <2>2, <4>2 DEF Join, JoinTimesOut, State
        <5>2. \E to \in {"joined", "forgotten"} : threads' = [threads EXCEPT ![this] = to]
          BY <2>2, <4>2 DEF Join, JoinTimesOut
        <5> QED
          BY <5>1, <5>2 DEF Gone, ThreadsInv
      <4> QED
        BY <2>5, <4>1, <4>2
    <3>2. /\ job'.do = job.do
          /\ Len(job.left) \in Nat /\ DOMAIN job.left = 1..Len(job.left)
          /\ DOMAIN job'.left = 1..Len(job.left) - 1
          /\ \A k \in DOMAIN job'.left : job'.left[k] = job.left[k + 1]
      BY <1>1, <3>1, Advanced
    <3>3. \A k \in DOMAIN job.left : k = 1 \/ (k - 1 \in DOMAIN job'.left /\ job'.left[k - 1] = job.left[k])
      <4>1. \A k \in 1..Len(job.left) : k = 1 \/ (k - 1 \in 1..Len(job.left) - 1 /\ (k - 1) + 1 = k)
        BY <3>2
      <4> QED
        BY <3>2, <4>1
    <3>4. \A e \in Range(job.left) : e = job.left[1] \/ e \in Range(job.left)'
      BY <3>3 DEF Range
    <3>5. ASSUME NEW loop \in DOMAIN threads', Passed(loop)'
          PROVE  Gone(loop)'
      <4>1. loop \in DOMAIN threads /\ loop = <<loop[1], loop[2]>>
        BY <3>1, <3>5, ThreadOfLoop
      <4>2. Passed(loop) \/ loop = this
        BY <1>0, <2>3, <3>2, <3>4, <3>5, <4>1 DEF Passed
      <4> QED
        BY <1>3, <3>1, <4>1, <4>2 DEF GoneInv, Gone
    <3> QED
      BY <3>5
  <2>6. ~StartLoop /\ ~StartFails
    BY <2>1 DEF StartLoop, StartFails, InJob
  <2> QED
    BY <2>4, <2>5, <2>6 DEF LoopStep
<1> QED
  BY <1>0, <1>2, <1>3 DEF GoneInv

(* No loop of an object in front of the first one. *)
LEMMA NothingPassed ==
  ASSUME DaemonInv, UNCHANGED threads, cursor' = 1, job'.do # "end"
  PROVE  cursor' \in Nat /\ \A loop \in DOMAIN threads' : ~Passed(loop)'
<1>1. \A loop \in DOMAIN threads : loop[1] \in Nat \ {0}
  BY ThreadOfLoop DEF DaemonInv
<1> QED
  BY <1>1 DEF Passed

LEMMA GoneInDestructors ==
  ASSUME DaemonInv, Finishes
  PROVE  GoneInv'
<1> USE DEF GoneInv, DaemonInv, JobInv
<1>1. \A loop \in DOMAIN threads : Len(objects) \in Nat /\ loop[1] \in 1..Len(objects) /\ IsRunner(loop[1])
                                   /\ loop[2] \in DOMAIN LoopsOf(loop[1])
  BY ThreadOfLoop
<1>2. CASE StopReturns
  <2>1. pc' = "destroy" /\ cursor' = 1 /\ job' = Idle /\ UNCHANGED threads
    BY <1>2 DEF StopReturns, Main
  <2>2. job'.do # "end"
    BY <2>1 DEF Idle
  <2> QED
    BY <2>1, <2>2, NothingPassed
<1>3. CASE DestroyRunner
  <2>1. UNCHANGED <<pc, cursor, threads>> /\ pc = "destroy" /\ job'.do = "stop"
    BY <1>3 DEF DestroyRunner, Stay, daemonVars, Stop, Do
  <2> QED
    BY <2>1 DEF Passed, Gone
<1>4. CASE RunnerDestroyed
  <2>1. UNCHANGED <<pc, threads>> /\ pc = "destroy"
    BY <1>4 DEF RunnerDestroyed
  <2>2. CASE DestroyLoops /\ UNCHANGED cursor
    <3>1. job.runner = cursor
      BY <2>1, <2>2 DEF DestroyLoops, JobDone, JobWhere
    <3>2. job'.left = AllLoops(cursor)
      BY <2>2, <3>1 DEF DestroyLoops, Do
    <3>3. DOMAIN AllLoops(cursor) = DOMAIN LoopsOf(cursor) /\ \A i \in DOMAIN LoopsOf(cursor) : AllLoops(cursor)[i] = i
      BY AllWithin DEF AllLoops
    <3>4. \A i \in DOMAIN LoopsOf(cursor) : i \in Range(job.left)'
      BY <3>2, <3>3 DEF Range
    <3>5. \A loop \in DOMAIN threads' : Passed(loop)' => Passed(loop)
      BY <1>1, <2>1, <2>2, <3>4 DEF Passed
    <3> QED
      BY <2>1, <2>2, <3>5 DEF Gone
  <2>3. CASE JobDone("end") /\ job' = Idle /\ cursor' = cursor + 1
    <3>1. job'.do # "end" /\ job.do = "end" /\ job.left = << >>
      BY <2>3 DEF JobDone, Idle
    <3>2. Range(job.left) = {}
      BY <3>1, EmptyList DEF Range
    <3>3. \A loop \in DOMAIN threads' : Passed(loop)' => Passed(loop)
      BY <1>1, <2>1, <2>3, <3>1, <3>2 DEF Passed
    <3> QED
      BY <2>1, <2>3, <3>3 DEF Gone
  <2> QED
    BY <1>4, <2>2, <2>3 DEF RunnerDestroyed
<1>5. CASE DestroyObject
  <2>1. /\ UNCHANGED <<pc, threads, job>> /\ pc = "destroy" /\ job.do = "none"
        /\ cursor' = cursor + 1 /\ ~IsRunner(cursor)
    BY <1>5 DEF DestroyObject, loopVars, Idle
  <2>2. \A loop \in DOMAIN threads' : Passed(loop)' => Passed(loop)
    BY <1>1, <2>1 DEF Passed
  <2> QED
    BY <2>1, <2>2 DEF Gone
<1>6. CASE MainReturns
  <2>1. pc' = "exited" /\ UNCHANGED threads /\ pc = "destroy" /\ cursor > Len(objects)
    BY <1>6 DEF MainReturns, Leave, loopVars
  <2>2. \A loop \in DOMAIN threads : Passed(loop)
    BY <1>1, <2>1 DEF Passed
  <2> QED
    BY <2>1, <2>2 DEF Gone
<1> QED
  BY <1>2, <1>3, <1>4, <1>5, <1>6 DEF Finishes

LEMMA GoneKeeps ==
  ASSUME DaemonInv, [Next]_vars
  PROVE  GoneInv'
<1> USE DEF GoneInv, DaemonInv, JobInv
<1>1. stack # << >> => pc \in {"early", "create"}
  BY DEF InjectorInv, PhaseInv
<1>2. CASE Prepares \/ StartRunner
  <2>1. UNCHANGED threads /\ pc \in {"options", "main"} /\ pc' \in {"options", "main", "early", "exited"}
    BY <1>2 DEF Prepares, ProcessOption, RejectOption, Initialize, GiveUp, PrintHelp, TooOldPoco,
       StartRunner, Main, Leave, loopVars
  <2> QED
    BY <2>1
<1>3. CASE CreateEarly \/ EarlyDone \/ CreateRunner \/ RunnerCreated
  <2>1. UNCHANGED threads /\ pc' \in {"early", "create", "start"} /\ (pc' = "early" \/ cursor' = 1)
    BY <1>3 DEF CreateEarly, EarlyDone, CreateRunner, RunnerCreated, Main, Stay, daemonVars, loopVars
  <2> QED
    BY <2>1
<1>4. CASE Inject \/ CallAutoStart \/ HookReturns
  <2>1. InFrame
    BY <1>4 DEF Inject, AddRunnable, InjectValue, SkipKey, InjectRef, CreateRef, HasKey,
       CallAutoStart, AutoStarts, HookReturns, AllInjected
  <2>2. UNCHANGED <<threads, pc, cursor>> /\ pc \in {"early", "create"}
    BY <1>1, <1>4, <2>1 DEF InFrame, Inject, AddRunnable, CallAutoStart, HookReturns, Stay, daemonVars, loopVars
  <2> QED
    BY <2>2
<1>5. CASE Throws \/ StartThrows
  <2>1. UNCHANGED threads /\ job' = Idle /\ (pc' = "aborted" \/ (pc' = "destroy" /\ cursor' = 1))
    BY <1>5 DEF Throws, StartThrows, Main
  <2>2. job'.do # "end"
    BY <2>1 DEF Idle
  <2> QED
    BY <2>1, <2>2, NothingPassed
<1>6. CASE Serve \/ NotifyThrows \/ TerminationRequest
  BY <1>6 DEF Serve, NotifyThrows, TerminationRequest, Main
<1>7. CASE Finishes
  BY <1>7, GoneInDestructors
<1>8. CASE LoopStep
  BY <1>8, GoneInLoopStep
<1>9. CASE Threads \/ TesterRuns \/ UserActs \/ UNCHANGED vars
  <2>1. UNCHANGED <<job, pc, cursor>>
    BY <1>9 DEF Threads, RunEnds, TesterRuns, UserActs, Stay, daemonVars, loopVars, vars
  <2>2. UNCHANGED threads \/ (~Ended /\ \E loop : Moves(loop, "running", "ended"))
    BY <1>9 DEF Threads, RunEnds, TesterRuns, TesterLoops, UserActs, Runs, Ends, Moves, State, loopVars, vars
  <2>3. CASE UNCHANGED threads
    BY <2>1, <2>3 DEF Passed, Gone
  <2>4. ASSUME ~Ended, NEW loop, Moves(loop, "running", "ended")
        PROVE  GoneInv'
    <3>1. /\ DOMAIN threads' = DOMAIN threads
          /\ \A l \in DOMAIN threads : Gone(l) => Gone(l)'
      BY <2>4 DEF Moves, Gone
    <3> QED
      BY <2>1, <2>4, <3>1 DEF Passed, Ended
  <2> QED
    BY <2>2, <2>3, <2>4
<1> QED
  BY <1>2, <1>3, <1>4, <1>5, <1>6, <1>7, <1>8, <1>9 DEF Next, MainThread, Begins, Works

LEMMA DaemonStarts == Init => DaemonInv
<1> SUFFICES ASSUME Init PROVE DaemonInv
  OBVIOUS
<1>1. /\ pc = "options" /\ loops = << >> /\ started = << >> /\ threads = << >> /\ job = Idle
  BY DEF Init, LoopsInit
<1>2. LoopsInv
  BY <1>1, EmptyList DEF LoopsInv
<1>3. JobInv
  <2>1. Within(0, << >>)
    BY NothingWithin
  <2> QED
    BY <1>1, <2>1, EmptyList DEF JobInv, JobFormed, JobWhere, Idle
<1>4. ThreadsInv /\ GoneInv
  BY <1>1, EmptyList DEF ThreadsInv, GoneInv
<1> QED
  BY <1>2, <1>3, <1>4, InjectorStarts DEF DaemonInv

LEMMA DaemonKeeps ==
  ASSUME DaemonInv, [Next]_vars
  PROVE  DaemonInv'
BY InjectorKeeps, LoopsStep, JobFormedKeeps, JobWhereKeeps, ThreadsKeep, GoneKeeps DEF DaemonInv, JobInv

(* The invariant of the daemon: its objects and frames, its loops and      *)
(* threads, and where the main thread is among them.                       *)
THEOREM DaemonInvariance == Spec => []DaemonInv
<1>1. Init => DaemonInv
  BY DaemonStarts
<1>2. DaemonInv /\ [Next]_vars => DaemonInv'
  BY DaemonKeeps
<1> QED
  BY <1>1, <1>2, PTL DEF Spec

(* Whatever the options, the configuration and the classes are, no thread  *)
(* of a loop is left running or unjoined when main() returns, but those    *)
(* whose join has been given up.                                           *)
THEOREM NobodyIsLeftBehind == Spec => []NobodyLeftBehind
<1>1. DaemonInv => NobodyLeftBehind
  BY DEF DaemonInv, GoneInv, Gone, NobodyLeftBehind
<1> QED
  BY <1>1, DaemonInvariance, PTL

(***************************************************************************)
(* What the threads run, and what is told about them                       *)
(***************************************************************************)

(* The runnable of a loop is finished, and is no runner. *)
Finished(r, i) == objects[LoopsOf(r)[i]].done

(* Unless a key refers to a runner, a runner is created for its own sake,  *)
(* and whatever it starts has been finished before.                        *)
RunnersAtBottom == \A i \in DOMAIN stack : IsRunner(stack[i].object) => i = 1

FinishedInv ==
  NobodyRefersToRunners =>
    /\ RunnersAtBottom
    /\ \A loop \in DOMAIN threads : Finished(loop[1], loop[2])
    /\ job.do = "start" => \A k \in DOMAIN job.left : Finished(job.runner, job.left[k])

LEMMA FinishedStays ==
  ASSUME InjectorInv, LoopsInv, [Next]_vars, NEW r, NEW i \in DOMAIN LoopsOf(r), Finished(r, i)
  PROVE  Finished(r, i)'
<1>1. LoopsOf(r)'[i] = LoopsOf(r)[i]
  BY LoopsStep
<1>2. PICK o : o = LoopsOf(r)[i]
  OBVIOUS
<1>3. o \in DOMAIN objects /\ objects[o].done
  BY <1>2, LoopsListed DEF Finished
<1>4. objects'[o].done
  BY <1>3, ObjectsStay
<1> QED
  BY <1>1, <1>2, <1>4 DEF Finished

(* Nothing is under construction: everything is finished. *)
LEMMA AllFinished ==
  ASSUME InjectorInv, LoopsInv, stack = << >>, ~Unwound, NEW r, NEW i \in DOMAIN LoopsOf(r)
  PROVE  Finished(r, i)
<1>1. UnderConstruction = {}
  BY EmptyList DEF UnderConstruction
<1> QED
  BY <1>1, LoopsListed DEF InjectorInv, RefInv, Finished

(* Only a runner is under construction: its loops are finished. *)
LEMMA LoopsFinished ==
  ASSUME InjectorInv, LoopsInv, RunnersAtBottom, InFrame, NEW i \in DOMAIN LoopsOf(Frame.object)
  PROVE  Finished(Frame.object, i)
<1>1. PICK r : r = Frame.object
  OBVIOUS
<1>2. r \in DOMAIN loops
  BY <1>1, LoopsListed
<1>3. IsRunner(r)
  BY <1>2 DEF LoopsInv
<1>4. Len(stack) \in DOMAIN stack /\ Frame = stack[Len(stack)] /\ DOMAIN stack = 1..Len(stack) /\ Len(stack) \in Nat
  BY FrameObject, ListDomain DEF InFrame, InjectorInv, Formed
<1>5. Len(stack) = 1
  BY <1>1, <1>3, <1>4 DEF RunnersAtBottom
<1>6. UnderConstruction = {r}
  BY <1>1, <1>4, <1>5 DEF UnderConstruction
<1>7. ~Unwound
  BY DEF InjectorInv, PhaseInv, InFrame, Unwound
<1>8. LoopsOf(r)[i] \in DOMAIN objects /\ LoopsOf(r)[i] # r
  BY <1>1, <1>3, LoopsListed
<1> QED
  BY <1>1, <1>6, <1>7, <1>8 DEF InjectorInv, RefInv, Finished

(* What an instance refers to is no runner, so none is created on the way. *)
LEMMA BottomKeeps ==
  ASSUME InjectorInv, NobodyRefersToRunners, RunnersAtBottom, [Next]_vars, UNCHANGED factory
  PROVE  RunnersAtBottom'
<1>1. \A k \in DOMAIN objects : IsRunner(k)' <=> IsRunner(k)
  BY ObjectsStay DEF IsRunner
<1>2. \A i \in DOMAIN stack : stack[i].object \in DOMAIN objects
  BY DEF InjectorInv, StackInv
<1>3. ASSUME DOMAIN stack' \subseteq DOMAIN stack,
             \A i \in DOMAIN stack' : stack'[i].object = stack[i].object
      PROVE  RunnersAtBottom'
  BY <1>1, <1>2, <1>3 DEF RunnersAtBottom
<1>4. ASSUME NEW name, Creating(name) PROVE RunnersAtBottom'
  <2> PICK n : n = Len(objects) + 1
    OBVIOUS
  <2> PICK d : d = Len(stack) + 1
    OBVIOUS
  <2>1. /\ objects'[n] = Object(name)
        /\ Len(stack) \in Nat /\ DOMAIN stack = 1..Len(stack) /\ DOMAIN stack' = 1..d
        /\ \A i \in DOMAIN stack : stack'[i] = stack[i]
        /\ stack'[d] = [name |-> name, object |-> n, next |-> 1]
    BY <1>4, Pushed DEF Creating, InjectorInv
  <2>2. \A i \in DOMAIN stack' : i \in DOMAIN stack \/ (i = d /\ stack'[i].object = n)
    BY <2>1
  <2>3. CASE stack = << >>
    <3>1. d = 1
      BY <2>3, EmptyList
    <3> QED
      BY <1>1, <1>2, <2>1, <2>2, <3>1 DEF RunnersAtBottom
  <2>4. CASE HasKey /\ Key.kind = "ref" /\ name = ResolveAlias(Key.value)
    <3> PICK key : key = Key
      OBVIOUS
    <3>1. PICK on : on = Frame.name
      OBVIOUS
    <3>2. on \in Instances
      <4>1. stack # << >>
        BY <2>4 DEF HasKey, InFrame
      <4> QED
        BY <3>1, <4>1, FrameObject DEF InjectorInv, StackInv
    <3>3. \E i \in DOMAIN ResolveKeys(on) : key = ResolveKeys(on)[i]
      BY <2>4, <3>1 DEF HasKey, Key, Keys
    <3>4. Instance(name).class # "LoopRunner"
      BY <1>4, <2>4, <3>2, <3>3, Zenon DEF NobodyRefersToRunners, RefersToRunner, Creating
    <3>5. ~IsRunner(n)'
      BY <2>1, <3>4 DEF IsRunner, Object
    <3> QED
      BY <1>1, <1>2, <2>1, <2>2, <3>5 DEF RunnersAtBottom
  <2> QED
    BY <1>4, <2>3, <2>4 DEF Creating
<1>5. ASSUME NEW value, Setting(value) PROVE RunnersAtBottom'
  BY <1>3, <1>5, Injected DEF Setting, InjectorInv
<1>6. CASE Passing
  BY <1>3, <1>6, NextFrame DEF Passing, InjectorInv
<1>7. CASE Finishing
  <2>1. /\ Len(stack) \in Nat \ {0} /\ DOMAIN stack = 1..Len(stack)
        /\ DOMAIN stack' = 1..Len(stack) - 1
        /\ \A i \in DOMAIN stack' : stack'[i] = stack[i]
    BY <1>7, Popped DEF Finishing, InjectorInv
  <2> QED
    BY <1>3, <2>1
<1>8. CASE Throwing
  BY <1>8, EmptyList DEF Throwing, Unwind, RunnersAtBottom
<1>9. CASE Quiet \/ Initialize
  BY <1>3, <1>9 DEF Quiet, injectorVars, Initialize
<1> QED
  BY <1>4, <1>5, <1>6, <1>7, <1>8, <1>9, Kinds

(* How the main thread comes to be in start(), or stays there. *)
LEMMA InStart ==
  ASSUME JobFormed, [Next]_vars, job'.do = "start"
  PROVE  \/ job' = job /\ UNCHANGED threads
         \/ job' = job /\ \E loop : Moves(loop, "running", "ended")
         \/ LoopStep /\ StartLoop /\ job.do = "start" /\ job.left # << >>
         \/ RunnerCreated
         \/ CallAutoStart
<1>1. job' # Idle /\ \A what, r, l : Do(what, r, l) => what = "start"
  BY DEF Idle, Do
<1>2. CASE Begins
  BY <1>2 DEF Begins, Prepares, ProcessOption, RejectOption, Initialize, GiveUp, PrintHelp, TooOldPoco, loopVars,
     StartRunner, CreateEarly, EarlyDone, CreateRunner
<1>3. CASE Works
  BY <1>1, <1>3 DEF Works, Inject, AddRunnable, HookReturns, Throws, Serve, NotifyThrows, Stop, StartThrows, loopVars
<1>4. CASE Finishes \/ TerminationRequest
  BY <1>1, <1>4 DEF Finishes, StopReturns, DestroyRunner, RunnerDestroyed, DestroyLoops, DestroyObject, MainReturns,
     TerminationRequest, Stop, loopVars
<1>5. CASE LoopStep
  <2>1. CASE StartFails
    BY <1>1, <2>1 DEF StartFails
  <2>2. CASE NothingToStop \/ Join \/ JoinTimesOut(BlockedObjects)
    BY <2>2, Advanced DEF NothingToStop, Join, JoinTimesOut, Stopping, InJob
  <2>3. CASE AskToStop
    <3> PICK yes : yes = TRUE
      OBVIOUS
    <3>1. job' = [job EXCEPT !.asked = yes]
      BY <2>3, Zenon DEF AskToStop
    <3>2. job'.do = job.do
      BY <3>1 DEF JobFormed
    <3> QED
      BY <2>3, <3>2 DEF AskToStop, Stopping, InJob
  <2>4. CASE StartLoop
    BY <1>5, <2>4 DEF StartLoop, InJob
  <2> QED
    BY <1>5, <2>1, <2>2, <2>3, <2>4 DEF LoopStep
<1>6. CASE Threads
  BY <1>6 DEF Threads, RunEnds, Runs, Ends, Moves, State
<1>7. CASE TesterRuns
  BY <1>7 DEF TesterRuns, TesterLoops, Runs, Ends, Moves, State
<1>8. CASE UserActs \/ UNCHANGED vars
  BY <1>8 DEF UserActs, vars, loopVars
<1> QED
  BY <1>2, <1>3, <1>4, <1>5, <1>6, <1>7, <1>8 DEF Next, MainThread

(* The configuration alone says what a name stands for. *)
LEMMA ResolvedByFactory ==
  ASSUME factory' = factory
  PROVE  /\ Instances' = Instances
         /\ \A name : Instance(name)' = Instance(name)
         /\ \A name : ResolveKeys(name)' = ResolveKeys(name)
         /\ \A name : ResolveAlias(name)' = ResolveAlias(name)
<1>1. Instances' = Instances
  BY Zenon DEF Instances
<1>2. \A name : Instance(name)' = Instance(name)
  BY Zenon DEF Instance
<1>3. \A name : ResolveKeys(name)' = ResolveKeys(name)
  BY Zenon DEF ResolveKeys, Instance
<1>4. ASSUME NEW name PROVE ResolveAlias(name)' = ResolveAlias(name)
  BY DEF ResolveAlias, Aliased
<1> QED
  BY <1>1, <1>2, <1>3, <1>4

LEMMA FinishedKeeps ==
  ASSUME DaemonInv, FinishedInv, [Next]_vars
  PROVE  FinishedInv'
<1> USE DEF DaemonInv, JobInv
<1>1. CASE Initialize
  <2>1. /\ stack' = << >> /\ DOMAIN threads' = {} /\ job'.do = "none"
    BY <1>1 DEF Initialize, OptionsDone, Main, loopVars, GoneInv, JobWhere, InjectorInv, PhaseInv
  <2> QED
    BY <2>1, EmptyList DEF FinishedInv, RunnersAtBottom
<1>2. CASE UNCHANGED factory
  <2>1. NobodyRefersToRunners' <=> NobodyRefersToRunners
    <3>1. factory' = factory
      BY <1>2
    <3>2. Instances' = Instances /\ \A name : ResolveKeys(name)' = ResolveKeys(name)
      BY <3>1, ResolvedByFactory
    <3>3. /\ \A name : Instance(name)' = Instance(name)
          /\ \A name : ResolveAlias(name)' = ResolveAlias(name)
      BY <3>1, ResolvedByFactory
    <3>4. \A key : RefersToRunner(key)' <=> RefersToRunner(key)
      BY <3>2, <3>3 DEF RefersToRunner, CanCreate
    <3> QED
      BY <3>2, <3>4 DEF NobodyRefersToRunners
  <2> SUFFICES ASSUME NobodyRefersToRunners
               PROVE  /\ RunnersAtBottom'
                      /\ \A loop \in DOMAIN threads' : Finished(loop[1], loop[2])'
                      /\ job'.do = "start" => \A k \in DOMAIN job'.left : Finished(job.runner, job.left[k])'
    BY <2>1 DEF FinishedInv
  <2>2. RunnersAtBottom'
    BY <1>2, BottomKeeps DEF FinishedInv
  <2>3. \A r : \A i \in DOMAIN LoopsOf(r) : Finished(r, i) => Finished(r, i)'
    BY FinishedStays
  <2>4. ASSUME NEW loop \in DOMAIN threads PROVE Finished(loop[1], loop[2])'
    <3>1. loop[2] \in DOMAIN LoopsOf(loop[1])
      BY ThreadOfLoop
    <3> QED
      BY <2>3, <3>1 DEF FinishedInv
  <2>5. ASSUME NEW loop \in DOMAIN threads' PROVE Finished(loop[1], loop[2])'
    <3>1. CASE loop \in DOMAIN threads
      BY <2>4, <3>1
    <3>2. CASE StartLoop /\ loop = Loop
      <4>1. job.do = "start" /\ job.left # << >>
        BY <3>2 DEF StartLoop, InJob
      <4>2. loop[1] = job.runner /\ loop[2] = job.left[1] /\ 1 \in DOMAIN job.left
        <5>1. Listed(job.left)
          BY DEF JobFormed, Within
        <5> QED
          BY <3>2, <4>1, <5>1, LoopListed, Tailed
      <4>3. loop[2] \in DOMAIN LoopsOf(loop[1]) /\ Finished(loop[1], loop[2])
        BY <4>1, <4>2 DEF FinishedInv, JobFormed, Within
      <4> QED
        BY <2>3, <4>3
    <3>3. loop \in DOMAIN threads \/ (StartLoop /\ loop = Loop)
      BY ThreadSteps DEF StartLoop, Insert, Moves
    <3> QED
      BY <3>1, <3>2, <3>3
  <2>6. ASSUME job'.do = "start", NEW k \in DOMAIN job'.left PROVE Finished(job.runner, job.left[k])'
    <3> PICK r : r = job'.runner
      OBVIOUS
    <3> PICK i : i = job'.left[k]
      OBVIOUS
    <3>1. i \in DOMAIN LoopsOf(r) /\ Finished(r, i)
      <4>1. CASE job' = job
        BY <2>6, <4>1 DEF FinishedInv, JobFormed, Within
      <4>2. CASE StartLoop /\ job.do = "start" /\ job.left # << >>
        <5>1. \E l \in DOMAIN job.left : i = job.left[l]
          BY <2>6, <4>2, Advanced DEF StartLoop
        <5>2. r = job.runner
          BY <4>2, Advanced DEF StartLoop
        <5> QED
          BY <4>2, <5>1, <5>2 DEF FinishedInv, JobFormed, Within
      <4>3. CASE RunnerCreated
        <5>1. PICK o : Start(o)
          BY <4>3 DEF RunnerCreated
        <5>2. r = o /\ job'.left = AllLoops(o)
          BY <5>1 DEF Start, Do
        <5>3. i \in DOMAIN LoopsOf(r)
          BY <2>6, <5>2, AllWithin DEF Within
        <5> QED
          BY <4>3, <5>3, AllFinished DEF RunnerCreated, Main, Unwound
      <4>4. CASE CallAutoStart
        <5>1. Start(Frame.object) /\ InFrame
          BY <4>4 DEF CallAutoStart, AutoStarts, AllInjected
        <5>2. r = Frame.object /\ job'.left = AllLoops(Frame.object)
          BY <5>1 DEF Start, Do
        <5>3. i \in DOMAIN LoopsOf(r)
          BY <2>6, <5>2, AllWithin DEF Within
        <5> QED
          BY <5>1, <5>2, <5>3, LoopsFinished DEF FinishedInv
      <4> QED
        BY <2>6, <4>1, <4>2, <4>3, <4>4, InStart
    <3>2. Finished(r, i)'
      BY <2>3, <3>1
    <3> QED
      BY <3>2 DEF Finished, LoopsOf
  <2> QED
    BY <2>2, <2>5, <2>6
<1>3. Initialize \/ UNCHANGED factory
  BY Kinds DEF Creating, Setting, Passing, Finishing, Created, Throwing, Unwind, Quiet, injectorVars
<1> QED
  BY <1>1, <1>2, <1>3

(* Whoever waits for --notify-started is told when start() has returned;   *)
(* while it has not, the loops without a thread are those that are left.   *)
AllRun == \A i \in DOMAIN LoopsOf(TheRunner) : <<TheRunner, i>> \in DOMAIN threads

ToldInv ==
  /\ exit \in {"none", "ok", "software", "config"}
  /\ pc \in {"options", "main", "early", "create", "start", "serve"} => exit = "none"
  /\ told => pc \in {"serve", "stop", "destroy", "exited"} /\ exit \in {"none", "ok"} /\ AllRun
  /\ pc = "start" /\ job.do = "start" =>
       /\ job.runner = TheRunner
       /\ \A i \in DOMAIN LoopsOf(TheRunner) : i \in Range(job.left) \/ <<TheRunner, i>> \in DOMAIN threads

(* Once it has been created, it is clear which runner is meant. *)
LEMMA SameRunner ==
  ASSUME UNCHANGED <<factory, set, options>>
  PROVE  TheRunner' = TheRunner
<1>1. factory' = factory /\ set' = set /\ options' = options
  OBVIOUS
<1>2. RunnerName' = RunnerName
  BY <1>1 DEF RunnerName
<1>3. \A name : Aliased(name)' = Aliased(name) /\ ResolveAlias(name)' = ResolveAlias(name)
  BY <1>1, ResolvedByFactory, Zenon DEF Aliased
<1>4. \A name : Reused(name)' = Reused(name)
  BY <1>1, <1>3 DEF Reused
<1>5. Reused(RunnerName)' = Reused(RunnerName)
  BY <1>2, <1>4
<1> QED
  BY <1>5, Zenon DEF TheRunner

LEMMA OptionsStay ==
  ASSUME [Next]_vars, pc # "options"
  PROVE  options' = options
<1>1. CASE Begins
  BY <1>1 DEF Begins, Prepares, ProcessOption, RejectOption, Initialize, GiveUp, PrintHelp, TooOldPoco,
     StartRunner, CreateEarly, EarlyDone, CreateRunner, RunnerCreated, Main, Leave, Stay, daemonVars, optionVars
<1>2. CASE Works \/ TerminationRequest
  BY <1>2 DEF Works, Inject, CallAutoStart, HookReturns, Throws, Serve, NotifyThrows, StartThrows,
     TerminationRequest, Main, Stay, daemonVars, optionVars
<1>3. CASE Finishes
  BY <1>3 DEF Finishes, StopReturns, DestroyRunner, RunnerDestroyed, DestroyObject, MainReturns,
     Main, Leave, Stay, daemonVars, optionVars
<1>4. CASE LoopStep \/ Threads \/ TesterRuns \/ UserActs \/ UNCHANGED vars
  BY <1>4 DEF LoopStep, Threads, TesterRuns, UserActs, vars, Stay, daemonVars, optionVars
<1> QED
  BY <1>1, <1>2, <1>3, <1>4 DEF Next, MainThread

(* When nothing is injected any more, the runner keeps its loops, and they *)
(* keep their threads.                                                     *)
LEMMA RunnerStays ==
  ASSUME DaemonInv, [Next]_vars, pc \in {"start", "serve", "stop", "destroy", "exited"}
  PROVE  /\ TheRunner' = TheRunner
         /\ \A r : LoopsOf(r)' = LoopsOf(r)
         /\ DOMAIN threads \subseteq DOMAIN threads'
         /\ AllRun => AllRun'
<1>1. stack = << >>
  BY DEF DaemonInv, InjectorInv, PhaseInv
<1>2. UNCHANGED <<factory, set>>
  BY <1>1, Kinds DEF DaemonInv, Initialize, OptionsDone, Main, Creating, Setting, Passing, Finishing, Throwing, Unwind,
     Quiet, injectorVars
<1>3. TheRunner' = TheRunner
  BY <1>2, OptionsStay, SameRunner
<1>4. \A r : LoopsOf(r)' = LoopsOf(r)
  BY <1>1, LoopsStep DEF HasKey, InFrame, LoopsOf, DaemonInv
<1>5. DOMAIN threads \subseteq DOMAIN threads'
  BY ThreadSteps DEF StartLoop, Insert, Moves
<1>6. AllRun => AllRun'
  <2>1. LoopsOf(TheRunner)' = LoopsOf(TheRunner)
    BY <1>3, <1>4
  <2> QED
    BY <1>3, <1>5, <2>1 DEF AllRun
<1> QED
  BY <1>3, <1>4, <1>5, <1>6

(* start() of the runner has one loop less left, which has its thread.     *)
LEMMA ToldInLoopStep ==
  ASSUME DaemonInv, ToldInv, LoopStep
  PROVE  ToldInv'
<1> USE DEF DaemonInv, JobInv
<1>1. UNCHANGED <<pc, told, exit>> /\ [Next]_vars
  BY DEF LoopStep, Stay, daemonVars, Next, MainThread
<1>2. pc \in {"serve", "stop", "destroy", "exited"} => (AllRun => AllRun')
  BY <1>1, RunnerStays
<1>3. ASSUME pc = "start", job'.do = "start"
      PROVE  /\ job'.runner = TheRunner'
             /\ \A i \in DOMAIN LoopsOf(TheRunner)' :
                  i \in Range(job.left)' \/ <<TheRunner', i>> \in DOMAIN threads'
  <2>1. PICK r : r = TheRunner
    OBVIOUS
  <2>2. /\ TheRunner' = r /\ LoopsOf(TheRunner)' = LoopsOf(r)
        /\ DOMAIN threads \subseteq DOMAIN threads'
    BY <1>1, <1>3, <2>1, RunnerStays
  <2>3. CASE job' = job
    <3>1. Range(job.left)' = Range(job.left)
      BY <2>3 DEF Range
    <3> QED
      BY <1>3, <2>1, <2>2, <2>3, <3>1 DEF ToldInv
  <2>4. CASE StartLoop /\ job.do = "start" /\ job.left # << >>
    <3>1. /\ job.runner = r
          /\ \A i \in DOMAIN LoopsOf(r) : i \in Range(job.left) \/ <<r, i>> \in DOMAIN threads
      BY <1>3, <2>1, <2>4 DEF ToldInv
    <3>2. /\ job'.runner = r
          /\ Len(job.left) \in Nat /\ DOMAIN job.left = 1..Len(job.left)
          /\ DOMAIN job'.left = 1..Len(job.left) - 1
          /\ \A k \in DOMAIN job'.left : job'.left[k] = job.left[k + 1]
      BY <2>4, <3>1, Advanced DEF StartLoop
    <3>3. \A k \in DOMAIN job.left : k = 1 \/ (k - 1 \in DOMAIN job'.left /\ job'.left[k - 1] = job.left[k])
      <4>1. \A k \in 1..Len(job.left) : k = 1 \/ (k - 1 \in 1..Len(job.left) - 1 /\ (k - 1) + 1 = k)
        BY <3>2
      <4> QED
        BY <3>2, <4>1
    <3>4. \A i \in Range(job.left) : i = job.left[1] \/ i \in Range(job.left)'
      BY <3>3 DEF Range
    <3>5. <<r, job.left[1]>> \in DOMAIN threads'
      BY <2>4, <3>1, LoopListed DEF StartLoop, Insert
    <3> QED
      BY <2>2, <3>1, <3>2, <3>4, <3>5
  <2>5. ~RunnerCreated /\ ~CallAutoStart
    <3>1. job.left # << >>
      BY DEF LoopStep, StartLoop, StartFails, NothingToStop, AskToStop, Join, JoinTimesOut, Stopping, InJob
    <3>2. CASE CallAutoStart
      BY <3>1, <3>2 DEF CallAutoStart, Idle
    <3>3. CASE RunnerCreated
      BY <1>3, <3>3 DEF RunnerCreated, Main
    <3> QED
      BY <3>2, <3>3
  <2> QED
    BY <1>3, <1>1, <2>3, <2>4, <2>5, InStart
<1> QED
  BY <1>1, <1>2, <1>3 DEF ToldInv

LEMMA ToldKeeps ==
  ASSUME DaemonInv, ToldInv, [Next]_vars
  PROVE  ToldInv'
<1> USE DEF DaemonInv, JobInv
<1>0. /\ stack # << >> => pc \in {"early", "create"}
      /\ pc \in {"start", "serve", "stop", "destroy", "exited"} => (AllRun => AllRun')
  BY RunnerStays DEF InjectorInv, PhaseInv
<1>1. CASE Prepares \/ StartRunner \/ CreateEarly \/ EarlyDone \/ CreateRunner
  <2>1. /\ UNCHANGED told /\ pc \in {"options", "main", "early", "create"}
        /\ pc' \in {"options", "main", "early", "create", "exited"}
        /\ \/ pc' = "exited" /\ exit' \in {"ok", "software", "config"}
           \/ UNCHANGED exit
    BY <1>1 DEF Prepares, ProcessOption, RejectOption, Initialize, GiveUp, PrintHelp, TooOldPoco, OptionsDone,
       StartRunner, CreateEarly, EarlyDone, CreateRunner, Main, Leave, Stay, daemonVars
  <2>2. pc' = "exited" \/ UNCHANGED exit
    BY <2>1
  <2> QED
    BY <2>1, <2>2 DEF ToldInv
<1>2. CASE RunnerCreated
  <2>1. PICK o \in Reused(RunnerName) : Start(o)
    BY <1>2 DEF RunnerCreated
  <2>2. TheRunner = o
    BY <2>1 DEF TheRunner, Reused
  <2>3. /\ pc = "create" /\ pc' = "start" /\ UNCHANGED <<told, exit, factory, set, options, loops>>
        /\ job'.runner = o /\ job'.left = AllLoops(o)
    BY <1>2, <2>1 DEF RunnerCreated, Main, injectorVars, optionVars, Start, Do
  <2>4. TheRunner' = o /\ LoopsOf(TheRunner)' = LoopsOf(o)
    BY <2>2, <2>3, SameRunner DEF LoopsOf
  <2>5. DOMAIN AllLoops(o) = DOMAIN LoopsOf(o) /\ \A i \in DOMAIN LoopsOf(o) : AllLoops(o)[i] = i
    BY AllWithin DEF AllLoops
  <2>6. \A i \in DOMAIN LoopsOf(o) : i \in Range(job.left)'
    BY <2>3, <2>5 DEF Range
  <2> QED
    BY <2>3, <2>4, <2>6 DEF ToldInv
<1>3. CASE Inject \/ CallAutoStart \/ HookReturns
  <2>1. InFrame
    BY <1>3 DEF Inject, AddRunnable, InjectValue, SkipKey, InjectRef, CreateRef, HasKey,
       CallAutoStart, AutoStarts, HookReturns, AllInjected
  <2>2. UNCHANGED <<pc, told, exit>> /\ pc \in {"early", "create"}
    BY <1>0, <1>3, <2>1 DEF InFrame, Inject, CallAutoStart, HookReturns, Stay, daemonVars
  <2> QED
    BY <2>2 DEF ToldInv
<1>4. CASE Throws
  BY <1>4 DEF Throws, Main, ToldInv
<1>5. CASE Serve
  <2>1. /\ pc = "start" /\ pc' = "serve" /\ UNCHANGED exit /\ job.do = "start" /\ job.left = << >>
        /\ job' = Idle
    BY <1>5 DEF Serve, JobDone
  <2>2. Range(job.left) = {}
    BY <2>1, EmptyList DEF Range
  <2>3. AllRun
    BY <2>1, <2>2 DEF ToldInv, AllRun
  <2> QED
    BY <1>0, <2>1, <2>3 DEF ToldInv
<1>6. CASE NotifyThrows \/ StartThrows
  BY <1>6 DEF NotifyThrows, StartThrows, Main, ToldInv
<1>7. CASE TerminationRequest
  BY <1>0, <1>7 DEF TerminationRequest, Main, ToldInv
<1>8. CASE Finishes
  <2>1. /\ pc \in {"stop", "destroy"} /\ pc' \in {"destroy", "exited"} /\ UNCHANGED told
        /\ UNCHANGED exit \/ (exit = "none" /\ exit' = "ok")
    BY <1>8 DEF Finishes, StopReturns, DestroyRunner, RunnerDestroyed, DestroyObject, MainReturns, Main, Leave,
       Stay, daemonVars
  <2> QED
    BY <1>0, <2>1 DEF ToldInv
<1>9. CASE LoopStep
  BY <1>9, ToldInLoopStep
<1>10. CASE Threads \/ TesterRuns \/ UserActs \/ UNCHANGED vars
  <2>1. UNCHANGED <<pc, told, exit, job>>
    BY <1>10 DEF Threads, RunEnds, TesterRuns, UserActs, Stay, daemonVars, loopVars, vars
  <2>2. ASSUME pc = "start", job.do = "start"
        PROVE  /\ job'.runner = TheRunner'
               /\ \A i \in DOMAIN LoopsOf(TheRunner)' :
                    i \in Range(job.left)' \/ <<TheRunner', i>> \in DOMAIN threads'
    <3>1. PICK r : r = TheRunner
      OBVIOUS
    <3>2. /\ TheRunner' = r /\ LoopsOf(TheRunner)' = LoopsOf(r)
          /\ DOMAIN threads \subseteq DOMAIN threads'
      BY <2>2, <3>1, RunnerStays
    <3>3. Range(job.left)' = Range(job.left)
      BY <2>1 DEF Range
    <3> QED
      BY <2>1, <2>2, <3>1, <3>2, <3>3 DEF ToldInv
  <2> QED
    BY <1>0, <2>1, <2>2 DEF ToldInv
<1> QED
  BY <1>1, <1>2, <1>3, <1>4, <1>5, <1>6, <1>7, <1>8, <1>9, <1>10 DEF Next, MainThread, Begins, Works

(* The injector and the daemon are wired as they should be, whatever the   *)
(* options, the configuration and the classes are.                         *)
THEOREM WiringHolds == Spec => []Wiring
<1> DEFINE Inv == DaemonInv /\ FinishedInv /\ ToldInv
<1>1. Init => Inv
  <2> SUFFICES ASSUME Init PROVE Inv
    OBVIOUS
  <2>1. /\ pc = "options" /\ exit = "none" /\ told = FALSE /\ stack = << >> /\ threads = << >> /\ job = Idle
    BY DEF Init, InjectorInit, LoopsInit
  <2>2. FinishedInv
    BY <2>1, EmptyList DEF FinishedInv, RunnersAtBottom, Idle
  <2>3. ToldInv
    BY <2>1 DEF ToldInv
  <2> QED
    BY <2>2, <2>3, DaemonStarts
<1>2. Inv /\ [Next]_vars => Inv'
  BY DaemonKeeps, FinishedKeeps, ToldKeeps
<1>3. Inv => Wiring
  <2> SUFFICES ASSUME Inv PROVE Wiring
    OBVIOUS
  <2> USE DEF DaemonInv, InjectorInv
  <2>1. \A object \in DOMAIN objects : objects[object].done /\ ~Unwound =>
          \A prop \in RefsOf(object) : objects[prop.value].done \/ prop.value \in UnderConstruction
    BY DEF RefInv
  <2>2. NobodyRefersToRunners => \A loop \in DOMAIN threads : objects[Runnable(loop)].done
    BY DEF FinishedInv, Finished, Runnable
  <2>3. told => exit # "software" /\ \A i \in Range(AllLoops(TheRunner)) : <<TheRunner, i>> \in DOMAIN threads
    <3>1. \A i \in Range(AllLoops(TheRunner)) : i \in DOMAIN LoopsOf(TheRunner)
      BY AllWithin DEF Range, AllLoops
    <3> QED
      BY <3>1 DEF ToldInv, AllRun
  <2> QED
    BY <2>1, <2>2, <2>3 DEF Wiring, PhaseInv, ToldInv, StackInv, SetInv, EarlyInv
<1> HIDE DEF Inv
<1> QED
  BY <1>1, <1>2, <1>3, PTL DEF Spec
=============================================================================
