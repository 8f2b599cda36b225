------------------------------- MODULE Daemon --------------------------------
(***************************************************************************)
(* DIDaemon: the main thread handles the options of the command line,      *)
(* reads the configuration, lets the injector create the runner and what   *)
(* it needs, starts its loops, tells the process that waits for this,      *)
(* waits for a termination request, stops the loops and destroys           *)
(* everything.  The threads of the loops run besides it.                   *)
(***************************************************************************)
EXTENDS Loops, TestingCenter

CONSTANTS Directories, \* what the directory config.d may hold
          Lines        \* command lines: sequences of [name, key, value]

VARIABLES pc,      \* where the main thread is
          files,   \* config.d
          cursor,  \* the next early instance, the next object to destroy
          told,    \* the process of --notify-started has got its signal
          exit,    \* what up() returns, "none" before
          argv,    \* the options that are left
          seen,    \* the names of those that have been handled
          options  \* what they have set; loaded: by the file of --config

optionVars == <<argv, seen, options>>
daemonVars == <<pc, files, cursor, told, exit, optionVars>>
vars == <<daemonVars, injectorVars, loopVars, testingVars>>

(* The command line.  Poco hands over one option after the other, until    *)
(* --help or --version stops it, and throws at an option that is unknown   *)
(* or comes twice.  Of the configuration they fill this is what the daemon *)
(* reads: the runner and the process to tell.                              *)
Repeatable ==
  [help |-> FALSE, version |-> FALSE, debugStartup |-> FALSE,
   define |-> TRUE, config |-> FALSE, notifyStarted |-> FALSE]

OptionsInit ==
  /\ argv \in Lines /\ seen = {}
  /\ options = [help |-> FALSE, version |-> FALSE, defined |-> "none", loaded |-> "none", pid |-> "none"]

HandleHelp == [options EXCEPT !.help = TRUE]
HandleVersion == [options EXCEPT !.version = TRUE]

(* --define <key>=<value>: what was set before is overridden. *)
HandleDefine(key, value) ==
  CASE key = "application.di.runner"    -> [options EXCEPT !.defined = value]
    [] key = "di.daemon.notify.started" -> [options EXCEPT !.pid = value]
    [] OTHER                            -> options

(* The file is a layer below what is set by hand. *)
HandleConfig(value) == [options EXCEPT !.loaded = value]

(* The binding of --notify-started. *)
NotifyOption(value) == HandleDefine("di.daemon.notify.started", value)

Stopped == options.help \/ options.version
OptionsDone == Stopped \/ argv = <<>>

Rejected(option) ==
  \/ option.name \notin DOMAIN Repeatable
  \/ option.name \in seen /\ ~Repeatable[option.name]
  \/ option.name = "config" /\ option.value = "missing"

HandleOption ==
  /\ ~OptionsDone /\ ~Rejected(Head(argv))
  /\ LET option == Head(argv)
     IN  /\ options' = CASE option.name = "help"          -> HandleHelp
                         [] option.name = "version"       -> HandleVersion
                         [] option.name = "debugStartup"  -> options
                         [] option.name = "define"        -> HandleDefine(option.key, option.value)
                         [] option.name = "config"        -> HandleConfig(option.value)
                         [] option.name = "notifyStarted" -> NotifyOption(option.value)
         /\ seen' = seen \cup {option.name}
  /\ argv' = Tail(argv)

RunnerName ==
  IF options.defined # "none" THEN options.defined
  ELSE IF options.loaded # "none" THEN options.loaded ELSE "main"

Init ==
  /\ pc = "options" /\ files \in Directories
  /\ cursor = 1 /\ told = FALSE /\ exit = "none"
  /\ OptionsInit /\ InjectorInit /\ LoopsInit /\ TestingInit

Main(from, to) == pc = from /\ pc' = to /\ UNCHANGED <<files, told, optionVars>>

Leave(code) ==
  /\ pc' = "exited" /\ exit' = code
  /\ UNCHANGED <<files, cursor, told, optionVars>>

(* init(): Poco handles the options; what throws ends the daemon. *)
ProcessOption ==
  /\ pc = "options" /\ HandleOption
  /\ UNCHANGED <<pc, files, cursor, told, exit, injectorVars, loopVars, testingVars>>

RejectOption ==
  /\ pc = "options" /\ ~OptionsDone /\ Rejected(Head(argv)) /\ Leave("config")
  /\ UNCHANGED <<injectorVars, loopVars, testingVars>>

(* initialize() merges the files, whatever the options have asked for. *)
Initialize ==
  /\ OptionsDone /\ ~LoadFails(files) /\ Main("options", "main")
  /\ factory' = Explore(files)
  /\ UNCHANGED <<cursor, exit, objects, set, stack, loopVars, testingVars>>

(* up() catches what a broken file makes initialize() throw. *)
GiveUp ==
  /\ pc = "options" /\ OptionsDone /\ LoadFails(files) /\ Leave("software")
  /\ UNCHANGED <<injectorVars, loopVars, testingVars>>

(* main(): --help and --version end here. *)
PrintHelp ==
  /\ pc = "main" /\ Stopped /\ Leave("ok")
  /\ UNCHANGED <<injectorVars, loopVars, testingVars>>

(* testPocoCompatibility(): the library may be too old. *)
TooOldPoco ==
  /\ pc = "main" /\ ~Stopped /\ Leave("software")
  /\ UNCHANGED <<injectorVars, loopVars, testingVars>>

StartRunner ==
  /\ ~Stopped /\ Main("main", "early")
  /\ UNCHANGED <<cursor, exit, injectorVars, loopVars, testingVars>>

Stay == UNCHANGED daemonVars

(* createEarly(), in the constructor of the injector: it does not look     *)
(* whether an earlier one has created the instance.                        *)
CreateEarly ==
  /\ pc = "early" /\ stack = <<>> /\ cursor \in DOMAIN EarlyNames
  /\ CanCreate(EarlyNames[cursor]) /\ CreateNoAlias(EarlyNames[cursor])
  /\ cursor' = cursor + 1
  /\ UNCHANGED <<pc, files, told, exit, optionVars, factory, loopVars, testingVars>>

EarlyDone ==
  /\ stack = <<>> /\ cursor \notin DOMAIN EarlyNames
  /\ Main("early", "create") /\ cursor' = 1
  /\ UNCHANGED <<exit, injectorVars, loopVars, testingVars>>

CreateRunner ==
  /\ pc = "create" /\ stack = <<>> /\ Reused(RunnerName) = {} /\ ~NotCreated(RunnerName)
  /\ CreateNoAlias(ResolveAlias(RunnerName))
  /\ Stay /\ UNCHANGED <<factory, loopVars, testingVars>>

TheRunner == CHOOSE object \in Reused(RunnerName) : TRUE

(* The runner is there, and it is a LoopRunner: start(). *)
RunnerCreated ==
  /\ stack = <<>> /\ \E object \in Reused(RunnerName) : IsRunner(object) /\ Start(object)
  /\ Main("create", "start")
  /\ UNCHANGED <<cursor, exit, injectorVars, loops, started, threads, stopped, testingVars>>

Inject ==
  /\ \/ AddRunnable
     \/ /\ InjectValue \/ SkipKey \/ (InjectRef /\ ~AddsRunnable) \/ CreateRef
        /\ UNCHANGED loopVars
  /\ Stay /\ UNCHANGED testingVars

(* The hook of an object that has its dependencies: a runner may start its *)
(* loops, others return or throw.                                          *)
AutoStarts == AllInjected /\ Hook = "autoStart" /\ AutoStart(Frame.object)

CallAutoStart ==
  /\ AutoStarts /\ job = Idle /\ Start(Frame.object)
  /\ Stay /\ UNCHANGED <<injectorVars, loops, started, threads, stopped, testingVars>>

HookReturns ==
  /\ AllInjected /\ Created
  /\ IF AutoStarts THEN JobDone("start") ELSE job = Idle
  /\ job' = Idle
  /\ Stay /\ UNCHANGED <<loops, started, threads, stopped, testingVars>>

(* An exception on the way.  While the injector is constructed there is    *)
(* nobody to destroy it; afterwards its destructor runs.                   *)
Throws ==
  /\ \/ Fails
     \/ AllInjected /\ Hook = "listen"
     \/ InFrame /\ JobDone("undo")
     \/ /\ pc = "early" /\ ~InFrame /\ cursor \in DOMAIN EarlyNames
        /\ ~CanCreate(EarlyNames[cursor])
     \/ pc = "create" /\ ~InFrame /\ NotCreated(RunnerName)
     \/ pc = "create" /\ ~InFrame /\ \E object \in Reused(RunnerName) : ~IsRunner(object)
  /\ \/ Main("early", "aborted") /\ exit' = "software" /\ UNCHANGED cursor
     \/ Main("create", "destroy") /\ cursor' = 1 /\ exit' = "software"
  /\ Unwind /\ job' = Idle
  /\ UNCHANGED <<loops, started, threads, stopped, testingVars>>

(* A process that is gone is told nothing, which is logged. *)
NotifyStarted == options.pid # "text" /\ told' \in {FALSE, options.pid = "number"}

(* startRunner() behind start(): notifyStarted(), then it waits. *)
Serve ==
  /\ JobDone("start") /\ pc = "start" /\ pc' = "serve" /\ job' = Idle
  /\ NotifyStarted
  /\ UNCHANGED <<files, cursor, exit, optionVars, injectorVars, loops, started, threads, stopped, testingVars>>

(* The number of the process is none: stop(), and the exception goes on. *)
NotifyThrows ==
  /\ JobDone("start") /\ options.pid = "text" /\ Main("start", "stop")
  /\ Stop(TheRunner) /\ exit' = "software"
  /\ UNCHANGED <<cursor, injectorVars, loops, started, threads, stopped, testingVars>>

StartThrows ==
  /\ JobDone("undo") /\ Main("start", "destroy") /\ job' = Idle
  /\ exit' = "software"
  /\ UNCHANGED <<cursor, injectorVars, loops, started, threads, stopped, testingVars>>

TerminationRequest ==
  /\ Main("serve", "stop") /\ Stop(TheRunner)
  /\ UNCHANGED <<cursor, exit, injectorVars, loops, started, threads, stopped, testingVars>>

StopReturns ==
  /\ JobDone("stop") /\ Main("stop", "destroy") /\ job' = Idle
  /\ started' = Insert(started, TheRunner, <<>>)
  /\ exit' = IF exit = "none" THEN "ok" ELSE exit
  /\ UNCHANGED <<cursor, injectorVars, loops, threads, stopped, testingVars>>

(* ~DependencyInjector(): the objects in the order of their creation; a    *)
(* runner stops what it has started, then its loops go.                    *)
DestroyRunner ==
  /\ pc = "destroy" /\ job = Idle /\ cursor <= Len(objects) /\ IsRunner(cursor)
  /\ Stop(cursor)
  /\ Stay /\ UNCHANGED <<injectorVars, loops, started, threads, stopped, testingVars>>

RunnerDestroyed ==
  /\ pc = "destroy"
  /\ \/ DestroyLoops /\ UNCHANGED cursor
     \/ JobDone("end") /\ job' = Idle /\ cursor' = cursor + 1
  /\ UNCHANGED <<pc, files, told, exit, optionVars, injectorVars, loops, started, threads, stopped, testingVars>>

DestroyObject ==
  /\ pc = "destroy" /\ job = Idle /\ cursor <= Len(objects) /\ ~IsRunner(cursor)
  /\ cursor' = cursor + 1
  /\ UNCHANGED <<pc, files, told, exit, optionVars, injectorVars, loopVars, testingVars>>

MainReturns ==
  /\ pc = "destroy" /\ job = Idle /\ cursor > Len(objects)
  /\ Leave(exit)
  /\ UNCHANGED <<injectorVars, loopVars, testingVars>>

Tester == {object \in DOMAIN objects : objects[object].class = "TestingCenter"}
BlockedObjects == IF Blocked THEN Tester ELSE {}

LoopStep ==
  /\ StartLoop \/ StartFails \/ NothingToStop \/ AskToStop \/ Join \/ JoinTimesOut(BlockedObjects)
  /\ Stay /\ UNCHANGED <<injectorVars, testingVars>>

Ended == pc \in {"exited", "aborted"}

(* The threads.  TestingCenter has one of them, when it is configured. *)
Threads == ~Ended /\ RunEnds /\ Stay /\ UNCHANGED <<injectorVars, testingVars>>

TesterLoops == {loop \in DOMAIN threads : Runs(loop, "console")}

TesterRuns ==
  /\ ~Ended
  /\ \E loop \in TesterLoops :
       LET stop == Runnable(loop) \in stopped
       IN  \/ (RunStarts \/ Thread(stop)) /\ UNCHANGED threads
           \/ tc = "ended" /\ Ends(loop) /\ UNCHANGED testingVars
  /\ Stay /\ UNCHANGED <<injectorVars, loops, started, stopped, job>>

UserActs ==
  /\ ~Ended /\ User /\ TesterLoops # {}
  /\ Stay /\ UNCHANGED <<injectorVars, loopVars>>

Prepares == ProcessOption \/ RejectOption \/ Initialize \/ GiveUp \/ PrintHelp \/ TooOldPoco
Begins == Prepares \/ StartRunner \/ CreateEarly \/ EarlyDone \/ CreateRunner \/ RunnerCreated
Works == Inject \/ CallAutoStart \/ HookReturns \/ Throws \/ Serve \/ NotifyThrows \/ StartThrows
Finishes == StopReturns \/ DestroyRunner \/ RunnerDestroyed \/ DestroyObject \/ MainReturns
MainThread == Begins \/ Works \/ Finishes \/ LoopStep

Next == MainThread \/ TerminationRequest \/ Threads \/ TesterRuns \/ UserActs

(* The threads go on; nobody has to connect, type or terminate anything.   *)
Fairness ==
  /\ WF_vars(MainThread)
  /\ WF_vars(Threads)
  /\ WF_vars(TesterRuns)

Spec == Init /\ [][Next]_vars /\ Fairness

(***************************************************************************)
(* Properties                                                              *)
(***************************************************************************)

UnderConstruction == {stack[i].object : i \in DOMAIN stack}
Unwound == pc \in {"destroy", "exited", "aborted"}

RefsOf(object) ==
  {prop \in Range(objects[object].props) :
     Methods(object)[prop.property] \notin {"int", "bool", "string", "char"}}

(* No key refers to a runner: no method takes one, yet the injector creates *)
(* it before it finds this out, and a runner may start its loops then.     *)
RefersToRunner(key) ==
  /\ key.kind = "ref" /\ CanCreate(ResolveAlias(key.value))
  /\ Instance(ResolveAlias(key.value)).class = "LoopRunner"

NobodyRefersToRunners ==
  \A name \in Instances : \A i \in DOMAIN ResolveKeys(name) : ~RefersToRunner(ResolveKeys(name)[i])

(* Types, and what the recursion of create() relies on: no instance is     *)
(* being created twice at a time, whatever cycle its references form; what *)
(* a finished instance refers to is finished or still waiting for it; a    *)
(* second instance of a name is an early one; no thread ever runs an       *)
(* instance that is not finished, unless it has a runner created on its    *)
(* way.  And who waits for --notify-started is told only when every loop   *)
(* of the runner has got its thread, and never by a daemon that then       *)
(* reports a failure.                                                      *)
Wiring ==
  /\ pc \in {"options", "main", "early", "create", "start", "serve", "stop", "destroy", "exited", "aborted"}
  /\ exit \in {"none", "ok", "software", "config"}
  /\ \A i, j \in DOMAIN stack : stack[i].name = stack[j].name => i = j
  /\ \A name \in DOMAIN set : objects[set[name]].name = name
  /\ \A object \in DOMAIN objects : objects[object].done /\ ~Unwound =>
       \A prop \in RefsOf(object) :
         objects[prop.value].done \/ prop.value \in UnderConstruction
  /\ \A object \in DOMAIN objects \ Range(set) :
       objects[object].name \in Range(EarlyNames)
  /\ NobodyRefersToRunners =>
       \A loop \in DOMAIN threads : objects[Runnable(loop)].done
  /\ told => exit # "software" /\ \A i \in Range(AllLoops(TheRunner)) : <<TheRunner, i>> \in DOMAIN threads

(* When main() returns, no thread runs any more but those that were given  *)
(* up because they waited for a user who did not come.  (When an early     *)
(* instance fails the constructor of the injector throws, its destructor   *)
(* never runs, and loops an earlier runner has started go on.)             *)
NobodyLeftBehind ==
  pc = "exited" =>
    \A loop \in DOMAIN threads : threads[loop] \in {"joined", "forgotten"}

(* The daemon serves or ends, whatever its options and files say; and it   *)
(* ends when something throws on the way, and when somebody asks for it,   *)
(* whatever the user of the console does.                                  *)
Terminates == pc \in {"options", "stop", "destroy"} ~> pc = "serve" \/ Ended
=============================================================================
