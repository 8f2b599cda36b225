--------------------------- MODULE CommandDispatch ---------------------------
(***************************************************************************)
(* The command path of the gateway (src/src/core): the owner of an         *)
(* AnswerQueue creates an Answer, lets the CommandDispatcher run every     *)
(* handler that accepts the command on a thread of the default pool, and   *)
(* waits on its queue for answers that changed.  The owner is TestingCenter *)
(* (its console actions "command" and "wait-queue"); it reports an answer  *)
(* and removes it from the queue once it is no longer pending.             *)
(*                                                                         *)
(* Threads: every owner, one pool thread per running command, and whoever  *)
(* holds a Result after its handler returned (the thread of ZMQBroker or   *)
(* of a timer) and sets its status late.                                   *)
(***************************************************************************)
EXTENDS Answers

CONSTANTS
  ResultCounts,  \* how many results a handler may create for one command
  Rewrites,      \* TRUE: a terminal status may be set a second time
  Throws,        \* TRUE: handle() may throw
  PoolSize,      \* the capacity of Poco::ThreadPool::defaultPool()
  Timeouts       \* the kinds of timeout the owners pass to wait()

ASSUME HandlerAssumption ==
  /\ ResultCounts \subseteq Nat
  /\ Rewrites \in BOOLEAN
  /\ Throws \in BOOLEAN
  /\ PoolSize \in Nat
  /\ "finite" \in Timeouts /\ Timeouts \subseteq {"zero", "finite", "infinite"}

VARIABLES
  task,        \* task[a][h]: the CommandRunner of handler h for answer a
  dispatcher,  \* who holds m_mutex of the CommandDispatcher
  pc,          \* pc[o]: where the owner is
  cur,         \* cur[o]: the answer of the command being dispatched, or None
  patience,    \* patience[o]: the timeout passed to wait(), during the call
  toScan,      \* toScan[o]: what listDirty() has not looked at yet
  found,       \* found[o]: the dirty list, from listDirty() until reported
  reported     \* reported[a]: the results the owner saw when it last reported a

ownerVars == <<pc, cur, patience, toScan, found, reported>>
vars == <<answerVars, task, dispatcher, ownerVars>>

TaskStates == {"none", "added", "running", "returned", "failed"}
Pcs == {"idle", "lock", "start", "report", "scan", "block", "handle"}

TypeOK ==
  /\ AnswersTypeOK
  /\ task \in [Answers -> [Handlers -> TaskStates]]
  /\ dispatcher \in Owners \cup {None}
  /\ pc \in [Owners -> Pcs]
  /\ cur \in [Owners -> Answers \cup {None}]
  /\ patience \in [Owners -> Timeouts]
  /\ toScan \in [Owners -> SUBSET Answers]
  /\ found \in [Owners -> SUBSET Answers]
  /\ reported \in [Answers -> Seq(ResultRecord)]

Init ==
  /\ AnswersInit
  /\ task = [a \in Answers |-> [h \in Handlers |-> "none"]]
  /\ dispatcher = None
  /\ pc = [o \in Owners |-> "idle"]
  /\ cur = [o \in Owners |-> None]
  /\ patience = [o \in Owners |-> "finite"]
  /\ toScan = [o \in Owners |-> {}]
  /\ found = [o \in Owners |-> {}]
  /\ reported = [a \in Answers |-> << >>]

Goto(o, from, to) ==
  /\ pc[o] = from
  /\ pc' = [pc EXCEPT ![o] = to]

(***************************************************************************)
(* The console action "command": create, dispatch, report.                 *)
(***************************************************************************)

NewCommand(o, a) ==
  /\ Goto(o, "idle", "lock")
  /\ Create(o, a)
  /\ cur' = [cur EXCEPT ![o] = a]
  /\ UNCHANGED <<task, dispatcher, patience, toScan, found, reported>>

(* dispatch(), up to the answer's lock: one addCommand() for each handler  *)
(* of the set H that accepts.  Nobody else can hold the lock of the answer *)
(* yet.  An answer without commands is not pending: notifyUpdated() makes  *)
(* it dirty and wakes the queue, and dispatch() returns.                   *)
DispatchCollect(o, H) ==
  LET a == cur[o] IN
  /\ pc[o] = "lock"
  /\ dispatcher = None
  /\ commands' = [commands EXCEPT ![a] = H]
  /\ task' = [task EXCEPT ![a] = [h \in Handlers |-> IF h \in H THEN "added" ELSE @[h]]]
  /\ \/ /\ H = {}
        /\ Goto(o, "lock", "report")
        /\ dirty' = [dirty EXCEPT ![a] = TRUE]
        /\ event' = [event EXCEPT ![o] = TRUE]
        /\ UNCHANGED <<alock, dispatcher>>
     \/ /\ H # {}
        /\ Goto(o, "lock", "start")
        /\ alock' = [alock EXCEPT ![a] = "owner"]
        /\ dispatcher' = o
        /\ UNCHANGED <<dirty, event>>
  /\ UNCHANGED <<home, queued, results, cur, patience, toScan, found, reported>>

Running == {p \in Answers \X Handlers : task[p[1]][p[2]] = "running"}
Added(a) == {h \in Handlers : task[a][h] = "added"}

(* runCommands(), one TaskManager::start(): a pool thread takes the task.  *)
DispatchStart(o, h) ==
  /\ pc[o] = "start"
  /\ h \in Added(cur[o])
  /\ Cardinality(Running) < PoolSize
  /\ task' = [task EXCEPT ![cur[o]][h] = "running"]
  /\ UNCHANGED <<answerVars, dispatcher, ownerVars>>

Unlock(o) ==
  /\ alock' = [alock EXCEPT ![cur[o]] = "free"]
  /\ dispatcher' = None
  /\ UNCHANGED <<home, queued, event, dirty, commands, results, task,
                 patience, toScan, found, reported>>

(* No thread is available: the exception leaves dispatch() and the console *)
(* action, the tasks not started yet never start.                          *)
DispatchNoThread(o) ==
  /\ Goto(o, "start", "idle")
  /\ Added(cur[o]) # {}
  /\ Cardinality(Running) >= PoolSize
  /\ Unlock(o)
  /\ cur' = [cur EXCEPT ![o] = None]

DispatchDone(o) ==
  /\ Goto(o, "start", "report")
  /\ Added(cur[o]) = {}
  /\ Unlock(o)
  /\ UNCHANGED cur

(* Mutated: removes a finished answer without reporting it. *)
ReportNewSilently(o) ==
  /\ Goto(o, "report", "idle")
  /\ RemoveIfDone(cur[o])
  /\ cur' = [cur EXCEPT ![o] = None]
  /\ UNCHANGED <<task, dispatcher, patience, toScan, found, reported>>

(* commandAction() after dispatch(): report, and remove what is done. *)
ReportNew(o) ==
  /\ Goto(o, "report", "idle")
  /\ RemoveIfDone(cur[o])
  /\ reported' = [reported EXCEPT ![cur[o]] = results[cur[o]]]
  /\ cur' = [cur EXCEPT ![o] = None]
  /\ UNCHANGED <<task, dispatcher, patience, toScan, found>>

(***************************************************************************)
(* The console action "wait-queue": AnswerQueue::wait(), then report.      *)
(***************************************************************************)

StartWait(o, t) ==
  /\ Goto(o, "idle", "scan")
  /\ patience' = [patience EXCEPT ![o] = t]
  /\ toScan' = [toScan EXCEPT ![o] = AnswerList(o)]
  /\ UNCHANGED <<answerVars, task, dispatcher, cur, found, reported>>

ScanOne(o, a) ==
  /\ pc[o] = "scan"
  /\ a \in toScan[o]
  /\ ListOne(a)
  /\ toScan' = [toScan EXCEPT ![o] = @ \ {a}]
  /\ found' = [found EXCEPT ![o] = IF dirty[a] THEN @ \cup {a} ELSE @]
  /\ UNCHANGED <<task, dispatcher, pc, cur, patience, reported>>

(* Mutated: resets the event before it sleeps. *)
ScanDoneResets(o) ==
  /\ toScan[o] = {}
  /\ Goto(o, "scan", IF found[o] # {} THEN "handle" ELSE "block")
  /\ event' = [event EXCEPT ![o] = FALSE]
  /\ UNCHANGED <<home, queued, alock, dirty, commands, results,
                 task, dispatcher, cur, patience, toScan, found, reported>>

ScanDone(o) ==
  /\ toScan[o] = {}
  /\ Goto(o, "scan", IF found[o] # {} THEN "handle" ELSE "block")
  /\ UNCHANGED <<answerVars, task, dispatcher, cur, patience, toScan, found, reported>>

(* Mutated: sleeps again without listing what woke it. *)
WakeupBlind(o) ==
  /\ patience[o] # "zero"
  /\ Goto(o, "block", "scan")
  /\ ConsumeEvent(o)
  /\ UNCHANGED <<task, dispatcher, cur, patience, toScan, found, reported>>

(* block() returned true: list again, with the whole timeout anew. *)
Wakeup(o) ==
  /\ patience[o] # "zero"
  /\ Goto(o, "block", "scan")
  /\ ConsumeEvent(o)
  /\ toScan' = [toScan EXCEPT ![o] = AnswerList(o)]
  /\ UNCHANGED <<task, dispatcher, cur, patience, found, reported>>

(* block() returned false: a zero timeout never looks at the event. *)
GiveUp(o) ==
  /\ patience[o] # "infinite"
  /\ Goto(o, "block", "idle")
  /\ patience' = [patience EXCEPT ![o] = "finite"]
  /\ UNCHANGED <<answerVars, task, dispatcher, cur, toScan, found, reported>>

Report(o, a) ==
  /\ pc[o] = "handle"
  /\ a \in found[o]
  /\ RemoveIfDone(a)
  /\ found' = [found EXCEPT ![o] = @ \ {a}]
  /\ reported' = [reported EXCEPT ![a] = results[a]]
  /\ UNCHANGED <<task, dispatcher, pc, cur, patience, toScan>>

(* Mutated: leaves the loop over the dirty list early. *)
ReportBreaks(o) ==
  /\ Goto(o, "handle", "idle")
  /\ patience' = [patience EXCEPT ![o] = "finite"]
  /\ found' = [found EXCEPT ![o] = {}]
  /\ UNCHANGED <<answerVars, task, dispatcher, cur, toScan, reported>>

ReportDone(o) ==
  /\ found[o] = {}
  /\ Goto(o, "handle", "idle")
  /\ patience' = [patience EXCEPT ![o] = "finite"]
  /\ UNCHANGED <<answerVars, task, dispatcher, cur, toScan, found, reported>>

(***************************************************************************)
(* CommandRunner::runTask() and the handler it calls.                      *)
(***************************************************************************)

HandlerCreatesResult(a, h) ==
  /\ task[a][h] = "running"
  /\ \E n \in ResultCounts : Created(a, h) < n
  /\ NewResult(a, h)
  /\ UNCHANGED <<task, dispatcher, ownerVars>>

(* The handler, or whoever it gave the result to, sets the status. *)
SetStatus(a, i, s) ==
  /\ i \in DOMAIN results[a]
  /\ results[a][i].status = "PENDING" \/ Rewrites
  /\ SetStatusLocked(a, i, s)
  /\ UNCHANGED <<task, dispatcher, ownerVars>>

Notify(a) ==
  /\ SetStatusNotify(a)
  /\ UNCHANGED <<task, dispatcher, ownerVars>>

HandlerReturns(a, h) ==
  /\ task[a][h] = "running"
  /\ Created(a, h) \in ResultCounts
  /\ task' = [task EXCEPT ![a][h] = "returned"]
  /\ UNCHANGED <<answerVars, dispatcher, ownerVars>>

(* A handler without an answer for the command leaves its result PENDING,  *)
(* notifies the owner all the same and returns.                            *)
HandlerNotifies(a, h) ==
  /\ task[a][h] = "running"
  /\ Created(a, h) \in ResultCounts \ {0}
  /\ NotifyUpdated(a)
  /\ task' = [task EXCEPT ![a][h] = "returned"]
  /\ UNCHANGED <<dispatcher, ownerVars>>

(* Task::run() catches the exception; CommandProgressHandler only logs it. *)
HandlerThrows(a, h) ==
  /\ Throws
  /\ task[a][h] = "running"
  /\ task' = [task EXCEPT ![a][h] = "failed"]
  /\ UNCHANGED <<answerVars, dispatcher, ownerVars>>

-----------------------------------------------------------------------------

Dispatching(o) ==
  \/ \E H \in SUBSET Handlers : DispatchCollect(o, H)
  \/ \E h \in Handlers : DispatchStart(o, h)
  \/ DispatchNoThread(o)
  \/ DispatchDone(o)
  \/ ReportNew(o)

Waiting(o) ==
  \/ \E a \in Answers : ScanOne(o, a)
  \/ ScanDone(o)
  \/ Wakeup(o)
  \/ GiveUp(o)
  \/ \E a \in Answers : Report(o, a)
  \/ ReportDone(o)

Handling(a, h) ==
  \/ HandlerCreatesResult(a, h)
  \/ HandlerReturns(a, h)
  \/ HandlerNotifies(a, h)
  \/ HandlerThrows(a, h)

Next ==
  \/ \E o \in Owners :
       \/ \E a \in Answers : NewCommand(o, a)
       \/ Dispatching(o)
       \/ \E t \in Timeouts : StartWait(o, t)
       \/ Waiting(o)
  \/ \E a \in Answers :
       \/ \E h \in Handlers : Handling(a, h)
       \/ \E i \in DOMAIN results[a], s \in Statuses : SetStatus(a, i, s)
       \/ Notify(a)

Spec == Init /\ [][Next]_vars

(***************************************************************************)
(* Fairness.  The owner keeps going: ZMQBroker::run() calls wait() in a    *)
(* loop, and the operator of the console asks again.  Nobody keeps the     *)
(* lock of an answer, pool threads are scheduled, and a result gets its    *)
(* status (what CommandDispatcher.h demands of handlers).  That commands   *)
(* arrive is not assumed.                                                  *)
(***************************************************************************)
OwnerFairness ==
  \A o \in Owners :
    /\ WF_vars(Dispatching(o))
    /\ WF_vars(Waiting(o))
    /\ WF_vars(\E t \in Timeouts : StartWait(o, t))

HandlerFairness ==
  \A a \in Answers :
    /\ WF_vars(\E i \in DOMAIN results[a], s \in Statuses : SetStatus(a, i, s))
    /\ \A h \in Handlers : WF_vars(Handling(a, h))

LockFairness == \A a \in Answers : WF_vars(Notify(a))

LiveSpec == Spec /\ OwnerFairness /\ LockFairness
FairSpec == LiveSpec /\ HandlerFairness

-----------------------------------------------------------------------------

(* What is settled in a sequence of results: a status that is not PENDING, *)
(* at its position.                                                        *)
SettledIn(list) ==
  {<<i, list[i].status>> : i \in {j \in DOMAIN list : list[j].status # "PENDING"}}

(* Some status of the list is missing in an earlier report. *)
Unseen(list, report) == ~ (SettledIn(list) \subseteq SettledIn(report))

(* The owner has not seen the status some result of a has now. *)
HasNews(a) == Unseen(results[a], reported[a])

Removed == {a \in Answers : home[a] # None} \ queued

(* No update is lost: as long as an answer in a queue has a result status  *)
(* its owner has not reported, the answer is dirty or sits in the owner's  *)
(* dirty list.  listDirty() makes answers clean one at a time while pool   *)
(* threads set statuses of others, and a status set after an answer was    *)
(* listed must make it dirty again.                                        *)
NoLostUpdate ==
  \A a \in queued : HasNews(a) => dirty[a] \/ a \in found[home[a]]

(* No wakeup is lost: an owner that is about to sleep in block() with the  *)
(* event not set has no dirty answer, except one whose updater still holds *)
(* the lock and is going to set the event.  The flag and the event are two *)
(* variables written under the answer's lock but read under different ones. *)
NoMissedWakeup ==
  \A o \in Owners : pc[o] = "block" /\ ~event[o] =>
    \A a \in AnswerList(o) : dirty[a] => alock[a] = "updater"

(* An answer leaves its queue only when every handler that accepted the    *)
(* command has set its result and the owner has reported all of them.      *)
(* Holds for handlers that create one result per command and set it once.  *)
RemovedIsComplete ==
  \A a \in Removed :
    /\ ~ HasNews(a)
    /\ \A h \in commands[a] :
         \E i \in DOMAIN results[a] :
           results[a][i].by = h /\ results[a][i].status # "PENDING"

(* What was removed does not change any more: the owner has forgotten the  *)
(* answer, so a result that changes later would be lost.                   *)
RemovedIsFinal ==
  [][\A a \in Removed : results'[a] = results[a]]_vars

(* Answer.h says runCommands() runs all commands from the answer: after    *)
(* dispatch() no command is left that was added and never started.         *)
AllCommandsRun ==
  \A a \in Answers :
    Added(a) # {} => \E o \in Owners : cur[o] = a /\ pc[o] = "start"

(* Every status that is set on a result of a queued answer is reported by  *)
(* the owner in the end, whatever the handlers do otherwise.               *)
EveryUpdateReported ==
  \A a \in Answers : (a \in queued /\ HasNews(a)) ~> ~ HasNews(a)

(* With handlers that keep their contract and a pool that is large enough, *)
(* every answer is completed, reported and removed.                        *)
EveryAnswerLeaves ==
  \A a \in Answers : a \in queued ~> a \notin queued

(***************************************************************************)
(* The inductive invariant behind NoLostUpdate and NoMissedWakeup: what an *)
(* owner is working on is its own, an answer that nobody created is blank, *)
(* and (ScanCatches) an answer that listDirty() has passed and that is     *)
(* dirty again has set the event or is about to, so that the owner cannot  *)
(* fall asleep over it.                                                    *)
(***************************************************************************)
OwnWork ==
  \A o \in Owners :
    /\ pc[o] \in {"lock", "start", "report"} => cur[o] \in Answers /\ home[cur[o]] = o
    /\ pc[o] = "block" => found[o] = {}
    /\ \A a \in toScan[o] \cup found[o] : home[a] = o

Blank ==
  \A a \in Answers : home[a] = None =>
    /\ results[a] = << >>
    /\ alock[a] = "free"
    /\ \A h \in Handlers : task[a][h] = "none"

ScanCatches ==
  \A o \in Owners : pc[o] = "scan" /\ ~event[o] =>
    \A a \in AnswerList(o) \ toScan[o] : dirty[a] => alock[a] = "updater"

IInv == TypeOK /\ OwnWork /\ Blank /\ ScanCatches /\ NoLostUpdate /\ NoMissedWakeup

(* The promise of the queue, free of locks, flags and events. *)
Delivery == INSTANCE AnswerDelivery WITH
  open <- queued,
  settled <- [a \in Answers |-> SettledIn(results[a])],
  seen <- [a \in Answers |-> SettledIn(reported[a])]

Delivers == Delivery!Spec
DeliversInTheEnd == Delivery!LiveSpec
=============================================================================
