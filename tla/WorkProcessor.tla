---------------------------- MODULE WorkProcessor ----------------------------
(***************************************************************************)
(* BasicProcessor with its BasicQueue and GenericWorkRunners               *)
(* (base/src/work): clients schedule, wake up and cancel works, one        *)
(* dispatcher thread pops the works that are due and gives each to a       *)
(* runner on a thread of the pool, the runner executes the work and puts   *)
(* it back when the executor suspends it.                                  *)
(*                                                                         *)
(* Locks: the mutex of the queue, and for each work the accessLock (taken  *)
(* for writing by WorkWriting; readers hold it within one step) and the    *)
(* recursive executionLock (taken by WorkExecuting, and by WorkWriting     *)
(* after the accessLock).                                                  *)
(*                                                                         *)
(* Time is abstract: a work in the queue waits for a wakeup ("asleep"),    *)
(* for its activation time ("later") or for the dispatcher ("due").  Any   *)
(* due work may be popped: the order among them, which all works of equal  *)
(* priority agree on, is the subject of WorkQueue.                         *)
(***************************************************************************)
EXTENDS Naturals, FiniteSets

CONSTANTS
  Works,       \* the Work instances
  Callers,     \* client threads of the WorkScheduler interface
  Runners,     \* the threads of the pool
  Dispatcher,  \* the thread in BasicProcessor::run()
  None,        \* no thread, no work
  Accepted,    \* the works that some registered executor accepts
  Operations,  \* what clients call: of "schedule", "wakeup", "cancel"
  Outcomes,    \* how an execution ends: of "return", "throw", "event", "duration"
  Sleeps,      \* the sleep durations a work may be created with
  Again,       \* TRUE: a work may be scheduled more than once by the clients
  MaxCalls,    \* bound: calls of clients in a behaviour
  MaxTurns,    \* bound: executions of a work that end in a suspension
  MaxCrashes   \* bound: crashes

Threads == Callers \cup Runners \cup {Dispatcher}
SleepKinds == {"none", "zero", "some"}

ASSUME ThreadsAssumption ==
  /\ Dispatcher \notin Callers \cup Runners
  /\ Callers \cap Runners = {}
  /\ None \notin Threads \cup Works

ASSUME BehaviourAssumption ==
  /\ Accepted \subseteq Works
  /\ Operations \subseteq {"schedule", "wakeup", "cancel"}
  /\ Outcomes \subseteq {"return", "throw", "event", "duration"}
  /\ Sleeps \subseteq SleepKinds
  /\ Again \in BOOLEAN
  /\ MaxCalls \in Nat /\ MaxTurns \in Nat /\ MaxCrashes \in Nat

VARIABLES
  state,     \* state[w]: m_state
  finished,  \* finished[w]: m_finished is a valid timestamp
  sleep,     \* sleep[w]: m_sleepDuration: null, zero or positive
  stored,    \* stored[w]: the state the repository holds
  where,     \* where[w]: the place of w in the queue, or "out"
  qlock,     \* who holds BasicQueue::lock()
  access,    \* access[w]: who holds accessLock() for writing
  exec,      \* exec[w]: who holds executionLock()
  event,     \* m_wakeup, an auto-reset event
  pc,        \* pc[t]: where thread t is
  job,       \* job[t]: the work thread t is busy with
  op,        \* op[t]: the operation, or the outcome of an execution
  mayBlock,  \* shouldBlock of the running pop()
  watched,   \* the works whose activation the dispatcher sleeps for
  stop,      \* m_shouldStop
  broken,    \* TRUE: the active queue was corrupted, the process is lost
  calls, turns, crashes

workVars == <<state, finished, sleep, stored>>
lockVars == <<qlock, access, exec>>
loopVars == <<mayBlock, watched, stop>>
bounds == <<calls, turns, crashes>>
vars == <<workVars, where, lockVars, event, pc, job, op, loopVars, broken, bounds>>

States == {"IDLE", "SCHEDULED", "EXECUTED", "FINISHED", "FAILED", "CANCELED"}
Final == {"FINISHED", "FAILED", "CANCELED"}
Places == {"out", "asleep", "later", "due"}
Pcs == {"idle", "queue", "access", "exec", "store",
        "begin", "prepare", "execute", "finish", "nap", "notify",
        "loop", "pop", "forever", "timed", "check", "start", "stopped"}
Ops == {"none", "fail", "schedule", "wakeup", "cancel",
        "return", "throw", "event", "duration"}

TypeOK ==
  /\ state \in [Works -> States]
  /\ finished \in [Works -> BOOLEAN]
  /\ sleep \in [Works -> SleepKinds]
  /\ stored \in [Works -> States]
  /\ where \in [Works -> Places]
  /\ qlock \in Threads \cup {None}
  /\ access \in [Works -> Threads \cup {None}]
  /\ exec \in [Works -> Threads \cup {None}]
  /\ event \in BOOLEAN
  /\ pc \in [Threads -> Pcs]
  /\ job \in [Threads -> Works \cup {None}]
  /\ op \in [Threads -> Ops]
  /\ mayBlock \in BOOLEAN
  /\ watched \in SUBSET Works
  /\ stop \in BOOLEAN
  /\ broken \in BOOLEAN
  /\ calls \in 0 .. MaxCalls
  /\ turns \in [Works -> 0 .. MaxTurns]
  /\ crashes \in 0 .. MaxCrashes

Init ==
  /\ state = [w \in Works |-> "IDLE"]
  /\ finished = [w \in Works |-> FALSE]
  /\ sleep \in [Works -> Sleeps]
  /\ stored = [w \in Works |-> "IDLE"]
  /\ where = [w \in Works |-> "out"]
  /\ qlock = None
  /\ access = [w \in Works |-> None]
  /\ exec = [w \in Works |-> None]
  /\ event = FALSE
  /\ pc = [t \in Threads |-> IF t = Dispatcher THEN "loop" ELSE "idle"]
  /\ job = [t \in Threads |-> None]
  /\ op = [t \in Threads |-> "none"]
  /\ mayBlock = TRUE
  /\ watched = {}
  /\ stop = FALSE
  /\ broken = FALSE
  /\ calls = 0
  /\ turns = [w \in Works |-> 0]
  /\ crashes = 0

Goto(t, from, to) ==
  /\ pc[t] = from
  /\ pc' = [pc EXCEPT ![t] = to]

In(place) == {w \in Works : where[w] = place}

(***************************************************************************)
(* schedule(), wakeup() and cancel(), called by a client, and schedule()   *)
(* called by a runner: the queue is locked first, then the work.           *)
(***************************************************************************)

Call(t, w, o) ==
  /\ Goto(t, "idle", "queue")
  /\ t \in Callers
  /\ calls < MaxCalls
  /\ o = "schedule" =>
       Again \/ (state[w] = "IDLE" /\ \A u \in Callers : ~ (op[u] = "schedule" /\ job[u] = w))
  /\ calls' = calls + 1
  /\ job' = [job EXCEPT ![t] = w]
  /\ op' = [op EXCEPT ![t] = o]
  /\ UNCHANGED <<workVars, where, lockVars, event, loopVars, broken, turns, crashes>>

(* wakeupUnlocked() has nothing to wake when the work is not in the queue. *)
LockQueue(t) ==
  /\ qlock = None
  /\ qlock' = t
  /\ Goto(t, "queue", IF op[t] = "wakeup" /\ where[job[t]] = "out" THEN "store" ELSE "access")
  /\ UNCHANGED <<workVars, where, access, exec, event, job, op, loopVars, broken, bounds>>

(* WorkWriting: the accessLock for writing, then the executionLock. *)
LockAccess(t) ==
  /\ Goto(t, "access", "exec")
  /\ access[job[t]] = None
  /\ access' = [access EXCEPT ![job[t]] = t]
  /\ UNCHANGED <<workVars, where, qlock, exec, event, job, op, loopVars, broken, bounds>>

(* Mutated: WorkWriting does not take the executionLock. *)
UnderAccessOnly(t, w) ==
  /\ job[t] = w
  /\ access' = [access EXCEPT ![w] = None]

(* The rest of WorkWriting and what is done under it.  The executionLock   *)
(* is taken and given back within the step.                                *)
UnderLocks(t, w) ==
  /\ job[t] = w
  /\ exec[w] = None
  /\ access' = [access EXCEPT ![w] = None]

(* Where a work with sleep duration d goes from a place of the queue: one  *)
(* that is due stays due unless its activation time has changed.           *)
PlacesFor(d, place) ==
  CASE d = "none" -> {"asleep"}
    [] d = "zero" -> {"due"}
    [] OTHER -> {"later"} \cup ({place} \cap {"due"})

(* doPushUnlocked(): a work that is done is ignored, any other one enters  *)
(* the queue or moves to the place its sleep duration d gives it.          *)
Push(w, d) ==
  IF state[w] \in Final
  THEN UNCHANGED <<state, where>>
  ELSE /\ \E place \in PlacesFor(d, where[w]) : where' = [where EXCEPT ![w] = place]
       /\ state' = [state EXCEPT ![w] = "SCHEDULED"]

(* Mutated: pushes without setting the event. *)
PushWorkSilently(t, w) ==
  /\ op[t] = "schedule"
  /\ UnderLocks(t, w)
  /\ Goto(t, "exec", "store")
  /\ Push(w, sleep[w])
  /\ UNCHANGED <<finished, sleep, stored, qlock, exec, event, job, op, loopVars, broken, bounds>>

PushWork(t, w) ==
  /\ op[t] = "schedule"
  /\ UnderLocks(t, w)
  /\ Goto(t, "exec", "store")
  /\ Push(w, sleep[w])
  /\ event' = TRUE
  /\ UNCHANGED <<finished, sleep, stored, qlock, exec, job, op, loopVars, broken, bounds>>

WakeWork(t, w) ==
  /\ op[t] = "wakeup"
  /\ UnderLocks(t, w)
  /\ Goto(t, "exec", "store")
  /\ sleep' = [sleep EXCEPT ![w] = "zero"]
  /\ Push(w, "zero")
  /\ event' = TRUE
  /\ UNCHANGED <<finished, stored, qlock, exec, job, op, loopVars, broken, bounds>>

(* cancelUnlocked() erases record.ref from the active queue, which is      *)
(* end() for a work that sleeps: undefined, the process aborts or hangs.   *)
CancelWork(t, w) ==
  /\ op[t] = "cancel"
  /\ UnderLocks(t, w)
  /\ Goto(t, "exec", "store")
  /\ broken' = (where[w] = "asleep")
  /\ where' = [where EXCEPT ![w] = "out"]
  /\ event' = (event \/ where[w] # "out")
  /\ state' = [state EXCEPT ![w] = "CANCELED"]
  /\ stored' = [stored EXCEPT ![w] = "CANCELED"]
  /\ UNCHANGED <<finished, sleep, qlock, exec, job, op, loopVars, bounds>>

(* The repository stores the work as it is now, the queue is unlocked.     *)
(* wakeUpSelf() only cuts short the dispatcher's sleep between attempts to *)
(* start a thread.                                                         *)
Store(t) ==
  /\ Goto(t, "store", IF t \in Runners THEN "notify" ELSE "idle")
  /\ qlock' = None
  /\ stored' = [stored EXCEPT ![job[t]] = state[job[t]]]
  /\ job' = [job EXCEPT ![t] = None]
  /\ op' = [op EXCEPT ![t] = "none"]
  /\ UNCHANGED <<state, finished, sleep, where, access, exec, event, loopVars, broken, bounds>>

(***************************************************************************)
(* GenericWorkRunner                                                       *)
(***************************************************************************)

(* Mutated: executes without the executionLock. *)
BeginUnlocked(r) ==
  /\ Goto(r, "begin", "prepare")
  /\ UNCHANGED <<workVars, where, lockVars, event, job, op, loopVars, broken, bounds>>

(* WorkExecuting: the executionLock alone. *)
Begin(r) ==
  /\ Goto(r, "begin", "prepare")
  /\ exec[job[r]] = None
  /\ exec' = [exec EXCEPT ![job[r]] = r]
  /\ UNCHANGED <<workVars, where, qlock, access, event, job, op, loopVars, broken, bounds>>

(* Mutated: does not store the work before it is executed. *)
PrepareUnstored(r) ==
  /\ Goto(r, "prepare", "execute")
  /\ access[job[r]] = None
  /\ state' = [state EXCEPT ![job[r]] = "EXECUTED"]
  /\ UNCHANGED <<finished, sleep, stored, where, lockVars, event, job, op, loopVars, broken, bounds>>

(* prepare(): a WorkWriting inside, so the accessLock after the            *)
(* executionLock.                                                          *)
Prepare(r) ==
  /\ Goto(r, "prepare", "execute")
  /\ access[job[r]] = None
  /\ state' = [state EXCEPT ![job[r]] = "EXECUTED"]
  /\ stored' = [stored EXCEPT ![job[r]] = "EXECUTED"]
  /\ UNCHANGED <<finished, sleep, where, lockVars, event, job, op, loopVars, broken, bounds>>

(* The executor returns, throws, or suspends the work. *)
Execute(r, outcome) ==
  /\ Goto(r, "execute", IF outcome \in {"return", "throw"} THEN "finish" ELSE "nap")
  /\ LET again == IF outcome \in {"return", "throw"} THEN 0 ELSE 1
     IN  /\ turns[job[r]] + again <= MaxTurns
         /\ turns' = [turns EXCEPT ![job[r]] = @ + again]
  /\ op' = [op EXCEPT ![r] = outcome]
  /\ UNCHANGED <<workVars, where, lockVars, event, job, loopVars, broken, calls, crashes>>

(* doFinish() or doFailed(), then the end of WorkExecuting. *)
Finish(r) ==
  /\ Goto(r, "finish", "notify")
  /\ access[job[r]] = None
  /\ state' = [state EXCEPT ![job[r]] = IF op[r] = "return" THEN "FINISHED" ELSE "FAILED"]
  /\ stored' = [stored EXCEPT ![job[r]] = state'[job[r]]]
  /\ finished' = [finished EXCEPT ![job[r]] = TRUE]
  /\ exec' = [exec EXCEPT ![job[r]] = None]
  /\ job' = [job EXCEPT ![r] = None]
  /\ op' = [op EXCEPT ![r] = "none"]
  /\ UNCHANGED <<sleep, where, qlock, access, event, loopVars, broken, bounds>>

(* The handlers of the suspensions and doSuspend(): the sleep duration and *)
(* the time of the suspension are set, the executionLock is released, and  *)
(* only then the work is scheduled again.                                  *)
Nap(r) ==
  /\ Goto(r, "nap", "queue")
  /\ access[job[r]] = None
  /\ sleep' = [sleep EXCEPT ![job[r]] = IF op[r] = "event" THEN "none" ELSE "some"]
  /\ exec' = [exec EXCEPT ![job[r]] = None]
  /\ op' = [op EXCEPT ![r] = "schedule"]
  /\ UNCHANGED <<state, finished, stored, where, qlock, access, event, job, loopVars, broken, bounds>>

(* destroySelf(), scheduler.notify(), and the thread is idle again. *)
Notify(r) ==
  /\ Goto(r, "notify", "idle")
  /\ event' = TRUE
  /\ UNCHANGED <<workVars, where, lockVars, job, op, loopVars, broken, bounds>>

(***************************************************************************)
(* The dispatcher: run(), dispatch() and BasicQueue::pop().                *)
(***************************************************************************)

dispatcherOnly == <<workVars, where, lockVars, op, broken, bounds>>

Loop ==
  /\ Goto(Dispatcher, "loop", IF stop THEN "stopped" ELSE "pop")
  /\ mayBlock' = TRUE
  /\ UNCHANGED <<dispatcherOnly, event, job, watched, stop>>

(* Mutated: takes the work out of the active queue only, not of m_queue,   *)
(* so that it stays to be activated again.                                 *)
PopDueKeeps(w) ==
  /\ Goto(Dispatcher, "pop", "check")
  /\ qlock = None
  /\ where[w] = "due"
  /\ where' = [where EXCEPT ![w] = "asleep"]
  /\ job' = [job EXCEPT ![Dispatcher] = w]
  /\ UNCHANGED <<workVars, lockVars, event, op, loopVars, broken, bounds>>

(* popFast() under the lock of the queue. *)
PopDue(w) ==
  /\ Goto(Dispatcher, "pop", "check")
  /\ qlock = None
  /\ where[w] = "due"
  /\ where' = [where EXCEPT ![w] = "out"]
  /\ job' = [job EXCEPT ![Dispatcher] = w]
  /\ UNCHANGED <<workVars, lockVars, event, op, loopVars, broken, bounds>>

PopNothing ==
  /\ Goto(Dispatcher, "pop",
          IF ~mayBlock THEN "loop" ELSE IF In("later") = {} THEN "forever" ELSE "timed")
  /\ qlock = None
  /\ In("due") = {}
  /\ watched' = IF mayBlock THEN In("later") ELSE {}
  /\ UNCHANGED <<dispatcherOnly, event, job, mayBlock, stop>>

(* Mutated: blocks again after it was woken. *)
WokenAgain ==
  /\ Goto(Dispatcher, "forever", "pop")
  /\ event
  /\ event' = FALSE
  /\ UNCHANGED <<dispatcherOnly, job, mayBlock, watched, stop>>

(* block(): an endless wait ends with an event, and pop() does not block   *)
(* again.                                                                  *)
Woken ==
  /\ Goto(Dispatcher, "forever", "pop")
  /\ event
  /\ event' = FALSE
  /\ mayBlock' = FALSE
  /\ UNCHANGED <<dispatcherOnly, job, watched, stop>>

(* block() returns the result of tryWait(): after an event pop() blocks    *)
(* again, after a timeout it does not.                                     *)
WokenEarly ==
  /\ Goto(Dispatcher, "timed", "pop")
  /\ event
  /\ event' = FALSE
  /\ watched' = {}
  /\ UNCHANGED <<dispatcherOnly, job, mayBlock, stop>>

TimedOut ==
  /\ Goto(Dispatcher, "timed", "pop")
  /\ ~event
  /\ watched \cap In("due") # {}
  /\ watched' = {}
  /\ mayBlock' = FALSE
  /\ UNCHANGED <<dispatcherOnly, event, job, stop>>

(* dispatch() reads finished() and state() of the popped work and looks    *)
(* for an executor.                                                        *)
Check ==
  LET w == job[Dispatcher]
      done == finished[w] \/ state[w] \in Final
      rejected == ~done /\ w \notin Accepted
  IN
  /\ Goto(Dispatcher, "check",
          IF done THEN "loop" ELSE IF rejected THEN "access" ELSE "start")
  /\ access[w] = None
  /\ job' = [job EXCEPT ![Dispatcher] = IF done THEN None ELSE @]
  /\ op' = [op EXCEPT ![Dispatcher] = IF rejected THEN "fail" ELSE "none"]
  /\ UNCHANGED <<workVars, where, lockVars, event, loopVars, broken, bounds>>

(* No executor: setState(), which leaves the finished timestamp unset. *)
Reject(w) ==
  /\ op[Dispatcher] = "fail"
  /\ UnderLocks(Dispatcher, w)
  /\ Goto(Dispatcher, "exec", "loop")
  /\ state' = [state EXCEPT ![w] = "FAILED"]
  /\ stored' = [stored EXCEPT ![w] = "FAILED"]
  /\ job' = [job EXCEPT ![Dispatcher] = None]
  /\ op' = [op EXCEPT ![Dispatcher] = "none"]
  /\ UNCHANGED <<finished, sleep, where, qlock, exec, event, loopVars, broken, bounds>>

(* Mutated: drops the work when the pool has no thread. *)
StartOrDrop(r) ==
  /\ pc[Dispatcher] = "start"
  /\ \/ /\ pc[r] = "idle"
        /\ pc' = [pc EXCEPT ![Dispatcher] = "loop", ![r] = "begin"]
        /\ job' = [job EXCEPT ![Dispatcher] = None, ![r] = job[Dispatcher]]
     \/ /\ pc[r] # "idle"
        /\ pc' = [pc EXCEPT ![Dispatcher] = "loop"]
        /\ job' = [job EXCEPT ![Dispatcher] = None]
  /\ UNCHANGED <<workVars, where, lockVars, event, op, loopVars, broken, bounds>>

(* execute(): repeats until the pool has a thread for the runner. *)
Start(r) ==
  /\ pc[Dispatcher] = "start"
  /\ pc[r] = "idle"
  /\ pc' = [pc EXCEPT ![Dispatcher] = "loop", ![r] = "begin"]
  /\ job' = [job EXCEPT ![Dispatcher] = None, ![r] = job[Dispatcher]]
  /\ UNCHANGED <<workVars, where, lockVars, event, op, loopVars, broken, bounds>>

(***************************************************************************)
(* The environment                                                         *)
(***************************************************************************)

Elapse(w) ==
  /\ where[w] = "later"
  /\ where' = [where EXCEPT ![w] = "due"]
  /\ UNCHANGED <<workVars, lockVars, event, pc, job, op, loopVars, broken, bounds>>

(* BasicProcessor::stop(): the flag, then notify(). *)
Stop ==
  /\ ~stop
  /\ stop' = TRUE
  /\ event' = TRUE
  /\ UNCHANGED <<workVars, where, lockVars, pc, job, op, mayBlock, watched, broken, bounds>>

(* The process dies and starts again with the works in the states the      *)
(* repository gives: only what is SCHEDULED enters the queue.              *)
Restart(loaded) ==
  /\ crashes < MaxCrashes
  /\ crashes' = crashes + 1
  /\ state' = loaded
  /\ stored' = loaded
  /\ where' \in {place \in [Works -> Places] :
       \A w \in Works :
         IF loaded[w] = "SCHEDULED" THEN place[w] \in PlacesFor(sleep[w], "due")
                                   ELSE place[w] = "out"}
  /\ event' = (\E w \in Works : loaded[w] = "SCHEDULED")
  /\ qlock' = None
  /\ access' = [w \in Works |-> None]
  /\ exec' = [w \in Works |-> None]
  /\ pc' = [t \in Threads |-> IF t = Dispatcher THEN "loop" ELSE "idle"]
  /\ job' = [t \in Threads |-> None]
  /\ op' = [t \in Threads |-> "none"]
  /\ mayBlock' = TRUE
  /\ watched' = {}
  /\ stop' = FALSE
  /\ broken' = FALSE
  /\ UNCHANGED <<finished, sleep, calls, turns>>

(* Mutated: initQueue() schedules what was being executed once more. *)
CrashRepeats ==
  Restart([w \in Works |-> IF stored[w] = "EXECUTED" THEN "SCHEDULED" ELSE stored[w]])

(* A crash; initQueue() then fails what was being executed. *)
Crash ==
  Restart([w \in Works |-> IF stored[w] = "EXECUTED" THEN "FAILED" ELSE stored[w]])

-----------------------------------------------------------------------------

Calling(t) ==
  \/ LockQueue(t)
  \/ LockAccess(t)
  \/ \E w \in Works : PushWork(t, w) \/ WakeWork(t, w) \/ CancelWork(t, w)
  \/ Store(t)

Running(r) ==
  \/ Begin(r)
  \/ Prepare(r)
  \/ \E outcome \in Outcomes : Execute(r, outcome)
  \/ Finish(r)
  \/ Nap(r)
  \/ Notify(r)

Dispatching ==
  \/ Loop
  \/ \E w \in Works : PopDue(w)
  \/ PopNothing
  \/ Woken
  \/ WokenEarly
  \/ TimedOut
  \/ Check
  \/ LockAccess(Dispatcher)
  \/ \E w \in Works : Reject(w)
  \/ \E r \in Runners : Start(r)

Next ==
  \/ /\ ~broken
     /\ \/ \E t \in Callers, w \in Works, o \in Operations : Call(t, w, o)
        \/ \E t \in Callers \cup Runners : Calling(t)
        \/ \E r \in Runners : Running(r)
        \/ Dispatching
        \/ \E w \in Works : Elapse(w)
        \/ Stop
  \/ Crash

Spec == Init /\ [][Next]_vars

(***************************************************************************)
(* Fairness.  The threads are scheduled, a mutex is granted in the end,    *)
(* executors return, time passes.  Nothing forces clients to call, the     *)
(* processor to stop or the process to crash.                              *)
(***************************************************************************)
FairSpec ==
  /\ Spec
  /\ \A t \in Callers \cup Runners : WF_vars(~broken /\ Calling(t))
  /\ \A r \in Runners : WF_vars(~broken /\ Running(r))
  /\ WF_vars(~broken /\ Dispatching)
  /\ \A w \in Works : WF_vars(~broken /\ Elapse(w))

-----------------------------------------------------------------------------

(* Who holds which lock follows from where the threads are.                *)
Executing(r, w) == job[r] = w /\ pc[r] \in {"prepare", "execute", "finish", "nap"}

Locks ==
  /\ \A w \in Works, t \in Threads :
       /\ exec[w] = t <=> t \in Runners /\ Executing(t, w)
       /\ access[w] = t <=> pc[t] = "exec" /\ job[t] = w
  /\ \A t \in Threads : qlock = t <=> t # Dispatcher /\ pc[t] \in {"access", "exec", "store"}

(* A work is executed by one thread at a time, however often it was        *)
(* scheduled: GenericWorkRunner holds the executionLock, schedule() of a   *)
(* suspended work releases it first.                                       *)
OneExecution ==
  \A w \in Works, r1, r2 \in Runners : Executing(r1, w) /\ Executing(r2, w) => r1 = r2

(* While an executor is working on a work, the work is EXECUTED in memory  *)
(* and in the repository, whoever schedules, wakes or cancels it: a crash  *)
(* is going to be recognised by initQueue().                               *)
ExecutionIsRecorded ==
  \A r \in Runners : pc[r] = "execute" =>
    state[job[r]] = "EXECUTED" /\ stored[job[r]] = "EXECUTED"

(* A thread that is past the start of an operation has a work in hand.     *)
Busy ==
  \A t \in Threads : pc[t] \notin {"idle", "notify", "loop", "pop", "forever", "timed", "stopped"}
    => job[t] \in Works

LInv == TypeOK /\ Locks /\ Busy /\ ExecutionIsRecorded

(* The dispatcher does not oversleep: in an endless wait with no event set *)
(* the active queue is empty, in a timed one it holds nothing that the     *)
(* timeout was not computed from.                                          *)
NoOversleep ==
  ~event =>
    /\ pc[Dispatcher] = "forever" => In("due") \cup In("later") = {}
    /\ pc[Dispatcher] = "timed" => In("due") \cup In("later") \subseteq watched

(* As long as clients schedule a work once, it is in one place at a time:  *)
(* on the way into the queue, in the queue, in the hands of the dispatcher *)
(* or with one runner; and only what is in the queue is woken up.          *)
Scheduling(w) ==
  {t \in Callers : op[t] = "schedule" /\ job[t] = w /\ pc[t] \in {"queue", "access", "exec"}}

Holders(w) ==
  {t \in Runners \cup {Dispatcher} : job[t] = w /\ pc[t] # "store"}

OnePlace ==
  \A w \in Works :
    /\ \A t, u \in Holders(w) \cup Scheduling(w) : t = u
    /\ where[w] # "out" => Holders(w) \cup Scheduling(w) = {} /\ state[w] = "SCHEDULED"
    /\ state[w] = "IDLE" => Holders(w) = {}
    /\ Scheduling(w) # {} => state[w] \in {"IDLE", "CANCELED"}
    /\ \A t \in Threads :
         op[t] = "wakeup" /\ job[t] = w /\ pc[t] \in {"access", "exec"} => where[w] # "out"

(* What the repository sees of a work is the documented life of a work.    *)
Lifecycle == INSTANCE WorkLifecycle WITH
  status <- stored,
  busy <- {w \in Works : \E r \in Runners : job[r] = w /\ pc[r] = "execute"}

KeepsLifecycle == Lifecycle!Spec

(* A work the repository has as scheduled, and that does not wait for an   *)
(* event, is executed to its end unless the processor is stopped: with     *)
(* fewer threads than works, any number of suspensions, and over a crash.  *)
EveryWorkEnds ==
  \A w \in Works : stored[w] = "SCHEDULED" ~> stored[w] \in Final \/ stop

(* After stop() the dispatcher leaves its loop, or a new one was started.  *)
StopsInTheEnd == stop ~> pc[Dispatcher] = "stopped" \/ ~stop

(* BasicProcessor.cpp on cancel(): "lock the work to cancel it safely".    *)
(* No thread waits for the executionLock with the accessLock in its hands  *)
(* while the other one waits for the accessLock with the executionLock.    *)
NoEmbrace ==
  \A w \in Works, r \in Runners, t \in Threads :
    ~ (/\ exec[w] = r /\ pc[r] \in {"prepare", "finish", "nap"}
       /\ access[w] = t /\ pc[t] = "exec")
=============================================================================
