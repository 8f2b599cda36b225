---------------------------- MODULE AsyncExecutor ----------------------------
(***************************************************************************)
(* A thread that executes what other threads hand over: AsyncExecutor.     *)
(* The queue has a mutex, so that a push with its event and a look with    *)
(* its pop are one step each.  The event and the stop flag are read        *)
(* without the mutex.                                                      *)
(***************************************************************************)
EXTENDS Naturals, Sequences

VARIABLES
  tasks,          \* m_taskQueue
  wakeup,         \* m_wakeupEvent, auto-reset
  stopRequested,  \* m_stopRequested
  xpc,            \* where the thread is in run()
  halt            \* where the thread that calls stop() is

executorVars == <<tasks, wakeup, stopRequested, xpc, halt>>

XPcs == {"new", "check", "look", "wait", "execute", "leave", "out"}

ExecutorInit ==
  /\ tasks = << >>
  /\ wakeup = FALSE
  /\ stopRequested = FALSE
  /\ xpc = "new"
  /\ halt = "none"

(* Mutated: only a task for an empty queue sets the event. *)
InvokeQuietly(t) ==
  /\ tasks' = Append(tasks, t)
  /\ wakeup' = (wakeup \/ Len(tasks) = 1)
  /\ UNCHANGED <<stopRequested, xpc, halt>>

Invoke(t) ==
  /\ tasks' = Append(tasks, t)
  /\ wakeup' = TRUE
  /\ UNCHANGED <<stopRequested, xpc, halt>>

(* The loop has started its thread, which now enters run(). *)
Enter ==
  /\ xpc = "new"
  /\ xpc' = "check"
  /\ UNCHANGED <<tasks, wakeup, stopRequested, halt>>

CheckStop ==
  /\ xpc = "check"
  /\ xpc' = IF stopRequested THEN "leave" ELSE "look"
  /\ UNCHANGED <<tasks, wakeup, stopRequested, halt>>

(* Mutated: the newest task first. *)
LookLast ==
  /\ xpc = "look"
  /\ IF tasks = << >>
       THEN xpc' = "wait" /\ tasks' = tasks
       ELSE xpc' = "execute" /\ tasks' = SubSeq(tasks, 1, Len(tasks) - 1)
  /\ UNCHANGED <<wakeup, stopRequested, halt>>

(* Under the mutex: take the first task, or go to wait without the mutex. *)
Look ==
  /\ xpc = "look"
  /\ IF tasks = << >>
       THEN xpc' = "wait" /\ tasks' = tasks
       ELSE xpc' = "execute" /\ tasks' = Tail(tasks)
  /\ UNCHANGED <<wakeup, stopRequested, halt>>

Wake ==
  /\ xpc = "wait"
  /\ wakeup
  /\ wakeup' = FALSE
  /\ xpc' = "check"
  /\ UNCHANGED <<tasks, stopRequested, halt>>

(* execute() catches whatever the task throws. *)
Executed ==
  /\ xpc = "execute"
  /\ xpc' = "check"
  /\ UNCHANGED <<tasks, wakeup, stopRequested, halt>>

(* run() forgets the request it has obeyed and returns. *)
Leave ==
  /\ xpc = "leave"
  /\ stopRequested' = FALSE
  /\ xpc' = "out"
  /\ UNCHANGED <<tasks, wakeup, halt>>

(* The loop is started again after its stop() has joined the thread. *)
Restart ==
  /\ xpc = "out"
  /\ halt = "done"
  /\ xpc' = "new"
  /\ halt' = "none"
  /\ UNCHANGED <<tasks, wakeup, stopRequested>>

(* stop(): the flag first ... *)
StopFlag ==
  /\ halt = "none"
  /\ halt' = "flagged"
  /\ stopRequested' = TRUE
  /\ UNCHANGED <<tasks, wakeup, xpc>>

(* Mutated: only a waiting thread is woken. *)
StopEventIfWaiting ==
  /\ halt = "flagged"
  /\ halt' = "done"
  /\ wakeup' = (wakeup \/ xpc = "wait")
  /\ UNCHANGED <<tasks, stopRequested, xpc>>

(* ... then the event. *)
StopEvent ==
  /\ halt = "flagged"
  /\ halt' = "done"
  /\ wakeup' = TRUE
  /\ UNCHANGED <<tasks, stopRequested, xpc>>

(* Whatever happens to an executor is one of these steps. *)
ExecutorNext ==
  \/ \E t \in Nat : Invoke(t)
  \/ Enter \/ CheckStop \/ Look \/ Wake \/ Executed \/ Leave
  \/ StopFlag \/ StopEvent \/ Restart

-----------------------------------------------------------------------------

TypeOK ==
  /\ tasks \in Seq(Nat)
  /\ wakeup \in BOOLEAN
  /\ stopRequested \in BOOLEAN
  /\ xpc \in XPcs
  /\ halt \in {"none", "flagged", "done"}

(* The executor never waits, with its event not set, over a task or over a *)
(* stop() that has ended: look, wait and event are not under one lock.     *)
NoSleepOverTasks ==
  xpc = "wait" /\ ~wakeup => tasks = << >> /\ (stopRequested => halt = "flagged")

(* What makes it inductive: a stop() that comes after the flag was looked  *)
(* at leaves the event behind, and the event is consumed only by waiting.  *)
StopIsHeard ==
  xpc = "look" /\ ~wakeup => (stopRequested => halt = "flagged")

ExInv == TypeOK /\ StopIsHeard /\ NoSleepOverTasks
=============================================================================
