-------------------------------- MODULE Loops --------------------------------
(***************************************************************************)
(* LoopRunner and StoppableLoopAdapter: the threads of the gateway, started *)
(* and stopped one after the other.  A runner is an object of the injector *)
(* and its loops are the runnables injected into it; a loop is known by    *)
(* its runner and its place in it.                                         *)
(***************************************************************************)
EXTENDS Injector

(* Nothing that is injected is a runner. *)
ASSUME RunnersAssumption ==
  "LoopRunner" \in DOMAIN Classes /\ Classes["LoopRunner"].casts = {}

VARIABLES loops,    \* m_loops of the runners that have one: their runnables
          started,  \* m_started of the runners that have one
          threads,  \* the threads of the loops and what has become of them
          stopped,  \* the objects whose stop() has been called
          job       \* the method of LoopRunner the main thread is in

loopVars == <<loops, started, threads, stopped, job>>

Idle == [do |-> "none", runner |-> 0, left |-> <<>>, asked |-> FALSE]

LoopsInit == loops = <<>> /\ started = <<>> /\ threads = <<>> /\ stopped = {} /\ job = Idle

IsRunner(object) == objects[object].class = "LoopRunner"

LoopsOf(runner) == IF runner \in DOMAIN loops THEN loops[runner] ELSE <<>>
AllLoops(runner) == [i \in DOMAIN LoopsOf(runner) |-> i]
Runnable(loop) == LoopsOf(loop[1])[loop[2]]

(* addRunnable(), the setter of "runnables".  That of "loops" is never     *)
(* called: no class can be cast to a StoppableLoop.                        *)
AddsRunnable == IsRunner(Frame.object) /\ Key.property = "runnables"

AddRunnable ==
  /\ InjectRef /\ AddsRunnable
  /\ \E target \in Reused(Key.value) :
       loops' = Insert(loops, Frame.object, Append(LoopsOf(Frame.object), target))
  /\ UNCHANGED <<started, threads, stopped, job>>

Started(runner) == IF runner \in DOMAIN started THEN started[runner] ELSE <<>>

(* The values of autoStart: the last one counts. *)
IsAutoStart(prop) == prop.property = "autoStart"
AutoStart(runner) ==
  LET values == SelectSeq(objects[runner].props, IsAutoStart)
  IN  values # <<>> /\ Last(values).value

Do(what, runner, left) == job' = [do |-> what, runner |-> runner, left |-> left, asked |-> FALSE]

(* start() takes all loops, stop() the ones that have been started. *)
Start(runner) == Do("start", runner, AllLoops(runner))
Stop(runner) == Do("stop", runner, Started(runner))

Loop == <<job.runner, Head(job.left)>>
State(loop) == IF loop \in DOMAIN threads THEN threads[loop] ELSE "none"
HasThread(loop) == State(loop) \in {"running", "ended"}  \* m_thread # NULL

InJob(what) == job.do = what /\ job.left # <<>>
JobDone(what) == job.do = what /\ job.left = <<>>
NextLoop == job' = [job EXCEPT !.left = Tail(@), !.asked = FALSE]

(* StoppableLoopAdapter::start() does nothing when the thread runs; the    *)
(* runner notes the loop all the same.                                     *)
StartLoop ==
  /\ InJob("start")
  /\ threads' = Insert(threads, Loop, "running")
  /\ started' = Insert(started, job.runner, Append(Started(job.runner), Loop[2]))
  /\ NextLoop
  /\ UNCHANGED <<loops, stopped>>

(* No thread to be had: what has been started is stopped again, and the    *)
(* exception goes on; m_started keeps its loops.                           *)
StartFails ==
  /\ InJob("start") /\ State(Loop) # "running"
  /\ Do("undo", job.runner, Started(job.runner))
  /\ UNCHANGED <<loops, started, threads, stopped>>

Stopping == InJob("stop") \/ InJob("undo") \/ InJob("end")

(* doStop() without a thread, *)
NothingToStop ==
  /\ Stopping /\ ~HasThread(Loop)
  /\ NextLoop
  /\ UNCHANGED <<loops, started, threads, stopped>>

(* ... when nobody joins: the thread is only asked to stop. *)
AskAndGoOn ==
  /\ Stopping /\ State(Loop) = "running" /\ ~job.asked
  /\ stopped' = stopped \cup {Runnable(Loop)}
  /\ threads' = [threads EXCEPT ![Loop] = "detached"]
  /\ NextLoop
  /\ UNCHANGED <<loops, started>>

(* asks the runnable to stop, *)
AskToStop ==
  /\ Stopping /\ State(Loop) = "running" /\ ~job.asked
  /\ stopped' = stopped \cup {Runnable(Loop)}
  /\ job' = [job EXCEPT !.asked = TRUE]
  /\ UNCHANGED <<loops, started, threads>>

(* and joins its thread, *)
Join ==
  /\ Stopping /\ State(Loop) = "ended"
  /\ threads' = [threads EXCEPT ![Loop] = "joined"]
  /\ NextLoop
  /\ UNCHANGED <<loops, started, stopped>>

(* ... when the join has no timeout. *)
JoinWaits(blocked) == FALSE /\ UNCHANGED loopVars

(* or gives it up after m_stopTimeout.  Ten seconds are enough for every   *)
(* thread that does not wait for somebody else.                            *)
JoinTimesOut(blocked) ==
  /\ Stopping /\ State(Loop) = "running" /\ job.asked
  /\ Runnable(Loop) \in blocked
  /\ threads' = [threads EXCEPT ![Loop] = "forgotten"]
  /\ NextLoop
  /\ UNCHANGED <<loops, started, stopped>>

(* The destructors: of the runner, which stops what it has started, then   *)
(* of its loops.                                                           *)
DestroyLoops == JobDone("stop") /\ Do("end", job.runner, AllLoops(job.runner))

(* run() of a runnable that watches its stop flag, of one that may leave   *)
(* run() at any time, by an exception too.                                 *)
Runs(loop, how) == State(loop) = "running" /\ Classes[objects[Runnable(loop)].class].run = how

Ends(loop) == threads' = [threads EXCEPT ![loop] = "ended"]

RunEnds ==
  /\ \E loop \in DOMAIN threads :
       /\ \/ Runs(loop, "prompt") /\ Runnable(loop) \in stopped
          \/ Runs(loop, "brief")
       /\ Ends(loop)
  /\ UNCHANGED <<loops, started, stopped, job>>
=============================================================================
