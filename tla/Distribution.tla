---------------------------- MODULE Distribution -----------------------------
(***************************************************************************)
(* The way of measured data: a VirtualSensor and the thread of a device    *)
(* manager call BasicDistributor::exportData(), which hands the data to    *)
(* the listeners by an AsyncExecutor and ships them by each exporter.  The *)
(* first exporter is a NamedPipeExporter, whose pipe somebody else reads   *)
(* and may remove; the others are anything that keeps to Exporter.h.  The  *)
(* listeners are called in order; the first is a SimpleCollector.          *)
(***************************************************************************)
EXTENDS AsyncExecutor

CONSTANTS
  Nobody,
  Sensor, Feed,   \* the two callers of exportData()
  Exporters,      \* how many exporters there are, the pipe is the first
  Listeners,      \* how many listeners there are, the collector is the first
  Attempts,       \* ATTEMPTS_CREATE_PIPE
  PipeRoom,       \* how many messages the pipe holds
  MaxData         \* bound on the data that are exported

ASSUME DistributionAssumption ==
  /\ Exporters \in Nat \ {0}
  /\ Listeners \in Nat \ {0}
  /\ Attempts \in Nat
  /\ PipeRoom \in Nat \ {0}
  /\ MaxData \in Nat
  /\ Sensor # Feed
  /\ Nobody \notin {Sensor, Feed}

Producers == {Sensor, Feed}

VARIABLES
  exporting,  \* the holder of m_exportMutex, or Nobody
  ppc,        \* where each producer is
  at,         \* the exporter the loop of exportData() has come to
  exported,   \* the data in the order of exportData()
  offered,    \* what has been given to ship() of each exporter
  heard,      \* what each listener's onExport() has been called with
  ear,        \* the listener the current task has come to
  job,        \* the data of the current task
  quit,       \* how far stop() of the sensor is
  file,       \* what is at m_pipePath
  reader,     \* somebody has the pipe open for reading
  held,       \* the messages in the pipe
  tries       \* the attempts openPipe() has left

distributorVars == <<exporting, at, exported, offered>>
listenerVars == <<heard, ear, job>>
sensorVars == <<ppc, quit>>
pipeVars == <<file, reader, held, tries>>
allVars == <<executorVars, distributorVars, listenerVars, sensorVars, pipeVars>>

DistributionInit ==
  /\ ExecutorInit
  /\ exporting = Nobody
  /\ ppc = [p \in Producers |-> "loop"]
  /\ at = 0
  /\ exported = << >>
  /\ offered = [e \in 1..Exporters |-> << >>]
  /\ heard = [l \in 1..Listeners |-> << >>]
  /\ ear = 0
  /\ job = Nobody
  /\ quit = "no"
  /\ file = "absent"
  /\ reader = FALSE
  /\ held = 0
  /\ tries = Attempts

(***************************************************************************)
(* BasicDistributor                                                        *)
(***************************************************************************)

(* exportData() takes m_exportMutex; notifyListeners() puts one task for   *)
(* all listeners into the executor.                                        *)
ExportData(p) ==
  /\ ppc[p] = "export"
  /\ exporting = Nobody
  /\ exporting' = p
  /\ at' = 1
  /\ exported' = Append(exported, Len(exported) + 1)
  /\ Invoke(Len(exported) + 1)
  /\ ppc' = [ppc EXCEPT ![p] = "ship"]
  /\ UNCHANGED <<offered, listenerVars, quit, pipeVars>>

(* Mutated: an exporter that throws ends the loop. *)
NextExporterOrThrow(p, outcome) ==
  /\ offered' = [offered EXCEPT ![at] = Append(@, exported[Len(exported)])]
  /\ at' = IF outcome = "throw" THEN Exporters + 1 ELSE at + 1
  /\ tries' = Attempts
  /\ ppc' = [ppc EXCEPT ![p] = "ship"]
  /\ UNCHANGED <<exporting, exported>>

(* ship() has ended: its result is dropped and an exception only logged. *)
NextExporter(p, outcome) ==
  /\ outcome \in {"true", "false", "throw"}
  /\ tries' = Attempts
  /\ offered' = [offered EXCEPT ![at] = Append(@, exported[Len(exported)])]
  /\ at' = at + 1
  /\ ppc' = [ppc EXCEPT ![p] = "ship"]
  /\ UNCHANGED <<exporting, exported>>

(* An exporter that is not the pipe. *)
Ship(p) ==
  /\ ppc[p] = "ship"
  /\ at \in 2..Exporters
  /\ \E outcome \in {"true", "false", "throw"} : NextExporter(p, outcome)
  /\ UNCHANGED <<executorVars, listenerVars, quit, file, reader, held>>

(* The end of the loop over the exporters: exportData() unlocks and returns. *)
Exported(p) ==
  /\ ppc[p] = "ship"
  /\ at = Exporters + 1
  /\ exporting' = Nobody
  /\ at' = 0
  /\ ppc' = [ppc EXCEPT ![p] = IF p = Sensor THEN "nap" ELSE "loop"]
  /\ UNCHANGED <<executorVars, exported, offered, listenerVars, quit, pipeVars>>

(***************************************************************************)
(* NamedPipeExporter.  openPipe() does not block; without a file it makes  *)
(* one and tries again, without a reader the data are dropped.             *)
(***************************************************************************)

ShipByPipe(p, outcome) ==
  /\ NextExporter(p, outcome)
  /\ UNCHANGED <<executorVars, listenerVars, quit>>

AtPipe(p) == ppc[p] = "ship" /\ at = 1

(* open() found no file.  The counter is unsigned and wraps at the end, so *)
(* that the test for it fails; fstat() of no descriptor throws instead.    *)
MakePipe(p) ==
  /\ AtPipe(p)
  /\ file = "absent"
  /\ file' = "fifo"
  /\ IF tries > 0
       THEN /\ tries' = tries - 1
            /\ UNCHANGED <<executorVars, distributorVars, listenerVars, sensorVars>>
       ELSE ShipByPipe(p, "throw")
  /\ UNCHANGED <<reader, held>>

(* mkfifo() or open() fails, a signal interrupts open(), or a file that is *)
(* no pipe is in the way.                                                  *)
PipeRefused(p) ==
  /\ AtPipe(p)
  /\ \E outcome \in IF file = "plain" THEN {"throw"} ELSE {"false", "throw"} :
       ShipByPipe(p, outcome)
  /\ UNCHANGED <<file, reader, held>>

(* ENXIO: there is no reader and the data count as shipped. *)
PipeUnread(p) ==
  /\ AtPipe(p)
  /\ file = "fifo" /\ ~reader
  /\ ShipByPipe(p, "true")
  /\ UNCHANGED <<file, reader, held>>

OpenPipe(p) ==
  /\ AtPipe(p)
  /\ file = "fifo" /\ reader
  /\ ppc' = [ppc EXCEPT ![p] = "write"]
  /\ UNCHANGED <<executorVars, distributorVars, listenerVars, quit, pipeVars>>

(* A message is short enough to be written in one piece or not at all: a   *)
(* full pipe (EAGAIN) and a reader that has gone (EPIPE) throw, a signal   *)
(* leaves the message unwritten and the result false.                      *)
WriteAndClose(p) ==
  /\ ppc[p] = "write"
  /\ \/ reader /\ held < PipeRoom /\ held' = held + 1 /\ ShipByPipe(p, "true")
     \/ (~reader \/ held = PipeRoom) /\ held' = held /\ ShipByPipe(p, "throw")
     \/ held' = held /\ ShipByPipe(p, "false")
  /\ UNCHANGED <<file, reader>>

(* The other side: the reader comes, reads and goes; the file is removed   *)
(* or somebody puts another one in its place.                              *)
PipeWorld ==
  /\ \/ file = "fifo" /\ reader' = ~reader /\ held' = 0 /\ file' = file
     \/ reader /\ held > 0 /\ held' = held - 1 /\ UNCHANGED <<file, reader>>
     \/ ~reader /\ file' \in {"absent", "plain"} \ {file} /\ UNCHANGED <<reader, held>>
  /\ UNCHANGED <<executorVars, distributorVars, listenerVars, sensorVars, tries>>

(***************************************************************************)
(* The task of notifyListeners(), on the thread of the executor            *)
(***************************************************************************)

(* The executor looks into its queue and, if it has a task, begins it. *)
TakeTask ==
  /\ Look
  /\ IF tasks = << >>
       THEN UNCHANGED <<job, ear>>
       ELSE job' = Head(tasks) /\ ear' = 1
  /\ UNCHANGED <<distributorVars, heard, sensorVars, pipeVars>>

(* The loop of the task: a listener that throws ends it for those behind.  *)
(* The collector stores what it gets, under its mutex.                     *)
OnExport ==
  /\ xpc = "execute"
  /\ ear \in 1..Listeners
  /\ heard' = [heard EXCEPT ![ear] = Append(@, job)]
  /\ ear' \in {ear + 1, Listeners + 1}
  /\ UNCHANGED <<executorVars, distributorVars, job, sensorVars, pipeVars>>

TaskDone ==
  /\ ear = Listeners + 1
  /\ Executed
  /\ ear' = 0
  /\ job' = Nobody
  /\ UNCHANGED <<distributorVars, heard, sensorVars, pipeVars>>

(* The other steps of the executor's thread and of its stop(). *)
ExecutorThread ==
  /\ Enter \/ CheckStop \/ Wake \/ Leave
  /\ UNCHANGED <<distributorVars, listenerVars, sensorVars, pipeVars>>

ExecutorStop ==
  /\ StopFlag \/ StopEvent \/ Restart
  /\ UNCHANGED <<distributorVars, listenerVars, sensorVars, pipeVars>>

(***************************************************************************)
(* VirtualSensor                                                           *)
(***************************************************************************)

(* The head of the loop.  The sensor measures as often as it is let. *)
SensorLoop ==
  /\ ppc[Sensor] = "loop"
  /\ \/ quit # "no" /\ ppc' = [ppc EXCEPT ![Sensor] = "out"]
     \/ /\ quit = "no" /\ Len(exported) < MaxData
        /\ ppc' = [ppc EXCEPT ![Sensor] = "export"]
  /\ UNCHANGED <<executorVars, distributorVars, listenerVars, quit, pipeVars>>

(* tryWait() of the condition has timed out. *)
SensorRefresh ==
  /\ ppc[Sensor] = "nap"
  /\ ppc' = [ppc EXCEPT ![Sensor] = "loop"]
  /\ UNCHANGED <<executorVars, distributorVars, listenerVars, quit, pipeVars>>

SensorStop ==
  /\ quit = "no"
  /\ quit' = "flag"
  /\ UNCHANGED <<executorVars, distributorVars, listenerVars, ppc, pipeVars>>

(* The signal is sent without the lock and reaches a waiting thread only. *)
SensorSignal ==
  /\ quit = "flag"
  /\ quit' = "signalled"
  /\ ppc' = [ppc EXCEPT ![Sensor] = IF @ = "nap" THEN "out" ELSE @]
  /\ UNCHANGED <<executorVars, distributorVars, listenerVars, pipeVars>>

(* A device manager has measured something. *)
FeedLoop ==
  /\ ppc[Feed] = "loop"
  /\ Len(exported) < MaxData
  /\ ppc' = [ppc EXCEPT ![Feed] = "export"]
  /\ UNCHANGED <<executorVars, distributorVars, listenerVars, quit, pipeVars>>

-----------------------------------------------------------------------------

AtThePipe(p) == MakePipe(p) \/ PipeRefused(p) \/ PipeUnread(p) \/ OpenPipe(p) \/ WriteAndClose(p)

Exporting(p) == ExportData(p) \/ Ship(p) \/ AtThePipe(p) \/ Exported(p)

Executing == TakeTask \/ OnExport \/ TaskDone \/ ExecutorThread

DistributionNext ==
  \/ \E p \in Producers : Exporting(p)
  \/ Executing \/ ExecutorStop
  \/ SensorLoop \/ SensorRefresh \/ SensorStop \/ SensorSignal \/ FeedLoop
  \/ PipeWorld

DistributionSpec == DistributionInit /\ [][DistributionNext]_allVars

(* Threads run, a mutex that is free again and again is granted, exporters *)
(* and listeners return, the refresh time of the sensor passes, and who    *)
(* has begun a stop() ends it.  Nobody has to measure, to stop or to read  *)
(* the pipe.                                                               *)
DistributionFairness ==
  /\ \A p \in Producers : SF_allVars(ExportData(p)) /\ WF_allVars(Ship(p) \/ AtThePipe(p) \/ Exported(p))
  /\ WF_allVars(Executing)
  /\ WF_allVars(ExecutorStop /\ halt = "flagged")
  /\ WF_allVars(SensorLoop) /\ WF_allVars(SensorRefresh)

DistributionFairSpec == DistributionSpec /\ DistributionFairness

-----------------------------------------------------------------------------

(* The data are numbered in the order of exportData(); so is what somebody *)
(* has got when nothing is left out.                                       *)
InOrderUpTo(s, n) == s \in Seq(Nat) /\ Len(s) = n /\ \A i \in 1..n : s[i] = i

(* Who has m_exportMutex ships, and nobody else does.                      *)
Shipping ==
  /\ ppc \in [Producers -> {"loop", "export", "ship", "write", "nap", "out"}]
  /\ \A p \in Producers : ppc[p] \in {"ship", "write"} <=> exporting = p
  /\ \A p \in Producers : ppc[p] = "write" => at = 1
  /\ exporting \in Producers \cup {Nobody}
  /\ at \in 0..(Exporters + 1)
  /\ at = 0 <=> exporting = Nobody

(* Each exporter has been given all data, the ones the loop of             *)
(* exportData() has not yet come to all but the last.                      *)
Offered ==
  /\ offered \in [1..Exporters -> Seq(Nat)]
  /\ InOrderUpTo(exported, Len(exported))
  /\ at # 0 => Len(exported) > 0
  /\ \A e \in 1..Exporters :
       InOrderUpTo(offered[e], Len(exported) - IF at # 0 /\ e >= at THEN 1 ELSE 0)

(* The tasks in the queue are the last data, the task in hand the one      *)
(* before them, and the first listener has heard all that come before.     *)
Taken == Len(exported) - Len(tasks)

Heard ==
  /\ Len(tasks) <= Len(exported)
  /\ \A i \in 1..Len(tasks) : tasks[i] = Taken + i
  /\ heard \in [1..Listeners -> Seq(Nat)]
  /\ ear \in 0..(Listeners + 1)
  /\ xpc = "execute" <=> ear # 0
  /\ ear # 0 => job = Taken /\ Taken > 0
  /\ InOrderUpTo(heard[1], Taken - IF ear = 1 THEN 1 ELSE 0)

(* Types, the executor's invariant, and what makes the distribution a      *)
(* DataStream: what is not yet with an exporter or a listener is what the  *)
(* loops have still before them.                                           *)
StreamInv == ExInv /\ Shipping /\ Offered /\ Heard

(* The exporters and the first listener get all data in the one order of   *)
(* exportData(), although the listeners are called by another thread and   *)
(* exporters fail: what is behind DataStream.                              *)
Received == [r \in 0..Exporters |-> IF r = 0 THEN heard[1] ELSE offered[r]]

Stream == INSTANCE DataStream WITH Receivers <- 0..Exporters, received <- Received

InOrder == Stream!Spec

(* Whatever the pipe, the other exporters and the listeners do, each datum *)
(* is offered to every exporter and, unless the executor is being stopped, *)
(* reaches the collector.                                                  *)
EverybodyGetsIt ==
  \A n \in 1..MaxData : Len(exported) >= n ~>
    /\ \A e \in 1..Exporters : Len(offered[e]) >= n
    /\ Len(heard[1]) >= n \/ halt # "none"

(* stop() ends run() of the executor and of the sensor, each of which has  *)
(* its own way to be stopped, wherever the run() is.                       *)
StopEndsRun ==
  /\ halt = "done" ~> xpc = "out"
  /\ quit # "no" ~> ppc[Sensor] = "out"
=============================================================================
