---------------------------- MODULE Gateway_proofs ----------------------------
(***************************************************************************)
(* The two ways through the gateway.  Data: the executor inside the        *)
(* distribution never sleeps over a task or over a stop(), and the         *)
(* distribution implements DataStream, for any number of exporters,        *)
(* listeners and data.  Commands: the numbers of the managers are unique,  *)
(* and no two live daemons share one, however many start, crash and start  *)
(* again; and a result finds its command, however the frames of two        *)
(* threads mix.                                                            *)
(***************************************************************************)
EXTENDS Distribution, Broker, SequenceTheorems, TLAPS

-----------------------------------------------------------------------------
(* Data: Distribution.                                                     *)
(* The executor begins with an empty queue, before its first look. *)
LEMMA ExecutorStarts == ExecutorInit => ExInv
<1> SUFFICES ASSUME ExecutorInit PROVE ExInv
  OBVIOUS
<1>1. tasks \in Seq(Nat)
  BY DEF ExecutorInit
<1>2. TypeOK
  BY <1>1, Zenon DEF ExecutorInit, TypeOK, XPcs
<1>3. StopIsHeard /\ NoSleepOverTasks
  BY DEF ExecutorInit, StopIsHeard, NoSleepOverTasks
<1> QED
  BY <1>2, <1>3 DEF ExInv

(* Every step of an executor keeps the invariant.  A push and a stop() set *)
(* the event; only a waiting thread, which then looks again, resets it.    *)
LEMMA ExecutorKeeps ==
  ASSUME ExInv, [ExecutorNext]_executorVars
  PROVE  ExInv'
<1> USE DEF ExInv, TypeOK, XPcs, StopIsHeard, NoSleepOverTasks
<1>1. ASSUME NEW t \in Nat, Invoke(t) PROVE ExInv'
  BY <1>1 DEF Invoke
<1>2. CASE Enter
  BY <1>2 DEF Enter
<1>3. CASE CheckStop
  BY <1>3 DEF CheckStop
<1>4. CASE Look
  <2>1. CASE tasks = << >>
    BY <1>4, <2>1 DEF Look
  <2>2. CASE tasks # << >>
    BY <1>4, <2>2 DEF Look
  <2> QED BY <2>1, <2>2
<1>5. CASE Wake
  BY <1>5 DEF Wake
<1>6. CASE Executed
  BY <1>6 DEF Executed
<1>7. CASE Leave
  BY <1>7 DEF Leave
<1>8. CASE StopFlag
  BY <1>8 DEF StopFlag
<1>9. CASE StopEvent
  BY <1>9 DEF StopEvent
<1>10. CASE Restart
  BY <1>10 DEF Restart
<1>11. CASE UNCHANGED executorVars
  BY <1>11 DEF executorVars
<1> QED
  BY <1>1, <1>2, <1>3, <1>4, <1>5, <1>6, <1>7, <1>8, <1>9, <1>10, <1>11 DEF ExecutorNext

(* The queue that exportData() numbers the data by grows one by one. *)
Numbered == exported \in Seq(Nat)

LEMMA NumberedStep ==
  ASSUME Numbered, [DistributionNext]_allVars
  PROVE  Numbered'
<1>1. ASSUME NEW p \in Producers, ExportData(p) PROVE Numbered'
  BY <1>1 DEF Numbered, ExportData
<1>2. ASSUME NEW p \in Producers,
             Ship(p) \/ AtThePipe(p) \/ Exported(p)
      PROVE  Numbered'
  BY <1>2 DEF Numbered, Ship, AtThePipe, Exported, MakePipe, PipeRefused, PipeUnread, OpenPipe,
              WriteAndClose, ShipByPipe, NextExporter, distributorVars
<1>3. CASE Executing \/ ExecutorStop
  BY <1>3 DEF Numbered, Executing, ExecutorStop, TakeTask, OnExport, TaskDone, ExecutorThread, distributorVars
<1>4. CASE SensorLoop \/ SensorRefresh \/ SensorStop \/ SensorSignal \/ FeedLoop \/ PipeWorld
  BY <1>4 DEF Numbered, SensorLoop, SensorRefresh, SensorStop, SensorSignal, FeedLoop, PipeWorld, distributorVars
<1>5. CASE UNCHANGED allVars
  BY <1>5 DEF Numbered, allVars, distributorVars
<1> QED
  BY <1>1, <1>2, <1>3, <1>4, <1>5 DEF DistributionNext, Exporting

(* To the executor, a step of the distribution is a step of its own or     *)
(* nothing at all.                                                         *)
LEMMA StepOfExecutor ==
  ASSUME Numbered, [DistributionNext]_allVars
  PROVE  [ExecutorNext]_executorVars
<1>1. ASSUME NEW p \in Producers, ExportData(p) PROVE ExecutorNext
  <2>1. Len(exported) + 1 \in Nat
    BY DEF Numbered
  <2> QED
    BY <1>1, <2>1 DEF ExportData, ExecutorNext
<1>2. ASSUME NEW p \in Producers, Ship(p) \/ AtThePipe(p) \/ Exported(p)
      PROVE  UNCHANGED executorVars
  BY <1>2 DEF Ship, AtThePipe, Exported, MakePipe, PipeRefused, PipeUnread, OpenPipe,
              WriteAndClose, ShipByPipe
<1>3. CASE Executing \/ ExecutorStop
  BY <1>3 DEF Executing, ExecutorStop, TakeTask, OnExport, TaskDone, ExecutorThread, ExecutorNext
<1>4. CASE SensorLoop \/ SensorRefresh \/ SensorStop \/ SensorSignal \/ FeedLoop \/ PipeWorld
  BY <1>4 DEF SensorLoop, SensorRefresh, SensorStop, SensorSignal, FeedLoop, PipeWorld
<1>5. CASE UNCHANGED allVars
  BY <1>5 DEF allVars
<1> QED
  BY <1>1, <1>2, <1>3, <1>4, <1>5 DEF DistributionNext, Exporting

(* Invariant of AsyncExecutor inside the distribution: types, and that the *)
(* executor neither sleeps over a task nor over a stop() that has ended.   *)
THEOREM ExecutorInvariance == DistributionSpec => []ExInv
<1>1. DistributionInit => ExInv /\ Numbered
  BY ExecutorStarts DEF DistributionInit, Numbered
<1>2. ExInv /\ Numbered /\ [DistributionNext]_allVars => ExInv' /\ Numbered'
  BY NumberedStep, StepOfExecutor, ExecutorKeeps
<1> QED
  BY <1>1, <1>2, PTL DEF DistributionSpec

(* The part of it a caller of invoke() and stop() relies on. *)
THEOREM TasksAreNotSleptOver == DistributionSpec => []NoSleepOverTasks
<1>1. ExInv => NoSleepOverTasks
  BY DEF ExInv
<1> QED
  BY <1>1, ExecutorInvariance, PTL

(***************************************************************************)
(* The distribution implements DataStream.                                 *)
(***************************************************************************)

(* The steps of ship(): one that ends it, one that only opens the pipe, or *)
(* one that only touches the file.                                         *)
LEMMA ShipSteps ==
  ASSUME Shipping, NEW p \in Producers, Ship(p) \/ AtThePipe(p)
  PROVE  \/ /\ \E outcome \in {"true", "false", "throw"} : NextExporter(p, outcome)
            /\ at \in 1..Exporters /\ exporting = p
            /\ UNCHANGED <<executorVars, listenerVars, quit>>
         \/ OpenPipe(p)
         \/ UNCHANGED <<executorVars, distributorVars, listenerVars, sensorVars>>
<1> USE DistributionAssumption
<1>1. CASE Ship(p)
  BY <1>1 DEF Ship, Shipping
<1>2. CASE MakePipe(p)
  BY <1>2 DEF MakePipe, ShipByPipe, AtPipe, Shipping
<1>3. CASE PipeRefused(p)
  BY <1>3 DEF PipeRefused, ShipByPipe, AtPipe, Shipping
<1>4. CASE PipeUnread(p)
  BY <1>4 DEF PipeUnread, ShipByPipe, AtPipe, Shipping
<1>5. CASE WriteAndClose(p)
  BY <1>5 DEF WriteAndClose, ShipByPipe, Shipping
<1> QED
  BY <1>1, <1>2, <1>3, <1>4, <1>5 DEF AtThePipe

LEMMA ShippingStep ==
  ASSUME Shipping, [DistributionNext]_allVars
  PROVE  Shipping'
<1> USE DistributionAssumption DEF Shipping
<1>1. ASSUME NEW p \in Producers, ExportData(p) PROVE Shipping'
  BY <1>1 DEF ExportData, Producers
<1>2. ASSUME NEW p \in Producers, Ship(p) \/ AtThePipe(p) PROVE Shipping'
  <2>1. CASE OpenPipe(p)
    BY <2>1 DEF OpenPipe, AtPipe, distributorVars
  <2>2. ASSUME NEW outcome \in {"true", "false", "throw"}, NextExporter(p, outcome),
               at \in 1..Exporters, exporting = p
        PROVE  Shipping'
    BY <2>2 DEF NextExporter, Producers
  <2>3. CASE UNCHANGED <<distributorVars, sensorVars>>
    BY <2>3 DEF distributorVars, sensorVars
  <2> QED
    BY <1>2, <2>1, <2>2, <2>3, ShipSteps
<1>3. ASSUME NEW p \in Producers, Exported(p) PROVE Shipping'
  BY <1>3 DEF Exported, Producers
<1>4. CASE Executing \/ ExecutorStop \/ PipeWorld
  BY <1>4 DEF Executing, ExecutorStop, TakeTask, OnExport, TaskDone, ExecutorThread, PipeWorld,
              distributorVars, sensorVars
<1>5. CASE SensorLoop \/ SensorRefresh \/ SensorStop \/ SensorSignal \/ FeedLoop
  BY <1>5 DEF SensorLoop, SensorRefresh, SensorStop, SensorSignal, FeedLoop, distributorVars, Producers
<1>6. CASE UNCHANGED allVars
  BY <1>6 DEF allVars, distributorVars, sensorVars
<1> QED
  BY <1>1, <1>2, <1>3, <1>4, <1>5, <1>6 DEF DistributionNext, Exporting

(* One more datum, numbered by its place. *)
LEMMA Appended ==
  ASSUME NEW s, NEW n \in Nat, InOrderUpTo(s, n)
  PROVE  InOrderUpTo(Append(s, n + 1), n + 1)
BY DEF InOrderUpTo

LEMMA OfferedStep ==
  ASSUME Shipping, Offered, [DistributionNext]_allVars
  PROVE  Offered'
<1> USE DistributionAssumption
<1> DEFINE Given(e) == Len(exported) - IF at # 0 /\ e >= at THEN 1 ELSE 0
<1>7. Len(exported) \in Nat /\ \A e \in 1..Exporters : Given(e) \in Nat
  BY DEF Offered, Shipping, InOrderUpTo
<1>1. ASSUME NEW p \in Producers, ExportData(p) PROVE Offered'
  <2>1. at = 0 /\ at' = 1 /\ offered' = offered /\ exported' = Append(exported, Len(exported) + 1)
    BY <1>1 DEF ExportData, Shipping
  <2>2. InOrderUpTo(exported', Len(exported) + 1)
    BY <1>7, <2>1, Appended DEF Offered
  <2>3. Len(exported') = Len(exported) + 1
    BY <2>2 DEF InOrderUpTo
  <2> QED
    BY <1>7, <2>1, <2>2, <2>3 DEF Offered, Shipping
<1>2. ASSUME NEW p \in Producers, Ship(p) \/ AtThePipe(p) PROVE Offered'
  <2>1. CASE UNCHANGED distributorVars
    BY <2>1 DEF Offered, distributorVars
  <2>2. CASE OpenPipe(p)
    BY <2>1, <2>2 DEF OpenPipe
  <2>3. ASSUME NEW outcome \in {"true", "false", "throw"}, NextExporter(p, outcome),
               at \in 1..Exporters
        PROVE  Offered'
    <3>1. /\ exported' = exported /\ at' = at + 1
          /\ offered' = [offered EXCEPT ![at] = Append(@, exported[Len(exported)])]
      BY <2>3 DEF NextExporter
    <3>2. exported[Len(exported)] = Len(exported) /\ Len(exported) > 0
      <4>1. at # 0
        BY <2>3
      <4>2. Len(exported) > 0
        BY <4>1 DEF Offered
      <4>3. \A i \in 1..Len(exported) : exported[i] = i
        BY DEF Offered, InOrderUpTo
      <4> QED
        BY <4>2, <4>3, <1>7
    <3>3. Given(at) = Len(exported) - 1
      BY <2>3
    <3>4. InOrderUpTo(offered'[at], Len(exported))
      <4>1. InOrderUpTo(offered[at], Len(exported) - 1)
        BY <2>3, <3>3 DEF Offered
      <4>2. InOrderUpTo(Append(offered[at], Len(exported)), Len(exported))
        BY <1>7, <3>2, <4>1, Appended
      <4> QED
        BY <2>3, <3>1, <3>2, <4>2 DEF Offered
    <3>5. \A e \in 1..Exporters : e # at => offered'[e] = offered[e]
      BY <3>1 DEF Offered
    <3>6. offered' \in [1..Exporters -> Seq(Nat)]
      BY <3>1, <3>2, <1>7, <2>3 DEF Offered
    <3>7. ASSUME NEW e \in 1..Exporters
          PROVE  InOrderUpTo(offered'[e], Len(exported') - IF at' # 0 /\ e >= at' THEN 1 ELSE 0)
      <4>1. CASE e = at
        BY <4>1, <3>1, <3>4, <1>7, <2>3
      <4>2. CASE e # at
        <5>1. Given(e) = Len(exported) - IF at' # 0 /\ e >= at' THEN 1 ELSE 0
          BY <4>2, <3>1, <2>3
        <5> QED
          BY <4>2, <5>1, <3>1, <3>5 DEF Offered
      <4> QED BY <4>1, <4>2
    <3> QED
      BY <3>1, <3>2, <3>6, <3>7 DEF Offered
  <2> QED
    BY <1>2, <2>1, <2>2, <2>3, ShipSteps
<1>3. ASSUME NEW p \in Producers, Exported(p) PROVE Offered'
  BY <1>3, <1>7 DEF Exported, Offered, Shipping
<1>4. CASE Executing \/ ExecutorStop \/ PipeWorld
  BY <1>4 DEF Executing, ExecutorStop, TakeTask, OnExport, TaskDone, ExecutorThread, PipeWorld,
              distributorVars, Offered
<1>5. CASE SensorLoop \/ SensorRefresh \/ SensorStop \/ SensorSignal \/ FeedLoop
  BY <1>5 DEF SensorLoop, SensorRefresh, SensorStop, SensorSignal, FeedLoop, distributorVars, Offered
<1>6. CASE UNCHANGED allVars
  BY <1>6 DEF allVars, distributorVars, Offered
<1> QED
  BY <1>1, <1>2, <1>3, <1>4, <1>5, <1>6 DEF DistributionNext, Exporting

(* What only moves the executor from one step outside a task to another,   *)
(* or does not touch it at all.                                            *)
LEMMA HeardStutter ==
  ASSUME Heard, UNCHANGED <<tasks, exported, heard, ear, job>>,
         xpc' = "execute" <=> xpc = "execute"
  PROVE  Heard'
BY DEF Heard, Taken

(* A step of the executor's thread that begins, continues or ends a task.  *)
LEMMA TaskStep ==
  ASSUME ExInv, Offered, Heard, TakeTask \/ OnExport \/ TaskDone
  PROVE  Heard'
<1> USE DistributionAssumption
<1>1. Len(exported) \in Nat /\ tasks \in Seq(Nat) /\ Len(tasks) \in Nat /\ Taken \in Nat
  BY DEF Offered, InOrderUpTo, ExInv, TypeOK, Heard, Taken
<1>2. CASE TakeTask /\ tasks = << >>
  <2>1. xpc = "look" /\ xpc' = "wait" /\ UNCHANGED <<tasks, exported, heard, ear, job>>
    BY <1>2 DEF TakeTask, Look, distributorVars
  <2> QED
    BY <2>1, HeardStutter
<1>3. CASE TakeTask /\ tasks # << >>
  <2>1. /\ xpc' = "execute" /\ tasks' = Tail(tasks) /\ job' = Head(tasks) /\ ear' = 1
        /\ exported' = exported /\ heard' = heard /\ xpc = "look"
    BY <1>3 DEF TakeTask, Look, distributorVars
  <2>2. Len(tasks) > 0 /\ Len(tasks') = Len(tasks) - 1
    BY <1>1, <1>3, <2>1
  <2>3. Taken' = Taken + 1
    <3>1. Taken' = Len(exported) - (Len(tasks) - 1)
      BY <2>1, <2>2 DEF Taken
    <3> QED
      BY <1>1, <3>1 DEF Taken
  <2>4. job' = Taken'
    BY <1>1, <2>1, <2>2, <2>3 DEF Heard
  <2>5. \A i \in 1..Len(tasks') : tasks'[i] = Taken' + i
    BY <1>1, <2>1, <2>2, <2>3 DEF Heard
  <2>6. ear = 0
    BY <2>1 DEF Heard
  <2>7. InOrderUpTo(heard'[1], Taken' - 1)
    <3>1. InOrderUpTo(heard[1], Taken)
      BY <1>1, <2>6 DEF Heard
    <3>2. Taken' - 1 = Taken
      BY <1>1, <2>3
    <3> QED
      BY <2>1, <3>1, <3>2
  <2>8. Len(tasks') <= Len(exported')
    BY <1>1, <2>1, <2>2 DEF Heard
  <2>9. ear' \in 0..(Listeners + 1) /\ ear' # 0
    BY <2>1
  <2>10. Taken' > 0
    BY <1>1, <2>3
  <2> QED
    BY <2>1, <2>4, <2>5, <2>7, <2>8, <2>9, <2>10 DEF Heard
<1>4. CASE OnExport
  <2>1. /\ xpc = "execute" /\ xpc' = xpc /\ tasks' = tasks /\ exported' = exported /\ job' = job
        /\ ear \in 1..Listeners /\ ear' \in {ear + 1, Listeners + 1}
        /\ heard' = [heard EXCEPT ![ear] = Append(@, job)]
    BY <1>4 DEF OnExport, executorVars, distributorVars
  <2>2. Taken' = Taken
    BY <2>1 DEF Taken
  <2>3. job = Taken /\ Taken > 0 /\ ear' # 1 /\ ear' \in 1..(Listeners + 1)
    BY <2>1 DEF Heard
  <2>4. heard' \in [1..Listeners -> Seq(Nat)]
    BY <1>1, <2>1, <2>3 DEF Heard
  <2>5. InOrderUpTo(heard'[1], Taken)
    <3>1. CASE ear = 1
      <4>1. InOrderUpTo(heard[1], Taken - 1) /\ Taken - 1 \in Nat
        BY <1>1, <2>3, <3>1 DEF Heard
      <4>2. InOrderUpTo(Append(heard[1], (Taken - 1) + 1), (Taken - 1) + 1)
        BY <4>1, Appended
      <4>3. (Taken - 1) + 1 = Taken
        BY <1>1
      <4>4. heard'[1] = Append(heard[1], Taken)
        BY <2>1, <2>3, <3>1 DEF Heard
      <4> QED
        BY <4>2, <4>3, <4>4
    <3>2. CASE ear # 1
      <4>1. heard'[1] = heard[1]
        BY <2>1, <3>2 DEF Heard
      <4>2. InOrderUpTo(heard[1], Taken)
        BY <1>1, <3>2 DEF Heard
      <4> QED
        BY <4>1, <4>2
    <3> QED BY <3>1, <3>2
  <2>6. InOrderUpTo(heard'[1], Taken' - IF ear' = 1 THEN 1 ELSE 0)
    BY <1>1, <2>2, <2>3, <2>5
  <2>7. \A i \in 1..Len(tasks') : tasks'[i] = Taken' + i
    BY <2>1, <2>2 DEF Heard
  <2>8. Len(tasks') <= Len(exported')
    BY <2>1 DEF Heard
  <2>9. ear' \in 0..(Listeners + 1) /\ ear' # 0
    BY <2>3
  <2> QED
    BY <2>1, <2>2, <2>3, <2>4, <2>6, <2>7, <2>8, <2>9 DEF Heard
<1>5. CASE TaskDone
  <2>1. /\ ear = Listeners + 1 /\ ear' = 0 /\ xpc' = "check"
        /\ UNCHANGED <<tasks, exported, heard>>
    BY <1>5 DEF TaskDone, Executed, distributorVars
  <2>2. Taken' = Taken
    BY <2>1 DEF Taken
  <2>3. InOrderUpTo(heard[1], Taken)
    BY <1>1, <2>1 DEF Heard
  <2>4. InOrderUpTo(heard'[1], Taken' - IF ear' = 1 THEN 1 ELSE 0)
    BY <1>1, <2>1, <2>2, <2>3
  <2>5. /\ Len(tasks') <= Len(exported')
        /\ \A i \in 1..Len(tasks') : tasks'[i] = Taken' + i
        /\ heard' \in [1..Listeners -> Seq(Nat)]
    BY <2>1, <2>2 DEF Heard
  <2>6. ear' \in 0..(Listeners + 1) /\ ear' = 0 /\ xpc' # "execute"
    BY <2>1
  <2> QED
    BY <2>4, <2>5, <2>6 DEF Heard
<1> QED
  BY <1>2, <1>3, <1>4, <1>5

LEMMA HeardStep ==
  ASSUME ExInv, Offered, Heard, [DistributionNext]_allVars
  PROVE  Heard'
<1>1. ASSUME NEW p \in Producers, ExportData(p) PROVE Heard'
  <2>1. /\ exported' = Append(exported, Len(exported) + 1)
        /\ tasks' = Append(tasks, Len(exported) + 1)
        /\ UNCHANGED <<xpc, heard, ear, job>>
    BY <1>1 DEF ExportData, Invoke, listenerVars
  <2>2. tasks \in Seq(Nat) /\ exported \in Seq(Nat)
    BY DEF ExInv, TypeOK, Offered, InOrderUpTo
  <2>3. Len(tasks') = Len(tasks) + 1 /\ Len(exported') = Len(exported) + 1
    BY <2>1, <2>2
  <2>4. Taken' = Taken
    BY <2>2, <2>3 DEF Taken
  <2>5. ASSUME NEW i \in 1..Len(tasks') PROVE tasks'[i] = Taken' + i
    <3>1. CASE i \in 1..Len(tasks)
      BY <2>1, <2>2, <2>4, <3>1 DEF Heard
    <3>2. CASE i = Len(tasks) + 1
      BY <2>1, <2>2, <2>4, <3>2 DEF Taken
    <3> QED
      BY <2>2, <2>3, <3>1, <3>2
  <2>6. Len(tasks') <= Len(exported')
    BY <2>2, <2>3 DEF Heard
  <2> QED
    BY <2>1, <2>4, <2>5, <2>6 DEF Heard
<1>2. ASSUME NEW p \in Producers, Ship(p) \/ AtThePipe(p) \/ Exported(p) PROVE Heard'
  <2>1. UNCHANGED <<tasks, exported, heard, ear, job, xpc>>
    BY <1>2 DEF Ship, AtThePipe, Exported, MakePipe, PipeRefused, PipeUnread, OpenPipe, WriteAndClose,
                ShipByPipe, NextExporter, executorVars, distributorVars, listenerVars
  <2> QED
    BY <2>1, HeardStutter
<1>3. CASE TakeTask \/ OnExport \/ TaskDone
  BY <1>3, TaskStep
<1>4. CASE ExecutorThread \/ ExecutorStop
  BY <1>4, HeardStutter DEF ExecutorThread, ExecutorStop, Enter, CheckStop, Wake, Leave, StopFlag, StopEvent,
                            Restart, distributorVars, listenerVars
<1>5. CASE PipeWorld \/ SensorLoop \/ SensorRefresh \/ SensorStop \/ SensorSignal \/ FeedLoop
  BY <1>5, HeardStutter DEF PipeWorld, SensorLoop, SensorRefresh, SensorStop, SensorSignal, FeedLoop,
                            executorVars, distributorVars, listenerVars
<1>6. CASE UNCHANGED allVars
  BY <1>6, HeardStutter DEF allVars, executorVars, distributorVars, listenerVars
<1> QED
  BY <1>1, <1>2, <1>3, <1>4, <1>5, <1>6 DEF DistributionNext, Exporting, Executing

LEMMA StreamStarts == DistributionInit => StreamInv
<1> SUFFICES ASSUME DistributionInit PROVE StreamInv
  OBVIOUS
<1> USE DistributionAssumption DEF DistributionInit
<1>1. ExInv
  BY ExecutorStarts
<1>2. Shipping
  BY DEF Shipping, Producers
<1>3. << >> \in Seq(Nat) /\ Len(<< >>) = 0
  OBVIOUS
<1>4. InOrderUpTo(<< >>, 0)
  BY <1>3 DEF InOrderUpTo
<1>5. Offered
  BY <1>3, <1>4 DEF Offered
<1>6. Heard
  BY <1>3, <1>4 DEF Heard, Taken, ExecutorInit
<1> QED
  BY <1>1, <1>2, <1>5, <1>6 DEF StreamInv

(* Invariant of the distribution: whoever has the mutex ships, and each    *)
(* exporter and the first listener has got all data in their order but for *)
(* those that exportData(), the queue or the task in hand still have.      *)
THEOREM StreamInvariance == DistributionSpec => []StreamInv
<1>1. StreamInv /\ [DistributionNext]_allVars => StreamInv'
  <2> SUFFICES ASSUME StreamInv, [DistributionNext]_allVars PROVE StreamInv'
    OBVIOUS
  <2>1. Numbered
    BY DEF StreamInv, Offered, InOrderUpTo, Numbered
  <2>2. ExInv'
    BY <2>1, StepOfExecutor, ExecutorKeeps DEF StreamInv
  <2>3. Shipping' /\ Offered' /\ Heard'
    BY ShippingStep, OfferedStep, HeardStep DEF StreamInv
  <2> QED
    BY <2>2, <2>3 DEF StreamInv
<1> QED
  BY <1>1, StreamStarts, PTL DEF DistributionSpec

(* A receiver that gets one datum more gets the one it lacks first: a step *)
(* of DataStream.                                                          *)
LEMMA Receives ==
  ASSUME NEW r \in 0..Exporters, NEW n \in Nat, n < Len(exported),
         InOrderUpTo(exported, Len(exported)), InOrderUpTo(Received[r], n),
         Received' = [Received EXCEPT ![r] = Append(@, n + 1)], exported' = exported
  PROVE  Stream!Next
<1>1. Len(Received[r]) = n /\ Len(exported) \in Nat /\ exported[n + 1] = n + 1
  BY DEF InOrderUpTo
<1>2. Received' = [Received EXCEPT ![r] = Append(@, exported[Len(@) + 1])]
  BY <1>1
<1>3. Len(Received[r]) < Len(exported)
  BY <1>1
<1> QED
  BY <1>2, <1>3 DEF Stream!Next

(* Nobody gets anything, nothing is exported. *)
LEMMA StreamStutter ==
  ASSUME UNCHANGED <<exported, offered, heard[1]>>
  PROVE  UNCHANGED <<exported, Received>>
BY DEF Received

(* Every step of the distribution is a step of DataStream or a stutter.    *)
LEMMA StreamStep ==
  ASSUME StreamInv, [DistributionNext]_allVars
  PROVE  [Stream!Next]_<<exported, Received>>
<1> USE DistributionAssumption
<1>1. /\ exported \in Seq(Nat) /\ Len(exported) \in Nat
      /\ InOrderUpTo(exported, Len(exported))
      /\ offered \in [1..Exporters -> Seq(Nat)] /\ heard \in [1..Listeners -> Seq(Nat)]
  BY DEF StreamInv, Offered, Heard, InOrderUpTo
<1>2. ASSUME NEW p \in Producers, ExportData(p) PROVE Stream!Next
  <2>1. exported' = Append(exported, Len(exported) + 1) /\ UNCHANGED <<offered, heard>>
    BY <1>2 DEF ExportData, listenerVars
  <2>2. Len(exported') = Len(exported) + 1 /\ SubSeq(exported', 1, Len(exported)) = exported
    BY <1>1, <2>1
  <2>3. Received' = Received
    BY <2>1 DEF Received
  <2> QED
    BY <2>2, <2>3 DEF Stream!Next
<1>3. ASSUME NEW p \in Producers, Ship(p) \/ AtThePipe(p)
      PROVE  [Stream!Next]_<<exported, Received>>
  <2>1. ASSUME NEW outcome \in {"true", "false", "throw"}, NextExporter(p, outcome),
               at \in 1..Exporters, UNCHANGED listenerVars
        PROVE  Stream!Next
    <3>1. /\ exported' = exported /\ heard' = heard /\ at # 0
          /\ offered' = [offered EXCEPT ![at] = Append(@, exported[Len(exported)])]
      BY <2>1 DEF NextExporter, listenerVars
    <3>2. Len(exported) > 0
      BY <3>1 DEF StreamInv, Offered
    <3>3. exported[Len(exported)] = Len(exported)
      <4>1. \A i \in 1..Len(exported) : exported[i] = i
        BY <1>1 DEF InOrderUpTo
      <4>2. Len(exported) \in 1..Len(exported)
        BY <1>1, <3>2
      <4> QED
        BY <4>1, <4>2
    <3>4. InOrderUpTo(Received[at], Len(exported) - 1)
      <4>1. InOrderUpTo(offered[at], Len(exported) - 1)
        BY <2>1, <3>1 DEF StreamInv, Offered
      <4>2. at \in 0..Exporters
        BY <2>1
      <4>3. Received[at] = offered[at]
        BY <3>1, <4>2 DEF Received
      <4> QED
        BY <4>1, <4>3
    <3>5. Received' = [Received EXCEPT ![at] = Append(@, Len(exported))]
      <4>1. offered' = [offered EXCEPT ![at] = Append(@, Len(exported))]
        BY <3>1, <3>3
      <4>2. ASSUME NEW r \in 0..Exporters
            PROVE  Received'[r] = [Received EXCEPT ![at] = Append(@, Len(exported))][r]
        <5>1. CASE r = at
          BY <1>1, <2>1, <3>1, <4>1, <5>1 DEF Received
        <5>2. CASE r # at
          BY <1>1, <2>1, <3>1, <4>1, <5>2 DEF Received
        <5> QED BY <5>1, <5>2
      <4> QED
        BY <4>2 DEF Received
    <3>6. /\ Len(exported) - 1 \in Nat /\ Len(exported) - 1 < Len(exported)
          /\ Len(exported) = (Len(exported) - 1) + 1 /\ at \in 0..Exporters
      BY <1>1, <2>1, <3>2
    <3>7. Received' = [Received EXCEPT ![at] = Append(@, (Len(exported) - 1) + 1)]
      BY <3>5, <3>6
    <3> QED
      BY <1>1, <3>1, <3>4, <3>6, <3>7, Receives
  <2>2. CASE OpenPipe(p) \/ UNCHANGED <<distributorVars, listenerVars>>
    BY <2>2, StreamStutter DEF OpenPipe, distributorVars, listenerVars
  <2> QED
    BY <1>3, <2>1, <2>2, ShipSteps DEF StreamInv
<1>4. CASE OnExport
  <2>1. /\ UNCHANGED <<exported, offered>> /\ heard' = [heard EXCEPT ![ear] = Append(@, job)]
        /\ ear \in 1..Listeners
    BY <1>4 DEF OnExport, distributorVars
  <2>2. CASE ear = 1
    <3>1. /\ job = Taken /\ Taken > 0 /\ Taken \in Nat /\ Taken <= Len(exported)
          /\ InOrderUpTo(heard[1], Taken - 1)
      <4>1. Len(tasks) \in Nat /\ Len(tasks) <= Len(exported)
        <5>1. tasks \in Seq(Nat)
          BY DEF StreamInv, ExInv, TypeOK
        <5>2. Len(tasks) <= Len(exported)
          BY DEF StreamInv, Heard
        <5> QED
          BY <5>1, <5>2
      <4>2. Taken \in Nat /\ Taken <= Len(exported)
        BY <1>1, <4>1 DEF Taken
      <4>3. job = Taken /\ Taken > 0
        BY <2>2 DEF StreamInv, Heard
      <4>4. InOrderUpTo(heard[1], Taken - IF ear = 1 THEN 1 ELSE 0)
        BY DEF StreamInv, Heard
      <4> QED
        BY <2>2, <4>2, <4>3, <4>4
    <3>2. InOrderUpTo(Received[0], Taken - 1)
      BY <3>1 DEF Received
    <3>3. /\ Taken - 1 \in Nat /\ Taken - 1 < Len(exported) /\ (Taken - 1) + 1 = job
          /\ 0 \in 0..Exporters
      BY <1>1, <3>1
    <3>4. Received' = [Received EXCEPT ![0] = Append(@, (Taken - 1) + 1)]
      BY <1>1, <2>1, <2>2, <3>3 DEF Received
    <3> QED
      BY <1>1, <2>1, <3>2, <3>3, <3>4, Receives
  <2>3. CASE ear # 1
    BY <1>1, <2>1, <2>3, StreamStutter
  <2> QED BY <2>2, <2>3
<1>5. CASE TakeTask \/ TaskDone \/ ExecutorThread \/ ExecutorStop
  BY <1>5, StreamStutter DEF TakeTask, TaskDone, ExecutorThread, ExecutorStop, distributorVars, listenerVars
<1>6. ASSUME NEW p \in Producers, Exported(p) PROVE UNCHANGED <<exported, Received>>
  BY <1>6, StreamStutter DEF Exported, listenerVars
<1>7. CASE PipeWorld \/ SensorLoop \/ SensorRefresh \/ SensorStop \/ SensorSignal \/ FeedLoop
  BY <1>7, StreamStutter DEF PipeWorld, SensorLoop, SensorRefresh, SensorStop, SensorSignal, FeedLoop,
                             distributorVars, listenerVars
<1>8. CASE UNCHANGED allVars
  BY <1>8, StreamStutter DEF allVars, distributorVars, listenerVars
<1> QED
  BY <1>2, <1>3, <1>4, <1>5, <1>6, <1>7, <1>8 DEF DistributionNext, Exporting, Executing

(* The distribution implements DataStream: the exporters and the first     *)
(* listener get all data in the order of exportData(), none twice and none *)
(* left out, whatever the pipe, the exporters and the listeners do.        *)
THEOREM DistributionImplementsDataStream == DistributionSpec => InOrder
<1>1. DistributionInit => Stream!Init
  <2> SUFFICES ASSUME DistributionInit PROVE Stream!Init
    OBVIOUS
  <2>1. exported = << >> /\ Received = [r \in 0..Exporters |-> << >>]
    BY DistributionAssumption DEF DistributionInit, Received
  <2> QED
    BY <2>1 DEF Stream!Init
<1>2. StreamInv /\ [DistributionNext]_allVars => [Stream!Next]_<<exported, Received>>
  BY StreamStep
<1> QED
  BY <1>1, <1>2, StreamInvariance, PTL DEF DistributionSpec, InOrder, Stream!Spec

-----------------------------------------------------------------------------
(* Commands: Broker.                                                       *)
(* What daemon d has been told, or will be when it reads the reply. *)
Held(d) == {welcome[d], ident[d]} \ {None, Error}

(* No manager is ever removed: the numbers count up from 0. *)
NumbersCountUp ==
  /\ table \in Seq(Identities)
  /\ Len(table) <= UINT8_MAX + 1
  /\ \A k \in 1..Len(table) : table[k].ident = k - 1

(* What daemons hold is in the table, and each holds something else. *)
HeldApart ==
  /\ \A d \in Daemons : \A h \in Held(d) : \E k \in 1..Len(table) : table[k] = h
  /\ \A d, e \in Daemons : d # e => Held(d) \cap Held(e) = {}
  /\ \A d \in Daemons : ident[d] # Error

HelloTypes ==
  /\ phase \in [Daemons -> {"down", "asking", "up", "failed"}]
  /\ ident \in [Daemons -> Identities \cup {None}]
  /\ welcome \in [Daemons -> Identities \cup {None, Error}]
  /\ boots \in [Daemons -> Nat]
  /\ hello \in Seq(Daemons \X Nat)

IInv == NumbersCountUp /\ HeldApart /\ HelloTypes

(* In a table that counts up from 0 getFirstEmptyID() returns the length:  *)
(* its walk from the front does not stop early, and eight bits suffice.    *)
LEMMA FirstEmptyIsLength ==
  ASSUME NumbersCountUp, ~Full
  PROVE  FirstEmptyID = Len(table)
<1>. USE MaxAssumption
<1>1. Len(table) \in Nat /\ Len(table) <= UINT8_MAX
  BY DEF NumbersCountUp, Full
<1>2. \A k \in 1..Len(table) : table[k].ident = k - 1
  BY DEF NumbersCountUp
<1>3. CASE table = << >>
  BY <1>3 DEF FirstEmptyID
<1>4. CASE table # << >>
  <2>1. 1 \in 1..Len(table) /\ table[1].ident = 0
    BY <1>1, <1>2, <1>4 DEF NumbersCountUp
  <2>. DEFINE Run(n) ==
         /\ \A k \in 1..n : table[k].ident = (table[1].ident + k - 1) % (UINT8_MAX + 1)
         /\ n < Len(table) => table[n + 1].ident # (table[1].ident + n) % (UINT8_MAX + 1)
  <2>2. \A k \in 0..UINT8_MAX : k % (UINT8_MAX + 1) = k
    OBVIOUS
  <2>3. Run(Len(table))
    <3>1. \A k \in 1..Len(table) : table[k].ident = (0 + k - 1) % (UINT8_MAX + 1)
      <4>1. TAKE k \in 1..Len(table)
      <4>2. k - 1 \in 0..UINT8_MAX /\ 0 + k - 1 = k - 1
        BY <1>1
      <4>3. (k - 1) % (UINT8_MAX + 1) = k - 1
        BY <4>2, <2>2
      <4>. QED BY <4>2, <4>3, <1>2
    <3>2. ~(Len(table) < Len(table))
      BY <1>1
    <3>. QED BY <3>1, <3>2, <2>1
  <2>4. \A n \in 1..Len(table) : Run(n) => n = Len(table)
    <3>1. SUFFICES ASSUME NEW n \in 1..Len(table), Run(n), n # Len(table) PROVE FALSE
      OBVIOUS
    <3>2. n < Len(table) /\ n + 1 \in 1..Len(table) /\ n \in 0..UINT8_MAX /\ 0 + n = n
      BY <1>1, <3>1
    <3>3. table[n + 1].ident = n
      BY <3>2, <1>2
    <3>4. table[n + 1].ident # (0 + n) % (UINT8_MAX + 1)
      BY <3>1, <3>2, <2>1
    <3>. QED BY <3>2, <3>3, <3>4, <2>2
  <2>5. CountingUp(table) = Len(table)
    <3>1. CountingUp(table) = CHOOSE n \in 1..Len(table) : Run(n)
      BY DEF CountingUp
    <3>2. Len(table) \in 1..Len(table)
      BY <1>1, <2>1
    <3>. HIDE DEF Run
    <3>. QED BY <3>1, <3>2, <2>3, <2>4
  <2>6. FirstEmptyID = (0 + Len(table)) % (UINT8_MAX + 1)
    BY <2>1, <2>5, <1>4 DEF FirstEmptyID
  <2>. QED BY <2>6, <2>2, <1>1
<1>. QED BY <1>3, <1>4

(* What registerDaemonPrefix() appends is new and keeps the numbers.       *)
LEMMA RegisterAddsNew ==
  ASSUME NumbersCountUp, NEW p \in Technologies, Register(p)
  PROVE  /\ NumbersCountUp'
         /\ Len(table') = Len(table) + 1
         /\ \A k \in 1..Len(table) : table'[k] = table[k] /\ table'[k] # Last(table')
         /\ Last(table') = table'[Len(table')]
         /\ Last(table') \in Identities
<1>. USE MaxAssumption
<1>1. FirstEmptyID = Len(table) /\ Len(table) \in Nat /\ Len(table) <= UINT8_MAX
  BY FirstEmptyIsLength DEF Register, NumbersCountUp, Full
<1>. DEFINE new == [prefix |-> p, ident |-> Len(table)]
<1>2. table' = Append(table, new)
  BY <1>1 DEF Register
<1>3. new \in Identities
  BY <1>1 DEF Identities
<1>4. /\ table' \in Seq(Identities) /\ Len(table') = Len(table) + 1
      /\ table'[Len(table) + 1] = new
      /\ \A k \in 1..Len(table) : table'[k] = table[k]
  BY <1>1, <1>2, <1>3 DEF NumbersCountUp
<1>5. Last(table') = new
  BY <1>1, <1>4 DEF Last
<1>6. \A k \in 1..Len(table) : table[k].ident # new.ident
  BY <1>1 DEF NumbersCountUp
<1>7. NumbersCountUp'
  BY <1>1, <1>4 DEF NumbersCountUp
<1>. QED BY <1>1, <1>3, <1>4, <1>5, <1>6, <1>7

LEMMA InitIInv == Init => IInv
<1>. SUFFICES ASSUME Init PROVE IInv
  OBVIOUS
<1>. USE MaxAssumption, BrokerAssumption DEF Init
<1>1. NumbersCountUp
  BY DEF NumbersCountUp
<1>2. \A d \in Daemons : Held(d) = {}
  BY DEF Held
<1>3. HeldApart
  BY <1>2 DEF HeldApart
<1>4. HelloTypes
  BY DEF HelloTypes
<1>. QED BY <1>1, <1>3, <1>4 DEF IInv

(* Steps that leave table, welcome and identities alone. *)
LEMMA Elsewhere ==
  ASSUME IInv, UNCHANGED <<daemonVars, helloVars>>
  PROVE  IInv'
BY DEF IInv, NumbersCountUp, HeldApart, Held, HelloTypes, daemonVars, helloVars

(* Steps that only take something from the daemons. *)
LEMMA HeldShrinks ==
  ASSUME HeldApart, table' = table,
         \A e \in Daemons : Held(e)' \subseteq Held(e) /\ ident'[e] # Error
  PROVE  HeldApart'
<1>1. \A e \in Daemons : \A h \in Held(e)' : \E k \in 1..Len(table') : table'[k] = h
  BY DEF HeldApart
<1>2. \A e, f \in Daemons : e # f => Held(e)' \cap Held(f)' = {}
  BY DEF HeldApart
<1>. QED BY <1>1, <1>2 DEF HeldApart

LEMMA NextIInv == IInv /\ [Next]_vars => IInv'
<1>. SUFFICES ASSUME IInv, [Next]_vars PROVE IInv'
  OBVIOUS
<1>. USE BrokerAssumption
<1>1. ASSUME NEW d \in Daemons, Boot(d) PROVE IInv'
  <2>1. UNCHANGED <<table, ident, welcome>>
    BY <1>1 DEF Boot
  <2>2. NumbersCountUp' /\ HeldApart'
    BY <2>1 DEF IInv, NumbersCountUp, HeldApart, Held
  <2>3. boots[d] + 1 \in Nat /\ boots' = [boots EXCEPT ![d] = @ + 1]
    BY <1>1 DEF Boot, IInv, HelloTypes
  <2>4. boots' \in [Daemons -> Nat] /\ hello' \in Seq(Daemons \X Nat)
    <3>1. boots' \in [Daemons -> Nat] /\ <<d, boots'[d]>> \in Daemons \X Nat
      BY <2>3 DEF IInv, HelloTypes
    <3>2. hello' = Append(hello, <<d, boots'[d]>>)
      BY <1>1 DEF Boot
    <3>. QED BY <3>1, <3>2 DEF IInv, HelloTypes
  <2>5. HelloTypes'
    BY <1>1, <2>1, <2>4 DEF Boot, IInv, HelloTypes
  <2>. QED BY <2>2, <2>5 DEF IInv
<1>2. ASSUME RegisterDeviceManager PROVE IInv'
  <2>1. PICK d \in Daemons : d = Head(hello)[1] /\ PrefixOf[d] \in Technologies
    <3>1. hello # << >>
      BY <1>2 DEF RegisterDeviceManager
    <3>2. Head(hello) \in Daemons \X Nat
      BY <3>1 DEF IInv, HelloTypes
    <3>. QED BY <3>2
  <2>2. UNCHANGED <<phase, ident, boots>> /\ hello' \in Seq(Daemons \X Nat)
    <3>1. UNCHANGED <<phase, ident, boots>> /\ hello' = Tail(hello) /\ hello # << >>
      BY <1>2 DEF RegisterDeviceManager, daemonVars
    <3>. QED BY <3>1 DEF IInv, HelloTypes
  <2>3. CASE Full
    <3>1. table' = table /\ (welcome' = welcome \/ welcome' = [welcome EXCEPT ![d] = Error])
      BY <1>2, <2>1, <2>3 DEF RegisterDeviceManager
    <3>2. \A e \in Daemons : Held(e)' \subseteq Held(e)
      BY <2>2, <3>1 DEF Held, IInv, HelloTypes
    <3>3. HeldApart'
      BY <2>2, <3>1, <3>2, HeldShrinks DEF IInv, HeldApart
    <3>. QED BY <2>2, <3>1, <3>3 DEF IInv, NumbersCountUp, HelloTypes
  <2>4. CASE ~Full
    <3>1. Register(PrefixOf[d])
      BY <1>2, <2>1, <2>4 DEF RegisterDeviceManager
    <3>2. /\ NumbersCountUp'
          /\ Len(table') = Len(table) + 1
          /\ \A k \in 1..Len(table) : table'[k] = table[k] /\ table'[k] # Last(table')
          /\ Last(table') = table'[Len(table')]
          /\ Last(table') \in Identities
          /\ Len(table) \in Nat
      BY <2>1, <3>1, RegisterAddsNew DEF IInv, NumbersCountUp
    <3>3. welcome' = welcome \/ welcome' = [welcome EXCEPT ![d] = Last(table')]
      BY <1>2, <2>1, <2>4 DEF RegisterDeviceManager
    <3>4. /\ Held(d)' \subseteq Held(d) \cup {Last(table')}
          /\ \A e \in Daemons : e # d => Held(e)' = Held(e)
      BY <2>1, <2>2, <3>3 DEF Held, IInv, HelloTypes
    <3>5. \A e \in Daemons : Last(table') \notin Held(e)
      BY <3>2 DEF IInv, HeldApart
    <3>6. \A e \in Daemons : \A h \in Held(e)' : \E k \in 1..Len(table') : table'[k] = h
      <4>1. TAKE e \in Daemons
      <4>2. TAKE h \in Held(e)'
      <4>3. h \in Held(e) \/ h = Last(table')
        BY <3>4
      <4>4. CASE h \in Held(e)
        BY <4>4, <3>2 DEF IInv, HeldApart
      <4>5. CASE h = Last(table')
        BY <4>5, <3>2
      <4>. QED BY <4>3, <4>4, <4>5
    <3>7. \A e, f \in Daemons : e # f => Held(e)' \cap Held(f)' = {}
      BY <3>4, <3>5 DEF IInv, HeldApart
    <3>8. HeldApart'
      BY <2>2, <3>6, <3>7 DEF IInv, HeldApart
    <3>9. HelloTypes'
      BY <2>1, <2>2, <3>2, <3>3 DEF IInv, HelloTypes
    <3>. QED BY <3>2, <3>8, <3>9 DEF IInv
  <2>. QED BY <2>3, <2>4
<1>3. ASSUME NEW d \in Daemons, Welcome(d) PROVE IInv'
  <2>1. /\ table' = table /\ hello' = hello /\ boots' = boots
        /\ welcome' = [welcome EXCEPT ![d] = None]
        /\ \/ welcome[d] = Error /\ ident' = ident
           \/ welcome[d] # Error /\ ident' = [ident EXCEPT ![d] = welcome[d]]
    BY <1>3 DEF Welcome
  <2>2. \A e \in Daemons : Held(e)' \subseteq Held(e)
    BY <2>1 DEF Held, IInv, HelloTypes
  <2>3. \A e \in Daemons : ident'[e] # Error
    BY <2>1 DEF IInv, HelloTypes, HeldApart
  <2>4. HeldApart'
    BY <2>1, <2>2, <2>3, HeldShrinks DEF IInv
  <2>5. HelloTypes'
    BY <1>3 DEF Welcome, IInv, HelloTypes
  <2>. QED BY <2>1, <2>4, <2>5 DEF IInv, NumbersCountUp
<1>4. ASSUME NEW d \in Daemons, Crash(d) PROVE IInv'
  <2>1. /\ table' = table /\ hello' = hello /\ boots' = boots
        /\ welcome' = [welcome EXCEPT ![d] = None]
        /\ ident' = [ident EXCEPT ![d] = None]
    BY <1>4 DEF Crash
  <2>2. \A e \in Daemons : Held(e)' \subseteq Held(e)
    BY <2>1 DEF Held, IInv, HelloTypes
  <2>3. \A e \in Daemons : ident'[e] # Error
    BY <2>1 DEF IInv, HelloTypes, HeldApart
  <2>4. HeldApart'
    BY <2>1, <2>2, <2>3, HeldShrinks DEF IInv
  <2>5. HelloTypes'
    BY <1>4 DEF Crash, IInv, HelloTypes
  <2>. QED BY <2>1, <2>4, <2>5 DEF IInv, NumbersCountUp
<1>5. ASSUME NEW d \in Daemons,
             \/ Request(d) \/ ReceiveCommand(d) \/ ReceiveResult(d)
             \/ ReceiveJunk(d) \/ ReceiveError(d)
      PROVE  IInv'
  BY <1>5, Elsewhere
     DEF Request, ReceiveCommand, ReceiveResult, ReceiveJunk, ReceiveError
<1>6. ASSUME NEW c \in Commands, Collect(c) \/ Handle(c) PROVE IInv'
  BY <1>6, Elsewhere DEF Collect, Handle, SendIdentity, SendCommand
<1>7. ASSUME NEW i \in Identities, Receive(i) PROVE IInv'
  BY <1>7, Elsewhere DEF Receive, ReceiveDone, ReceiveRequest, ReceiveErrorMessage
<1>8. ASSUME ReplyResult \/ \E r \in DOMAIN asked : Settle(r) \/ ReplyIdentity(r)
      PROVE  IInv'
  BY <1>8, Elsewhere DEF ReplyResult, Settle, ReplyIdentity
<1>9. CASE UNCHANGED vars
  BY <1>9, Elsewhere DEF vars
<1>. QED BY <1>1, <1>2, <1>3, <1>4, <1>5, <1>6, <1>7, <1>8, <1>9 DEF Next, Client

(* For any number of managers, crashes and starts, and any width of the    *)
(* number: numbers are unique and a socket is never shared.                *)
THEOREM NumbersAreUnique == Spec => []BInv
<1>1. IInv => BInv
  <2>. SUFFICES ASSUME IInv PROVE BInv
    OBVIOUS
  <2>1. UniqueIdents
    BY DEF UniqueIdents, IInv, NumbersCountUp
  <2>2. OneProcessPerIdentity
    BY DEF OneProcessPerIdentity, IInv, HeldApart, Held
  <2>. QED BY <2>1, <2>2 DEF BInv, IInv, NumbersCountUp, HelloTypes
<1>. QED BY <1>1, InitIInv, NextIInv, PTL DEF Spec

(***************************************************************************)
(* Commands and their results                                              *)
(***************************************************************************)

(* A finite sequence, of whatever. *)
Listed(list) == \E S : list \in Seq(S)

(* All that is in a list was in another one. *)
Within(new, old) == \A k \in 1..Len(new) : \E j \in 1..Len(old) : new[k] = old[j]

(* All that is in a list was in one of two others. *)
Mixed(new, old, more) ==
  \A k \in 1..Len(new) :
    (\E j \in 1..Len(old) : new[k] = old[j]) \/ (\E j \in 1..Len(more) : new[k] = more[j])

LEMMA AppendListed ==
  ASSUME NEW list, Listed(list), NEW e
  PROVE  /\ Listed(Append(list, e))
         /\ \A k \in 1..Len(Append(list, e)) :
              Append(list, e)[k] = e \/ \E j \in 1..Len(list) : Append(list, e)[k] = list[j]
<1>1. PICK S : list \in Seq(S)
  BY DEF Listed
<1> DEFINE T == S \cup {e}
<1>2. list \in Seq(T) /\ e \in T
  <2>1. /\ list \in [1..Len(list) -> S] /\ Len(list) \in Nat
    BY <1>1, LenProperties
  <2>2. list \in [1..Len(list) -> T]
    BY <2>1
  <2> QED
    BY <2>1, <2>2, SeqDef
<1> HIDE DEF T
<1>3. /\ Append(list, e) \in Seq(T)
      /\ Len(Append(list, e)) = Len(list) + 1 /\ Len(list) \in Nat
      /\ \A k \in 1..Len(list) : Append(list, e)[k] = list[k]
      /\ Append(list, e)[Len(list) + 1] = e
  BY <1>2, AppendProperties, LenProperties
<1> QED
  BY <1>3 DEF Listed

LEMMA TailListed ==
  ASSUME NEW list, Listed(list), list # << >>
  PROVE  /\ Listed(Tail(list)) /\ Within(Tail(list), list)
         /\ \E j \in 1..Len(list) : Head(list) = list[j]
<1>1. PICK S : list \in Seq(S)
  BY DEF Listed
<1>2. /\ Tail(list) \in Seq(S) /\ Len(Tail(list)) = Len(list) - 1
      /\ Head(list) = list[1] /\ Len(list) \in Nat \ {0}
      /\ \A k \in 1..Len(Tail(list)) : Tail(list)[k] = list[k + 1]
  BY <1>1, HeadTailProperties, LenProperties, EmptySeq
<1>3. \A k \in 1..Len(Tail(list)) : k + 1 \in 1..Len(list)
  BY <1>2
<1> QED
  BY <1>2, <1>3 DEF Listed, Within

LEMMA ConcatListed ==
  ASSUME NEW list, Listed(list), NEW more, Listed(more)
  PROVE  Listed(list \o more) /\ Mixed(list \o more, list, more)
<1>1. PICK S, T : list \in Seq(S) /\ more \in Seq(T)
  BY DEF Listed
<1> DEFINE U == S \cup T
<1>2. list \in Seq(U) /\ more \in Seq(U)
  <2>1. /\ list \in [1..Len(list) -> S] /\ Len(list) \in Nat
        /\ more \in [1..Len(more) -> T] /\ Len(more) \in Nat
    BY <1>1, LenProperties
  <2>2. list \in [1..Len(list) -> U] /\ more \in [1..Len(more) -> U]
    BY <2>1
  <2> QED
    BY <2>1, <2>2, SeqDef
<1> HIDE DEF U
<1>3. /\ list \o more \in Seq(U) /\ Len(list) \in Nat /\ Len(more) \in Nat
      /\ Len(list \o more) = Len(list) + Len(more)
      /\ \A k \in 1..Len(list) + Len(more) :
           (list \o more)[k] = IF k <= Len(list) THEN list[k] ELSE more[k - Len(list)]
  BY <1>2, ConcatProperties, LenProperties
<1>4. ASSUME NEW k \in 1..Len(list \o more)
      PROVE  \/ \E j \in 1..Len(list) : (list \o more)[k] = list[j]
             \/ \E j \in 1..Len(more) : (list \o more)[k] = more[j]
  <2>1. CASE k <= Len(list)
    BY <1>3, <2>1
  <2>2. CASE ~(k <= Len(list))
    <3>1. k - Len(list) \in 1..Len(more) /\ (list \o more)[k] = more[k - Len(list)]
      BY <1>3, <2>2
    <3> QED
      BY <3>1
  <2> QED
    BY <2>1, <2>2
<1> QED
  BY <1>3, <1>4 DEF Listed, Mixed

(* The result of a command is registered when its id is under way. *)
FrameKnown(frame) == frame.kind = "command" => frame.id \in DOMAIN cmdTable
MessageKnown(message) == message.kind = "done" => message.id \in DOMAIN cmdTable

(* The queues between the processes, and what may be in them. *)
InboxKnown ==
  /\ inbox = [i \in Identities |-> inbox[i]]
  /\ \A i \in Identities :
       Listed(inbox[i]) /\ \A k \in 1..Len(inbox[i]) : FrameKnown(inbox[i][k])

InwardKnown ==
  /\ inward = [i \in Identities |-> inward[i]]
  /\ \A i \in Identities :
       Listed(inward[i]) /\ \A k \in 1..Len(inward[i]) : MessageKnown(inward[i][k])

(* What the data socket waits to send are the identities of receivers, and *)
(* never half of a command: a frame that is routed to the wrong manager is *)
(* no command without a result.                                            *)
PartIsIdentities ==
  Listed(part) /\ \A k \in 1..Len(part) : part[k].kind = "identity"

(* handle() registers the result of a message before it sends it. *)
SendingIsKnown ==
  /\ sending = [c \in Commands |-> sending[c]]
  /\ \A c \in Commands : sending[c] # None => sending[c] \in DOMAIN cmdTable

CommandInv == InboxKnown /\ InwardKnown /\ PartIsIdentities /\ SendingIsKnown

(* What is in the queues after a step is known before it. *)
InboxStaysKnown ==
  /\ inbox' = [i \in Identities |-> inbox'[i]]
  /\ \A i \in Identities :
       Listed(inbox'[i]) /\ \A k \in 1..Len(inbox'[i]) : FrameKnown(inbox'[i][k])

InwardStaysKnown ==
  /\ inward' = [i \in Identities |-> inward'[i]]
  /\ \A i \in Identities :
       Listed(inward'[i]) /\ \A k \in 1..Len(inward'[i]) : MessageKnown(inward'[i][k])

(* No entry of m_cmdTable is removed, so what is known stays known. *)
LEMMA KnownStays ==
  ASSUME InboxStaysKnown, InwardStaysKnown, DOMAIN cmdTable \subseteq DOMAIN cmdTable'
  PROVE  InboxKnown' /\ InwardKnown'
BY DEF InboxStaysKnown, InwardStaysKnown, InboxKnown, InwardKnown, FrameKnown, MessageKnown

LEMMA QueuesStay ==
  ASSUME CommandInv
  PROVE  (inbox' = inbox => InboxStaysKnown) /\ (inward' = inward => InwardStaysKnown)
BY DEF CommandInv, InboxStaysKnown, InwardStaysKnown, InboxKnown, InwardKnown

LEMMA SendMoreStep ==
  ASSUME CommandInv, NEW i, SendMore(i)
  PROVE  PartIsIdentities' /\ inbox' = inbox
<1> DEFINE frame == [kind |-> "identity", id |-> None, to |-> i]
<1>1. part' = Append(part, frame) /\ inbox' = inbox
  BY DEF SendMore
<1>2. Listed(part) /\ \A k \in 1..Len(part) : part[k].kind = "identity"
  BY DEF CommandInv, PartIsIdentities
<1>3. frame.kind = "identity"
  OBVIOUS
<1> HIDE DEF frame
<1> QED
  BY <1>1, <1>2, <1>3, AppendListed DEF PartIsIdentities

(* Whatever else is in the way, the frames that arrive are of the kind of  *)
(* the last frame, or identities.                                          *)
LEMMA SendLastStep ==
  ASSUME CommandInv, NEW frame, FrameKnown(frame), SendLast(frame)
  PROVE  PartIsIdentities' /\ InboxStaysKnown
<1>1. /\ Listed(part) /\ \A k \in 1..Len(part) : part[k].kind = "identity"
      /\ inbox = [i \in Identities |-> inbox[i]]
      /\ \A i \in Identities :
           Listed(inbox[i]) /\ \A k \in 1..Len(inbox[i]) : FrameKnown(inbox[i][k])
  BY DEF CommandInv, PartIsIdentities, InboxKnown
<1>2. PartIsIdentities'
  <2>1. part' = << >>
    BY DEF SendLast
  <2>2. << >> \in Seq({}) /\ Len(<< >>) = 0
    BY EmptySeq
  <2> QED
    BY <2>1, <2>2 DEF PartIsIdentities, Listed
<1>3. CASE inbox' = inbox
  BY <1>2, <1>3, QueuesStay
<1>4. CASE inbox' # inbox
  <2> DEFINE to == Head(part).to
             rest == Tail(part)
  <2>1. part # << >> /\ inbox' = [inbox EXCEPT ![to] = @ \o rest \o <<frame>>]
    BY <1>4 DEF SendLast
  <2>2. Listed(rest) /\ \A k \in 1..Len(rest) : FrameKnown(rest[k])
    BY <1>1, <2>1, TailListed DEF Within, FrameKnown
  <2>3. Listed(<<frame>>) /\ \A k \in 1..Len(<<frame>>) : FrameKnown(<<frame>>[k])
    <3>1. <<frame>> \in Seq({frame}) /\ Len(<<frame>>) = 1 /\ <<frame>>[1] = frame
      OBVIOUS
    <3>2. Listed(<<frame>>)
      BY <3>1, Zenon DEF Listed
    <3>3. \A k \in 1..Len(<<frame>>) : <<frame>>[k] = frame
      BY <3>1
    <3> QED
      BY <3>2, <3>3
  <2> HIDE DEF to, rest, FrameKnown
  <2>4. ASSUME NEW i \in Identities
        PROVE  Listed(inbox'[i]) /\ \A k \in 1..Len(inbox'[i]) : FrameKnown(inbox'[i][k])
    <3>1. CASE i # to
      <4>1. inbox'[i] = inbox[i]
        BY <1>1, <2>1, <3>1
      <4> QED
        BY <1>1, <4>1
    <3>2. CASE i = to
      <4>1. inbox'[i] = inbox[i] \o rest \o <<frame>>
        BY <1>1, <2>1, <3>2
      <4>2. /\ Listed(inbox[i] \o rest)
            /\ \A k \in 1..Len(inbox[i] \o rest) : FrameKnown((inbox[i] \o rest)[k])
        <5>1. Listed(inbox[i]) /\ Listed(rest)
          BY <1>1, <2>2
        <5>2. Listed(inbox[i] \o rest) /\ Mixed(inbox[i] \o rest, inbox[i], rest)
          BY <5>1, ConcatListed
        <5> QED
          BY <1>1, <2>2, <5>2 DEF Mixed
      <4>3. /\ Listed((inbox[i] \o rest) \o <<frame>>)
            /\ \A k \in 1..Len((inbox[i] \o rest) \o <<frame>>) :
                 FrameKnown(((inbox[i] \o rest) \o <<frame>>)[k])
        <5> DEFINE most == inbox[i] \o rest
        <5>1. Listed(most) /\ \A k \in 1..Len(most) : FrameKnown(most[k])
          BY <4>2
        <5> HIDE DEF most
        <5>2. Listed(most \o <<frame>>) /\ Mixed(most \o <<frame>>, most, <<frame>>)
          BY <2>3, <5>1, ConcatListed
        <5>3. /\ Listed(most \o <<frame>>)
              /\ \A k \in 1..Len(most \o <<frame>>) : FrameKnown((most \o <<frame>>)[k])
          BY <2>3, <5>1, <5>2 DEF Mixed
        <5> QED
          BY <5>3 DEF most
      <4> QED
        BY <4>1, <4>3
    <3> QED
      BY <3>1, <3>2
  <2>5. inbox' = [i \in Identities |-> inbox'[i]]
    BY <1>1, <2>1
  <2> QED
    BY <1>2, <2>4, <2>5 DEF InboxStaysKnown
<1> QED
  BY <1>3, <1>4

LEMMA SendStep ==
  ASSUME CommandInv, NEW d \in Daemons, NEW message, Send(d, message),
         ident[d] \in Identities => MessageKnown(message)
  PROVE  InwardStaysKnown
<1>1. /\ inward = [i \in Identities |-> inward[i]]
      /\ \A i \in Identities :
           Listed(inward[i]) /\ \A k \in 1..Len(inward[i]) : MessageKnown(inward[i][k])
  BY DEF CommandInv, InwardKnown
<1>2. inward' = [inward EXCEPT ![ident[d]] = Append(@, message)]
  BY DEF Send
<1> HIDE DEF MessageKnown
<1>3. ASSUME NEW i \in Identities
      PROVE  Listed(inward'[i]) /\ \A k \in 1..Len(inward'[i]) : MessageKnown(inward'[i][k])
  <2>1. CASE i # ident[d]
    <3>1. inward'[i] = inward[i]
      BY <1>1, <1>2, <2>1
    <3> QED
      BY <1>1, <3>1
  <2>2. CASE i = ident[d]
    <3>1. inward'[i] = Append(inward[i], message)
      BY <1>1, <1>2, <2>2
    <3>2. MessageKnown(message)
      BY <2>2
    <3> QED
      BY <1>1, <3>1, <3>2, AppendListed
  <2> QED
    BY <2>1, <2>2
<1> QED
  BY <1>1, <1>2, <1>3 DEF InwardStaysKnown

LEMMA TakeStep ==
  ASSUME CommandInv, NEW d \in Daemons, Take(d)
  PROVE  InboxStaysKnown /\ (ident[d] \in Identities => FrameKnown(First(d)))
<1>1. /\ inbox = [i \in Identities |-> inbox[i]]
      /\ \A i \in Identities :
           Listed(inbox[i]) /\ \A k \in 1..Len(inbox[i]) : FrameKnown(inbox[i][k])
  BY DEF CommandInv, InboxKnown
<1>2. inbox[ident[d]] # << >> /\ inbox' = [inbox EXCEPT ![ident[d]] = Tail(@)]
  BY DEF Take
<1> HIDE DEF FrameKnown
<1>3. ASSUME NEW i \in Identities
      PROVE  Listed(inbox'[i]) /\ \A k \in 1..Len(inbox'[i]) : FrameKnown(inbox'[i][k])
  <2>1. CASE i # ident[d]
    <3>1. inbox'[i] = inbox[i]
      BY <1>1, <1>2, <2>1
    <3> QED
      BY <1>1, <3>1
  <2>2. CASE i = ident[d]
    <3>1. inbox'[i] = Tail(inbox[i]) /\ inbox[i] # << >>
      BY <1>1, <1>2, <2>2
    <3> QED
      BY <1>1, <3>1, TailListed DEF Within
  <2> QED
    BY <2>1, <2>2
<1>4. ident[d] \in Identities => FrameKnown(First(d))
  BY <1>1, <1>2, TailListed DEF First
<1> QED
  BY <1>1, <1>2, <1>3, <1>4 DEF InboxStaysKnown

LEMMA ArriveStep ==
  ASSUME CommandInv, NEW i \in Identities, NEW kind, Arrives(i, kind)
  PROVE  InwardStaysKnown
<1>1. /\ inward = [j \in Identities |-> inward[j]]
      /\ \A j \in Identities :
           Listed(inward[j]) /\ \A k \in 1..Len(inward[j]) : MessageKnown(inward[j][k])
  BY DEF CommandInv, InwardKnown
<1>2. inward[i] # << >> /\ inward' = [inward EXCEPT ![i] = Tail(@)]
  BY DEF Arrives
<1> HIDE DEF MessageKnown
<1>3. ASSUME NEW j \in Identities
      PROVE  Listed(inward'[j]) /\ \A k \in 1..Len(inward'[j]) : MessageKnown(inward'[j][k])
  <2>1. CASE j # i
    <3>1. inward'[j] = inward[j]
      BY <1>1, <1>2, <2>1
    <3> QED
      BY <1>1, <3>1
  <2>2. CASE j = i
    <3>1. inward'[j] = Tail(inward[j]) /\ inward[j] # << >>
      BY <1>1, <1>2, <2>2
    <3> QED
      BY <1>1, <3>1, TailListed DEF Within
  <2> QED
    BY <2>1, <2>2
<1> QED
  BY <1>1, <1>2, <1>3 DEF InwardStaysKnown

LEMMA CommandInit == Init => CommandInv
<1> SUFFICES ASSUME Init PROVE CommandInv
  OBVIOUS
<1> USE DEF Init
<1>1. Listed(<< >>) /\ Len(<< >>) = 0
  <2>1. << >> \in Seq({}) /\ Len(<< >>) = 0
    BY EmptySeq
  <2> QED
    BY <2>1 DEF Listed
<1>2. InboxKnown
  BY <1>1 DEF InboxKnown
<1>3. InwardKnown
  BY <1>1 DEF InwardKnown
<1>4. PartIsIdentities
  BY <1>1 DEF PartIsIdentities
<1>5. SendingIsKnown
  BY DEF SendingIsKnown
<1> QED
  BY <1>2, <1>3, <1>4, <1>5 DEF CommandInv

LEMMA CommandStep == CommandInv /\ [Next]_vars => CommandInv'
<1> SUFFICES ASSUME CommandInv, [Next]_vars PROVE CommandInv'
  OBVIOUS
<1>1. /\ PartIsIdentities /\ SendingIsKnown /\ InboxKnown
      /\ inbox' = inbox => InboxStaysKnown
      /\ inward' = inward => InwardStaysKnown
  BY QueuesStay DEF CommandInv
<1>2. part' = part => PartIsIdentities'
  BY <1>1 DEF PartIsIdentities
<1>3. UNCHANGED <<sending, cmdTable>> => SendingIsKnown'
  BY <1>1 DEF SendingIsKnown
<1>4. ASSUME InboxStaysKnown, InwardStaysKnown, PartIsIdentities', SendingIsKnown',
             DOMAIN cmdTable \subseteq DOMAIN cmdTable'
      PROVE  CommandInv'
  BY <1>4, KnownStays DEF CommandInv
<1>5. ASSUME UNCHANGED <<inbox, inward, part, commandVars>> PROVE CommandInv'
  BY <1>1, <1>2, <1>3, <1>4, <1>5 DEF commandVars
<1>6. CASE RegisterDeviceManager
  BY <1>5, <1>6 DEF RegisterDeviceManager, socketVars
<1>7. CASE ReplyResult
  <2> DEFINE frame == [kind |-> "result", id |-> outgoing, status |-> asked[outgoing].status]
  <2>1. SendLast(frame) /\ UNCHANGED <<inward, sending, cmdTable>>
    BY <1>7 DEF ReplyResult, commandVars
  <2>2. FrameKnown(frame)
    BY DEF FrameKnown
  <2> HIDE DEF frame
  <2> QED
    BY <1>1, <1>3, <1>4, <2>1, <2>2, SendLastStep
<1>8. ASSUME NEW d \in Daemons, Boot(d) \/ Crash(d) \/ Request(d) \/ Client(d)
      PROVE  CommandInv'
  <2>1. CASE Boot(d) \/ Welcome(d)
    BY <1>5, <2>1 DEF Boot, Welcome, socketVars
  <2>2. CASE Crash(d)
    <3>1. InboxStaysKnown
      <4>1. Listed(<< >>) /\ Len(<< >>) = 0
        BY EmptySeq DEF Listed
      <4>2. CASE phase[d] # "up"
        BY <1>1, <2>2, <4>2 DEF Crash
      <4>3. CASE phase[d] = "up"
        <5>1. inbox' = [inbox EXCEPT ![ident[d]] = << >>]
          BY <2>2, <4>3 DEF Crash
        <5> QED
          BY <1>1, <4>1, <5>1 DEF InboxKnown, InboxStaysKnown
      <4> QED
        BY <4>2, <4>3
    <3> QED
      BY <1>1, <1>2, <1>3, <1>4, <2>2, <3>1 DEF Crash, commandVars
  <2>3. CASE Request(d)
    <3> DEFINE message == [kind |-> "request", id |-> ids']
    <3>1. Send(d, message) /\ UNCHANGED <<inbox, part, sending, cmdTable>>
      BY <2>3 DEF Request, socketVars, commandVars
    <3>2. MessageKnown(message)
      BY DEF MessageKnown
    <3> HIDE DEF message
    <3> QED
      BY <1>1, <1>2, <1>3, <1>4, <3>1, <3>2, SendStep
  <2>4. CASE ReceiveCommand(d)
    <3>1. Take(d) /\ First(d).kind = "command" /\ UNCHANGED <<part, sending, cmdTable>>
      BY <2>4 DEF ReceiveCommand, commandVars
    <3>2. PICK status : Send(d, [kind |-> "done", id |-> First(d).id, status |-> status])
      BY <2>4 DEF ReceiveCommand
    <3>3. InboxStaysKnown /\ (ident[d] \in Identities => First(d).id \in DOMAIN cmdTable)
      BY <3>1, TakeStep DEF FrameKnown
    <3> DEFINE message == [kind |-> "done", id |-> First(d).id, status |-> status]
    <3>4. ident[d] \in Identities => MessageKnown(message)
      BY <3>3 DEF MessageKnown
    <3>5. Send(d, message)
      BY <3>2
    <3> HIDE DEF message
    <3>6. InwardStaysKnown
      BY <3>4, <3>5, SendStep
    <3> QED
      BY <1>2, <1>3, <1>4, <3>1, <3>3, <3>6
  <2>5. CASE ReceiveJunk(d)
    <3> DEFINE message == [kind |-> "error", id |-> None]
    <3>1. Take(d) /\ Send(d, message) /\ UNCHANGED <<part, sending, cmdTable>>
      BY <2>5 DEF ReceiveJunk, commandVars
    <3>2. MessageKnown(message)
      BY DEF MessageKnown
    <3> HIDE DEF message
    <3> QED
      BY <1>2, <1>3, <1>4, <3>1, <3>2, SendStep, TakeStep
  <2>6. CASE ReceiveResult(d) \/ ReceiveError(d)
    <3>1. Take(d) /\ UNCHANGED <<inward, part, sending, cmdTable>>
      BY <2>6 DEF ReceiveResult, ReceiveError, commandVars
    <3> QED
      BY <1>1, <1>2, <1>3, <1>4, <3>1, TakeStep
  <2> QED
    BY <1>8, <2>1, <2>2, <2>3, <2>4, <2>5, <2>6 DEF Client
<1>9. ASSUME NEW c \in Commands, Collect(c) \/ Handle(c) PROVE CommandInv'
  <2>1. CASE Collect(c)
    <3>1. UNCHANGED <<inbox, inward, part, sending, cmdTable>>
      BY <2>1 DEF Collect, socketVars
    <3> QED
      BY <1>1, <1>2, <1>3, <1>4, <3>1
  <2>2. CASE SendIdentity(c)
    <3>1. /\ SendMore(Head(todo[c])) /\ UNCHANGED inward
          /\ cmdTable' = Insert(cmdTable, ids', "pending")
          /\ sending' = [sending EXCEPT ![c] = ids']
      BY <2>2 DEF SendIdentity
    <3>2. DOMAIN cmdTable' = DOMAIN cmdTable \cup {ids'}
      BY <3>1 DEF Insert
    <3>3. PartIsIdentities' /\ inbox' = inbox
      BY <3>1, SendMoreStep
    <3>4. SendingIsKnown'
      BY <1>1, <3>1, <3>2 DEF SendingIsKnown
    <3> QED
      BY <1>1, <1>4, <3>1, <3>2, <3>3, <3>4
  <2>3. CASE SendCommand(c)
    <3> DEFINE frame == [kind |-> "command", id |-> sending[c]]
    <3>1. /\ SendLast(frame) /\ UNCHANGED <<inward, cmdTable>> /\ sending[c] # None
          /\ sending' = [sending EXCEPT ![c] = None]
      BY <2>3 DEF SendCommand
    <3>2. FrameKnown(frame)
      BY <1>1, <3>1 DEF FrameKnown, SendingIsKnown
    <3>3. SendingIsKnown'
      BY <1>1, <3>1 DEF SendingIsKnown
    <3> HIDE DEF frame
    <3> QED
      BY <1>1, <1>4, <3>1, <3>2, <3>3, SendLastStep
  <2> QED
    BY <1>9, <2>1, <2>2, <2>3 DEF Handle
<1>10. ASSUME NEW i \in Identities, Receive(i) PROVE CommandInv'
  <2>1. CASE ReceiveDone(i)
    <3>1. /\ Arrives(i, "done") /\ UNCHANGED <<inbox, part, sending>>
          /\ DOMAIN cmdTable' = DOMAIN cmdTable
      BY <2>1 DEF ReceiveDone, socketVars
    <3>2. SendingIsKnown'
      BY <1>1, <3>1 DEF SendingIsKnown
    <3> QED
      BY <1>1, <1>2, <1>4, <3>1, <3>2, ArriveStep
  <2>2. CASE ReceiveRequest(i)
    <3>1. Arrives(i, "request") /\ UNCHANGED <<inbox, part, sending, cmdTable>>
      BY <2>2 DEF ReceiveRequest, socketVars, commandVars
    <3> QED
      BY <1>1, <1>2, <1>3, <1>4, <3>1, ArriveStep
  <2>3. CASE ReceiveErrorMessage(i)
    <3> DEFINE frame == [kind |-> "error", id |-> None]
    <3>1. Arrives(i, "error") /\ SendLast(frame) /\ UNCHANGED <<sending, cmdTable>>
      BY <2>3 DEF ReceiveErrorMessage, commandVars
    <3>2. FrameKnown(frame)
      BY DEF FrameKnown
    <3> HIDE DEF frame
    <3> QED
      BY <1>1, <1>3, <1>4, <3>1, <3>2, SendLastStep, ArriveStep
  <2> QED
    BY <1>10, <2>1, <2>2, <2>3 DEF Receive
<1>11. ASSUME NEW r \in DOMAIN asked, Settle(r) \/ ReplyIdentity(r) PROVE CommandInv'
  <2>1. CASE Settle(r)
    BY <1>5, <2>1 DEF Settle, socketVars
  <2>2. CASE ReplyIdentity(r)
    <3>1. SendMore(asked[r].by) /\ UNCHANGED <<inward, sending, cmdTable>>
      BY <2>2 DEF ReplyIdentity, commandVars
    <3> QED
      BY <1>1, <1>3, <1>4, <3>1, SendMoreStep
  <2> QED
    BY <1>11, <2>1, <2>2
<1>12. CASE UNCHANGED vars
  BY <1>5, <1>12 DEF vars, socketVars
<1> QED
  BY <1>6, <1>7, <1>8, <1>9, <1>10, <1>11, <1>12 DEF Next

(* For any number of daemons, managers, commands and threads, and whatever *)
(* is lost or mixed up on the data socket: each result that arrives is the *)
(* result of a command the broker has registered.                          *)
THEOREM ResultsMeetCommands == Spec => []ResultMeetsCommand
<1>1. CommandInv => ResultMeetsCommand
  BY DEF CommandInv, InboxKnown, InwardKnown, FrameKnown, MessageKnown, ResultMeetsCommand
<1> QED
  BY <1>1, CommandInit, CommandStep, PTL DEF Spec
=============================================================================
