------------------------- MODULE WorkProcessor_proofs -------------------------
(***************************************************************************)
(* Proofs about WorkProcessor, for every set of works, clients and pool    *)
(* threads, any number of calls, suspensions and crashes: the locks are    *)
(* held by the threads that are where the locks are taken, a work is       *)
(* executed by one thread at a time, and the repository knows about it:    *)
(* what it shows is the life of a work that WorkLifecycle describes.       *)
(***************************************************************************)
EXTENDS WorkProcessor, TLAPS

(* A push keeps the types of what it writes. *)
LEMMA PushTypes ==
  ASSUME state \in [Works -> States], where \in [Works -> Places],
         NEW w \in Works, NEW d \in SleepKinds, Push(w, d)
  PROVE  state' \in [Works -> States] /\ where' \in [Works -> Places]
<1> USE DEF States, Places
<1>1. PlacesFor(d, where[w]) \subseteq Places
  BY DEF PlacesFor
<1>2. CASE state[w] \in Final
  BY <1>2 DEF Push
<1>3. CASE state[w] \notin Final
  BY <1>1, <1>3 DEF Push
<1> QED
  BY <1>2, <1>3

(* Every step keeps the types. *)
LEMMA TypeStep ==
  ASSUME TypeOK, Busy, [Next]_vars
  PROVE  TypeOK'
<1> USE BehaviourAssumption DEF TypeOK, Busy, States, Final, Places, Pcs, Ops, SleepKinds, Threads, Goto
<1>1. ASSUME NEW t \in Callers, NEW w \in Works, NEW o \in Operations, Call(t, w, o) PROVE TypeOK'
  BY <1>1 DEF Call, workVars, lockVars, loopVars, bounds, dispatcherOnly
<1>2. ASSUME NEW t \in Callers \cup Runners, LockQueue(t) PROVE TypeOK'
  BY <1>2 DEF LockQueue, workVars, lockVars, loopVars, bounds, dispatcherOnly
<1>3. ASSUME NEW t \in Threads, LockAccess(t) PROVE TypeOK'
  BY <1>3 DEF LockAccess, workVars, lockVars, loopVars, bounds, dispatcherOnly
<1>4. ASSUME NEW t \in Callers \cup Runners, NEW w \in Works, PushWork(t, w) PROVE TypeOK'
  <2>1. Push(w, sleep[w])
    BY <1>4 DEF PushWork
  <2>2. state' \in [Works -> States] /\ where' \in [Works -> Places]
    BY <2>1, PushTypes
  <2> QED
    BY <1>4, <2>2 DEF PushWork, UnderLocks, workVars, lockVars, loopVars, bounds, dispatcherOnly
<1>5. ASSUME NEW t \in Callers \cup Runners, NEW w \in Works, WakeWork(t, w) PROVE TypeOK'
  <2>1. Push(w, "zero")
    BY <1>5 DEF WakeWork
  <2>2. state' \in [Works -> States] /\ where' \in [Works -> Places]
    BY <2>1, PushTypes
  <2> QED
    BY <1>5, <2>2 DEF WakeWork, UnderLocks, workVars, lockVars, loopVars, bounds, dispatcherOnly
<1>6. ASSUME NEW t \in Callers \cup Runners, NEW w \in Works, CancelWork(t, w) PROVE TypeOK'
  BY <1>6 DEF CancelWork, UnderLocks, workVars, lockVars, loopVars, bounds, dispatcherOnly
<1>7. ASSUME NEW t \in Callers \cup Runners, Store(t) PROVE TypeOK'
  BY <1>7 DEF Store, workVars, lockVars, loopVars, bounds, dispatcherOnly
<1>8. ASSUME NEW r \in Runners, Begin(r) PROVE TypeOK'
  BY <1>8 DEF Begin, workVars, lockVars, loopVars, bounds, dispatcherOnly
<1>9. ASSUME NEW r \in Runners, Prepare(r) PROVE TypeOK'
  BY <1>9 DEF Prepare, workVars, lockVars, loopVars, bounds, dispatcherOnly
<1>10. ASSUME NEW r \in Runners, NEW outcome \in Outcomes, Execute(r, outcome) PROVE TypeOK'
  BY <1>10 DEF Execute, workVars, lockVars, loopVars, bounds, dispatcherOnly
<1>11. ASSUME NEW r \in Runners, Finish(r) PROVE TypeOK'
  BY <1>11 DEF Finish, workVars, lockVars, loopVars, bounds, dispatcherOnly
<1>12. ASSUME NEW r \in Runners, Nap(r) PROVE TypeOK'
  BY <1>12 DEF Nap, workVars, lockVars, loopVars, bounds, dispatcherOnly
<1>13. ASSUME NEW r \in Runners, Notify(r) PROVE TypeOK'
  BY <1>13 DEF Notify, workVars, lockVars, loopVars, bounds, dispatcherOnly
<1>14. ASSUME Loop PROVE TypeOK'
  BY <1>14 DEF Loop, workVars, lockVars, loopVars, bounds, dispatcherOnly
<1>15. ASSUME NEW w \in Works, PopDue(w) PROVE TypeOK'
  BY <1>15 DEF PopDue, workVars, lockVars, loopVars, bounds, dispatcherOnly
<1>16. ASSUME PopNothing PROVE TypeOK'
  BY <1>16 DEF PopNothing, In, workVars, lockVars, loopVars, bounds, dispatcherOnly
<1>17. ASSUME Woken PROVE TypeOK'
  BY <1>17 DEF Woken, workVars, lockVars, loopVars, bounds, dispatcherOnly
<1>18. ASSUME WokenEarly PROVE TypeOK'
  BY <1>18 DEF WokenEarly, workVars, lockVars, loopVars, bounds, dispatcherOnly
<1>19. ASSUME TimedOut PROVE TypeOK'
  BY <1>19 DEF TimedOut, workVars, lockVars, loopVars, bounds, dispatcherOnly
<1>20. ASSUME Check PROVE TypeOK'
  BY <1>20 DEF Check, workVars, lockVars, loopVars, bounds, dispatcherOnly
<1>21. ASSUME NEW w \in Works, Reject(w) PROVE TypeOK'
  BY <1>21 DEF Reject, UnderLocks, workVars, lockVars, loopVars, bounds, dispatcherOnly
<1>22. ASSUME NEW r \in Runners, Start(r) PROVE TypeOK'
  BY <1>22 DEF Start, workVars, lockVars, loopVars, bounds, dispatcherOnly
<1>23. ASSUME NEW w \in Works, Elapse(w) PROVE TypeOK'
  BY <1>23 DEF Elapse, workVars, lockVars, loopVars, bounds, dispatcherOnly
<1>24. ASSUME Stop PROVE TypeOK'
  BY <1>24 DEF Stop, workVars, lockVars, loopVars, bounds, dispatcherOnly
<1>25. ASSUME Crash PROVE TypeOK'
  <2> DEFINE loaded == [w \in Works |-> IF stored[w] = "EXECUTED" THEN "FAILED" ELSE stored[w]]
  <2>1. loaded \in [Works -> States]
    OBVIOUS
  <2>2. Restart(loaded)
    BY <1>25 DEF Crash
  <2> HIDE DEF loaded
  <2>3. state' \in [Works -> States] /\ stored' \in [Works -> States]
    BY <2>1, <2>2 DEF Restart
  <2>4. where' \in [Works -> Places]
    BY <2>2 DEF Restart
  <2>5. crashes' \in 0 .. MaxCrashes
    BY <2>2 DEF Restart
  <2> QED
    BY <2>2, <2>3, <2>4, <2>5 DEF Restart
<1>z. CASE UNCHANGED vars
  BY <1>z DEF vars, workVars, lockVars, loopVars, bounds
<1> QED
  BY <1>1, <1>2, <1>3, <1>4, <1>5, <1>6, <1>7, <1>8, <1>9, <1>10, <1>11,
     <1>12, <1>13, <1>14, <1>15, <1>16, <1>17, <1>18, <1>19, <1>20, <1>21,
     <1>22, <1>23, <1>24, <1>25, <1>z
  DEF Next, Calling, Running, Dispatching, Threads

(* Every step leaves a work to the threads that need one. *)
LEMMA BusyStep ==
  ASSUME TypeOK, Busy, [Next]_vars
  PROVE  Busy'
<1> USE ThreadsAssumption DEF TypeOK, Busy, Pcs, Threads, Goto
<1>1. ASSUME NEW t \in Callers, NEW w \in Works, NEW o \in Operations, Call(t, w, o) PROVE Busy'
  BY <1>1 DEF Call, workVars, lockVars, loopVars, bounds, dispatcherOnly
<1>2. ASSUME NEW t \in Callers \cup Runners, LockQueue(t) PROVE Busy'
  BY <1>2 DEF LockQueue, workVars, lockVars, loopVars, bounds, dispatcherOnly
<1>3. ASSUME NEW t \in Threads, LockAccess(t) PROVE Busy'
  BY <1>3 DEF LockAccess, workVars, lockVars, loopVars, bounds, dispatcherOnly
<1>4. ASSUME NEW t \in Callers \cup Runners, NEW w \in Works, PushWork(t, w) PROVE Busy'
  BY <1>4 DEF PushWork, UnderLocks, Push, workVars, lockVars, loopVars, bounds, dispatcherOnly
<1>5. ASSUME NEW t \in Callers \cup Runners, NEW w \in Works, WakeWork(t, w) PROVE Busy'
  BY <1>5 DEF WakeWork, UnderLocks, Push, workVars, lockVars, loopVars, bounds, dispatcherOnly
<1>6. ASSUME NEW t \in Callers \cup Runners, NEW w \in Works, CancelWork(t, w) PROVE Busy'
  BY <1>6 DEF CancelWork, UnderLocks, workVars, lockVars, loopVars, bounds, dispatcherOnly
<1>7. ASSUME NEW t \in Callers \cup Runners, Store(t) PROVE Busy'
  BY <1>7 DEF Store, workVars, lockVars, loopVars, bounds, dispatcherOnly
<1>8. ASSUME NEW r \in Runners, Begin(r) PROVE Busy'
  BY <1>8 DEF Begin, workVars, lockVars, loopVars, bounds, dispatcherOnly
<1>9. ASSUME NEW r \in Runners, Prepare(r) PROVE Busy'
  BY <1>9 DEF Prepare, workVars, lockVars, loopVars, bounds, dispatcherOnly
<1>10. ASSUME NEW r \in Runners, NEW outcome \in Outcomes, Execute(r, outcome) PROVE Busy'
  BY <1>10 DEF Execute, workVars, lockVars, loopVars, bounds, dispatcherOnly
<1>11. ASSUME NEW r \in Runners, Finish(r) PROVE Busy'
  BY <1>11 DEF Finish, workVars, lockVars, loopVars, bounds, dispatcherOnly
<1>12. ASSUME NEW r \in Runners, Nap(r) PROVE Busy'
  BY <1>12 DEF Nap, workVars, lockVars, loopVars, bounds, dispatcherOnly
<1>13. ASSUME NEW r \in Runners, Notify(r) PROVE Busy'
  BY <1>13 DEF Notify, workVars, lockVars, loopVars, bounds, dispatcherOnly
<1>14. ASSUME Loop PROVE Busy'
  BY <1>14 DEF Loop, workVars, lockVars, loopVars, bounds, dispatcherOnly
<1>15. ASSUME NEW w \in Works, PopDue(w) PROVE Busy'
  BY <1>15 DEF PopDue, workVars, lockVars, loopVars, bounds, dispatcherOnly
<1>16. ASSUME PopNothing PROVE Busy'
  BY <1>16 DEF PopNothing, In, workVars, lockVars, loopVars, bounds, dispatcherOnly
<1>17. ASSUME Woken PROVE Busy'
  BY <1>17 DEF Woken, workVars, lockVars, loopVars, bounds, dispatcherOnly
<1>18. ASSUME WokenEarly PROVE Busy'
  BY <1>18 DEF WokenEarly, workVars, lockVars, loopVars, bounds, dispatcherOnly
<1>19. ASSUME TimedOut PROVE Busy'
  BY <1>19 DEF TimedOut, workVars, lockVars, loopVars, bounds, dispatcherOnly
<1>20. ASSUME Check PROVE Busy'
  BY <1>20 DEF Check, workVars, lockVars, loopVars, bounds, dispatcherOnly
<1>21. ASSUME NEW w \in Works, Reject(w) PROVE Busy'
  BY <1>21 DEF Reject, UnderLocks, workVars, lockVars, loopVars, bounds, dispatcherOnly
<1>22. ASSUME NEW r \in Runners, Start(r) PROVE Busy'
  BY <1>22 DEF Start, workVars, lockVars, loopVars, bounds, dispatcherOnly
<1>23. ASSUME NEW w \in Works, Elapse(w) PROVE Busy'
  BY <1>23 DEF Elapse, workVars, lockVars, loopVars, bounds, dispatcherOnly
<1>24. ASSUME Stop PROVE Busy'
  BY <1>24 DEF Stop, workVars, lockVars, loopVars, bounds, dispatcherOnly
<1>25. ASSUME Crash PROVE Busy'
  BY <1>25 DEF Crash, Restart, workVars, lockVars, loopVars, bounds, dispatcherOnly
<1>z. CASE UNCHANGED vars
  BY <1>z DEF vars, workVars, lockVars, loopVars, bounds
<1> QED
  BY <1>1, <1>2, <1>3, <1>4, <1>5, <1>6, <1>7, <1>8, <1>9, <1>10, <1>11,
     <1>12, <1>13, <1>14, <1>15, <1>16, <1>17, <1>18, <1>19, <1>20, <1>21,
     <1>22, <1>23, <1>24, <1>25, <1>z
  DEF Next, Calling, Running, Dispatching, Threads

(* Every step takes and releases the locks the program counters stand for. *)
LEMMA LocksStep ==
  ASSUME TypeOK, Busy, Locks, [Next]_vars
  PROVE  Locks'
<1> USE ThreadsAssumption DEF TypeOK, Busy, Locks, Executing, Threads, Pcs, Goto
<1>1. ASSUME NEW t \in Callers, NEW w \in Works, NEW o \in Operations, Call(t, w, o) PROVE Locks'
  BY <1>1 DEF Call, workVars, lockVars, loopVars, bounds, dispatcherOnly
<1>2. ASSUME NEW t \in Callers \cup Runners, LockQueue(t) PROVE Locks'
  BY <1>2 DEF LockQueue, workVars, lockVars, loopVars, bounds, dispatcherOnly
<1>3. ASSUME NEW t \in Threads, LockAccess(t) PROVE Locks'
  BY <1>3 DEF LockAccess, workVars, lockVars, loopVars, bounds, dispatcherOnly
<1>4. ASSUME NEW t \in Callers \cup Runners, NEW w \in Works, PushWork(t, w) PROVE Locks'
  BY <1>4 DEF PushWork, UnderLocks, Push, workVars, lockVars, loopVars, bounds, dispatcherOnly
<1>5. ASSUME NEW t \in Callers \cup Runners, NEW w \in Works, WakeWork(t, w) PROVE Locks'
  BY <1>5 DEF WakeWork, UnderLocks, Push, workVars, lockVars, loopVars, bounds, dispatcherOnly
<1>6. ASSUME NEW t \in Callers \cup Runners, NEW w \in Works, CancelWork(t, w) PROVE Locks'
  BY <1>6 DEF CancelWork, UnderLocks, workVars, lockVars, loopVars, bounds, dispatcherOnly
<1>7. ASSUME NEW t \in Callers \cup Runners, Store(t) PROVE Locks'
  BY <1>7 DEF Store, workVars, lockVars, loopVars, bounds, dispatcherOnly
<1>8. ASSUME NEW r \in Runners, Begin(r) PROVE Locks'
  BY <1>8 DEF Begin, workVars, lockVars, loopVars, bounds, dispatcherOnly
<1>9. ASSUME NEW r \in Runners, Prepare(r) PROVE Locks'
  BY <1>9 DEF Prepare, workVars, lockVars, loopVars, bounds, dispatcherOnly
<1>10. ASSUME NEW r \in Runners, NEW outcome \in Outcomes, Execute(r, outcome) PROVE Locks'
  BY <1>10 DEF Execute, workVars, lockVars, loopVars, bounds, dispatcherOnly
<1>11. ASSUME NEW r \in Runners, Finish(r) PROVE Locks'
  BY <1>11 DEF Finish, workVars, lockVars, loopVars, bounds, dispatcherOnly
<1>12. ASSUME NEW r \in Runners, Nap(r) PROVE Locks'
  BY <1>12 DEF Nap, workVars, lockVars, loopVars, bounds, dispatcherOnly
<1>13. ASSUME NEW r \in Runners, Notify(r) PROVE Locks'
  BY <1>13 DEF Notify, workVars, lockVars, loopVars, bounds, dispatcherOnly
<1>14. ASSUME Loop PROVE Locks'
  BY <1>14 DEF Loop, workVars, lockVars, loopVars, bounds, dispatcherOnly
<1>15. ASSUME NEW w \in Works, PopDue(w) PROVE Locks'
  BY <1>15 DEF PopDue, workVars, lockVars, loopVars, bounds, dispatcherOnly
<1>16. ASSUME PopNothing PROVE Locks'
  BY <1>16 DEF PopNothing, In, workVars, lockVars, loopVars, bounds, dispatcherOnly
<1>17. ASSUME Woken PROVE Locks'
  BY <1>17 DEF Woken, workVars, lockVars, loopVars, bounds, dispatcherOnly
<1>18. ASSUME WokenEarly PROVE Locks'
  BY <1>18 DEF WokenEarly, workVars, lockVars, loopVars, bounds, dispatcherOnly
<1>19. ASSUME TimedOut PROVE Locks'
  BY <1>19 DEF TimedOut, workVars, lockVars, loopVars, bounds, dispatcherOnly
<1>20. ASSUME Check PROVE Locks'
  BY <1>20 DEF Check, workVars, lockVars, loopVars, bounds, dispatcherOnly
<1>21. ASSUME NEW w \in Works, Reject(w) PROVE Locks'
  BY <1>21 DEF Reject, UnderLocks, workVars, lockVars, loopVars, bounds, dispatcherOnly
<1>22. ASSUME NEW r \in Runners, Start(r) PROVE Locks'
  BY <1>22 DEF Start, workVars, lockVars, loopVars, bounds, dispatcherOnly
<1>23. ASSUME NEW w \in Works, Elapse(w) PROVE Locks'
  BY <1>23 DEF Elapse, workVars, lockVars, loopVars, bounds, dispatcherOnly
<1>24. ASSUME Stop PROVE Locks'
  BY <1>24 DEF Stop, workVars, lockVars, loopVars, bounds, dispatcherOnly
<1>25. ASSUME Crash PROVE Locks'
  BY <1>25 DEF Crash, Restart, workVars, lockVars, loopVars, bounds, dispatcherOnly
<1>z. CASE UNCHANGED vars
  BY <1>z DEF vars, workVars, lockVars, loopVars, bounds
<1> QED
  BY <1>1, <1>2, <1>3, <1>4, <1>5, <1>6, <1>7, <1>8, <1>9, <1>10, <1>11,
     <1>12, <1>13, <1>14, <1>15, <1>16, <1>17, <1>18, <1>19, <1>20, <1>21,
     <1>22, <1>23, <1>24, <1>25, <1>z
  DEF Next, Calling, Running, Dispatching, Threads

(* Every step leaves a work that is being executed EXECUTED: who writes its
   state holds its executionLock. *)
LEMMA RecordedStep ==
  ASSUME TypeOK, Busy, Locks, ExecutionIsRecorded, [Next]_vars
  PROVE  ExecutionIsRecorded'
<1> USE ThreadsAssumption DEF TypeOK, Busy, Locks, Executing, ExecutionIsRecorded, Threads, Pcs, Goto
<1>1. ASSUME NEW t \in Callers, NEW w \in Works, NEW o \in Operations, Call(t, w, o) PROVE ExecutionIsRecorded'
  BY <1>1 DEF Call, workVars, lockVars, loopVars, bounds, dispatcherOnly
<1>2. ASSUME NEW t \in Callers \cup Runners, LockQueue(t) PROVE ExecutionIsRecorded'
  BY <1>2 DEF LockQueue, workVars, lockVars, loopVars, bounds, dispatcherOnly
<1>3. ASSUME NEW t \in Threads, LockAccess(t) PROVE ExecutionIsRecorded'
  BY <1>3 DEF LockAccess, workVars, lockVars, loopVars, bounds, dispatcherOnly
<1>4. ASSUME NEW t \in Callers \cup Runners, NEW w \in Works, PushWork(t, w) PROVE ExecutionIsRecorded'
  BY <1>4 DEF PushWork, UnderLocks, Push, workVars, lockVars, loopVars, bounds, dispatcherOnly
<1>5. ASSUME NEW t \in Callers \cup Runners, NEW w \in Works, WakeWork(t, w) PROVE ExecutionIsRecorded'
  BY <1>5 DEF WakeWork, UnderLocks, Push, workVars, lockVars, loopVars, bounds, dispatcherOnly
<1>6. ASSUME NEW t \in Callers \cup Runners, NEW w \in Works, CancelWork(t, w) PROVE ExecutionIsRecorded'
  BY <1>6 DEF CancelWork, UnderLocks, workVars, lockVars, loopVars, bounds, dispatcherOnly
<1>7. ASSUME NEW t \in Callers \cup Runners, Store(t) PROVE ExecutionIsRecorded'
  BY <1>7 DEF Store, workVars, lockVars, loopVars, bounds, dispatcherOnly
<1>8. ASSUME NEW r \in Runners, Begin(r) PROVE ExecutionIsRecorded'
  BY <1>8 DEF Begin, workVars, lockVars, loopVars, bounds, dispatcherOnly
<1>9. ASSUME NEW r \in Runners, Prepare(r) PROVE ExecutionIsRecorded'
  BY <1>9 DEF Prepare, workVars, lockVars, loopVars, bounds, dispatcherOnly
<1>10. ASSUME NEW r \in Runners, NEW outcome \in Outcomes, Execute(r, outcome) PROVE ExecutionIsRecorded'
  BY <1>10 DEF Execute, workVars, lockVars, loopVars, bounds, dispatcherOnly
<1>11. ASSUME NEW r \in Runners, Finish(r) PROVE ExecutionIsRecorded'
  BY <1>11 DEF Finish, workVars, lockVars, loopVars, bounds, dispatcherOnly
<1>12. ASSUME NEW r \in Runners, Nap(r) PROVE ExecutionIsRecorded'
  BY <1>12 DEF Nap, workVars, lockVars, loopVars, bounds, dispatcherOnly
<1>13. ASSUME NEW r \in Runners, Notify(r) PROVE ExecutionIsRecorded'
  BY <1>13 DEF Notify, workVars, lockVars, loopVars, bounds, dispatcherOnly
<1>14. ASSUME Loop PROVE ExecutionIsRecorded'
  BY <1>14 DEF Loop, workVars, lockVars, loopVars, bounds, dispatcherOnly
<1>15. ASSUME NEW w \in Works, PopDue(w) PROVE ExecutionIsRecorded'
  BY <1>15 DEF PopDue, workVars, lockVars, loopVars, bounds, dispatcherOnly
<1>16. ASSUME PopNothing PROVE ExecutionIsRecorded'
  BY <1>16 DEF PopNothing, In, workVars, lockVars, loopVars, bounds, dispatcherOnly
<1>17. ASSUME Woken PROVE ExecutionIsRecorded'
  BY <1>17 DEF Woken, workVars, lockVars, loopVars, bounds, dispatcherOnly
<1>18. ASSUME WokenEarly PROVE ExecutionIsRecorded'
  BY <1>18 DEF WokenEarly, workVars, lockVars, loopVars, bounds, dispatcherOnly
<1>19. ASSUME TimedOut PROVE ExecutionIsRecorded'
  BY <1>19 DEF TimedOut, workVars, lockVars, loopVars, bounds, dispatcherOnly
<1>20. ASSUME Check PROVE ExecutionIsRecorded'
  BY <1>20 DEF Check, workVars, lockVars, loopVars, bounds, dispatcherOnly
<1>21. ASSUME NEW w \in Works, Reject(w) PROVE ExecutionIsRecorded'
  BY <1>21 DEF Reject, UnderLocks, workVars, lockVars, loopVars, bounds, dispatcherOnly
<1>22. ASSUME NEW r \in Runners, Start(r) PROVE ExecutionIsRecorded'
  BY <1>22 DEF Start, workVars, lockVars, loopVars, bounds, dispatcherOnly
<1>23. ASSUME NEW w \in Works, Elapse(w) PROVE ExecutionIsRecorded'
  BY <1>23 DEF Elapse, workVars, lockVars, loopVars, bounds, dispatcherOnly
<1>24. ASSUME Stop PROVE ExecutionIsRecorded'
  BY <1>24 DEF Stop, workVars, lockVars, loopVars, bounds, dispatcherOnly
<1>25. ASSUME Crash PROVE ExecutionIsRecorded'
  BY <1>25 DEF Crash, Restart, workVars, lockVars, loopVars, bounds, dispatcherOnly
<1>z. CASE UNCHANGED vars
  BY <1>z DEF vars, workVars, lockVars, loopVars, bounds
<1> QED
  BY <1>1, <1>2, <1>3, <1>4, <1>5, <1>6, <1>7, <1>8, <1>9, <1>10, <1>11,
     <1>12, <1>13, <1>14, <1>15, <1>16, <1>17, <1>18, <1>19, <1>20, <1>21,
     <1>22, <1>23, <1>24, <1>25, <1>z
  DEF Next, Calling, Running, Dispatching, Threads

(* Every step that brings a work into the queue sets the event, and the
   dispatcher goes to sleep over the works it has just seen. *)
LEMMA OversleepStep ==
  ASSUME TypeOK, NoOversleep, [Next]_vars
  PROVE  NoOversleep'
<1> USE ThreadsAssumption DEF TypeOK, NoOversleep, In, Threads, Pcs, Places, Goto
<1>1. ASSUME NEW t \in Callers, NEW w \in Works, NEW o \in Operations, Call(t, w, o) PROVE NoOversleep'
  BY <1>1 DEF Call, workVars, lockVars, loopVars, bounds, dispatcherOnly
<1>2. ASSUME NEW t \in Callers \cup Runners, LockQueue(t) PROVE NoOversleep'
  BY <1>2 DEF LockQueue, workVars, lockVars, loopVars, bounds, dispatcherOnly
<1>3. ASSUME NEW t \in Threads, LockAccess(t) PROVE NoOversleep'
  BY <1>3 DEF LockAccess, workVars, lockVars, loopVars, bounds, dispatcherOnly
<1>4. ASSUME NEW t \in Callers \cup Runners, NEW w \in Works, PushWork(t, w) PROVE NoOversleep'
  BY <1>4 DEF PushWork, UnderLocks, Push, workVars, lockVars, loopVars, bounds, dispatcherOnly
<1>5. ASSUME NEW t \in Callers \cup Runners, NEW w \in Works, WakeWork(t, w) PROVE NoOversleep'
  BY <1>5 DEF WakeWork, UnderLocks, Push, workVars, lockVars, loopVars, bounds, dispatcherOnly
<1>6. ASSUME NEW t \in Callers \cup Runners, NEW w \in Works, CancelWork(t, w) PROVE NoOversleep'
  BY <1>6 DEF CancelWork, UnderLocks, workVars, lockVars, loopVars, bounds, dispatcherOnly
<1>7. ASSUME NEW t \in Callers \cup Runners, Store(t) PROVE NoOversleep'
  BY <1>7 DEF Store, workVars, lockVars, loopVars, bounds, dispatcherOnly
<1>8. ASSUME NEW r \in Runners, Begin(r) PROVE NoOversleep'
  BY <1>8 DEF Begin, workVars, lockVars, loopVars, bounds, dispatcherOnly
<1>9. ASSUME NEW r \in Runners, Prepare(r) PROVE NoOversleep'
  BY <1>9 DEF Prepare, workVars, lockVars, loopVars, bounds, dispatcherOnly
<1>10. ASSUME NEW r \in Runners, NEW outcome \in Outcomes, Execute(r, outcome) PROVE NoOversleep'
  BY <1>10 DEF Execute, workVars, lockVars, loopVars, bounds, dispatcherOnly
<1>11. ASSUME NEW r \in Runners, Finish(r) PROVE NoOversleep'
  BY <1>11 DEF Finish, workVars, lockVars, loopVars, bounds, dispatcherOnly
<1>12. ASSUME NEW r \in Runners, Nap(r) PROVE NoOversleep'
  BY <1>12 DEF Nap, workVars, lockVars, loopVars, bounds, dispatcherOnly
<1>13. ASSUME NEW r \in Runners, Notify(r) PROVE NoOversleep'
  BY <1>13 DEF Notify, workVars, lockVars, loopVars, bounds, dispatcherOnly
<1>14. ASSUME Loop PROVE NoOversleep'
  BY <1>14 DEF Loop, workVars, lockVars, loopVars, bounds, dispatcherOnly
<1>15. ASSUME NEW w \in Works, PopDue(w) PROVE NoOversleep'
  BY <1>15 DEF PopDue, workVars, lockVars, loopVars, bounds, dispatcherOnly
<1>16. ASSUME PopNothing PROVE NoOversleep'
  BY <1>16 DEF PopNothing, In, workVars, lockVars, loopVars, bounds, dispatcherOnly
<1>17. ASSUME Woken PROVE NoOversleep'
  BY <1>17 DEF Woken, workVars, lockVars, loopVars, bounds, dispatcherOnly
<1>18. ASSUME WokenEarly PROVE NoOversleep'
  BY <1>18 DEF WokenEarly, workVars, lockVars, loopVars, bounds, dispatcherOnly
<1>19. ASSUME TimedOut PROVE NoOversleep'
  BY <1>19 DEF TimedOut, workVars, lockVars, loopVars, bounds, dispatcherOnly
<1>20. ASSUME Check PROVE NoOversleep'
  BY <1>20 DEF Check, workVars, lockVars, loopVars, bounds, dispatcherOnly
<1>21. ASSUME NEW w \in Works, Reject(w) PROVE NoOversleep'
  BY <1>21 DEF Reject, UnderLocks, workVars, lockVars, loopVars, bounds, dispatcherOnly
<1>22. ASSUME NEW r \in Runners, Start(r) PROVE NoOversleep'
  BY <1>22 DEF Start, workVars, lockVars, loopVars, bounds, dispatcherOnly
<1>23. ASSUME NEW w \in Works, Elapse(w) PROVE NoOversleep'
  BY <1>23 DEF Elapse, workVars, lockVars, loopVars, bounds, dispatcherOnly
<1>24. ASSUME Stop PROVE NoOversleep'
  BY <1>24 DEF Stop, workVars, lockVars, loopVars, bounds, dispatcherOnly
<1>25. ASSUME Crash PROVE NoOversleep'
  BY <1>25 DEF Crash, Restart, workVars, lockVars, loopVars, bounds, dispatcherOnly
<1>z. CASE UNCHANGED vars
  BY <1>z DEF vars, workVars, lockVars, loopVars, bounds
<1> QED
  BY <1>1, <1>2, <1>3, <1>4, <1>5, <1>6, <1>7, <1>8, <1>9, <1>10, <1>11,
     <1>12, <1>13, <1>14, <1>15, <1>16, <1>17, <1>18, <1>19, <1>20, <1>21,
     <1>22, <1>23, <1>24, <1>25, <1>z
  DEF Next, Calling, Running, Dispatching, Threads

(* Every step hands a work that was scheduled once from one place to the   *)
(* next: a wakeup keeps the lock of the queue, so that what it moves is    *)
(* still there, and a runner lets go of what it puts back.                 *)
LEMMA PlaceStep ==
  ASSUME ~Again, TypeOK, Busy, Locks, OnePlace, [Next]_vars
  PROVE  OnePlace'
<1> USE ThreadsAssumption DEF TypeOK, Busy, Locks, Executing, OnePlace, Holders, Scheduling, Threads, Pcs, Places, Final, Goto
<1>1. ASSUME NEW t \in Callers, NEW w \in Works, NEW o \in Operations, Call(t, w, o) PROVE OnePlace'
  BY <1>1 DEF Call, workVars, lockVars, loopVars, bounds, dispatcherOnly
<1>2. ASSUME NEW t \in Callers \cup Runners, LockQueue(t) PROVE OnePlace'
  BY <1>2 DEF LockQueue, workVars, lockVars, loopVars, bounds, dispatcherOnly
<1>3. ASSUME NEW t \in Threads, LockAccess(t) PROVE OnePlace'
  BY <1>3 DEF LockAccess, workVars, lockVars, loopVars, bounds, dispatcherOnly
<1>4. ASSUME NEW t \in Callers \cup Runners, NEW w \in Works, PushWork(t, w) PROVE OnePlace'
  BY <1>4 DEF PushWork, UnderLocks, Push, PlacesFor, workVars, lockVars, loopVars, bounds, dispatcherOnly
<1>5. ASSUME NEW t \in Callers \cup Runners, NEW w \in Works, WakeWork(t, w) PROVE OnePlace'
  BY <1>5 DEF WakeWork, UnderLocks, Push, PlacesFor, workVars, lockVars, loopVars, bounds, dispatcherOnly
<1>6. ASSUME NEW t \in Callers \cup Runners, NEW w \in Works, CancelWork(t, w) PROVE OnePlace'
  BY <1>6 DEF CancelWork, UnderLocks, workVars, lockVars, loopVars, bounds, dispatcherOnly
<1>7. ASSUME NEW t \in Callers \cup Runners, Store(t) PROVE OnePlace'
  BY <1>7 DEF Store, workVars, lockVars, loopVars, bounds, dispatcherOnly
<1>8. ASSUME NEW r \in Runners, Begin(r) PROVE OnePlace'
  BY <1>8 DEF Begin, workVars, lockVars, loopVars, bounds, dispatcherOnly
<1>9. ASSUME NEW r \in Runners, Prepare(r) PROVE OnePlace'
  BY <1>9 DEF Prepare, workVars, lockVars, loopVars, bounds, dispatcherOnly
<1>10. ASSUME NEW r \in Runners, NEW outcome \in Outcomes, Execute(r, outcome) PROVE OnePlace'
  BY <1>10 DEF Execute, workVars, lockVars, loopVars, bounds, dispatcherOnly
<1>11. ASSUME NEW r \in Runners, Finish(r) PROVE OnePlace'
  BY <1>11 DEF Finish, workVars, lockVars, loopVars, bounds, dispatcherOnly
<1>12. ASSUME NEW r \in Runners, Nap(r) PROVE OnePlace'
  BY <1>12 DEF Nap, workVars, lockVars, loopVars, bounds, dispatcherOnly
<1>13. ASSUME NEW r \in Runners, Notify(r) PROVE OnePlace'
  BY <1>13 DEF Notify, workVars, lockVars, loopVars, bounds, dispatcherOnly
<1>14. ASSUME Loop PROVE OnePlace'
  BY <1>14 DEF Loop, workVars, lockVars, loopVars, bounds, dispatcherOnly
<1>15. ASSUME NEW w \in Works, PopDue(w) PROVE OnePlace'
  BY <1>15 DEF PopDue, workVars, lockVars, loopVars, bounds, dispatcherOnly
<1>16. ASSUME PopNothing PROVE OnePlace'
  BY <1>16 DEF PopNothing, In, workVars, lockVars, loopVars, bounds, dispatcherOnly
<1>17. ASSUME Woken PROVE OnePlace'
  BY <1>17 DEF Woken, workVars, lockVars, loopVars, bounds, dispatcherOnly
<1>18. ASSUME WokenEarly PROVE OnePlace'
  BY <1>18 DEF WokenEarly, workVars, lockVars, loopVars, bounds, dispatcherOnly
<1>19. ASSUME TimedOut PROVE OnePlace'
  BY <1>19 DEF TimedOut, workVars, lockVars, loopVars, bounds, dispatcherOnly
<1>20. ASSUME Check PROVE OnePlace'
  BY <1>20 DEF Check, workVars, lockVars, loopVars, bounds, dispatcherOnly
<1>21. ASSUME NEW w \in Works, Reject(w) PROVE OnePlace'
  BY <1>21 DEF Reject, UnderLocks, workVars, lockVars, loopVars, bounds, dispatcherOnly
<1>22. ASSUME NEW r \in Runners, Start(r) PROVE OnePlace'
  BY <1>22 DEF Start, workVars, lockVars, loopVars, bounds, dispatcherOnly
<1>23. ASSUME NEW w \in Works, Elapse(w) PROVE OnePlace'
  BY <1>23 DEF Elapse, workVars, lockVars, loopVars, bounds, dispatcherOnly
<1>24. ASSUME Stop PROVE OnePlace'
  BY <1>24 DEF Stop, workVars, lockVars, loopVars, bounds, dispatcherOnly
<1>25. ASSUME Crash PROVE OnePlace'
  <2> DEFINE loaded == [w \in Works |-> IF stored[w] = "EXECUTED" THEN "FAILED" ELSE stored[w]]
  <2>1. Restart(loaded)
    BY <1>25 DEF Crash
  <2> HIDE DEF loaded
  <2>2. /\ state' = loaded
        /\ job' = [t \in Threads |-> None] /\ op' = [t \in Threads |-> "none"]
    BY <2>1 DEF Restart
  <2>3. ASSUME NEW w \in Works PROVE Holders(w)' = {} /\ Scheduling(w)' = {}
    BY <2>2
  <2>4. ASSUME NEW w \in Works, where'[w] # "out" PROVE state'[w] = "SCHEDULED"
    BY <2>1, <2>2, <2>4 DEF Restart
  <2>5. \A t \in Threads : op'[t] # "wakeup"
    BY <2>2
  <2> HIDE DEF Holders, Scheduling
  <2> QED
    BY <2>3, <2>4, <2>5 DEF OnePlace
<1>z. CASE UNCHANGED vars
  BY <1>z DEF vars, workVars, lockVars, loopVars, bounds
<1> QED
  BY <1>1, <1>2, <1>3, <1>4, <1>5, <1>6, <1>7, <1>8, <1>9, <1>10, <1>11,
     <1>12, <1>13, <1>14, <1>15, <1>16, <1>17, <1>18, <1>19, <1>20, <1>21,
     <1>22, <1>23, <1>24, <1>25, <1>z
  DEF Next, Calling, Running, Dispatching, Threads

-----------------------------------------------------------------------------

LEMMA InvInit == Init => LInv
<1> SUFFICES ASSUME Init PROVE LInv
  OBVIOUS
<1> USE ThreadsAssumption, BehaviourAssumption
    DEF Init, States, Places, Pcs, Ops, SleepKinds, Threads
<1>1. TypeOK
  <2>1. /\ state \in [Works -> States]
        /\ finished \in [Works -> BOOLEAN]
        /\ stored \in [Works -> States]
        /\ where \in [Works -> Places]
    OBVIOUS
  <2>2. sleep \in [Works -> SleepKinds]
    OBVIOUS
  <2>3. /\ qlock \in Threads \cup {None}
        /\ access \in [Works -> Threads \cup {None}]
        /\ exec \in [Works -> Threads \cup {None}]
        /\ job \in [Threads -> Works \cup {None}]
        /\ op \in [Threads -> Ops]
    OBVIOUS
  <2>4. pc \in [Threads -> Pcs]
    OBVIOUS
  <2>5. /\ calls \in 0 .. MaxCalls
        /\ turns \in [Works -> 0 .. MaxTurns]
        /\ crashes \in 0 .. MaxCrashes
    OBVIOUS
  <2>6. /\ event \in BOOLEAN
        /\ mayBlock \in BOOLEAN
        /\ watched \in SUBSET Works
        /\ stop \in BOOLEAN
        /\ broken \in BOOLEAN
    OBVIOUS
  <2> QED
    BY <2>1, <2>2, <2>3, <2>4, <2>5, <2>6 DEF TypeOK
<1>2. Locks
  BY DEF Locks, Executing
<1>3. Busy
  BY DEF Busy
<1>4. ExecutionIsRecorded
  BY DEF ExecutionIsRecorded
<1> QED
  BY <1>1, <1>2, <1>3, <1>4 DEF LInv

LEMMA InvStep == LInv /\ [Next]_vars => LInv'
BY TypeStep, BusyStep, LocksStep, RecordedStep DEF LInv

(* LInv holds in every reachable state. *)
THEOREM Invariance == Spec => []LInv
<1> QED
  BY InvInit, InvStep, PTL DEF Spec

(* A work is never executed by two threads at once, however often and by   *)
(* whomever it was scheduled.                                              *)
THEOREM ExecutedByOne == Spec => []OneExecution
<1>1. LInv => OneExecution
  BY DEF LInv, Locks, OneExecution, TypeOK, Threads
<1> QED
  BY <1>1, Invariance, PTL

(* While an executor works on a work, the repository says so: a crash will *)
(* be seen by initQueue().                                                 *)
THEOREM ExecutionsAreRecorded == Spec => []ExecutionIsRecorded
<1>1. LInv => ExecutionIsRecorded
  BY DEF LInv
<1> QED
  BY <1>1, Invariance, PTL

(* The dispatcher never sleeps over a work that is in the active queue.    *)
THEOREM NothingIsOverslept == Spec => []NoOversleep
<1>1. Init => NoOversleep
  BY ThreadsAssumption DEF Init, NoOversleep, Threads
<1>2. LInv /\ NoOversleep /\ [Next]_vars => NoOversleep'
  BY OversleepStep DEF LInv
<1> QED
  BY <1>1, <1>2, Invariance, PTL DEF Spec

(* A work the clients schedule once is in one place at a time, however     *)
(* they wake and cancel it and wherever the process crashes.               *)
THEOREM OnePlaceAtATime == ASSUME ~Again PROVE Spec => []OnePlace
<1>1. Init => OnePlace
  BY ThreadsAssumption DEF Init, OnePlace, Holders, Scheduling, Threads
<1>2. LInv /\ OnePlace /\ [Next]_vars => OnePlace'
  BY PlaceStep DEF LInv
<1> QED
  BY <1>1, <1>2, Invariance, PTL DEF Spec

(***************************************************************************)
(* The life of a work, for clients that schedule a work once and cancel    *)
(* none: cancel() of a work that has ended breaks it.                      *)
(***************************************************************************)

(* The repository lags behind the memory only under the lock of the queue, *)
(* between a push and the update that follows it.                          *)
StoredLags ==
  \A w \in Works :
    \/ stored[w] = state[w]
    \/ /\ state[w] = "SCHEDULED" /\ where[w] # "out"
       /\ stored[w] \in {"IDLE", "EXECUTED"}
       /\ \E t \in Callers \cup Runners : pc[t] = "store" /\ job[t] = w

(* What a thread with a work in its hands knows of the work.               *)
KnownState ==
  /\ pc[Dispatcher] # "store"
  /\ \A w \in Works : job[Dispatcher] = w => state[w] = "SCHEDULED"
  /\ \A r \in Runners, w \in Works : job[r] = w =>
       /\ pc[r] \in {"begin", "prepare"} => state[w] = "SCHEDULED"
       /\ pc[r] \in {"execute", "finish", "nap", "queue", "access", "exec"} =>
            state[w] = "EXECUTED"
  /\ \A r \in Runners : pc[r] \in {"queue", "access", "exec"} => op[r] = "schedule"

NoCancels ==
  /\ \A t \in Threads : op[t] # "cancel"
  /\ \A w \in Works : state[w] # "CANCELED" /\ stored[w] # "CANCELED"

LifeInv == StoredLags /\ KnownState /\ NoCancels

(* Nobody cancels when no client does. *)
LEMMA NoCancelStep ==
  ASSUME "cancel" \notin Operations, TypeOK, Busy, NoCancels, [Next]_vars
  PROVE  NoCancels'
<1> USE ThreadsAssumption, BehaviourAssumption DEF TypeOK, Busy, NoCancels, Threads, Pcs, Ops, Goto
<1>1. ASSUME NEW t \in Callers, NEW w \in Works, NEW o \in Operations, Call(t, w, o) PROVE NoCancels'
  BY <1>1 DEF Call, workVars, lockVars, loopVars, bounds, dispatcherOnly
<1>2. ASSUME NEW t \in Callers \cup Runners, LockQueue(t) PROVE NoCancels'
  BY <1>2 DEF LockQueue, workVars, lockVars, loopVars, bounds, dispatcherOnly
<1>3. ASSUME NEW t \in Threads, LockAccess(t) PROVE NoCancels'
  BY <1>3 DEF LockAccess, workVars, lockVars, loopVars, bounds, dispatcherOnly
<1>4. ASSUME NEW t \in Callers \cup Runners, NEW w \in Works, PushWork(t, w) PROVE NoCancels'
  BY <1>4 DEF PushWork, UnderLocks, Push, PlacesFor, workVars, lockVars, loopVars, bounds, dispatcherOnly
<1>5. ASSUME NEW t \in Callers \cup Runners, NEW w \in Works, WakeWork(t, w) PROVE NoCancels'
  BY <1>5 DEF WakeWork, UnderLocks, Push, PlacesFor, workVars, lockVars, loopVars, bounds, dispatcherOnly
<1>6. ASSUME NEW t \in Callers \cup Runners, NEW w \in Works, CancelWork(t, w) PROVE NoCancels'
  BY <1>6 DEF CancelWork, workVars, lockVars, loopVars, bounds, dispatcherOnly
<1>7. ASSUME NEW t \in Callers \cup Runners, Store(t) PROVE NoCancels'
  BY <1>7 DEF Store, workVars, lockVars, loopVars, bounds, dispatcherOnly
<1>8. ASSUME NEW r \in Runners, Begin(r) PROVE NoCancels'
  BY <1>8 DEF Begin, workVars, lockVars, loopVars, bounds, dispatcherOnly
<1>9. ASSUME NEW r \in Runners, Prepare(r) PROVE NoCancels'
  BY <1>9 DEF Prepare, workVars, lockVars, loopVars, bounds, dispatcherOnly
<1>10. ASSUME NEW r \in Runners, NEW outcome \in Outcomes, Execute(r, outcome) PROVE NoCancels'
  BY <1>10 DEF Execute, workVars, lockVars, loopVars, bounds, dispatcherOnly
<1>11. ASSUME NEW r \in Runners, Finish(r) PROVE NoCancels'
  BY <1>11 DEF Finish, workVars, lockVars, loopVars, bounds, dispatcherOnly
<1>12. ASSUME NEW r \in Runners, Nap(r) PROVE NoCancels'
  BY <1>12 DEF Nap, workVars, lockVars, loopVars, bounds, dispatcherOnly
<1>13. ASSUME NEW r \in Runners, Notify(r) PROVE NoCancels'
  BY <1>13 DEF Notify, workVars, lockVars, loopVars, bounds, dispatcherOnly
<1>14. ASSUME Loop PROVE NoCancels'
  BY <1>14 DEF Loop, workVars, lockVars, loopVars, bounds, dispatcherOnly
<1>15. ASSUME NEW w \in Works, PopDue(w) PROVE NoCancels'
  BY <1>15 DEF PopDue, workVars, lockVars, loopVars, bounds, dispatcherOnly
<1>16. ASSUME PopNothing PROVE NoCancels'
  BY <1>16 DEF PopNothing, In, workVars, lockVars, loopVars, bounds, dispatcherOnly
<1>17. ASSUME Woken PROVE NoCancels'
  BY <1>17 DEF Woken, workVars, lockVars, loopVars, bounds, dispatcherOnly
<1>18. ASSUME WokenEarly PROVE NoCancels'
  BY <1>18 DEF WokenEarly, workVars, lockVars, loopVars, bounds, dispatcherOnly
<1>19. ASSUME TimedOut PROVE NoCancels'
  BY <1>19 DEF TimedOut, workVars, lockVars, loopVars, bounds, dispatcherOnly
<1>20. ASSUME Check PROVE NoCancels'
  BY <1>20 DEF Check, workVars, lockVars, loopVars, bounds, dispatcherOnly
<1>21. ASSUME NEW w \in Works, Reject(w) PROVE NoCancels'
  BY <1>21 DEF Reject, UnderLocks, workVars, lockVars, loopVars, bounds, dispatcherOnly
<1>22. ASSUME NEW r \in Runners, Start(r) PROVE NoCancels'
  BY <1>22 DEF Start, workVars, lockVars, loopVars, bounds, dispatcherOnly
<1>23. ASSUME NEW w \in Works, Elapse(w) PROVE NoCancels'
  BY <1>23 DEF Elapse, workVars, lockVars, loopVars, bounds, dispatcherOnly
<1>24. ASSUME Stop PROVE NoCancels'
  BY <1>24 DEF Stop, workVars, lockVars, loopVars, bounds, dispatcherOnly
<1>25. ASSUME Crash PROVE NoCancels'
  BY <1>25 DEF Crash, Restart, workVars, lockVars, loopVars, bounds, dispatcherOnly
<1>z. CASE UNCHANGED vars
  BY <1>z DEF vars, workVars, lockVars, loopVars, bounds
<1> QED
  BY <1>1, <1>2, <1>3, <1>4, <1>5, <1>6, <1>7, <1>8, <1>9, <1>10, <1>11,
     <1>12, <1>13, <1>14, <1>15, <1>16, <1>17, <1>18, <1>19, <1>20, <1>21,
     <1>22, <1>23, <1>24, <1>25, <1>z
  DEF Next, Calling, Running, Dispatching, Threads

(* A work in the hands of a thread is in one place, so nobody else changes *)
(* its state.                                                              *)
LEMMA KnownStep ==
  ASSUME TypeOK, Busy, Locks, OnePlace, NoCancels, KnownState, [Next]_vars
  PROVE  KnownState'
<1> USE ThreadsAssumption DEF TypeOK, Busy, Locks, OnePlace, Holders, Scheduling, NoCancels, KnownState, Threads, Pcs, Final, Goto
<1>1. ASSUME NEW t \in Callers, NEW w \in Works, NEW o \in Operations, Call(t, w, o) PROVE KnownState'
  BY <1>1 DEF Call, workVars, lockVars, loopVars, bounds, dispatcherOnly
<1>2. ASSUME NEW t \in Callers \cup Runners, LockQueue(t) PROVE KnownState'
  BY <1>2 DEF LockQueue, workVars, lockVars, loopVars, bounds, dispatcherOnly
<1>3. ASSUME NEW t \in Threads, LockAccess(t) PROVE KnownState'
  BY <1>3 DEF LockAccess, workVars, lockVars, loopVars, bounds, dispatcherOnly
<1>4. ASSUME NEW t \in Callers \cup Runners, NEW w \in Works, PushWork(t, w) PROVE KnownState'
  BY <1>4 DEF PushWork, UnderLocks, Push, PlacesFor, workVars, lockVars, loopVars, bounds, dispatcherOnly
<1>5. ASSUME NEW t \in Callers \cup Runners, NEW w \in Works, WakeWork(t, w) PROVE KnownState'
  BY <1>5 DEF WakeWork, UnderLocks, Push, PlacesFor, workVars, lockVars, loopVars, bounds, dispatcherOnly
<1>6. ASSUME NEW t \in Callers \cup Runners, NEW w \in Works, CancelWork(t, w) PROVE KnownState'
  BY <1>6 DEF CancelWork, workVars, lockVars, loopVars, bounds, dispatcherOnly
<1>7. ASSUME NEW t \in Callers \cup Runners, Store(t) PROVE KnownState'
  BY <1>7 DEF Store, workVars, lockVars, loopVars, bounds, dispatcherOnly
<1>8. ASSUME NEW r \in Runners, Begin(r) PROVE KnownState'
  BY <1>8 DEF Begin, workVars, lockVars, loopVars, bounds, dispatcherOnly
<1>9. ASSUME NEW r \in Runners, Prepare(r) PROVE KnownState'
  <2>1. PICK w \in Works : job[r] = w
    BY <1>9 DEF Prepare
  <2>2. /\ pc[r] = "prepare" /\ pc' = [pc EXCEPT ![r] = "execute"]
        /\ state' = [state EXCEPT ![w] = "EXECUTED"] /\ job' = job /\ op' = op
    BY <1>9, <2>1 DEF Prepare
  <2>3. r \in Holders(w)
    BY <2>1, <2>2
  <2>4. ASSUME NEW t \in Runners \cup {Dispatcher}, t # r, job[t] = w PROVE pc[t] = "store"
    BY <2>3, <2>4
  <2>5. job[Dispatcher] # w
    BY <2>4
  <2> QED
    BY <2>1, <2>2, <2>4, <2>5
<1>10. ASSUME NEW r \in Runners, NEW outcome \in Outcomes, Execute(r, outcome) PROVE KnownState'
  BY <1>10 DEF Execute, workVars, lockVars, loopVars, bounds, dispatcherOnly
<1>11. ASSUME NEW r \in Runners, Finish(r) PROVE KnownState'
  BY <1>11 DEF Finish, workVars, lockVars, loopVars, bounds, dispatcherOnly
<1>12. ASSUME NEW r \in Runners, Nap(r) PROVE KnownState'
  BY <1>12 DEF Nap, workVars, lockVars, loopVars, bounds, dispatcherOnly
<1>13. ASSUME NEW r \in Runners, Notify(r) PROVE KnownState'
  BY <1>13 DEF Notify, workVars, lockVars, loopVars, bounds, dispatcherOnly
<1>14. ASSUME Loop PROVE KnownState'
  BY <1>14 DEF Loop, workVars, lockVars, loopVars, bounds, dispatcherOnly
<1>15. ASSUME NEW w \in Works, PopDue(w) PROVE KnownState'
  BY <1>15 DEF PopDue, workVars, lockVars, loopVars, bounds, dispatcherOnly
<1>16. ASSUME PopNothing PROVE KnownState'
  BY <1>16 DEF PopNothing, In, workVars, lockVars, loopVars, bounds, dispatcherOnly
<1>17. ASSUME Woken PROVE KnownState'
  BY <1>17 DEF Woken, workVars, lockVars, loopVars, bounds, dispatcherOnly
<1>18. ASSUME WokenEarly PROVE KnownState'
  BY <1>18 DEF WokenEarly, workVars, lockVars, loopVars, bounds, dispatcherOnly
<1>19. ASSUME TimedOut PROVE KnownState'
  BY <1>19 DEF TimedOut, workVars, lockVars, loopVars, bounds, dispatcherOnly
<1>20. ASSUME Check PROVE KnownState'
  BY <1>20 DEF Check, workVars, lockVars, loopVars, bounds, dispatcherOnly
<1>21. ASSUME NEW w \in Works, Reject(w) PROVE KnownState'
  BY <1>21 DEF Reject, UnderLocks, workVars, lockVars, loopVars, bounds, dispatcherOnly
<1>22. ASSUME NEW r \in Runners, Start(r) PROVE KnownState'
  BY <1>22 DEF Start, workVars, lockVars, loopVars, bounds, dispatcherOnly
<1>23. ASSUME NEW w \in Works, Elapse(w) PROVE KnownState'
  BY <1>23 DEF Elapse, workVars, lockVars, loopVars, bounds, dispatcherOnly
<1>24. ASSUME Stop PROVE KnownState'
  BY <1>24 DEF Stop, workVars, lockVars, loopVars, bounds, dispatcherOnly
<1>25. ASSUME Crash PROVE KnownState'
  BY <1>25 DEF Crash, Restart, workVars, lockVars, loopVars, bounds, dispatcherOnly
<1>z. CASE UNCHANGED vars
  BY <1>z DEF vars, workVars, lockVars, loopVars, bounds
<1> QED
  BY <1>1, <1>2, <1>3, <1>4, <1>5, <1>6, <1>7, <1>8, <1>9, <1>10, <1>11,
     <1>12, <1>13, <1>14, <1>15, <1>16, <1>17, <1>18, <1>19, <1>20, <1>21,
     <1>22, <1>23, <1>24, <1>25, <1>z
  DEF Next, Calling, Running, Dispatching, Threads

(* What a push leaves to be stored is stored under the same lock. *)
LEMMA LagStep ==
  ASSUME TypeOK, Busy, Locks, OnePlace, NoCancels, KnownState, StoredLags, [Next]_vars
  PROVE  StoredLags'
<1> USE ThreadsAssumption DEF TypeOK, Busy, Locks, OnePlace, Holders, Scheduling, NoCancels, KnownState, StoredLags, Threads, Pcs, Places, Final, Goto
<1>1. ASSUME NEW t \in Callers, NEW w \in Works, NEW o \in Operations, Call(t, w, o) PROVE StoredLags'
  BY <1>1 DEF Call, workVars, lockVars, loopVars, bounds, dispatcherOnly
<1>2. ASSUME NEW t \in Callers \cup Runners, LockQueue(t) PROVE StoredLags'
  BY <1>2 DEF LockQueue, workVars, lockVars, loopVars, bounds, dispatcherOnly
<1>3. ASSUME NEW t \in Threads, LockAccess(t) PROVE StoredLags'
  BY <1>3 DEF LockAccess, workVars, lockVars, loopVars, bounds, dispatcherOnly
<1>4. ASSUME NEW t \in Callers \cup Runners, NEW w \in Works, PushWork(t, w) PROVE StoredLags'
  BY <1>4 DEF PushWork, UnderLocks, Push, PlacesFor, workVars, lockVars, loopVars, bounds, dispatcherOnly
<1>5. ASSUME NEW t \in Callers \cup Runners, NEW w \in Works, WakeWork(t, w) PROVE StoredLags'
  BY <1>5 DEF WakeWork, UnderLocks, Push, PlacesFor, workVars, lockVars, loopVars, bounds, dispatcherOnly
<1>6. ASSUME NEW t \in Callers \cup Runners, NEW w \in Works, CancelWork(t, w) PROVE StoredLags'
  BY <1>6 DEF CancelWork, workVars, lockVars, loopVars, bounds, dispatcherOnly
<1>7. ASSUME NEW t \in Callers \cup Runners, Store(t) PROVE StoredLags'
  BY <1>7 DEF Store, workVars, lockVars, loopVars, bounds, dispatcherOnly
<1>8. ASSUME NEW r \in Runners, Begin(r) PROVE StoredLags'
  BY <1>8 DEF Begin, workVars, lockVars, loopVars, bounds, dispatcherOnly
<1>9. ASSUME NEW r \in Runners, Prepare(r) PROVE StoredLags'
  BY <1>9 DEF Prepare, workVars, lockVars, loopVars, bounds, dispatcherOnly
<1>10. ASSUME NEW r \in Runners, NEW outcome \in Outcomes, Execute(r, outcome) PROVE StoredLags'
  BY <1>10 DEF Execute, workVars, lockVars, loopVars, bounds, dispatcherOnly
<1>11. ASSUME NEW r \in Runners, Finish(r) PROVE StoredLags'
  BY <1>11 DEF Finish, workVars, lockVars, loopVars, bounds, dispatcherOnly
<1>12. ASSUME NEW r \in Runners, Nap(r) PROVE StoredLags'
  BY <1>12 DEF Nap, workVars, lockVars, loopVars, bounds, dispatcherOnly
<1>13. ASSUME NEW r \in Runners, Notify(r) PROVE StoredLags'
  BY <1>13 DEF Notify, workVars, lockVars, loopVars, bounds, dispatcherOnly
<1>14. ASSUME Loop PROVE StoredLags'
  BY <1>14 DEF Loop, workVars, lockVars, loopVars, bounds, dispatcherOnly
<1>15. ASSUME NEW w \in Works, PopDue(w) PROVE StoredLags'
  BY <1>15 DEF PopDue, workVars, lockVars, loopVars, bounds, dispatcherOnly
<1>16. ASSUME PopNothing PROVE StoredLags'
  BY <1>16 DEF PopNothing, In, workVars, lockVars, loopVars, bounds, dispatcherOnly
<1>17. ASSUME Woken PROVE StoredLags'
  BY <1>17 DEF Woken, workVars, lockVars, loopVars, bounds, dispatcherOnly
<1>18. ASSUME WokenEarly PROVE StoredLags'
  BY <1>18 DEF WokenEarly, workVars, lockVars, loopVars, bounds, dispatcherOnly
<1>19. ASSUME TimedOut PROVE StoredLags'
  BY <1>19 DEF TimedOut, workVars, lockVars, loopVars, bounds, dispatcherOnly
<1>20. ASSUME Check PROVE StoredLags'
  BY <1>20 DEF Check, workVars, lockVars, loopVars, bounds, dispatcherOnly
<1>21. ASSUME NEW w \in Works, Reject(w) PROVE StoredLags'
  BY <1>21 DEF Reject, UnderLocks, workVars, lockVars, loopVars, bounds, dispatcherOnly
<1>22. ASSUME NEW r \in Runners, Start(r) PROVE StoredLags'
  BY <1>22 DEF Start, workVars, lockVars, loopVars, bounds, dispatcherOnly
<1>23. ASSUME NEW w \in Works, Elapse(w) PROVE StoredLags'
  BY <1>23 DEF Elapse, workVars, lockVars, loopVars, bounds, dispatcherOnly
<1>24. ASSUME Stop PROVE StoredLags'
  BY <1>24 DEF Stop, workVars, lockVars, loopVars, bounds, dispatcherOnly
<1>25. ASSUME Crash PROVE StoredLags'
  BY <1>25 DEF Crash, Restart, workVars, lockVars, loopVars, bounds, dispatcherOnly
<1>z. CASE UNCHANGED vars
  BY <1>z DEF vars, workVars, lockVars, loopVars, bounds
<1> QED
  BY <1>1, <1>2, <1>3, <1>4, <1>5, <1>6, <1>7, <1>8, <1>9, <1>10, <1>11,
     <1>12, <1>13, <1>14, <1>15, <1>16, <1>17, <1>18, <1>19, <1>20, <1>21,
     <1>22, <1>23, <1>24, <1>25, <1>z
  DEF Next, Calling, Running, Dispatching, Threads


(* The works executors are working on. *)
Working == {w \in Works : \E r \in Runners : job[r] = w /\ pc[r] = "execute"}

(* A work that is being executed is in the hands of one runner only. *)
LEMMA WorkingIsHeld ==
  ASSUME OnePlace, ThreadsAssumption, NEW w \in Works, NEW t \in Holders(w)
  PROVE  w \in Working => t \in Runners /\ pc[t] = "execute"
<1> SUFFICES ASSUME w \in Working PROVE t \in Runners /\ pc[t] = "execute"
  OBVIOUS
<1>1. PICK r \in Runners : job[r] = w /\ pc[r] = "execute"
  BY DEF Working
<1>2. r \in Holders(w)
  BY <1>1 DEF Holders
<1>3. r = t
  BY <1>2 DEF OnePlace
<1> QED
  BY <1>1, <1>3

(* What neither stores nor begins or ends an execution goes unseen. *)
LEMMA Unseen ==
  ASSUME stored' = stored,
         \A r \in Runners : (pc'[r] = "execute") <=> (pc[r] = "execute"),
         \A r \in Runners : pc[r] = "execute" => job'[r] = job[r]
  PROVE  UNCHANGED Lifecycle!vars
<1>1. Working' = Working
  BY DEF Working
<1> QED
  BY <1>1 DEF Working, Lifecycle!vars

(* Every step is a step of the life of a work, or goes unseen. *)
LEMMA LifeStep ==
  ASSUME LInv, OnePlace, LifeInv, [Next]_vars
  PROVE  [Lifecycle!Next]_(Lifecycle!vars)
<1>0. /\ TypeOK /\ Locks /\ Busy /\ ExecutionIsRecorded
      /\ StoredLags /\ KnownState /\ NoCancels
  BY DEF LInv, LifeInv
<1> DEFINE Goal == [Lifecycle!Next]_(Lifecycle!vars)
<1> HIDE DEF Goal
<1>s. UNCHANGED Lifecycle!vars => Goal
  BY DEF Goal
<1> USE ThreadsAssumption DEF TypeOK, Threads, Pcs, Goto
<1>1. ASSUME NEW t \in Callers, NEW w \in Works, NEW o \in Operations, Call(t, w, o) PROVE Goal
  BY <1>0, <1>s, <1>1, Unseen DEF Call, workVars, lockVars, loopVars, bounds, dispatcherOnly
<1>2. ASSUME NEW t \in Callers \cup Runners, LockQueue(t) PROVE Goal
  BY <1>0, <1>s, <1>2, Unseen DEF LockQueue, workVars, lockVars, loopVars, bounds, dispatcherOnly
<1>3. ASSUME NEW t \in Threads, LockAccess(t) PROVE Goal
  BY <1>0, <1>s, <1>3, Unseen DEF LockAccess, workVars, lockVars, loopVars, bounds, dispatcherOnly
<1>4. ASSUME NEW t \in Callers \cup Runners, NEW w \in Works, PushWork(t, w) PROVE Goal
  BY <1>0, <1>s, <1>4, Unseen DEF PushWork, UnderLocks, Push, PlacesFor, workVars, lockVars, loopVars, bounds, dispatcherOnly
<1>5. ASSUME NEW t \in Callers \cup Runners, NEW w \in Works, WakeWork(t, w) PROVE Goal
  BY <1>0, <1>s, <1>5, Unseen DEF WakeWork, UnderLocks, Push, PlacesFor, workVars, lockVars, loopVars, bounds, dispatcherOnly
<1>6. ASSUME NEW t \in Callers \cup Runners, NEW w \in Works, CancelWork(t, w) PROVE Goal
  BY <1>0, <1>6 DEF CancelWork, NoCancels
<1>7. ASSUME NEW t \in Callers \cup Runners, Store(t) PROVE Goal
  <2> DEFINE w == job[t]
  <2>1. /\ w \in Works /\ pc[t] = "store"
        /\ stored' = [stored EXCEPT ![w] = state[w]]
        /\ job' = [job EXCEPT ![t] = None]
        /\ pc' = [pc EXCEPT ![t] = IF t \in Runners THEN "notify" ELSE "idle"]
    BY <1>0, <1>7 DEF Store, Busy
  <2>2. Working' = Working
    BY <1>0, <2>1 DEF Working
  <2>3. CASE stored[w] = state[w]
    <3>1. stored' = stored
      BY <1>0, <2>1, <2>3
    <3> QED
      BY <1>s, <2>2, <3>1 DEF Working, Lifecycle!vars
  <2>4. CASE stored[w] # state[w]
    <3>1. /\ state[w] = "SCHEDULED" /\ where[w] # "out"
          /\ stored[w] \in {"IDLE", "EXECUTED"}
      BY <1>0, <2>1, <2>4 DEF StoredLags
    <3>2. w \notin Working
      <4>1. Holders(w) = {}
        BY <2>1, <3>1 DEF OnePlace
      <4> QED
        BY <4>1 DEF Working, Holders
    <3>3. CASE stored[w] = "IDLE"
      <4>1. Lifecycle!Schedule(w)
        BY <2>1, <2>2, <3>1, <3>3 DEF Lifecycle!Schedule, Lifecycle!Move, Working
      <4> QED
        BY <2>1, <4>1 DEF Goal, Lifecycle!Next
    <3>4. CASE stored[w] = "EXECUTED"
      <4>1. Lifecycle!Resolve(w)
        BY <2>1, <2>2, <3>1, <3>2, <3>4 DEF Lifecycle!Resolve, Lifecycle!Move, Working
      <4> QED
        BY <2>1, <4>1 DEF Goal, Lifecycle!Next
    <3> QED
      BY <3>1, <3>3, <3>4
  <2> QED
    BY <2>3, <2>4
<1>8. ASSUME NEW r \in Runners, Begin(r) PROVE Goal
  BY <1>0, <1>s, <1>8, Unseen DEF Begin, workVars, lockVars, loopVars, bounds, dispatcherOnly
<1>9. ASSUME NEW r \in Runners, Prepare(r) PROVE Goal
  <2>1. PICK w \in Works : job[r] = w
    BY <1>0, <1>9 DEF Prepare, Busy
  <2>2. /\ pc[r] = "prepare" /\ pc' = [pc EXCEPT ![r] = "execute"] /\ job' = job
        /\ stored' = [stored EXCEPT ![w] = "EXECUTED"]
    BY <1>9, <2>1 DEF Prepare
  <2>3. state[w] = "SCHEDULED" /\ r \in Holders(w)
    BY <1>0, <2>1, <2>2 DEF KnownState, Holders
  <2>4. stored[w] = "SCHEDULED"
    <3>1. where[w] = "out"
      BY <2>3 DEF OnePlace
    <3> QED
      BY <1>0, <2>3, <3>1 DEF StoredLags
  <2>5. w \notin Working
    BY <2>2, <2>3, WorkingIsHeld
  <2>6. Working' = Working \cup {w}
    BY <1>0, <2>1, <2>2 DEF Working
  <2>7. Lifecycle!Begin(w)
    BY <2>2, <2>4, <2>5, <2>6 DEF Lifecycle!Begin, Lifecycle!Move, Working
  <2> QED
    BY <2>7 DEF Goal, Lifecycle!Next
<1>10. ASSUME NEW r \in Runners, NEW outcome \in Outcomes, Execute(r, outcome) PROVE Goal
  <2>1. PICK w \in Works : job[r] = w
    BY <1>0, <1>10 DEF Execute, Busy
  <2>2. /\ pc[r] = "execute" /\ job' = job /\ stored' = stored
        /\ pc' = [pc EXCEPT ![r] = IF outcome \in {"return", "throw"} THEN "finish" ELSE "nap"]
    BY <1>10 DEF Execute, workVars
  <2>3. w \in Working /\ r \in Holders(w)
    BY <2>1, <2>2 DEF Working, Holders
  <2>4. ASSUME NEW q \in Runners, q # r, job[q] = w PROVE pc[q] # "execute"
    <3>1. pc[q] = "execute" => q \in Holders(w)
      BY <2>4 DEF Holders
    <3> QED
      BY <2>3, <2>4, <3>1 DEF OnePlace
  <2>5. Working' = Working \ {w}
    BY <1>0, <2>1, <2>2, <2>4 DEF Working
  <2>6. Lifecycle!Over(w)
    BY <2>2, <2>3, <2>5 DEF Lifecycle!Over, Working
  <2> QED
    BY <2>6 DEF Goal, Lifecycle!Next
<1>11. ASSUME NEW r \in Runners, Finish(r) PROVE Goal
  <2>1. PICK w \in Works : job[r] = w
    BY <1>0, <1>11 DEF Finish, Busy
  <2>2. PICK to \in {"FINISHED", "FAILED"} : state' = [state EXCEPT ![w] = to]
    BY <1>11, <2>1 DEF Finish
  <2>3. /\ pc[r] = "finish" /\ pc' = [pc EXCEPT ![r] = "notify"]
        /\ job' = [job EXCEPT ![r] = None]
        /\ stored' = [stored EXCEPT ![w] = to]
    BY <1>0, <1>11, <2>1, <2>2 DEF Finish
  <2>4. state[w] = "EXECUTED" /\ r \in Holders(w)
    BY <1>0, <2>1, <2>3 DEF KnownState, Holders
  <2>5. stored[w] = "EXECUTED" /\ w \notin Working
    BY <1>0, <2>3, <2>4, WorkingIsHeld DEF StoredLags
  <2>6. Working' = Working
    BY <1>0, <2>3 DEF Working
  <2>7. Lifecycle!Resolve(w)
    BY <2>3, <2>5, <2>6 DEF Lifecycle!Resolve, Lifecycle!Move, Working
  <2> QED
    BY <2>7 DEF Goal, Lifecycle!Next
<1>12. ASSUME NEW r \in Runners, Nap(r) PROVE Goal
  BY <1>0, <1>s, <1>12, Unseen DEF Nap, workVars, lockVars, loopVars, bounds, dispatcherOnly
<1>13. ASSUME NEW r \in Runners, Notify(r) PROVE Goal
  BY <1>0, <1>s, <1>13, Unseen DEF Notify, workVars, lockVars, loopVars, bounds, dispatcherOnly
<1>14. ASSUME Loop PROVE Goal
  BY <1>0, <1>s, <1>14, Unseen DEF Loop, workVars, lockVars, loopVars, bounds, dispatcherOnly
<1>15. ASSUME NEW w \in Works, PopDue(w) PROVE Goal
  BY <1>0, <1>s, <1>15, Unseen DEF PopDue, workVars, lockVars, loopVars, bounds, dispatcherOnly
<1>16. ASSUME PopNothing PROVE Goal
  BY <1>0, <1>s, <1>16, Unseen DEF PopNothing, In, workVars, lockVars, loopVars, bounds, dispatcherOnly
<1>17. ASSUME Woken PROVE Goal
  BY <1>0, <1>s, <1>17, Unseen DEF Woken, workVars, lockVars, loopVars, bounds, dispatcherOnly
<1>18. ASSUME WokenEarly PROVE Goal
  BY <1>0, <1>s, <1>18, Unseen DEF WokenEarly, workVars, lockVars, loopVars, bounds, dispatcherOnly
<1>19. ASSUME TimedOut PROVE Goal
  BY <1>0, <1>s, <1>19, Unseen DEF TimedOut, workVars, lockVars, loopVars, bounds, dispatcherOnly
<1>20. ASSUME Check PROVE Goal
  BY <1>0, <1>s, <1>20, Unseen DEF Check, workVars, lockVars, loopVars, bounds, dispatcherOnly
<1>21. ASSUME NEW w \in Works, Reject(w) PROVE Goal
  <2>1. /\ job[Dispatcher] = w /\ pc[Dispatcher] = "exec"
        /\ pc' = [pc EXCEPT ![Dispatcher] = "loop"]
        /\ job' = [job EXCEPT ![Dispatcher] = None]
        /\ stored' = [stored EXCEPT ![w] = "FAILED"]
    BY <1>21 DEF Reject, UnderLocks
  <2>2. stored[w] = "SCHEDULED"
    <3>1. state[w] = "SCHEDULED" /\ Dispatcher \in Holders(w)
      BY <1>0, <2>1 DEF KnownState, Holders
    <3>2. where[w] = "out"
      BY <3>1 DEF OnePlace
    <3> QED
      BY <1>0, <3>1, <3>2 DEF StoredLags
  <2>3. Working' = Working
    BY <1>0, <2>1 DEF Working
  <2>4. Lifecycle!Reject(w)
    BY <2>1, <2>2, <2>3 DEF Lifecycle!Reject, Lifecycle!Move, Working
  <2> QED
    BY <2>4 DEF Goal, Lifecycle!Next
<1>22. ASSUME NEW r \in Runners, Start(r) PROVE Goal
  BY <1>0, <1>s, <1>22, Unseen DEF Start, workVars, lockVars, loopVars, bounds, dispatcherOnly
<1>23. ASSUME NEW w \in Works, Elapse(w) PROVE Goal
  BY <1>0, <1>s, <1>23, Unseen DEF Elapse, workVars, lockVars, loopVars, bounds, dispatcherOnly
<1>24. ASSUME Stop PROVE Goal
  BY <1>0, <1>s, <1>24, Unseen DEF Stop, workVars, lockVars, loopVars, bounds, dispatcherOnly
<1>25. ASSUME Crash PROVE Goal
  <2>1. /\ stored' = [w \in Works |-> IF stored[w] = "EXECUTED" THEN "FAILED" ELSE stored[w]]
        /\ pc' = [t \in Threads |-> IF t = Dispatcher THEN "loop" ELSE "idle"]
    BY <1>25 DEF Crash, Restart
  <2>2. Working' = {}
    BY <2>1 DEF Working
  <2>3. Lifecycle!Crash
    BY <2>1, <2>2 DEF Lifecycle!Crash, Working
  <2> QED
    BY <2>3 DEF Goal, Lifecycle!Next
<1>z. CASE UNCHANGED vars
  BY <1>s, <1>z, Unseen DEF vars, workVars, lockVars, loopVars, bounds
<1> QED
  BY <1>1, <1>2, <1>3, <1>4, <1>5, <1>6, <1>7, <1>8, <1>9, <1>10, <1>11,
     <1>12, <1>13, <1>14, <1>15, <1>16, <1>17, <1>18, <1>19, <1>20, <1>21,
     <1>22, <1>23, <1>24, <1>25, <1>z
  DEF Next, Calling, Running, Dispatching, Threads, Goal

LEMMA LifeInit == Init => LifeInv /\ Lifecycle!Init
<1> SUFFICES ASSUME Init PROVE LifeInv /\ Lifecycle!Init
  OBVIOUS
<1> USE ThreadsAssumption DEF Init, Threads
<1>1. StoredLags /\ KnownState /\ NoCancels
  BY DEF StoredLags, KnownState, NoCancels
<1>2. Working = {}
  BY DEF Working
<1> QED
  BY <1>1, <1>2 DEF LifeInv, Lifecycle!Init, Working

(* The repository of a processor whose clients schedule a work once and    *)
(* cancel none shows the documented life of works: with any number of      *)
(* clients, threads, works, suspensions and crashes.                       *)
THEOREM RepositoryShowsLifecycle ==
  ASSUME ~Again, "cancel" \notin Operations
  PROVE  Spec => KeepsLifecycle
<1>1. Init => LifeInv /\ Lifecycle!Init
  BY LifeInit
<1>2. LInv /\ OnePlace /\ LifeInv /\ [Next]_vars => LifeInv'
  BY NoCancelStep, KnownStep, LagStep DEF LInv, LifeInv
<1>3. LInv /\ OnePlace /\ LifeInv /\ [Next]_vars => [Lifecycle!Next]_(Lifecycle!vars)
  BY LifeStep
<1> QED
  BY <1>1, <1>2, <1>3, Invariance, OnePlaceAtATime, PTL
  DEF Spec, KeepsLifecycle, Lifecycle!Spec
=============================================================================
