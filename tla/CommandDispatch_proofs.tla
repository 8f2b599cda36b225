----------------------- MODULE CommandDispatch_proofs -----------------------
(***************************************************************************)
(* Proofs about CommandDispatch, for every set of owners, answers and      *)
(* handlers, every pool size and every behaviour of the handlers: the      *)
(* invariant IInv is inductive, so no update of a result and no wakeup of  *)
(* an owner is ever lost, and the command path implements AnswerDelivery;  *)
(* with handlers that keep their contract, what leaves a queue is complete *)
(* and stays as it is.                                                     *)
(***************************************************************************)
EXTENDS CommandDispatch, SequenceTheorems, FiniteSetTheorems, TLAPS

(* Changing the status of one result gives a list of results again, of the *)
(* same length: what Result::setStatusUnlocked() does to m_resultList.     *)
LEMMA StatusChange ==
  ASSUME NEW list \in Seq(ResultRecord), NEW i \in DOMAIN list, NEW s \in Statuses
  PROVE  WithStatus(list, i, s) \in Seq(ResultRecord)
<1> DEFINE r == [list[i] EXCEPT !.status = s]
<1>1. i \in 1 .. Len(list)
  OBVIOUS
<1>2. list[i] \in ResultRecord
  BY <1>1, ElementOfSeq
<1>3. r \in ResultRecord
  BY <1>2 DEF ResultRecord
<1>4. [list EXCEPT ![i] = r] \in Seq(ResultRecord)
  BY <1>1, <1>3, ExceptSeq
<1> QED
  BY <1>4 DEF WithStatus

(* A fresh PENDING result appended to a list of results. *)
LEMMA FreshResult ==
  ASSUME NEW list \in Seq(ResultRecord), NEW h \in Handlers
  PROVE  Append(list, [by |-> h, status |-> "PENDING"]) \in Seq(ResultRecord)
BY DEF ResultRecord, Statuses

(* An answer without results has nothing to report. *)
LEMMA NothingSettled == SettledIn(<< >>) = {}
BY DEF SettledIn

(* Appending a PENDING result settles nothing. *)
LEMMA FreshIsNoNews ==
  ASSUME NEW list \in Seq(ResultRecord), NEW h \in Handlers
  PROVE  SettledIn(Append(list, [by |-> h, status |-> "PENDING"])) = SettledIn(list)
<1> DEFINE new == Append(list, [by |-> h, status |-> "PENDING"])
<1>1. /\ DOMAIN new = 1 .. (Len(list) + 1)
      /\ DOMAIN list = 1 .. Len(list)
      /\ \A i \in 1 .. Len(list) : new[i] = list[i]
      /\ new[Len(list) + 1].status = "PENDING"
      /\ Len(list) \in Nat
  OBVIOUS
<1>2. {j \in DOMAIN new : new[j].status # "PENDING"}
        = {j \in DOMAIN list : list[j].status # "PENDING"}
  BY <1>1
<1> QED
  BY <1>1, <1>2 DEF SettledIn

-----------------------------------------------------------------------------

(* Every step keeps the types. *)
LEMMA TypeStep ==
  ASSUME TypeOK, OwnWork, Blank, [Next]_vars
  PROVE  TypeOK'
<1> USE DEF TypeOK, AnswersTypeOK, TaskStates, Pcs, LockHolders, Goto
<1>1. ASSUME NEW o \in Owners, NEW a \in Answers, NewCommand(o, a) PROVE TypeOK'
  BY <1>1, NoneAssumption DEF NewCommand, Create
<1>2. ASSUME NEW o \in Owners, NEW H \in SUBSET Handlers, DispatchCollect(o, H)
      PROVE TypeOK'
  <2> DEFINE a == cur[o]
             now == [h \in Handlers |-> IF h \in H THEN "added" ELSE task[a][h]]
  <2>1. pc[o] = "lock" /\ a \in Answers /\ home[a] = o
    BY <1>2 DEF DispatchCollect, OwnWork
  <2>2. now \in [Handlers -> TaskStates]
    BY <2>1
  <2>3. task' = [task EXCEPT ![a] = now] /\ task' \in [Answers -> [Handlers -> TaskStates]]
    BY <1>2, <2>1, <2>2 DEF DispatchCollect
  <2>4. commands' \in [Answers -> SUBSET Handlers]
    BY <1>2, <2>1 DEF DispatchCollect
  <2> HIDE DEF now, a
  <2>5. CASE H = {}
    BY <1>2, <2>3, <2>4, <2>5 DEF DispatchCollect
  <2>6. CASE H # {}
    BY ZenonT(60), <1>2, <2>3, <2>4, <2>6 DEF DispatchCollect
  <2> QED
    BY <2>5, <2>6
<1>3. ASSUME NEW o \in Owners, NEW h \in Handlers, DispatchStart(o, h) PROVE TypeOK'
  BY <1>3 DEF DispatchStart, OwnWork, answerVars, ownerVars
<1>4. ASSUME NEW o \in Owners, DispatchNoThread(o) PROVE TypeOK'
  BY <1>4 DEF DispatchNoThread, Unlock, OwnWork
<1>5. ASSUME NEW o \in Owners, DispatchDone(o) PROVE TypeOK'
  BY <1>5 DEF DispatchDone, Unlock, OwnWork
<1>6. ASSUME NEW o \in Owners, ReportNew(o) PROVE TypeOK'
  BY <1>6 DEF ReportNew, RemoveIfDone, OwnWork
<1>7. ASSUME NEW o \in Owners, NEW t \in Timeouts, StartWait(o, t) PROVE TypeOK'
  BY <1>7 DEF StartWait, AnswerList, answerVars
<1>8. ASSUME NEW o \in Owners, NEW a \in Answers, ScanOne(o, a) PROVE TypeOK'
  BY <1>8 DEF ScanOne, ListOne
<1>9. ASSUME NEW o \in Owners, ScanDone(o) PROVE TypeOK'
  BY <1>9 DEF ScanDone, answerVars
<1>10. ASSUME NEW o \in Owners, Wakeup(o) PROVE TypeOK'
  BY <1>10 DEF Wakeup, ConsumeEvent, AnswerList
<1>11. ASSUME NEW o \in Owners, GiveUp(o) PROVE TypeOK'
  BY <1>11, HandlerAssumption DEF GiveUp, answerVars
<1>12. ASSUME NEW o \in Owners, NEW a \in Answers, Report(o, a) PROVE TypeOK'
  BY <1>12 DEF Report, RemoveIfDone
<1>13. ASSUME NEW o \in Owners, ReportDone(o) PROVE TypeOK'
  BY <1>13, HandlerAssumption DEF ReportDone, answerVars
<1>14. ASSUME NEW a \in Answers, NEW h \in Handlers, HandlerCreatesResult(a, h)
       PROVE TypeOK'
  <2>1. Append(results[a], [by |-> h, status |-> "PENDING"]) \in Seq(ResultRecord)
    BY FreshResult
  <2> QED
    BY <1>14, <2>1 DEF HandlerCreatesResult, NewResult, ownerVars
<1>15. ASSUME NEW a \in Answers, NEW i \in DOMAIN results[a], NEW s \in Statuses,
              SetStatus(a, i, s)
       PROVE TypeOK'
  <2>1. WithStatus(results[a], i, s) \in Seq(ResultRecord)
    BY StatusChange
  <2>2. results' \in [Answers -> Seq(ResultRecord)]
    BY <1>15, <2>1 DEF SetStatus, SetStatusLocked
  <2> QED
    BY <1>15, <2>2 DEF SetStatus, SetStatusLocked, ownerVars
<1>16. ASSUME NEW a \in Answers, Notify(a) PROVE TypeOK'
  BY <1>16 DEF Notify, SetStatusNotify, ownerVars
<1>17. ASSUME NEW a \in Answers, NEW h \in Handlers, HandlerReturns(a, h) PROVE TypeOK'
  BY <1>17 DEF HandlerReturns, answerVars, ownerVars
<1>18. ASSUME NEW a \in Answers, NEW h \in Handlers, HandlerThrows(a, h) PROVE TypeOK'
  BY <1>18 DEF HandlerThrows, answerVars, ownerVars
<1>20. ASSUME NEW a \in Answers, NEW h \in Handlers, HandlerNotifies(a, h)
      PROVE TypeOK'
  BY <1>20 DEF HandlerNotifies, NotifyUpdated, ownerVars, Goto
<1>19. CASE UNCHANGED vars
  BY <1>19 DEF vars, answerVars, ownerVars
<1> QED
  BY <1>1, <1>2, <1>3, <1>4, <1>5, <1>6, <1>7, <1>8, <1>9, <1>10, <1>11, <1>12,
     <1>13, <1>14, <1>15, <1>16, <1>17, <1>18, <1>19, <1>20
  DEF Next, Dispatching, Waiting, Handling

(* Every step leaves the owners with work of their own. *)
LEMMA OwnWorkStep ==
  ASSUME TypeOK, OwnWork, [Next]_vars
  PROVE  OwnWork'
<1>0. /\ home \in [Answers -> Owners \cup {None}]
      /\ queued \subseteq Answers
      /\ pc \in [Owners -> Pcs]
      /\ cur \in [Owners -> Answers \cup {None}]
      /\ toScan \in [Owners -> SUBSET Answers]
      /\ found \in [Owners -> SUBSET Answers]
  BY DEF TypeOK, AnswersTypeOK
<1> USE <1>0, NoneAssumption DEF OwnWork, Goto
<1>1. ASSUME NEW o \in Owners, NEW a \in Answers, NewCommand(o, a)
     PROVE OwnWork'
  <2>1. /\ home[a] = None /\ home' = [home EXCEPT ![a] = o]
        /\ cur' = [cur EXCEPT ![o] = a]
        /\ pc' = [pc EXCEPT ![o] = "lock"]
        /\ toScan' = toScan /\ found' = found
    BY <1>1 DEF NewCommand, Create
  <2>2. \A b \in Answers : home[b] \in Owners => home'[b] = home[b]
    BY <2>1
  <2>3. ASSUME NEW p \in Owners
        PROVE  /\ pc'[p] \in {"lock", "start", "report"} =>
                    cur'[p] \in Answers /\ home'[cur'[p]] = p
               /\ pc'[p] = "block" => found'[p] = {}
               /\ \A b \in toScan'[p] \cup found'[p] : home'[b] = p
    <3>1. CASE p = o
      BY <2>1, <2>2, <3>1
    <3>2. CASE p # o
      BY <2>1, <2>2, <3>2
    <3> QED
      BY <3>1, <3>2
  <2> QED
    BY <2>3
<1>2. ASSUME NEW o \in Owners, NEW H \in SUBSET Handlers, DispatchCollect(o, H)
     PROVE OwnWork'
  <2>1. /\ pc[o] = "lock"
        /\ home' = home /\ cur' = cur /\ toScan' = toScan /\ found' = found
        /\ \/ pc' = [pc EXCEPT ![o] = "report"]
           \/ pc' = [pc EXCEPT ![o] = "start"]
    BY <1>2 DEF DispatchCollect
  <2> QED
    BY <2>1
<1>3. ASSUME NEW o \in Owners, NEW h \in Handlers, DispatchStart(o, h)
     PROVE OwnWork'
  BY <1>3 DEF DispatchStart, answerVars, ownerVars
<1>4. ASSUME NEW o \in Owners, DispatchNoThread(o)
     PROVE OwnWork'
  BY <1>4 DEF DispatchNoThread, Unlock
<1>5. ASSUME NEW o \in Owners, DispatchDone(o)
     PROVE OwnWork'
  BY <1>5 DEF DispatchDone, Unlock
<1>6. ASSUME NEW o \in Owners, ReportNew(o)
     PROVE OwnWork'
  BY <1>6 DEF ReportNew, RemoveIfDone
<1>7. ASSUME NEW o \in Owners, NEW t \in Timeouts, StartWait(o, t)
     PROVE OwnWork'
  BY <1>7 DEF StartWait, AnswerList, answerVars
<1>8. ASSUME NEW o \in Owners, NEW a \in Answers, ScanOne(o, a)
     PROVE OwnWork'
  BY <1>8 DEF ScanOne, ListOne
<1>9. ASSUME NEW o \in Owners, ScanDone(o)
     PROVE OwnWork'
  BY <1>9 DEF ScanDone, answerVars
<1>10. ASSUME NEW o \in Owners, Wakeup(o)
      PROVE OwnWork'
  BY <1>10 DEF Wakeup, ConsumeEvent, AnswerList
<1>11. ASSUME NEW o \in Owners, GiveUp(o)
      PROVE OwnWork'
  BY <1>11 DEF GiveUp, answerVars
<1>12. ASSUME NEW o \in Owners, NEW a \in Answers, Report(o, a)
      PROVE OwnWork'
  BY <1>12 DEF Report, RemoveIfDone
<1>13. ASSUME NEW o \in Owners, ReportDone(o)
      PROVE OwnWork'
  BY <1>13 DEF ReportDone, answerVars
<1>14. ASSUME NEW a \in Answers, NEW h \in Handlers, HandlerCreatesResult(a, h)
      PROVE OwnWork'
  BY <1>14 DEF HandlerCreatesResult, NewResult, ownerVars
<1>15. ASSUME NEW a \in Answers, NEW i \in DOMAIN results[a],
              NEW s \in Statuses, SetStatus(a, i, s)
      PROVE OwnWork'
  BY <1>15 DEF SetStatus, SetStatusLocked, ownerVars
<1>16. ASSUME NEW a \in Answers, Notify(a)
      PROVE OwnWork'
  BY <1>16 DEF Notify, SetStatusNotify, ownerVars
<1>17. ASSUME NEW a \in Answers, NEW h \in Handlers, HandlerReturns(a, h)
      PROVE OwnWork'
  BY <1>17 DEF HandlerReturns, answerVars, ownerVars
<1>18. ASSUME NEW a \in Answers, NEW h \in Handlers, HandlerThrows(a, h)
      PROVE OwnWork'
  BY <1>18 DEF HandlerThrows, answerVars, ownerVars
<1>20. ASSUME NEW a \in Answers, NEW h \in Handlers, HandlerNotifies(a, h)
      PROVE OwnWork'
  BY <1>20 DEF HandlerNotifies, NotifyUpdated, ownerVars, Goto
<1>19. CASE UNCHANGED vars
  BY <1>19 DEF vars, answerVars, ownerVars
<1> QED
  BY <1>1, <1>2, <1>3, <1>4, <1>5, <1>6, <1>7, <1>8, <1>9, <1>10, <1>11, <1>12, <1>13, <1>14, <1>15, <1>16, <1>17, <1>18, <1>19, <1>20
  DEF Next, Dispatching, Waiting, Handling

(* Nothing happens to an answer before it is created. *)
LEMMA BlankStep ==
  ASSUME TypeOK, OwnWork, Blank, [Next]_vars
  PROVE  Blank'
<1> USE NoneAssumption DEF TypeOK, AnswersTypeOK, OwnWork, Blank, Goto
<1>1. ASSUME NEW o \in Owners, NEW a \in Answers, NewCommand(o, a)
     PROVE Blank'
  BY <1>1 DEF NewCommand, Create
<1>2. ASSUME NEW o \in Owners, NEW H \in SUBSET Handlers, DispatchCollect(o, H)
     PROVE Blank'
  BY <1>2 DEF DispatchCollect
<1>3. ASSUME NEW o \in Owners, NEW h \in Handlers, DispatchStart(o, h)
     PROVE Blank'
  BY <1>3 DEF DispatchStart, answerVars, ownerVars
<1>4. ASSUME NEW o \in Owners, DispatchNoThread(o)
     PROVE Blank'
  BY <1>4 DEF DispatchNoThread, Unlock
<1>5. ASSUME NEW o \in Owners, DispatchDone(o)
     PROVE Blank'
  BY <1>5 DEF DispatchDone, Unlock
<1>6. ASSUME NEW o \in Owners, ReportNew(o)
     PROVE Blank'
  BY <1>6 DEF ReportNew, RemoveIfDone
<1>7. ASSUME NEW o \in Owners, NEW t \in Timeouts, StartWait(o, t)
     PROVE Blank'
  BY <1>7 DEF StartWait, AnswerList, answerVars
<1>8. ASSUME NEW o \in Owners, NEW a \in Answers, ScanOne(o, a)
     PROVE Blank'
  BY <1>8 DEF ScanOne, ListOne
<1>9. ASSUME NEW o \in Owners, ScanDone(o)
     PROVE Blank'
  BY <1>9 DEF ScanDone, answerVars
<1>10. ASSUME NEW o \in Owners, Wakeup(o)
      PROVE Blank'
  BY <1>10 DEF Wakeup, ConsumeEvent, AnswerList
<1>11. ASSUME NEW o \in Owners, GiveUp(o)
      PROVE Blank'
  BY <1>11 DEF GiveUp, answerVars
<1>12. ASSUME NEW o \in Owners, NEW a \in Answers, Report(o, a)
      PROVE Blank'
  BY <1>12 DEF Report, RemoveIfDone
<1>13. ASSUME NEW o \in Owners, ReportDone(o)
      PROVE Blank'
  BY <1>13 DEF ReportDone, answerVars
<1>14. ASSUME NEW a \in Answers, NEW h \in Handlers, HandlerCreatesResult(a, h)
      PROVE Blank'
  BY <1>14 DEF HandlerCreatesResult, NewResult, ownerVars
<1>15. ASSUME NEW a \in Answers, NEW i \in DOMAIN results[a],
              NEW s \in Statuses, SetStatus(a, i, s)
      PROVE Blank'
  BY <1>15 DEF SetStatus, SetStatusLocked, ownerVars
<1>16. ASSUME NEW a \in Answers, Notify(a)
      PROVE Blank'
  BY <1>16 DEF Notify, SetStatusNotify, ownerVars
<1>17. ASSUME NEW a \in Answers, NEW h \in Handlers, HandlerReturns(a, h)
      PROVE Blank'
  BY <1>17 DEF HandlerReturns, answerVars, ownerVars
<1>18. ASSUME NEW a \in Answers, NEW h \in Handlers, HandlerThrows(a, h)
      PROVE Blank'
  BY <1>18 DEF HandlerThrows, answerVars, ownerVars
<1>20. ASSUME NEW a \in Answers, NEW h \in Handlers, HandlerNotifies(a, h)
      PROVE Blank'
  BY <1>20 DEF HandlerNotifies, NotifyUpdated, ownerVars, Goto
<1>19. CASE UNCHANGED vars
  BY <1>19 DEF vars, answerVars, ownerVars
<1> QED
  BY <1>1, <1>2, <1>3, <1>4, <1>5, <1>6, <1>7, <1>8, <1>9, <1>10, <1>11, <1>12, <1>13, <1>14, <1>15, <1>16, <1>17, <1>18, <1>19, <1>20
  DEF Next, Dispatching, Waiting, Handling


(* Every step keeps the event set for an owner that would sleep over a dirty
   answer: the flag is raised before the event, and the scan looks at every
   answer after the event was consumed. *)
LEMMA WakeupStep ==
  ASSUME TypeOK, OwnWork, Blank, ScanCatches, NoMissedWakeup, [Next]_vars
  PROVE  ScanCatches' /\ NoMissedWakeup'
<1>0. /\ home \in [Answers -> Owners \cup {None}]
      /\ queued \subseteq Answers
      /\ \A a \in queued : home[a] \in Owners
      /\ pc \in [Owners -> Pcs]
      /\ cur \in [Owners -> Answers \cup {None}]
      /\ toScan \in [Owners -> SUBSET Answers]
      /\ found \in [Owners -> SUBSET Answers]
      /\ event \in [Owners -> BOOLEAN]
      /\ alock \in [Answers -> LockHolders]
      /\ dirty \in [Answers -> BOOLEAN]
      /\ results \in [Answers -> Seq(ResultRecord)]
      /\ reported \in [Answers -> Seq(ResultRecord)]
  BY DEF TypeOK, AnswersTypeOK
<1> USE <1>0, NoneAssumption DEF ScanCatches, NoMissedWakeup, OwnWork, Blank, AnswerList, Goto
<1>1. ASSUME NEW o \in Owners, NEW a \in Answers, NewCommand(o, a)
     PROVE ScanCatches' /\ NoMissedWakeup'
  BY <1>1 DEF NewCommand, Create
<1>2. ASSUME NEW o \in Owners, NEW H \in SUBSET Handlers, DispatchCollect(o, H)
     PROVE ScanCatches' /\ NoMissedWakeup'
  <2> DEFINE b == cur[o]
  <2>1. /\ pc[o] = "lock" /\ b \in Answers /\ home[b] = o
        /\ home' = home /\ queued' = queued /\ toScan' = toScan
    BY <1>2 DEF DispatchCollect
  <2>2. CASE H = {}
    <3>1. /\ pc' = [pc EXCEPT ![o] = "report"]
          /\ dirty' = [dirty EXCEPT ![b] = TRUE]
          /\ event' = [event EXCEPT ![o] = TRUE]
          /\ alock' = alock
      BY <1>2, <2>2 DEF DispatchCollect
    <3> QED
      BY <2>1, <3>1
  <2>3. CASE H # {}
    <3>1. /\ pc' = [pc EXCEPT ![o] = "start"]
          /\ alock' = [alock EXCEPT ![b] = "owner"]
          /\ dirty' = dirty /\ event' = event
      BY <1>2, <2>3 DEF DispatchCollect
    <3> QED
      BY <2>1, <3>1
  <2> QED
    BY <2>2, <2>3
<1>3. ASSUME NEW o \in Owners, NEW h \in Handlers, DispatchStart(o, h)
     PROVE ScanCatches' /\ NoMissedWakeup'
  BY <1>3 DEF DispatchStart, answerVars, ownerVars
<1>4. ASSUME NEW o \in Owners, DispatchNoThread(o)
     PROVE ScanCatches' /\ NoMissedWakeup'
  BY <1>4 DEF DispatchNoThread, Unlock
<1>5. ASSUME NEW o \in Owners, DispatchDone(o)
     PROVE ScanCatches' /\ NoMissedWakeup'
  BY <1>5 DEF DispatchDone, Unlock
<1>6. ASSUME NEW o \in Owners, ReportNew(o)
     PROVE ScanCatches' /\ NoMissedWakeup'
  BY <1>6 DEF ReportNew, RemoveIfDone
<1>7. ASSUME NEW o \in Owners, NEW t \in Timeouts, StartWait(o, t)
     PROVE ScanCatches' /\ NoMissedWakeup'
  BY <1>7 DEF StartWait, answerVars
<1>8. ASSUME NEW o \in Owners, NEW a \in Answers, ScanOne(o, a)
     PROVE ScanCatches' /\ NoMissedWakeup'
  BY <1>8 DEF ScanOne, ListOne
<1>9. ASSUME NEW o \in Owners, ScanDone(o)
     PROVE ScanCatches' /\ NoMissedWakeup'
  BY <1>9 DEF ScanDone, answerVars
<1>10. ASSUME NEW o \in Owners, Wakeup(o)
      PROVE ScanCatches' /\ NoMissedWakeup'
  BY <1>10 DEF Wakeup, ConsumeEvent
<1>11. ASSUME NEW o \in Owners, GiveUp(o)
      PROVE ScanCatches' /\ NoMissedWakeup'
  BY <1>11 DEF GiveUp, answerVars
<1>12. ASSUME NEW o \in Owners, NEW a \in Answers, Report(o, a)
      PROVE ScanCatches' /\ NoMissedWakeup'
  BY <1>12 DEF Report, RemoveIfDone
<1>13. ASSUME NEW o \in Owners, ReportDone(o)
      PROVE ScanCatches' /\ NoMissedWakeup'
  BY <1>13 DEF ReportDone, answerVars
<1>14. ASSUME NEW a \in Answers, NEW h \in Handlers, HandlerCreatesResult(a, h)
      PROVE ScanCatches' /\ NoMissedWakeup'
  BY <1>14 DEF HandlerCreatesResult, NewResult, ownerVars
<1>15. ASSUME NEW a \in Answers, NEW i \in DOMAIN results[a],
              NEW s \in Statuses, SetStatus(a, i, s)
      PROVE ScanCatches' /\ NoMissedWakeup'
  BY <1>15 DEF SetStatus, SetStatusLocked, ownerVars
<1>16. ASSUME NEW a \in Answers, Notify(a)
      PROVE ScanCatches' /\ NoMissedWakeup'
  BY <1>16 DEF Notify, SetStatusNotify, ownerVars
<1>17. ASSUME NEW a \in Answers, NEW h \in Handlers, HandlerReturns(a, h)
      PROVE ScanCatches' /\ NoMissedWakeup'
  BY <1>17 DEF HandlerReturns, answerVars, ownerVars
<1>18. ASSUME NEW a \in Answers, NEW h \in Handlers, HandlerThrows(a, h)
      PROVE ScanCatches' /\ NoMissedWakeup'
  BY <1>18 DEF HandlerThrows, answerVars, ownerVars
<1>20. ASSUME NEW a \in Answers, NEW h \in Handlers, HandlerNotifies(a, h)
      PROVE ScanCatches' /\ NoMissedWakeup'
  BY <1>20 DEF HandlerNotifies, NotifyUpdated, ownerVars, Goto
<1>19. CASE UNCHANGED vars
  BY <1>19 DEF vars, answerVars, ownerVars
<1> QED
  BY <1>1, <1>2, <1>3, <1>4, <1>5, <1>6, <1>7, <1>8, <1>9, <1>10, <1>11, <1>12, <1>13, <1>14, <1>15, <1>16, <1>17, <1>18, <1>19, <1>20
  DEF Next, Dispatching, Waiting, Handling

(* Every step keeps unreported results in a dirty answer or in a dirty list. *)
LEMMA NewsStep ==
  ASSUME TypeOK, OwnWork, Blank, NoLostUpdate, [Next]_vars
  PROVE  NoLostUpdate'
<1> DEFINE Kept(b) == dirty[b] \/ b \in found[home[b]]
<1>a. /\ home \in [Answers -> Owners \cup {None}]
      /\ queued \subseteq Answers
      /\ \A b \in queued : home[b] \in Owners
      /\ cur \in [Owners -> Answers \cup {None}]
      /\ found \in [Owners -> SUBSET Answers]
      /\ dirty \in [Answers -> BOOLEAN]
      /\ results \in [Answers -> Seq(ResultRecord)]
      /\ reported \in [Answers -> Seq(ResultRecord)]
  BY DEF TypeOK, AnswersTypeOK
<1>b. \A b \in queued : Unseen(results[b], reported[b]) => Kept(b)
  BY DEF NoLostUpdate, HasNews
<1>c. \A list : ~ Unseen(list, list)
  BY DEF Unseen
<1> SUFFICES ASSUME NEW b \in queued', Unseen(results'[b], reported'[b])
             PROVE  dirty'[b] \/ b \in found'[home'[b]]
  BY DEF NoLostUpdate, HasNews
<1>1. ASSUME NEW o \in Owners, NEW a \in Answers, NewCommand(o, a)
     PROVE Kept(b)'
  <2>1. /\ home[a] = None /\ home' = [home EXCEPT ![a] = o]
        /\ queued' = queued \cup {a}
        /\ dirty' = dirty /\ results' = results /\ reported' = reported
        /\ found' = found
    BY <1>1 DEF NewCommand, Create, Goto
  <2> QED
    BY <2>1, <1>a, <1>b, <1>c, NothingSettled DEF Blank, Unseen
<1>2. ASSUME NEW o \in Owners, NEW H \in SUBSET Handlers, DispatchCollect(o, H)
     PROVE Kept(b)'
  <2>1. /\ queued' = queued /\ home' = home /\ results' = results /\ reported' = reported
        /\ found' = found
        /\ dirty' = dirty \/ dirty' = [dirty EXCEPT ![cur[o]] = TRUE]
    BY <1>2 DEF DispatchCollect, Goto, OwnWork
  <2> QED
    BY <2>1, <1>a, <1>b, <1>c
<1>3. ASSUME NEW o \in Owners, NEW h \in Handlers, DispatchStart(o, h)
     PROVE Kept(b)'
  BY <1>3, <1>a, <1>b DEF DispatchStart, answerVars, ownerVars, Goto
<1>4. ASSUME NEW o \in Owners, DispatchNoThread(o)
     PROVE Kept(b)'
  BY <1>4, <1>a, <1>b DEF DispatchNoThread, Unlock, Goto
<1>5. ASSUME NEW o \in Owners, DispatchDone(o)
     PROVE Kept(b)'
  BY <1>5, <1>a, <1>b DEF DispatchDone, Unlock, Goto
<1>6. ASSUME NEW o \in Owners, ReportNew(o)
     PROVE Kept(b)'
  <2>1. /\ queued' \subseteq queued /\ home' = home /\ results' = results
        /\ dirty' = dirty /\ found' = found
        /\ reported' = [reported EXCEPT ![cur[o]] = results[cur[o]]]
    BY <1>6 DEF ReportNew, RemoveIfDone, Goto, OwnWork
  <2> QED
    BY <2>1, <1>a, <1>b, <1>c
<1>7. ASSUME NEW o \in Owners, NEW t \in Timeouts, StartWait(o, t)
     PROVE Kept(b)'
  BY <1>7, <1>a, <1>b DEF StartWait, answerVars, Goto
<1>8. ASSUME NEW o \in Owners, NEW a \in Answers, ScanOne(o, a)
     PROVE Kept(b)'
  <2>1. /\ queued' = queued /\ home' = home /\ results' = results /\ reported' = reported
        /\ dirty' = [dirty EXCEPT ![a] = FALSE]
        /\ found' = [found EXCEPT ![o] = IF dirty[a] THEN @ \cup {a} ELSE @]
        /\ home[a] = o
    BY <1>8 DEF ScanOne, ListOne, Goto, OwnWork
  <2> QED
    BY <2>1, <1>a, <1>b, <1>c
<1>9. ASSUME NEW o \in Owners, ScanDone(o)
     PROVE Kept(b)'
  BY <1>9, <1>a, <1>b DEF ScanDone, answerVars, Goto
<1>10. ASSUME NEW o \in Owners, Wakeup(o)
      PROVE Kept(b)'
  BY <1>10, <1>a, <1>b DEF Wakeup, ConsumeEvent, Goto
<1>11. ASSUME NEW o \in Owners, GiveUp(o)
      PROVE Kept(b)'
  BY <1>11, <1>a, <1>b DEF GiveUp, answerVars, Goto
<1>12. ASSUME NEW o \in Owners, NEW a \in Answers, Report(o, a)
      PROVE Kept(b)'
  <2>1. /\ queued' \subseteq queued /\ home' = home /\ results' = results
        /\ dirty' = dirty
        /\ found' = [found EXCEPT ![o] = @ \ {a}]
        /\ reported' = [reported EXCEPT ![a] = results[a]]
    BY <1>12 DEF Report, RemoveIfDone, Goto, OwnWork
  <2> QED
    BY <2>1, <1>a, <1>b, <1>c
<1>13. ASSUME NEW o \in Owners, ReportDone(o)
      PROVE Kept(b)'
  BY <1>13, <1>a, <1>b DEF ReportDone, answerVars, Goto
<1>14. ASSUME NEW a \in Answers, NEW h \in Handlers, HandlerCreatesResult(a, h)
      PROVE Kept(b)'
  <2>1. /\ UNCHANGED <<home, queued, dirty, found, reported>>
        /\ results' = [results EXCEPT ![a] = Append(@, [by |-> h, status |-> "PENDING"])]
    BY <1>14 DEF HandlerCreatesResult, NewResult, ownerVars, Goto
  <2> QED
    BY <2>1, <1>a, <1>b, <1>c, FreshIsNoNews DEF Unseen
<1>15. ASSUME NEW a \in Answers, NEW i \in DOMAIN results[a],
              NEW s \in Statuses, SetStatus(a, i, s)
      PROVE Kept(b)'
  <2>1. /\ UNCHANGED <<home, queued, found, reported>>
        /\ results' = [results EXCEPT ![a] = WithStatus(@, i, s)]
        /\ dirty' = [dirty EXCEPT ![a] = TRUE]
    BY <1>15 DEF SetStatus, SetStatusLocked, ownerVars, Goto
  <2> QED
    BY <2>1, <1>a, <1>b, <1>c
<1>16. ASSUME NEW a \in Answers, Notify(a)
      PROVE Kept(b)'
  BY <1>16, <1>a, <1>b DEF Notify, SetStatusNotify, ownerVars, Goto
<1>17. ASSUME NEW a \in Answers, NEW h \in Handlers, HandlerReturns(a, h)
      PROVE Kept(b)'
  BY <1>17, <1>a, <1>b DEF HandlerReturns, answerVars, ownerVars, Goto
<1>18. ASSUME NEW a \in Answers, NEW h \in Handlers, HandlerThrows(a, h)
      PROVE Kept(b)'
  BY <1>18, <1>a, <1>b DEF HandlerThrows, answerVars, ownerVars, Goto
<1>20. ASSUME NEW a \in Answers, NEW h \in Handlers, HandlerNotifies(a, h)
      PROVE Kept(b)'
  BY <1>20, <1>a, <1>b DEF HandlerNotifies, NotifyUpdated, ownerVars, Goto
<1>19. CASE UNCHANGED vars
  BY <1>19, <1>b DEF vars, answerVars, ownerVars
<1> QED
  BY <1>1, <1>2, <1>3, <1>4, <1>5, <1>6, <1>7, <1>8, <1>9, <1>10, <1>11, <1>12, <1>13, <1>14, <1>15, <1>16, <1>17, <1>18, <1>19, <1>20
  DEF Next, Dispatching, Waiting, Handling

-----------------------------------------------------------------------------

LEMMA InvInit == Init => IInv
BY NoneAssumption, HandlerAssumption
   DEF Init, AnswersInit, IInv, TypeOK, AnswersTypeOK, TaskStates, Pcs, LockHolders,
       OwnWork, Blank, ScanCatches, NoLostUpdate, NoMissedWakeup, AnswerList

LEMMA InvStep == IInv /\ [Next]_vars => IInv'
BY TypeStep, OwnWorkStep, BlankStep, WakeupStep, NewsStep DEF IInv

(* IInv holds in every reachable state. *)
THEOREM Invariance == Spec => []IInv
<1> QED
  BY InvInit, InvStep, PTL DEF Spec

(* The variables of the command path keep their types. *)
THEOREM TypeCorrectness == Spec => []TypeOK
<1>1. IInv => TypeOK
  BY DEF IInv
<1> QED
  BY <1>1, Invariance, PTL

(* A result status that its owner has not reported is always marked by a   *)
(* dirty answer or kept in the owner's dirty list.                         *)
THEOREM UpdatesAreKept == Spec => []NoLostUpdate
<1>1. IInv => NoLostUpdate
  BY DEF IInv
<1> QED
  BY <1>1, Invariance, PTL

(* An owner never sleeps over a dirty answer without a pending event.      *)
THEOREM WakeupsAreKept == Spec => []NoMissedWakeup
<1>1. IInv => NoMissedWakeup
  BY DEF IInv
<1> QED
  BY <1>1, Invariance, PTL

(***************************************************************************)
(* The command path implements AnswerDelivery.                             *)
(***************************************************************************)

(* Owners list, keep and report open answers only, and nothing is reported *)
(* of an answer that was not created.                                      *)
Opened ==
  /\ \A a \in Answers : home[a] = None => reported[a] = << >>
  /\ \A o \in Owners :
       /\ pc[o] \in {"lock", "start", "report"} => cur[o] \in queued
       /\ toScan[o] \cup found[o] \subseteq queued
       /\ pc[o] # "scan" => toScan[o] = {}
       /\ pc[o] \notin {"scan", "handle"} => found[o] = {}

(* What Opened is about. *)
openedVars == <<home, queued, pc, cur, toScan, found, reported>>

LEMMA OpenedStep ==
  ASSUME TypeOK, OwnWork, Opened, [Next]_vars
  PROVE  Opened'
<1>0. /\ home \in [Answers -> Owners \cup {None}]
      /\ queued \subseteq Answers
      /\ pc \in [Owners -> Pcs]
      /\ cur \in [Owners -> Answers \cup {None}]
      /\ toScan \in [Owners -> SUBSET Answers]
      /\ found \in [Owners -> SUBSET Answers]
      /\ reported \in [Answers -> Seq(ResultRecord)]
  BY DEF TypeOK, AnswersTypeOK
<1> USE <1>0, NoneAssumption DEF Opened, Goto
<1>1. ASSUME NEW o \in Owners, NEW a \in Answers, NewCommand(o, a) PROVE Opened'
  BY <1>1 DEF NewCommand, Create
<1>2. ASSUME NEW o \in Owners, NEW H \in SUBSET Handlers, DispatchCollect(o, H) PROVE Opened'
  BY <1>2 DEF DispatchCollect
<1>3. ASSUME NEW o \in Owners, DispatchNoThread(o) \/ DispatchDone(o) PROVE Opened'
  BY <1>3 DEF DispatchNoThread, DispatchDone, Unlock
<1>4. ASSUME NEW o \in Owners, ReportNew(o) PROVE Opened'
  <2>1. /\ pc[o] = "report" /\ cur[o] \in Answers /\ home[cur[o]] = o
        /\ toScan[o] = {} /\ found[o] = {}
    BY <1>4 DEF ReportNew, OwnWork
  <2>2. /\ UNCHANGED <<home, toScan, found>>
        /\ pc' = [pc EXCEPT ![o] = "idle"] /\ cur' = [cur EXCEPT ![o] = None]
        /\ queued \ {cur[o]} \subseteq queued'
        /\ \A a \in Answers : a # cur[o] => reported'[a] = reported[a]
    BY <1>4 DEF ReportNew, RemoveIfDone
  <2>3. ASSUME NEW p \in Owners, p # o
        PROVE  cur[o] \notin toScan[p] \cup found[p]
    BY <2>1, <2>3 DEF OwnWork
  <2>4. ASSUME NEW p \in Owners, p # o, pc[p] \in {"lock", "start", "report"}
        PROVE  cur[p] # cur[o]
    BY <2>1, <2>4 DEF OwnWork
  <2> QED
    BY <2>1, <2>2, <2>3, <2>4
<1>5. ASSUME NEW o \in Owners, NEW t \in Timeouts, StartWait(o, t) PROVE Opened'
  BY <1>5 DEF StartWait, AnswerList, answerVars
<1>6. ASSUME NEW o \in Owners, NEW a \in Answers, ScanOne(o, a) PROVE Opened'
  BY <1>6 DEF ScanOne, ListOne
<1>7. ASSUME NEW o \in Owners, ScanDone(o) PROVE Opened'
  BY <1>7 DEF ScanDone, answerVars
<1>8. ASSUME NEW o \in Owners, Wakeup(o) PROVE Opened'
  BY <1>8 DEF Wakeup, ConsumeEvent, AnswerList
<1>9. ASSUME NEW o \in Owners, GiveUp(o) \/ ReportDone(o) PROVE Opened'
  BY <1>9 DEF GiveUp, ReportDone, answerVars
<1>10. ASSUME NEW o \in Owners, NEW a \in Answers, Report(o, a) PROVE Opened'
  <2>1. /\ pc[o] = "handle" /\ home[a] = o /\ toScan[o] = {}
    BY <1>10 DEF Report, OwnWork
  <2>2. /\ UNCHANGED <<home, toScan, pc, cur>>
        /\ found' = [found EXCEPT ![o] = @ \ {a}]
        /\ queued \ {a} \subseteq queued'
        /\ \A b \in Answers : b # a => reported'[b] = reported[b]
    BY <1>10 DEF Report, RemoveIfDone
  <2>3. ASSUME NEW p \in Owners, p # o
        PROVE  a \notin toScan[p] \cup found[p]
    BY <2>1, <2>3 DEF OwnWork
  <2>4. ASSUME NEW p \in Owners, pc[p] \in {"lock", "start", "report"}
        PROVE  cur[p] # a
    BY <2>1, <2>4 DEF OwnWork
  <2> QED
    BY <2>1, <2>2, <2>3, <2>4
<1>11. CASE UNCHANGED openedVars
  BY <1>11 DEF openedVars
<1>12. ASSUME NEW o \in Owners, NEW h \in Handlers, DispatchStart(o, h)
       PROVE  UNCHANGED openedVars
  BY <1>12 DEF DispatchStart, answerVars, ownerVars, openedVars
<1>13. ASSUME NEW a \in Answers, NEW h \in Handlers, Handling(a, h)
       PROVE  UNCHANGED openedVars
  BY <1>13 DEF Handling, HandlerCreatesResult, NewResult, HandlerReturns, HandlerNotifies,
               NotifyUpdated, HandlerThrows, answerVars, ownerVars, openedVars
<1>14. ASSUME NEW a \in Answers, NEW i \in DOMAIN results[a], NEW s \in Statuses, SetStatus(a, i, s)
       PROVE  UNCHANGED openedVars
  BY <1>14 DEF SetStatus, SetStatusLocked, ownerVars, openedVars
<1>15. ASSUME NEW a \in Answers, Notify(a) PROVE UNCHANGED openedVars
  BY <1>15 DEF Notify, SetStatusNotify, ownerVars, openedVars
<1>16. CASE UNCHANGED vars
  BY <1>11, <1>16 DEF vars, answerVars, ownerVars, openedVars
<1> QED
  BY <1>1, <1>2, <1>3, <1>4, <1>5, <1>6, <1>7, <1>8, <1>9, <1>10, <1>11, <1>12, <1>13,
     <1>14, <1>15, <1>16
  DEF Next, Dispatching, Waiting

(* The facts of the answers, and what the owners have seen of them. *)
Settled == [a \in Answers |-> SettledIn(results[a])]
SeenFacts == [a \in Answers |-> SettledIn(reported[a])]

(* A new status of a result is one new fact, in the place of an old one.   *)
LEMMA StatusSettles ==
  ASSUME NEW list \in Seq(ResultRecord), NEW i \in DOMAIN list, NEW s \in Statuses,
         MayChange(list[i].status, s)
  PROVE  /\ <<i, s>> \notin SettledIn(list)
         /\ SettledIn(WithStatus(list, i, s)) =
              (SettledIn(list) \ {<<i, list[i].status>>}) \cup {<<i, s>>}
<1> DEFINE new == WithStatus(list, i, s)
<1>1. /\ s # "PENDING" /\ s # list[i].status
  BY DEF MayChange
<1>2. i \in 1 .. Len(list) /\ DOMAIN list = 1 .. Len(list)
  OBVIOUS
<1>3. list[i] \in ResultRecord
  BY <1>2, ElementOfSeq
<1>4. /\ DOMAIN new = DOMAIN list
      /\ \A j \in DOMAIN list : j # i => new[j] = list[j]
      /\ new[i].status = s
  BY <1>2, <1>3 DEF WithStatus, ResultRecord
<1> HIDE DEF new
<1>5. SettledIn(new) = (SettledIn(list) \ {<<i, list[i].status>>}) \cup {<<i, s>>}
  BY <1>1, <1>4 DEF SettledIn
<1>6. <<i, s>> \notin SettledIn(list)
  BY <1>1 DEF SettledIn
<1> QED
  BY <1>5, <1>6 DEF new

(* A step that neither opens nor settles nor reports. *)
LEMMA DeliveryStutter ==
  ASSUME UNCHANGED <<queued, results, reported>>
  PROVE  UNCHANGED <<queued, Settled, SeenFacts>>
BY DEF Settled, SeenFacts

(* Every step opens an answer, settles one fact, is a look at an answer or *)
(* does nothing of all this.                                               *)
LEMMA DeliveryStep ==
  ASSUME TypeOK, OwnWork, Blank, Opened, [Next]_vars
  PROVE  [Delivery!Next]_<<queued, Settled, SeenFacts>>
<1>0. /\ queued \subseteq {a \in Answers : home[a] # None}
      /\ results \in [Answers -> Seq(ResultRecord)]
      /\ reported \in [Answers -> Seq(ResultRecord)]
  BY DEF TypeOK, AnswersTypeOK
<1>1. ASSUME NEW o \in Owners, NEW a \in Answers, NewCommand(o, a) PROVE Delivery!Open(a)
  <2>1. home[a] = None /\ queued' = queued \cup {a} /\ UNCHANGED <<results, reported>>
    BY <1>1 DEF NewCommand, Create
  <2>2. results[a] = << >> /\ reported[a] = << >>
    BY <2>1 DEF Blank, Opened
  <2> QED
    BY <1>0, <2>1, <2>2, NothingSettled DEF Delivery!Open, Settled, SeenFacts
<1>2. ASSUME NEW a \in Answers, a \in queued, RemoveIfDone(a),
             reported' = [reported EXCEPT ![a] = results[a]]
      PROVE  Delivery!Look(a)
  <2>1. queued' \in {queued, queued \ {a}} /\ results' = results
    BY <1>2 DEF RemoveIfDone
  <2>2. SeenFacts' = [SeenFacts EXCEPT ![a] = Settled[a]]
    BY <1>0, <1>2 DEF SeenFacts, Settled
  <2>3. Settled' = Settled
    BY <2>1 DEF Settled
  <2> QED
    BY <1>2, <2>1, <2>2, <2>3 DEF Delivery!Look, Settled, SeenFacts
<1>3. ASSUME NEW o \in Owners, ReportNew(o) PROVE \E a \in Answers : Delivery!Look(a)
  <2>1. cur[o] \in Answers /\ cur[o] \in queued
    BY <1>3 DEF ReportNew, Goto, OwnWork, Opened
  <2> QED
    BY <1>2, <1>3, <2>1 DEF ReportNew
<1>4. ASSUME NEW o \in Owners, NEW a \in Answers, Report(o, a) PROVE Delivery!Look(a)
  <2>1. a \in queued
    BY <1>4 DEF Report, Opened
  <2> QED
    BY <1>2, <1>4, <2>1 DEF Report
<1>5. ASSUME NEW a \in Answers, NEW i \in DOMAIN results[a], NEW s \in Statuses, SetStatus(a, i, s)
      PROVE  Delivery!Settle(a)
  <2>1. /\ MayChange(results[a][i].status, s)
        /\ results' = [results EXCEPT ![a] = WithStatus(@, i, s)]
        /\ UNCHANGED <<queued, reported>>
    BY <1>5 DEF SetStatus, SetStatusLocked, ownerVars
  <2> DEFINE fact == <<i, s>>
             old == SettledIn(results[a]) \cap {<<i, results[a][i].status>>}
  <2>2. /\ fact \notin SettledIn(results[a])
        /\ SettledIn(WithStatus(results[a], i, s)) = (SettledIn(results[a]) \ old) \cup {fact}
    BY <1>0, <2>1, StatusSettles
  <2>3. /\ results'[a] = WithStatus(results[a], i, s)
        /\ \A b \in Answers : b # a => results'[b] = results[b]
    BY <1>0, <2>1
  <2> HIDE DEF fact, old
  <2>4. /\ Settled' = [Settled EXCEPT ![a] = (Settled[a] \ old) \cup {fact}]
        /\ fact \in Settled'[a] /\ fact \notin Settled[a]
    BY <2>2, <2>3 DEF Settled
  <2>5. old \in SUBSET Settled[a]
    BY DEF old, Settled
  <2>6. SeenFacts' = SeenFacts /\ queued' = queued
    BY <2>1 DEF SeenFacts
  <2> QED
    BY <2>4, <2>5, <2>6 DEF Delivery!Settle, Settled, SeenFacts
<1>6. ASSUME NEW a \in Answers, NEW h \in Handlers, HandlerCreatesResult(a, h)
      PROVE  UNCHANGED <<queued, Settled, SeenFacts>>
  <2>1. /\ results' = [results EXCEPT ![a] = Append(@, [by |-> h, status |-> "PENDING"])]
        /\ UNCHANGED <<queued, reported>>
    BY <1>6 DEF HandlerCreatesResult, NewResult, ownerVars
  <2>2. \A b \in Answers : SettledIn(results'[b]) = SettledIn(results[b])
    BY <1>0, <2>1, FreshIsNoNews
  <2> QED
    BY <2>1, <2>2 DEF Settled, SeenFacts
<1>7. ASSUME NEW o \in Owners, NEW H \in SUBSET Handlers, DispatchCollect(o, H)
      PROVE  UNCHANGED <<queued, results, reported>>
  BY <1>7 DEF DispatchCollect
<1>8. ASSUME NEW o \in Owners, NEW h \in Handlers, DispatchStart(o, h)
      PROVE  UNCHANGED <<queued, results, reported>>
  BY <1>8 DEF DispatchStart, answerVars, ownerVars
<1>9. ASSUME NEW o \in Owners, DispatchNoThread(o) \/ DispatchDone(o)
      PROVE  UNCHANGED <<queued, results, reported>>
  BY <1>9 DEF DispatchNoThread, DispatchDone, Unlock
<1>11. ASSUME NEW a \in Answers, NEW h \in Handlers,
              HandlerReturns(a, h) \/ HandlerNotifies(a, h) \/ HandlerThrows(a, h)
       PROVE  UNCHANGED <<queued, results, reported>>
  BY <1>11 DEF HandlerReturns, HandlerNotifies, NotifyUpdated, HandlerThrows, answerVars, ownerVars
<1>12. ASSUME NEW a \in Answers, Notify(a) PROVE UNCHANGED <<queued, results, reported>>
  BY <1>12 DEF Notify, SetStatusNotify, ownerVars
<1>13. CASE UNCHANGED vars
  BY <1>13, DeliveryStutter DEF vars, answerVars, ownerVars
<1>14. CASE \E o \in Owners : \E a \in Answers : NewCommand(o, a)
  BY <1>1, <1>14 DEF Delivery!Next
<1>15. CASE \E o \in Owners : Dispatching(o)
  BY <1>3, <1>7, <1>8, <1>9, <1>15, DeliveryStutter DEF Dispatching, Delivery!Next
<1>16. ASSUME NEW o \in Owners, NEW t \in Timeouts, StartWait(o, t)
       PROVE  UNCHANGED <<queued, results, reported>>
  BY <1>16 DEF StartWait, answerVars
<1>17. ASSUME NEW o \in Owners, Waiting(o)
       PROVE  [Delivery!Next]_<<queued, Settled, SeenFacts>>
  <2>1. ASSUME NEW a \in Answers, Report(o, a) PROVE Delivery!Next
    BY <1>4, <2>1 DEF Delivery!Next
  <2>2. ASSUME NEW a \in Answers, ScanOne(o, a) PROVE UNCHANGED <<queued, results, reported>>
    BY <2>2 DEF ScanOne, ListOne
  <2>3. ASSUME ScanDone(o) \/ Wakeup(o) \/ GiveUp(o) \/ ReportDone(o)
        PROVE  UNCHANGED <<queued, results, reported>>
    BY <2>3 DEF ScanDone, Wakeup, ConsumeEvent, GiveUp, ReportDone, answerVars
  <2> QED
    BY <1>17, <2>1, <2>2, <2>3, DeliveryStutter DEF Waiting
<1>18. ASSUME NEW a \in Answers, NEW h \in Handlers, Handling(a, h)
       PROVE  UNCHANGED <<queued, Settled, SeenFacts>>
  BY <1>6, <1>11, <1>18, DeliveryStutter DEF Handling
<1>19. ASSUME NEW a \in Answers, NEW i \in DOMAIN results[a], NEW s \in Statuses, SetStatus(a, i, s)
       PROVE  Delivery!Next
  BY <1>5, <1>19 DEF Delivery!Next
<1> QED
  BY <1>12, <1>13, <1>14, <1>15, <1>16, <1>17, <1>18, <1>19, DeliveryStutter DEF Next

(* The command path implements AnswerDelivery: what is settled in an open  *)
(* answer is what its next look shows, an answer is closed by a look only, *)
(* and is opened once, whatever handlers, pool and owners do.              *)
THEOREM CommandDispatchImplementsAnswerDelivery == Spec => Delivers
<1>1. Init => Opened /\ Delivery!Init
  <2> SUFFICES ASSUME Init PROVE Opened /\ Delivery!Init
    OBVIOUS
  <2>1. /\ queued = {} /\ results = [a \in Answers |-> << >>] /\ reported = results
        /\ \A o \in Owners : pc[o] = "idle" /\ toScan[o] = {} /\ found[o] = {}
    BY DEF Init, AnswersInit
  <2> QED
    BY <2>1, NothingSettled DEF Opened, Delivery!Init, Settled, SeenFacts
<1>2. IInv /\ Opened /\ [Next]_vars => Opened'
  BY OpenedStep DEF IInv
<1>3. IInv /\ Opened /\ [Next]_vars => [Delivery!Next]_<<queued, Settled, SeenFacts>>
  BY DeliveryStep DEF IInv
<1> QED
  BY <1>1, <1>2, <1>3, Invariance, PTL DEF Spec, Delivers, Delivery!Spec, Delivery!vars, Settled, SeenFacts

(***************************************************************************)
(* Handlers that create one result and set it once                         *)
(***************************************************************************)

KeepContract == ResultCounts = {1} /\ Rewrites = FALSE

(* Results come from handlers that were given the command, one from each.  *)
OneFromEach ==
  \A a \in Answers :
    /\ \A h \in Handlers : task[a][h] # "none" => h \in commands[a]
    /\ \A i \in DOMAIN results[a] : results[a][i].by \in commands[a]
    /\ \A i, j \in DOMAIN results[a] : results[a][i].by = results[a][j].by => i = j

(* Nobody has added a command before dispatch() does. *)
NoCommandYet ==
  /\ \A a \in Answers : home[a] = None => commands[a] = {}
  /\ \A o \in Owners : pc[o] = "lock" => commands[cur[o]] = {}

AllSet(a) ==
  /\ Cardinality(commands[a]) = Len(results[a])
  /\ \A i \in DOMAIN results[a] : results[a][i].status # "PENDING"

(* What was removed had as many results as commands, all set, and was      *)
(* reported like that.                                                     *)
RemovedWhenSet == \A a \in Removed : AllSet(a) /\ reported[a] = results[a]

DoneInv == OneFromEach /\ NoCommandYet /\ RemovedWhenSet

(* As many results as commands, and no two from one handler, are a result  *)
(* from each handler: isPendingUnlocked() compares the numbers only.       *)
LEMMA EachHasItsResult ==
  ASSUME TypeOK, OneFromEach, NEW a \in Answers, AllSet(a)
  PROVE  \A h \in commands[a] : \E i \in DOMAIN results[a] : results[a][i].by = h
<1> DEFINE S == 1..Len(results[a])
           f == [i \in S |-> results[a][i].by]
<1>1. Len(results[a]) \in Nat /\ DOMAIN results[a] = S /\ commands[a] \subseteq Handlers
  BY DEF TypeOK, AnswersTypeOK
<1>2. IsFiniteSet(commands[a]) /\ IsFiniteSet(S) /\ Cardinality(S) = Cardinality(commands[a])
  <2>1. IsFiniteSet(commands[a])
    BY <1>1, FS_Subset, HandlersAssumption
  <2>2. IsFiniteSet(S) /\ Cardinality(S) = Len(results[a])
    BY <1>1, FS_Interval
  <2> QED
    BY <2>1, <2>2 DEF AllSet
<1>3. f \in Injection(S, commands[a])
  <2>1. \A i \in S : results[a][i].by \in commands[a]
    BY <1>1 DEF OneFromEach
  <2>2. \A i, j \in S : results[a][i].by = results[a][j].by => i = j
    BY <1>1 DEF OneFromEach
  <2>3. f \in [S -> commands[a]] /\ \A i \in S : f[i] = results[a][i].by
    BY <2>1
  <2> HIDE DEF f, S
  <2> QED
    BY <2>2, <2>3 DEF Injection, IsInjective
<1>4. f \in Surjection(S, commands[a])
  <2> HIDE DEF f, S
  <2> QED
    BY <1>2, <1>3, FS_Injection
<1> QED
  BY <1>1, <1>4 DEF Surjection

(* A handler that has created its result creates no other. *)
LEMMA CreatesOnce ==
  ASSUME TypeOK, KeepContract, NEW a \in Answers, NEW h \in Handlers, HandlerCreatesResult(a, h)
  PROVE  \A i \in DOMAIN results[a] : results[a][i].by # h
<1> DEFINE mine == {i \in DOMAIN results[a] : results[a][i].by = h}
<1>1. Cardinality(mine) < 1
  BY DEF HandlerCreatesResult, KeepContract, Created
<1>2. IsFiniteSet(mine)
  <2>1. Len(results[a]) \in Nat /\ DOMAIN results[a] = 1..Len(results[a])
    BY DEF TypeOK, AnswersTypeOK
  <2>2. IsFiniteSet(1..Len(results[a])) /\ mine \in SUBSET (1..Len(results[a]))
    BY <2>1, FS_Interval
  <2> HIDE DEF mine
  <2> QED
    BY <2>2, FS_Subset
<1>3. mine = {}
  <2> HIDE DEF mine
  <2> QED
    BY <1>1, <1>2, FS_CardinalityType, FS_EmptySet
<1> QED
  BY <1>3

(* Nobody touches the results of what was removed: every handler has       *)
(* created its result, and every result is set.                            *)
LEMMA RemovedStays ==
  ASSUME TypeOK, KeepContract, DoneInv, [Next]_vars
  PROVE  \A a \in Removed : results'[a] = results[a]
<1> SUFFICES ASSUME NEW a \in Removed, results'[a] # results[a] PROVE FALSE
  OBVIOUS
<1>1. /\ a \in Answers /\ AllSet(a)
      /\ \A h \in commands[a] : \E i \in DOMAIN results[a] : results[a][i].by = h
  BY EachHasItsResult DEF DoneInv, RemovedWhenSet, Removed
<1>2. results \in [Answers -> Seq(ResultRecord)]
  BY DEF TypeOK, AnswersTypeOK
<1>3. ASSUME NEW b \in Answers, NEW h \in Handlers, HandlerCreatesResult(b, h) PROVE FALSE
  <2>1. b = a /\ task[b][h] = "running"
    BY <1>2, <1>3 DEF HandlerCreatesResult, NewResult
  <2>2. h \in commands[a]
    BY <1>1, <2>1 DEF DoneInv, OneFromEach
  <2> QED
    BY <1>1, <1>3, <2>1, <2>2, CreatesOnce
<1>4. ASSUME NEW b \in Answers, NEW i \in DOMAIN results[b], NEW s \in Statuses, SetStatus(b, i, s)
      PROVE  FALSE
  <2>1. b = a /\ results[b][i].status = "PENDING"
    BY <1>2, <1>4 DEF SetStatus, SetStatusLocked, KeepContract
  <2> QED
    BY <1>1, <2>1 DEF AllSet
<1>5. results' # results
  OBVIOUS
<1>6. ASSUME NEW o \in Owners PROVE ~Dispatching(o) /\ ~Waiting(o)
  BY <1>5 DEF Dispatching, Waiting, DispatchCollect, DispatchStart, DispatchNoThread, DispatchDone, Unlock,
              ReportNew, RemoveIfDone, ScanOne, ListOne, ScanDone, Wakeup, ConsumeEvent, GiveUp, Report,
              ReportDone, answerVars
<1>7. ASSUME NEW o \in Owners PROVE /\ \A b \in Answers : ~NewCommand(o, b)
                                    /\ \A t \in Timeouts : ~StartWait(o, t)
  BY <1>5 DEF NewCommand, Create, StartWait, answerVars
<1>8. ASSUME NEW b \in Answers, NEW h \in Handlers, Handling(b, h) PROVE FALSE
  BY <1>3, <1>5, <1>8 DEF Handling, HandlerReturns, HandlerNotifies, NotifyUpdated, HandlerThrows, answerVars
<1>9. ASSUME NEW b \in Answers PROVE ~Notify(b)
  BY <1>5 DEF Notify, SetStatusNotify
<1>10. ~UNCHANGED vars
  BY <1>5 DEF vars, answerVars
<1> QED
  BY <1>4, <1>6, <1>7, <1>8, <1>9, <1>10 DEF Next

(* The steps of Next that OneFromEach is about; all others leave the tasks *)
(* that run, the commands and the handlers of the results alone.           *)
LEMMA OneFromEachStep ==
  ASSUME TypeOK, OwnWork, Blank, KeepContract, OneFromEach, NoCommandYet, [Next]_vars
  PROVE  OneFromEach'
<1>0. /\ task \in [Answers -> [Handlers -> TaskStates]]
      /\ commands \in [Answers -> SUBSET Handlers]
      /\ results \in [Answers -> Seq(ResultRecord)]
  BY DEF TypeOK, AnswersTypeOK
<1> USE <1>0 DEF OneFromEach
<1>1. ASSUME UNCHANGED <<commands, results>>,
             \A a \in Answers : \A h \in Handlers : task'[a][h] # "none" => task[a][h] # "none"
      PROVE  OneFromEach'
  BY <1>1
<1>2. ASSUME NEW o \in Owners, NEW H \in SUBSET Handlers, DispatchCollect(o, H) PROVE OneFromEach'
  <2> DEFINE b == cur[o]
  <2>1. /\ b \in Answers /\ commands[b] = {} /\ results' = results
        /\ commands' = [commands EXCEPT ![b] = H]
        /\ task' = [task EXCEPT ![b] = [h \in Handlers |-> IF h \in H THEN "added" ELSE @[h]]]
    BY <1>2 DEF DispatchCollect, OwnWork, NoCommandYet
  <2>2. /\ \A a \in Answers : a # b => commands'[a] = commands[a] /\ task'[a] = task[a]
        /\ commands'[b] = H
        /\ task'[b] = [h \in Handlers |-> IF h \in H THEN "added" ELSE task[b][h]]
    BY <2>1
  <2>3. DOMAIN results[b] = {} /\ \A h \in Handlers : task[b][h] = "none"
    BY <2>1
  <2> HIDE DEF b
  <2> QED
    BY <2>1, <2>2, <2>3
<1>3. ASSUME NEW o \in Owners, NEW h \in Handlers, DispatchStart(o, h) PROVE OneFromEach'
  <2>1. /\ cur[o] \in Answers /\ task[cur[o]][h] = "added"
        /\ task' = [task EXCEPT ![cur[o]][h] = "running"] /\ UNCHANGED <<commands, results>>
    BY <1>3 DEF DispatchStart, Added, OwnWork, answerVars
  <2> QED
    BY <1>1, <2>1
<1>4. ASSUME NEW a \in Answers, NEW h \in Handlers,
             HandlerReturns(a, h) \/ HandlerNotifies(a, h) \/ HandlerThrows(a, h)
      PROVE  OneFromEach'
  <2>1. /\ task[a][h] = "running" /\ UNCHANGED <<commands, results>>
        /\ \E new : task' = [task EXCEPT ![a][h] = new]
    BY <1>4 DEF HandlerReturns, HandlerNotifies, NotifyUpdated, HandlerThrows, answerVars
  <2> QED
    BY <1>1, <2>1
<1>5. ASSUME NEW a \in Answers, NEW h \in Handlers, HandlerCreatesResult(a, h) PROVE OneFromEach'
  <2> DEFINE new == [by |-> h, status |-> "PENDING"]
  <2>1. /\ task[a][h] = "running" /\ UNCHANGED <<task, commands>>
        /\ results' = [results EXCEPT ![a] = Append(@, new)]
    BY <1>5 DEF HandlerCreatesResult, NewResult
  <2>2. \A i \in DOMAIN results[a] : results[a][i].by # h
    BY <1>5, CreatesOnce
  <2>3. /\ DOMAIN results'[a] = DOMAIN results[a] \cup {Len(results[a]) + 1}
        /\ Len(results[a]) + 1 \notin DOMAIN results[a]
        /\ \A i \in DOMAIN results[a] : results'[a][i] = results[a][i]
        /\ results'[a][Len(results[a]) + 1].by = h
        /\ \A b \in Answers : b # a => results'[b] = results[b]
    BY <2>1
  <2>4. h \in commands[a]
    BY <2>1
  <2> HIDE DEF new
  <2>5. ASSUME NEW b \in Answers
        PROVE  /\ \A i \in DOMAIN results'[b] : results'[b][i].by \in commands[b]
               /\ \A i, j \in DOMAIN results'[b] : results'[b][i].by = results'[b][j].by => i = j
    <3>1. CASE b = a
      <4>1. PICK n : /\ DOMAIN results'[a] = DOMAIN results[a] \cup {n}
                     /\ n \notin DOMAIN results[a] /\ results'[a][n].by = h
        BY <2>3
      <4>2. ASSUME NEW i \in DOMAIN results'[a] PROVE results'[a][i].by \in commands[a]
        BY <2>3, <2>4, <4>1, <4>2
      <4>3. ASSUME NEW i \in DOMAIN results'[a], NEW j \in DOMAIN results'[a],
                   results'[a][i].by = results'[a][j].by
            PROVE  i = j
        <5>1. CASE i = n /\ j # n
          BY <2>2, <2>3, <4>1, <4>3, <5>1
        <5>2. CASE i # n /\ j = n
          BY <2>2, <2>3, <4>1, <4>3, <5>2
        <5>3. CASE i # n /\ j # n
          BY <2>3, <4>1, <4>3, <5>3
        <5> QED
          BY <5>1, <5>2, <5>3
      <4> QED
        BY <3>1, <4>2, <4>3
    <3>2. CASE b # a
      BY <2>3, <3>2
    <3> QED
      BY <3>1, <3>2
  <2> QED
    BY <2>1, <2>5
<1>6. ASSUME NEW a \in Answers, NEW i \in DOMAIN results[a], NEW s \in Statuses, SetStatus(a, i, s)
      PROVE  OneFromEach'
  <2>1. results' = [results EXCEPT ![a] = WithStatus(@, i, s)] /\ UNCHANGED <<task, commands>>
    BY <1>6 DEF SetStatus, SetStatusLocked
  <2>2. /\ DOMAIN results'[a] = DOMAIN results[a]
        /\ \A j \in DOMAIN results[a] : results'[a][j].by = results[a][j].by
        /\ \A b \in Answers : b # a => results'[b] = results[b]
    <3>1. \A j \in DOMAIN results[a] : results[a][j] \in ResultRecord
      OBVIOUS
    <3>2. WithStatus(results[a], i, s) = results'[a]
      BY <2>1
    <3> QED
      BY <2>1, <3>1, <3>2 DEF WithStatus, ResultRecord
  <2>3. ASSUME NEW b \in Answers
        PROVE  /\ \A j \in DOMAIN results'[b] : results'[b][j].by \in commands[b]
               /\ \A j, k \in DOMAIN results'[b] : results'[b][j].by = results'[b][k].by => j = k
    <3>1. CASE b = a
      <4>1. \A j \in DOMAIN results'[a] : j \in DOMAIN results[a] /\ results'[a][j].by = results[a][j].by
        BY <2>2
      <4>2. ASSUME NEW j \in DOMAIN results'[a] PROVE results'[a][j].by \in commands[a]
        BY <4>1, <4>2
      <4>3. ASSUME NEW j \in DOMAIN results'[a], NEW k \in DOMAIN results'[a],
                   results'[a][j].by = results'[a][k].by
            PROVE  j = k
        BY <4>1, <4>3
      <4> QED
        BY <3>1, <4>2, <4>3
    <3>2. CASE b # a
      BY <2>2, <3>2
    <3> QED
      BY <3>1, <3>2
  <2> QED
    BY <2>1, <2>3
<1>7. ASSUME NEW o \in Owners,
             (\E a \in Answers : NewCommand(o, a)) \/ (\E t \in Timeouts : StartWait(o, t))
             \/ DispatchNoThread(o) \/ DispatchDone(o) \/ ReportNew(o) \/ Waiting(o)
      PROVE  UNCHANGED <<commands, results, task>>
  BY <1>7 DEF NewCommand, Create, StartWait, DispatchNoThread, DispatchDone, Unlock, ReportNew, RemoveIfDone,
              Waiting, ScanOne, ListOne, ScanDone, Wakeup, ConsumeEvent, GiveUp, Report, ReportDone, answerVars
<1>8. ASSUME NEW a \in Answers, Notify(a) PROVE UNCHANGED <<commands, results, task>>
  BY <1>8 DEF Notify, SetStatusNotify
<1>9. CASE UNCHANGED vars
  BY <1>1, <1>9 DEF vars, answerVars
<1> HIDE DEF OneFromEach
<1> QED
  BY <1>1, <1>2, <1>3, <1>4, <1>5, <1>6, <1>7, <1>8, <1>9 DEF Next, Dispatching, Handling

LEMMA NoCommandYetStep ==
  ASSUME TypeOK, OwnWork, NoCommandYet, [Next]_vars
  PROVE  NoCommandYet'
<1>0. /\ home \in [Answers -> Owners \cup {None}]
      /\ commands \in [Answers -> SUBSET Handlers]
      /\ pc \in [Owners -> Pcs]
      /\ cur \in [Owners -> Answers \cup {None}]
  BY DEF TypeOK, AnswersTypeOK
<1> USE <1>0, NoneAssumption DEF NoCommandYet, Goto
<1>1. ASSUME NEW o \in Owners, NEW a \in Answers, NewCommand(o, a) PROVE NoCommandYet'
  BY <1>1 DEF NewCommand, Create
<1>2. ASSUME NEW o \in Owners, NEW H \in SUBSET Handlers, DispatchCollect(o, H) PROVE NoCommandYet'
  <2>1. /\ pc[o] = "lock" /\ cur[o] \in Answers /\ home[cur[o]] = o
        /\ commands' = [commands EXCEPT ![cur[o]] = H]
        /\ UNCHANGED <<home, cur>>
        /\ pc'[o] # "lock" /\ \A p \in Owners : p # o => pc'[p] = pc[p]
    BY <1>2 DEF DispatchCollect, OwnWork
  <2>2. ASSUME NEW p \in Owners, p # o, pc[p] = "lock" PROVE cur[p] # cur[o]
    BY <2>1, <2>2 DEF OwnWork
  <2> QED
    BY <2>1, <2>2 DEF OwnWork
<1>3. ASSUME UNCHANGED <<home, commands>>,
             \A o \in Owners : pc'[o] = "lock" => pc[o] = "lock" /\ cur'[o] = cur[o]
      PROVE  NoCommandYet'
  BY <1>3
<1>4. ASSUME NEW o \in Owners, DispatchNoThread(o) \/ DispatchDone(o) \/ ReportNew(o) PROVE NoCommandYet'
  BY <1>3, <1>4 DEF DispatchNoThread, DispatchDone, Unlock, ReportNew, RemoveIfDone
<1>5. ASSUME NEW o \in Owners, (\E t \in Timeouts : StartWait(o, t)) \/ Waiting(o) PROVE NoCommandYet'
  BY <1>3, <1>5 DEF StartWait, Waiting, ScanOne, ListOne, ScanDone, Wakeup, ConsumeEvent, GiveUp, Report,
                    RemoveIfDone, ReportDone, answerVars
<1>6. ASSUME NEW o \in Owners, NEW h \in Handlers, DispatchStart(o, h) PROVE NoCommandYet'
  BY <1>3, <1>6 DEF DispatchStart, answerVars, ownerVars
<1>7. ASSUME NEW a \in Answers, NEW h \in Handlers, Handling(a, h) PROVE NoCommandYet'
  BY <1>3, <1>7 DEF Handling, HandlerCreatesResult, NewResult, HandlerReturns, HandlerNotifies, NotifyUpdated,
                    HandlerThrows, answerVars, ownerVars
<1>8. ASSUME NEW a \in Answers, NEW i \in DOMAIN results[a], NEW s \in Statuses, SetStatus(a, i, s)
      PROVE  NoCommandYet'
  BY <1>3, <1>8 DEF SetStatus, SetStatusLocked, ownerVars
<1>9. ASSUME NEW a \in Answers, Notify(a) PROVE NoCommandYet'
  BY <1>3, <1>9 DEF Notify, SetStatusNotify, ownerVars
<1>10. CASE UNCHANGED vars
  BY <1>3, <1>10 DEF vars, answerVars, ownerVars
<1> HIDE DEF NoCommandYet
<1> QED
  BY <1>1, <1>2, <1>4, <1>5, <1>6, <1>7, <1>8, <1>9, <1>10 DEF Next, Dispatching

(* An answer is removed by a look at it under its lock, which has found    *)
(* nothing pending and is reported.                                        *)
LEMMA RemovedWhenSetStep ==
  ASSUME TypeOK, OwnWork, Blank, Opened, KeepContract, DoneInv, [Next]_vars
  PROVE  RemovedWhenSet'
<1>0. /\ home \in [Answers -> Owners \cup {None}]
      /\ queued \subseteq {a \in Answers : home[a] # None}
      /\ commands \in [Answers -> SUBSET Handlers]
      /\ results \in [Answers -> Seq(ResultRecord)]
      /\ reported \in [Answers -> Seq(ResultRecord)]
      /\ cur \in [Owners -> Answers \cup {None}]
  BY DEF TypeOK, AnswersTypeOK
<1>1. \A a \in Removed : results'[a] = results[a]
  BY RemovedStays
<1>2. \A a \in Removed : AllSet(a) /\ reported[a] = results[a]
  BY DEF DoneInv, RemovedWhenSet
(* A step that removes nothing and does not touch what is removed. *)
<1>3. ASSUME Removed' \subseteq Removed,
             \A a \in Removed : commands'[a] = commands[a] /\ reported'[a] = reported[a]
      PROVE  RemovedWhenSet'
  BY <1>1, <1>2, <1>3 DEF RemovedWhenSet, AllSet
(* A look. *)
<1>4. ASSUME NEW a \in queued, RemoveIfDone(a), reported' = [reported EXCEPT ![a] = results[a]]
      PROVE  RemovedWhenSet'
  <2>1. UNCHANGED <<home, commands, results>> /\ a \in Answers /\ home[a] # None
    BY <1>0, <1>4 DEF RemoveIfDone
  <2>2. CASE IsPending(a)
    <3>1. Removed' = Removed /\ a \notin Removed
      BY <1>4, <2>1, <2>2 DEF RemoveIfDone, Removed
    <3> QED
      BY <1>0, <1>3, <1>4, <2>1, <3>1 DEF Removed
  <2>3. CASE ~IsPending(a)
    <3>1. Removed' = Removed \cup {a}
      BY <1>4, <2>1, <2>3 DEF RemoveIfDone, Removed
    <3>2. AllSet(a)
      <4>1. Cardinality(commands[a]) = Len(results[a])
        BY <2>3 DEF IsPending
      <4>2. ASSUME NEW i \in DOMAIN results[a] PROVE results[a][i].status # "PENDING"
        <5>1. results[a][i].by \in commands[a]
          BY <2>1 DEF DoneInv, OneFromEach
        <5> QED
          BY <2>3, <5>1 DEF IsPending
      <4> QED
        BY <4>1, <4>2 DEF AllSet
    <3>3. \A b \in Removed : b # a
      BY <1>4 DEF Removed
    <3>4. reported'[a] = results[a] /\ \A b \in Answers : b # a => reported'[b] = reported[b]
      BY <1>0, <1>4, <2>1
    <3>5. Removed \subseteq Answers
      BY DEF Removed
    <3> QED
      BY <1>2, <2>1, <3>1, <3>2, <3>3, <3>4, <3>5 DEF RemovedWhenSet, AllSet
  <2> QED
    BY <2>2, <2>3
<1>5. ASSUME NEW o \in Owners, ReportNew(o) PROVE RemovedWhenSet'
  BY <1>4, <1>5 DEF ReportNew, Goto, Opened
<1>6. ASSUME NEW o \in Owners, NEW a \in Answers, Report(o, a) PROVE RemovedWhenSet'
  BY <1>4, <1>6 DEF Report, Opened
<1>7. ASSUME NEW o \in Owners, NEW a \in Answers, NewCommand(o, a) PROVE RemovedWhenSet'
  <2>1. /\ home[a] = None /\ home' = [home EXCEPT ![a] = o] /\ queued' = queued \cup {a}
        /\ UNCHANGED <<commands, reported>>
    BY <1>7 DEF NewCommand, Create
  <2>2. Removed' \subseteq Removed
    BY <1>0, <2>1 DEF Removed
  <2> QED
    BY <1>3, <2>1, <2>2
<1>8. ASSUME NEW o \in Owners, NEW H \in SUBSET Handlers, DispatchCollect(o, H) PROVE RemovedWhenSet'
  <2>1. /\ cur[o] \in queued /\ UNCHANGED <<home, queued, reported>>
        /\ commands' = [commands EXCEPT ![cur[o]] = H]
    BY <1>8 DEF DispatchCollect, Opened
  <2>2. \A a \in Removed : commands'[a] = commands[a]
    BY <1>0, <2>1 DEF Removed
  <2> QED
    BY <1>3, <2>1, <2>2 DEF Removed
<1>9. ASSUME UNCHANGED <<home, queued, commands, reported>> PROVE RemovedWhenSet'
  BY <1>3, <1>9 DEF Removed
<1>10. ASSUME NEW o \in Owners,
              DispatchNoThread(o) \/ DispatchDone(o) \/ (\E h \in Handlers : DispatchStart(o, h))
       PROVE  RemovedWhenSet'
  BY <1>9, <1>10 DEF DispatchNoThread, DispatchDone, DispatchStart, Unlock, answerVars, ownerVars
<1>11. ASSUME NEW o \in Owners,
              \/ \E t \in Timeouts : StartWait(o, t)
              \/ \E a \in Answers : ScanOne(o, a)
              \/ ScanDone(o) \/ Wakeup(o) \/ GiveUp(o) \/ ReportDone(o)
       PROVE  RemovedWhenSet'
  BY <1>9, <1>11 DEF StartWait, ScanOne, ListOne, ScanDone, Wakeup, ConsumeEvent, GiveUp, ReportDone, answerVars
<1>12. ASSUME NEW a \in Answers, NEW h \in Handlers, Handling(a, h) PROVE RemovedWhenSet'
  BY <1>9, <1>12 DEF Handling, HandlerCreatesResult, NewResult, HandlerReturns, HandlerNotifies, NotifyUpdated,
                     HandlerThrows, answerVars, ownerVars
<1>13. ASSUME NEW a \in Answers, NEW i \in DOMAIN results[a], NEW s \in Statuses, SetStatus(a, i, s)
       PROVE  RemovedWhenSet'
  BY <1>9, <1>13 DEF SetStatus, SetStatusLocked, ownerVars
<1>14. ASSUME NEW a \in Answers, Notify(a) PROVE RemovedWhenSet'
  BY <1>9, <1>14 DEF Notify, SetStatusNotify, ownerVars
<1>15. CASE UNCHANGED vars
  BY <1>9, <1>15 DEF vars, answerVars, ownerVars
<1> QED
  BY <1>5, <1>6, <1>7, <1>8, <1>10, <1>11, <1>12, <1>13, <1>14, <1>15 DEF Next, Dispatching, Waiting

LEMMA DoneStep ==
  ASSUME IInv, Opened, KeepContract, DoneInv, [Next]_vars
  PROVE  DoneInv'
BY OneFromEachStep, NoCommandYetStep, RemovedWhenSetStep DEF IInv, DoneInv

LEMMA OpenedInit == Init => Opened
BY DEF Init, AnswersInit, Opened

LEMMA DoneInit == Init => DoneInv
BY DEF Init, AnswersInit, DoneInv, OneFromEach, NoCommandYet, RemovedWhenSet, Removed

LEMMA DoneInvariance ==
  ASSUME KeepContract
  PROVE  Spec => [](IInv /\ Opened /\ DoneInv)
<1>1. Init => Opened /\ DoneInv
  BY OpenedInit, DoneInit
<1>2. IInv /\ Opened /\ DoneInv /\ [Next]_vars => Opened' /\ DoneInv'
  <2>1. IInv => TypeOK /\ OwnWork
    BY DEF IInv
  <2> QED
    BY <2>1, OpenedStep, DoneStep
<1> QED
  BY <1>1, <1>2, InvInit, InvStep, PTL DEF Spec

(* If handlers create one result for a command and set it once, then for   *)
(* any number of owners, answers, handlers and threads, and though         *)
(* handlers may throw or never be started: an answer leaves its queue only *)
(* when every handler has set its result and the owner has reported it.    *)
THEOREM RemovedAnswersAreComplete ==
  ASSUME KeepContract
  PROVE  Spec => []RemovedIsComplete
<1>1. IInv /\ Opened /\ DoneInv => RemovedIsComplete
  <2> SUFFICES ASSUME IInv, DoneInv, NEW a \in Removed
               PROVE  /\ ~HasNews(a)
                      /\ \A h \in commands[a] :
                           \E i \in DOMAIN results[a] :
                             results[a][i].by = h /\ results[a][i].status # "PENDING"
    BY DEF RemovedIsComplete
  <2>1. a \in Answers /\ AllSet(a) /\ reported[a] = results[a]
    BY DEF DoneInv, RemovedWhenSet, Removed
  <2>2. \A h \in commands[a] : \E i \in DOMAIN results[a] : results[a][i].by = h
    BY <2>1, EachHasItsResult DEF IInv, DoneInv
  <2> QED
    BY <2>1, <2>2 DEF AllSet, HasNews, Unseen
<1> QED
  BY <1>1, DoneInvariance, PTL

(* And it does not change any more: no handler still creates a result, and *)
(* nobody sets one again.                                                  *)
THEOREM RemovedAnswersAreFinal ==
  ASSUME KeepContract
  PROVE  Spec => RemovedIsFinal
<1>1. IInv /\ Opened /\ DoneInv /\ [Next]_vars => \A a \in Removed : results'[a] = results[a]
  BY RemovedStays DEF IInv
<1> QED
  BY <1>1, DoneInvariance, PTL DEF Spec, RemovedIsFinal
=============================================================================
