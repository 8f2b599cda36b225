------------------------------- MODULE Answers -------------------------------
(***************************************************************************)
(* Answer, Result and AnswerQueue (src/src/core): an Answer collects one   *)
(* Result per command run for it, shares one mutex with its Results, and   *)
(* lives in the AnswerQueue it was created for.  This module holds their   *)
(* state and the effect of each of their methods; CommandDispatch composes *)
(* the methods into the threads that call them.                            *)
(*                                                                         *)
(* The mutex of AnswerQueue is not a variable: a queue is listed, extended *)
(* and reduced by the one thread that owns it (TestingCenter, ZMQBroker,   *)
(* the device managers), so nobody ever waits for it.                      *)
(***************************************************************************)
EXTENDS Naturals, FiniteSets, Sequences

CONSTANTS
  Owners,    \* the threads that own an AnswerQueue, one queue each
  Answers,   \* the Answer objects that may be created
  Handlers,  \* the command handlers registered with the dispatcher
  None       \* no owner

ASSUME NoneAssumption == None \notin Owners
ASSUME HandlersAssumption == IsFiniteSet(Handlers)

Statuses == {"PENDING", "SUCCESS", "FAILED"}

VARIABLES
  home,      \* home[a]: the owner whose queue a was created for, m_answerQueue
  queued,    \* the answers that are in the m_answerList of their home
  event,     \* event[o]: the auto-reset event of o's queue
  alock,     \* alock[a]: who holds m_lock of a, see LockHolders
  dirty,     \* dirty[a]: m_dirty
  commands,  \* commands[a]: the handlers whose command was added, m_commands
  results    \* results[a]: m_resultList, each with the handler it came from

answerVars == <<home, queued, event, alock, dirty, commands, results>>

LockHolders == {"free", "owner", "updater"}
ResultRecord == [by : Handlers, status : Statuses]

AnswersTypeOK ==
  /\ home \in [Answers -> Owners \cup {None}]
  /\ queued \subseteq {a \in Answers : home[a] # None}
  /\ event \in [Owners -> BOOLEAN]
  /\ alock \in [Answers -> LockHolders]
  /\ dirty \in [Answers -> BOOLEAN]
  /\ commands \in [Answers -> SUBSET Handlers]
  /\ results \in [Answers -> Seq(ResultRecord)]

AnswersInit ==
  /\ home = [a \in Answers |-> None]
  /\ queued = {}
  /\ event = [o \in Owners |-> FALSE]
  /\ alock = [a \in Answers |-> "free"]
  /\ dirty = [a \in Answers |-> FALSE]
  /\ commands = [a \in Answers |-> {}]
  /\ results = [a \in Answers |-> << >>]

(* m_answerList of the queue of o. *)
AnswerList(o) == {a \in queued : home[a] = o}

(***************************************************************************)
(* Answer                                                                  *)
(***************************************************************************)

(* Mutated: forgets the commands that have no result yet. *)
IsPendingWithoutCount(a) ==
  \E i \in DOMAIN results[a] : results[a][i].status = "PENDING"

(* Mutated: one result that is done makes the answer done. *)
IsPendingUntilFirst(a) ==
  /\ commands[a] # {}
  /\ \A i \in DOMAIN results[a] : results[a][i].status = "PENDING"

(* Mutated: takes a FAILED result for one that is still to come. *)
IsPendingUntilSuccess(a) ==
  \/ Cardinality(commands[a]) # Len(results[a])
  \/ \E i \in DOMAIN results[a] : results[a][i].status # "SUCCESS"

(* isPendingUnlocked(): fewer (or more) results than commands, or a result *)
(* that is still PENDING.  With no command at all the answer is done.      *)
IsPending(a) ==
  \/ Cardinality(commands[a]) # Len(results[a])
  \/ /\ commands[a] # {}
     /\ \E i \in DOMAIN results[a] : results[a][i].status = "PENDING"

(* The constructor: the answer enters its queue clean and empty. *)
Create(o, a) ==
  /\ home[a] = None
  /\ home' = [home EXCEPT ![a] = o]
  /\ queued' = queued \cup {a}
  /\ UNCHANGED <<event, alock, dirty, commands, results>>

(* The number of results that handler h has created in a. *)
Created(a, h) == Cardinality({i \in DOMAIN results[a] : results[a][i].by = h})

(***************************************************************************)
(* Result                                                                  *)
(***************************************************************************)

(* The constructor appends a PENDING result to its answer, under the lock. *)
(* It neither makes the answer dirty nor sets the event.                   *)
NewResult(a, h) ==
  /\ alock[a] = "free"
  /\ results' = [results EXCEPT ![a] = Append(@, [by |-> h, status |-> "PENDING"])]
  /\ UNCHANGED <<home, queued, event, alock, dirty, commands>>

(* PENDING < SUCCESS < FAILED: setStatusUnlocked() returns early when the  *)
(* status is the same and throws when it is lower.                         *)
MayChange(from, to) ==
  \/ from = "PENDING" /\ to # "PENDING"
  \/ from = "SUCCESS" /\ to = "FAILED"

(* m_resultList with the status of its i-th result changed to s. *)
WithStatus(list, i, s) == [list EXCEPT ![i] = [@ EXCEPT !.status = s]]

(* Mutated: only the first status of a result makes the answer dirty. *)
SetStatusLockedOnce(a, i, s) ==
  /\ alock[a] = "free"
  /\ MayChange(results[a][i].status, s)
  /\ alock' = [alock EXCEPT ![a] = "updater"]
  /\ dirty' = [dirty EXCEPT ![a] = @ \/ results[a][i].status = "PENDING"]
  /\ results' = [results EXCEPT ![a] = WithStatus(@, i, s)]
  /\ UNCHANGED <<home, queued, event, commands>>

(* setStatus(), first half: lock the answer, change the status, make the   *)
(* answer dirty.  The event is not set yet and the lock is still held.     *)
SetStatusLocked(a, i, s) ==
  /\ alock[a] = "free"
  /\ MayChange(results[a][i].status, s)
  /\ alock' = [alock EXCEPT ![a] = "updater"]
  /\ results' = [results EXCEPT ![a] = WithStatus(@, i, s)]
  /\ dirty' = [dirty EXCEPT ![a] = TRUE]
  /\ UNCHANGED <<home, queued, event, commands>>

(* notifyUpdated() without a new status: the answer is locked and dirty.   *)
NotifyUpdated(a) ==
  /\ alock[a] = "free"
  /\ alock' = [alock EXCEPT ![a] = "updater"]
  /\ dirty' = [dirty EXCEPT ![a] = TRUE]
  /\ UNCHANGED <<home, queued, event, commands, results>>

(* Mutated: unlocks without setting the event. *)
SetStatusSilent(a) ==
  /\ alock[a] = "updater"
  /\ alock' = [alock EXCEPT ![a] = "free"]
  /\ UNCHANGED <<home, queued, event, dirty, commands, results>>

(* setStatus(), second half: wake the queue of the answer and unlock. *)
SetStatusNotify(a) ==
  /\ alock[a] = "updater"
  /\ event' = [event EXCEPT ![home[a]] = TRUE]
  /\ alock' = [alock EXCEPT ![a] = "free"]
  /\ UNCHANGED <<home, queued, dirty, commands, results>>

(***************************************************************************)
(* AnswerQueue                                                             *)
(***************************************************************************)

(* One iteration of listDirty(): under the lock of a, report whether a was *)
(* dirty and make it clean.                                                *)
ListOne(a) ==
  /\ alock[a] = "free"
  /\ dirty' = [dirty EXCEPT ![a] = FALSE]
  /\ UNCHANGED <<home, queued, event, alock, commands, results>>

(* block(): the auto-reset event releases one waiting thread. *)
ConsumeEvent(o) ==
  /\ event[o]
  /\ event' = [event EXCEPT ![o] = FALSE]
  /\ UNCHANGED <<home, queued, alock, dirty, commands, results>>

(* What the owner does with an answer it looks at under the lock of a: an  *)
(* answer that is not pending leaves the queue.                            *)
RemoveIfDone(a) ==
  /\ alock[a] = "free"
  /\ queued' = IF IsPending(a) THEN queued ELSE queued \ {a}
  /\ UNCHANGED <<home, event, alock, dirty, commands, results>>
=============================================================================
