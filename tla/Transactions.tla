---------------------------- MODULE Transactions -----------------------------
(***************************************************************************)
(* Transactional and ThreadLocalTransactionManager: a thread has at most   *)
(* one transaction, in a wrapper its thread-local memory points to; an     *)
(* action that is run in transaction() may run others in transaction().    *)
(***************************************************************************)
EXTENDS Naturals, Sequences, SequencesExt

CONSTANTS Threads, MaxCalls  \* MaxCalls: how many calls there are at all

VARIABLES self,     \* the thread-local pointer: a wrapper, 0 for NULL
          wrapper,  \* wrapper |-> [thread, alive, has]; has: m_transaction is not NULL
          ended,    \* wrapper |-> what has been done to its transaction, in order
          stack,    \* thread |-> its calls of transaction(): [t, at]
          result,   \* wrapper |-> how the outermost action in it has ended
          broken    \* threads where start(), a rollback or a nested call went wrong

transactionVars == <<self, wrapper, ended, stack, result, broken>>

TransactionsInit ==
  /\ self = [th \in Threads |-> 0] /\ stack = [th \in Threads |-> <<>>]
  /\ wrapper = <<>> /\ ended = <<>> /\ result = <<>> /\ broken = {}

Top(th) == Last(stack[th])
At(th, at) == stack[th] # <<>> /\ Top(th).at = at
Goto(th, at) == stack' = [stack EXCEPT ![th][Len(stack[th])].at = at]
Pushed(th, t) == stack' = [stack EXCEPT ![th] = Append(@, [t |-> t, at |-> "action"])]

(* The call ends; what it has thrown is thrown in the action around it. *)
Returns(th) == stack' = [stack EXCEPT ![th] = Front(@)]
Throws(th) ==
  stack' = [stack EXCEPT ![th] =
              LET outer == Front(@) IN IF outer = <<>> THEN outer ELSE [outer EXCEPT ![Len(outer)].at = "catch"]]

(* start(): the current transaction of the thread, or a new one. *)
StartNew(th) ==
  /\ self[th] = 0 /\ Len(wrapper) < MaxCalls
  /\ wrapper' = Append(wrapper, [thread |-> th, alive |-> TRUE, has |-> TRUE])
  /\ ended' = Append(ended, <<>>) /\ result' = Append(result, "none")
  /\ self' = [self EXCEPT ![th] = Len(wrapper')]
  /\ Pushed(th, Len(wrapper'))
  /\ UNCHANGED broken

(* create() throws; the compiler may have called it before the wrapper is  *)
(* made or after that.                                                     *)
CreateThrows(th) ==
  /\ self[th] = 0 /\ Len(wrapper) < MaxCalls
  /\ \/ UNCHANGED <<wrapper, ended, result, self, broken>>
     \/ /\ wrapper' = Append(wrapper, [thread |-> th, alive |-> TRUE, has |-> FALSE])
        /\ ended' = Append(ended, <<>>) /\ result' = Append(result, "none")
        /\ self' = [self EXCEPT ![th] = Len(wrapper')] /\ broken' = broken \cup {th}
  /\ UNCHANGED stack

StartCurrent(th) ==
  /\ self[th] # 0 /\ Len(stack[th]) < 2
  /\ Pushed(th, self[th])
  /\ broken' = IF stack[th] # <<>> THEN broken \cup {th} ELSE broken
  /\ UNCHANGED <<self, wrapper, ended, result>>

Start(th) ==
  /\ stack[th] # <<>> => Top(th).at = "action"
  /\ StartNew(th) \/ CreateThrows(th) \/ StartCurrent(th)

ActionEnds(th) ==
  /\ At(th, "action")
  /\ \E how \in {"returned", "threw"} :
       /\ result' = IF Top(th).t = 0 THEN result ELSE [result EXCEPT ![Top(th).t] = how]
       /\ Goto(th, IF how = "returned" THEN "commit" ELSE "catch")
  /\ UNCHANGED <<self, wrapper, ended, broken>>

Usable(th) == wrapper[Top(th).t].alive
Did(th, what) == ended' = [ended EXCEPT ![Top(th).t] = Append(@, what)]

(* commit(): without a transaction it throws, as it may with one. *)
Commit(th) ==
  /\ At(th, "commit") /\ Usable(th)
  /\ \/ wrapper[Top(th).t].has /\ Did(th, "commit") /\ Goto(th, "delete")
     \/ UNCHANGED ended /\ Goto(th, "catch")
  /\ UNCHANGED <<self, wrapper, result, broken>>

(* When rollback() throws, nothing is deleted. *)
Rollback(th) ==
  /\ At(th, "catch") /\ Usable(th)
  /\ \/ wrapper[Top(th).t].has /\ Did(th, "rollback") /\ Goto(th, "delete") /\ UNCHANGED broken
     \/ UNCHANGED ended /\ Throws(th) /\ broken' = broken \cup {th}
  /\ UNCHANGED <<self, wrapper, result>>

(* ~ThreadLocalTransactionWrapper() *)
Delete(th) ==
  /\ At(th, "delete") /\ Usable(th)
  /\ wrapper' = [wrapper EXCEPT ![Top(th).t].alive = FALSE]
  /\ self' = IF self[th] = Top(th).t THEN [self EXCEPT ![th] = 0] ELSE self
  /\ IF Last(ended[Top(th).t]) = "rollback" THEN Throws(th) ELSE Returns(th)
  /\ UNCHANGED <<ended, result, broken>>

TransactionsNext ==
  \E th \in Threads : Start(th) \/ ActionEnds(th) \/ Commit(th) \/ Rollback(th) \/ Delete(th)

(* A wrapper that has been deleted is used by nobody but the action around *)
(* the one that has deleted it, which is a bug of nested calls.  Where     *)
(* nothing went wrong, a transaction is committed or rolled back exactly   *)
(* once, after the action has ended that way, and the thread is left       *)
(* without one: not even a commit() that throws keeps it.                  *)
TransactionsEnd ==
  \A th \in Threads \ broken :
    /\ self[th] # 0 <=> stack[th] # <<>>
    /\ \A t \in DOMAIN wrapper :
         wrapper[t].thread = th =>
           /\ wrapper[t].alive <=> self[th] = t
           /\ ~wrapper[t].alive => ended[t] \in {<<"commit">>, <<"rollback">>}
           /\ "commit" \in ToSet(ended[t]) => result[t] = "returned"
           /\ result[t] = "threw" /\ ~wrapper[t].alive => ended[t] = <<"rollback">>
=============================================================================
