--------------------------- MODULE AnswerDelivery ---------------------------
(***************************************************************************)
(* What an AnswerQueue promises its owner, whatever the handlers do: an    *)
(* answer is opened once, facts about its results (a result and the status *)
(* it has reached) become settled while it is open or afterwards, the      *)
(* owner looks at all the facts of one answer at a time, and an answer is  *)
(* closed only by such a look, so nothing that was settled before closing  *)
(* is missed.  No locks, dirty flags, events or scans here.                *)
(***************************************************************************)
CONSTANT Answers

VARIABLES
  open,     \* the answers waiting in a queue
  settled,  \* settled[a]: the facts that hold of a
  seen      \* seen[a]: the facts the owner has seen of a

vars == <<open, settled, seen>>

Init ==
  /\ open = {}
  /\ settled = [a \in Answers |-> {}]
  /\ seen = [a \in Answers |-> {}]

Open(a) ==
  /\ a \notin open
  /\ settled[a] = {}
  /\ seen[a] = {}
  /\ open' = open \cup {a}
  /\ UNCHANGED <<settled, seen>>

(* One fact is added; it may replace another one (SUCCESS to FAILED). *)
Settle(a) ==
  /\ \E f \in settled'[a], old \in SUBSET settled[a] :
       /\ f \notin settled[a]
       /\ settled' = [settled EXCEPT ![a] = (@ \ old) \cup {f}]
  /\ UNCHANGED <<open, seen>>

(* The owner looks at an open answer and may close it. *)
Look(a) ==
  /\ a \in open
  /\ seen' = [seen EXCEPT ![a] = settled[a]]
  /\ open' \in {open, open \ {a}}
  /\ UNCHANGED settled

Next == \E a \in Answers : Open(a) \/ Settle(a) \/ Look(a)

Spec == Init /\ [][Next]_vars

(* An open answer whose facts are not all seen is looked at in the end. *)
LiveSpec ==
  /\ Spec
  /\ \A a \in Answers : WF_vars(Look(a) /\ seen[a] # settled[a])
=============================================================================
