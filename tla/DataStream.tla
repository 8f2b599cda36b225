----------------------------- MODULE DataStream ------------------------------
(***************************************************************************)
(* What the distributor promises: data come in one order, and everybody    *)
(* who gets them gets them in this order, none twice and none left out.    *)
(***************************************************************************)
EXTENDS Naturals, Sequences

CONSTANT Receivers

VARIABLES
  exported,  \* the data in the order of exportData()
  received   \* what each receiver has got so far

Init ==
  /\ exported = << >>
  /\ received = [r \in Receivers |-> << >>]

Next ==
  \/ /\ Len(exported') = Len(exported) + 1
     /\ SubSeq(exported', 1, Len(exported)) = exported
     /\ UNCHANGED received
  \/ \E r \in Receivers :
       /\ Len(received[r]) < Len(exported)
       /\ received' = [received EXCEPT ![r] = Append(@, exported[Len(@) + 1])]
       /\ UNCHANGED exported

Spec == Init /\ [][Next]_<<exported, received>>
=============================================================================
