-------------------------- MODULE MCCommandDispatch --------------------------
(* Model values and symmetry for the runs of CommandDispatch. *)
EXTENDS CommandDispatch, TLC

CONSTANTS o1, o2, a1, a2, h1, h2

OneOwner == {o1}
TwoOwners == {o1, o2}
OneAnswer == {a1}
TwoAnswers == {a1, a2}
OneHandler == {h1}
TwoHandlers == {h1, h2}

ExactlyOne == {1}
UpToTwo == {0, 1, 2}
AllTimeouts == {"zero", "finite", "infinite"}
FiniteOnly == {"finite"}

(* Nothing but equality distinguishes owners, answers and handlers. *)
Symmetry ==
  Permutations(Owners) \cup Permutations(Answers) \cup Permutations(Handlers)
=============================================================================
