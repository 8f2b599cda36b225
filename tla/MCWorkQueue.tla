----------------------------- MODULE MCWorkQueue -----------------------------
(* Constants of the TLC runs of WorkQueue. *)
EXTENDS WorkQueue

CONSTANTS w1, w2

TwoWorks == {w1, w2}

OnePriority == {0}
TwoPriorities == {0, 1}

Short == {0, 1}
Long == {0, 3}
Mixed == {0, 1, 3}

Symmetry == Permutations(Works)
=============================================================================
