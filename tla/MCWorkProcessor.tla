--------------------------- MODULE MCWorkProcessor ---------------------------
(* Constants of the TLC runs of WorkProcessor. *)
EXTENDS WorkProcessor, TLC

CONSTANTS w1, w2, c1, c2, r1, r2

OneWork == {w1}
TwoWorks == {w1, w2}
OneCaller == {c1}
TwoCallers == {c1, c2}
OneRunner == {r1}
TwoRunners == {r1, r2}

AllOperations == {"schedule", "wakeup", "cancel"}
NoCancel == {"schedule", "wakeup"}
OnlySchedule == {"schedule"}
ScheduleCancel == {"schedule", "cancel"}

AllOutcomes == {"return", "throw", "event", "duration"}
Ending == {"return", "throw", "duration"}

AnySleep == {"none", "zero", "some"}
Timed == {"zero", "some"}
AtOnce == {"zero"}
Later == {"some"}

Symmetry == Permutations(Works) \cup Permutations(Callers) \cup Permutations(Runners)
=============================================================================
