---------------------------- MODULE WorkLifecycle ----------------------------
(***************************************************************************)
(* The life of a work as the documentation of base/src/work tells it, free *)
(* of queues, locks and threads: a scheduled work is executed by one       *)
(* executor at a time, an execution ends in success, in failure or in      *)
(* another turn, and a work that is finished, failed or canceled stays so. *)
(* A crash fails what was being executed, nothing is executed twice.       *)
(***************************************************************************)
CONSTANT Works

VARIABLES
  status,  \* status[w]: the state of w
  busy     \* the works an executor is working on

vars == <<status, busy>>

Init ==
  /\ status = [w \in Works |-> "IDLE"]
  /\ busy = {}

Move(w, from, to) ==
  /\ status[w] \in from
  /\ status' = [status EXCEPT ![w] = to]

Schedule(w) ==
  /\ Move(w, {"IDLE"}, "SCHEDULED")
  /\ UNCHANGED busy

Begin(w) ==
  /\ Move(w, {"SCHEDULED"}, "EXECUTED")
  /\ w \notin busy
  /\ busy' = busy \cup {w}

(* The executor returns or throws. *)
Over(w) ==
  /\ w \in busy
  /\ busy' = busy \ {w}
  /\ UNCHANGED status

Resolve(w) ==
  /\ w \notin busy
  /\ \E to \in {"SCHEDULED", "FINISHED", "FAILED"} : Move(w, {"EXECUTED"}, to)
  /\ UNCHANGED busy

(* No executor accepts the work. *)
Reject(w) ==
  /\ Move(w, {"SCHEDULED"}, "FAILED")
  /\ UNCHANGED busy

Cancel(w) ==
  /\ Move(w, {"IDLE", "SCHEDULED"}, "CANCELED")
  /\ UNCHANGED busy

Crash ==
  /\ status' = [w \in Works |-> IF status[w] = "EXECUTED" THEN "FAILED" ELSE status[w]]
  /\ busy' = {}

Next ==
  \/ Crash
  \/ \E w \in Works :
       \/ Schedule(w)
       \/ Begin(w)
       \/ Over(w)
       \/ Resolve(w)
       \/ Reject(w)
       \/ Cancel(w)

Spec == Init /\ [][Next]_vars
=============================================================================
