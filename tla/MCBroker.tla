------------------------------ MODULE MCBroker -------------------------------
(* Instances of Broker for TLC. *)
EXTENDS Broker

CONSTANTS d1, d2, c1, jablotron

(* Two managers of one technology: a command goes to both. *)
SamePrefix == [d \in Daemons |-> jablotron]

=============================================================================
