----------------------------- MODULE MCManagers ------------------------------
(* An instance of Managers for TLC: a switch and a fire sensor. *)
EXTENDS Managers

CONSTANTS n1, v1

Switch1 == 207 * Mega
Fire == 118 * Mega

OneSwitch == <<Switch1>>
SmallDevices == {Switch1, Fire}
AllOrOne == {SmallDevices, {Fire}}
=============================================================================
