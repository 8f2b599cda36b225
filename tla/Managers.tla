------------------------------- MODULE Managers ------------------------------
(***************************************************************************)
(* A device manager of either technology: the requests are the same, the   *)
(* rest belongs to one of them and stands still in the other.              *)
(***************************************************************************)
EXTENDS JablotronManager, ZWaveManager

VARIABLE technology  \* jablotron or z-wave, from the start

vars == <<technology, requestVars, jablotronVars, zwaveVars>>

Init ==
  /\ technology \in {"jablotron", "z-wave"}
  /\ RequestsInit /\ JablotronInit /\ ZWaveInit

Words == {"SENSOR", "TAMPER", "PANIC", "SET", "BLACKOUT"}

Message == \E serial \in Devices : \E word \in Words : ReadMessage(serial, word, 1)

MainLoop ==
  \/ CheckQueue \/ TakeOne \/ BatchDone \/ OpenSerial \/ LoadRegDevices
  \/ AskForValue \/ Loaded \/ ReadNothing \/ Message \/ SendEvent
  \/ SwitchStep("main")

Client ==
  \/ ClientReply \/ ClientContent \/ DoSetValuesCommand
  \/ DoDeviceUnpairCommand \/ DoListenCommand \/ SwitchStep("client")

Jablotron == MainLoop \/ Client \/ StopListen \/ TimerEnters

ZClient == ZReply \/ ZContent \/ ZDoDeviceUnpairCommand \/ ZDoListenCommand

ZWave ==
  \/ NetworkChanges \/ Deliver \/ Run \/ ZClient
  \/ ZStopListen \/ StopUnpair \/ ZTimerEnters

Next ==
  /\ \/ technology = "jablotron" /\ Jablotron /\ UNCHANGED zwaveVars
     \/ technology = "z-wave" /\ ZWave /\ UNCHANGED jablotronVars
  /\ UNCHANGED technology

(* The main loops and the timers go on, a thread that is in the middle of  *)
(* something goes on with it; the dongle, the network and the server need  *)
(* do nothing.                                                             *)
Fairness ==
  /\ WF_vars(technology = "jablotron" /\ MainLoop /\ UNCHANGED <<technology, zwaveVars>>)
  /\ WF_vars(technology = "z-wave" /\ Run /\ UNCHANGED <<technology, jablotronVars>>)
  /\ WF_vars(technology = "z-wave" /\ StopUnpair /\ UNCHANGED <<technology, jablotronVars>>)

Spec == Init /\ [][Next]_vars /\ Fairness

(***************************************************************************)
(* Properties                                                              *)
(***************************************************************************)

JablotronLoopGoesOn == technology = "jablotron" => MainLoopGoesOn

(* Every settled reply that has met its request is seen by the main loop,  *)
(* or thrown away with a failed value, whatever the other threads do: the  *)
(* answer queue and the batch lose none on the way.  A Z-Wave manager that *)
(* has missed the broadcast of the library waits for ever, and sees none.  *)
RepliesAreSeen ==
  \A id \in Ids :
    Settled(id) ~> id \in seen \/ (technology = "z-wave" /\ zpc = "waiting")

(* Types of both managers, and what the other invariants rest on. *)
ManagersInv ==
  /\ RequestsInv /\ PacketsInv /\ EventInv /\ NoStaleNews
  /\ jpc \in {"queue", "batch", "load", "ask", "read", "sent"}
  /\ pg \in [Outputs -> Values] /\ dongle \in [Outputs -> Values]
  /\ zpc \in {"start", "waiting", "queue", "batch", "last"}
  /\ controller \in {"idle", "adding", "removing"}
=============================================================================
