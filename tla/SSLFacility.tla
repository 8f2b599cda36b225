----------------------------- MODULE SSLFacility ------------------------------
(***************************************************************************)
(* SSLFacility::initContext() on several threads: the context of a         *)
(* facility is made by the first who asks for it.  OpenSSL asks one global *)
(* event for the passphrase of a private key, and whoever has registered   *)
(* with it answers, the last one wins.  PrivateKeyPassphraseProvider holds *)
(* a mutex as long as it is registered; a facility without a passphrase    *)
(* makes its context without one.                                          *)
(***************************************************************************)
CONSTANTS None, Threads,
          Passphrase,  \* facility |-> its passphrase, "" when it is not set
          PrivateKey,  \* facility |-> the passphrase of its key, "" for a plain key
          Protocols    \* facility |-> what is to be disabled, or None

VARIABLES owner,      \* facility |-> who holds its m_lock
          keyLock,    \* who holds defaultLock
          delegates,  \* the facilities whose passphrase is registered
          context,    \* facility |-> the context: None, "made", or the disabled protocols
          opened,     \* facility |-> the passphrases its key has been tried with
          caller      \* thread |-> where it is in context(), and of which facility

sslVars == <<owner, keyLock, delegates, context, opened, caller>>

Facilities == DOMAIN Passphrase

SSLInit ==
  /\ owner = [f \in Facilities |-> None] /\ keyLock = None /\ delegates = {}
  /\ context = [f \in Facilities |-> None] /\ opened = [f \in Facilities |-> {}]
  /\ caller = [th \in Threads |-> [at |-> "idle", of |-> None]]

(* parseProtocol(): what is not recognised is left out, with a warning. *)
Known == {"sslv2", "sslv3", "tlsv1", "tlsv1_1", "tlsv1_2"}
DisabledProtocols(f) == IF Protocols[f] = None THEN {"sslv2", "sslv3"} ELSE Protocols[f] \cap Known

At(th, f, at) == caller[th] = [at |-> at, of |-> f]
Goto(th, f, to) == caller' = [caller EXCEPT ![th] = [at |-> to, of |-> f]]

AskContext(th, f) ==
  /\ caller[th].at = "idle" /\ owner[f] = None
  /\ owner' = [owner EXCEPT ![f] = th]
  /\ Goto(th, f, IF context[f] # None THEN "leave"
                 ELSE IF Passphrase[f] # "" THEN "provide" ELSE "create")
  /\ UNCHANGED <<keyLock, delegates, context, opened>>

(* PrivateKeyPassphraseProvider::init() *)
Provide(th, f) ==
  /\ At(th, f, "provide") /\ keyLock = None
  /\ keyLock' = th /\ delegates' = delegates \cup {f}
  /\ Goto(th, f, "create")
  /\ UNCHANGED <<owner, context, opened>>

(* onRequest() *)
Answers == IF delegates = {} THEN {""} ELSE {Passphrase[f] : f \in delegates}

(* createContext() of SSLClient and SSLServer: a plain key asks nobody. *)
CreateContext(th, f) ==
  /\ At(th, f, "create")
  /\ IF PrivateKey[f] = "" THEN context' = [context EXCEPT ![f] = "made"] /\ UNCHANGED opened
     ELSE \E answer \in Answers :
            /\ opened' = [opened EXCEPT ![f] = @ \cup {answer}]
            /\ context' = [context EXCEPT ![f] = IF answer = PrivateKey[f] THEN "made" ELSE None]
  /\ Goto(th, f, IF Passphrase[f] # "" THEN "provided" ELSE IF context'[f] = None THEN "leave" ELSE "disable")
  /\ UNCHANGED <<owner, keyLock, delegates>>

(* ~PrivateKeyPassphraseProvider(), when createContext() has thrown, too. *)
Withdraw(th, f) ==
  /\ At(th, f, "provided")
  /\ delegates' = delegates \ {f} /\ keyLock' = None
  /\ Goto(th, f, IF context[f] = None THEN "leave" ELSE "disable")
  /\ UNCHANGED <<owner, context, opened>>

DisableProtocols(th, f) ==
  /\ At(th, f, "disable")
  /\ context' = [context EXCEPT ![f] = DisabledProtocols(f)]
  /\ Goto(th, f, "leave")
  /\ UNCHANGED <<owner, keyLock, delegates, opened>>

(* The guard of m_lock goes; context() returns or throws. *)
Leave(th, f) ==
  /\ At(th, f, "leave")
  /\ owner' = [owner EXCEPT ![f] = None]
  /\ Goto(th, f, "got")
  /\ UNCHANGED <<keyLock, delegates, context, opened>>

(* The caller uses the context, and perhaps asks for another one. *)
UseContext(th, f) ==
  /\ At(th, f, "got") /\ Goto(th, None, "idle")
  /\ UNCHANGED <<owner, keyLock, delegates, context, opened>>

SSLNext ==
  \E th \in Threads, f \in Facilities :
    \/ AskContext(th, f) \/ Provide(th, f) \/ CreateContext(th, f) \/ Withdraw(th, f)
    \/ DisableProtocols(th, f) \/ Leave(th, f) \/ UseContext(th, f)

(* However the threads mix: a key is tried with no passphrase but its own  *)
(* when the facility has one; with the right one the caller has the        *)
(* context, every protocol disabled that should be; and nobody is left     *)
(* registered.  (A facility without a passphrase may be given the one of   *)
(* another that is being made; nothing is promised to it.)                 *)
KeysAreOpened ==
  /\ \A f \in Facilities : Passphrase[f] # "" => opened[f] \subseteq {Passphrase[f]}
  /\ \A th \in Threads, f \in Facilities :
       At(th, f, "got") /\ PrivateKey[f] \in {"", Passphrase[f]} =>
         context[f] = DisabledProtocols(f)
  /\ (\A th \in Threads : caller[th].at \in {"idle", "got"}) =>
       delegates = {} /\ keyLock = None /\ \A f \in Facilities : owner[f] = None
=============================================================================
