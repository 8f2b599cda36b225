---------------------------- MODULE Values_proofs -----------------------------
(***************************************************************************)
(* What the families of Values promise: the contexts of SSLFacility, the   *)
(* transactions, the credentials, the messages of the fake server, the     *)
(* Z-Wave products, the generators, the identifiers and the statistics.    *)
(* Each has an inductive invariant of its own, which the other families    *)
(* leave alone.  The documents are in Documents_proofs.                    *)
(***************************************************************************)
EXTENDS Values, SequenceTheorems, FiniteSetTheorems, WellFoundedInduction, TLAPS

-----------------------------------------------------------------------------
(* SSLFacility.  A thread that is within initContext() of a facility has   *)
(* its lock, one that is within the life of a provider defaultLock, too.   *)
Facilities == Ssl!Facilities
Within(th, f) ==
  caller[th].of = f /\ caller[th].at \in {"provide", "create", "provided", "disable", "leave"}
Provides(th, f) ==
  caller[th].of = f /\ Passphrase[f] # "" /\ caller[th].at \in {"create", "provided"}

SslTypeOK ==
  /\ owner \in [Facilities -> Threads \cup {None}]
  /\ keyLock \in Threads \cup {None}
  /\ delegates \subseteq Facilities
  /\ DOMAIN context = Facilities /\ DOMAIN opened = Facilities
  /\ DOMAIN caller = Threads
  /\ \A th \in Threads :
       /\ caller[th] = [at |-> caller[th].at, of |-> caller[th].of]
       /\ caller[th].at \in {"idle", "provide", "create", "provided", "disable", "leave", "got"}
       /\ caller[th].at # "idle" => caller[th].of \in Facilities
       /\ caller[th].at \in {"provide", "provided"} => Passphrase[caller[th].of] # ""

Locked ==
  /\ \A th \in Threads, f \in Facilities : Within(th, f) <=> owner[f] = th
  /\ \A th \in Threads, f \in Facilities : Provides(th, f) => keyLock = th /\ delegates = {f}
  /\ \A th \in Threads : keyLock = th => \E f \in Facilities : Provides(th, f)
  /\ keyLock = None => delegates = {}

(* A key that can be opened is opened by the first, and from then on the   *)
(* context of the facility stays the one that was made.                    *)
CanOpen(f) == PrivateKey[f] \in {"", Passphrase[f]}

Tried(f) == Passphrase[f] # "" => opened[f] \subseteq {Passphrase[f]}
Rests(f) == CanOpen(f) /\ owner[f] = None => context[f] \in {None, Ssl!DisabledProtocols(f)}
Holds(th, f) ==
  CanOpen(f) /\ caller[th].of = f =>
    /\ caller[th].at \in {"provide", "create"} => context[f] = None
    /\ caller[th].at \in {"provided", "disable"} => context[f] = "made"
    /\ caller[th].at \in {"leave", "got"} => context[f] = Ssl!DisabledProtocols(f)

Contexts ==
  /\ \A f \in Facilities : Tried(f) /\ Rests(f)
  /\ \A th \in Threads, f \in Facilities : Holds(th, f)

SslInv == SslTypeOK /\ Locked /\ Contexts

LEMMA Protected ==
  ASSUME NEW f \in Facilities
  PROVE  Ssl!DisabledProtocols(f) # None
<1>1. CASE Protocols[f] = None
  BY <1>1, NoneAssumption DEF Ssl!DisabledProtocols, Ssl!Known
<1>2. CASE Protocols[f] # None
  BY <1>2, NoneAssumption DEF Ssl!DisabledProtocols
<1> QED
  BY <1>1, <1>2

LEMMA SslStarts ==
  ASSUME Ssl!SSLInit
  PROVE  SslInv
<1>1. SslTypeOK
  BY DEF Ssl!SSLInit, SslTypeOK, Facilities
<1>2. Locked
  BY NoneAssumption DEF Ssl!SSLInit, Locked, Within, Provides, Facilities
<1>3. Contexts
  BY DEF Ssl!SSLInit, Contexts, Tried, Rests, Holds, Facilities
<1> QED
  BY <1>1, <1>2, <1>3 DEF SslInv

(* The thread that takes a step is the only one that goes on. *)
Went(th, f, to) ==
  /\ DOMAIN caller' = Threads
  /\ caller'[th] = [at |-> to, of |-> f] /\ caller'[th].at = to /\ caller'[th].of = f
  /\ \A other \in Threads : other # th => caller'[other] = caller[other]

LEMMA SslGoes ==
  ASSUME DOMAIN caller = Threads, NEW th \in Threads, NEW f, NEW to, Ssl!Goto(th, f, to)
  PROVE  Went(th, f, to)
<1>1. caller' = [caller EXCEPT ![th] = [at |-> to, of |-> f]]
  BY DEF Ssl!Goto
<1> QED
  BY <1>1 DEF Went

LEMMA SslTyped ==
  ASSUME SslTypeOK, NEW th \in Threads, NEW f,
         NEW to \in {"idle", "provide", "create", "provided", "disable", "leave", "got"},
         Went(th, f, to), to # "idle" => f \in Facilities,
         to \in {"provide", "provided"} => Passphrase[f] # "",
         owner' \in [Facilities -> Threads \cup {None}], keyLock' \in Threads \cup {None},
         delegates' \subseteq Facilities, DOMAIN context' = Facilities, DOMAIN opened' = Facilities
  PROVE  SslTypeOK'
<1>1. ASSUME NEW t \in Threads
      PROVE  /\ caller'[t] = [at |-> caller'[t].at, of |-> caller'[t].of]
             /\ caller'[t].at \in {"idle", "provide", "create", "provided", "disable", "leave", "got"}
             /\ caller'[t].at # "idle" => caller'[t].of \in Facilities
             /\ caller'[t].at \in {"provide", "provided"} => Passphrase[caller'[t].of] # ""
  <2>1. CASE t = th
    BY <2>1 DEF Went
  <2>2. CASE t # th
    BY <2>2 DEF Went, SslTypeOK
  <2> QED
    BY <2>1, <2>2
<1> QED
  BY <1>1 DEF SslTypeOK, Went

(* Whoever does not take the step is where it was. *)
LEMMA SslOthers ==
  ASSUME NEW th \in Threads, NEW f, NEW to, Went(th, f, to), NEW t \in Threads, t # th
  PROVE  /\ caller'[t] = caller[t]
         /\ \A g \in Facilities : Within(t, g)' <=> Within(t, g)
         /\ \A g \in Facilities : Provides(t, g)' <=> Provides(t, g)
<1>1. caller'[t] = caller[t]
  BY DEF Went
<1> QED
  BY <1>1 DEF Within, Provides

LEMMA SslAlone ==
  ASSUME SslInv, NEW th \in Threads, NEW f \in Facilities, Within(th, f),
         NEW t \in Threads, t # th
  PROVE  ~Within(t, f)
  BY DEF SslInv, Locked

(* AskContext() takes the lock and finds out what there is to do. *)
LEMMA SslAsks ==
  ASSUME SslInv, NEW th \in Threads, NEW f \in Facilities, Ssl!AskContext(th, f)
  PROVE  SslInv'
<1> USE DEF SslInv
<1>1. \E to \in {"leave", "provide", "create"} :
        /\ Ssl!Goto(th, f, to)
        /\ (to = "leave" <=> context[f] # None)
        /\ to = "provide" => Passphrase[f] # ""
        /\ to = "create" => Passphrase[f] = ""
  <2>1. CASE context[f] # None
    <3>1. Ssl!Goto(th, f, "leave")
      BY <2>1 DEF Ssl!AskContext
    <3> QED
      BY <2>1, <3>1
  <2>2. CASE context[f] = None /\ Passphrase[f] # ""
    <3>1. Ssl!Goto(th, f, "provide")
      BY <2>2 DEF Ssl!AskContext
    <3> QED
      BY <2>2, <3>1
  <2>3. CASE context[f] = None /\ Passphrase[f] = ""
    <3>1. Ssl!Goto(th, f, "create")
      BY <2>3 DEF Ssl!AskContext
    <3> QED
      BY <2>3, <3>1
  <2> QED
    BY <2>1, <2>2, <2>3
<1>2. PICK to \in {"leave", "provide", "create"} :
        /\ Ssl!Goto(th, f, to)
        /\ (to = "leave" <=> context[f] # None)
        /\ to = "provide" => Passphrase[f] # ""
        /\ to = "create" => Passphrase[f] = ""
  BY <1>1
<1>3. Went(th, f, to)
  BY <1>2, SslGoes DEF SslTypeOK
<1>4. /\ caller[th].at = "idle" /\ owner[f] = None /\ owner' = [owner EXCEPT ![f] = th]
      /\ UNCHANGED <<keyLock, delegates, context, opened>>
  BY DEF Ssl!AskContext
<1>5. SslTypeOK'
  BY <1>2, <1>3, <1>4, SslTyped DEF SslTypeOK
<1>6. Locked'
  <2>1. \A g \in Facilities : owner'[g] = IF g = f THEN th ELSE owner[g]
    BY <1>4 DEF SslTypeOK
  <2>2. ASSUME NEW t \in Threads, NEW g \in Facilities
        PROVE  (Within(t, g)' <=> owner'[g] = t) /\ (Provides(t, g)' <=> Provides(t, g))
    <3>1. CASE t = th
      <4>1. ~Within(th, g) /\ ~Provides(th, g)
        BY <1>4 DEF Within, Provides
      <4>2. Within(th, g)' <=> g = f
        BY <1>2, <1>3 DEF Went, Within
      <4>3. ~Provides(th, g)'
        BY <1>2, <1>3 DEF Went, Provides
      <4>4. owner'[g] = th <=> g = f
        BY <2>1, <4>1 DEF Locked
      <4> QED
        BY <3>1, <4>1, <4>2, <4>3, <4>4
    <3>2. CASE t # th
      <4>1. caller'[t] = caller[t]
        BY <1>3, <3>2 DEF Went
      <4>2. (Within(t, g)' <=> Within(t, g)) /\ (Provides(t, g)' <=> Provides(t, g))
        BY <4>1 DEF Within, Provides
      <4>3. owner'[g] = t <=> owner[g] = t
        BY <1>4, <2>1, <3>2, NoneAssumption
      <4> QED
        BY <4>2, <4>3 DEF Locked
    <3> QED
      BY <3>1, <3>2
  <2> QED
    BY <1>4, <2>2 DEF Locked
<1>7. Contexts'
  <2>1. ASSUME NEW g \in Facilities PROVE Tried(g)' /\ Rests(g)'
    <3>1. owner'[g] = None => owner[g] = None
      BY <1>4, NoneAssumption DEF SslTypeOK
    <3> QED
      BY <1>4, <3>1 DEF Contexts, Tried, Rests
  <2>2. ASSUME NEW t \in Threads, NEW g \in Facilities PROVE Holds(t, g)'
    <3>1. CASE t = th
      <4>1. CASE to = "leave"
        <5>1. CanOpen(f) => context[f] = Ssl!DisabledProtocols(f)
          BY <1>2, <1>4, <4>1 DEF Contexts, Rests
        <5> QED
          BY <1>3, <1>4, <3>1, <4>1, <5>1 DEF Holds, Went
      <4>2. CASE to # "leave"
        BY <1>2, <1>3, <1>4, <3>1, <4>2 DEF Holds, Went
      <4> QED
        BY <4>1, <4>2
    <3>2. CASE t # th
      BY <1>3, <1>4, <3>2 DEF Contexts, Holds, Went
    <3> QED
      BY <3>1, <3>2
  <2> QED
    BY <2>1, <2>2 DEF Contexts
<1> QED
  BY <1>5, <1>6, <1>7

(* Provide() finds nobody registered. *)
LEMMA SslProvides ==
  ASSUME SslInv, NEW th \in Threads, NEW f \in Facilities, Ssl!Provide(th, f)
  PROVE  SslInv'
<1> USE DEF SslInv
<1>1. Went(th, f, "create")
  BY SslGoes DEF Ssl!Provide, SslTypeOK
<1>2. /\ caller[th].at = "provide" /\ caller[th].of = f
      /\ keyLock = None /\ keyLock' = th /\ delegates' = delegates \cup {f}
      /\ UNCHANGED <<owner, context, opened>>
  BY DEF Ssl!Provide, Ssl!At
<1>3. Passphrase[f] # ""
  BY <1>2 DEF SslTypeOK
<1>4. delegates' = {f}
  BY <1>2 DEF Locked
<1>5. SslTypeOK'
  BY <1>1, <1>2, SslTyped DEF SslTypeOK
<1>6. Locked'
  <2>1. /\ \A g \in Facilities : Within(th, g)' <=> g = f
        /\ \A g \in Facilities : Within(th, g) <=> g = f
        /\ \A g \in Facilities : Provides(th, g)' <=> g = f
    BY <1>1, <1>2, <1>3 DEF Went, Within, Provides
  <2>2. ASSUME NEW t \in Threads, t # th, NEW g \in Facilities PROVE ~Provides(t, g)'
    <3>1. ~Provides(t, g)
      BY <1>2, NoneAssumption DEF Locked
    <3> QED
      BY <1>1, <2>2, <3>1, SslOthers
  <2>3. \A t \in Threads, g \in Facilities : Within(t, g)' <=> Within(t, g)
    BY <1>1, <2>1, SslOthers
  <2> QED
    BY <1>2, <1>4, <2>1, <2>2, <2>3, NoneAssumption DEF Locked
<1>7. Contexts'
  <2>1. \A g \in Facilities : Tried(g)' /\ Rests(g)'
    BY <1>2 DEF Contexts, Tried, Rests
  <2>2. ASSUME NEW t \in Threads, NEW g \in Facilities PROVE Holds(t, g)'
    <3>1. Holds(t, g)
      BY DEF Contexts
    <3>2. CASE t = th
      BY <1>1, <1>2, <3>1, <3>2 DEF Holds, Went
    <3>3. CASE t # th
      BY <1>1, <1>2, <3>1, <3>3, SslOthers DEF Holds
    <3> QED
      BY <3>2, <3>3
  <2> QED
    BY <2>1, <2>2 DEF Contexts
<1> QED
  BY <1>5, <1>6, <1>7

(* Withdraw() leaves nobody registered. *)
LEMMA SslWithdraws ==
  ASSUME SslInv, NEW th \in Threads, NEW f \in Facilities, Ssl!Withdraw(th, f)
  PROVE  SslInv'
<1> USE DEF SslInv
<1>1. PICK to \in {"leave", "disable"} :
        Went(th, f, to) /\ (to = "leave" <=> context[f] = None)
  <2>1. CASE context[f] = None
    <3>1. Ssl!Goto(th, f, "leave")
      BY <2>1 DEF Ssl!Withdraw
    <3> QED
      BY <2>1, <3>1, SslGoes DEF SslTypeOK
  <2>2. CASE context[f] # None
    <3>1. Ssl!Goto(th, f, "disable")
      BY <2>2 DEF Ssl!Withdraw
    <3> QED
      BY <2>2, <3>1, SslGoes DEF SslTypeOK
  <2> QED
    BY <2>1, <2>2
<1>2. /\ caller[th].at = "provided" /\ caller[th].of = f
      /\ keyLock' = None /\ delegates' = delegates \ {f}
      /\ UNCHANGED <<owner, context, opened>>
  BY DEF Ssl!Withdraw, Ssl!At
<1>3. Provides(th, f)
  BY <1>2 DEF SslTypeOK, Provides
<1>4. delegates' = {} /\ keyLock = th
  BY <1>2, <1>3 DEF Locked
<1>5. SslTypeOK'
  <2>1. /\ owner' \in [Facilities -> Threads \cup {None}] /\ keyLock' \in Threads \cup {None}
        /\ delegates' \subseteq Facilities
        /\ DOMAIN context' = Facilities /\ DOMAIN opened' = Facilities
    BY <1>2, <1>4 DEF SslTypeOK
  <2> QED
    BY <1>1, <2>1, SslTyped
<1>6. Locked'
  <2>1. /\ \A g \in Facilities : Within(th, g)' <=> g = f
        /\ \A g \in Facilities : Within(th, g) <=> g = f
        /\ \A g \in Facilities : ~Provides(th, g)'
    BY <1>1, <1>2 DEF Went, Within, Provides
  <2>2. ASSUME NEW t \in Threads, t # th, NEW g \in Facilities PROVE ~Provides(t, g)'
    <3>1. ~Provides(t, g)
      BY <1>4, <2>2 DEF Locked
    <3> QED
      BY <1>1, <2>2, <3>1, SslOthers
  <2>3. \A t \in Threads, g \in Facilities : Within(t, g)' <=> Within(t, g)
    BY <1>1, <2>1, SslOthers
  <2> QED
    BY <1>2, <1>4, <2>1, <2>2, <2>3, NoneAssumption DEF Locked
<1>7. Contexts'
  <2>1. \A g \in Facilities : Tried(g)' /\ Rests(g)'
    BY <1>2 DEF Contexts, Tried, Rests
  <2>2. ASSUME NEW t \in Threads, NEW g \in Facilities PROVE Holds(t, g)'
    <3>1. Holds(t, g)
      BY DEF Contexts
    <3>2. CASE t = th
      BY <1>1, <1>2, <3>1, <3>2, NoneAssumption DEF Holds, Went
    <3>3. CASE t # th
      BY <1>1, <1>2, <3>1, <3>3, SslOthers DEF Holds
    <3> QED
      BY <3>2, <3>3
  <2> QED
    BY <2>1, <2>2 DEF Contexts
<1> QED
  BY <1>5, <1>6, <1>7

(* DisableProtocols() finishes a context that was made. *)
LEMMA SslDisables ==
  ASSUME SslInv, NEW th \in Threads, NEW f \in Facilities, Ssl!DisableProtocols(th, f)
  PROVE  SslInv'
<1> USE DEF SslInv
<1>1. Went(th, f, "leave")
  BY SslGoes DEF Ssl!DisableProtocols, SslTypeOK
<1>2. /\ caller[th].at = "disable" /\ caller[th].of = f
      /\ context' = [context EXCEPT ![f] = Ssl!DisabledProtocols(f)]
      /\ UNCHANGED <<owner, keyLock, delegates, opened>>
  BY DEF Ssl!DisableProtocols, Ssl!At
<1>3. DOMAIN context' = Facilities
      /\ \A g \in Facilities : context'[g] = IF g = f THEN Ssl!DisabledProtocols(f) ELSE context[g]
  BY <1>2 DEF SslTypeOK
<1>4. SslTypeOK'
  BY <1>1, <1>2, <1>3, SslTyped DEF SslTypeOK
<1>5. Within(th, f)
  BY <1>2 DEF Within
<1>6. Locked'
  <2>1. /\ \A g \in Facilities : Within(th, g)' <=> Within(th, g)
        /\ \A g \in Facilities : Provides(th, g)' <=> Provides(th, g)
    BY <1>1, <1>2 DEF Went, Within, Provides
  <2>2. /\ \A t \in Threads, g \in Facilities : Within(t, g)' <=> Within(t, g)
        /\ \A t \in Threads, g \in Facilities : Provides(t, g)' <=> Provides(t, g)
    BY <1>1, <2>1, SslOthers
  <2> QED
    BY <1>2, <2>2 DEF Locked
<1>7. Contexts'
  <2>1. \A g \in Facilities : Tried(g)' /\ Rests(g)'
    BY <1>2, <1>3 DEF Contexts, Tried, Rests, CanOpen
  <2>2. ASSUME NEW t \in Threads, NEW g \in Facilities PROVE Holds(t, g)'
    <3>1. Holds(t, g)
      BY DEF Contexts
    <3>2. CASE t = th
      BY <1>1, <1>2, <1>3, <3>1, <3>2 DEF Holds, Went
    <3>3. CASE t # th /\ g # f
      BY <1>1, <1>2, <1>3, <3>1, <3>3, SslOthers DEF Holds
    <3>4. CASE t # th /\ g = f
      <4>1. ~Within(t, f)
        BY <1>5, <3>4, SslAlone
      <4>2. caller'[t] = caller[t]
        BY <1>1, <3>4, SslOthers
      <4> QED
        BY <1>3, <3>4, <4>1, <4>2 DEF Holds, Within
    <3> QED
      BY <3>2, <3>3, <3>4
  <2> QED
    BY <2>1, <2>2 DEF Contexts
<1> QED
  BY <1>4, <1>6, <1>7

(* Leave() and UseContext() change nothing but who holds the lock. *)
LEMMA SslLeaves ==
  ASSUME SslInv, NEW th \in Threads, NEW f \in Facilities, Ssl!Leave(th, f)
  PROVE  SslInv'
<1> USE DEF SslInv
<1>1. Went(th, f, "got")
  BY SslGoes DEF Ssl!Leave, SslTypeOK
<1>2. /\ caller[th].at = "leave" /\ caller[th].of = f
      /\ owner' = [owner EXCEPT ![f] = None]
      /\ UNCHANGED <<keyLock, delegates, context, opened>>
  BY DEF Ssl!Leave, Ssl!At
<1>3. \A g \in Facilities : owner'[g] = IF g = f THEN None ELSE owner[g]
  BY <1>2 DEF SslTypeOK
<1>4. SslTypeOK'
  BY <1>1, <1>2, SslTyped DEF SslTypeOK
<1>5. Within(th, f)
  BY <1>2 DEF Within
<1>6. Locked'
  <2>1. /\ \A g \in Facilities : ~Within(th, g)'
        /\ \A g \in Facilities : Within(th, g) <=> g = f
        /\ \A g \in Facilities : Provides(th, g)' <=> Provides(th, g)
    BY <1>1, <1>2 DEF Went, Within, Provides
  <2>2. \A t \in Threads, g \in Facilities : Provides(t, g)' <=> Provides(t, g)
    BY <1>1, <2>1, SslOthers
  <2>3. ASSUME NEW t \in Threads, NEW g \in Facilities PROVE Within(t, g)' <=> owner'[g] = t
    <3>1. Within(t, g) <=> owner[g] = t
      BY DEF Locked
    <3>2. CASE t = th
      BY <1>3, <2>1, <3>1, <3>2, NoneAssumption
    <3>3. CASE t # th
      <4>1. Within(t, g)' <=> Within(t, g)
        BY <1>1, <3>3, SslOthers
      <4>2. ~Within(t, f)
        BY <1>5, <3>3, SslAlone
      <4> QED
        BY <1>3, <3>1, <4>1, <4>2, NoneAssumption
    <3> QED
      BY <3>2, <3>3
  <2> QED
    BY <1>2, <2>2, <2>3 DEF Locked
<1>7. Contexts'
  <2>1. Holds(th, f)
    BY DEF Contexts
  <2>2. ASSUME NEW g \in Facilities PROVE Tried(g)' /\ Rests(g)'
    <3>1. Tried(g) /\ Rests(g)
      BY DEF Contexts
    <3>2. CASE g = f
      BY <1>2, <2>1, <3>1, <3>2 DEF Tried, Rests, Holds, CanOpen
    <3>3. CASE g # f
      BY <1>2, <1>3, <3>1, <3>3 DEF Tried, Rests
    <3> QED
      BY <3>2, <3>3
  <2>3. ASSUME NEW t \in Threads, NEW g \in Facilities PROVE Holds(t, g)'
    <3>1. Holds(t, g)
      BY DEF Contexts
    <3>2. CASE t = th
      BY <1>1, <1>2, <3>1, <3>2 DEF Holds, Went
    <3>3. CASE t # th
      BY <1>1, <1>2, <3>1, <3>3, SslOthers DEF Holds
    <3> QED
      BY <3>2, <3>3
  <2> QED
    BY <2>2, <2>3 DEF Contexts
<1> QED
  BY <1>4, <1>6, <1>7

LEMMA SslUses ==
  ASSUME SslInv, NEW th \in Threads, NEW f \in Facilities, Ssl!UseContext(th, f)
  PROVE  SslInv'
<1> USE DEF SslInv
<1>1. Went(th, None, "idle")
  BY SslGoes DEF Ssl!UseContext, SslTypeOK
<1>2. /\ caller[th].at = "got" /\ caller[th].of = f
      /\ UNCHANGED <<owner, keyLock, delegates, context, opened>>
  BY DEF Ssl!UseContext, Ssl!At
<1>3. SslTypeOK'
  BY <1>1, <1>2, SslTyped DEF SslTypeOK
<1>4. Locked'
  <2>1. \A g \in Facilities : /\ ~Within(th, g)' /\ ~Within(th, g)
                             /\ ~Provides(th, g)' /\ ~Provides(th, g)
    BY <1>1, <1>2 DEF Went, Within, Provides
  <2>2. /\ \A t \in Threads, g \in Facilities : Within(t, g)' <=> Within(t, g)
        /\ \A t \in Threads, g \in Facilities : Provides(t, g)' <=> Provides(t, g)
    BY <1>1, <2>1, SslOthers
  <2> QED
    BY <1>2, <2>2 DEF Locked
<1>5. Contexts'
  <2>1. \A g \in Facilities : Tried(g)' /\ Rests(g)'
    BY <1>2 DEF Contexts, Tried, Rests
  <2>2. ASSUME NEW t \in Threads, NEW g \in Facilities PROVE Holds(t, g)'
    <3>1. CASE t = th
      BY <1>1, <3>1 DEF Holds, Went
    <3>2. CASE t # th
      BY <1>1, <1>2, <3>2, SslOthers DEF Contexts, Holds
    <3> QED
      BY <3>1, <3>2
  <2> QED
    BY <2>1, <2>2 DEF Contexts
<1> QED
  BY <1>3, <1>4, <1>5

(* CreateContext() is asked for the passphrase of its own facility when it *)
(* has one: nobody else is registered then.                                *)
LEMMA SslCreates ==
  ASSUME SslInv, NEW th \in Threads, NEW f \in Facilities, Ssl!CreateContext(th, f)
  PROVE  SslInv'
<1> USE DEF SslInv
<1>1. /\ caller[th].at = "create" /\ caller[th].of = f
      /\ UNCHANGED <<owner, keyLock, delegates>>
  <2>1. Ssl!At(th, f, "create") /\ UNCHANGED <<owner, keyLock, delegates>>
    BY Zenon DEF Ssl!CreateContext
  <2> QED
    BY <2>1 DEF Ssl!At
<1>2. Within(th, f) /\ (Passphrase[f] # "" => Provides(th, f))
  BY <1>1 DEF Within, Provides
<1>3. Passphrase[f] # "" => Ssl!Answers = {Passphrase[f]}
  <2>1. Passphrase[f] # "" => delegates = {f}
    BY <1>2 DEF Locked
  <2> QED
    BY <2>1 DEF Ssl!Answers
<1>4. /\ DOMAIN opened' = Facilities /\ \A g \in Facilities : g # f => opened'[g] = opened[g]
      /\ DOMAIN context' = Facilities /\ \A g \in Facilities : g # f => context'[g] = context[g]
      /\ Passphrase[f] # "" /\ opened[f] \subseteq {Passphrase[f]} => opened'[f] \subseteq {Passphrase[f]}
      /\ CanOpen(f) => context'[f] = "made"
  <2>1. CASE PrivateKey[f] = ""
    BY <2>1 DEF Ssl!CreateContext, SslTypeOK
  <2>2. CASE PrivateKey[f] # ""
    <3>1. PICK answer \in Ssl!Answers :
            /\ opened' = [opened EXCEPT ![f] = @ \cup {answer}]
            /\ context' = [context EXCEPT ![f] = IF answer = PrivateKey[f] THEN "made" ELSE None]
      BY <2>2 DEF Ssl!CreateContext
    <3>2. CanOpen(f) => answer = PrivateKey[f]
      BY <1>3, <2>2 DEF CanOpen
    <3> QED
      BY <1>3, <3>1, <3>2 DEF SslTypeOK
  <2> QED
    BY <2>1, <2>2
<1>5. PICK to \in {"provided", "leave", "disable"} :
        /\ Went(th, f, to)
        /\ (to = "provided" <=> Passphrase[f] # "")
        /\ (to = "leave" => context'[f] = None)
  <2>1. CASE Passphrase[f] # ""
    <3>1. Ssl!Goto(th, f, "provided")
      BY <2>1 DEF Ssl!CreateContext
    <3> QED
      BY <2>1, <3>1, SslGoes DEF SslTypeOK
  <2>2. CASE Passphrase[f] = "" /\ context'[f] = None
    <3>1. Ssl!Goto(th, f, "leave")
      BY <2>2 DEF Ssl!CreateContext
    <3> QED
      BY <2>2, <3>1, SslGoes DEF SslTypeOK
  <2>3. CASE Passphrase[f] = "" /\ context'[f] # None
    <3>1. Ssl!Goto(th, f, "disable")
      BY <2>3 DEF Ssl!CreateContext
    <3> QED
      BY <2>3, <3>1, SslGoes DEF SslTypeOK
  <2> QED
    BY <2>1, <2>2, <2>3
<1>6. SslTypeOK'
  <2>1. /\ owner' \in [Facilities -> Threads \cup {None}] /\ keyLock' \in Threads \cup {None}
        /\ delegates' \subseteq Facilities
    BY <1>1 DEF SslTypeOK
  <2> QED
    BY <1>4, <1>5, <2>1, SslTyped
<1>7. Locked'
  <2>1. \A g \in Facilities : Within(th, g)' <=> Within(th, g)
    BY <1>1, <1>5 DEF Went, Within
  <2>2. \A g \in Facilities : Provides(th, g)' <=> Provides(th, g)
    BY <1>1, <1>5 DEF Went, Provides
  <2>3. /\ \A t \in Threads, g \in Facilities : Within(t, g)' <=> Within(t, g)
        /\ \A t \in Threads, g \in Facilities : Provides(t, g)' <=> Provides(t, g)
    BY <1>5, <2>1, <2>2, SslOthers
  <2> QED
    BY <1>1, <2>3 DEF Locked
<1>8. Contexts'
  <2>1. ASSUME NEW g \in Facilities PROVE Tried(g)' /\ Rests(g)'
    <3>1. Tried(g) /\ Rests(g)
      BY DEF Contexts
    <3>2. owner[f] # None
      BY <1>2, NoneAssumption DEF Locked
    <3>3. CASE g = f
      BY <1>1, <1>4, <3>1, <3>2, <3>3 DEF Tried, Rests
    <3>4. CASE g # f
      BY <1>1, <1>4, <3>1, <3>4 DEF Tried, Rests
    <3> QED
      BY <3>3, <3>4
  <2>2. ASSUME NEW t \in Threads, NEW g \in Facilities PROVE Holds(t, g)'
    <3>1. Holds(t, g)
      BY DEF Contexts
    <3>2. CASE t = th
      BY <1>4, <1>5, <3>2, NoneAssumption DEF Holds, Went, CanOpen
    <3>3. CASE t # th /\ g # f
      BY <1>4, <1>5, <3>1, <3>3, SslOthers DEF Holds
    <3>4. CASE t # th /\ g = f
      <4>1. caller'[t] = caller[t] /\ ~Within(t, f)
        BY <1>2, <1>5, <3>4, SslOthers, SslAlone
      <4>2. CanOpen(f) /\ caller[th].of = f => context[f] = None
        BY <1>1 DEF Contexts, Holds
      <4>3. CanOpen(f) /\ caller[t].of = f => caller[t].at \notin {"leave", "got"}
        BY <1>1, <3>1, <3>4, <4>2, Protected DEF Holds
      <4> QED
        BY <3>4, <4>1, <4>3 DEF Holds, Within, CanOpen
    <3> QED
      BY <3>2, <3>3, <3>4
  <2> QED
    BY <2>1, <2>2 DEF Contexts
<1> QED
  BY <1>6, <1>7, <1>8

LEMMA SslKeeps ==
  ASSUME SslInv, [Ssl!SSLNext]_sslVars
  PROVE  SslInv'
<1>1. CASE UNCHANGED sslVars
  <2>1. /\ owner' = owner /\ keyLock' = keyLock /\ delegates' = delegates
        /\ context' = context /\ opened' = opened /\ caller' = caller
    BY <1>1 DEF sslVars
  <2>2. SslTypeOK'
    BY <2>1 DEF SslInv, SslTypeOK
  <2>3. /\ \A th \in Threads, f \in Facilities : Within(th, f)' <=> Within(th, f)
        /\ \A th \in Threads, f \in Facilities : Provides(th, f)' <=> Provides(th, f)
    BY <2>1 DEF Within, Provides
  <2>4. Locked'
    BY <2>1, <2>3 DEF SslInv, Locked
  <2>5. Contexts'
    BY <2>1 DEF SslInv, Contexts, Tried, Rests, Holds
  <2> QED
    BY <2>2, <2>4, <2>5 DEF SslInv
<1>2. CASE Ssl!SSLNext
  <2> PICK th \in Threads, f \in Facilities :
        \/ Ssl!AskContext(th, f) \/ Ssl!Provide(th, f) \/ Ssl!CreateContext(th, f) \/ Ssl!Withdraw(th, f)
        \/ Ssl!DisableProtocols(th, f) \/ Ssl!Leave(th, f) \/ Ssl!UseContext(th, f)
    BY <1>2 DEF Ssl!SSLNext, Facilities
  <2> QED
    BY SslAsks, SslProvides, SslCreates, SslWithdraws, SslDisables, SslLeaves, SslUses
<1> QED
  BY <1>1, <1>2

LEMMA SslAgrees ==
  ASSUME SslInv
  PROVE  Ssl!KeysAreOpened
<1>1. ASSUME NEW th \in Threads, NEW f \in Facilities,
             Ssl!At(th, f, "got"), PrivateKey[f] \in {"", Passphrase[f]}
      PROVE  context[f] = Ssl!DisabledProtocols(f)
  <2>1. caller[th] = [at |-> "got", of |-> f]
    BY <1>1, Zenon DEF Ssl!At
  <2>2. CanOpen(f)
    BY <1>1, Zenon DEF CanOpen
  <2>3. Holds(th, f)
    BY DEF SslInv, Contexts
  <2> QED
    BY <2>1, <2>2, <2>3 DEF Holds
<1>2. ASSUME \A th \in Threads : caller[th].at \in {"idle", "got"}
      PROVE  delegates = {} /\ keyLock = None /\ \A f \in Facilities : owner[f] = None
  <2>1. \A th \in Threads, f \in Facilities : ~Within(th, f) /\ ~Provides(th, f)
    BY <1>2 DEF Within, Provides
  <2> QED
    BY <2>1 DEF SslInv, Locked, SslTypeOK
<1> QED
  BY <1>1, <1>2 DEF SslInv, Contexts, Tried, Ssl!KeysAreOpened, Facilities

(* However the threads that ask for contexts mix, and however many         *)
(* facilities there are: SSLFacility::initContext() tries a key with no    *)
(* passphrase but its own when the facility has one, gives a context with  *)
(* the protocols disabled that should be, and leaves nobody registered.    *)
THEOREM KeysOpenedInAnyOrder == Spec => []Ssl!KeysAreOpened
<1>1. Init => SslInv
  BY SslStarts DEF Init
<1>2. SslInv /\ [Next]_vars => SslInv'
  <2> SUFFICES ASSUME SslInv, [Next]_vars PROVE SslInv'
    OBVIOUS
  <2>1. [Ssl!SSLNext]_sslVars
    BY Zenon DEF Next, vars, InfoStep, ServerStep, ProductStep, CredentialsStep, IdentifierStep, StatisticsStep,
      TransactionStep, SslStep, GeneratorStep
  <2> QED
    BY <2>1, SslKeeps
<1>3. SslInv => Ssl!KeysAreOpened
  BY SslAgrees
<1> QED
  BY <1>1, <1>2, <1>3, PTL DEF Spec

-----------------------------------------------------------------------------
(* Transactions.  A frame of a thread is that of one of its own wrappers.  *)
(* A thread where nothing went wrong has no frame and no transaction, or   *)
(* one of each; the wrappers it had before have ended the way they should. *)
Frames == [t : Nat, at : {"action", "commit", "catch", "delete"}]
Endings == Seq({"commit", "rollback"})
Results == {"none", "returned", "threw"}
Wrappers == [thread : Threads, alive : BOOLEAN, has : BOOLEAN]

TransactionTypeOK ==
  /\ self \in [Threads -> Nat] /\ stack \in [Threads -> Seq(Frames)]
  /\ wrapper \in Seq(Wrappers) /\ ended \in Seq(Endings) /\ result \in Seq(Results)
  /\ Len(ended) = Len(wrapper) /\ Len(result) = Len(wrapper)
  /\ broken \subseteq Threads

OwnWrappers(th) ==
  /\ self[th] # 0 => self[th] \in 1..Len(wrapper) /\ wrapper[self[th]].thread = th
  /\ \A i \in 1..Len(stack[th]) :
       stack[th][i].t \in 1..Len(wrapper) /\ wrapper[stack[th][i].t].thread = th

EndedOnce(t) ==
  \/ ended[t] = <<"commit">> /\ result[t] = "returned"
  \/ ended[t] = <<"rollback">> /\ result[t] \in {"returned", "threw"}

Underway(t, at) ==
  /\ at # "delete" => ended[t] = <<>>
  /\ at = "action" => result[t] = "none"
  /\ at = "commit" => result[t] = "returned"
  /\ at = "catch" => result[t] \in {"returned", "threw"}
  /\ at = "delete" => EndedOnce(t)

Alone(th) ==
  /\ self[th] = 0 => stack[th] = <<>>
  /\ self[th] # 0 => /\ Len(stack[th]) = 1 /\ stack[th][1].t = self[th]
                     /\ Underway(self[th], stack[th][1].at)
  /\ \A t \in 1..Len(wrapper) : wrapper[t].thread = th =>
       (wrapper[t].alive <=> t = self[th]) /\ (t # self[th] => EndedOnce(t))

TransactionInv ==
  /\ TransactionTypeOK
  /\ \A th \in Threads : OwnWrappers(th) /\ (th \notin broken => Alone(th))

LEMMA TransactionsStart ==
  ASSUME Transactional!TransactionsInit
  PROVE  TransactionInv
<1>1. /\ self = [th \in Threads |-> 0] /\ stack = [th \in Threads |-> << >>]
      /\ wrapper = << >> /\ ended = << >> /\ result = << >> /\ broken = {}
  BY DEF Transactional!TransactionsInit
<1>2. \A S : << >> \in Seq(S) /\ Len(<< >>) = 0
  OBVIOUS
<1>3. TransactionTypeOK
  BY <1>1, <1>2 DEF TransactionTypeOK
<1>4. ASSUME NEW th \in Threads PROVE OwnWrappers(th) /\ Alone(th)
  BY <1>1, <1>2 DEF OwnWrappers, Alone
<1> QED
  BY <1>3, <1>4 DEF TransactionInv

(* A step of a thread touches the wrappers of nobody else. *)
Apart(th) ==
  /\ Len(wrapper) <= Len(wrapper')
  /\ \A t \in 1..Len(wrapper) : wrapper'[t].thread = wrapper[t].thread
  /\ \A t \in 1..Len(wrapper) : wrapper[t].thread # th =>
       wrapper'[t] = wrapper[t] /\ ended'[t] = ended[t] /\ result'[t] = result[t]
  /\ \A t \in 1..Len(wrapper') : t \notin 1..Len(wrapper) => wrapper'[t].thread = th
  /\ \A other \in Threads : other # th =>
       self'[other] = self[other] /\ stack'[other] = stack[other] /\ (other \in broken' <=> other \in broken)

LEMMA TransactionsApart ==
  ASSUME TransactionInv, TransactionTypeOK', NEW th \in Threads, Apart(th),
         OwnWrappers(th)', th \notin broken' => Alone(th)'
  PROVE  TransactionInv'
<1>1. ASSUME NEW other \in Threads, other # th
      PROVE  OwnWrappers(other)' /\ (other \notin broken' => Alone(other)')
  <2>1. self'[other] = self[other] /\ stack'[other] = stack[other] /\ (other \in broken' <=> other \in broken)
    BY <1>1 DEF Apart
  <2>2. OwnWrappers(other) /\ (other \notin broken => Alone(other))
    BY DEF TransactionInv
  <2>3. Len(wrapper) \in Nat /\ Len(wrapper') \in Nat /\ Len(wrapper) <= Len(wrapper')
    BY LenProperties DEF TransactionInv, TransactionTypeOK, Apart
  <2>4. OwnWrappers(other)'
    <3>1. \A t \in 1..Len(wrapper) : t \in 1..Len(wrapper') /\ wrapper'[t].thread = wrapper[t].thread
      BY <2>3 DEF Apart
    <3> QED
      BY <2>1, <2>2, <3>1 DEF OwnWrappers
  <2>5. ASSUME other \notin broken' PROVE Alone(other)'
    <3>1. Alone(other)
      BY <2>1, <2>2, <2>5
    <3>2. ASSUME NEW t \in 1..Len(wrapper'), wrapper'[t].thread = other
          PROVE  /\ t \in 1..Len(wrapper) /\ wrapper[t].thread = other /\ wrapper'[t] = wrapper[t]
                 /\ ended'[t] = ended[t] /\ result'[t] = result[t]
      BY <1>1, <3>2 DEF Apart
    <3>3. ASSUME self[other] # 0
          PROVE  Underway(self[other], stack[other][1].at)'
      <4>1. /\ ended'[self[other]] = ended[self[other]] /\ result'[self[other]] = result[self[other]]
            /\ self'[other] = self[other] /\ stack'[other][1].at = stack[other][1].at
        BY <1>1, <2>1, <2>2, <3>3 DEF OwnWrappers, Apart
      <4>2. Underway(self[other], stack[other][1].at)
        BY <3>1, <3>3 DEF Alone
      <4> QED
        BY <4>1, <4>2 DEF Underway, EndedOnce
    <3>4. ASSUME NEW t \in 1..Len(wrapper'), wrapper'[t].thread = other
          PROVE  (wrapper'[t].alive <=> t = self'[other]) /\ (t # self'[other] => EndedOnce(t)')
      <4>1. (wrapper[t].alive <=> t = self[other]) /\ (t # self[other] => EndedOnce(t))
        BY <3>1, <3>2, <3>4 DEF Alone
      <4> QED
        BY <2>1, <3>2, <3>4, <4>1 DEF EndedOnce
    <3> QED
      BY <2>1, <3>1, <3>3, <3>4 DEF Alone
  <2> QED
    BY <2>4, <2>5
<1> QED
  BY <1>1 DEF TransactionInv

(* What becomes of the frames. *)
LEMMA FramePushed ==
  ASSUME stack \in [Threads -> Seq(Frames)], NEW th \in Threads, NEW t \in Nat, Transactional!Pushed(th, t)
  PROVE  /\ stack' \in [Threads -> Seq(Frames)]
         /\ \A other \in Threads : other # th => stack'[other] = stack[other]
         /\ Len(stack'[th]) = Len(stack[th]) + 1
         /\ \A i \in 1..Len(stack[th]) : stack'[th][i] = stack[th][i]
         /\ stack'[th][Len(stack[th]) + 1] = [t |-> t, at |-> "action"]
<1> DEFINE frame == [t |-> t, at |-> "action"]
<1>1. frame \in Frames
  BY DEF Frames
<1>2. stack' = [stack EXCEPT ![th] = Append(stack[th], frame)]
  BY DEF Transactional!Pushed
<1> HIDE DEF frame
<1>3. stack'[th] = Append(stack[th], frame) /\ stack[th] \in Seq(Frames)
  BY <1>2
<1>4. /\ stack'[th] \in Seq(Frames) /\ Len(stack'[th]) = Len(stack[th]) + 1
      /\ \A i \in 1..Len(stack[th]) : stack'[th][i] = stack[th][i]
      /\ stack'[th][Len(stack[th]) + 1] = frame
  BY <1>1, <1>3, AppendProperties
<1> QED
  BY <1>2, <1>4 DEF frame

LEMMA FrameGoes ==
  ASSUME stack \in [Threads -> Seq(Frames)], NEW th \in Threads, stack[th] # << >>,
         NEW at \in {"action", "commit", "catch", "delete"}, Transactional!Goto(th, at)
  PROVE  /\ stack' \in [Threads -> Seq(Frames)]
         /\ \A other \in Threads : other # th => stack'[other] = stack[other]
         /\ Len(stack'[th]) = Len(stack[th]) /\ stack'[th] # << >>
         /\ \A i \in 1..Len(stack[th]) : stack'[th][i].t = stack[th][i].t
         /\ stack'[th][Len(stack[th])].at = at
<1>1. Len(stack[th]) \in 1..Len(stack[th]) /\ stack[th] \in Seq(Frames)
  BY LenProperties, EmptySeq
<1> PICK frame : frame = [t |-> stack[th][Len(stack[th])].t, at |-> at]
  OBVIOUS
<1>2. stack[th][Len(stack[th])] \in Frames
  BY <1>1, LenProperties
<1>3. frame \in Frames /\ frame.t = stack[th][Len(stack[th])].t /\ frame.at = at
      /\ [stack[th][Len(stack[th])] EXCEPT !.at = at] = frame
  BY <1>2 DEF Frames
<1>4. stack'[th] = [stack[th] EXCEPT ![Len(stack[th])] = frame]
      /\ \A other \in Threads : other # th => stack'[other] = stack[other]
      /\ DOMAIN stack' = Threads
  BY <1>1, <1>3, LenProperties DEF Transactional!Goto
<1>5. /\ stack'[th] \in Seq(Frames) /\ Len(stack'[th]) = Len(stack[th])
      /\ \A i \in 1..Len(stack[th]) : stack'[th][i] = IF i = Len(stack[th]) THEN frame ELSE stack[th][i]
  BY <1>1, <1>3, <1>4, ExceptSeq
<1>6. stack' \in [Threads -> Seq(Frames)]
  <2>1. \A other \in Threads : stack'[other] \in Seq(Frames)
    BY <1>4, <1>5
  <2>2. stack' = [other \in Threads |-> stack'[other]]
    BY DEF Transactional!Goto
  <2> QED
    BY <2>1, <2>2
<1> QED
  BY <1>1, <1>3, <1>4, <1>5, <1>6, LenProperties, EmptySeq

LEMMA FrameLeft ==
  ASSUME stack \in [Threads -> Seq(Frames)], NEW th \in Threads, stack[th] # << >>,
         Transactional!Returns(th) \/ Transactional!Throws(th)
  PROVE  /\ stack' \in [Threads -> Seq(Frames)]
         /\ \A other \in Threads : other # th => stack'[other] = stack[other]
         /\ Len(stack'[th]) = Len(stack[th]) - 1
         /\ \A i \in 1..Len(stack[th]) - 1 : stack'[th][i].t = stack[th][i].t
<1> PICK front : front = Transactional!Front(stack[th])
  OBVIOUS
<1>1. Len(stack[th]) \in Nat \ {0} /\ stack[th] \in Seq(Frames)
  BY LenProperties, EmptySeq
<1>2. /\ front \in Seq(Frames) /\ Len(front) = Len(stack[th]) - 1
      /\ \A i \in 1..Len(stack[th]) - 1 : front[i] = stack[th][i] /\ front[i] \in Frames
  <2> PICK n \in Nat : n = Len(stack[th]) - 1
    BY <1>1
  <2>1. \A i \in 1..n : stack[th][i] \in Frames
    BY <1>1, LenProperties
  <2>2. front = SubSeq(stack[th], 1, n)
    BY DEF Transactional!Front
  <2>3. /\ front \in Seq(Frames) /\ Len(front) = IF 1 <= n THEN n - 1 + 1 ELSE 0
        /\ \A i \in 1..n - 1 + 1 : front[i] = stack[th][1 + i - 1]
    BY <2>1, <2>2, SubSeqProperties
  <2>4. Len(front) = n /\ \A i \in 1..n : front[i] = stack[th][i]
    <3>1. n - 1 + 1 = n /\ \A i \in 1..n : 1 + i - 1 = i
      OBVIOUS
    <3> QED
      BY <2>3, <3>1
  <2> QED
    BY <2>1, <2>3, <2>4
<1>3. PICK top \in Seq(Frames) :
        /\ stack' = [stack EXCEPT ![th] = top] /\ Len(top) = Len(front)
        /\ \A i \in 1..Len(front) : top[i].t = front[i].t
  <2>1. CASE Transactional!Returns(th)
    BY <1>2, <2>1 DEF Transactional!Returns
  <2>2. CASE Transactional!Throws(th) /\ front = << >>
    BY <1>2, <2>2 DEF Transactional!Throws
  <2>3. CASE Transactional!Throws(th) /\ front # << >>
    <3>1. Len(front) \in 1..Len(front)
      BY <1>2, <2>3, LenProperties, EmptySeq
    <3> PICK frame : frame = [front[Len(front)] EXCEPT !.at = "catch"]
      OBVIOUS
    <3>2. frame \in Frames /\ frame.t = front[Len(front)].t
      <4>1. front[Len(front)] \in Frames
        BY <1>2, <3>1, LenProperties
      <4> QED
        BY <4>1 DEF Frames
    <3> PICK top : top = [front EXCEPT ![Len(front)] = frame]
      OBVIOUS
    <3>3. /\ top \in Seq(Frames) /\ Len(top) = Len(front)
          /\ \A i \in 1..Len(front) : top[i] = IF i = Len(front) THEN frame ELSE front[i]
      BY <1>2, <3>1, <3>2, ExceptSeq
    <3>4. stack' = [stack EXCEPT ![th] = top]
      BY <2>3 DEF Transactional!Throws
    <3>5. \A i \in 1..Len(front) : top[i].t = front[i].t
      BY <3>2, <3>3
    <3> QED
      BY <3>3, <3>4, <3>5
  <2> QED
    BY <2>1, <2>2, <2>3
<1> QED
  BY <1>1, <1>2, <1>3

LEMMA TopFrame ==
  ASSUME TransactionInv, NEW th \in Threads, NEW at, Transactional!At(th, at)
  PROVE  /\ stack[th] # << >>
         /\ Transactional!Top(th).t \in 1..Len(wrapper) /\ wrapper[Transactional!Top(th).t].thread = th
         /\ th \notin broken => /\ Len(stack[th]) = 1 /\ Transactional!Top(th).t = self[th]
                              /\ self[th] # 0 /\ Alone(th) /\ Underway(self[th], at)
<1>1. stack[th] # << >> /\ stack[th][Len(stack[th])].at = at
  BY DEF Transactional!At, Transactional!Top, Transactional!Last
<1>2. Len(stack[th]) \in 1..Len(stack[th])
  BY <1>1, LenProperties, EmptySeq DEF TransactionInv, TransactionTypeOK
<1>3. Transactional!Top(th) = stack[th][Len(stack[th])]
  BY DEF Transactional!Top, Transactional!Last
<1>4. OwnWrappers(th) /\ (th \notin broken => Alone(th))
  BY DEF TransactionInv
<1> QED
  BY <1>1, <1>2, <1>3, <1>4 DEF OwnWrappers, Alone

LEMMA TransactionStartsNew ==
  ASSUME TransactionInv, NEW th \in Threads, Transactional!StartNew(th)
  PROVE  TransactionInv'
<1> USE DEF TransactionInv
<1> PICK n \in Nat : n = Len(wrapper)
  BY LenProperties DEF TransactionTypeOK
<1> PICK new : new = [thread |-> th, alive |-> TRUE, has |-> TRUE]
  OBVIOUS
<1>1. new \in Wrappers /\ new.thread = th /\ new.alive
  BY DEF Wrappers
<1>2. /\ self[th] = 0 /\ wrapper' = Append(wrapper, new) /\ ended' = Append(ended, << >>)
      /\ result' = Append(result, "none") /\ self' = [self EXCEPT ![th] = Len(wrapper')]
      /\ Transactional!Pushed(th, Len(wrapper')) /\ broken' = broken
  BY DEF Transactional!StartNew
<1>3. /\ wrapper' \in Seq(Wrappers) /\ Len(wrapper') = n + 1 /\ wrapper'[n + 1] = new
      /\ \A t \in 1..n : wrapper'[t] = wrapper[t]
  BY <1>1, <1>2, AppendProperties DEF TransactionTypeOK
<1>4. /\ ended' \in Seq(Endings) /\ Len(ended') = n + 1 /\ ended'[n + 1] = << >>
      /\ \A t \in 1..n : ended'[t] = ended[t]
  <2>1. << >> \in Endings
    BY DEF Endings
  <2> QED
    BY <1>2, <2>1, AppendProperties DEF TransactionTypeOK
<1>5. /\ result' \in Seq(Results) /\ Len(result') = n + 1 /\ result'[n + 1] = "none"
      /\ \A t \in 1..n : result'[t] = result[t]
  <2>1. "none" \in Results
    BY DEF Results
  <2>2. result \in Seq(Results)
    BY DEF TransactionTypeOK
  <2>3. Len(result) = n
    BY DEF TransactionTypeOK
  <2> QED
    BY <1>2, <2>1, <2>2, <2>3, AppendProperties
<1>6. /\ stack' \in [Threads -> Seq(Frames)]
      /\ \A other \in Threads : other # th => stack'[other] = stack[other]
      /\ Len(stack'[th]) = Len(stack[th]) + 1
      /\ \A i \in 1..Len(stack[th]) : stack'[th][i] = stack[th][i]
      /\ stack'[th][Len(stack[th]) + 1] = [t |-> n + 1, at |-> "action"]
  BY <1>2, <1>3, FramePushed DEF TransactionTypeOK
<1>7. self' \in [Threads -> Nat] /\ self'[th] = n + 1
      /\ \A other \in Threads : other # th => self'[other] = self[other]
  BY <1>2, <1>3 DEF TransactionTypeOK
<1>8. TransactionTypeOK'
  BY <1>2, <1>3, <1>4, <1>5, <1>6, <1>7 DEF TransactionTypeOK
<1>9. Apart(th)
  BY <1>1, <1>2, <1>3, <1>4, <1>5, <1>6, <1>7 DEF Apart
<1>10. OwnWrappers(th)'
  <2>1. Len(stack[th]) \in Nat
    BY LenProperties DEF TransactionTypeOK
  <2>2. ASSUME NEW i \in 1..Len(stack'[th])
        PROVE  stack'[th][i].t \in 1..Len(wrapper') /\ wrapper'[stack'[th][i].t].thread = th
    <3>1. CASE i \in 1..Len(stack[th])
      <4>1. stack[th][i].t \in 1..n /\ wrapper[stack[th][i].t].thread = th
        BY <3>1 DEF OwnWrappers
      <4> QED
        BY <1>3, <1>6, <3>1, <4>1
    <3>2. CASE i = Len(stack[th]) + 1
      BY <1>1, <1>3, <1>6, <3>2
    <3> QED
      BY <1>6, <2>1, <3>1, <3>2
  <2> QED
    BY <1>1, <1>3, <1>7, <2>2 DEF OwnWrappers
<1>11. ASSUME th \notin broken' PROVE Alone(th)'
  <2>1. Alone(th) /\ stack[th] = << >>
    BY <1>2, <1>11 DEF Alone
  <2>2. Len(stack'[th]) = 1 /\ stack'[th][1].t = self'[th] /\ stack'[th][1].at = "action"
    BY <1>6, <1>7, <2>1
  <2>3. Underway(self[th], stack[th][1].at)'
    BY <1>4, <1>5, <1>7, <2>2 DEF Underway
  <2>4. ASSUME NEW t \in 1..n + 1, wrapper'[t].thread = th
        PROVE  (wrapper'[t].alive <=> t = self'[th]) /\ (t # self'[th] => EndedOnce(t)')
    <3>1. CASE t = n + 1
      BY <1>1, <1>3, <1>7, <3>1
    <3>2. CASE t \in 1..n
      BY <1>2, <1>3, <1>4, <1>5, <1>7, <2>1, <2>4, <3>2 DEF Alone, EndedOnce
    <3> QED
      BY <3>1, <3>2
  <2> QED
    BY <1>3, <1>7, <2>2, <2>3, <2>4 DEF Alone
<1> QED
  BY <1>8, <1>9, <1>10, <1>11, TransactionsApart

(* A wrapper without a transaction stays with the thread for good. *)
LEMMA TransactionNotCreated ==
  ASSUME TransactionInv, NEW th \in Threads, Transactional!CreateThrows(th)
  PROVE  TransactionInv'
<1> USE DEF TransactionInv
<1>1. stack' = stack
  BY DEF Transactional!CreateThrows
<1>2. CASE UNCHANGED <<wrapper, ended, result, self, broken>>
  BY <1>1, <1>2 DEF TransactionTypeOK, OwnWrappers, Alone, Underway, EndedOnce
<1>3. CASE ~UNCHANGED <<wrapper, ended, result, self, broken>>
  <2> PICK n \in Nat : n = Len(wrapper)
    BY LenProperties DEF TransactionTypeOK
  <2> PICK new : new = [thread |-> th, alive |-> TRUE, has |-> FALSE]
    OBVIOUS
  <2>1. new \in Wrappers /\ new.thread = th
    BY DEF Wrappers
  <2>2. /\ wrapper' = Append(wrapper, new) /\ ended' = Append(ended, << >>)
        /\ result' = Append(result, "none") /\ self' = [self EXCEPT ![th] = Len(wrapper')]
        /\ broken' = broken \cup {th}
    BY <1>3 DEF Transactional!CreateThrows
  <2>3. /\ wrapper' \in Seq(Wrappers) /\ Len(wrapper') = n + 1 /\ wrapper'[n + 1] = new
        /\ \A t \in 1..n : wrapper'[t] = wrapper[t]
    BY <2>1, <2>2, AppendProperties DEF TransactionTypeOK
  <2>4. /\ ended' \in Seq(Endings) /\ Len(ended') = n + 1
        /\ \A t \in 1..n : ended'[t] = ended[t]
    <3>1. << >> \in Endings
      BY DEF Endings
    <3>2. ended \in Seq(Endings) /\ Len(ended) = n
      BY DEF TransactionTypeOK
    <3> QED
      BY <2>2, <3>1, <3>2, AppendProperties
  <2>5. /\ result' \in Seq(Results) /\ Len(result') = n + 1
        /\ \A t \in 1..n : result'[t] = result[t]
    <3>1. "none" \in Results
      BY DEF Results
    <3>2. result \in Seq(Results)
      BY DEF TransactionTypeOK
    <3>3. Len(result) = n
      BY DEF TransactionTypeOK
    <3> QED
      BY <2>2, <3>1, <3>2, <3>3, AppendProperties
  <2>6. self' \in [Threads -> Nat] /\ self'[th] = n + 1
        /\ \A other \in Threads : other # th => self'[other] = self[other]
    BY <2>2, <2>3 DEF TransactionTypeOK
  <2>7. TransactionTypeOK'
    BY <1>1, <2>2, <2>3, <2>4, <2>5, <2>6 DEF TransactionTypeOK
  <2>8. Apart(th)
    BY <1>1, <2>1, <2>2, <2>3, <2>4, <2>5, <2>6 DEF Apart
  <2>9. OwnWrappers(th)'
    <3>1. OwnWrappers(th)
      OBVIOUS
    <3>2. \A t \in 1..n : t \in 1..Len(wrapper') /\ wrapper'[t].thread = wrapper[t].thread
      BY <2>3
    <3> QED
      BY <1>1, <2>1, <2>3, <2>6, <3>1, <3>2 DEF OwnWrappers
  <2> QED
    BY <2>2, <2>7, <2>8, <2>9, TransactionsApart
<1> QED
  BY <1>2, <1>3

(* One that has a transaction starts another: it has gone wrong. *)
LEMMA TransactionNests ==
  ASSUME TransactionInv, NEW th \in Threads, Transactional!StartCurrent(th)
  PROVE  TransactionInv'
<1> USE DEF TransactionInv
<1>1. /\ self[th] # 0 /\ Transactional!Pushed(th, self[th])
      /\ broken' = IF stack[th] # << >> THEN broken \cup {th} ELSE broken
      /\ self' = self /\ wrapper' = wrapper /\ ended' = ended /\ result' = result
  BY DEF Transactional!StartCurrent
<1>2. self[th] \in Nat /\ self[th] \in 1..Len(wrapper) /\ wrapper[self[th]].thread = th
  BY <1>1 DEF TransactionTypeOK, OwnWrappers
<1>3. /\ stack' \in [Threads -> Seq(Frames)]
      /\ \A other \in Threads : other # th => stack'[other] = stack[other]
      /\ Len(stack'[th]) = Len(stack[th]) + 1
      /\ \A i \in 1..Len(stack[th]) : stack'[th][i] = stack[th][i]
      /\ stack'[th][Len(stack[th]) + 1] = [t |-> self[th], at |-> "action"]
  BY <1>1, <1>2, FramePushed DEF TransactionTypeOK
<1>4. th \in broken' /\ broken' \subseteq Threads
      /\ \A other \in Threads : other # th => (other \in broken' <=> other \in broken)
  <2>1. th \notin broken => Len(stack[th]) = 1
    BY <1>1 DEF Alone
  <2>2. Len(<< >>) = 0
    OBVIOUS
  <2>3. th \notin broken => stack[th] # << >>
    BY <2>1, <2>2
  <2> QED
    BY <1>1, <2>3 DEF TransactionTypeOK
<1>5. TransactionTypeOK'
  BY <1>1, <1>3, <1>4 DEF TransactionTypeOK
<1>6. Apart(th)
  <2>1. Len(wrapper) \in Nat
    BY LenProperties DEF TransactionTypeOK
  <2> QED
    BY <1>1, <1>3, <1>4, <2>1 DEF Apart
<1>7. OwnWrappers(th)'
  <2>1. Len(stack[th]) \in Nat
    BY LenProperties DEF TransactionTypeOK
  <2>2. ASSUME NEW i \in 1..Len(stack'[th])
        PROVE  stack'[th][i].t \in 1..Len(wrapper) /\ wrapper[stack'[th][i].t].thread = th
    <3>1. CASE i \in 1..Len(stack[th])
      BY <1>3, <3>1 DEF OwnWrappers
    <3>2. CASE i = Len(stack[th]) + 1
      BY <1>2, <1>3, <3>2
    <3> QED
      BY <1>3, <2>1, <3>1, <3>2
  <2> QED
    BY <1>1, <1>2, <2>2 DEF OwnWrappers
<1> QED
  BY <1>4, <1>5, <1>6, <1>7, TransactionsApart

(* The call on top goes on, with what it has done to its transaction. *)
LEMMA TransactionGoesOn ==
  ASSUME TransactionInv, NEW th \in Threads, NEW was, Transactional!At(th, was),
         NEW at \in {"action", "commit", "catch", "delete"}, Transactional!Goto(th, at),
         NEW t, t = Transactional!Top(th).t,
         UNCHANGED <<self, wrapper, broken>>,
         ended' \in Seq(Endings), Len(ended') = Len(ended),
         result' \in Seq(Results), Len(result') = Len(result),
         \A other \in 1..Len(wrapper) : other # t =>
           ended'[other] = ended[other] /\ result'[other] = result[other],
         th \notin broken /\ Underway(t, was) => Underway(t, at)'
  PROVE  TransactionInv'
<1> USE DEF TransactionInv
<1>1. /\ stack[th] # << >> /\ t \in 1..Len(wrapper) /\ wrapper[t].thread = th
      /\ th \notin broken => /\ Len(stack[th]) = 1 /\ t = self[th]
                           /\ self[th] # 0 /\ Alone(th) /\ Underway(t, was)
  <2>1. /\ stack[th] # << >> /\ t \in 1..Len(wrapper) /\ wrapper[t].thread = th
        /\ th \notin broken => /\ Len(stack[th]) = 1 /\ t = self[th]
                             /\ self[th] # 0 /\ Alone(th) /\ Underway(self[th], was)
    BY TopFrame
  <2> QED
    BY <2>1
<1>2. /\ stack' \in [Threads -> Seq(Frames)]
      /\ \A other \in Threads : other # th => stack'[other] = stack[other]
      /\ Len(stack'[th]) = Len(stack[th])
      /\ \A i \in 1..Len(stack[th]) : stack'[th][i].t = stack[th][i].t
      /\ stack'[th][Len(stack[th])].at = at
  BY <1>1, FrameGoes DEF TransactionTypeOK
<1>3. TransactionTypeOK'
  BY <1>2 DEF TransactionTypeOK
<1>4. Apart(th)
  <2>1. Len(wrapper) \in Nat
    BY LenProperties DEF TransactionTypeOK
  <2> QED
    BY <1>1, <1>2, <2>1 DEF Apart
<1>5. OwnWrappers(th)'
  BY <1>2 DEF OwnWrappers
<1>6. ASSUME th \notin broken' PROVE Alone(th)'
  <2>1. Alone(th) /\ Underway(t, at)' /\ t = self[th] /\ t # 0 /\ Len(stack[th]) = 1
    BY <1>1, <1>6
  <2>2. Len(stack'[th]) = 1 /\ stack'[th][1].t = t /\ stack'[th][1].at = at /\ self'[th] = t
    BY <1>2, <2>1 DEF Alone
  <2>3. Underway(self[th], stack[th][1].at)'
    BY <2>1, <2>2 DEF Underway, EndedOnce
  <2>4. ASSUME NEW other \in 1..Len(wrapper), wrapper[other].thread = th
        PROVE  (wrapper[other].alive <=> other = t) /\ (other # t => EndedOnce(other)')
    BY <2>1, <2>4 DEF Alone, EndedOnce
  <2> QED
    BY <2>1, <2>2, <2>3, <2>4 DEF Alone
<1> QED
  BY <1>3, <1>4, <1>5, <1>6, TransactionsApart

LEMMA TransactionActs ==
  ASSUME TransactionInv, NEW th \in Threads, Transactional!ActionEnds(th)
  PROVE  TransactionInv'
<1> PICK t : t = Transactional!Top(th).t
  OBVIOUS
<1>1. Transactional!At(th, "action") /\ UNCHANGED <<self, wrapper, ended, broken>>
  BY DEF Transactional!ActionEnds
<1>2. t \in 1..Len(wrapper) /\ t # 0
  <2>1. Len(wrapper) \in Nat
    BY LenProperties DEF TransactionInv, TransactionTypeOK
  <2> QED
    BY <1>1, <2>1, TopFrame
<1>3. PICK how \in {"returned", "threw"} :
        /\ result' = [result EXCEPT ![t] = how]
        /\ Transactional!Goto(th, IF how = "returned" THEN "commit" ELSE "catch")
  BY <1>2 DEF Transactional!ActionEnds
<1>4. /\ result' \in Seq(Results) /\ Len(result') = Len(result) /\ result'[t] = how
      /\ \A other \in 1..Len(wrapper) : other # t => result'[other] = result[other]
  <2>1. result \in Seq(Results) /\ Len(result) = Len(wrapper)
    BY DEF TransactionInv, TransactionTypeOK
  <2>2. how \in Results
    BY DEF Results
  <2> QED
    BY <1>2, <1>3, <2>1, <2>2, ExceptSeq
<1>5. ended \in Seq(Endings) /\ ended' = ended
  BY <1>1 DEF TransactionInv, TransactionTypeOK
<1>6. CASE how = "returned"
  <2>1. Transactional!Goto(th, "commit")
    BY <1>3, <1>6
  <2>2. Underway(t, "action") => Underway(t, "commit")'
    BY <1>4, <1>5, <1>6 DEF Underway
  <2> QED
    BY <1>1, <1>4, <1>5, <2>1, <2>2, TransactionGoesOn
<1>7. CASE how = "threw"
  <2>1. Transactional!Goto(th, "catch")
    BY <1>3, <1>7
  <2>2. Underway(t, "action") => Underway(t, "catch")'
    BY <1>4, <1>5, <1>7 DEF Underway
  <2> QED
    BY <1>1, <1>4, <1>5, <2>1, <2>2, TransactionGoesOn
<1> QED
  BY <1>6, <1>7

(* What is done to a transaction is the last of what is recorded of it. *)
LEMMA TransactionDone ==
  ASSUME TransactionInv, NEW th \in Threads, NEW was, Transactional!At(th, was),
         NEW what \in {"commit", "rollback"}, Transactional!Did(th, what),
         NEW t, t = Transactional!Top(th).t
  PROVE  /\ ended' \in Seq(Endings) /\ Len(ended') = Len(ended)
         /\ \A other \in 1..Len(wrapper) : other # t => ended'[other] = ended[other]
         /\ ended[t] = << >> => ended'[t] = <<what>>
<1>1. t \in 1..Len(wrapper)
  BY TopFrame
<1>2. ended \in Seq(Endings) /\ Len(ended) = Len(wrapper)
  BY DEF TransactionInv, TransactionTypeOK
<1>3. ended' = [ended EXCEPT ![t] = Append(ended[t], what)]
  BY DEF Transactional!Did
<1>4. Append(ended[t], what) \in Endings
  <2>1. ended[t] \in Endings
    BY <1>1, <1>2, LenProperties
  <2> QED
    BY <2>1, AppendProperties DEF Endings
<1>5. Append(<< >>, what) = <<what>>
  OBVIOUS
<1> PICK more : more = Append(ended[t], what)
  OBVIOUS
<1>6. /\ ended' \in Seq(Endings) /\ Len(ended') = Len(ended)
      /\ \A other \in 1..Len(ended) : ended'[other] = IF other = t THEN more ELSE ended[other]
  BY <1>1, <1>2, <1>3, <1>4, ExceptSeq
<1>7. ended'[t] = Append(ended[t], what)
  BY <1>1, <1>2, <1>6
<1> QED
  BY <1>2, <1>5, <1>6, <1>7

LEMMA TransactionCommits ==
  ASSUME TransactionInv, NEW th \in Threads, Transactional!Commit(th)
  PROVE  TransactionInv'
<1> PICK t : t = Transactional!Top(th).t
  OBVIOUS
<1>1. Transactional!At(th, "commit") /\ UNCHANGED <<self, wrapper, result, broken>>
  BY DEF Transactional!Commit
<1>2. result \in Seq(Results) /\ ended \in Seq(Endings) /\ result' = result
  BY <1>1 DEF TransactionInv, TransactionTypeOK
<1>3. CASE Transactional!Did(th, "commit") /\ Transactional!Goto(th, "delete")
  <2>1. /\ ended' \in Seq(Endings) /\ Len(ended') = Len(ended)
        /\ \A other \in 1..Len(wrapper) : other # t => ended'[other] = ended[other]
        /\ ended[t] = << >> => ended'[t] = <<"commit">>
    BY <1>1, <1>3, TransactionDone, ZenonT(60)
  <2>2. Underway(t, "commit") => Underway(t, "delete")'
    BY <1>2, <2>1 DEF Underway, EndedOnce
  <2> QED
    BY <1>1, <1>2, <1>3, <2>1, <2>2, TransactionGoesOn
<1>4. CASE UNCHANGED ended /\ Transactional!Goto(th, "catch")
  <2>1. Underway(t, "commit") => Underway(t, "catch")'
    BY <1>2, <1>4 DEF Underway
  <2> QED
    BY <1>1, <1>2, <1>4, <2>1, TransactionGoesOn
<1> QED
  BY <1>3, <1>4 DEF Transactional!Commit

(* The call on top is left, of a thread where something went wrong. *)
LEMMA TransactionRollsBack ==
  ASSUME TransactionInv, NEW th \in Threads, Transactional!Rollback(th)
  PROVE  TransactionInv'
<1> PICK t : t = Transactional!Top(th).t
  OBVIOUS
<1>1. Transactional!At(th, "catch") /\ UNCHANGED <<self, wrapper, result>>
  BY DEF Transactional!Rollback
<1>2. result \in Seq(Results) /\ ended \in Seq(Endings) /\ result' = result
  BY <1>1 DEF TransactionInv, TransactionTypeOK
<1>3. CASE Transactional!Did(th, "rollback") /\ Transactional!Goto(th, "delete") /\ UNCHANGED broken
  <2>1. /\ ended' \in Seq(Endings) /\ Len(ended') = Len(ended)
        /\ \A other \in 1..Len(wrapper) : other # t => ended'[other] = ended[other]
        /\ ended[t] = << >> => ended'[t] = <<"rollback">>
    BY <1>1, <1>3, TransactionDone, ZenonT(60)
  <2>2. Underway(t, "catch") => Underway(t, "delete")'
    BY <1>2, <2>1 DEF Underway, EndedOnce
  <2> QED
    BY <1>1, <1>2, <1>3, <2>1, <2>2, TransactionGoesOn
<1>4. CASE UNCHANGED ended /\ Transactional!Throws(th) /\ broken' = broken \cup {th}
  <2>1. /\ stack' \in [Threads -> Seq(Frames)]
        /\ \A other \in Threads : other # th => stack'[other] = stack[other]
        /\ Len(stack'[th]) = Len(stack[th]) - 1
        /\ \A i \in 1..Len(stack[th]) - 1 : stack'[th][i].t = stack[th][i].t
    BY <1>1, <1>4, TopFrame, FrameLeft DEF TransactionInv, TransactionTypeOK
  <2>2. TransactionTypeOK'
    BY <1>1, <1>4, <2>1 DEF TransactionInv, TransactionTypeOK
  <2>3. Len(wrapper) \in Nat /\ Len(stack[th]) \in Nat
    BY LenProperties DEF TransactionInv, TransactionTypeOK
  <2>4. Apart(th)
    BY <1>1, <1>4, <2>1, <2>3 DEF Apart
  <2>5. OwnWrappers(th)'
    <3>1. OwnWrappers(th)
      BY DEF TransactionInv
    <3> QED
      BY SMTT(30), <1>1, <2>1, <2>3, <3>1 DEF OwnWrappers
  <2> QED
    BY <1>4, <2>2, <2>4, <2>5, TransactionsApart
<1> QED
  BY <1>3, <1>4 DEF Transactional!Rollback

(* The destructor of the wrapper, and the call that had it. *)
LEMMA TransactionDeleted ==
  ASSUME TransactionInv, NEW th \in Threads, Transactional!Delete(th)
  PROVE  TransactionInv'
<1> USE DEF TransactionInv
<1> PICK t : t = Transactional!Top(th).t
  OBVIOUS
<1> PICK no : no = FALSE
  OBVIOUS
<1>1. /\ Transactional!At(th, "delete") /\ UNCHANGED <<ended, result, broken>>
      /\ wrapper' = [wrapper EXCEPT ![t].alive = no]
      /\ self' = IF self[th] = t THEN [self EXCEPT ![th] = 0] ELSE self
      /\ Transactional!Throws(th) \/ Transactional!Returns(th)
  BY DEF Transactional!Delete
<1>2. /\ stack[th] # << >> /\ t \in 1..Len(wrapper) /\ wrapper[t].thread = th
      /\ th \notin broken => /\ Len(stack[th]) = 1 /\ t = self[th]
                           /\ Alone(th) /\ Underway(t, "delete")
  <2>1. /\ stack[th] # << >> /\ t \in 1..Len(wrapper) /\ wrapper[t].thread = th
        /\ th \notin broken => /\ Len(stack[th]) = 1 /\ t = self[th]
                             /\ Alone(th) /\ Underway(self[th], "delete")
    BY <1>1, TopFrame
  <2> QED
    BY <2>1
<1>3. Len(wrapper) \in Nat /\ Len(stack[th]) \in Nat /\ wrapper[t] \in Wrappers /\ t # 0
  <2>1. Len(wrapper) \in Nat /\ Len(stack[th]) \in Nat
    BY LenProperties DEF TransactionTypeOK
  <2>2. wrapper[t] \in Wrappers
    BY <1>2, LenProperties DEF TransactionTypeOK
  <2> QED
    BY <1>2, <2>1, <2>2
<1> PICK gone : gone = [wrapper[t] EXCEPT !.alive = no]
  OBVIOUS
<1>4. gone \in Wrappers /\ gone.thread = th /\ ~gone.alive
  BY <1>2, <1>3 DEF Wrappers
<1>5. /\ wrapper' \in Seq(Wrappers) /\ Len(wrapper') = Len(wrapper)
      /\ \A other \in 1..Len(wrapper) : wrapper'[other] = IF other = t THEN gone ELSE wrapper[other]
  <2>1. wrapper' = [wrapper EXCEPT ![t] = gone]
    BY <1>1
  <2> QED
    BY <1>2, <1>4, <2>1, ExceptSeq DEF TransactionTypeOK
<1>6. /\ self' \in [Threads -> Nat] /\ self'[th] \in {0, self[th]} /\ (self[th] = t => self'[th] = 0)
      /\ \A other \in Threads : other # th => self'[other] = self[other]
  <2>1. CASE self[th] = t
    BY <1>1, <2>1 DEF TransactionTypeOK
  <2>2. CASE self[th] # t
    BY <1>1, <2>2 DEF TransactionTypeOK
  <2> QED
    BY <2>1, <2>2
<1>7. /\ stack' \in [Threads -> Seq(Frames)]
      /\ \A other \in Threads : other # th => stack'[other] = stack[other]
      /\ Len(stack'[th]) = Len(stack[th]) - 1
      /\ \A i \in 1..Len(stack[th]) - 1 : stack'[th][i].t = stack[th][i].t
  BY <1>1, <1>2, FrameLeft DEF TransactionTypeOK
<1>8. TransactionTypeOK'
  BY <1>1, <1>5, <1>6, <1>7 DEF TransactionTypeOK
<1>9. \A other \in 1..Len(wrapper) : wrapper'[other].thread = wrapper[other].thread
  BY <1>2, <1>4, <1>5
<1>10. Apart(th)
  BY <1>1, <1>2, <1>3, <1>5, <1>6, <1>7, <1>9 DEF Apart
<1>11. OwnWrappers(th)'
  <2>1. OwnWrappers(th)
    OBVIOUS
  <2>2. \A i \in 1..Len(stack'[th]) :
          stack'[th][i].t \in 1..Len(wrapper') /\ wrapper'[stack'[th][i].t].thread = th
    BY SMTT(30), <1>3, <1>5, <1>7, <1>9, <2>1 DEF OwnWrappers
  <2>3. self'[th] # 0 => self'[th] \in 1..Len(wrapper') /\ wrapper'[self'[th]].thread = th
    BY <1>5, <1>6, <1>9, <2>1 DEF OwnWrappers
  <2> QED
    BY <2>2, <2>3 DEF OwnWrappers
<1>12. ASSUME th \notin broken' PROVE Alone(th)'
  <2>1. Alone(th) /\ t = self[th] /\ EndedOnce(t) /\ Len(stack[th]) = 1
    BY <1>1, <1>2, <1>12 DEF Underway
  <2>2. self'[th] = 0 /\ stack'[th] = << >>
    <3>1. Len(stack'[th]) = 0 /\ stack'[th] \in Seq(Frames)
      BY <1>7, <2>1
    <3> QED
      BY <1>6, <2>1, <3>1, EmptySeq
  <2>3. ASSUME NEW other \in 1..Len(wrapper), wrapper[other].thread = th
        PROVE  ~wrapper'[other].alive /\ EndedOnce(other)'
    <3>1. EndedOnce(other)
      BY <2>1, <2>3 DEF Alone
    <3>2. ~wrapper'[other].alive
      BY <1>4, <1>5, <2>1, <2>3 DEF Alone
    <3> QED
      BY <1>1, <3>1, <3>2 DEF EndedOnce
  <2> QED
    BY <1>3, <1>5, <1>9, <2>2, <2>3 DEF Alone
<1> QED
  BY <1>8, <1>10, <1>11, <1>12, TransactionsApart

LEMMA TransactionsKeep ==
  ASSUME TransactionInv, [Transactional!TransactionsNext]_transactionVars
  PROVE  TransactionInv'
<1>1. CASE UNCHANGED transactionVars
  <2>1. /\ self' = self /\ wrapper' = wrapper /\ ended' = ended /\ stack' = stack
        /\ result' = result /\ broken' = broken
    BY <1>1 DEF transactionVars
  <2> QED
    BY <2>1 DEF TransactionInv, TransactionTypeOK, OwnWrappers, Alone, Underway, EndedOnce
<1>2. ASSUME NEW th \in Threads, Transactional!Start(th) PROVE TransactionInv'
  BY <1>2, TransactionStartsNew, TransactionNotCreated, TransactionNests DEF Transactional!Start
<1>3. CASE Transactional!TransactionsNext
  BY <1>2, <1>3, TransactionActs, TransactionCommits, TransactionRollsBack, TransactionDeleted
  DEF Transactional!TransactionsNext
<1> QED
  BY <1>1, <1>3

LEMMA TransactionsAgree ==
  ASSUME TransactionInv
  PROVE  Transactional!TransactionsEnd
<1> SUFFICES ASSUME NEW th \in Threads \ broken
             PROVE  /\ self[th] # 0 <=> stack[th] # << >>
                    /\ \A t \in DOMAIN wrapper :
                         wrapper[t].thread = th =>
                           /\ wrapper[t].alive <=> self[th] = t
                           /\ ~wrapper[t].alive => ended[t] \in {<<"commit">>, <<"rollback">>}
                           /\ "commit" \in Transactional!ToSet(ended[t]) => result[t] = "returned"
                           /\ result[t] = "threw" /\ ~wrapper[t].alive => ended[t] = <<"rollback">>
  BY DEF Transactional!TransactionsEnd
<1>1. Alone(th) /\ OwnWrappers(th)
  BY DEF TransactionInv
<1>2. DOMAIN wrapper = 1..Len(wrapper)
  BY LenProperties DEF TransactionInv, TransactionTypeOK
<1>3. self[th] # 0 <=> stack[th] # << >>
  <2>1. Len(<< >>) = 0
    OBVIOUS
  <2> QED
    BY <1>1, <2>1 DEF Alone
<1>4. ASSUME NEW t \in DOMAIN wrapper, wrapper[t].thread = th
      PROVE  /\ wrapper[t].alive <=> self[th] = t
             /\ ~wrapper[t].alive => EndedOnce(t)
             /\ ended[t] = << >> \/ EndedOnce(t)
  BY <1>1, <1>2, <1>4 DEF Alone, Underway
<1>5. ASSUME NEW t, ended[t] = << >> \/ EndedOnce(t)
      PROVE  "commit" \in Transactional!ToSet(ended[t]) => result[t] = "returned"
  <2>1. Transactional!ToSet(<< >>) = {}
    BY DEF Transactional!ToSet
  <2>2. Transactional!ToSet(<<"rollback">>) = {"rollback"}
    BY DEF Transactional!ToSet
  <2> QED
    BY <1>5, <2>1, <2>2 DEF EndedOnce
<1>6. \A t : EndedOnce(t) =>
        /\ ended[t] \in {<<"commit">>, <<"rollback">>}
        /\ result[t] = "threw" => ended[t] = <<"rollback">>
  BY DEF EndedOnce
<1> QED
  BY <1>3, <1>4, <1>5, <1>6

(* For any threads and any number of calls: a thread where neither start() *)
(* nor a rollback nor a nested call went wrong has a transaction exactly   *)
(* while transaction() runs, and each that it had was committed after the  *)
(* action had returned, or rolled back, and nothing else.                  *)
THEOREM TransactionsEndOnce == Spec => []Transactional!TransactionsEnd
<1>1. Init => TransactionInv
  BY TransactionsStart DEF Init
<1>2. TransactionInv /\ [Next]_vars => TransactionInv'
  <2> SUFFICES ASSUME TransactionInv, [Next]_vars PROVE TransactionInv'
    OBVIOUS
  <2>1. [Transactional!TransactionsNext]_transactionVars
    BY Zenon DEF Next, vars, InfoStep, ServerStep, ProductStep, CredentialsStep, IdentifierStep, StatisticsStep,
      TransactionStep, SslStep, GeneratorStep
  <2> QED
    BY <2>1, TransactionsKeep
<1>3. TransactionInv => Transactional!TransactionsEnd
  BY TransactionsAgree
<1> QED
  BY <1>1, <1>2, <1>3, PTL DEF Spec

-----------------------------------------------------------------------------
(* Credentials.  Those of a device fit what somebody has put there when    *)
(* each field is encrypted with the key of their parameters.               *)
Typed(type) == type \in DOMAIN Credentials!Fields

Fits(credential, content) ==
  /\ Typed(credential.type) /\ DOMAIN content = Credentials!Fields[credential.type]
  /\ DOMAIN credential.ciphers = DOMAIN content
  /\ credential.params = [name |-> credential.params.name, salt |-> credential.params.salt,
                          it |-> credential.params.it]
  /\ \A field \in DOMAIN content :
       credential.ciphers[field] = Credentials!Encrypt(credential.params, content[field])

(* ... and so does what load() makes of the fields in the configuration. *)
Written(fields, content) == Credentials!Creatable(fields) /\ Fits(Credentials!Create(fields), content)

CredentialsInv ==
  /\ DOMAIN put \subseteq DOMAIN storage
  /\ \A device \in DOMAIN put : Fits(storage[device], put[device])
  /\ DOMAIN saved \subseteq DOMAIN conf \cap Devices
  /\ \A device \in DOMAIN saved : Written(conf[device], saved[device])
  /\ DOMAIN storage \cap DOMAIN saved \subseteq DOMAIN put
  /\ DOMAIN put \subseteq Devices
  /\ loaded => DOMAIN saved \subseteq DOMAIN storage

(* What a map over another one is, and what one with something inserted.   *)
Overlays(map, first, second) ==
  /\ DOMAIN map = DOMAIN first \cup DOMAIN second
  /\ \A field \in DOMAIN first : map[field] = first[field]
  /\ \A field \in DOMAIN second : field \notin DOMAIN first => map[field] = second[field]

Inserts(new, map, device, value) ==
  /\ DOMAIN new = DOMAIN map \cup {device} /\ new[device] = value
  /\ \A other \in DOMAIN map : other # device => new[other] = map[other]

LEMMA Overlaid ==
  ASSUME NEW first, NEW second
  PROVE  Overlays(Credentials!Over(first, second), first, second)
  BY DEF Credentials!Over, Overlays

LEMMA Inserted ==
  ASSUME NEW map, NEW device, NEW value
  PROVE  Inserts(Credentials!Insert(map, device, value), map, device, value)
<1> DEFINE single == [d \in {device} |-> value]
<1>1. DOMAIN single = {device} /\ single[device] = value
  OBVIOUS
<1>2. Credentials!Insert(map, device, value) = Credentials!Over(single, map)
  BY Zenon DEF Credentials!Insert
<1> HIDE DEF single
<1>3. Overlays(Credentials!Over(single, map), single, map)
  BY Overlaid
<1> QED
  BY <1>1, <1>2, <1>3 DEF Overlays, Inserts

LEMMA Restricted ==
  ASSUME NEW map, NEW keys, keys \subseteq DOMAIN map
  PROVE  /\ DOMAIN Credentials!Restrict(map, keys) = keys
         /\ \A key \in keys : Credentials!Restrict(map, keys)[key] = map[key]
  BY DEF Credentials!Restrict

(* Parameters are parsed as what they were, though what is empty is not    *)
(* written.                                                                *)
LEMMA ParamsReadBack ==
  ASSUME NEW name, NEW salt, NEW it
  PROVE  Credentials!ParseParams(Credentials!ParamsText([name |-> name, salt |-> salt, it |-> it])) =
           [name |-> name, salt |-> salt, it |-> it]
<1> PICK params : params = [name |-> name, salt |-> salt, it |-> it]
  OBVIOUS
<1> PICK empty : empty = Credentials!EmptyParams
  OBVIOUS
<1> PICK keys : keys = {field \in DOMAIN params : params[field] # empty[field]}
  OBVIOUS
<1>1. DOMAIN params = {"name", "salt", "it"} /\ DOMAIN empty = {"name", "salt", "it"}
  BY DEF Credentials!EmptyParams
<1>2. keys \subseteq DOMAIN params /\ \A field \in DOMAIN params : field \notin keys => params[field] = empty[field]
  OBVIOUS
<1> PICK shown : shown = Credentials!ParamsText(params)
  OBVIOUS
<1>3. shown = Credentials!Restrict(params, keys)
  BY Zenon DEF Credentials!ParamsText
<1>4. DOMAIN shown = keys /\ \A key \in keys : shown[key] = params[key]
  <2>1. /\ DOMAIN Credentials!Restrict(params, keys) = keys
        /\ \A key \in keys : Credentials!Restrict(params, keys)[key] = params[key]
    BY <1>2, Restricted
  <2> QED
    BY <1>3, <2>1
<1>5. Credentials!ParseParams(shown) = [field \in DOMAIN shown \cup DOMAIN empty |->
                                         IF field \in DOMAIN shown THEN shown[field] ELSE empty[field]]
  BY DEF Credentials!ParseParams, Credentials!Over
<1>6. DOMAIN shown \cup DOMAIN empty = {"name", "salt", "it"}
  BY <1>1, <1>2, <1>4
<1>7. \A field \in {"name", "salt", "it"} :
        (IF field \in DOMAIN shown THEN shown[field] ELSE empty[field]) = params[field]
  BY <1>1, <1>2, <1>4
<1>8. Credentials!ParseParams(shown) = [field \in {"name", "salt", "it"} |-> params[field]]
  BY <1>5, <1>6, <1>7
<1> QED
  BY <1>1, <1>8

(* What save() writes over whatever was there before is read as it was.    *)
LEMMA SavedReadsBack ==
  ASSUME NEW credential, NEW content, Fits(credential, content), NEW old
  PROVE  Written(Credentials!Over(Credentials!SavedFields(credential), old), content)
<1> PICK head : head = [type |-> credential.type, params |-> Credentials!ParamsText(credential.params)]
  OBVIOUS
<1> PICK mine : mine = Credentials!SavedFields(credential)
  OBVIOUS
<1> PICK fields : fields = Credentials!Over(mine, old)
  OBVIOUS
<1> PICK keys : keys = Credentials!Fields[credential.type]
  OBVIOUS
<1>1. DOMAIN head = {"type", "params"} /\ head["type"] = credential.type
      /\ head["params"] = Credentials!ParamsText(credential.params)
  OBVIOUS
<1>2. /\ keys \subseteq {"username", "password", "pin"} /\ Typed(credential.type)
      /\ DOMAIN credential.ciphers = keys /\ DOMAIN content = keys
  BY DEF Fits, Typed, Credentials!Fields
<1>3. /\ {"type", "params"} \cup keys \subseteq DOMAIN mine
      /\ mine["type"] = credential.type /\ mine["params"] = Credentials!ParamsText(credential.params)
      /\ \A key \in keys : mine[key] = credential.ciphers[key]
  <2>1. mine = Credentials!Over(head, credential.ciphers)
    BY Zenon DEF Credentials!SavedFields
  <2>2. PICK ciphers : ciphers = credential.ciphers
    OBVIOUS
  <2>3. Overlays(Credentials!Over(head, ciphers), head, ciphers)
    BY Overlaid
  <2>4. /\ DOMAIN mine = DOMAIN head \cup keys
        /\ \A field \in DOMAIN head : mine[field] = head[field]
        /\ \A field \in keys : field \notin DOMAIN head => mine[field] = credential.ciphers[field]
    BY <1>2, <2>1, <2>2, <2>3 DEF Overlays
  <2> QED
    BY <1>1, <1>2, <2>4
<1>4. /\ {"type", "params"} \cup keys \subseteq DOMAIN fields
      /\ fields["type"] = credential.type /\ fields["params"] = Credentials!ParamsText(credential.params)
      /\ \A key \in keys : fields[key] = credential.ciphers[key]
  <2>1. Overlays(Credentials!Over(mine, old), mine, old)
    BY Overlaid
  <2>2. DOMAIN mine \subseteq DOMAIN fields /\ \A field \in DOMAIN mine : fields[field] = mine[field]
    BY <2>1 DEF Overlays
  <2> QED
    BY <1>3, <2>2
<1>5. fields.type = fields["type"] /\ fields.params = fields["params"]
  OBVIOUS
<1>6. Credentials!Creatable(fields)
  BY <1>2, <1>4, <1>5 DEF Credentials!Creatable, Typed
<1> PICK created : created = Credentials!Create(fields)
  OBVIOUS
<1>7. /\ created.type = credential.type
      /\ created.params = Credentials!ParseParams(Credentials!ParamsText(credential.params))
      /\ created.ciphers = Credentials!Restrict(fields, keys)
  BY <1>4, <1>5 DEF Credentials!Create
<1>8. created.params = credential.params
  BY <1>7, ParamsReadBack DEF Fits
<1>9. DOMAIN created.ciphers = keys /\ \A key \in keys : created.ciphers[key] = credential.ciphers[key]
  BY <1>4, <1>7, Restricted
<1>10. Fits(created, content)
  BY <1>2, <1>7, <1>8, <1>9 DEF Fits
<1> QED
  BY <1>6, <1>10 DEF Written

LEMMA CredentialsStart ==
  ASSUME Credentials!CredentialsInit
  PROVE  CredentialsInv
  BY DEF Credentials!CredentialsInit, CredentialsInv

LEMMA CredentialsPut ==
  ASSUME CredentialsInv, NEW device \in Devices, NEW content \in Contents, NEW salt \in {"", "given"},
         Credentials!InsertOrUpdate(device, Credentials!TypeOf(content), salt, content)
  PROVE  CredentialsInv'
<1> PICK type : type = Credentials!TypeOf(content)
  OBVIOUS
<1>1. Typed(type) /\ Credentials!Fields[type] = DOMAIN content
  BY ContentsAssumption DEF Typed, Credentials!TypeOf
<1>2. PICK params \in Credentials!DeriveParams(salt) : \E key \in Credentials!CreateKey(params) :
        storage' = Credentials!Insert(storage, device,
                     [type |-> type, params |-> params,
                      ciphers |-> [f \in Credentials!Fields[type] |-> Credentials!Encrypt(key, content[f])]])
  BY DEF Credentials!InsertOrUpdate
<1>3. PICK key \in Credentials!CreateKey(params) :
        storage' = Credentials!Insert(storage, device,
                     [type |-> type, params |-> params,
                      ciphers |-> [f \in Credentials!Fields[type] |-> Credentials!Encrypt(key, content[f])]])
  BY <1>2
<1>4. key = params /\ params = [name |-> params.name, salt |-> params.salt, it |-> params.it]
  <2>1. PICK s : params = [name |-> crypto.algorithm, salt |-> s, it |-> crypto.it]
    BY DEF Credentials!DeriveParams
  <2>2. key = params
    BY DEF Credentials!CreateKey
  <2> QED
    BY <2>1, <2>2
<1>5. put' = Credentials!Insert(put, device, content) /\ conf' = conf /\ saved' = saved /\ ~loaded'
  BY DEF Credentials!InsertOrUpdate
<1> PICK ciphers : ciphers = [f \in Credentials!Fields[type] |-> Credentials!Encrypt(key, content[f])]
  OBVIOUS
<1> PICK new : new = [type |-> type, params |-> params, ciphers |-> ciphers]
  OBVIOUS
<1>6. Fits(new, content)
  BY <1>1, <1>4 DEF Fits
<1>7. storage' = Credentials!Insert(storage, device, new)
  BY <1>3
<1>8. Inserts(Credentials!Insert(storage, device, new), storage, device, new)
  BY Inserted
<1>9. Inserts(Credentials!Insert(put, device, content), put, device, content)
  BY Inserted
<1>10. /\ DOMAIN storage' = DOMAIN storage \cup {device} /\ storage'[device] = new
       /\ \A other \in DOMAIN storage : other # device => storage'[other] = storage[other]
       /\ DOMAIN put' = DOMAIN put \cup {device} /\ put'[device] = content
       /\ \A other \in DOMAIN put : other # device => put'[other] = put[other]
  BY <1>5, <1>7, <1>8, <1>9 DEF Inserts
<1>11. \A other \in DOMAIN put' : Fits(storage'[other], put'[other])
  BY <1>6, <1>10 DEF CredentialsInv
<1> QED
  BY <1>5, <1>10, <1>11 DEF CredentialsInv

LEMMA CredentialsRemoved ==
  ASSUME CredentialsInv, NEW device \in Devices, Credentials!RemoveCredentials(device)
  PROVE  CredentialsInv'
<1> PICK keys : keys = DOMAIN storage \ {device}
  OBVIOUS
<1> PICK others : others = DOMAIN put \ {device}
  OBVIOUS
<1>1. /\ storage' = Credentials!Restrict(storage, keys) /\ put' = Credentials!Restrict(put, others)
      /\ conf' = conf /\ saved' = saved /\ ~loaded'
  BY DEF Credentials!RemoveCredentials
<1>2. keys \subseteq DOMAIN storage /\ others \subseteq DOMAIN put
  OBVIOUS
<1>3. /\ DOMAIN storage' = keys /\ \A key \in keys : storage'[key] = storage[key]
      /\ DOMAIN put' = others /\ \A key \in others : put'[key] = put[key]
  BY <1>1, <1>2, Restricted
<1> QED
  BY <1>1, <1>3 DEF CredentialsInv

LEMMA CredentialsSaved ==
  ASSUME CredentialsInv, Credentials!Save
  PROVE  CredentialsInv'
<1>1. /\ saved' = Credentials!Over(put, saved) /\ storage' = storage /\ put' = put /\ ~loaded'
      /\ DOMAIN conf' = DOMAIN storage \cup DOMAIN conf
  BY DEF Credentials!Save
<1>2. ASSUME NEW key \in DOMAIN storage
      PROVE  \E old : conf'[key] = Credentials!Over(Credentials!SavedFields(storage[key]), old)
  BY DEF Credentials!Save
<1>3. \A key \in DOMAIN conf : key \notin DOMAIN storage => conf'[key] = conf[key]
  BY DEF Credentials!Save
<1>4. Overlays(Credentials!Over(put, saved), put, saved)
  BY Overlaid
<1>5. /\ DOMAIN saved' = DOMAIN put \cup DOMAIN saved
      /\ \A key \in DOMAIN put : saved'[key] = put[key]
      /\ \A key \in DOMAIN saved : key \notin DOMAIN put => saved'[key] = saved[key]
  BY <1>1, <1>4 DEF Overlays
<1>6. ASSUME NEW key \in DOMAIN saved' PROVE Written(conf'[key], saved'[key])
  <2>1. CASE key \in DOMAIN put
    <3>1. Fits(storage[key], put[key]) /\ key \in DOMAIN storage
      BY <2>1 DEF CredentialsInv
    <3> QED
      BY <1>2, <1>5, <2>1, <3>1, SavedReadsBack
  <2>2. CASE key \notin DOMAIN put
    BY <1>3, <1>5, <1>6, <2>2 DEF CredentialsInv
  <2> QED
    BY <2>1, <2>2
<1> QED
  BY <1>1, <1>5, <1>6 DEF CredentialsInv

LEMMA CredentialsLoaded ==
  ASSUME CredentialsInv, Credentials!Load
  PROVE  CredentialsInv'
<1> PICK keys : keys = {key \in DOMAIN conf \cap Devices : Credentials!Creatable(conf[key])}
  OBVIOUS
<1> PICK found : found = [key \in keys |-> Credentials!Create(conf[key])]
  OBVIOUS
<1> PICK known : known = Credentials!Restrict(saved, keys \cap DOMAIN saved)
  OBVIOUS
<1> PICK rest : rest = Credentials!Restrict(put, DOMAIN put \ keys)
  OBVIOUS
<1>1. /\ storage' = Credentials!Over(found, storage) /\ put' = Credentials!Over(known, rest)
      /\ conf' = conf /\ saved' = saved
  BY DEF Credentials!Load
<1>2. /\ DOMAIN known = keys \cap DOMAIN saved /\ \A key \in keys \cap DOMAIN saved : known[key] = saved[key]
      /\ DOMAIN rest = DOMAIN put \ keys /\ \A key \in DOMAIN put \ keys : rest[key] = put[key]
  <2>1. keys \cap DOMAIN saved \subseteq DOMAIN saved /\ DOMAIN put \ keys \subseteq DOMAIN put
    OBVIOUS
  <2> QED
    BY <2>1, Restricted
<1>3. Overlays(Credentials!Over(found, storage), found, storage)
  BY Overlaid
<1>4. Overlays(Credentials!Over(known, rest), known, rest)
  BY Overlaid
<1>5. /\ DOMAIN storage' = keys \cup DOMAIN storage
      /\ \A key \in keys : storage'[key] = Credentials!Create(conf[key])
      /\ \A key \in DOMAIN storage : key \notin keys => storage'[key] = storage[key]
  BY <1>1, <1>3 DEF Overlays
<1>6. /\ DOMAIN put' = (keys \cap DOMAIN saved) \cup (DOMAIN put \ keys)
      /\ \A key \in keys \cap DOMAIN saved : put'[key] = saved[key]
      /\ \A key \in DOMAIN put \ keys : put'[key] = put[key]
  <2>1. DOMAIN put' = DOMAIN known \cup DOMAIN rest
    BY <1>1, <1>4 DEF Overlays
  <2>2. \A key \in DOMAIN known : put'[key] = known[key]
    BY <1>1, <1>4 DEF Overlays
  <2>3. \A key \in DOMAIN rest : key \notin DOMAIN known => put'[key] = rest[key]
    BY <1>1, <1>4 DEF Overlays
  <2>4. DOMAIN known = keys \cap DOMAIN saved /\ DOMAIN rest = DOMAIN put \ keys
    BY <1>2
  <2>5. \A key \in keys \cap DOMAIN saved : put'[key] = saved[key]
    BY <1>2, <2>2, <2>4
  <2>6. \A key \in DOMAIN put \ keys : put'[key] = put[key]
    BY <1>2, <2>3, <2>4
  <2> QED
    BY <2>1, <2>4, <2>5, <2>6
<1>7. DOMAIN saved \subseteq keys /\ \A key \in DOMAIN saved : Fits(Credentials!Create(conf[key]), saved[key])
  BY DEF CredentialsInv, Written
<1>8. \A key \in DOMAIN put' : Fits(storage'[key], put'[key])
  BY <1>5, <1>6, <1>7 DEF CredentialsInv
<1> QED
  BY <1>1, <1>5, <1>6, <1>7, <1>8 DEF CredentialsInv

LEMMA CredentialsKeep ==
  ASSUME CredentialsInv, [Credentials!CredentialsNext]_credentialsVars
  PROVE  CredentialsInv'
<1>1. CASE UNCHANGED credentialsVars
  <2>1. storage' = storage /\ conf' = conf /\ put' = put /\ saved' = saved /\ loaded' = loaded
    BY <1>1 DEF credentialsVars
  <2> QED
    BY <2>1 DEF CredentialsInv
<1>2. CASE Credentials!Edit
  <2>1. /\ conf = << >> /\ ~loaded' /\ storage' = storage /\ put' = put /\ saved' = saved
    BY <1>2 DEF Credentials!Edit
  <2>2. DOMAIN conf = {}
    BY <2>1
  <2>3. DOMAIN saved = {}
    BY <2>2 DEF CredentialsInv
  <2> QED
    BY <2>1, <2>3 DEF CredentialsInv
<1>3. CASE Credentials!Restart
  <2>1. /\ DOMAIN storage' = {} /\ DOMAIN put' = {} /\ ~loaded' /\ conf' = conf /\ saved' = saved
    BY <1>3 DEF Credentials!Restart
  <2> QED
    BY <2>1 DEF CredentialsInv
<1>4. CASE Credentials!CredentialsNext
  BY <1>2, <1>3, <1>4, CredentialsPut, CredentialsRemoved, CredentialsSaved, CredentialsLoaded
  DEF Credentials!CredentialsNext
<1> QED
  BY <1>1, <1>4

LEMMA CredentialsAgree ==
  ASSUME CredentialsInv
  PROVE  Credentials!CredentialsReadBack
<1> SUFFICES ASSUME NEW device \in DOMAIN storage \cap DOMAIN put
             PROVE  /\ DOMAIN storage[device].ciphers = DOMAIN put[device]
                    /\ \A key \in Credentials!CreateKey(storage[device].params), field \in DOMAIN put[device] :
                         Credentials!Decrypt(key, storage[device].ciphers[field]) = put[device][field]
  BY DEF CredentialsInv, Credentials!CredentialsReadBack
<1>1. Fits(storage[device], put[device])
  BY DEF CredentialsInv
<1>2. \A key, content : Credentials!Decrypt(key, Credentials!Encrypt(key, content)) = content
  BY DEF Credentials!Decrypt, Credentials!Encrypt
<1>3. \A key \in Credentials!CreateKey(storage[device].params) : key = storage[device].params
  BY DEF Credentials!CreateKey
<1> QED
  BY <1>1, <1>2, <1>3 DEF Fits

(* Whichever type the credentials of a device had when they were saved     *)
(* before, however often they are saved and loaded, and whatever others    *)
(* have in the configuration: CredentialsStorage finds and decrypts what   *)
(* was put or saved last, and load() finds all that was saved.             *)
THEOREM CredentialsAreKept == Spec => []Credentials!CredentialsReadBack
<1>1. Init => CredentialsInv
  BY CredentialsStart DEF Init
<1>2. CredentialsInv /\ [Next]_vars => CredentialsInv'
  <2> SUFFICES ASSUME CredentialsInv, [Next]_vars PROVE CredentialsInv'
    OBVIOUS
  <2>1. [Credentials!CredentialsNext]_credentialsVars
    BY Zenon DEF Next, vars, InfoStep, ServerStep, ProductStep, CredentialsStep, IdentifierStep, StatisticsStep,
      TransactionStep, SslStep, GeneratorStep
  <2> QED
    BY <2>1, CredentialsKeep
<1>3. CredentialsInv => Credentials!CredentialsReadBack
  BY CredentialsAgree
<1> QED
  BY <1>1, <1>2, <1>3, PTL DEF Spec

-----------------------------------------------------------------------------
(* FakeServer: how every message reads, and what is on its way when.         *)
LEMMA ModuleReadsBack ==
  ASSUME NEW module \in 0..9
  PROVE  Server!ParseModule(Server!WrittenModule(module)) = {module}
<1>1. Server!WrittenModule(module) = <<module>>
  BY DEF Server!WrittenModule
<1> QED
  BY <1>1 DEF Server!ParseModule

LEMMA SensorValueReadsBack ==
  ASSUME NEW item, item.module \in 0..9, item = [module |-> item.module, value |-> item.value]
  PROVE  Server!GetSensorValue(Server!SetSensorValue(item)) = {Server!RoundedItem(item)}
<1> DEFINE json == Server!SetSensorValue(item)
<1>1. /\ json.module_id = Server!WrittenModule(item.module)
      /\ json.raw = Server!Written(item.value) /\ json.type = "double"
  BY DEF Server!SetSensorValue
<1>2. Server!ParseModule(json.module_id) = {item.module}
  BY <1>1, ModuleReadsBack
<1>3. Server!GetValue(json) = {Server!ParseFloat(Server!Written(item.value))}
  BY <1>1, Zenon DEF Server!GetValue
<1>4. Server!GetSensorValue(json) = {[module |-> item.module, value |-> Server!ParseFloat(Server!Written(item.value))]}
  BY <1>2, <1>3 DEF Server!GetSensorValue
<1>5. Server!RoundedItem(item) = [module |-> item.module, value |-> Server!ParseFloat(Server!Written(item.value))]
  BY DEF Server!RoundedItem
<1> QED
  BY <1>4, <1>5

LEMMA SensorValuesReadBack ==
  ASSUME NEW items, NEW values, values = [i \in DOMAIN items |-> values[i]],
         \A i \in DOMAIN items : Server!GetSensorValue(items[i]) = {values[i]}
  PROVE  Server!GetSensorValues(items) = {values}
<1>1. ~\E i \in DOMAIN items : Server!GetSensorValue(items[i]) = {}
  OBVIOUS
<1>2. \A i \in DOMAIN items : (CHOOSE item \in Server!GetSensorValue(items[i]) : TRUE) = values[i]
  <2> TAKE i \in DOMAIN items
  <2>1. Server!GetSensorValue(items[i]) = {values[i]}
    OBVIOUS
  <2>2. (CHOOSE item \in {values[i]} : TRUE) \in {values[i]}
    OBVIOUS
  <2> QED
    BY <2>1, <2>2
<1>3. [i \in DOMAIN items |-> CHOOSE item \in Server!GetSensorValue(items[i]) : TRUE] = values
  BY <1>2
<1> QED
  BY <1>1, <1>3, Zenon DEF Server!GetSensorValues

LEMMA SensorDataReadsBack ==
  ASSUME NEW data \in Measured
  PROVE  Server!ToSensorData(Server!FromSensorData(data)) = {Server!Rounded(data)}
<1> DEFINE json == Server!FromSensorData(data)
           values == [i \in DOMAIN data.values |-> Server!RoundedItem(data.values[i])]
<1>1. /\ json.device_id = data.device
      /\ json.values = [i \in DOMAIN data.values |-> Server!SetSensorValue(data.values[i])]
  BY DEF Server!FromSensorData
<1>2. \A i \in DOMAIN data.values :
        Server!GetSensorValue(json.values[i]) = {Server!RoundedItem(data.values[i])}
  <2> TAKE i \in DOMAIN data.values
  <2>1. data.values[i].module \in 0..9
    BY MeasuredAssumption
  <2>2. data.values[i] = [module |-> data.values[i].module, value |-> data.values[i].value]
    BY MeasuredAssumption
  <2>3. json.values[i] = Server!SetSensorValue(data.values[i])
    BY <1>1
  <2> QED
    BY <2>1, <2>2, <2>3, SensorValueReadsBack
<1>3. Server!GetSensorValues(json.values) = {values}
  <2>1. /\ DOMAIN json.values = DOMAIN data.values /\ DOMAIN values = DOMAIN data.values
        /\ \A i \in DOMAIN data.values : values[i] = Server!RoundedItem(data.values[i])
    BY <1>1
  <2>2. values = [i \in DOMAIN json.values |-> values[i]]
    BY <1>1
  <2> HIDE DEF json, values
  <2>3. \A i \in DOMAIN json.values : Server!GetSensorValue(json.values[i]) = {values[i]}
    BY <1>2, <2>1
  <2> QED
    BY <2>2, <2>3, SensorValuesReadBack
<1>4. Server!ToSensorData(json) = {[device |-> data.device, values |-> values]}
  BY <1>1, <1>3 DEF Server!ToSensorData
<1>5. Server!Rounded(data) = [device |-> data.device, values |-> values]
  BY MeasuredAssumption DEF Server!Rounded
<1> QED
  BY <1>4, <1>5

(* A command on its way to a manager is read as it was written. *)
LEMMA CommandReadsBack ==
  ASSUME NEW command \in Actions
  PROVE  LET json == Server!FromCommand(1, command)
         IN  \/ /\ json.message_type = "listen_cmd"
                /\ Server!ToGatewayListenCommand(json) = {Server!Rounded(command)}
             \/ /\ json.message_type = "set_values_cmd"
                /\ Server!ToDeviceSetValueCommand(json) = {Server!Rounded(command)}
             \/ /\ json.message_type = "device_unpair_cmd"
                /\ Server!ToDeviceUnpairCommand(json) = {Server!Rounded(command)}
<1> DEFINE json == Server!FromCommand(1, command)
<1>1. CASE command.name = "listen" /\ command = [name |-> "listen", duration |-> command.duration]
  <2>1. json = Server!FromGatewayListenCommand(1, command)
    BY <1>1, Zenon DEF Server!FromCommand
  <2>2. /\ json.message_type = "listen_cmd" /\ json.duration = Server!WrittenTime(command.duration)
    BY <2>1 DEF Server!FromGatewayListenCommand
  <2>3. Server!Rounded(command) = [name |-> "listen",
                                   duration |-> Server!ParseTime(Server!WrittenTime(command.duration))]
    BY <1>1 DEF Server!Rounded
  <2> QED
    BY <2>2, <2>3, Zenon DEF Server!ToGatewayListenCommand
<1>2. CASE command.name = "unpair" /\ command = [name |-> "unpair", device |-> command.device]
  <2>1. json = Server!FromDeviceUnpairCommand(1, command)
    BY <1>2 DEF Server!FromCommand
  <2>2. /\ json.message_type = "device_unpair_cmd" /\ json.device_id = command.device
    BY <2>1 DEF Server!FromDeviceUnpairCommand
  <2>3. Server!Rounded(command) = [name |-> "unpair", device |-> command.device]
    BY <1>2 DEF Server!Rounded
  <2> QED
    BY <2>2, <2>3, Zenon DEF Server!ToDeviceUnpairCommand
<1>3. CASE /\ command.name = "set"
           /\ command = [name |-> "set", device |-> command.device, module |-> command.module,
                         value |-> command.value, timeout |-> command.timeout]
           /\ command.module \in 0..9
  <2>1. json = Server!FromDeviceSetValueCommand(1, command)
    BY <1>3 DEF Server!FromCommand
  <2>2. /\ json.message_type = "set_values_cmd" /\ json.device_id = command.device
        /\ json.timeout = Server!WrittenTime(command.timeout)
        /\ json.values.module_id = Server!WrittenModule(command.module)
        /\ json.values.raw = Server!Written(command.value) /\ json.values.type = "double"
    BY <2>1 DEF Server!FromDeviceSetValueCommand, Server!SetSensorValue
  <2>3. Server!ParseModule(json.values.module_id) = {command.module}
    BY <1>3, <2>2, ModuleReadsBack
  <2>4. Server!GetValue(json.values) = {Server!ParseFloat(Server!Written(command.value))}
    BY <2>2, Zenon DEF Server!GetValue
  <2>5. Server!ToDeviceSetValueCommand(json) =
          {[name |-> "set", device |-> command.device, module |-> command.module,
            value |-> Server!ParseFloat(Server!Written(command.value)),
            timeout |-> Server!ParseTime(Server!WrittenTime(command.timeout))]}
    BY <2>2, <2>3, <2>4 DEF Server!ToDeviceSetValueCommand
  <2>6. Server!Rounded(command) =
          [name |-> "set", device |-> command.device, module |-> command.module,
           value |-> Server!ParseFloat(Server!Written(command.value)),
           timeout |-> Server!ParseTime(Server!WrittenTime(command.timeout))]
    BY <1>3 DEF Server!Rounded
  <2> QED
    BY <2>2, <2>5, <2>6
<1> QED
  BY <1>1, <1>2, <1>3, ActionsAssumption

(* The questions of a manager. *)
ListCommand(prefix) == [name |-> "list", prefix |-> prefix]
LastCommand(device, module) == [name |-> "last", device |-> device, module |-> module]

LEMMA ListReadsBack ==
  ASSUME NEW prefix
  PROVE  LET json == Server!FromCommand(1, ListCommand(prefix))
         IN  /\ json.message_type = "device_list_cmd"
             /\ Server!ToDeviceListRequest(json) = {ListCommand(prefix)}
<1>1. Server!FromCommand(1, ListCommand(prefix)) = Server!FromServerDeviceListCommand(1, ListCommand(prefix))
  BY DEF Server!FromCommand, ListCommand
<1>2. Server!FromCommand(1, ListCommand(prefix)) =
        [message_type |-> "device_list_cmd", id |-> 1, device_manager_prefix |-> prefix]
  BY <1>1 DEF Server!FromServerDeviceListCommand, ListCommand
<1> QED
  BY <1>2 DEF Server!ToDeviceListRequest, ListCommand

LEMMA LastReadsBack ==
  ASSUME NEW device, NEW module \in 0..9
  PROVE  LET json == Server!FromCommand(1, LastCommand(device, module))
         IN  /\ json.message_type = "device_last_value_cmd"
             /\ Server!ToServerLastValueCommand(json) = {LastCommand(device, module)}
<1>1. Server!FromCommand(1, LastCommand(device, module)) =
        Server!FromServerLastValueCommand(1, LastCommand(device, module))
  BY DEF Server!FromCommand, LastCommand
<1>2. Server!FromCommand(1, LastCommand(device, module)) =
        [message_type |-> "device_last_value_cmd", id |-> 1, device_id |-> device,
         module_id |-> Server!WrittenModule(module)]
  BY <1>1 DEF Server!FromServerLastValueCommand, LastCommand
<1> QED
  BY <1>2, ModuleReadsBack DEF Server!ToServerLastValueCommand, LastCommand

(* The results: of the server, *)
ListResult(list) == [name |-> "list", status |-> "SUCCESS", list |-> list]
LastResult(status, value) == [name |-> "last", status |-> status, value |-> value]

LEMMA ListResultReadsBack ==
  ASSUME NEW list, list = [i \in DOMAIN list |-> list[i]]
  PROVE  LET json == Server!FromResult(ListResult(list))
         IN  /\ json.message_type = "device_list_result"
             /\ Server!ToServerDeviceListResult(json) = {Server!Rounded(ListResult(list))}
<1> DEFINE json == Server!FromResult(ListResult(list))
<1>1. json = Server!FromServerDeviceListResult(ListResult(list))
  BY DEF Server!FromResult, ListResult
<1>2. json = [message_type |-> "device_list_result", result_status |-> "SUCCESS",
              device_list |-> [i \in DOMAIN list |-> [device_id |-> list[i]]]]
  BY <1>1 DEF Server!FromServerDeviceListResult, ListResult
<1>3. [i \in DOMAIN json.device_list |-> json.device_list[i].device_id] = list
  <2>1. /\ DOMAIN json.device_list = DOMAIN list
        /\ \A i \in DOMAIN list : json.device_list[i].device_id = list[i]
    BY <1>2
  <2> HIDE DEF json
  <2> QED
    BY <2>1
<1>4. Server!ToServerDeviceListResult(json) = {ListResult(list)}
  BY <1>2, <1>3 DEF Server!ToServerDeviceListResult, ListResult
<1>5. Server!Rounded(ListResult(list)) = ListResult(list)
  BY DEF Server!Rounded, ListResult
<1> QED
  BY <1>2, <1>4, <1>5

LEMMA LastResultReadsBack ==
  ASSUME NEW status, NEW value
  PROVE  LET json == Server!FromResult(LastResult(status, value))
         IN  /\ json.message_type = "device_last_value_result"
             /\ Server!ToServerLastValueResult(json) = {Server!Rounded(LastResult(status, value))}
<1> DEFINE json == Server!FromResult(LastResult(status, value))
<1>1. json = Server!FromServerLastValueResult(LastResult(status, value))
  BY DEF Server!FromResult, LastResult
<1>2. json = [message_type |-> "device_last_value_result", result_status |-> status,
              values |-> [raw |-> Server!Written(value), type |-> "double"]]
  BY <1>1 DEF Server!FromServerLastValueResult, LastResult, Server!SetValue
<1>3. Server!GetValue(json.values) = {Server!ParseFloat(Server!Written(value))}
  BY <1>2, SMTT(30) DEF Server!GetValue
<1>4. Server!ToServerLastValueResult(json) = {LastResult(status, Server!ParseFloat(Server!Written(value)))}
  BY <1>2, <1>3 DEF Server!ToServerLastValueResult, LastResult
<1>5. Server!Rounded(LastResult(status, value)) = LastResult(status, Server!ParseFloat(Server!Written(value)))
  BY DEF Server!Rounded, LastResult
<1> QED
  BY <1>2, <1>4, <1>5

(* ... and of the managers. *)
DefaultResult(status) == [name |-> "default", status |-> status]
SetResult(status, extended) == [name |-> "set", status |-> status, extended |-> extended]

LEMMA DefaultResultReadsBack ==
  ASSUME NEW status
  PROVE  LET json == Server!FromResult(DefaultResult(status))
         IN  /\ json.message_type = "default_result"
             /\ Server!ToDefaultResult(json) = {Server!Rounded(DefaultResult(status))}
<1>1. Server!FromResult(DefaultResult(status)) = [message_type |-> "default_result", result_status |-> status]
  BY DEF Server!FromResult, DefaultResult, Server!FromDefaultResult
<1>2. Server!Rounded(DefaultResult(status)) = DefaultResult(status)
  BY DEF Server!Rounded, DefaultResult
<1> QED
  BY <1>1, <1>2 DEF Server!ToDefaultResult, DefaultResult

LEMMA SetResultReadsBack ==
  ASSUME NEW status, NEW extended
  PROVE  LET json == Server!FromResult(SetResult(status, extended))
         IN  /\ json.message_type = "set_values_result"
             /\ Server!ToDeviceSetValueResult(json) = {Server!Rounded(SetResult(status, extended))}
<1>1. Server!FromResult(SetResult(status, extended)) =
        [message_type |-> "set_values_result", result_status |-> status, extented_set_status |-> extended]
  BY DEF Server!FromResult, SetResult, Server!FromDeviceSetValueResult
<1>2. Server!Rounded(SetResult(status, extended)) = SetResult(status, extended)
  BY DEF Server!Rounded, SetResult
<1> QED
  BY <1>1, <1>2 DEF Server!ToDeviceSetValueResult, SetResult

-----------------------------------------------------------------------------
(* What is on the wire has been written from what was asked or answered.   *)
Questions ==
  {ListCommand(prefix) : prefix \in {"Jablotron", "Z-Wave"}} \cup
  {LastCommand(Server!GenerateDeviceID(kind, number), module) :
     kind \in Kinds, number \in Numbers \ {0}, module \in {0, 6, 8}}

ManagersResults ==
  {DefaultResult(status) : status \in {"PENDING", "SUCCESS", "FAILED"}} \cup
  {SetResult(status, extended) : status \in {"PENDING", "SUCCESS", "FAILED"},
                                 extended \in {"DEVICE_SUCCESS", "GW_DEVICE_TIMEOUT"}}

HasBeenSent(what, message) ==
  \/ what \in Measured /\ message = Server!FromSensorData(what)
  \/ what \in Actions \cup Questions /\ message = Server!FromCommand(1, what)
  \/ what \in ManagersResults /\ message = Server!FromResult(what)

HasBeenAnswered(what, message) ==
  /\ message = Server!FromResult(what)
  /\ \/ /\ what.name = "list" /\ what = ListResult(what.list)
        /\ what.list = [i \in DOMAIN what.list |-> what.list[i]]
     \/ what.name = "last" /\ what = LastResult(what.status, what.value)

ServerInv ==
  /\ action = None \/ action \in Actions
  /\ phase = "sent" => asked = truth /\ HasBeenSent(truth, wire)
  /\ phase = "answered" => got = {asked} /\ HasBeenAnswered(truth, wire)
  /\ phase = "read" => got = {Server!Rounded(truth)}

ReadAs(what, message) ==
  /\ message.message_type = "measured_values" =>
       Server!ToSensorData(message) = {Server!Rounded(what)}
  /\ message.message_type = "listen_cmd" =>
       Server!ToGatewayListenCommand(message) = {Server!Rounded(what)}
  /\ message.message_type = "set_values_cmd" =>
       Server!ToDeviceSetValueCommand(message) = {Server!Rounded(what)}
  /\ message.message_type = "device_unpair_cmd" =>
       Server!ToDeviceUnpairCommand(message) = {Server!Rounded(what)}
  /\ message.message_type = "device_list_cmd" => Server!ToDeviceListRequest(message) = {what}
  /\ message.message_type = "device_last_value_cmd" => Server!ToServerLastValueCommand(message) = {what}
  /\ message.message_type = "default_result" =>
       Server!ToDefaultResult(message) = {Server!Rounded(what)}
  /\ message.message_type = "set_values_result" =>
       Server!ToDeviceSetValueResult(message) = {Server!Rounded(what)}

LEMMA SentReadsBack ==
  ASSUME NEW what, NEW message, HasBeenSent(what, message)
  PROVE  ReadAs(what, message)
<1>1. CASE what \in Measured /\ message = Server!FromSensorData(what)
  <2>1. message.message_type = "measured_values"
    BY <1>1 DEF Server!FromSensorData
  <2> QED
    BY <1>1, <2>1, SensorDataReadsBack DEF ReadAs
<1>2. CASE what \in Actions /\ message = Server!FromCommand(1, what)
  BY <1>2, CommandReadsBack DEF ReadAs
<1>3. CASE what \in Questions /\ message = Server!FromCommand(1, what)
  <2>1. CASE \E prefix \in {"Jablotron", "Z-Wave"} : what = ListCommand(prefix)
    BY <1>3, <2>1, ListReadsBack DEF ReadAs
  <2>2. CASE \E device, module : module \in 0..9 /\ what = LastCommand(device, module)
    BY <1>3, <2>2, LastReadsBack DEF ReadAs
  <2> QED
    BY <1>3, <2>1, <2>2 DEF Questions
<1>4. CASE what \in ManagersResults /\ message = Server!FromResult(what)
  <2>1. CASE \E status : what = DefaultResult(status)
    BY <1>4, <2>1, DefaultResultReadsBack DEF ReadAs
  <2>2. CASE \E status, extended : what = SetResult(status, extended)
    BY <1>4, <2>2, SetResultReadsBack DEF ReadAs
  <2> QED
    BY <1>4, <2>1, <2>2 DEF ManagersResults
<1> QED
  BY <1>1, <1>2, <1>3, <1>4 DEF HasBeenSent

LEMMA AnswerReadsBack ==
  ASSUME NEW what, NEW message, HasBeenAnswered(what, message)
  PROVE  IF message.message_type = "device_list_result"
         THEN Server!ToServerDeviceListResult(message) = {Server!Rounded(what)}
         ELSE Server!ToServerLastValueResult(message) = {Server!Rounded(what)}
BY ListResultReadsBack, LastResultReadsBack DEF HasBeenAnswered

LEMMA ServerStarts == Server!ServerInit => ServerInv
BY DEF Server!ServerInit, ServerInv

LEMMA ServerConfigured ==
  ASSUME ServerInv,
         \/ \E kind \in Kinds, number \in Numbers : Server!SetDevice(kind, number)
         \/ \E slot \in LastSlots, value \in LastValues : Server!SetLastValue(slot, value)
         \/ \E command \in Actions : Server!SetAction(command)
         \/ Server!Configured \/ Server!Forget
  PROVE  ServerInv'
<1>1. CASE \E kind \in Kinds, number \in Numbers : Server!SetDevice(kind, number)
  <2>1. phase' = "configure" /\ action' = action
    BY <1>1 DEF Server!SetDevice
  <2> QED
    BY <2>1 DEF ServerInv
<1>2. CASE \E slot \in LastSlots, value \in LastValues : Server!SetLastValue(slot, value)
  <2>1. phase' = "configure" /\ action' = action
    BY <1>2 DEF Server!SetLastValue
  <2> QED
    BY <2>1 DEF ServerInv
<1>3. CASE \E command \in Actions : Server!SetAction(command)
  <2>1. phase' = "configure" /\ action' \in Actions
    BY <1>3 DEF Server!SetAction
  <2> QED
    BY <2>1 DEF ServerInv
<1>4. CASE Server!Configured \/ Server!Forget
  <2>1. phase' = "idle" /\ action' = action
    BY <1>4 DEF Server!Configured, Server!Forget, Server!configVars
  <2> QED
    BY <2>1 DEF ServerInv
<1> QED
  BY <1>1, <1>2, <1>3, <1>4

LEMMA ServerSends ==
  ASSUME ServerInv, NEW what, NEW message, Server!Send(what, message), HasBeenSent(what, message)
  PROVE  ServerInv'
<1>1. phase' = "sent" /\ action' = action /\ asked' = what /\ truth' = what /\ wire' = message
  BY DEF Server!Send, Server!configVars
<1>2. asked' = truth' /\ HasBeenSent(truth', wire')
  BY <1>1
<1> QED
  BY <1>1, <1>2 DEF ServerInv, HasBeenSent

LEMMA ServerSent ==
  ASSUME ServerInv,
         Server!Measure \/ Server!AskForList \/ Server!AskForValue \/ Server!Fire \/ Server!SendResult
  PROVE  ServerInv'
<1>1. CASE Server!Measure
  <2>1. PICK data \in Measured : Server!Send(data, Server!FromSensorData(data))
    BY <1>1 DEF Server!Measure
  <2> QED
    BY <2>1, ServerSends DEF HasBeenSent
<1>2. CASE Server!AskForList
  <2>1. PICK prefix \in {"Jablotron", "Z-Wave"} :
          Server!Send(ListCommand(prefix), Server!FromCommand(1, ListCommand(prefix)))
    BY <1>2, Zenon DEF Server!AskForList, ListCommand
  <2>2. ListCommand(prefix) \in Questions
    BY DEF Questions
  <2> QED
    BY <2>1, <2>2, ServerSends DEF HasBeenSent
<1>3. CASE Server!AskForValue
  <2>1. PICK kind \in Kinds, number \in Numbers \ {0}, module \in {0, 6, 8} :
          LET command == LastCommand(Server!GenerateDeviceID(kind, number), module)
          IN  Server!Send(command, Server!FromCommand(1, command))
    BY <1>3, Zenon DEF Server!AskForValue, LastCommand, Server!PIR, Server!REFRESH
  <2>2. LastCommand(Server!GenerateDeviceID(kind, number), module) \in Questions
    BY DEF Questions
  <2> QED
    BY <2>1, <2>2, ServerSends DEF HasBeenSent
<1>4. CASE Server!Fire
  <2>1. Server!Send(action, Server!FromCommand(1, action)) /\ action \in Actions
    BY <1>4 DEF Server!Fire, ServerInv
  <2> QED
    BY <2>1, ServerSends DEF HasBeenSent
<1>5. CASE Server!SendResult
  <2>1. PICK status \in {"PENDING", "SUCCESS", "FAILED"} :
          \/ Server!Send(DefaultResult(status), Server!FromResult(DefaultResult(status)))
          \/ \E extended \in {"DEVICE_SUCCESS", "GW_DEVICE_TIMEOUT"} :
               Server!Send(SetResult(status, extended), Server!FromResult(SetResult(status, extended)))
    BY <1>5, Zenon DEF Server!SendResult, DefaultResult, SetResult
  <2>2. /\ DefaultResult(status) \in ManagersResults
        /\ \A extended \in {"DEVICE_SUCCESS", "GW_DEVICE_TIMEOUT"} : SetResult(status, extended) \in ManagersResults
    BY DEF ManagersResults
  <2> QED
    BY <2>1, <2>2, ServerSends DEF HasBeenSent
<1> QED
  BY <1>1, <1>2, <1>3, <1>4, <1>5

LEMMA ServerReceives ==
  ASSUME ServerInv, Server!AddPairedDeviceID \/ Server!ReceiveCommand \/ Server!ReceiveResult
  PROVE  ServerInv'
<1>1. phase = "sent" /\ phase' = "read" /\ action' = action /\ truth' = truth
  BY DEF Server!AddPairedDeviceID, Server!ReceiveCommand, Server!ReceiveResult, Server!configVars
<1>2. ReadAs(truth, wire)
  BY <1>1, SentReadsBack DEF ServerInv
<1>3. got' = {Server!Rounded(truth)}
  <2>1. CASE Server!AddPairedDeviceID
    BY <1>2, <2>1 DEF Server!AddPairedDeviceID, ReadAs
  <2>2. CASE Server!ReceiveCommand
    BY <1>2, <2>2 DEF Server!ReceiveCommand, ReadAs
  <2>3. CASE Server!ReceiveResult
    BY <1>2, <2>3 DEF Server!ReceiveResult, ReadAs
  <2> QED
    BY <2>1, <2>2, <2>3
<1>4. PICK what : what = truth
  OBVIOUS
<1>5. truth' = what /\ got' = {Server!Rounded(what)}
  BY <1>1, <1>3, <1>4
<1>6. got' = {Server!Rounded(truth')}
  BY <1>5
<1> QED
  BY <1>1, <1>6 DEF ServerInv

LEMMA ServerReplies ==
  ASSUME NEW command, NEW answer, Server!Reply(command, answer), asked = command, ServerInv,
         HasBeenAnswered(answer, Server!FromResult(answer))
  PROVE  ServerInv'
<1>1. /\ phase' = "answered" /\ action' = action /\ asked' = command /\ got' = {command}
      /\ truth' = answer /\ wire' = Server!FromResult(answer)
  BY DEF Server!Reply, Server!configVars
<1>2. HasBeenAnswered(truth', wire')
  BY <1>1
<1> QED
  BY <1>1, <1>2 DEF ServerInv, HasBeenAnswered

LEMMA ServerHandles ==
  ASSUME ServerInv, Server!HandleDeviceList \/ Server!HandleLastValue
  PROVE  ServerInv'
<1>1. CASE Server!HandleDeviceList
  <2>1. PICK command \in Server!ToDeviceListRequest(wire) :
          Server!Reply(command, ListResult(Server!PairedDevices(command.prefix)))
    BY <1>1, Zenon DEF Server!HandleDeviceList, ListResult
  <2>2. asked = command
    BY <1>1, <2>1, SentReadsBack DEF ServerInv, ReadAs, Server!HandleDeviceList
  <2>3. PICK list : list = Server!PairedDevices(command.prefix)
    OBVIOUS
  <2>4. list = [i \in DOMAIN list |-> list[i]]
    BY <2>3 DEF Server!PairedDevices
  <2>5. HasBeenAnswered(ListResult(list), Server!FromResult(ListResult(list)))
    BY <2>4 DEF HasBeenAnswered, ListResult
  <2> QED
    BY <2>1, <2>2, <2>3, <2>5, ServerReplies
<1>2. CASE Server!HandleLastValue
  <2>1. PICK command \in Server!ToServerLastValueCommand(wire) : \E status, value :
          Server!Reply(command, LastResult(status, value))
    BY <1>2, Zenon DEF Server!HandleLastValue, LastResult
  <2>2. asked = command
    BY <1>2, <2>1, SentReadsBack DEF ServerInv, ReadAs, Server!HandleLastValue
  <2>3. PICK status, value : Server!Reply(command, LastResult(status, value))
    BY <2>1
  <2>4. HasBeenAnswered(LastResult(status, value), Server!FromResult(LastResult(status, value)))
    BY DEF HasBeenAnswered, LastResult
  <2> QED
    BY <2>2, <2>3, <2>4, ServerReplies
<1> QED
  BY <1>1, <1>2

LEMMA ServerAnswered ==
  ASSUME ServerInv, Server!ReadResult
  PROVE  ServerInv'
<1>1. phase = "answered" /\ phase' = "read" /\ action' = action /\ truth' = truth
  BY DEF Server!ReadResult, Server!configVars
<1>2. got' = {Server!Rounded(truth)}
  BY <1>1, AnswerReadsBack DEF ServerInv, Server!ReadResult
<1>3. PICK what : what = truth
  OBVIOUS
<1>4. truth' = what /\ got' = {Server!Rounded(what)}
  BY <1>1, <1>2, <1>3
<1>5. got' = {Server!Rounded(truth')}
  BY <1>4
<1> QED
  BY <1>1, <1>5 DEF ServerInv

LEMMA ServerKeeps ==
  ASSUME ServerInv, [Server!ServerNext]_serverVars
  PROVE  ServerInv'
<1>1. CASE UNCHANGED serverVars
  BY <1>1 DEF serverVars, ServerInv, HasBeenSent, HasBeenAnswered
<1>2. CASE Server!ServerNext
  BY <1>2, ServerConfigured, ServerSent, ServerReceives, ServerHandles, ServerAnswered
  DEF Server!ServerNext
<1> QED
  BY <1>1, <1>2

(* Whatever the configuration and the measurements are, whoever reads a    *)
(* message gets what its writer has put into it, rounded to what the wire  *)
(* has room for: the server what a manager asks, the manager the answer    *)
(* and its commands, the server what was measured.                         *)
THEOREM MessagesAreReadBack == Spec => []Server!MessagesReadBack
<1>1. Init => ServerInv
  BY ServerStarts DEF Init
<1>2. ServerInv /\ [Next]_vars => ServerInv'
  <2> SUFFICES ASSUME ServerInv, [Next]_vars PROVE ServerInv'
    OBVIOUS
  <2>1. [Server!ServerNext]_serverVars
    BY Zenon DEF Next, vars, InfoStep, ServerStep, ProductStep, CredentialsStep, IdentifierStep, StatisticsStep,
      TransactionStep, SslStep, GeneratorStep
  <2> QED
    BY <2>1, ServerKeeps
<1>3. ServerInv => Server!MessagesReadBack
  BY DEF ServerInv, Server!MessagesReadBack
<1> QED
  BY <1>1, <1>2, <1>3, PTL DEF Spec

-----------------------------------------------------------------------------
(* Products: the sensors and alarms of the products there are.             *)
Actuates(sensor) ==
  \/ sensor.how = "bool" /\ sensor.class = Product!SWITCH_BINARY
  \/ sensor.how \in {"list", "number"} /\ sensor.class = Product!CONFIGURATION

(* In a product a module is of one sensor or alarm, and what can be set is *)
(* read from values no other sensor is read from.                          *)
WellMade(product) ==
  /\ \A module \in product.actuators : \E sensor \in product.sensors :
       /\ sensor.module = module /\ Actuates(sensor)
       /\ \A other \in product.sensors \ {sensor} :
            /\ other.module # module
            /\ other.class # sensor.class \/ other.index # sensor.index
  /\ \A alarm \in product.alarms :
       /\ alarm.state # 0
       /\ \A other \in product.alarms : other.module = alarm.module => other = alarm
       /\ \A sensor \in product.sensors : sensor.module # alarm.module

LEMMA ProductsKnown ==
  /\ DOMAIN Product!Factories = {"Aeotec", "DLink", "Fibaro", "Philio", "Popp"}
  /\ Product!Factories["Aeotec"] = [sensors |-> Product!AeotecZW100, alarms |-> Product!AeotecAlarms,
                                    actuators |-> Product!AeotecActuators]
  /\ Product!Factories["DLink"] = [sensors |-> Product!DLinkDchZ120, alarms |-> Product!DLinkAlarms,
                                   actuators |-> Product!DLinkActuators]
  /\ Product!Factories["Fibaro"] = [sensors |-> Product!FibaroFGK107, alarms |-> {}, actuators |-> {}]
  /\ Product!Factories["Philio"] = [sensors |-> Product!PhilioPST021C, alarms |-> {}, actuators |-> {}]
  /\ Product!Factories["Popp"] = [sensors |-> Product!Popp123601, alarms |-> {}, actuators |-> Product!PoppActuators]
BY DEF Product!Factories

LEMMA AeotecMade == WellMade(Product!Factories["Aeotec"])
<1> DEFINE product == Product!Factories["Aeotec"]
<1>1. /\ product.sensors = Product!AeotecZW100 /\ product.alarms = Product!AeotecAlarms
      /\ product.actuators = Product!AeotecActuators
  BY ProductsKnown
<1>2. Product!AeotecZW100 =
        {[module |-> 2, how |-> "number", class |-> 49, index |-> 27],
         [module |-> 3, how |-> "number", class |-> 49, index |-> 3],
         [module |-> 4, how |-> "temperature", class |-> 49, index |-> 1],
         [module |-> 5, how |-> "number", class |-> 49, index |-> 5],
         [module |-> 6, how |-> "list", class |-> 112, index |-> 4],
         [module |-> 7, how |-> "number", class |-> 128, index |-> 0],
         [module |-> 8, how |-> "number", class |-> 112, index |-> 111]}
  BY DEF Product!AeotecZW100, Product!Ultraviolet, Product!Luminance, Product!Temperature, Product!Humidity,
    Product!Sensitivity, Product!Battery, Product!RefreshTime, Product!Sensor, Product!SENSOR_MULTILEVEL,
    Product!CONFIGURATION, Product!BATTERY
<1>3. \A module \in product.actuators : \E sensor \in product.sensors :
       /\ sensor.module = module /\ Actuates(sensor)
       /\ \A other \in product.sensors \ {sensor} :
            /\ other.module # module
            /\ other.class # sensor.class \/ other.index # sensor.index
  BY <1>1, <1>2 DEF Product!AeotecActuators, Actuates, Product!CONFIGURATION, Product!SWITCH_BINARY
<1>4. \A alarm \in product.alarms :
       /\ alarm.state # 0
       /\ \A other \in product.alarms : other.module = alarm.module => other = alarm
       /\ \A sensor \in product.sensors : sensor.module # alarm.module
  BY <1>1, <1>2 DEF Product!AeotecAlarms
<1> QED
  BY <1>3, <1>4 DEF WellMade

LEMMA DLinkMade == WellMade(Product!Factories["DLink"])
<1> DEFINE product == Product!Factories["DLink"]
<1>1. /\ product.sensors = Product!DLinkDchZ120 /\ product.alarms = Product!DLinkAlarms
      /\ product.actuators = Product!DLinkActuators
  BY ProductsKnown
<1>2. Product!DLinkDchZ120 =
        {[module |-> 1, how |-> "number", class |-> 49, index |-> 3],
         [module |-> 2, how |-> "temperature", class |-> 49, index |-> 1],
         [module |-> 4, how |-> "number", class |-> 112, index |-> 3],
         [module |-> 5, how |-> "number", class |-> 128, index |-> 0]}
  BY DEF Product!DLinkDchZ120, Product!Luminance, Product!Temperature, Product!Battery, Product!Sensor,
    Product!SENSOR_MULTILEVEL, Product!CONFIGURATION, Product!BATTERY
<1>3. \A module \in product.actuators : \E sensor \in product.sensors :
       /\ sensor.module = module /\ Actuates(sensor)
       /\ \A other \in product.sensors \ {sensor} :
            /\ other.module # module
            /\ other.class # sensor.class \/ other.index # sensor.index
  BY <1>1, <1>2 DEF Product!DLinkActuators, Actuates, Product!CONFIGURATION, Product!SWITCH_BINARY
<1>4. \A alarm \in product.alarms :
       /\ alarm.state # 0
       /\ \A other \in product.alarms : other.module = alarm.module => other = alarm
       /\ \A sensor \in product.sensors : sensor.module # alarm.module
  BY <1>1, <1>2 DEF Product!DLinkAlarms
<1> QED
  BY <1>3, <1>4 DEF WellMade

LEMMA ProductsMade ==
  ASSUME NEW name \in DOMAIN Product!Factories
  PROVE  WellMade(Product!Factories[name])
<1>1. CASE name \in {"Fibaro", "Philio"}
  <2>1. Product!Factories[name].alarms = {} /\ Product!Factories[name].actuators = {}
    BY <1>1, ProductsKnown
  <2> QED
    BY <2>1 DEF WellMade
<1>2. CASE name = "Popp"
  <2>1. /\ Product!Factories[name].sensors = {Product!Switch(0)} /\ Product!Factories[name].alarms = {}
        /\ Product!Factories[name].actuators = {0}
    BY <1>2, ProductsKnown DEF Product!Popp123601, Product!PoppActuators
  <2>2. Product!Switch(0).module = 0 /\ Actuates(Product!Switch(0))
    BY DEF Product!Switch, Product!Sensor, Actuates
  <2> QED
    BY <2>1, <2>2 DEF WellMade
<1> QED
  BY <1>1, <1>2, AeotecMade, DLinkMade, ProductsKnown

LEMMA ActuatorSensor ==
  ASSUME NEW product, WellMade(product), NEW module \in product.actuators
  PROVE  LET sensor == Product!SensorOf(product, module)
         IN  /\ sensor \in product.sensors /\ sensor.module = module /\ Actuates(sensor)
             /\ \A other \in product.sensors \ {sensor} :
                  /\ other.module # module
                  /\ other.class # sensor.class \/ other.index # sensor.index
             /\ \A alarm \in product.alarms : alarm.module # module
<1>1. PICK sensor \in product.sensors :
        /\ sensor.module = module /\ Actuates(sensor)
        /\ \A other \in product.sensors \ {sensor} :
             /\ other.module # module
             /\ other.class # sensor.class \/ other.index # sensor.index
  BY DEF WellMade
<1>2. Product!SensorOf(product, module) = sensor
  BY <1>1 DEF Product!SensorOf
<1>3. \A alarm \in product.alarms : alarm.module # module
  BY <1>1 DEF WellMade
<1> QED
  BY <1>1, <1>2, <1>3

-----------------------------------------------------------------------------
(* The values of a node, and what becomes of them when one is changed.     *)
Described(values) ==
  /\ DOMAIN values \subseteq Nat
  /\ values = [i \in DOMAIN values |->
                 [class |-> values[i].class, index |-> values[i].index, type |-> values[i].type,
                  unit |-> values[i].unit, value |-> values[i].value]]
  /\ \A i \in DOMAIN values :
       /\ values[i].class = Product!SWITCH_BINARY => values[i].type = "bool"
       /\ values[i].class = Product!CONFIGURATION => values[i].type # "bool"
       /\ \A j \in DOMAIN values :
            /\ values[i].class = Product!ALARM /\ values[i].index = Product!BULGAR
            /\ values[j].class = Product!ALARM /\ values[j].index = Product!BULGAR
            => i = j

Changed(values, i, number) == [values EXCEPT ![i].value = number]

LEMMA ChangedValues ==
  ASSUME NEW values, Described(values), NEW i \in DOMAIN values, NEW number
  PROVE  LET new == Changed(values, i, number)
         IN  /\ DOMAIN new = DOMAIN values
             /\ \A j \in DOMAIN values :
                  /\ new[j].class = values[j].class /\ new[j].index = values[j].index
                  /\ new[j].type = values[j].type /\ new[j].unit = values[j].unit
                  /\ j # i => new[j] = values[j]
             /\ new[i].value = number
             /\ Described(new)
<1> DEFINE new == Changed(values, i, number)
<1>1. values[i] = [class |-> values[i].class, index |-> values[i].index, type |-> values[i].type,
                   unit |-> values[i].unit, value |-> values[i].value]
  BY DEF Described
<1>2. DOMAIN new = DOMAIN values /\ \A j \in DOMAIN values : j # i => new[j] = values[j]
  BY DEF Changed
<1>3. new[i] = [class |-> values[i].class, index |-> values[i].index, type |-> values[i].type,
                unit |-> values[i].unit, value |-> number]
  BY <1>1 DEF Changed
<1>4. \A j \in DOMAIN values :
        /\ new[j].class = values[j].class /\ new[j].index = values[j].index
        /\ new[j].type = values[j].type /\ new[j].unit = values[j].unit
  BY <1>2, <1>3
<1>5. new = [j \in DOMAIN new |-> [class |-> new[j].class, index |-> new[j].index, type |-> new[j].type,
                                   unit |-> new[j].unit, value |-> new[j].value]]
  <2>1. \A j \in DOMAIN values :
          new[j] = [class |-> new[j].class, index |-> new[j].index, type |-> new[j].type,
                    unit |-> new[j].unit, value |-> new[j].value]
    BY <1>2, <1>3 DEF Described
  <2>2. new = [j \in DOMAIN values |-> new[j]]
    BY DEF Changed, Described
  <2> HIDE DEF new
  <2> QED
    BY <1>2, <2>1, <2>2
<1>6. Described(new)
  <2> HIDE DEF new
  <2> QED
    BY <1>2, <1>4, <1>5 DEF Described
<1> QED
  BY <1>2, <1>3, <1>4, <1>6

(* A value that is changed is no other sensor's, *)
LEMMA ReadElsewhere ==
  ASSUME NEW values, Described(values), NEW i \in DOMAIN values, NEW number,
         NEW sensor, ~Product!Matches(values[i], sensor)
  PROVE  Product!Extracted(Changed(values, i, number), sensor) = Product!Extracted(values, sensor)
<1>1. PICK new : new = Changed(values, i, number)
  OBVIOUS
<1>2. /\ DOMAIN new = DOMAIN values
      /\ \A j \in DOMAIN values : Product!Matches(new[j], sensor) <=> Product!Matches(values[j], sensor)
  BY <1>1, ChangedValues DEF Product!Matches
<1>3. \A j \in DOMAIN values : j # i => new[j] = values[j]
  BY <1>1, ChangedValues
<1>4. Product!FirstOf(new, sensor) = Product!FirstOf(values, sensor)
  BY <1>2 DEF Product!FirstOf
<1>5. \A j \in Product!FirstOf(values, sensor) : new[j] = values[j]
  BY <1>3 DEF Product!FirstOf
<1>6. Product!Extracted(new, sensor) = Product!Extracted(values, sensor)
  BY <1>4, <1>5 DEF Product!Extracted
<1> QED
  BY <1>1, <1>6

(* ... and what a sensor can set is what it reads then. *)
LEMMA ReadAsSet ==
  ASSUME NEW values, Described(values), NEW i \in DOMAIN values, NEW number,
         NEW sensor, Actuates(sensor), sensor.how = "list" => number \in Product!LevelsOfPir,
         values[i].class = sensor.class /\ values[i].index = sensor.index,
         \A j \in DOMAIN values : values[j].class = sensor.class /\ values[j].index = sensor.index => i <= j
  PROVE  Product!Extracted(Changed(values, i, number), sensor) = {number}
<1>1. PICK new : new = Changed(values, i, number)
  OBVIOUS
<1>2. /\ DOMAIN new = DOMAIN values /\ new[i].value = number /\ DOMAIN values \subseteq Nat
      /\ \A j \in DOMAIN values : new[j].class = values[j].class /\ new[j].index = values[j].index
                                  /\ new[j].type = values[j].type
  BY <1>1, ChangedValues DEF Described
<1>3. Product!Matches(new[i], sensor)
  BY <1>2 DEF Product!Matches, Actuates, Described
<1>4. Product!FirstOf(new, sensor) = {i}
  BY <1>2, <1>3 DEF Product!FirstOf, Product!Matches
<1>5. Product!Read(new[i], sensor.how) = number
  BY <1>2 DEF Product!Read, Actuates
<1>6. Product!Extracted(new, sensor) = {number}
  BY <1>2, <1>4, <1>5 DEF Product!Extracted
<1> QED
  BY <1>1, <1>6

Kept(product, values, module, number) ==
  module \in product.actuators /\ Product!Extracted(values, Product!SensorOf(product, module)) = {number}

Only(numbers, number) == numbers = {number}

LEMMA InsertedOnce ==
  ASSUME NEW product, NEW values, NEW number,
         NEW module \in Product!Modules(product),
         Only(Product!Inserted(product, values, module), number)
  PROVE  /\ module \in DOMAIN Product!ExtractValues(product, values)
         /\ Product!ExtractValues(product, values)[module] = number
<1>1. (CHOOSE n \in {number} : TRUE) = number
  OBVIOUS
<1> QED
  BY <1>1 DEF Product!ExtractValues, Only

LEMMA KeptIsExtracted ==
  ASSUME NEW product, WellMade(product), NEW values, NEW module, NEW number,
         Kept(product, values, module, number)
  PROVE  /\ module \in DOMAIN Product!ExtractValues(product, values)
         /\ Product!ExtractValues(product, values)[module] = number
<1>1. PICK sensor : sensor = Product!SensorOf(product, module)
  OBVIOUS
<1>2. /\ sensor \in product.sensors /\ sensor.module = module
      /\ \A other \in product.sensors \ {sensor} : other.module # module
      /\ \A alarm \in product.alarms : alarm.module # module
      /\ Product!Extracted(values, sensor) = {number}
  BY <1>1, ActuatorSensor DEF Kept
<1>3. {s \in product.sensors : s.module = module} = {sensor} /\ {a \in product.alarms : a.module = module} = {}
  BY <1>2
<1>4. Only(Product!Inserted(product, values, module), number)
  BY <1>2, <1>3 DEF Product!Inserted, Only
<1>5. module \in Product!Modules(product)
  BY <1>2 DEF Product!Modules
<1> QED
  BY <1>4, <1>5, InsertedOnce

LEMMA AlarmIsOver ==
  ASSUME NEW product, WellMade(product), NEW values, Described(values),
         NEW i \in DOMAIN values, values[i].class = Product!ALARM, values[i].index = Product!BULGAR,
         values[i].value = 0, NEW alarm \in product.alarms
  PROVE  /\ alarm.module \in DOMAIN Product!ExtractValues(product, values)
         /\ Product!ExtractValues(product, values)[alarm.module] = 0
<1>1. /\ alarm.state # 0
      /\ \A other \in product.alarms : other.state # 0
      /\ \A other \in product.alarms : other.module = alarm.module => other = alarm
      /\ \A sensor \in product.sensors : sensor.module # alarm.module
  BY DEF WellMade
<1>2. Product!LastOf(product.alarms, values, alarm) = {i}
  <2>1. Product!Tells(product.alarms, values[i], alarm)
    BY <1>1 DEF Product!Tells
  <2>2. \A j \in DOMAIN values : Product!Tells(product.alarms, values[j], alarm) => j = i
    BY DEF Product!Tells, Described
  <2>3. i <= i
    BY DEF Described
  <2> QED
    BY <2>1, <2>2, <2>3 DEF Product!LastOf
<1>3. Product!Detected(product.alarms, values, alarm) = {0}
  BY <1>1, <1>2 DEF Product!Detected
<1>4. /\ {s \in product.sensors : s.module = alarm.module} = {}
      /\ {a \in product.alarms : a.module = alarm.module} = {alarm}
  BY <1>1
<1>5. Only(Product!Inserted(product, values, alarm.module), 0)
  BY <1>3, <1>4 DEF Product!Inserted, Only
<1>6. alarm.module \in Product!Modules(product)
  BY DEF Product!Modules
<1> QED
  BY <1>5, <1>6, InsertedOnce

-----------------------------------------------------------------------------
(* Between two notifications what has been reported is what the node has,  *)
(* unless nothing has been set or reported yet.                            *)
Reported(numbers) == \A module \in DOMAIN numbers : module \in DOMAIN reported /\ reported[module] = numbers[module]

ProductInv ==
  /\ node = [product |-> node.product, values |-> node.values] /\ Described(node.values)
  /\ node.product = "none" =>
       /\ DOMAIN node.values = {} /\ DOMAIN reported = {} /\ DOMAIN wanted = {} /\ changed = FALSE
  /\ Product!Supported =>
       /\ \A module \in DOMAIN wanted :
            Kept(Product!Factories[node.product], node.values, module, wanted[module])
       /\ ~changed /\ joined =>
            \/ DOMAIN reported = {} /\ DOMAIN wanted = {}
            \/ Reported(Product!ExtractValues(Product!Factories[node.product], node.values))
  /\ ~Product!Supported => DOMAIN wanted = {}

LEMMA ProductsStart == Product!ProductsInit => ProductInv
<1> SUFFICES ASSUME Product!ProductsInit PROVE ProductInv
  OBVIOUS
<1>1. /\ node = [product |-> "none", values |-> <<>>] /\ changed = FALSE
      /\ reported = <<>> /\ wanted = <<>> /\ joined = FALSE
  BY DEF Product!ProductsInit
<1>2. DOMAIN node.values = {} /\ DOMAIN reported = {} /\ DOMAIN wanted = {} /\ node.product = "none"
  BY <1>1
<1>3. Described(node.values)
  <2>1. node.values = [i \in {} |-> [class |-> node.values[i].class, index |-> node.values[i].index,
           type |-> node.values[i].type, unit |-> node.values[i].unit, value |-> node.values[i].value]]
    BY <1>1
  <2> QED
    BY <1>2, <2>1 DEF Described
<1> QED
  BY <1>1, <1>2, <1>3 DEF ProductInv

LEMMA ProductJoins ==
  ASSUME ProductInv, Product!NodeJoins
  PROVE  ProductInv'
<1>1. /\ node.product = "none" /\ node' \in ProductNodes
      /\ changed' = changed /\ reported' = reported /\ wanted' = wanted
  BY DEF Product!NodeJoins
<1>2. DOMAIN reported' = {} /\ DOMAIN wanted' = {}
  BY <1>1 DEF ProductInv
<1>3. PICK n \in ProductNodes : n = node'
  BY <1>1
<1>4. n = [product |-> n.product, values |-> n.values] /\ Described(n.values) /\ n.product # "none"
  BY ProductNodesAssumption DEF Described
<1>5. /\ node' = [product |-> node'.product, values |-> node'.values]
      /\ Described(node.values)' /\ node'.product # "none"
  BY <1>3, <1>4 DEF Described
<1> QED
  BY <1>2, <1>5 DEF ProductInv

LEMMA ProductNotified ==
  ASSUME ProductInv, Product!ValueChanged
  PROVE  ProductInv'
<1>1. changed /\ changed' = FALSE /\ node' = node /\ joined' = joined /\ wanted' = wanted
  BY DEF Product!ValueChanged
<1>2. node.product # "none"
  BY <1>1 DEF ProductInv
<1>3. CASE Product!Supported /\ joined
  <2>1. PICK numbers : numbers = Product!ExtractValues(Product!Factories[node.product], node.values)
    OBVIOUS
  <2>2. reported' = Product!Over(numbers, reported)
    BY <1>3, <2>1 DEF Product!ValueChanged, Product!Product
  <2>3. Reported(numbers)'
    BY <2>2 DEF Reported, Product!Over
  <2> QED
    BY <1>1, <1>2, <1>3, <2>1, <2>3 DEF ProductInv, Reported, Product!Supported
<1>4. CASE ~(Product!Supported /\ joined)
  BY <1>1, <1>2, <1>4 DEF ProductInv, Product!Supported
<1> QED
  BY <1>3, <1>4

LEMMA ProductChanges ==
  ASSUME ProductInv, Product!DeviceChanges
  PROVE  ProductInv'
<1>1. changed' = TRUE /\ joined' = joined /\ reported' = reported
  BY DEF Product!DeviceChanges
<1>2. PICK i \in DOMAIN node.values, number \in Changes :
        /\ node' = [node EXCEPT !.values[i].value = number]
        /\ wanted' = [module \in {m \in DOMAIN wanted :
                        \A sensor \in Product!Factories[node.product].sensors :
                          sensor.module = m => ~Product!Matches(node.values[i], sensor)} |-> wanted[module]]
  BY Zenon DEF Product!DeviceChanges, Product!Product
<1>3. /\ node' = [product |-> node.product, values |-> Changed(node.values, i, number)]
  BY <1>2 DEF ProductInv, Changed
<1>4. Described(Changed(node.values, i, number))
  BY ChangedValues DEF ProductInv
<1>5. node.product # "none"
  BY DEF ProductInv
<1>6. ASSUME Product!Supported, NEW module \in DOMAIN wanted'
      PROVE  Kept(Product!Factories[node.product], Changed(node.values, i, number), module, wanted'[module])
  <2>1. PICK product : product = Product!Factories[node.product]
    OBVIOUS
  <2>2. WellMade(product)
    BY <1>6, <2>1, ProductsMade DEF Product!Supported
  <2>3. /\ module \in DOMAIN wanted /\ wanted'[module] = wanted[module]
        /\ \A sensor \in product.sensors : sensor.module = module => ~Product!Matches(node.values[i], sensor)
    BY <1>2, <2>1, <1>6
  <2>4. Kept(product, node.values, module, wanted[module])
    BY <1>6, <2>1, <2>3 DEF ProductInv
  <2>5. PICK sensor : sensor = Product!SensorOf(product, module)
    OBVIOUS
  <2>6. ~Product!Matches(node.values[i], sensor)
    BY <2>2, <2>3, <2>4, <2>5, ActuatorSensor DEF Kept
  <2>7. Product!Extracted(Changed(node.values, i, number), sensor) = Product!Extracted(node.values, sensor)
    BY <2>6, ReadElsewhere DEF ProductInv
  <2> QED
    BY <2>1, <2>3, <2>4, <2>5, <2>7 DEF Kept
<1>7. ~Product!Supported => DOMAIN wanted' = {}
  BY <1>2 DEF ProductInv
<1> QED
  BY <1>1, <1>3, <1>4, <1>5, <1>6, <1>7 DEF ProductInv, Product!Supported

LEMMA SentAsMeant ==
  ASSUME NEW values, Described(values), NEW i \in DOMAIN values, NEW sensor, Actuates(sensor),
         values[i].class = sensor.class, NEW number \in 0..255,
         sensor.how = "bool" => number \in {0, 1}, NEW sent \in Product!Sent(values[i].type, number)
  PROVE  sent = number
<1>1. CASE sensor.how = "bool"
  <2>1. values[i].type = "bool"
    BY <1>1 DEF Actuates, Described
  <2> QED
    BY <1>1, <2>1 DEF Product!Sent
<1>2. CASE sensor.how # "bool"
  <2>1. values[i].type # "bool"
    BY <1>2 DEF Actuates, Described
  <2>2. number % 256 = number
    OBVIOUS
  <2> QED
    BY <2>1, <2>2 DEF Product!Sent
<1> QED
  BY <1>1, <1>2

LEMMA ProductSet ==
  ASSUME ProductInv, Product!DoSetValueCommand
  PROVE  ProductInv'
<1>1. changed' = TRUE /\ joined' = joined /\ reported' = reported /\ Product!Supported
  BY DEF Product!DoSetValueCommand
<1>2. PICK product : product = Product!Factories[node.product]
  OBVIOUS
<1>3. WellMade(product) /\ node.product # "none"
  BY <1>1, <1>2, ProductsMade, ProductsKnown DEF Product!Supported
<1>4. PICK module \in product.actuators, number \in Commands :
        /\ Product!SensorOf(product, module).how = "list" => number \in Product!LevelsOfPir
        /\ Product!SensorOf(product, module).how = "bool" => number \in {0, 1}
        /\ Product!SetActuator(module, number)
        /\ wanted' = Product!Over([m \in {module} |-> number], wanted)
  BY <1>2, Zenon DEF Product!DoSetValueCommand, Product!Product
<1>5. PICK sensor : sensor = Product!SensorOf(product, module)
  OBVIOUS
<1>6. /\ sensor \in product.sensors /\ sensor.module = module /\ Actuates(sensor)
      /\ \A other \in product.sensors \ {sensor} :
           /\ other.module # module
           /\ other.class # sensor.class \/ other.index # sensor.index
  BY <1>3, <1>5, ActuatorSensor
<1>7. PICK i \in DOMAIN node.values :
        /\ node.values[i].class = sensor.class /\ node.values[i].index = sensor.index
        /\ \A j \in DOMAIN node.values :
             node.values[j].class = sensor.class /\ node.values[j].index = sensor.index => i <= j
        /\ \E sent \in Product!Sent(node.values[i].type, number) :
             node' = [node EXCEPT !.values[i].value = sent]
  BY <1>2, <1>4, <1>5, Zenon DEF Product!SetActuator, Product!Product
<1>8. node' = [node EXCEPT !.values[i].value = number]
  BY <1>4, <1>5, <1>6, <1>7, SentAsMeant, CommandsAssumption DEF ProductInv
<1>9. node' = [product |-> node.product, values |-> Changed(node.values, i, number)]
  BY <1>8 DEF ProductInv, Changed
<1>10. Described(Changed(node.values, i, number))
  BY ChangedValues DEF ProductInv
<1>11. Kept(product, Changed(node.values, i, number), module, number)
  BY <1>4, <1>5, <1>6, <1>7, ReadAsSet DEF Kept, ProductInv
<1>12. ASSUME NEW other \in DOMAIN wanted, other # module
       PROVE  Kept(product, Changed(node.values, i, number), other, wanted[other])
  <2>1. Kept(product, node.values, other, wanted[other])
    BY <1>1, <1>2, <1>12 DEF ProductInv
  <2>2. PICK another : another = Product!SensorOf(product, other)
    OBVIOUS
  <2>3. another \in product.sensors /\ another.module = other
    BY <1>3, <2>1, <2>2, ActuatorSensor DEF Kept
  <2>4. ~Product!Matches(node.values[i], another)
    BY <1>6, <1>7, <1>12, <2>3 DEF Product!Matches
  <2>5. Product!Extracted(Changed(node.values, i, number), another) = Product!Extracted(node.values, another)
    BY <2>4, ReadElsewhere DEF ProductInv
  <2> QED
    BY <2>1, <2>2, <2>5 DEF Kept
<1>13. ASSUME NEW m \in DOMAIN wanted'
       PROVE  Kept(product, Changed(node.values, i, number), m, wanted'[m])
  <2>1. /\ m = module \/ m \in DOMAIN wanted
        /\ wanted'[m] = IF m = module THEN number ELSE wanted[m]
    BY <1>4, <1>13 DEF Product!Over
  <2> QED
    BY <1>11, <1>12, <2>1
<1> QED
  BY <1>1, <1>2, <1>3, <1>9, <1>10, <1>13 DEF ProductInv, Product!Supported

LEMMA ProductsKeep ==
  ASSUME ProductInv, [Product!ProductsNext]_productVars
  PROVE  ProductInv'
<1>1. CASE UNCHANGED productVars
  BY <1>1 DEF productVars, ProductInv, Product!Supported, Reported
<1>2. CASE Product!ProductsNext
  BY <1>2, ProductJoins, ProductNotified, ProductChanges, ProductSet DEF Product!ProductsNext
<1> QED
  BY <1>1, <1>2

LEMMA ProductsAgree ==
  ASSUME ProductInv
  PROVE  Product!ProductsReadBack
<1> SUFFICES ASSUME ~changed, joined, Product!Supported
             PROVE  /\ \A module \in DOMAIN wanted : reported[module] = wanted[module]
                    /\ \A i \in DOMAIN node.values :
                         /\ node.values[i].class = Product!ALARM /\ node.values[i].index = Product!BULGAR
                         /\ node.values[i].value = 0
                         => \A alarm \in Product!Factories[node.product].alarms :
                              alarm.module \in DOMAIN reported => reported[alarm.module] = 0
  BY Zenon DEF Product!ProductsReadBack, Product!Product
<1>1. PICK product : product = Product!Factories[node.product]
  OBVIOUS
<1>2. WellMade(product) /\ Described(node.values)
  BY <1>1, ProductsMade DEF Product!Supported, ProductInv
<1>3. CASE DOMAIN reported = {} /\ DOMAIN wanted = {}
  BY <1>3
<1>4. CASE Reported(Product!ExtractValues(product, node.values))
  <2>1. \A module \in DOMAIN wanted : reported[module] = wanted[module]
    BY <1>1, <1>2, <1>4, KeptIsExtracted DEF ProductInv, Reported
  <2>2. ASSUME NEW i \in DOMAIN node.values,
               node.values[i].class = Product!ALARM, node.values[i].index = Product!BULGAR,
               node.values[i].value = 0, NEW alarm \in product.alarms
        PROVE  reported[alarm.module] = 0
    BY <1>2, <1>4, <2>2, AlarmIsOver DEF Reported
  <2> QED
    BY <1>1, <2>1, <2>2
<1> QED
  BY <1>1, <1>3, <1>4 DEF ProductInv

(* Whatever its values are, and however setting, changes of the device and *)
(* notifications take turns: what somebody has set a module of a product   *)
(* to is what the gateway reports of it, and an alarm that is over leaves  *)
(* none of its modules set.                                                *)
THEOREM ProductsAreReadBack == Spec => []Product!ProductsReadBack
<1>1. Init => ProductInv
  BY ProductsStart DEF Init
<1>2. ProductInv /\ [Next]_vars => ProductInv'
  <2> SUFFICES ASSUME ProductInv, [Next]_vars PROVE ProductInv'
    OBVIOUS
  <2>1. [Product!ProductsNext]_productVars
    BY Zenon DEF Next, vars, InfoStep, ServerStep, ProductStep, CredentialsStep, IdentifierStep, StatisticsStep,
      TransactionStep, SslStep, GeneratorStep
  <2> QED
    BY <2>1, ProductsKeep
<1>3. ProductInv => Product!ProductsReadBack
  BY ProductsAgree
<1> QED
  BY <1>1, <1>2, <1>3, PTL DEF Spec

-----------------------------------------------------------------------------
(* Generators: a chain of generators gives what its layers leave it.       *)
(* What holds of 0 and goes from a number to the next holds up to n. *)
LEMMA UpTo ==
  ASSUME NEW n \in Nat, NEW Good, 0 \in Good, \A k \in 1..n : k - 1 \in Good => k \in Good
  PROVE  \A k \in 0..n : k \in Good
<1> DEFINE R == {p \in Nat \X Nat : p[1] < p[2]}
           Bad == {k \in 0..n : k \notin Good}
<1>1. IsWellFoundedOn(R, Nat)
  <2>1. R = OpToRel(<, Nat)
    BY DEF OpToRel
  <2> QED
    BY <2>1, NatLessThanWellFounded
<1>2. ASSUME Bad # {} PROVE FALSE
  <2>1. PICK x \in Bad : \A y \in Bad : ~ (<<y, x>> \in R)
    <3>1. Bad \subseteq Nat
      OBVIOUS
    <3> HIDE DEF R, Bad
    <3> QED
      BY <1>1, <1>2, <3>1, WFMin
  <2>2. x \in 1..n /\ x - 1 \in 0..n /\ x - 1 \in Nat /\ x \in Nat
    BY <2>1
  <2>3. x - 1 \in Bad
    BY <2>1, <2>2
  <2>4. /\ <<x - 1, x>> \in Nat \X Nat /\ <<x - 1, x>>[1] = x - 1 /\ <<x - 1, x>>[2] = x
    BY <2>2
  <2>5. x - 1 < x
    BY <2>2
  <2> QED
    BY <2>1, <2>3, <2>4, <2>5
<1> QED
  BY <1>2

(* A recursive function over 0..n exists and is what its definition says. *)
LEMMA Recursion ==
  ASSUME NEW S, NEW start \in S, NEW n \in Nat, NEW step \in [1..n -> [S -> S]]
  PROVE  \E f \in [0..n -> S] : f[0] = start /\ \A k \in 1..n : f[k] = step[k][f[k - 1]]
<1> DEFINE Fitting(f, m) == f \in [0..m -> S] /\ f[0] = start /\ \A k \in 1..m : f[k] = step[k][f[k - 1]]
           Good == {m \in 0..n : \E f : Fitting(f, m)}
<1>1. 0 \in Good
  <2>1. Fitting([k \in 0..0 |-> start], 0)
    OBVIOUS
  <2> HIDE DEF Fitting
  <2> QED
    BY <2>1
<1>2. ASSUME NEW m \in 1..n, m - 1 \in Good PROVE m \in Good
  <2>1. PICK f : Fitting(f, m - 1)
    BY <1>2
  <2> DEFINE g == [k \in 0..m |-> IF k = m THEN step[m][f[m - 1]] ELSE f[k]]
  <2>2. f[m - 1] \in S /\ step[m][f[m - 1]] \in S
    BY <2>1
  <2>3. \A k \in 0..m : k # m => k \in 0..(m - 1)
    OBVIOUS
  <2>4. g \in [0..m -> S]
    BY <2>1, <2>2, <2>3
  <2>5. \A k \in 0..m : g[k] = IF k = m THEN step[m][f[m - 1]] ELSE f[k]
    OBVIOUS
  <2>6. g[0] = start
    BY <2>1, <2>5
  <2>7. ASSUME NEW k \in 1..m PROVE g[k] = step[k][g[k - 1]]
    <3>1. k - 1 \in 0..m /\ k - 1 # m /\ k \in 0..m
      OBVIOUS
    <3>2. g[k - 1] = f[k - 1]
      BY <2>5, <3>1
    <3>3. CASE k = m
      BY <2>5, <3>1, <3>2, <3>3
    <3>4. CASE k # m
      <4>1. k \in 1..(m - 1)
        BY <3>4
      <4> QED
        BY <2>1, <2>5, <3>1, <3>2, <3>4, <4>1
    <3> QED
      BY <3>3, <3>4
  <2>8. Fitting(g, m)
    BY <2>4, <2>6, <2>7
  <2> HIDE DEF Fitting, g
  <2>9. m \in 0..n
    OBVIOUS
  <2> QED
    BY <2>8, <2>9
<1>3. \A k \in 0..n : k \in Good
  <2> HIDE DEF Good
  <2> QED
    BY <1>1, <1>2, UpTo
<1> QED
  BY <1>3

Layered(layers) == layers \in Seq(Generator!Layers)

LEMMA LayersKinds ==
  ASSUME NEW layer \in Generator!Layers
  PROVE  \/ layer.kind = "range" /\ layer.min \in Int /\ layer.max \in Int
         \/ layer.kind = "limited" /\ layer.count \in 0..15
         \/ layer.kind = "timestamped" /\ layer.at \in Int /\ layer.step \in Int
         \/ /\ layer.kind = "timeLimited" /\ layer.at \in Int /\ layer.step \in Int
            /\ layer.before \in Int
BY DEF Generator!Layers, Generator!Wrap

LEMMA MoreIsBoolean ==
  ASSUME NEW below \in BOOLEAN, NEW layer \in Generator!Layers
  PROVE  Generator!More(below, layer) \in BOOLEAN
<1>1. CASE layer.kind = "range"
  BY <1>1, Zenon DEF Generator!More
<1>2. CASE layer.kind = "limited"
  <2>1. Generator!More(below, layer) <=> layer.count > 0
    BY <1>2 DEF Generator!More
  <2>2. Generator!More(below, layer) = (layer.count > 0)
    BY <1>2 DEF Generator!More
  <2> QED
    BY <2>2
<1>3. CASE layer.kind = "timestamped"
  BY <1>3 DEF Generator!More
<1>4. CASE layer.kind = "timeLimited"
  BY <1>4 DEF Generator!More
<1> QED
  BY <1>1, <1>2, <1>3, <1>4, LayersKinds

LEMMA HasNextComputed ==
  ASSUME NEW layers, Layered(layers)
  PROVE  \E more \in [0..Len(layers) -> BOOLEAN] :
           /\ more[0] = TRUE
           /\ \A k \in 1..Len(layers) : more[k] = Generator!More(more[k - 1], layers[k])
           /\ Generator!HasNext(layers) = more[Len(layers)]
<1> DEFINE n == Len(layers)
           Is(f) == f = [k \in 0..n |-> IF k = 0 THEN TRUE ELSE Generator!More(f[k - 1], layers[k])]
           step == [k \in 1..n |-> [below \in BOOLEAN |-> Generator!More(below, layers[k])]]
<1>1. n \in Nat /\ \A k \in 1..n : layers[k] \in Generator!Layers
  BY LenProperties DEF Layered
<1>2. step \in [1..n -> [BOOLEAN -> BOOLEAN]]
  BY <1>1, MoreIsBoolean
<1>3. PICK f \in [0..n -> BOOLEAN] : f[0] = TRUE /\ \A k \in 1..n : f[k] = step[k][f[k - 1]]
  <2> HIDE DEF step, n
  <2>1. PICK S, start : S = BOOLEAN /\ start = TRUE
    OBVIOUS
  <2>2. start \in S /\ step \in [1..n -> [S -> S]]
    BY <1>2, <2>1, Zenon
  <2>3. \E f \in [0..n -> S] : f[0] = start /\ \A k \in 1..n : f[k] = step[k][f[k - 1]]
    BY <1>1, <2>2, Recursion
  <2> QED
    BY <2>1, <2>3, Zenon
<1>4. Is(f)
  <2>1. \A k \in 1..n : f[k - 1] \in BOOLEAN
    BY <1>1, <1>3
  <2>2. ASSUME NEW k \in 1..n PROVE f[k] = Generator!More(f[k - 1], layers[k])
    <3>1. step[k] = [below \in BOOLEAN |-> Generator!More(below, layers[k])]
      OBVIOUS
    <3> HIDE DEF step
    <3> QED
      BY <1>3, <2>1, <3>1, Zenon
  <2>3. \A k \in 0..n : k # 0 => k \in 1..n
    BY <1>1
  <2>4. \A k \in 0..n : f[k] = IF k = 0 THEN TRUE ELSE Generator!More(f[k - 1], layers[k])
    BY <1>3, <2>2, <2>3, Zenon
  <2> QED
    BY <1>3, <2>4, Zenon
<1>5. PICK more : more = CHOOSE g : Is(g)
  OBVIOUS
<1>6. Is(more)
  BY <1>4, <1>5
<1>7. Generator!HasNext(layers) = more[n]
  BY <1>5, Zenon DEF Generator!HasNext
<1>8. /\ more = [k \in 0..n |-> more[k]] /\ more[0] = TRUE
      /\ \A k \in 1..n : more[k] = Generator!More(more[k - 1], layers[k])
  <2>1. /\ more = [k \in 0..n |-> more[k]]
        /\ \A k \in 0..n : more[k] = IF k = 0 THEN TRUE ELSE Generator!More(more[k - 1], layers[k])
    BY <1>6, Zenon
  <2>2. 0 \in 0..n /\ \A k \in 1..n : k \in 0..n /\ k # 0
    BY <1>1
  <2> QED
    BY <2>1, <2>2, Zenon
<1>9. \A k \in 0..n : more[k] \in BOOLEAN
  <2> DEFINE Good == {k \in 0..n : more[k] \in BOOLEAN}
  <2>1. 0 \in 0..n /\ \A k \in 1..n : k \in 0..n
    BY <1>1
  <2>2. 0 \in Good
    BY <1>8, <2>1, Zenon
  <2>3. ASSUME NEW k \in 1..n, k - 1 \in Good PROVE k \in Good
    <3>1. Generator!More(more[k - 1], layers[k]) \in BOOLEAN
      BY <1>1, <2>3, MoreIsBoolean, Zenon
    <3> QED
      BY <1>8, <2>1, <3>1, Zenon
  <2>4. \A k \in 0..n : k \in Good
    <3> HIDE DEF Good
    <3> QED
      BY <1>1, <2>2, <2>3, UpTo
  <2> QED
    BY <2>4, Zenon
<1>10. more \in [0..n -> BOOLEAN]
  BY <1>8, <1>9, ZenonT(60)
<1> QED
  BY <1>7, <1>8, <1>10, ZenonT(60)

(* The layers up to one that still have a say there, and what they say. *)
HeardTo(layers, k) ==
  {i \in 1..k : \A j \in i..k : layers[j].kind # "range" /\ (layers[j].kind = "limited" => j = i)}

Says(layer) ==
  /\ layer.kind = "limited" => layer.count > 0
  /\ layer.kind = "timeLimited" => layer.at < layer.before

LEMMA HeardLater ==
  ASSUME NEW layers, NEW k \in Nat \ {0}, layers[k] \in Generator!Layers
  PROVE  /\ layers[k].kind = "range" => HeardTo(layers, k) = {}
         /\ layers[k].kind = "limited" => HeardTo(layers, k) = {k}
         /\ layers[k].kind \in {"timestamped", "timeLimited"} =>
              HeardTo(layers, k) = HeardTo(layers, k - 1) \cup {k}
<1>1. CASE layers[k].kind = "range"
  BY <1>1 DEF HeardTo
<1>2. CASE layers[k].kind = "limited"
  BY <1>2 DEF HeardTo
<1>3. CASE layers[k].kind \in {"timestamped", "timeLimited"}
  <2>1. \A i \in 1..k : i..k = (i..(k - 1)) \cup {k}
    OBVIOUS
  <2>2. 1..k = (1..(k - 1)) \cup {k}
    OBVIOUS
  <2>3. \A i \in 1..(k - 1) : i \in HeardTo(layers, k) <=> i \in HeardTo(layers, k - 1)
    BY <1>3, <2>1, <2>2 DEF HeardTo
  <2>4. k \in HeardTo(layers, k)
    BY <1>3 DEF HeardTo
  <2>5. /\ HeardTo(layers, k) \subseteq 1..k /\ HeardTo(layers, k - 1) \subseteq 1..(k - 1)
    BY DEF HeardTo
  <2>6. HeardTo(layers, k) = HeardTo(layers, k - 1) \cup {k}
    BY <2>2, <2>3, <2>4, <2>5
  <2> QED
    BY <1>3, <2>6
<1> QED
  BY <1>1, <1>2, <1>3

LEMMA HasNextIsSaid ==
  ASSUME NEW layers, Layered(layers)
  PROVE  Generator!HasNext(layers) <=> \A i \in Generator!Heard(layers) : Says(layers[i])
<1>1. PICK more \in [0..Len(layers) -> BOOLEAN] :
        /\ more[0] = TRUE
        /\ \A k \in 1..Len(layers) : more[k] = Generator!More(more[k - 1], layers[k])
        /\ Generator!HasNext(layers) = more[Len(layers)]
  BY HasNextComputed, Zenon
<1> DEFINE n == Len(layers)
           Good == {k \in 0..n : more[k] <=> \A i \in HeardTo(layers, k) : Says(layers[i])}
<1>2. n \in Nat /\ DOMAIN layers = 1..n /\ \A k \in 1..n : layers[k] \in Generator!Layers
  BY LenProperties DEF Layered
<1>3. 0 \in Good
  <2>1. HeardTo(layers, 0) = {} /\ 0 \in 0..n
    BY <1>2 DEF HeardTo
  <2> QED
    BY <1>1, <2>1, Zenon
<1>4. ASSUME NEW k \in 1..n, k - 1 \in Good PROVE k \in Good
  <2>1. k \in 0..n /\ k \in Nat \ {0} /\ layers[k] \in Generator!Layers /\ n \in Nat
    BY <1>2
  <2>2. more[k] = Generator!More(more[k - 1], layers[k])
    BY <1>1
  <2>3. more[k - 1] <=> \A i \in HeardTo(layers, k - 1) : Says(layers[i])
    BY <1>4, Zenon
  <2>4. CASE layers[k].kind = "range"
    <3>1. HeardTo(layers, k) = {}
      BY <2>1, <2>4, HeardLater
    <3>2. more[k] = TRUE
      BY <2>2, <2>4, Zenon DEF Generator!More
    <3> QED
      BY <2>1, <3>1, <3>2, Zenon
  <2>5. CASE layers[k].kind = "limited"
    <3>1. HeardTo(layers, k) = {k}
      BY <2>1, <2>5, HeardLater
    <3>2. Generator!More(more[k - 1], layers[k]) = (layers[k].count > 0)
      BY <2>5 DEF Generator!More
    <3>3. Says(layers[k]) <=> layers[k].count > 0
      BY <2>5 DEF Says
    <3> QED
      BY <2>1, <2>2, <3>1, <3>2, <3>3, Zenon
  <2>6. CASE layers[k].kind \in {"timestamped", "timeLimited"}
    <3>1. HeardTo(layers, k) = HeardTo(layers, k - 1) \cup {k}
      BY <2>1, <2>6, HeardLater
    <3>2. Generator!More(more[k - 1], layers[k]) <=> more[k - 1] /\ Says(layers[k])
      BY <2>6 DEF Generator!More, Says
    <3> QED
      BY <2>1, <2>2, <2>3, <3>1, <3>2, Zenon
  <2> QED
    BY <2>1, <2>4, <2>5, <2>6, LayersKinds
<1>5. n \in Good
  <2> HIDE DEF Good
  <2>1. \A k \in 0..n : k \in Good
    BY <1>2, <1>3, <1>4, UpTo
  <2> QED
    BY <1>2, <2>1
<1>6. Generator!Heard(layers) = HeardTo(layers, n)
  BY <1>2 DEF Generator!Heard, HeardTo
<1> QED
  BY <1>1, <1>5, <1>6, Zenon

-----------------------------------------------------------------------------
(* A number on its way through the layers. *)
LEMMA ThroughIsInt ==
  ASSUME NEW number \in Int, NEW layer \in Generator!Layers
  PROVE  Generator!Through(number, layer) \in Int
BY LayersKinds DEF Generator!Through

LEMMA TakenComputed ==
  ASSUME NEW layers, Layered(layers), NEW number \in Int
  PROVE  \E through \in [0..Len(layers) -> Int] :
           /\ through[0] = number
           /\ \A k \in 1..Len(layers) : through[k] = Generator!Through(through[k - 1], layers[k])
           /\ Generator!Taken(number, layers) = through[Len(layers)]
<1> DEFINE n == Len(layers)
           Is(f) == f = [k \in 0..n |-> IF k = 0 THEN number ELSE Generator!Through(f[k - 1], layers[k])]
           step == [k \in 1..n |-> [below \in Int |-> Generator!Through(below, layers[k])]]
<1>1. n \in Nat /\ \A k \in 1..n : layers[k] \in Generator!Layers
  BY LenProperties DEF Layered
<1>2. step \in [1..n -> [Int -> Int]]
  BY <1>1, ThroughIsInt
<1>3. PICK f \in [0..n -> Int] : f[0] = number /\ \A k \in 1..n : f[k] = step[k][f[k - 1]]
  <2> HIDE DEF step, n
  <2>1. PICK S, start : S = Int /\ start = number
    OBVIOUS
  <2>2. start \in S /\ step \in [1..n -> [S -> S]]
    BY <1>2, <2>1
  <2>3. \E f \in [0..n -> S] : f[0] = start /\ \A k \in 1..n : f[k] = step[k][f[k - 1]]
    BY <1>1, <2>2, Recursion
  <2> QED
    BY <2>1, <2>3
<1>4. Is(f)
  <2>1. ASSUME NEW k \in 1..n PROVE f[k] = Generator!Through(f[k - 1], layers[k])
    <3>1. f[k - 1] \in Int
      BY <1>1, <1>3
    <3> QED
      BY <1>3, <3>1
  <2>2. \A k \in 0..n : k # 0 => k \in 1..n
    BY <1>1
  <2> HIDE DEF step
  <2>3. \A k \in 0..n : f[k] = IF k = 0 THEN number ELSE Generator!Through(f[k - 1], layers[k])
    BY <1>3, <2>1, <2>2
  <2> QED
    BY <1>3, <2>3, Zenon
<1>5. PICK through : through = CHOOSE g : Is(g)
  OBVIOUS
<1>6. Is(through)
  BY <1>4, <1>5
<1>7. Generator!Taken(number, layers) = through[n]
  BY <1>5, Zenon DEF Generator!Taken
<1>8. /\ through = [k \in 0..n |-> through[k]] /\ through[0] = number
      /\ \A k \in 1..n : through[k] = Generator!Through(through[k - 1], layers[k])
  <2>1. /\ through = [k \in 0..n |-> through[k]]
        /\ \A k \in 0..n : through[k] = IF k = 0 THEN number ELSE Generator!Through(through[k - 1], layers[k])
    BY <1>6, Zenon
  <2>2. 0 \in 0..n /\ \A k \in 1..n : k \in 0..n /\ k # 0
    BY <1>1
  <2> QED
    BY <2>1, <2>2, Zenon
<1>9. \A k \in 0..n : through[k] \in Int
  <2> DEFINE Good == {k \in 0..n : through[k] \in Int}
  <2>1. 0 \in Good
    BY <1>1, <1>8
  <2>2. ASSUME NEW k \in 1..n, k - 1 \in Good PROVE k \in Good
    <3>1. k \in 0..n /\ through[k - 1] \in Int /\ layers[k] \in Generator!Layers
      BY <1>1, <2>2
    <3>2. Generator!Through(through[k - 1], layers[k]) \in Int
      BY <3>1, ThroughIsInt
    <3>3. through[k] = Generator!Through(through[k - 1], layers[k])
      BY <1>8
    <3> QED
      BY <3>1, <3>2, <3>3
  <2>3. \A k \in 0..n : k \in Good
    <3> HIDE DEF Good
    <3> QED
      BY <1>1, <2>1, <2>2, UpTo
  <2> QED
    BY <2>3
<1>10. through \in [0..n -> Int]
  BY <1>8, <1>9, ZenonT(60)
<1> QED
  BY <1>7, <1>8, <1>10, ZenonT(60)

LEMMA TakenIsInt ==
  ASSUME NEW layers, Layered(layers), NEW number \in Int
  PROVE  Generator!Taken(number, layers) \in Int
<1>1. Len(layers) \in Nat /\ Len(layers) \in 0..Len(layers)
  BY LenProperties DEF Layered
<1> QED
  BY <1>1, TakenComputed, SMTT(30)

LEMMA TakenThroughOne ==
  ASSUME NEW layers, Layered(layers), NEW number \in Int, NEW i \in DOMAIN layers,
         \A j \in DOMAIN layers : layers[j].kind = "range" => j = i
  PROVE  Generator!Taken(number, layers) = Generator!Through(number, layers[i])
<1>1. PICK through \in [0..Len(layers) -> Int] :
        /\ through[0] = number
        /\ \A k \in 1..Len(layers) : through[k] = Generator!Through(through[k - 1], layers[k])
        /\ Generator!Taken(number, layers) = through[Len(layers)]
  BY TakenComputed
<1> DEFINE n == Len(layers)
           Good == {k \in 0..n : through[k] = IF k < i THEN number ELSE Generator!Through(number, layers[i])}
<1>2. n \in Nat /\ DOMAIN layers = 1..n /\ i \in 1..n
  BY LenProperties DEF Layered
<1>3. 0 \in Good
  BY <1>1, <1>2
<1>4. ASSUME NEW k \in 1..n, k - 1 \in Good PROVE k \in Good
  <2>1. /\ through[k] = Generator!Through(through[k - 1], layers[k])
        /\ through[k - 1] = IF k - 1 < i THEN number ELSE Generator!Through(number, layers[i])
    BY <1>1, <1>4
  <2>2. k # i => Generator!Through(through[k - 1], layers[k]) = through[k - 1]
    BY <1>2 DEF Generator!Through
  <2>3. CASE k = i
    BY <1>2, <2>1, <2>3
  <2>4. CASE k # i
    BY <1>2, <2>1, <2>2, <2>4
  <2> QED
    BY <2>3, <2>4
<1>5. \A k \in 0..n : k \in Good
  <2> HIDE DEF Good
  <2> QED
    BY <1>2, <1>3, <1>4, UpTo
<1> QED
  BY <1>1, <1>2, <1>5

LEMMA TakenFits ==
  ASSUME NEW layers, Layered(layers), NEW number \in {0, 1, 700, 999, 1000}, NEW i \in DOMAIN layers,
         layers[i].kind = "range", layers[i].min < layers[i].max,
         \A j \in DOMAIN layers : layers[j].kind = "range" => j = i
  PROVE  /\ layers[i].min <= Generator!Taken(number, layers)
         /\ Generator!Taken(number, layers) <= layers[i].max
<1>1. layers[i] \in Generator!Layers
  BY LenProperties DEF Layered
<1>2. layers[i].min \in Int /\ layers[i].max \in Int
  BY <1>1, LayersKinds
<1>3. Generator!Taken(number, layers) =
        (number * (layers[i].max - layers[i].min)) \div 1000 + layers[i].min
  BY TakenThroughOne DEF Generator!Through
<1> QED
  BY <1>2, <1>3

-----------------------------------------------------------------------------
(* What is left of the layers when a number has been read. *)
CountedLayers(layers) == [i \in DOMAIN layers |-> Generator!Counted(layers[i])]

LEMMA CountedLayer ==
  ASSUME NEW layer \in Generator!Layers
  PROVE  LET new == Generator!Counted(layer)
         IN  /\ new \in Generator!Layers /\ new.kind = layer.kind
             /\ layer.kind = "range" => new = layer
             /\ layer.kind = "limited" => new.count = (layer.count - 1) % 16
             /\ layer.kind \in {"timestamped", "timeLimited"} =>
                  new.at = layer.at + layer.step /\ new.step = layer.step
             /\ layer.kind = "timeLimited" => new.before = layer.before
<1>1. CASE layer \in [kind : {"range"}, min : Int, max : Int]
  BY <1>1 DEF Generator!Counted, Generator!Layers
<1>2. CASE layer \in [kind : {"limited"}, count : 0..15]
  BY <1>2 DEF Generator!Counted, Generator!Layers, Generator!Wrap
<1>3. CASE layer \in [kind : {"timestamped"}, at : Int, step : Int]
  BY <1>3 DEF Generator!Counted, Generator!Layers
<1>4. CASE layer \in [kind : {"timeLimited"}, at : Int, step : Int, before : Int]
  BY <1>4 DEF Generator!Counted, Generator!Layers
<1> QED
  BY <1>1, <1>2, <1>3, <1>4 DEF Generator!Layers, Generator!Wrap

LEMMA CountedAreLayers ==
  ASSUME NEW layers, Layered(layers)
  PROVE  LET new == CountedLayers(layers)
         IN  /\ Layered(new) /\ Len(new) = Len(layers) /\ DOMAIN new = DOMAIN layers
             /\ \A i \in DOMAIN layers : new[i] = Generator!Counted(layers[i]) /\ new[i].kind = layers[i].kind
             /\ Generator!Heard(new) = Generator!Heard(layers)
             /\ Generator!Times(new) = Generator!Times(layers)
<1>1. PICK new : new = CountedLayers(layers)
  OBVIOUS
<1>2. Len(layers) \in Nat /\ DOMAIN layers = 1..Len(layers)
      /\ \A i \in DOMAIN layers : layers[i] \in Generator!Layers
  BY LenProperties DEF Layered
<1>3. /\ DOMAIN new = DOMAIN layers
      /\ \A i \in DOMAIN layers : new[i] = Generator!Counted(layers[i]) /\ new[i].kind = layers[i].kind
  BY <1>1, <1>2, CountedLayer DEF CountedLayers
<1>4. new \in [1..Len(layers) -> Generator!Layers]
  BY <1>1, <1>2, <1>3, CountedLayer DEF CountedLayers
<1>5. Layered(new) /\ Len(new) = Len(layers)
  BY <1>2, <1>4 DEF Layered
<1>6. Generator!Heard(new) = Generator!Heard(layers)
  BY <1>2, <1>3, <1>5 DEF Generator!Heard
<1>7. Generator!Times(new) = Generator!Times(layers)
  BY <1>3 DEF Generator!Times
<1> QED
  BY <1>1, <1>3, <1>5, <1>6, <1>7

-----------------------------------------------------------------------------
(* The count of a layer with a say has not passed zero, its time was not   *)
(* over at the start nor when the last number was read: one that has       *)
(* nothing left has given what it had to.                                  *)
Limits(layer, reads) ==
  /\ layer.kind = "limited" => layer.count + reads < 16
  /\ layer.kind = "timeLimited" =>
       reads = 0 \/ (layer.at - layer.step < layer.before /\ layer.at - reads * layer.step < layer.before)

GivenInTime(at, step, before, reads) ==
  LET start == at - reads * step
  IN  CASE start >= before -> 0
        [] start < before /\ step <= 0 -> Length
        [] OTHER -> (before - start + step - 1) \div step

LEMMA TimeUsed ==
  ASSUME NEW at \in Int, NEW step \in Int, NEW before \in Int, NEW reads \in Nat, reads <= Length,
         reads = 0 \/ (at - step < before /\ at - reads * step < before)
  PROVE  /\ reads <= GivenInTime(at, step, before, reads)
         /\ at >= before => reads = GivenInTime(at, step, before, reads)
<1> DEFINE start == at - reads * step
           amount == before - start + step - 1
           given == GivenInTime(at, step, before, reads)
<1>1. start \in Int /\ reads * step \in Int /\ amount \in Int
  OBVIOUS
<1>2. CASE reads = 0
  <2>1. start = at
    BY <1>2
  <2>2. ASSUME start < before, step > 0 PROVE 0 <= amount \div step
    BY <1>2, <2>1, <2>2
  <2> QED
    BY <1>1, <1>2, <2>1, <2>2 DEF GivenInTime
<1>3. CASE reads # 0 /\ step <= 0
  <2>1. start < before
    BY <1>3
  <2>2. at <= start
    BY <1>3
  <2>3. given = Length
    BY <1>1, <1>3, <2>1 DEF GivenInTime
  <2> QED
    BY <1>1, <2>1, <2>2, <2>3
<1>4. CASE reads # 0 /\ step > 0
  <2>1. start < before
    BY <1>4
  <2>2. given = amount \div step
    BY <1>1, <1>4, <2>1 DEF GivenInTime
  <2>3. amount = reads * step + (before - at + step - 1) /\ 0 <= before - at + step - 1
    BY <1>1, <1>4
  <2>4. amount \in Int /\ reads * step <= amount
    BY <1>1, <2>3
  <2>5. reads <= amount \div step
    <3> HIDE DEF amount
    <3> QED
      BY <1>4, <2>4
  <2>6. ASSUME at >= before PROVE reads = amount \div step
    <3>1. (reads + 1) * step = reads * step + step
      OBVIOUS
    <3>2. amount < (reads + 1) * step
      BY <1>1, <2>3, <2>6, <3>1
    <3> HIDE DEF amount
    <3> QED
      BY <1>4, <2>4, <3>2
  <2> QED
    BY <2>2, <2>5, <2>6
<1> QED
  BY <1>2, <1>3, <1>4

LEMMA LayerUsed ==
  ASSUME NEW layer \in Generator!Layers, Len(read) \in Nat, Len(read) <= Length, Limits(layer, Len(read))
  PROVE  /\ Len(read) <= Generator!Given(layer)
         /\ ~Says(layer) => Len(read) = Generator!Given(layer)
<1>1. PICK reads \in Nat : reads = Len(read)
  OBVIOUS
<1>2. CASE layer.kind \in {"range", "timestamped"}
  <2>1. Generator!Given(layer) = Length
    BY <1>2 DEF Generator!Given
  <2> QED
    BY <1>2, <2>1 DEF Says
<1>3. CASE layer.kind = "limited"
  <2>1. layer.count \in 0..15 /\ layer.count + reads < 16
    BY <1>1, <1>3, LayersKinds DEF Limits
  <2>2. Generator!Given(layer) = (layer.count + reads) % 16
    BY <1>1, <1>3 DEF Generator!Given, Generator!Wrap
  <2>3. Generator!Given(layer) = layer.count + reads
    <3>1. PICK count : count = layer.count
      OBVIOUS
    <3>2. count \in 0..15 /\ count + reads < 16
      BY <2>1, <3>1
    <3>3. (count + reads) % 16 = count + reads
      BY <3>2
    <3> QED
      BY <2>2, <3>1, <3>3
  <2> QED
    BY <1>1, <1>3, <2>1, <2>3 DEF Says
<1>4. CASE layer.kind = "timeLimited"
  <2>1. /\ layer.at \in Int /\ layer.step \in Int /\ layer.before \in Int
        /\ reads = 0 \/ (layer.at - layer.step < layer.before /\ layer.at - reads * layer.step < layer.before)
    BY <1>1, <1>4, LayersKinds DEF Limits
  <2>2. PICK at, step, before : at = layer.at /\ step = layer.step /\ before = layer.before
    OBVIOUS
  <2>3. Generator!Given(layer) = GivenInTime(at, step, before, reads)
    BY <1>1, <1>4, <2>2 DEF Generator!Given, GivenInTime
  <2>4. reads <= Generator!Given(layer) /\ (at >= before => reads = Generator!Given(layer))
    <3>1. /\ at \in Int /\ step \in Int /\ before \in Int /\ reads <= Length
          /\ reads = 0 \/ (at - step < before /\ at - reads * step < before)
      BY <1>1, <2>1, <2>2
    <3>2. /\ reads <= GivenInTime(at, step, before, reads)
          /\ at >= before => reads = GivenInTime(at, step, before, reads)
      <4> HIDE <2>1, <2>2, <2>3
      <4> QED
        BY <3>1, TimeUsed
    <3> QED
      BY <2>3, <3>2
  <2> QED
    BY <1>1, <1>4, <2>1, <2>2, <2>4 DEF Says
<1> QED
  BY <1>2, <1>3, <1>4, LayersKinds

(* A layer that lets a number through keeps its limits. *)
LEMMA LimitsKept ==
  ASSUME NEW layer \in Generator!Layers, NEW reads \in Nat, Limits(layer, reads), Says(layer)
  PROVE  Limits(Generator!Counted(layer), reads + 1)
<1>1. CASE layer.kind \in {"range", "timestamped"}
  BY <1>1, CountedLayer DEF Limits
<1>2. CASE layer.kind = "limited"
  <2>1. layer.count \in 1..15 /\ layer.count + reads < 16
    BY <1>2, LayersKinds DEF Limits, Says
  <2>2. (layer.count - 1) % 16 = layer.count - 1
    BY <2>1
  <2>3. Generator!Counted(layer).kind = "limited" /\ Generator!Counted(layer).count = layer.count - 1
    BY <1>2, <2>2, CountedLayer
  <2> QED
    BY <2>1, <2>3 DEF Limits
<1>3. CASE layer.kind = "timeLimited"
  <2>1. layer.at \in Int /\ layer.step \in Int /\ layer.before \in Int /\ layer.at < layer.before
    BY <1>3, LayersKinds DEF Says
  <2>2. /\ Generator!Counted(layer).kind = "timeLimited"
        /\ Generator!Counted(layer).at = layer.at + layer.step
        /\ Generator!Counted(layer).step = layer.step /\ Generator!Counted(layer).before = layer.before
    BY <1>3, CountedLayer
  <2>3. PICK at, step, before : at = layer.at /\ step = layer.step /\ before = layer.before
    OBVIOUS
  <2>4. at \in Int /\ step \in Int /\ before \in Int /\ at < before
    BY <2>1, <2>3
  <2>5. reads = 0 \/ at - reads * step < before
    BY <1>3, <2>3 DEF Limits
  <2>6. (at + step) - step = at /\ (at + step) - (reads + 1) * step = at - reads * step
    BY <2>4
  <2>7. at - reads * step < before
    BY <2>4, <2>5
  <2> QED
    BY <2>2, <2>3, <2>4, <2>6, <2>7 DEF Limits
<1> QED
  BY <1>1, <1>2, <1>3, LayersKinds

-----------------------------------------------------------------------------
Readings == [number : Int, at : SUBSET Int]

InRange(c, i, readings) ==
  /\ c.layers[i].kind = "range" /\ c.source # "sin"
  /\ \A j \in DOMAIN c.layers : c.layers[j].kind = "range" => j = i
  => \A n \in DOMAIN readings :
       c.layers[i].min <= readings[n].number /\ readings[n].number <= c.layers[i].max

InTime(c, i, readings) ==
  i \in Generator!Times(c.layers) =>
    \A n \in DOMAIN readings :
      c.layers[i].at - (Len(readings) + 1 - n) * c.layers[i].step \in readings[n].at

Generated(c, readings) ==
  /\ c \in [source : Generator!Sources, layers : Seq(Generator!Layers)]
  /\ readings \in Seq(Readings) /\ Len(readings) <= Length
  /\ \A i \in Generator!Heard(c.layers) : Limits(c.layers[i], Len(readings))
  /\ \A i \in DOMAIN c.layers :
       /\ c.layers[i].kind = "range" => c.layers[i].min < c.layers[i].max
       /\ InRange(c, i, readings) /\ InTime(c, i, readings)

GeneratorInv == (chain = None => read = <<>>) /\ (chain # None => Generated(chain, read))

LEMMA GeneratorMade ==
  ASSUME GeneratorInv, NEW c \in Chains, Generator!Make(c)
  PROVE  GeneratorInv'
<1>1. /\ read' = <<>> /\ chain' = c
      /\ \A i \in DOMAIN c.layers : c.layers[i].kind = "range" => c.layers[i].min < c.layers[i].max
  BY DEF Generator!Make, GeneratorInv
<1>2. c \in [source : Generator!Sources, layers : Seq(Generator!Layers)] /\ c # None
  BY ChainsAssumption
<1>3. <<>> \in Seq(Readings) /\ Len(<<>>) = 0 /\ DOMAIN <<>> = {}
  BY EmptySeq
<1>4. Len(c.layers) \in Nat /\ \A i \in DOMAIN c.layers : c.layers[i] \in Generator!Layers
  BY <1>2, LenProperties
<1>5. \A i \in Generator!Heard(c.layers) : Limits(c.layers[i], 0)
  <2> SUFFICES ASSUME NEW i \in DOMAIN c.layers
               PROVE  Limits(c.layers[i], 0)
    BY DEF Generator!Heard
  <2>1. PICK layer : layer = c.layers[i]
    OBVIOUS
  <2>2. layer \in Generator!Layers
    BY <1>4, <2>1
  <2>3. layer.kind = "limited" => layer.count \in 0..15
    BY <2>2, LayersKinds
  <2> QED
    BY <2>1, <2>3 DEF Limits
<1>6. Generated(c, <<>>)
  BY <1>1, <1>2, <1>3, <1>5, LengthAssumption DEF Generated, InRange, InTime
<1> QED
  BY <1>1, <1>2, <1>6 DEF GeneratorInv

LEMMA GeneratorReads ==
  ASSUME GeneratorInv, Generator!ReadNext
  PROVE  GeneratorInv'
<1>1. PICK c, readings : c = chain /\ readings = read
  OBVIOUS
<1>2. /\ c # None /\ Len(readings) < Length /\ Generator!HasNext(c.layers) /\ Generated(c, readings)
  BY <1>1 DEF Generator!ReadNext, GeneratorInv
<1>3. PICK number \in Generator!NextNumbers :
        read' = Append(readings, [number |-> Generator!Taken(number, c.layers),
                                  at |-> {c.layers[i].at : i \in Generator!Times(c.layers)}])
  BY <1>1, Zenon DEF Generator!ReadNext
<1>4. PICK new : new = [source |-> c.source, layers |-> CountedLayers(c.layers)]
  OBVIOUS
<1>5. chain' = new
  BY <1>1, <1>2, <1>4 DEF Generator!ReadNext, Generated, CountedLayers
<1>6. Layered(c.layers) /\ c.source \in Generator!Sources
  BY <1>2 DEF Generated, Layered
<1>7. /\ Len(c.layers) \in Nat /\ DOMAIN c.layers = 1..Len(c.layers)
      /\ \A i \in DOMAIN c.layers : c.layers[i] \in Generator!Layers
  BY <1>6, LenProperties DEF Layered
<1>8. number \in Int /\ (c.source # "sin" => number \in {0, 1, 700, 999, 1000})
  BY <1>1, <1>6 DEF Generator!NextNumbers, Generator!Sources
<1>9. PICK reading : reading = [number |-> Generator!Taken(number, c.layers),
                                at |-> {c.layers[i].at : i \in Generator!Times(c.layers)}]
  OBVIOUS
<1>10. reading \in Readings
  <2>1. Generator!Taken(number, c.layers) \in Int
    BY <1>6, <1>8, TakenIsInt
  <2>2. {c.layers[i].at : i \in Generator!Times(c.layers)} \subseteq Int
    BY <1>7, LayersKinds DEF Generator!Times
  <2> QED
    BY <1>9, <2>1, <2>2 DEF Readings
<1>11. PICK later : later = Append(readings, reading)
  OBVIOUS
<1>12. /\ read' = later /\ later \in Seq(Readings) /\ Len(later) = Len(readings) + 1 /\ Len(readings) \in Nat
       /\ DOMAIN readings = 1..Len(readings) /\ DOMAIN later = 1..(Len(readings) + 1)
       /\ \A n \in 1..Len(readings) : later[n] = readings[n]
       /\ later[Len(readings) + 1] = reading
  BY <1>2, <1>3, <1>9, <1>10, <1>11, AppendProperties, LenProperties DEF Generated
<1>13. /\ new.source = c.source /\ new.layers = CountedLayers(c.layers)
       /\ new \in [source : Generator!Sources, layers : Seq(Generator!Layers)]
       /\ DOMAIN new.layers = DOMAIN c.layers
       /\ \A i \in DOMAIN c.layers : new.layers[i] = Generator!Counted(c.layers[i])
                                     /\ new.layers[i].kind = c.layers[i].kind
       /\ Generator!Heard(new.layers) = Generator!Heard(c.layers)
       /\ Generator!Times(new.layers) = Generator!Times(c.layers)
  BY <1>4, <1>6, CountedAreLayers DEF Layered
<1>14. \A i \in Generator!Heard(c.layers) : Limits(new.layers[i], Len(later))
  <2> TAKE i \in Generator!Heard(c.layers)
  <2>1. i \in DOMAIN c.layers
    BY DEF Generator!Heard
  <2>2. Says(c.layers[i])
    BY <1>2, <1>6, HasNextIsSaid
  <2>3. Limits(c.layers[i], Len(readings))
    BY <1>2 DEF Generated
  <2> QED
    BY <1>7, <1>12, <1>13, <2>1, <2>2, <2>3, LimitsKept
<1>15. ASSUME NEW i \in DOMAIN c.layers
       PROVE  InRange(new, i, later)
  <2> SUFFICES ASSUME c.layers[i].kind = "range", c.source # "sin",
                      \A j \in DOMAIN c.layers : c.layers[j].kind = "range" => j = i,
                      NEW n \in DOMAIN later
               PROVE  c.layers[i].min <= later[n].number /\ later[n].number <= c.layers[i].max
    BY <1>7, <1>13, <1>15, CountedLayer DEF InRange
  <2>1. InRange(c, i, readings) /\ c.layers[i].min < c.layers[i].max
    BY <1>2 DEF Generated
  <2>2. CASE n \in 1..Len(readings)
    BY <1>12, <2>1, <2>2 DEF InRange
  <2>3. CASE n = Len(readings) + 1
    BY <1>6, <1>8, <1>9, <1>12, <2>1, <2>3, TakenFits
  <2> QED
    BY <1>12, <2>2, <2>3
<1>16. ASSUME NEW i \in DOMAIN c.layers
       PROVE  InTime(new, i, later)
  <2> SUFFICES ASSUME i \in Generator!Times(c.layers), NEW n \in DOMAIN later
               PROVE  new.layers[i].at - (Len(later) + 1 - n) * new.layers[i].step \in later[n].at
    BY <1>13 DEF InTime
  <2>1. PICK at, step : at = c.layers[i].at /\ step = c.layers[i].step
    OBVIOUS
  <2>2. /\ at \in Int /\ step \in Int
        /\ new.layers[i].at = at + step /\ new.layers[i].step = step
    BY <1>7, <1>13, <2>1, LayersKinds, CountedLayer DEF Generator!Times
  <2>3. CASE n \in 1..Len(readings)
    <3>1. at - (Len(readings) + 1 - n) * step \in readings[n].at
      BY <1>2, <1>12, <2>1, <2>3 DEF Generated, InTime
    <3>2. at + step - (Len(later) + 1 - n) * step = at - (Len(readings) + 1 - n) * step
      BY <1>12, <2>2, <2>3
    <3> QED
      BY <1>12, <2>2, <2>3, <3>1, <3>2
  <2>4. CASE n = Len(readings) + 1
    <3>1. at + step - (Len(later) + 1 - n) * step = at
      BY <1>12, <2>2, <2>4
    <3>2. at \in later[n].at
      BY <1>9, <1>12, <2>1, <2>4
    <3> QED
      BY <2>2, <3>1, <3>2
  <2> QED
    BY <1>12, <2>3, <2>4
<1>17. ASSUME NEW i \in DOMAIN c.layers, new.layers[i].kind = "range"
       PROVE  new.layers[i].min < new.layers[i].max
  BY <1>2, <1>7, <1>13, <1>17, CountedLayer DEF Generated
<1>18. Generated(new, later)
  BY <1>2, <1>12, <1>13, <1>14, <1>15, <1>16, <1>17, LengthAssumption DEF Generated
<1>19. new # None
  BY <1>13, ChainsAssumption
<1> QED
  BY <1>5, <1>12, <1>18, <1>19 DEF GeneratorInv

LEMMA GeneratorsKeep ==
  ASSUME GeneratorInv, [Generator!GeneratorsNext]_generatorVars
  PROVE  GeneratorInv'
<1>1. CASE UNCHANGED generatorVars
  BY <1>1 DEF generatorVars, GeneratorInv
<1>2. CASE Generator!GeneratorsNext
  BY <1>2, GeneratorMade, GeneratorReads DEF Generator!GeneratorsNext
<1> QED
  BY <1>1, <1>2

LEMMA GeneratorsAgree ==
  ASSUME GeneratorInv
  PROVE  Generator!GeneratedRight
<1> SUFFICES ASSUME Generated(chain, read)
             PROVE  Generator!GeneratedRight
  BY DEF GeneratorInv, Generator!GeneratedRight
<1>1. Layered(chain.layers) /\ read \in Seq(Readings) /\ Len(read) \in Nat /\ Len(read) <= Length
  BY LenProperties DEF Generated, Layered
<1>2. \A i \in Generator!Heard(chain.layers) :
        /\ Len(read) <= Generator!Given(chain.layers[i])
        /\ ~Says(chain.layers[i]) => Len(read) = Generator!Given(chain.layers[i])
  <2> TAKE i \in Generator!Heard(chain.layers)
  <2>1. chain.layers[i] \in Generator!Layers
    BY <1>1, LenProperties DEF Layered, Generator!Heard
  <2>2. Limits(chain.layers[i], Len(read))
    BY DEF Generated
  <2> QED
    BY <1>1, <2>1, <2>2, LayerUsed
<1>3. Generator!HasNext(chain.layers) \/ \E i \in Generator!Heard(chain.layers) : ~Says(chain.layers[i])
  BY <1>1, HasNextIsSaid
<1>4. \A i \in DOMAIN chain.layers : InRange(chain, i, read) /\ InTime(chain, i, read)
  BY DEF Generated
<1> QED
  BY <1>2, <1>3, <1>4, Zenon DEF Generator!GeneratedRight, InRange, InTime

(* Whatever generators are laid over each other: a chain ends exactly when *)
(* a layer with a say has given all it has, its numbers lie in the range   *)
(* it has, and the times of a layer are its step apart.                    *)
THEOREM GeneratedAsMade == Spec => []Generator!GeneratedRight
<1>1. Init => GeneratorInv
  BY DEF Init, Generator!GeneratorsInit, GeneratorInv
<1>2. GeneratorInv /\ [Next]_vars => GeneratorInv'
  <2> SUFFICES ASSUME GeneratorInv, [Next]_vars PROVE GeneratorInv'
    OBVIOUS
  <2>1. [Generator!GeneratorsNext]_generatorVars
    BY Zenon DEF Next, vars, InfoStep, ServerStep, ProductStep, CredentialsStep, IdentifierStep, StatisticsStep,
      TransactionStep, SslStep, GeneratorStep
  <2> QED
    BY <2>1, GeneratorsKeep
<1>3. GeneratorInv => Generator!GeneratedRight
  BY GeneratorsAgree
<1> QED
  BY <1>1, <1>2, <1>3, PTL DEF Spec

-----------------------------------------------------------------------------
(* Identifiers: the check digits of gateways, the numbers of devices, the  *)
(* idents of managers and the fingerprints of certificates.                *)

(* The table of the check digits. *)
Star(a, b) == Ids!Table[a + 1][b + 1]

LEMMA StarRow ==
  ASSUME NEW a \in 0..9
  PROVE  /\ \A x \in 0..9 : Star(a, x) \in 0..9 /\ (Star(a, x) = 0 <=> a = x)
         /\ \A x, y \in 0..9 : x # y => Star(a, x) # Star(a, y)
BY DEF Star, Ids!Table

LEMMA StarColumn ==
  ASSUME NEW x \in 0..9, NEW a \in 0..9, NEW b \in 0..9, a # b
  PROVE  Star(a, x) # Star(b, x)
BY DEF Star, Ids!Table

LEMMA StarSwap ==
  ASSUME NEW a \in 0..9, NEW x \in 0..9, NEW y \in 0..9, x # y
  PROVE  Star(Star(a, x), y) # Star(Star(a, y), x)
BY DEF Star, Ids!Table

(* The digits between the ones of a text while its check digit is computed. *)
Interim(digits, n, f) ==
  /\ f \in [0..n -> 0..9] /\ f[0] = 0
  /\ \A k \in 1..n : f[k] = Star(f[k - 1], digits[k])

LEMMA ComputeIsInterim ==
  ASSUME NEW digits, Len(digits) \in Nat, \A k \in 1..Len(digits) : digits[k] \in 0..9
  PROVE  \E f : Interim(digits, Len(digits), f) /\ Ids!Compute(digits) = f[Len(digits)]
<1>1. PICK n \in Nat : n = Len(digits)
  OBVIOUS
<1> DEFINE Is(f) == f = [k \in 0..n |-> IF k = 0 THEN 0 ELSE Ids!Table[f[k - 1] + 1][digits[k] + 1]]
           step == [k \in 1..n |-> [index \in 0..9 |-> Star(index, digits[k])]]
<1>2. step \in [1..n -> [0..9 -> 0..9]]
  BY <1>1, StarRow
<1>3. PICK f \in [0..n -> 0..9] : f[0] = 0 /\ \A k \in 1..n : f[k] = step[k][f[k - 1]]
  <2> HIDE DEF step
  <2>1. PICK S, start : S = 0..9 /\ start = 0
    OBVIOUS
  <2>2. start \in S /\ step \in [1..n -> [S -> S]]
    BY <1>2, <2>1
  <2>3. \E f \in [0..n -> S] : f[0] = start /\ \A k \in 1..n : f[k] = step[k][f[k - 1]]
    BY <1>1, <2>2, Recursion
  <2> QED
    BY <2>1, <2>3
<1>4. Is(f)
  <2>1. ASSUME NEW k \in 1..n PROVE f[k] = Star(f[k - 1], digits[k])
    <3>1. f[k - 1] \in 0..9
      BY <1>1, <1>3
    <3> QED
      BY <1>3, <3>1
  <2>2. \A k \in 0..n : k # 0 => k \in 1..n
    BY <1>1
  <2> HIDE DEF step
  <2>3. \A k \in 0..n : f[k] = IF k = 0 THEN 0 ELSE Ids!Table[f[k - 1] + 1][digits[k] + 1]
    BY <1>3, <2>1, <2>2 DEF Star
  <2> QED
    BY <1>3, <2>3, Zenon
<1>5. PICK index : index = CHOOSE g : Is(g)
  OBVIOUS
<1>6. Is(index)
  BY <1>4, <1>5
<1>7. Ids!Compute(digits) = index[n]
  BY <1>1, <1>5, Zenon DEF Ids!Compute
<1>8. /\ index = [k \in 0..n |-> index[k]] /\ index[0] = 0
      /\ \A k \in 1..n : index[k] = Star(index[k - 1], digits[k])
  <2>1. /\ index = [k \in 0..n |-> index[k]]
        /\ \A k \in 0..n : index[k] = IF k = 0 THEN 0 ELSE Ids!Table[index[k - 1] + 1][digits[k] + 1]
    BY <1>6, Zenon
  <2>2. 0 \in 0..n /\ \A k \in 1..n : k \in 0..n /\ k # 0
    BY <1>1
  <2> QED
    BY <2>1, <2>2, Zenon DEF Star
<1>9. \A k \in 0..n : index[k] \in 0..9
  <2> DEFINE Good == {k \in 0..n : index[k] \in 0..9}
  <2>1. 0 \in Good
    BY <1>1, <1>8
  <2>2. ASSUME NEW k \in 1..n, k - 1 \in Good PROVE k \in Good
    <3>1. k \in 0..n /\ index[k - 1] \in 0..9 /\ digits[k] \in 0..9
      BY <1>1, <2>2
    <3>2. Star(index[k - 1], digits[k]) \in 0..9
      BY <3>1, StarRow
    <3> QED
      BY <1>8, <3>1, <3>2
  <2>3. \A k \in 0..n : k \in Good
    <3> HIDE DEF Good
    <3> QED
      BY <1>1, <2>1, <2>2, UpTo
  <2> QED
    BY <2>3
<1>10. index \in [0..n -> 0..9]
  BY <1>8, <1>9, ZenonT(60)
<1>11. Interim(digits, n, index)
  BY <1>8, <1>10, Zenon DEF Interim
<1> QED
  BY <1>1, <1>7, <1>11, Zenon

LEMMA InterimsAgree ==
  ASSUME NEW n \in Nat, NEW digits, NEW others, NEW f, NEW g, Interim(digits, n, f), Interim(others, n, g),
         NEW i \in 0..n, \A k \in 1..i : digits[k] = others[k]
  PROVE  f[i] = g[i]
<1> DEFINE Good == {k \in 0..n : k <= i => f[k] = g[k]}
<1>1. 0 \in Good
  BY DEF Interim
<1>2. ASSUME NEW k \in 1..n, k - 1 \in Good PROVE k \in Good
  BY <1>2 DEF Interim
<1>3. \A k \in 0..n : k \in Good
  <2> HIDE DEF Good
  <2> QED
    BY <1>1, <1>2, UpTo
<1> QED
  BY <1>3

LEMMA InterimsDiffer ==
  ASSUME NEW n \in Nat, NEW digits, NEW others, NEW f, NEW g, Interim(digits, n, f), Interim(others, n, g),
         NEW i \in 0..n, f[i] # g[i], \A k \in (i + 1)..n : digits[k] = others[k] /\ digits[k] \in 0..9
  PROVE  f[n] # g[n]
<1> DEFINE Good == {k \in 0..n : k >= i => f[k] # g[k]}
<1>1. 0 \in Good
  OBVIOUS
<1>2. ASSUME NEW k \in 1..n, k - 1 \in Good PROVE k \in Good
  <2>1. CASE k <= i
    BY <2>1
  <2>2. CASE k > i
    <3>1. f[k - 1] # g[k - 1] /\ f[k - 1] \in 0..9 /\ g[k - 1] \in 0..9 /\ k - 1 \in 0..n
      BY <1>2, <2>2 DEF Interim
    <3>2. digits[k] = others[k] /\ digits[k] \in 0..9
      BY <2>2
    <3>3. Star(f[k - 1], digits[k]) # Star(g[k - 1], digits[k])
      BY <3>1, <3>2, StarColumn
    <3> QED
      BY <3>2, <3>3 DEF Interim
  <2> QED
    BY <2>1, <2>2
<1>3. \A k \in 0..n : k \in Good
  <2> HIDE DEF Good
  <2> QED
    BY <1>1, <1>2, UpTo
<1> QED
  BY <1>3

(* The identifier of a gateway: its digits, and what is read of a text. *)
Digits == [1..Ids!TextLength -> 0..9]
Checked(digits) == digits[Ids!TextLength] = Ids!Compute(SubSeq(digits, 1, Ids!TextLength - 1))
GatewayText(digits) == digits \in Digits /\ digits[1] # 0 /\ Checked(digits)

LEMMA FunctionIsSequence ==
  ASSUME NEW S, NEW n \in Nat, NEW f \in [1..n -> S]
  PROVE  f \in Seq(S) /\ Len(f) = n
<1>1. f = [i \in 1..n |-> f[i]]
  OBVIOUS
<1>2. [i \in 1..n |-> f[i]] \in Seq(S)
  BY IsASeq
<1>3. f \in Seq(S)
  BY <1>1, <1>2, Zenon
<1>4. DOMAIN f = 1..n /\ DOMAIN f = 1..Len(f) /\ Len(f) \in Nat
  BY <1>3, LenProperties
<1> QED
  BY <1>3, <1>4

LEMMA OneElement ==
  ASSUME NEW S, NEW e \in S
  PROVE  <<e>> \in Seq(S) /\ Len(<<e>>) = 1 /\ <<e>>[1] = e
OBVIOUS

LEMMA PartOfSequence ==
  ASSUME NEW S, NEW s \in Seq(S), NEW m \in 1..Len(s), NEW n \in m..Len(s)
  PROVE  /\ SubSeq(s, m, n) \in Seq(S) /\ Len(SubSeq(s, m, n)) = n - m + 1
         /\ \A i \in 1..(n - m + 1) : SubSeq(s, m, n)[i] = s[m + i - 1]
<1>1. Len(s) \in Nat /\ \A i \in 1..Len(s) : s[i] \in S
  BY LenProperties
<1>2. m \in Int /\ n \in Int /\ m <= n /\ \A i \in m..n : s[i] \in S
  BY <1>1
<1> QED
  BY <1>2, SubSeqProperties

LEMMA DigitsAreASequence ==
  ASSUME NEW digits \in Digits
  PROVE  /\ digits \in Seq(0..9) /\ Len(digits) = 16
         /\ SubSeq(digits, 1, 15) \in Seq(0..9) /\ Len(SubSeq(digits, 1, 15)) = 15
         /\ \A k \in 1..15 : SubSeq(digits, 1, 15)[k] = digits[k]
<1>1. PICK S : S = 0..9
  OBVIOUS
<1>2. digits \in [1..16 -> S] /\ 16 \in Nat
  BY <1>1 DEF Digits, Ids!TextLength
<1>3. digits \in Seq(S) /\ Len(digits) = 16
  BY ZenonT(60), <1>2, FunctionIsSequence
<1>4. /\ SubSeq(digits, 1, 15) \in Seq(S) /\ Len(SubSeq(digits, 1, 15)) = 15 - 1 + 1
      /\ \A k \in 1..(15 - 1 + 1) : SubSeq(digits, 1, 15)[k] = digits[1 + k - 1]
  <2>1. 1 \in 1..Len(digits) /\ 15 \in 1..Len(digits)
    BY <1>3
  <2> QED
    BY <1>3, <2>1, PartOfSequence
<1> QED
  BY <1>1, <1>3, <1>4

LEMMA GatewayIsRead ==
  ASSUME NEW digits \in Digits
  PROVE  Ids!ParseGateway(digits) = IF digits[1] # 0 /\ Checked(digits) THEN {digits} ELSE {}
<1>1. Len(digits) = 16 /\ digits \in Seq(0..9)
  BY DigitsAreASequence
<1>2. CASE digits[1] # 0 /\ Checked(digits)
  <2>1. PICK data : data = SubSeq(digits, 2, 15)
    OBVIOUS
  <2>12. PICK S : S = 0..9
    OBVIOUS
  <2>2. data \in Seq(S) /\ Len(data) = 14 /\ \A k \in 1..14 : data[k] = digits[k + 1]
    <3>1. /\ data \in Seq(S) /\ Len(data) = 15 - 2 + 1
          /\ \A k \in 1..(15 - 2 + 1) : data[k] = digits[2 + k - 1]
      <4>1. digits \in Seq(S) /\ 2 \in 1..Len(digits) /\ 15 \in 2..Len(digits)
        BY <1>1, <2>12
      <4> QED
        BY <2>1, <4>1, PartOfSequence
    <3> QED
      BY <3>1
  <2>3. PICK front : front = <<digits[1]>> \o data
    OBVIOUS
  <2>4. front \in Seq(S) /\ Len(front) = 15 /\ \A k \in 1..15 : front[k] = digits[k]
    <3>1. PICK one : one = <<digits[1]>>
      OBVIOUS
    <3>2. digits[1] \in S
      BY <2>12 DEF Digits, Ids!TextLength
    <3>3. one \in Seq(S) /\ Len(one) = 1 /\ one[1] = digits[1]
      BY <3>1, <3>2, OneElement
    <3>5. front = one \o data
      BY <2>3, <3>1
    <3>4. /\ front \in Seq(S) /\ Len(front) = Len(one) + Len(data)
          /\ \A k \in 1..(Len(one) + Len(data)) :
               front[k] = IF k <= Len(one) THEN one[k] ELSE data[k - Len(one)]
      <4>1. one \in Seq(S) /\ data \in Seq(S)
        BY <2>2, <3>3
      <4> QED
        BY <3>5, <4>1, ConcatProperties
    <3> QED
      BY <2>2, <3>3, <3>4
  <2>5. front = SubSeq(digits, 1, 15)
    <3>1. PICK other : other = SubSeq(digits, 1, 15)
      OBVIOUS
    <3>2. other \in Seq(S) /\ Len(other) = 15 /\ \A k \in 1..15 : other[k] = digits[k]
      BY <2>12, <3>1, DigitsAreASequence
    <3> QED
      BY <2>4, <3>1, <3>2, SeqEqual
  <2>6. digits[16] = Ids!Compute(front)
    BY <1>2, <2>5 DEF Checked, Ids!TextLength
  <2>7. PICK whole : whole = front \o <<digits[16]>>
    OBVIOUS
  <2>8. whole \in Seq(S) /\ Len(whole) = 16 /\ \A k \in 1..16 : whole[k] = digits[k]
    <3>1. PICK one : one = <<digits[16]>>
      OBVIOUS
    <3>2. digits[16] \in S
      BY <2>12 DEF Digits, Ids!TextLength
    <3>3. one \in Seq(S) /\ Len(one) = 1 /\ one[1] = digits[16]
      BY <3>1, <3>2, OneElement
    <3>5. whole = front \o one
      BY <2>7, <3>1
    <3>4. /\ whole \in Seq(S) /\ Len(whole) = Len(front) + Len(one)
          /\ \A k \in 1..(Len(front) + Len(one)) :
               whole[k] = IF k <= Len(front) THEN front[k] ELSE one[k - Len(front)]
      <4>1. front \in Seq(S) /\ one \in Seq(S)
        BY <2>4, <3>3
      <4> QED
        BY <3>5, <4>1, ConcatProperties
    <3> QED
      BY <2>4, <3>3, <3>4
  <2>9. whole = digits
    BY <1>1, <2>8, <2>12, SeqEqual
  <2>10. Ids!GatewayDigits(digits[1], data) = whole
    BY <2>3, <2>6, <2>7 DEF Ids!GatewayDigits
  <2>11. Ids!ParseGateway(digits) = {Ids!GatewayDigits(digits[1], data)}
    BY <1>1, <1>2, <2>1 DEF Ids!ParseGateway, Checked, Ids!TextLength
  <2> QED
    BY <1>2, <2>9, <2>10, <2>11
<1>3. CASE ~(digits[1] # 0 /\ Checked(digits))
  BY <1>1, <1>3 DEF Ids!ParseGateway, Checked, Ids!TextLength
<1> QED
  BY <1>2, <1>3

LEMMA CheckIsInterim ==
  ASSUME NEW digits \in Digits
  PROVE  \E f : Interim(digits, 15, f) /\ Ids!Compute(SubSeq(digits, 1, 15)) = f[15]
<1>1. PICK front : front = SubSeq(digits, 1, 15)
  OBVIOUS
<1>2. Len(front) = 15 /\ \A k \in 1..15 : front[k] = digits[k] /\ front[k] \in 0..9
  BY <1>1, DigitsAreASequence DEF Digits, Ids!TextLength
<1>3. PICK f : Interim(front, 15, f) /\ Ids!Compute(front) = f[15]
  <2>1. Len(front) \in Nat /\ \A k \in 1..Len(front) : front[k] \in 0..9
    BY <1>2
  <2> QED
    BY <1>2, <2>1, ComputeIsInterim
<1>4. Interim(digits, 15, f)
  BY <1>2, <1>3 DEF Interim
<1> QED
  BY <1>1, <1>3, <1>4

(* What the check digit is for: one digit that is wrong, *)
LEMMA DigitIsCaught ==
  ASSUME NEW digits, GatewayText(digits), NEW others \in Digits, NEW i \in 1..16,
         others[i] # digits[i], \A k \in 1..16 : k # i => others[k] = digits[k]
  PROVE  ~Checked(others)
<1>1. digits \in Digits /\ digits[16] = Ids!Compute(SubSeq(digits, 1, 15))
  BY DEF GatewayText, Checked, Ids!TextLength
<1>2. PICK f : Interim(digits, 15, f) /\ digits[16] = f[15]
  BY <1>1, CheckIsInterim
<1>3. PICK g : Interim(others, 15, g) /\ Ids!Compute(SubSeq(others, 1, 15)) = g[15]
  BY CheckIsInterim
<1>4. \A k \in 1..16 : digits[k] \in 0..9 /\ others[k] \in 0..9
  BY <1>1 DEF Digits, Ids!TextLength
<1>5. others[16] # g[15]
  <2>1. CASE i = 16
    <3>1. f[15] = g[15]
      <4>1. \A k \in 1..15 : digits[k] = others[k]
        BY <2>1
      <4>2. 15 \in Nat /\ 15 \in 0..15
        OBVIOUS
      <4> QED
        BY <1>2, <1>3, <4>1, <4>2, InterimsAgree
    <3> QED
      BY <1>2, <2>1, <3>1
  <2>2. CASE i # 16
    <3>1. i \in 1..15 /\ i - 1 \in 0..15 /\ i \in 0..15 /\ 15 \in Nat
      BY <2>2
    <3>2. \A k \in 1..(i - 1) : digits[k] = others[k]
      BY <3>1
    <3>3. f[i - 1] = g[i - 1]
      BY <1>2, <1>3, <3>1, <3>2, InterimsAgree
    <3>4. PICK a \in 0..9 : a = f[i - 1]
      BY <1>2, <3>1 DEF Interim
    <3>5. f[i] = Star(a, digits[i]) /\ g[i] = Star(a, others[i])
      BY <1>2, <1>3, <3>1, <3>3, <3>4 DEF Interim
    <3>6. f[i] # g[i]
      BY <1>4, <3>5, StarRow
    <3>7. \A k \in (i + 1)..15 : digits[k] = others[k] /\ digits[k] \in 0..9
      BY <1>4, <3>1
    <3>8. f[15] # g[15]
      BY <1>2, <1>3, <3>1, <3>6, <3>7, InterimsDiffer
    <3> QED
      BY <1>2, <2>2, <3>8
  <2> QED
    BY <2>1, <2>2
<1> QED
  BY <1>3, <1>5 DEF Checked, Ids!TextLength

(* ... and two neighbours that are swapped, the check digit being one. *)
LEMMA SwapIsCaught ==
  ASSUME NEW digits, GatewayText(digits), NEW others \in Digits, NEW i \in 1..15,
         digits[i] # digits[i + 1], others[i] = digits[i + 1], others[i + 1] = digits[i],
         \A k \in 1..16 : k \notin {i, i + 1} => others[k] = digits[k]
  PROVE  ~Checked(others)
<1>1. digits \in Digits /\ digits[16] = Ids!Compute(SubSeq(digits, 1, 15))
  BY DEF GatewayText, Checked, Ids!TextLength
<1>2. PICK f : Interim(digits, 15, f) /\ digits[16] = f[15]
  BY <1>1, CheckIsInterim
<1>3. PICK g : Interim(others, 15, g) /\ Ids!Compute(SubSeq(others, 1, 15)) = g[15]
  BY CheckIsInterim
<1>4. \A k \in 1..16 : digits[k] \in 0..9 /\ others[k] \in 0..9
  BY <1>1 DEF Digits, Ids!TextLength
<1>5. PICK x \in 0..9, y \in 0..9 : x = digits[i] /\ y = digits[i + 1] /\ x # y
  BY <1>4
<1>6. i - 1 \in 0..15 /\ i \in 0..15 /\ 15 \in Nat /\ 15 \in 0..15
  OBVIOUS
<1>7. f[i - 1] = g[i - 1]
  <2>1. \A k \in 1..(i - 1) : digits[k] = others[k]
    OBVIOUS
  <2> QED
    BY <1>2, <1>3, <1>6, <2>1, InterimsAgree
<1>8. PICK a \in 0..9 : a = f[i - 1]
  BY <1>2, <1>6 DEF Interim
<1>9. f[i] = Star(a, x) /\ g[i] = Star(a, y)
  BY <1>2, <1>3, <1>5, <1>6, <1>7, <1>8 DEF Interim
<1>10. Star(Star(a, x), y) # Star(Star(a, y), x)
  BY <1>5, <1>8, StarSwap
<1>11. others[16] # g[15]
  <2>1. CASE i = 15
    <3>1. y = Star(a, x)
      BY <1>2, <1>5, <1>9, <2>1
    <3>2. Star(a, x) \in 0..9 /\ Star(a, y) \in 0..9
      BY <1>5, <1>8, StarRow
    <3>3. Star(Star(a, x), y) = 0
      BY <3>1, <3>2, StarRow
    <3>4. Star(a, y) # x
      BY <1>5, <1>10, <3>2, <3>3, StarRow
    <3> QED
      BY <1>5, <1>9, <2>1, <3>4
  <2>2. CASE i # 15
    <3>1. i + 1 \in 1..15 /\ i + 1 \in 0..15 /\ (i + 1) - 1 = i
      BY <2>2
    <3>2. f[i + 1] = Star(f[i], digits[i + 1]) /\ g[i + 1] = Star(g[i], others[i + 1])
      BY <1>2, <1>3, <3>1 DEF Interim
    <3>3. f[i + 1] # g[i + 1]
      BY <1>5, <1>9, <1>10, <3>2
    <3>4. PICK j \in 0..15 : j = i + 1
      BY <3>1
    <3>5. \A k \in (j + 1)..15 : digits[k] = others[k] /\ digits[k] \in 0..9
      BY <1>4, <3>4
    <3>6. f[15] # g[15]
      BY <1>2, <1>3, <1>6, <3>3, <3>4, <3>5, InterimsDiffer
    <3>7. others[16] = digits[16]
      BY <2>2
    <3> QED
      BY <1>2, <3>6, <3>7
  <2> QED
    BY <2>1, <2>2
<1> QED
  BY <1>3, <1>11 DEF Checked, Ids!TextLength

-----------------------------------------------------------------------------
(* Hexadecimal numbers: what is printed without leading zeros is read back *)
(* with as many bytes as there is room for.                                *)
LEMMA FirstIsLeast ==
  ASSUME NEW n \in Nat, NEW places, places \subseteq 1..n, places # {}
  PROVE  Ids!First(places) \in places /\ \A j \in places : Ids!First(places) <= j
<1> DEFINE Good == {k \in 0..n : (\A j \in places : j > k) \/ \E i \in places : \A j \in places : i <= j}
<1>1. 0 \in Good
  OBVIOUS
<1>2. ASSUME NEW k \in 1..n, k - 1 \in Good PROVE k \in Good
  <2>1. CASE k \in places /\ \A j \in places : j > k - 1
    BY <2>1
  <2>2. CASE k \notin places \/ ~ \A j \in places : j > k - 1
    BY <1>2, <2>2
  <2> QED
    BY <2>1, <2>2
<1>3. \A k \in 0..n : k \in Good
  <2> HIDE DEF Good
  <2> QED
    BY <1>1, <1>2, UpTo
<1>4. \E i \in places : \A j \in places : i <= j
  <2>1. n \in Good
    <3> HIDE DEF Good
    <3> QED
      BY <1>3
  <2>2. PICK p \in places : p \in 1..n
    OBVIOUS
  <2> QED
    BY <2>1, <2>2
<1> QED
  BY <1>4 DEF Ids!First

HexDigit(bytes, i) == IF i % 2 = 1 THEN bytes[(i + 1) \div 2] \div 16 ELSE bytes[i \div 2] % 16

LEMMA TwoDigits ==
  ASSUME NEW byte \in 0..255
  PROVE  byte \div 16 \in 0..15 /\ byte % 16 \in 0..15 /\ 16 * (byte \div 16) + (byte % 16) = byte
<1>1. byte \div 16 \in 0..15
  OBVIOUS
<1>2. byte % 16 \in 0..15
  OBVIOUS
<1>3. 16 * (byte \div 16) + (byte % 16) = byte
  OBVIOUS
<1> QED
  BY <1>1, <1>2, <1>3

LEMMA HexDigits ==
  ASSUME NEW n \in Nat \ {0}, NEW bytes, Len(bytes) = n, \A i \in 1..n : bytes[i] \in 0..255
  PROVE  /\ Len(Ids!Hex(bytes)) \in 1..(2 * n)
         /\ \A i \in 1..(2 * n) :
              HexDigit(bytes, i) = IF i > 2 * n - Len(Ids!Hex(bytes))
                                   THEN Ids!Hex(bytes)[i - (2 * n - Len(Ids!Hex(bytes)))] ELSE 0
<1>1. PICK digits : digits = [i \in 1..(2 * n) |-> HexDigit(bytes, i)]
  OBVIOUS
<1>2. PICK places : places = {i \in DOMAIN digits : digits[i] # 0}
  OBVIOUS
<1>3. Ids!Hex(bytes) = IF places = {} THEN <<0>> ELSE SubSeq(digits, Ids!First(places), Len(digits))
  BY <1>1, <1>2, Zenon DEF Ids!Hex, HexDigit
<1>4. PICK S : S = 0..15
  OBVIOUS
<1>5. digits \in [1..(2 * n) -> S]
  <2>1. ASSUME NEW i \in 1..(2 * n) PROVE HexDigit(bytes, i) \in S
    <3>1. CASE i % 2 = 1
      <4>1. (i + 1) \div 2 \in 1..n
        BY <3>1
      <4>2. bytes[(i + 1) \div 2] \div 16 \in 0..15
        BY <4>1, TwoDigits
      <4> QED
        BY <1>4, <3>1, <4>2 DEF HexDigit
    <3>2. CASE i % 2 # 1
      <4>1. i \div 2 \in 1..n
        BY <3>2
      <4>2. bytes[i \div 2] % 16 \in 0..15
        BY <4>1, TwoDigits
      <4> QED
        BY <1>4, <3>2, <4>2 DEF HexDigit
    <3> QED
      BY <3>1, <3>2
  <2> QED
    BY <1>1, <2>1
<1>6. digits \in Seq(S) /\ Len(digits) = 2 * n /\ DOMAIN digits = 1..(2 * n)
  BY <1>5, FunctionIsSequence
<1>7. CASE places = {}
  <2>1. Ids!Hex(bytes) = <<0>>
    BY <1>3, <1>7
  <2>2. Len(<<0>>) = 1 /\ <<0>>[1] = 0
    OBVIOUS
  <2>3. \A i \in 1..(2 * n) : digits[i] = 0
    BY <1>2, <1>6, <1>7
  <2>4. \A i \in 1..(2 * n) : HexDigit(bytes, i) = 0
    BY <1>1, <2>3
  <2>5. \A i \in 1..(2 * n) : i > 2 * n - 1 => i - (2 * n - 1) = 1
    OBVIOUS
  <2>6. 1 \in 1..(2 * n)
    OBVIOUS
  <2> QED
    BY <2>1, <2>2, <2>4, <2>5, <2>6
<1>8. CASE places # {}
  <2>1. PICK first : first = Ids!First(places)
    OBVIOUS
  <2>2. first \in 1..(2 * n) /\ \A i \in 1..(2 * n) : i < first => digits[i] = 0
    <3>1. 2 * n \in Nat /\ places \subseteq 1..(2 * n)
      BY <1>2, <1>6
    <3>2. first \in places /\ \A j \in places : first <= j
      BY <1>8, <2>1, <3>1, FirstIsLeast
    <3> QED
      BY <1>2, <1>6, <3>1, <3>2
  <2>3. PICK shown : shown = SubSeq(digits, first, Len(digits))
    OBVIOUS
  <2>4. /\ Len(shown) = 2 * n - first + 1
        /\ \A i \in 1..(2 * n - first + 1) : shown[i] = digits[first + i - 1]
    <3>1. first \in 1..Len(digits) /\ Len(digits) \in first..Len(digits)
      BY <1>6, <2>2
    <3>2. /\ Len(shown) = Len(digits) - first + 1
          /\ \A i \in 1..(Len(digits) - first + 1) : shown[i] = digits[first + i - 1]
      BY <1>6, <2>3, <3>1, PartOfSequence
    <3> QED
      BY <1>6, <3>2
  <2>5. Ids!Hex(bytes) = shown
    BY <1>3, <1>8, <2>1, <2>3
  <2>6. ASSUME NEW i \in 1..(2 * n)
        PROVE  digits[i] = IF i > 2 * n - Len(shown) THEN shown[i - (2 * n - Len(shown))] ELSE 0
    <3>1. CASE i < first
      BY <2>2, <2>4, <3>1
    <3>2. CASE i >= first
      <4>1. i - (first - 1) \in 1..(2 * n - first + 1) /\ first + (i - (first - 1)) - 1 = i
        BY <2>2, <3>2
      <4>2. shown[i - (first - 1)] = digits[i]
        BY <2>4, <4>1
      <4>3. 2 * n - Len(shown) = first - 1 /\ i > first - 1
        BY <2>2, <2>4, <3>2
      <4> QED
        BY <4>2, <4>3
    <3> QED
      BY <2>2, <3>1, <3>2
  <2>7. \A i \in 1..(2 * n) : HexDigit(bytes, i) = digits[i]
    BY <1>1
  <2> QED
    BY <2>2, <2>4, <2>5, <2>6, <2>7
<1> QED
  BY <1>7, <1>8

(* The same number in n bytes and in m, which may be more. *)
Widened(bytes, n, wide, m) ==
  /\ Len(bytes) = n /\ (\A i \in 1..n : bytes[i] \in 0..255) /\ m >= n
  /\ wide = [i \in 1..m |-> wide[i]]
  /\ \A i \in 1..m : wide[i] = IF i > m - n THEN bytes[i - (m - n)] ELSE 0

HexReadAs(shown, n, wide, m) == Len(shown) \in 1..(2 * n) /\ Ids!FromHex(shown, m) = wide

LEMMA HexIsRead ==
  ASSUME NEW n \in Nat \ {0}, NEW m \in Nat, NEW bytes, NEW wide, Widened(bytes, n, wide, m)
  PROVE  HexReadAs(Ids!Hex(bytes), n, wide, m)
<1>7. /\ Len(bytes) = n /\ (\A i \in 1..n : bytes[i] \in 0..255) /\ m >= n
      /\ wide = [i \in 1..m |-> wide[i]]
      /\ \A i \in 1..m : wide[i] = IF i > m - n THEN bytes[i - (m - n)] ELSE 0
  BY DEF Widened
<1>1. PICK shown, length : shown = Ids!Hex(bytes) /\ length = Len(shown)
  OBVIOUS
<1>2. /\ length \in 1..(2 * n)
      /\ \A i \in 1..(2 * n) :
           HexDigit(bytes, i) = IF i > 2 * n - length THEN shown[i - (2 * n - length)] ELSE 0
  BY <1>1, <1>7, HexDigits
<1> DEFINE At(i) == IF i > 2 * m - length THEN shown[i - (2 * m - length)] ELSE 0
<1>3. Ids!FromHex(shown, m) = [i \in 1..m |-> 16 * At(2 * i - 1) + At(2 * i)]
  BY <1>1, Zenon DEF Ids!FromHex
<1>4. ASSUME NEW i \in 1..(2 * m)
      PROVE  At(i) = IF i > 2 * m - 2 * n THEN HexDigit(bytes, i - (2 * m - 2 * n)) ELSE 0
  <2>1. CASE i > 2 * m - 2 * n
    <3>1. PICK j \in 1..(2 * n) : j = i - (2 * m - 2 * n)
      BY <2>1
    <3>2. i - (2 * m - length) = j - (2 * n - length) /\ (i > 2 * m - length <=> j > 2 * n - length)
      BY <1>2, <3>1
    <3> QED
      BY <1>2, <2>1, <3>1, <3>2
  <2>2. CASE ~(i > 2 * m - 2 * n)
    BY <1>2, <1>7, <2>2
  <2> QED
    BY <2>1, <2>2
<1>5. ASSUME NEW i \in 1..m
      PROVE  16 * At(2 * i - 1) + At(2 * i) = IF i > m - n THEN bytes[i - (m - n)] ELSE 0
  <2>1. 2 * i - 1 \in 1..(2 * m) /\ 2 * i \in 1..(2 * m)
    OBVIOUS
  <2>2. CASE i > m - n
    <3>1. PICK j \in 1..n : j = i - (m - n)
      BY <1>7, <2>2
    <3>2. (2 * i - 1) - (2 * m - 2 * n) = 2 * j - 1 /\ 2 * i - (2 * m - 2 * n) = 2 * j
      BY <3>1
    <3>3. At(2 * i - 1) = HexDigit(bytes, 2 * j - 1) /\ At(2 * i) = HexDigit(bytes, 2 * j)
      <4> HIDE DEF At
      <4>1. 2 * i - 1 > 2 * m - 2 * n /\ 2 * i > 2 * m - 2 * n
        BY <2>2
      <4>2. At(2 * i - 1) = HexDigit(bytes, (2 * i - 1) - (2 * m - 2 * n))
        BY <1>4, <2>1, <4>1
      <4>3. At(2 * i) = HexDigit(bytes, 2 * i - (2 * m - 2 * n))
        BY <1>4, <2>1, <4>1
      <4> QED
        BY <3>2, <4>2, <4>3
    <3>4. (2 * j - 1) % 2 = 1 /\ ((2 * j - 1) + 1) \div 2 = j /\ (2 * j) % 2 = 0 /\ (2 * j) \div 2 = j
      OBVIOUS
    <3>5. HexDigit(bytes, 2 * j - 1) = bytes[j] \div 16 /\ HexDigit(bytes, 2 * j) = bytes[j] % 16
      BY <3>4 DEF HexDigit
    <3>6. PICK byte \in 0..255 : byte = bytes[j]
      BY <1>7
    <3>7. 16 * (byte \div 16) + (byte % 16) = byte
      BY TwoDigits
    <3> HIDE DEF At
    <3> QED
      BY <2>2, <3>1, <3>3, <3>5, <3>6, <3>7
  <2>3. CASE ~(i > m - n)
    <3>1. At(2 * i - 1) = 0 /\ At(2 * i) = 0
      <4>1. ~(2 * i - 1 > 2 * m - 2 * n) /\ ~(2 * i > 2 * m - 2 * n)
        BY <2>3
      <4> HIDE DEF At
      <4> QED
        BY <1>4, <2>1, <4>1
    <3> HIDE DEF At
    <3> QED
      BY <2>3, <3>1
  <2> QED
    BY <2>2, <2>3
<1>6. Ids!FromHex(shown, m) = wide
  <2> HIDE DEF At
  <2>1. \A i \in 1..m : 16 * At(2 * i - 1) + At(2 * i) = wide[i]
    BY <1>5, <1>7, Zenon
  <2> QED
    BY <1>3, <1>7, <2>1, Zenon
<1> QED
  BY <1>1, <1>2, <1>6 DEF HexReadAs

-----------------------------------------------------------------------------
(* Base64: what is encoded, group by group, is decoded as the same bytes. *)
LEMMA FourCharacters ==
  ASSUME NEW bits \in Nat, bits <= 16777215
  PROVE  262144 * ((bits \div 262144) % 64) + 4096 * ((bits \div 4096) % 64)
           + 64 * ((bits \div 64) % 64) + ((bits \div 1) % 64) = bits
<1>1. PICK q1 \in Nat, r1 \in 0..63 : q1 = bits \div 64 /\ r1 = bits % 64
  BY SMT
<1>2. PICK q2 \in Nat, r2 \in 0..63 : q2 = q1 \div 64 /\ r2 = q1 % 64
  BY SMT
<1>3. PICK q3 \in Nat, r3 \in 0..63 : q3 = q2 \div 64 /\ r3 = q2 % 64
  BY SMT
<1>4. bits = 64 * q1 + r1 /\ q1 = 64 * q2 + r2 /\ q2 = 64 * q3 + r3
  BY <1>1, <1>2, <1>3, SMT
<1>5. q2 = bits \div 4096 /\ q3 = bits \div 262144 /\ bits \div 1 = bits
  BY <1>4, SMT
<1>6. q3 \in 0..63
  BY <1>4, SMT
<1>7. q3 % 64 = q3
  BY <1>6, SMT
<1> QED
  BY <1>1, <1>2, <1>3, <1>4, <1>5, <1>7, SMT

Word(a, b, c) == 65536 * a + 256 * b + c

ThreeIn(word, a, b, c) ==
  /\ word \in Nat /\ word <= 16777215
  /\ (word \div 65536) % 256 = a /\ (word \div 256) % 256 = b /\ (word \div 1) % 256 = c
  /\ c = 0 => (word \div 1) % 64 = 0
  /\ b = 0 /\ c = 0 => (word \div 64) % 64 = 0

LEMMA ThreeBytes ==
  ASSUME NEW a \in 0..255, NEW b \in 0..255, NEW c \in 0..255
  PROVE  ThreeIn(Word(a, b, c), a, b, c)
<1> DEFINE bits == 65536 * a + 256 * b + c
<1>1. bits \in Nat /\ bits <= 16777215
  BY SMT
<1>2. (bits \div 65536) % 256 = a
  BY SMT
<1>3. (bits \div 256) % 256 = b
  <2>1. bits \div 256 = 256 * a + b
    BY SMT
  <2>2. (256 * a + b) % 256 = b
    BY SMT
  <2> QED
    BY <2>1, <2>2, SMT
<1>4. (bits \div 1) % 256 = c
  BY SMT
<1>5. c = 0 => (bits \div 1) % 64 = 0
  BY SMT
<1>6. b = 0 /\ c = 0 => (bits \div 64) % 64 = 0
  BY SMT
<1> QED
  BY <1>1, <1>2, <1>3, <1>4, <1>5, <1>6, SMT DEF Word, ThreeIn

ByteAt(bytes, i) == IF i \in DOMAIN bytes THEN bytes[i] ELSE 0
BitsOf(bytes, group) ==
  Word(ByteAt(bytes, 3 * group + 1), ByteAt(bytes, 3 * group + 2), ByteAt(bytes, 3 * group + 3))
Bytes == Seq(0..255) \ {<<>>}
Groups(bytes) == (Len(bytes) + 2) \div 3

LEMMA GroupOfBytes ==
  ASSUME NEW bytes \in Bytes, NEW group \in Nat
  PROVE  /\ ByteAt(bytes, 3 * group + 1) \in 0..255 /\ ByteAt(bytes, 3 * group + 2) \in 0..255
         /\ ByteAt(bytes, 3 * group + 3) \in 0..255 /\ BitsOf(bytes, group) \in Nat
<1>1. \A i \in DOMAIN bytes : bytes[i] \in 0..255
  <2>1. PICK S : S = 0..255
    OBVIOUS
  <2>2. bytes \in Seq(S)
    BY <2>1, Zenon DEF Bytes
  <2>3. \A i \in DOMAIN bytes : bytes[i] \in S
    BY <2>2, LenProperties
  <2> QED
    BY <2>1, <2>3, Zenon
<1>2. \A i \in Nat : ByteAt(bytes, i) \in 0..255
  BY <1>1 DEF ByteAt
<1>3. /\ ByteAt(bytes, 3 * group + 1) \in 0..255 /\ ByteAt(bytes, 3 * group + 2) \in 0..255
      /\ ByteAt(bytes, 3 * group + 3) \in 0..255
  BY <1>2
<1>4. PICK a \in 0..255, b \in 0..255, c \in 0..255 :
        /\ a = ByteAt(bytes, 3 * group + 1) /\ b = ByteAt(bytes, 3 * group + 2)
        /\ c = ByteAt(bytes, 3 * group + 3)
  BY <1>3
<1>5. Word(a, b, c) \in Nat
  BY SMT DEF Word
<1>6. BitsOf(bytes, group) = Word(a, b, c)
  BY <1>4 DEF BitsOf
<1> QED
  BY <1>3, <1>5, <1>6

CharacterAt(bytes, group, place) ==
  IF 3 * group + place > Len(bytes) THEN Ids!Pad ELSE (BitsOf(bytes, group) \div Ids!Weight64[place + 1]) % 64

LEMMA LengthOfBytes ==
  ASSUME NEW bytes \in Bytes
  PROVE  /\ Len(bytes) \in Nat \ {0} /\ DOMAIN bytes = 1..Len(bytes) /\ bytes \in Seq(0..255)
         /\ Groups(bytes) \in Nat \ {0}
         /\ 3 * (Groups(bytes) - 1) < Len(bytes) /\ Len(bytes) <= 3 * Groups(bytes)
<1>1. Len(bytes) \in Nat \ {0} /\ DOMAIN bytes = 1..Len(bytes) /\ bytes \in Seq(0..255)
  BY LenProperties, EmptySeq DEF Bytes
<1>2. PICK n \in Nat \ {0} : n = Len(bytes)
  BY <1>1
<1>3. /\ (n + 2) \div 3 \in Nat \ {0}
      /\ 3 * (((n + 2) \div 3) - 1) < n /\ n <= 3 * ((n + 2) \div 3)
  OBVIOUS
<1> QED
  BY <1>1, <1>2, <1>3 DEF Groups

LEMMA Encoded ==
  ASSUME NEW bytes \in Bytes
  PROVE  /\ Ids!Encode(bytes) \in Seq(0..64) /\ Len(Ids!Encode(bytes)) = 4 * Groups(bytes)
         /\ \A group \in 0..(Groups(bytes) - 1), place \in 0..3 :
              Ids!Encode(bytes)[4 * group + place + 1] = CharacterAt(bytes, group, place)
<1>1. PICK groups \in Nat \ {0} : groups = Groups(bytes)
  BY LengthOfBytes
<1>2. Ids!Encode(bytes) = [i \in 1..(4 * groups) |-> CharacterAt(bytes, (i - 1) \div 4, (i - 1) % 4)]
  BY <1>1, SMT DEF Ids!Encode, CharacterAt, BitsOf, ByteAt, Groups, Word
<1>3. ASSUME NEW group \in Nat, NEW place \in 0..3 PROVE CharacterAt(bytes, group, place) \in 0..64
  <2>1. Ids!Weight64[place + 1] \in {262144, 4096, 64, 1}
    BY SMT DEF Ids!Weight64
  <2>2. PICK weight \in Nat \ {0} : weight = Ids!Weight64[place + 1]
    BY <2>1, SMT
  <2>3. PICK bits \in Nat : bits = BitsOf(bytes, group)
    BY GroupOfBytes
  <2>4. (bits \div weight) % 64 \in 0..63
    BY SMT
  <2> QED
    BY <2>2, <2>3, <2>4, SMT DEF CharacterAt, Ids!Pad
<1>4. PICK S : S = 0..64
  OBVIOUS
<1>5. Ids!Encode(bytes) \in [1..(4 * groups) -> S]
  <2>1. \A i \in 1..(4 * groups) : (i - 1) \div 4 \in Nat /\ (i - 1) % 4 \in 0..3
    OBVIOUS
  <2>2. \A i \in 1..(4 * groups) : CharacterAt(bytes, (i - 1) \div 4, (i - 1) % 4) \in S
    BY <1>3, <1>4, <2>1
  <2> QED
    BY <1>2, <2>2
<1>6. Ids!Encode(bytes) \in Seq(S) /\ Len(Ids!Encode(bytes)) = 4 * groups
  <2>1. 4 * groups \in Nat
    OBVIOUS
  <2> QED
    BY <1>5, <2>1, FunctionIsSequence
<1>7. ASSUME NEW group \in 0..(groups - 1), NEW place \in 0..3
      PROVE  Ids!Encode(bytes)[4 * group + place + 1] = CharacterAt(bytes, group, place)
  <2>1. PICK i \in 1..(4 * groups) : i = 4 * group + place + 1
    OBVIOUS
  <2>2. (i - 1) \div 4 = group /\ (i - 1) % 4 = place
    BY <2>1
  <2> QED
    BY <1>2, <2>1, <2>2
<1> QED
  BY <1>1, <1>4, <1>6, <1>7

(* The characters of a group that are not pads are its bits. *)
CharacterValue(character) == IF character = Ids!Pad THEN 0 ELSE character

LEMMA BitsAreDecoded ==
  ASSUME NEW bytes \in Bytes, NEW group \in 0..(Groups(bytes) - 1)
  PROVE  262144 * CharacterValue(CharacterAt(bytes, group, 0)) + 4096 * CharacterValue(CharacterAt(bytes, group, 1))
           + 64 * CharacterValue(CharacterAt(bytes, group, 2)) + CharacterValue(CharacterAt(bytes, group, 3))
         = BitsOf(bytes, group)
<1>1. group \in Nat /\ 3 * group < Len(bytes) /\ Len(bytes) \in Nat /\ DOMAIN bytes = 1..Len(bytes)
  BY LengthOfBytes
<1>2. PICK a \in 0..255, b \in 0..255, c \in 0..255 :
        /\ a = ByteAt(bytes, 3 * group + 1) /\ b = ByteAt(bytes, 3 * group + 2)
        /\ c = ByteAt(bytes, 3 * group + 3)
  BY <1>1, GroupOfBytes
<1>4. PICK word : word = Word(a, b, c)
  OBVIOUS
<1>3. ThreeIn(word, a, b, c)
  BY <1>4, ThreeBytes
<1>5. /\ word \in Nat /\ word <= 16777215
      /\ (c = 0 => (word \div 1) % 64 = 0) /\ (b = 0 /\ c = 0 => (word \div 64) % 64 = 0)
  BY <1>3, SMT DEF ThreeIn
<1>13. PICK bits \in Nat : bits = word
  BY <1>5
<1>12. bits = BitsOf(bytes, group)
  BY <1>2, <1>4, <1>13, SMT DEF BitsOf
<1>6. /\ (bits \div 262144) % 64 \in 0..63 /\ (bits \div 4096) % 64 \in 0..63
      /\ (bits \div 64) % 64 \in 0..63 /\ (bits \div 1) % 64 \in 0..63
  BY SMT
<1>7. /\ 3 * group + 2 > Len(bytes) => b = 0 /\ c = 0
      /\ 3 * group + 3 > Len(bytes) => c = 0
  BY <1>1, <1>2 DEF ByteAt
<1>8. CharacterValue(CharacterAt(bytes, group, 0)) = (bits \div 262144) % 64
  BY <1>1, <1>6, <1>12, SMT DEF CharacterValue, CharacterAt, Ids!Pad, Ids!Weight64
<1>9. CharacterValue(CharacterAt(bytes, group, 1)) = (bits \div 4096) % 64
  BY <1>1, <1>6, <1>12, SMT DEF CharacterValue, CharacterAt, Ids!Pad, Ids!Weight64
<1>10. CharacterValue(CharacterAt(bytes, group, 2)) = (bits \div 64) % 64
  BY <1>1, <1>5, <1>6, <1>7, <1>12, <1>13, SMT DEF CharacterValue, CharacterAt, Ids!Pad, Ids!Weight64
<1>11. CharacterValue(CharacterAt(bytes, group, 3)) = (bits \div 1) % 64
  BY <1>1, <1>5, <1>6, <1>7, <1>12, <1>13, SMT DEF CharacterValue, CharacterAt, Ids!Pad, Ids!Weight64
<1> QED
  BY <1>5, <1>8, <1>9, <1>10, <1>11, <1>12, <1>13, FourCharacters, SMT

LEMMA ByteIsDecoded ==
  ASSUME NEW bytes \in Bytes, NEW group \in Nat, NEW place \in 0..2
  PROVE  (BitsOf(bytes, group) \div Ids!Weight256[place + 1]) % 256 = ByteAt(bytes, 3 * group + place + 1)
<1>1. PICK a \in 0..255, b \in 0..255, c \in 0..255 :
        /\ a = ByteAt(bytes, 3 * group + 1) /\ b = ByteAt(bytes, 3 * group + 2)
        /\ c = ByteAt(bytes, 3 * group + 3)
  BY GroupOfBytes
<1>2. PICK word : word = Word(a, b, c)
  OBVIOUS
<1>3. BitsOf(bytes, group) = word
  BY <1>1, <1>2 DEF BitsOf
<1>8. ThreeIn(word, a, b, c)
  BY <1>2, ThreeBytes
<1>4. /\ (word \div 65536) % 256 = a /\ (word \div 256) % 256 = b /\ (word \div 1) % 256 = c
  BY <1>8, SMT DEF ThreeIn
<1>5. CASE place = 0
  <2>1. Ids!Weight256[place + 1] = 65536 /\ 3 * group + place + 1 = 3 * group + 1
    BY <1>5, SMT DEF Ids!Weight256
  <2> QED
    BY <1>1, <1>3, <1>4, <2>1, SMT
<1>6. CASE place = 1
  <2>1. Ids!Weight256[place + 1] = 256 /\ 3 * group + place + 1 = 3 * group + 2
    BY <1>6, SMT DEF Ids!Weight256
  <2> QED
    BY <1>1, <1>3, <1>4, <2>1, SMT
<1>7. CASE place = 2
  <2>1. Ids!Weight256[place + 1] = 1 /\ 3 * group + place + 1 = 3 * group + 3
    BY <1>7, SMT DEF Ids!Weight256
  <2> QED
    BY <1>1, <1>3, <1>4, <2>1, SMT
<1> QED
  BY <1>5, <1>6, <1>7

LEMMA PadsOfBytes ==
  ASSUME NEW bytes \in Bytes
  PROVE  3 * (Len(Ids!Encode(bytes)) \div 4) - Ids!Pads(Ids!Encode(bytes)) = Len(bytes)
<1>1. PICK n \in Nat \ {0}, groups \in Nat \ {0} : n = Len(bytes) /\ groups = Groups(bytes)
  BY LengthOfBytes
<1>2. 3 * (groups - 1) < n /\ n <= 3 * groups
  BY <1>1, LengthOfBytes
<1>3. PICK characters : characters = Ids!Encode(bytes)
  OBVIOUS
<1>4. Len(characters) = 4 * groups
  BY <1>1, <1>3, Encoded
<1>5. groups - 1 \in 0..(groups - 1) /\ groups - 1 \in Nat
  OBVIOUS
<1>6. /\ characters[4 * (groups - 1) + 2 + 1] = CharacterAt(bytes, groups - 1, 2)
      /\ characters[4 * (groups - 1) + 3 + 1] = CharacterAt(bytes, groups - 1, 3)
  <2>1. 2 \in 0..3 /\ 3 \in 0..3
    OBVIOUS
  <2> QED
    BY <1>1, <1>3, <1>5, <2>1, Encoded
<1>7. PICK bits \in Nat : bits = BitsOf(bytes, groups - 1)
  BY <1>5, GroupOfBytes
<1>8. (bits \div 64) % 64 \in 0..63 /\ (bits \div 1) % 64 \in 0..63
  BY SMT
<1>9. /\ CharacterAt(bytes, groups - 1, 2) = Ids!Pad <=> 3 * (groups - 1) + 2 > n
      /\ CharacterAt(bytes, groups - 1, 3) = Ids!Pad <=> 3 * (groups - 1) + 3 > n
  BY <1>1, <1>7, <1>8, SMT DEF CharacterAt, Ids!Pad, Ids!Weight64
<1>10. /\ 4 * (groups - 1) + 2 + 1 = Len(characters) - 1 /\ 4 * (groups - 1) + 3 + 1 = Len(characters)
       /\ Len(characters) \div 4 = groups
  BY <1>4
<1>11. /\ characters[Len(characters) - 1] = Ids!Pad <=> n < 3 * groups - 1
       /\ characters[Len(characters)] = Ids!Pad <=> n < 3 * groups
  <2>1. /\ 3 * (groups - 1) + 2 > n <=> n < 3 * groups - 1
        /\ 3 * (groups - 1) + 3 > n <=> n < 3 * groups
    OBVIOUS
  <2> QED
    BY <1>6, <1>9, <1>10, <2>1, Zenon
<1>12. Ids!Pads(characters) = IF n < 3 * groups - 1 THEN 2 ELSE IF n < 3 * groups THEN 1 ELSE 0
  BY <1>11 DEF Ids!Pads
<1>13. 3 * groups - Ids!Pads(characters) = n
  BY <1>2, <1>12
<1> QED
  BY <1>1, <1>3, <1>10, <1>13

LEMMA Decoded ==
  ASSUME NEW bytes \in Bytes
  PROVE  Ids!Decode(Ids!Encode(bytes)) = bytes
<1>1. PICK n \in Nat \ {0}, groups \in Nat \ {0} : n = Len(bytes) /\ groups = Groups(bytes)
  BY LengthOfBytes
<1>2. n <= 3 * groups /\ bytes \in Seq(0..255) /\ DOMAIN bytes = 1..n
  BY <1>1, LengthOfBytes
<1>3. PICK characters : characters = Ids!Encode(bytes)
  OBVIOUS
<1> DEFINE At(i) == IF characters[i] = Ids!Pad THEN 0 ELSE characters[i]
           Bits(group) == 262144 * At(4 * group + 1) + 4096 * At(4 * group + 2) + 64 * At(4 * group + 3) + At(4 * group + 4)
<1>4. ASSUME NEW group \in 0..(groups - 1) PROVE Bits(group) = BitsOf(bytes, group)
  <2>1. 0 \in 0..3 /\ 1 \in 0..3 /\ 2 \in 0..3 /\ 3 \in 0..3
    OBVIOUS
  <2>2. /\ characters[4 * group + 0 + 1] = CharacterAt(bytes, group, 0)
        /\ characters[4 * group + 1 + 1] = CharacterAt(bytes, group, 1)
        /\ characters[4 * group + 2 + 1] = CharacterAt(bytes, group, 2)
        /\ characters[4 * group + 3 + 1] = CharacterAt(bytes, group, 3)
    BY <1>1, <1>3, <2>1, Encoded
  <2>3. /\ 4 * group + 0 + 1 = 4 * group + 1 /\ 4 * group + 1 + 1 = 4 * group + 2
        /\ 4 * group + 2 + 1 = 4 * group + 3 /\ 4 * group + 3 + 1 = 4 * group + 4
    OBVIOUS
  <2>4. /\ At(4 * group + 1) = CharacterValue(CharacterAt(bytes, group, 0))
        /\ At(4 * group + 2) = CharacterValue(CharacterAt(bytes, group, 1))
        /\ At(4 * group + 3) = CharacterValue(CharacterAt(bytes, group, 2))
        /\ At(4 * group + 4) = CharacterValue(CharacterAt(bytes, group, 3))
    BY <2>2, <2>3, SMT DEF CharacterValue
  <2>5. 262144 * CharacterValue(CharacterAt(bytes, group, 0)) + 4096 * CharacterValue(CharacterAt(bytes, group, 1))
           + 64 * CharacterValue(CharacterAt(bytes, group, 2)) + CharacterValue(CharacterAt(bytes, group, 3))
         = BitsOf(bytes, group)
    BY <1>1, BitsAreDecoded, SMT
  <2> HIDE DEF At
  <2> QED
    BY <2>4, <2>5, SMT
<1>5. Ids!Decode(characters)
        = [i \in 1..n |-> (Bits((i - 1) \div 3) \div Ids!Weight256[((i - 1) % 3) + 1]) % 256]
  <2>1. 3 * (Len(characters) \div 4) - Ids!Pads(characters) = n
    BY <1>1, <1>3, PadsOfBytes
  <2> QED
    BY <2>1, SMT DEF Ids!Decode
<1> HIDE DEF At, Bits
<1>6. ASSUME NEW i \in 1..n PROVE Ids!Decode(characters)[i] = bytes[i]
  <2>1. PICK group \in 0..(groups - 1), place \in 0..2 : group = (i - 1) \div 3 /\ place = (i - 1) % 3
    BY <1>2
  <2>2. 3 * group + place + 1 = i /\ group \in Nat
    BY <2>1
  <2>3. Ids!Decode(characters)[i] = (Bits(group) \div Ids!Weight256[place + 1]) % 256
    BY <1>5, <2>1
  <2>4. Ids!Decode(characters)[i] = (BitsOf(bytes, group) \div Ids!Weight256[place + 1]) % 256
    BY <1>4, <2>1, <2>3
  <2>5. Ids!Decode(characters)[i] = ByteAt(bytes, 3 * group + place + 1)
    BY ZenonT(60), <2>2, <2>4, ByteIsDecoded
  <2> QED
    BY <1>2, <2>2, <2>5 DEF ByteAt
<1>7. Ids!Decode(characters) = bytes
  <2>1. Ids!Decode(characters) = [i \in 1..n |-> Ids!Decode(characters)[i]]
    BY <1>5, SMT
  <2>2. bytes = [i \in 1..n |-> bytes[i]]
    BY <1>2
  <2> QED
    BY <1>6, <2>1, <2>2
<1> QED
  BY <1>3, <1>7

LEMMA PrefixGrows ==
  ASSUME NEW S, NEW s \in Seq(S), NEW m \in Nat, m < Len(s)
  PROVE  Append(SubSeq(s, 1, m), s[m + 1]) = SubSeq(s, 1, m + 1)
<1>1. Len(s) \in Nat /\ \A i \in 1..Len(s) : s[i] \in S
  BY LenProperties
<1>2. s[m + 1] \in S /\ m \in Int /\ m + 1 \in Int
  BY <1>1
<1>3. PICK a, b, e : a = SubSeq(s, 1, m) /\ b = SubSeq(s, 1, m + 1) /\ e = s[m + 1]
  OBVIOUS
<1>4. a \in Seq(S) /\ Len(a) = m /\ \A i \in 1..m : a[i] = s[i]
  <2>1. \A i \in 1..m : s[i] \in S
    BY <1>1
  <2>2. /\ SubSeq(s, 1, m) \in Seq(S)
        /\ Len(SubSeq(s, 1, m)) = IF 1 <= m THEN m - 1 + 1 ELSE 0
        /\ \A i \in 1..(m - 1 + 1) : SubSeq(s, 1, m)[i] = s[1 + i - 1]
    BY <1>2, <2>1, SubSeqProperties
  <2> QED
    BY <1>3, <2>2
<1>5. b \in Seq(S) /\ Len(b) = m + 1 /\ \A i \in 1..(m + 1) : b[i] = s[i]
  <2>1. \A i \in 1..(m + 1) : s[i] \in S
    BY <1>1
  <2>2. /\ SubSeq(s, 1, m + 1) \in Seq(S)
        /\ Len(SubSeq(s, 1, m + 1)) = IF 1 <= m + 1 THEN (m + 1) - 1 + 1 ELSE 0
        /\ \A i \in 1..((m + 1) - 1 + 1) : SubSeq(s, 1, m + 1)[i] = s[1 + i - 1]
    BY <1>2, <2>1, SubSeqProperties
  <2> QED
    BY <1>3, <2>2
<1>6. PICK d : d = Append(a, e)
  OBVIOUS
<1>7. d \in Seq(S) /\ Len(d) = m + 1 /\ (\A i \in 1..m : d[i] = a[i]) /\ d[m + 1] = e
  BY <1>2, <1>3, <1>4, <1>6, AppendProperties
<1>8. \A i \in 1..(m + 1) : d[i] = b[i]
  <2>1. \A i \in 1..(m + 1) : i \in 1..m \/ i = m + 1
    OBVIOUS
  <2> QED
    BY <1>3, <1>4, <1>5, <1>7, <2>1
<1>9. d = b
  BY <1>5, <1>7, <1>8, SeqEqual
<1> QED
  BY <1>3, <1>6, <1>9

Characters == 0..68
(* How many of the first k characters of lines are not ends of them. *)
Shown(k) == k - k \div 5
LineAt(bytes, k) == IF k % 5 = 0 THEN Ids!NewLine ELSE Ids!Encode(bytes)[Shown(k)]

LEMMA LinesOfText ==
  ASSUME NEW bytes \in Bytes
  PROVE  /\ Ids!Lines(Ids!Encode(bytes)) \in Seq(Characters)
         /\ Len(Ids!Lines(Ids!Encode(bytes))) = 5 * Groups(bytes)
         /\ \A i \in 1..(5 * Groups(bytes)) :
              Ids!Lines(Ids!Encode(bytes))[i] = LineAt(bytes, i)
<1>1. PICK groups \in Nat \ {0} : groups = Groups(bytes)
  BY LengthOfBytes
<1>2. PICK characters, S : characters = Ids!Encode(bytes) /\ S = Characters
  OBVIOUS
<1>3. Len(characters) = 4 * groups /\ \A i \in 1..(4 * groups) : characters[i] \in 0..64
  <2>1. characters \in Seq(0..64) /\ Len(characters) = 4 * groups
    BY <1>1, <1>2, Encoded
  <2> QED
    BY <2>1, LenProperties
<1>4. 4 * groups + (4 * groups + 4 - 1) \div 4 = 5 * groups
  OBVIOUS
<1>5. Ids!Lines(characters)
        = [i \in 1..(5 * groups) |-> IF i % 5 = 0 \/ i = 5 * groups THEN Ids!NewLine ELSE characters[i - i \div 5]]
  BY <1>3, <1>4, SMT DEF Ids!Lines, Ids!LineLength
<1>6. ASSUME NEW i \in 1..(5 * groups) PROVE Ids!Lines(characters)[i] = LineAt(bytes, i)
  <2>1. i = 5 * groups => i % 5 = 0
    OBVIOUS
  <2>2. Ids!Lines(characters)[i]
          = IF i % 5 = 0 \/ i = 5 * groups THEN Ids!NewLine ELSE characters[i - i \div 5]
    BY <1>5, Zenon
  <2> QED
    BY <1>2, <2>1, <2>2, Zenon DEF LineAt, Shown
<1>7. ASSUME NEW i \in 1..(5 * groups) PROVE Ids!Lines(characters)[i] \in S
  <2>1. CASE i % 5 = 0
    <3>1. LineAt(bytes, i) = Ids!NewLine
      BY <2>1, Zenon DEF LineAt
    <3> QED
      BY <1>2, <1>6, <3>1, SMT DEF Characters, Ids!NewLine
  <2>2. CASE i % 5 # 0
    <3>1. PICK p \in 1..(4 * groups) : p = Shown(i)
      BY <2>2 DEF Shown
    <3>2. LineAt(bytes, i) = characters[p]
      BY <1>2, <2>2, <3>1, Zenon DEF LineAt
    <3>3. characters[p] \in S
      BY <1>2, <1>3 DEF Characters
    <3> QED
      BY <1>6, <3>2, <3>3, Zenon
  <2> QED
    BY <2>1, <2>2
<1>8. Ids!Lines(characters) \in [1..(5 * groups) -> S]
  BY <1>5, <1>7
<1>9. Ids!Lines(characters) \in Seq(S) /\ Len(Ids!Lines(characters)) = 5 * groups
  <2>1. 5 * groups \in Nat
    OBVIOUS
  <2> QED
    BY <1>8, <2>1, FunctionIsSequence
<1> QED
  BY <1>1, <1>2, <1>6, <1>9

(* What is behind the header of a saved certificate. *)
Behind(bytes, stream) ==
  /\ stream \in Seq(Characters) /\ Len(stream) = 5 * Groups(bytes) + 3
  /\ \A k \in 1..(5 * Groups(bytes)) : stream[k] = Ids!Lines(Ids!Encode(bytes))[k]
  /\ stream[5 * Groups(bytes) + 1] = Ids!Dashes /\ stream[5 * Groups(bytes) + 2] = Ids!Footer
  /\ stream[5 * Groups(bytes) + 3] = Ids!NewLine

LEMMA StopsAtFooter ==
  ASSUME NEW bytes \in Bytes, NEW stream, Behind(bytes, stream), NEW stops,
         stops = {i \in DOMAIN stream : ~Ids!IsBase64(stream[i]) /\ stream[i] \notin {Ids!Pad, Ids!NewLine}}
  PROVE  stops # {} /\ Ids!First(stops) = 5 * Groups(bytes) + 1
<1>1. PICK groups \in Nat \ {0} : groups = Groups(bytes)
  BY LengthOfBytes
<1>2. /\ DOMAIN stream = 1..(5 * groups + 3) /\ stream[5 * groups + 1] = Ids!Dashes
  BY <1>1, LenProperties DEF Behind
<1>3. ASSUME NEW k \in 1..(5 * groups) PROVE Ids!IsBase64(stream[k]) \/ stream[k] \in {Ids!Pad, Ids!NewLine}
  <2>1. stream[k] = LineAt(bytes, k)
    BY <1>1, LinesOfText DEF Behind
  <2>2. CASE k % 5 # 0
    <3>1. PICK i \in 1..(4 * groups) : i = Shown(k)
      BY <2>2 DEF Shown
    <3>2. Ids!Encode(bytes)[i] \in 0..64
      <4>1. Ids!Encode(bytes) \in Seq(0..64) /\ Len(Ids!Encode(bytes)) = 4 * groups
        BY <1>1, Encoded
      <4> QED
        BY <4>1, LenProperties
    <3>3. stream[k] \in 0..64
      BY <2>1, <2>2, <3>1, <3>2, Zenon DEF LineAt
    <3> QED
      BY <3>3 DEF Ids!IsBase64, Ids!Pad
  <2>3. CASE k % 5 = 0
    <3>1. stream[k] = Ids!NewLine
      BY <2>1, <2>3, Zenon DEF LineAt
    <3> QED
      BY <3>1
  <2> QED
    BY <2>2, <2>3
<1>4. stops \subseteq 1..(5 * groups + 3) /\ 5 * groups + 3 \in Nat
  BY <1>2
<1>5. 5 * groups + 1 \in stops
  BY <1>2 DEF Ids!IsBase64, Ids!Dashes, Ids!Pad, Ids!NewLine
<1>6. \A k \in stops : k >= 5 * groups + 1
  BY <1>2, <1>3
<1>7. PICK f : f = Ids!First(stops)
  OBVIOUS
<1>8. f \in stops /\ \A j \in stops : f <= j
  BY <1>4, <1>5, <1>7, FirstIsLeast
<1>9. f = 5 * groups + 1
  BY <1>4, <1>5, <1>6, <1>8
<1> QED
  BY <1>1, <1>5, <1>7, <1>9

(* The characters of k characters of lines, collected one by one. *)
LEMMA ContentIsRead ==
  ASSUME NEW bytes \in Bytes, NEW stream, Behind(bytes, stream)
  PROVE  Ids!Base64Token(stream)
           = Ids!Token("content", Ids!Encode(bytes), SubSeq(stream, 5 * Groups(bytes) + 1, Len(stream)))
<1>1. PICK groups \in Nat \ {0}, n \in Nat : groups = Groups(bytes) /\ n = 5 * groups
  BY LengthOfBytes
<1>2. PICK characters, S : characters = Ids!Encode(bytes) /\ S = 0..64
  OBVIOUS
<1>3. characters \in Seq(S) /\ Len(characters) = 4 * groups
  BY <1>1, <1>2, Encoded
<1>4. \A k \in 1..n : stream[k] = LineAt(bytes, k)
  BY <1>1, LinesOfText DEF Behind
<1>5. PICK stops : stops = {i \in DOMAIN stream : ~Ids!IsBase64(stream[i]) /\ stream[i] \notin {Ids!Pad, Ids!NewLine}}
  OBVIOUS
<1>6. stops # {} /\ Ids!First(stops) = n + 1
  BY <1>1, <1>5, StopsAtFooter
<1> DEFINE Is(f) == f = [k \in 0..n |-> IF k = 0 THEN <<>> ELSE Ids!Added(f[k - 1], stream[k])]
           Collected(k) == SubSeq(characters, 1, Shown(k))
<1>7. Collected(0) = <<>>
  <2>1. Shown(0) = 0
    BY DEF Shown
  <2> QED
    BY <2>1, SubSeqEmpty
<1>8. ASSUME NEW k \in 1..n, stream[k] = Ids!NewLine PROVE Collected(k) = Collected(k - 1)
  <2>1. CASE k % 5 = 0
    <3>1. Shown(k) = Shown(k - 1)
      BY <2>1 DEF Shown
    <3> QED
      BY <3>1, Zenon
  <2>2. CASE k % 5 # 0
    <3>1. PICK i \in 1..(4 * groups) : i = Shown(k)
      BY <1>1, <2>2 DEF Shown
    <3>2. stream[k] = characters[i]
      BY <1>2, <1>4, <2>2, <3>1, Zenon DEF LineAt
    <3>3. characters[i] \in 0..64
      BY <1>2, <1>3, LenProperties
    <3>4. PICK e \in 0..64 : e = characters[i]
      BY <3>3
    <3>5. e # 65
      OBVIOUS
    <3> QED
      BY <1>8, <3>2, <3>4, <3>5, Zenon DEF Ids!NewLine
  <2> QED
    BY <2>1, <2>2
<1>9. ASSUME NEW k \in 1..n, stream[k] # Ids!NewLine PROVE Collected(k) = Append(Collected(k - 1), stream[k])
  <2>1. k % 5 # 0
    BY <1>4, <1>9, Zenon DEF LineAt
  <2>2. PICK i \in 0..(4 * groups - 1) : i = Shown(k - 1) /\ i + 1 = Shown(k)
    BY <1>1, <2>1 DEF Shown
  <2>3. stream[k] = characters[i + 1]
    BY <1>2, <1>4, <2>1, <2>2, Zenon DEF LineAt
  <2>4. Append(SubSeq(characters, 1, i), characters[i + 1]) = SubSeq(characters, 1, i + 1)
    <3>1. i \in Nat /\ i < Len(characters)
      BY <1>3
    <3> QED
      BY <1>3, <3>1, PrefixGrows
  <2> QED
    BY <2>2, <2>3, <2>4, Zenon
<1>18. ASSUME NEW k \in 1..n PROVE Collected(k) = Ids!Added(Collected(k - 1), stream[k])
  <2> HIDE DEF Collected
  <2> QED
    BY <1>8, <1>9, Zenon DEF Ids!Added
<1>10. PICK value : value = CHOOSE f : Is(f)
  OBVIOUS
<1>11. Is(value)
  <2> DEFINE g == [k \in 0..n |-> Collected(k)]
  <2> HIDE DEF Collected
  <2>1. ASSUME NEW k \in 0..n PROVE g[k] = IF k = 0 THEN <<>> ELSE Ids!Added(g[k - 1], stream[k])
    <3>1. g[k] = Collected(k)
      OBVIOUS
    <3>2. k # 0 => k \in 1..n /\ k - 1 \in 0..n
      OBVIOUS
    <3>3. k # 0 => g[k - 1] = Collected(k - 1)
      BY <3>2
    <3> HIDE DEF g
    <3> QED
      BY <1>7, <1>18, <3>1, <3>2, <3>3, Zenon
  <2>2. g = [k \in 0..n |-> g[k]]
    OBVIOUS
  <2> HIDE DEF g
  <2>3. Is(g)
    BY <2>1, <2>2, Zenon
  <2> HIDE DEF Is
  <2> QED
    BY <1>10, <2>3
<1>12. \A k \in 0..n : value[k] = Collected(k)
  <2> DEFINE Good == {k \in 0..n : value[k] = Collected(k)}
  <2>1. ASSUME NEW k \in 0..n PROVE value[k] = IF k = 0 THEN <<>> ELSE Ids!Added(value[k - 1], stream[k])
    BY <1>11, Zenon
  <2> HIDE DEF Collected, Is
  <2>2. 0 \in Good
    <3>1. 0 \in 0..n
      OBVIOUS
    <3> QED
      BY <1>7, <2>1, <3>1
  <2>3. ASSUME NEW k \in 1..n, k - 1 \in Good PROVE k \in Good
    <3>1. k \in 0..n /\ k # 0 /\ value[k - 1] = Collected(k - 1)
      BY <2>3
    <3> QED
      BY <1>18, <2>1, <3>1
  <2>4. \A k \in 0..n : k \in Good
    <3> HIDE DEF Good
    <3> QED
      BY <2>2, <2>3, UpTo
  <2> QED
    BY <2>4
<1>13. value[n] = characters
  <2>1. Shown(n) = Len(characters) /\ n \in 0..n
    BY <1>1, <1>3 DEF Shown
  <2>2. value[n] = SubSeq(characters, 1, Len(characters))
    BY <1>12, <2>1
  <2> QED
    BY <1>3, <2>2, SubSeqFull
<1>14. (n + 1) - 1 = n
  OBVIOUS
<1>15. Ids!Unwrapped(stream, n) = value[n]
  BY <1>10, Zenon DEF Ids!Unwrapped
<1>16. n = IF stops = {} THEN Len(stream) ELSE Ids!First(stops) - 1
  BY <1>6, <1>14
<1>17. Ids!Base64Token(stream) = Ids!Token("content", Ids!Unwrapped(stream, n), SubSeq(stream, n + 1, Len(stream)))
  BY <1>5, <1>16, Zenon DEF Ids!Base64Token
<1> QED
  BY <1>1, <1>2, <1>13, <1>15, <1>17, Zenon

LEMMA StreamIsDark ==
  ASSUME NEW stream \in Seq(Characters), Len(stream) >= 1, stream[1] # Ids!NewLine
  PROVE  Ids!Dark(stream) = stream
<1>1. PICK places : places = {i \in DOMAIN stream : stream[i] # Ids!NewLine}
  OBVIOUS
<1>2. DOMAIN stream = 1..Len(stream) /\ Len(stream) \in Nat
  BY LenProperties
<1>3. places \subseteq 1..Len(stream) /\ 1 \in places
  BY <1>1, <1>2
<1>4. Ids!First(places) = 1
  <2>1. PICK f : f = Ids!First(places)
    OBVIOUS
  <2>2. f \in places /\ \A j \in places : f <= j
    BY <1>2, <1>3, <2>1, FirstIsLeast
  <2> QED
    BY <1>3, <2>1, <2>2
<1>5. SubSeq(stream, 1, Len(stream)) = stream
  BY SubSeqFull
<1> QED
  BY <1>1, <1>3, <1>4, <1>5, Zenon DEF Ids!Dark

LEMMA MarkerStart ==
  ASSUME NEW stream \in Seq(Characters), Len(stream) >= 1, stream[1] = Ids!Dashes
  PROVE  Ids!NextToken(stream) = Ids!Token("start", <<>>, Tail(stream))
<1>1. stream # <<>> /\ stream[1] # Ids!NewLine /\ stream[1] \notin {Ids!Header, Ids!Footer} /\ ~Ids!IsBase64(stream[1])
  BY EmptySeq DEF Ids!Dashes, Ids!NewLine, Ids!Header, Ids!Footer, Ids!IsBase64, Ids!Pad
<1>2. Ids!NextToken(stream) = Ids!TokenOf(stream)
  BY <1>1, StreamIsDark DEF Ids!NextToken
<1> QED
  BY <1>1, <1>2, Zenon DEF Ids!TokenOf, Ids!PEMMarkerStartToken

LEMMA Marker ==
  ASSUME NEW stream \in Seq(Characters), Len(stream) >= 1, stream[1] \in {Ids!Header, Ids!Footer}
  PROVE  Ids!NextToken(stream) = Ids!Token("marker", <<stream[1]>>, Tail(stream))
<1>1. stream # <<>> /\ stream[1] # Ids!NewLine /\ stream[1] # Ids!Dashes /\ ~Ids!IsBase64(stream[1])
  BY EmptySeq DEF Ids!Dashes, Ids!NewLine, Ids!Header, Ids!Footer, Ids!IsBase64, Ids!Pad
<1>2. Ids!NextToken(stream) = Ids!TokenOf(stream)
  BY <1>1, StreamIsDark DEF Ids!NextToken
<1> QED
  BY <1>1, <1>2, Zenon DEF Ids!TokenOf, Ids!PEMMarkerToken

LEMMA Content ==
  ASSUME NEW stream \in Seq(Characters), Len(stream) > 1, Ids!IsBase64(stream[1]), Ids!IsBase64(stream[2]),
         stream[1] \in Nat
  PROVE  Ids!NextToken(stream) = Ids!Base64Token(stream)
<1>1. /\ Len(stream) >= 1 /\ stream # <<>> /\ stream[1] # Ids!NewLine /\ stream[1] # Ids!Dashes
      /\ stream[1] \notin {Ids!Header, Ids!Footer}
  BY EmptySeq, LenProperties DEF Ids!Dashes, Ids!NewLine, Ids!Header, Ids!Footer, Ids!IsBase64, Ids!Pad
<1>2. Ids!NextToken(stream) = Ids!TokenOf(stream)
  BY <1>1, StreamIsDark DEF Ids!NextToken
<1> QED
  BY <1>1, <1>2, Zenon DEF Ids!TokenOf

LEMMA RestOfStream ==
  ASSUME NEW stream \in Seq(Characters), Len(stream) >= 1
  PROVE  /\ Tail(stream) \in Seq(Characters) /\ Len(Tail(stream)) = Len(stream) - 1
         /\ \A k \in 1..(Len(stream) - 1) : Tail(stream)[k] = stream[k + 1]
<1>1. stream # <<>>
  BY EmptySeq
<1> QED
  BY <1>1, HeadTailProperties

LEMMA SavedText ==
  ASSUME NEW bytes \in Bytes, NEW pem, pem = Ids!SaveCertificate(bytes)
  PROVE  /\ pem \in Seq(Characters) /\ Len(pem) = 5 * Groups(bytes) + 5
         /\ pem[1] = Ids!Dashes /\ pem[2] = Ids!Header /\ Behind(bytes, Tail(Tail(pem)))
<1>1. PICK n \in Nat \ {0} : n = 5 * Groups(bytes)
  BY LengthOfBytes
<1>2. PICK front, lines, back, S :
        /\ front = <<Ids!Dashes, Ids!Header>> /\ lines = Ids!Lines(Ids!Encode(bytes))
        /\ back = <<Ids!Dashes, Ids!Footer, Ids!NewLine>> /\ S = Characters
  OBVIOUS
<1>3. /\ front \in Seq(S) /\ Len(front) = 2 /\ front[1] = Ids!Dashes /\ front[2] = Ids!Header
      /\ back \in Seq(S) /\ Len(back) = 3 /\ back[1] = Ids!Dashes /\ back[2] = Ids!Footer
      /\ back[3] = Ids!NewLine
  <2>1. Ids!Dashes \in S /\ Ids!Header \in S /\ Ids!Footer \in S /\ Ids!NewLine \in S
    BY <1>2, SMT DEF Characters, Ids!Dashes, Ids!Header, Ids!Footer, Ids!NewLine
  <2> QED
    BY <1>2, <2>1
<1>4. lines \in Seq(S) /\ Len(lines) = n
  BY <1>1, <1>2, LinesOfText
<1>5. PICK most : most = front \o lines
  OBVIOUS
<1>6. /\ most \in Seq(S) /\ Len(most) = n + 2 /\ most[1] = Ids!Dashes /\ most[2] = Ids!Header
      /\ \A k \in 1..n : most[k + 2] = lines[k]
  <2>1. /\ most \in Seq(S) /\ Len(most) = Len(front) + Len(lines)
        /\ \A i \in 1..(Len(front) + Len(lines)) :
             most[i] = IF i <= Len(front) THEN front[i] ELSE lines[i - Len(front)]
    BY <1>3, <1>4, <1>5, ConcatProperties
  <2>2. \A i \in 1..(2 + n) : most[i] = IF i <= 2 THEN front[i] ELSE lines[i - 2]
    BY <1>3, <1>4, <2>1
  <2>3. most[1] = front[1] /\ most[2] = front[2]
    BY <1>1, <2>2
  <2>4. ASSUME NEW k \in 1..n PROVE most[k + 2] = lines[k]
    <3>1. k + 2 \in 1..(2 + n) /\ ~(k + 2 <= 2) /\ (k + 2) - 2 = k
      OBVIOUS
    <3> QED
      BY <2>2, <3>1
  <2> QED
    BY <1>3, <1>4, <2>1, <2>3, <2>4
<1>7. pem = most \o back
  BY <1>2, <1>5 DEF Ids!SaveCertificate
<1>8. /\ pem \in Seq(S) /\ Len(pem) = n + 5 /\ pem[1] = Ids!Dashes /\ pem[2] = Ids!Header
      /\ \A k \in 1..n : pem[k + 2] = lines[k]
      /\ pem[n + 3] = Ids!Dashes /\ pem[n + 4] = Ids!Footer /\ pem[n + 5] = Ids!NewLine
  <2>1. /\ pem \in Seq(S) /\ Len(pem) = Len(most) + Len(back)
        /\ \A i \in 1..(Len(most) + Len(back)) :
             pem[i] = IF i <= Len(most) THEN most[i] ELSE back[i - Len(most)]
    <3>1. most \in Seq(S) /\ back \in Seq(S)
      BY <1>3, <1>6
    <3> QED
      BY <1>7, <3>1, ConcatProperties
  <2>2. \A i \in 1..(n + 2 + 3) : pem[i] = IF i <= n + 2 THEN most[i] ELSE back[i - (n + 2)]
    BY <1>3, <1>6, <2>1
  <2>3. \A i \in 1..(n + 2) : pem[i] = most[i]
    BY <1>1, <2>2
  <2>4. pem[n + 3] = back[1] /\ pem[n + 4] = back[2] /\ pem[n + 5] = back[3]
    <3>1. /\ (n + 3) - (n + 2) = 1 /\ (n + 4) - (n + 2) = 2 /\ (n + 5) - (n + 2) = 3
          /\ ~(n + 3 <= n + 2) /\ ~(n + 4 <= n + 2) /\ ~(n + 5 <= n + 2)
          /\ n + 3 \in 1..(n + 2 + 3) /\ n + 4 \in 1..(n + 2 + 3) /\ n + 5 \in 1..(n + 2 + 3)
      BY <1>1
    <3> QED
      BY <2>2, <3>1
  <2>5. 1 \in 1..(n + 2) /\ 2 \in 1..(n + 2) /\ \A k \in 1..n : k + 2 \in 1..(n + 2)
    BY <1>1
  <2>6. Len(pem) = n + 5
    BY <1>3, <1>6, <2>1
  <2> QED
    BY <1>3, <1>6, <2>1, <2>3, <2>4, <2>5, <2>6
<1>9. PICK second, third : second = Tail(pem) /\ third = Tail(second)
  OBVIOUS
<1>10. second \in Seq(Characters) /\ Len(second) = n + 4 /\ \A k \in 1..(n + 4) : second[k] = pem[k + 1]
  <2>1. /\ second \in Seq(Characters) /\ Len(second) = Len(pem) - 1
        /\ \A k \in 1..(Len(pem) - 1) : second[k] = pem[k + 1]
    <3>1. pem \in Seq(Characters) /\ Len(pem) >= 1
      BY <1>2, <1>8
    <3> QED
      BY <1>9, <3>1, RestOfStream
  <2> QED
    BY <1>8, <2>1
<1>11. third \in Seq(Characters) /\ Len(third) = n + 3 /\ \A k \in 1..(n + 3) : third[k] = second[k + 1]
  <2>1. /\ third \in Seq(Characters) /\ Len(third) = Len(second) - 1
        /\ \A k \in 1..(Len(second) - 1) : third[k] = second[k + 1]
    <3>1. Len(second) >= 1
      BY <1>10
    <3> QED
      BY <1>9, <1>10, <3>1, RestOfStream
  <2> QED
    BY <1>10, <2>1
<1>12. \A k \in 1..(n + 3) : third[k] = pem[k + 2]
  <2>1. \A k \in 1..(n + 3) : k + 1 \in 1..(n + 4) /\ (k + 1) + 1 = k + 2
    OBVIOUS
  <2> QED
    BY <1>10, <1>11, <2>1
<1>13. Behind(bytes, third)
  <2>1. \A k \in 1..n : third[k] = lines[k]
    <3>1. \A k \in 1..n : k \in 1..(n + 3)
      OBVIOUS
    <3> QED
      BY <1>8, <1>12, <3>1
  <2>2. third[n + 1] = Ids!Dashes /\ third[n + 2] = Ids!Footer /\ third[n + 3] = Ids!NewLine
    <3>1. /\ n + 1 \in 1..(n + 3) /\ n + 2 \in 1..(n + 3) /\ n + 3 \in 1..(n + 3)
          /\ (n + 1) + 2 = n + 3 /\ (n + 2) + 2 = n + 4 /\ (n + 3) + 2 = n + 5
      OBVIOUS
    <3> QED
      BY <1>8, <1>12, <3>1
  <2> QED
    BY <1>1, <1>2, <1>11, <2>1, <2>2 DEF Behind
<1> QED
  BY <1>1, <1>2, <1>8, <1>9, <1>13

LEMMA CertificateIsRead ==
  ASSUME NEW bytes \in Bytes
  PROVE  Ids!PerformDigest(Ids!SaveCertificate(bytes)) = {bytes}
<1>1. PICK n \in Nat \ {0} : n = 5 * Groups(bytes)
  BY LengthOfBytes
<1>2. PICK pem : pem = Ids!SaveCertificate(bytes)
  OBVIOUS
<1>3. /\ pem \in Seq(Characters) /\ Len(pem) = n + 5
      /\ pem[1] = Ids!Dashes /\ pem[2] = Ids!Header /\ Behind(bytes, Tail(Tail(pem)))
  BY <1>1, <1>2, SavedText
<1>4. PICK second, third : second = Tail(pem) /\ third = Tail(second)
  OBVIOUS
<1>5. Ids!NextToken(pem) = Ids!Token("start", <<>>, second)
  <2>1. Len(pem) >= 1
    BY <1>3
  <2> QED
    BY <1>3, <1>4, <2>1, MarkerStart
<1>6. second \in Seq(Characters) /\ Len(second) >= 1 /\ second[1] = Ids!Header
  <2>1. Len(pem) >= 1 /\ 1 \in 1..(Len(pem) - 1) /\ Len(pem) - 1 >= 1 /\ 1 + 1 = 2
    BY <1>3
  <2> QED
    BY <1>3, <1>4, <2>1, RestOfStream
<1>7. Ids!NextToken(second) = Ids!Token("marker", <<Ids!Header>>, third)
  BY <1>4, <1>6, Marker
<1>8. /\ Behind(bytes, third) /\ third \in Seq(Characters) /\ Len(third) = n + 3
      /\ third[n + 1] = Ids!Dashes /\ third[n + 2] = Ids!Footer
      /\ \A k \in 1..n : third[k] = LineAt(bytes, k)
  <2>1. Behind(bytes, third)
    BY <1>3, <1>4
  <2>2. \A k \in 1..n : Ids!Lines(Ids!Encode(bytes))[k] = LineAt(bytes, k)
    BY <1>1, LinesOfText
  <2> QED
    BY <1>1, <2>1, <2>2 DEF Behind
<1>9. PICK last0 : last0 = SubSeq(third, n + 1, Len(third))
  OBVIOUS
<1>10. Ids!NextToken(third) = Ids!Token("content", Ids!Encode(bytes), last0)
  <2>1. ASSUME NEW k \in {1, 2} PROVE Ids!IsBase64(third[k]) /\ third[k] \in Nat
    <3>1. k \in 1..n /\ k % 5 # 0 /\ Shown(k) = k
      BY <1>1, LengthOfBytes DEF Shown
    <3>2. third[k] = Ids!Encode(bytes)[k]
      BY <1>8, <3>1 DEF LineAt
    <3>3. PICK place \in {0, 1} : k = place + 1
      OBVIOUS
    <3>4. Ids!Encode(bytes)[k] = CharacterAt(bytes, 0, place)
      <4>1. 0 \in 0..(Groups(bytes) - 1) /\ place \in 0..3 /\ 4 * 0 + place + 1 = k
        BY <3>3, LengthOfBytes
      <4> QED
        BY <4>1, Encoded
    <3>5. PICK bits \in Nat : bits = BitsOf(bytes, 0)
      BY GroupOfBytes
    <3>9. Ids!Weight64[place + 1] \in {262144, 4096}
      BY SMT DEF Ids!Weight64
    <3>10. PICK weight \in Nat \ {0} : weight = Ids!Weight64[place + 1]
      BY <3>9, SMT
    <3>6. (bits \div weight) % 64 \in 0..63
      BY SMT
    <3>7. ~(3 * 0 + place > Len(bytes))
      BY LengthOfBytes
    <3>8. CharacterAt(bytes, 0, place) \in 0..63
      BY <3>5, <3>6, <3>7, <3>10, SMT DEF CharacterAt
    <3> QED
      BY <3>2, <3>4, <3>8 DEF Ids!IsBase64, Ids!Pad
  <2>2. Len(third) > 1
    BY <1>8
  <2>3. Ids!NextToken(third) = Ids!Base64Token(third)
    BY <1>8, <2>1, <2>2, Content
  <2>4. Ids!Base64Token(third) = Ids!Token("content", Ids!Encode(bytes), last0)
    BY <1>1, <1>8, <1>9, ContentIsRead
  <2> QED
    BY <2>3, <2>4
<1>11. last0 \in Seq(Characters) /\ Len(last0) = 3 /\ last0[1] = Ids!Dashes /\ last0[2] = Ids!Footer
  <2>1. PICK S : S = Characters
    OBVIOUS
  <2>2. /\ n + 1 \in 1..Len(third) /\ Len(third) \in (n + 1)..Len(third) /\ third \in Seq(S)
        /\ Len(third) - (n + 1) + 1 = 3
    BY <1>8, <2>1
  <2>3. /\ last0 \in Seq(S) /\ Len(last0) = Len(third) - (n + 1) + 1
        /\ \A i \in 1..(Len(third) - (n + 1) + 1) : last0[i] = third[(n + 1) + i - 1]
    BY <1>9, <2>2, PartOfSequence
  <2>4. /\ 1 \in 1..3 /\ 2 \in 1..3 /\ (n + 1) + 1 - 1 = n + 1 /\ (n + 1) + 2 - 1 = n + 2
    OBVIOUS
  <2> QED
    BY <1>8, <2>1, <2>2, <2>3, <2>4
<1>12. PICK behind : behind = Tail(last0)
  OBVIOUS
<1>13. Ids!NextToken(last0) = Ids!Token("start", <<>>, behind)
  <2>1. Len(last0) >= 1
    BY <1>11
  <2> QED
    BY <1>11, <1>12, <2>1, MarkerStart
<1>14. behind \in Seq(Characters) /\ Len(behind) >= 1 /\ behind[1] = Ids!Footer
  <2>1. Len(last0) >= 1 /\ 1 \in 1..(Len(last0) - 1) /\ Len(last0) - 1 >= 1 /\ 1 + 1 = 2
    BY <1>11
  <2> QED
    BY <1>11, <1>12, <2>1, RestOfStream
<1>15. Ids!NextToken(behind) = Ids!Token("marker", <<Ids!Footer>>, Tail(behind))
  BY <1>14, Marker
<1>16. Ids!PerformDigest(pem) = {Ids!Decode(Ids!Encode(bytes))}
  <2>1. /\ Ids!NextToken(pem).class = "start" /\ Ids!NextToken(pem).rest = second
    BY <1>5 DEF Ids!Token
  <2>2. /\ Ids!NextToken(second).class = "marker" /\ Ids!NextToken(second).value = <<Ids!Header>>
        /\ Ids!NextToken(second).rest = third
    BY <1>7 DEF Ids!Token
  <2>3. /\ Ids!NextToken(third).class = "content" /\ Ids!NextToken(third).value = Ids!Encode(bytes)
        /\ Ids!NextToken(third).rest = last0
    BY <1>10 DEF Ids!Token
  <2>4. Ids!NextToken(last0).class = "start" /\ Ids!NextToken(last0).rest = behind
    BY <1>13 DEF Ids!Token
  <2>5. Ids!NextToken(behind).class = "marker" /\ Ids!NextToken(behind).value = <<Ids!Footer>>
    BY <1>15 DEF Ids!Token
  <2> QED
    BY <2>1, <2>2, <2>3, <2>4, <2>5 DEF Ids!PerformDigest
<1> QED
  BY <1>2, <1>16, Decoded

-----------------------------------------------------------------------------
(* Identifiers: whatever is shown is read, however it is made.             *)
ReadingOf(kind, shown) ==
  CASE kind = "gateway" -> Ids!ParseGateway(shown)
    [] kind = "device" -> Ids!ParseDevice(shown)
    [] kind = "manager" -> Ids!ParseManager(shown)
    [] kind = "certificate" -> Ids!PerformDigest(shown)

(* The text of a gateway that nobody has touched has the right check digit; *)
(* what the text says, and what has been parsed, is the identifier, or is   *)
(* nothing once somebody has mistyped it.                                   *)
IdentifiersInv ==
  /\ id.kind = "none" => damage = "none" /\ parsed = Ids!Unread
  /\ id.kind = "gateway" /\ damage = "none" => GatewayText(text)
  /\ id.kind # "none" => ReadingOf(id.kind, text) = IF damage = "none" THEN {id.value} ELSE {}
  /\ parsed # Ids!Unread => parsed = IF damage = "none" THEN {id.value} ELSE {}

LEMMA GatewayIsMade ==
  ASSUME NEW version \in 1..9, NEW data \in GatewayNumbers
  PROVE  GatewayText(Ids!GatewayDigits(version, data))
<1>1. PICK one, front, S : one = <<version>> /\ front = one \o data /\ S = 0..9
  OBVIOUS
<1>2. one \in Seq(S) /\ Len(one) = 1 /\ one[1] = version
  <2>1. version \in S
    BY <1>1
  <2> QED
    BY <1>1, <2>1, OneElement
<1>3. data \in Seq(S) /\ Len(data) = 14
  <2>1. data \in [1..14 -> S] /\ 14 \in Nat
    BY <1>1, NumbersAssumption
  <2> QED
    BY <2>1, FunctionIsSequence
<1>4. front \in Seq(S) /\ Len(front) = 15 /\ front[1] = version
  <2>1. /\ front \in Seq(S) /\ Len(front) = Len(one) + Len(data)
        /\ \A k \in 1..(Len(one) + Len(data)) :
             front[k] = IF k <= Len(one) THEN one[k] ELSE data[k - Len(one)]
    BY ZenonT(60), <1>1, <1>2, <1>3, ConcatProperties
  <2> QED
    BY <1>2, <1>3, <2>1
<1>5. PICK check : check = Ids!Compute(front)
  OBVIOUS
<1>6. check \in S
  <2>1. Len(front) \in Nat /\ \A k \in 1..Len(front) : front[k] \in 0..9
    BY <1>1, <1>4, LenProperties
  <2>2. PICK f : Interim(front, Len(front), f) /\ check = f[Len(front)]
    BY <1>5, <2>1, ComputeIsInterim
  <2>3. f \in [0..Len(front) -> 0..9] /\ Len(front) \in 0..Len(front)
    BY <2>1, <2>2 DEF Interim
  <2> QED
    BY <1>1, <2>2, <2>3
<1>7. PICK tail, whole : tail = <<check>> /\ whole = front \o tail
  OBVIOUS
<1>8. tail \in Seq(S) /\ Len(tail) = 1 /\ tail[1] = check
  BY <1>6, <1>7, OneElement
<1>9. /\ whole \in Seq(S) /\ Len(whole) = 16 /\ \A k \in 1..15 : whole[k] = front[k]
      /\ whole[16] = check
  <2>1. /\ whole \in Seq(S) /\ Len(whole) = Len(front) + Len(tail)
        /\ \A k \in 1..(Len(front) + Len(tail)) :
             whole[k] = IF k <= Len(front) THEN front[k] ELSE tail[k - Len(front)]
    BY <1>4, <1>7, <1>8, ConcatProperties
  <2> QED
    BY <1>4, <1>8, <2>1
<1>10. Ids!GatewayDigits(version, data) = whole
  BY <1>1, <1>5, <1>7 DEF Ids!GatewayDigits
<1>11. whole \in Digits
  <2>1. whole = [k \in 1..16 |-> whole[k]] /\ \A k \in 1..16 : whole[k] \in 0..9
    BY <1>1, <1>9, LenProperties
  <2> QED
    BY <2>1 DEF Digits, Ids!TextLength
<1>12. SubSeq(whole, 1, 15) = front
  <2>1. PICK other : other = SubSeq(whole, 1, 15)
    OBVIOUS
  <2>2. other \in Seq(S) /\ Len(other) = 15 /\ \A k \in 1..15 : other[k] = whole[k]
    <3>1. 1 \in 1..Len(whole) /\ 15 \in 1..Len(whole)
      BY <1>9
    <3>2. /\ other \in Seq(S) /\ Len(other) = 15 - 1 + 1
          /\ \A k \in 1..(15 - 1 + 1) : other[k] = whole[1 + k - 1]
      BY ZenonT(60), <1>9, <2>1, <3>1, PartOfSequence
    <3> QED
      BY <3>2
  <2>3. other = front
    BY ZenonT(60), <1>4, <1>9, <2>2, SeqEqual
  <2> QED
    BY <2>1, <2>3
<1>13. Checked(whole)
  <2>1. Ids!TextLength = 16 /\ Ids!TextLength - 1 = 15
    BY DEF Ids!TextLength
  <2> QED
    BY <1>5, <1>9, <1>12, <2>1, Zenon DEF Checked
<1>14. whole[1] = version /\ version # 0
  BY <1>4, <1>9
<1> QED
  BY <1>10, <1>11, <1>13, <1>14 DEF GatewayText

LEMMA DeviceIsRead ==
  ASSUME NEW bytes \in DeviceNumbers, Ids!DeviceID(bytes) # {}
  PROVE  Ids!ParseDevice(Ids!DeviceText(bytes)) = {bytes}
<1>1. PICK S : S = 0..255
  OBVIOUS
<1>2. bytes \in [1..8 -> S]
  BY <1>1, NumbersAssumption
<1>3. bytes \in Seq(S) /\ Len(bytes) = 8 /\ \A i \in 1..8 : bytes[i] \in 0..255
  <2>1. PICK n \in Nat : n = 8
    OBVIOUS
  <2>2. bytes \in [1..n -> S]
    BY <1>2, <2>1
  <2>3. bytes \in Seq(S) /\ Len(bytes) = n
    BY <2>2, FunctionIsSequence
  <2> QED
    BY <1>1, <1>2, <2>1, <2>3
<1>4. Ids!DeviceID(bytes) = {bytes}
  BY DEF Ids!DeviceID
<1>5. PICK shown : shown = Ids!DeviceText(bytes)
  OBVIOUS
<1>6. Len(shown) <= 16 /\ Len(shown) \in Nat /\ Ids!FromHex(shown, 8) = bytes
  <2>1. CASE Ids!Is32bit(bytes)
    <3>1. PICK half : half = SubSeq(bytes, 5, 8)
      OBVIOUS
    <3>2. Len(half) = 4 /\ (\A i \in 1..4 : half[i] \in 0..255) /\ \A i \in 1..4 : half[i] = bytes[i + 4]
      <4>1. 5 \in 1..Len(bytes) /\ 8 \in 5..Len(bytes)
        BY <1>3
      <4>2. /\ half \in Seq(S) /\ Len(half) = 8 - 5 + 1
            /\ \A i \in 1..(8 - 5 + 1) : half[i] = bytes[5 + i - 1]
        BY <1>3, <3>1, <4>1, PartOfSequence
      <4> QED
        BY <1>3, <4>2
    <3>3. \A i \in 1..4 : bytes[i] = 0
      <4>1. PICK first : first = SubSeq(bytes, 1, 4)
        OBVIOUS
      <4>2. 1 \in 1..Len(bytes) /\ 4 \in 1..Len(bytes)
        BY <1>3
      <4>3. \A i \in 1..(4 - 1 + 1) : first[i] = bytes[1 + i - 1]
        BY <1>3, <4>1, <4>2, PartOfSequence
      <4>4. first = <<0, 0, 0, 0>>
        BY <2>1, <4>1 DEF Ids!Is32bit
      <4>5. first[1] = 0 /\ first[2] = 0 /\ first[3] = 0 /\ first[4] = 0
        BY <4>4
      <4> QED
        BY <4>3, <4>5
    <3>4. shown = Ids!Hex(half)
      BY <1>5, <2>1, <3>1 DEF Ids!DeviceText
    <3>5. PICK n \in Nat \ {0}, m \in Nat : n = 4 /\ m = 8
      OBVIOUS
    <3>6. Widened(half, n, bytes, m)
      <4>1. \A i \in 1..m : bytes[i] = IF i > m - n THEN half[i - (m - n)] ELSE 0
        BY <3>2, <3>3, <3>5
      <4>2. m >= n /\ Len(half) = n /\ (\A i \in 1..n : half[i] \in 0..255) /\ bytes = [i \in 1..m |-> bytes[i]]
        BY <1>2, <3>2, <3>5
      <4> QED
        BY <4>1, <4>2, Zenon DEF Widened
    <3>7. HexReadAs(shown, n, bytes, m)
      BY <3>4, <3>6, HexIsRead
    <3>8. PICK length : length = Len(shown)
      OBVIOUS
    <3>9. length \in 1..(2 * n) /\ Ids!FromHex(shown, m) = bytes
      BY <3>7, <3>8, Zenon DEF HexReadAs
    <3>10. length <= 16 /\ length \in Nat
      BY <3>5, <3>9
    <3>11. Ids!FromHex(shown, 8) = bytes
      BY <3>5, <3>9, Zenon
    <3> QED
      BY <3>8, <3>10, <3>11, Zenon
  <2>2. CASE ~Ids!Is32bit(bytes)
    <3>1. shown = Ids!Hex(bytes)
      BY <1>5, <2>2 DEF Ids!DeviceText
    <3>2. PICK m \in Nat \ {0} : m = 8
      OBVIOUS
    <3>3. Widened(bytes, m, bytes, m)
      <4>1. /\ Len(bytes) = m /\ (\A i \in 1..m : bytes[i] \in 0..255) /\ bytes = [i \in 1..m |-> bytes[i]]
            /\ m >= m
        BY <1>2, <1>3, <3>2
      <4>2. \A i \in 1..m : bytes[i] = IF i > m - m THEN bytes[i - (m - m)] ELSE 0
        OBVIOUS
      <4> QED
        BY <4>1, <4>2, Zenon DEF Widened
    <3>4. HexReadAs(shown, m, bytes, m)
      BY <3>1, <3>3, HexIsRead
    <3>5. PICK length : length = Len(shown)
      OBVIOUS
    <3>6. length \in 1..(2 * m) /\ Ids!FromHex(shown, m) = bytes
      BY <3>4, <3>5, Zenon DEF HexReadAs
    <3>7. length <= 16 /\ length \in Nat
      BY <3>2, <3>6
    <3>8. Ids!FromHex(shown, 8) = bytes
      BY <3>2, <3>6, Zenon
    <3> QED
      BY <3>5, <3>7, <3>8, Zenon
  <2> QED
    BY <2>1, <2>2
<1> QED
  BY <1>4, <1>5, <1>6 DEF Ids!ParseDevice

LEMMA ManagerIsRead ==
  ASSUME NEW prefix \in Ids!DevicePrefix \ {0}, NEW ident \in Idents
  PROVE  Ids!ParseManager(Ids!Hex(<<prefix, ident>>)) = {<<prefix, ident>>}
<1>1. PICK bytes : bytes = <<prefix, ident>>
  OBVIOUS
<1>2. prefix \in 0..255 /\ ident \in 0..255
  BY NumbersAssumption DEF Ids!DevicePrefix
<1>3. Len(bytes) = 2 /\ bytes[1] = prefix /\ bytes[2] = ident /\ bytes = [i \in 1..2 |-> bytes[i]]
  BY <1>1
<1>4. \A i \in 1..2 : bytes[i] \in 0..255
  BY <1>2, <1>3
<1>5. PICK shown : shown = Ids!Hex(bytes)
  OBVIOUS
<1>6. PICK n \in Nat \ {0} : n = 2
  OBVIOUS
<1>7. Widened(bytes, n, bytes, n)
  <2>1. /\ Len(bytes) = n /\ (\A i \in 1..n : bytes[i] \in 0..255) /\ bytes = [i \in 1..n |-> bytes[i]]
        /\ n >= n
    BY <1>3, <1>4, <1>6
  <2>2. \A i \in 1..n : bytes[i] = IF i > n - n THEN bytes[i - (n - n)] ELSE 0
    OBVIOUS
  <2> QED
    BY <2>1, <2>2, Zenon DEF Widened
<1>10. PICK length : length = Len(shown)
  OBVIOUS
<1>11. length \in 1..(2 * n) /\ Ids!FromHex(shown, n) = bytes
  <2>1. HexReadAs(shown, n, bytes, n)
    BY <1>5, <1>7, HexIsRead
  <2> QED
    BY <1>10, <2>1, Zenon DEF HexReadAs
<1>8. Ids!FromHex(shown, 2) = bytes /\ ~(Len(shown) > 4)
  BY <1>6, <1>10, <1>11
<1>9. Ids!ManagerID(bytes) = {bytes}
  BY <1>3 DEF Ids!ManagerID
<1> QED
  BY <1>1, <1>5, <1>8, <1>9 DEF Ids!ParseManager

LEMMA IdentifiersStart == Ids!IdentifiersInit => IdentifiersInv
BY DEF Ids!IdentifiersInit, IdentifiersInv, Ids!Unread

(* What is made is read: one lemma, for each of the four. *)
LEMMA IdentifierIsMade ==
  ASSUME IdentifiersInv, NEW kind, NEW value, NEW shown, kind # "none",
         kind = "gateway" => GatewayText(shown), ReadingOf(kind, shown) = {value},
         Ids!Make(kind, value, shown)
  PROVE  IdentifiersInv'
<1>1. /\ id' = [kind |-> kind, value |-> value] /\ text' = shown /\ damage' = "none"
      /\ parsed' = Ids!Unread
  BY DEF Ids!Make, IdentifiersInv
<1>2. id'.kind = kind /\ id'.value = value
  BY <1>1
<1>3. ReadingOf(id.kind, text)' = ReadingOf(kind, shown)
  BY <1>1, <1>2, Zenon DEF ReadingOf
<1>4. (GatewayText(text))' = GatewayText(shown)
  BY <1>1, Zenon DEF GatewayText, Digits, Checked
<1> QED
  BY <1>1, <1>2, <1>3, <1>4, Zenon DEF IdentifiersInv, Ids!Unread

LEMMA MistypedIsRefused ==
  ASSUME IdentifiersInv, Ids!Mistype
  PROVE  Ids!ParseGateway(text') = {}
<1>1. /\ id.kind = "gateway" /\ damage = "none"
      /\ \/ \E i \in DOMAIN text, digit \in 0..9 : digit # text[i] /\ text' = [text EXCEPT ![i] = digit]
         \/ \E i \in 1..(Len(text) - 1) :
              text[i] # text[i + 1] /\ text' = [text EXCEPT ![i] = text[i + 1], ![i + 1] = text[i]]
         \/ text' = SubSeq(text, 1, Len(text) - 1)
  BY Zenon DEF Ids!Mistype
<1>2. PICK digits : digits = text
  OBVIOUS
<1>3. GatewayText(digits)
  BY <1>1, <1>2 DEF IdentifiersInv
<1>4. digits \in Digits /\ digits \in Seq(0..9) /\ Len(digits) = 16
  BY <1>3, DigitsAreASequence DEF GatewayText
<1>5. digits \in [1..16 -> 0..9] /\ DOMAIN digits = 1..16
  BY <1>4 DEF Digits, Ids!TextLength
<1>11. Len(text) - 1 = 15
  BY <1>2, <1>4
<1>6. PICK others : others = text'
  OBVIOUS
<1>7. ASSUME others \in Digits, ~Checked(others) PROVE Ids!ParseGateway(others) = {}
  BY <1>7, GatewayIsRead
<1>8. CASE \E i \in DOMAIN text, digit \in 0..9 : digit # text[i] /\ text' = [text EXCEPT ![i] = digit]
  <2>1. PICK i \in 1..16, digit \in 0..9 : digit # digits[i] /\ others = [digits EXCEPT ![i] = digit]
    BY <1>2, <1>5, <1>6, <1>8
  <2>2. others \in [1..16 -> 0..9]
    BY <1>5, <2>1
  <2>3. others \in Digits
    BY <2>2 DEF Digits, Ids!TextLength
  <2>4. others[i] # digits[i] /\ \A k \in 1..16 : k # i => others[k] = digits[k]
    BY <1>5, <2>1
  <2>5. ~Checked(others)
    BY <1>3, <2>3, <2>4, DigitIsCaught
  <2> QED
    BY <1>6, <1>7, <2>3, <2>5
<1>9. CASE \E i \in 1..(Len(text) - 1) :
             text[i] # text[i + 1] /\ text' = [text EXCEPT ![i] = text[i + 1], ![i + 1] = text[i]]
  <2>1. PICK i \in 1..15 :
          digits[i] # digits[i + 1] /\ others = [digits EXCEPT ![i] = digits[i + 1], ![i + 1] = digits[i]]
    BY <1>2, <1>6, <1>9, <1>11, Zenon
  <2>2. i \in 1..16 /\ i + 1 \in 1..16 /\ i # i + 1
    OBVIOUS
  <2>3. others \in [1..16 -> 0..9]
    BY <1>5, <2>1, <2>2
  <2>4. others \in Digits
    BY <2>3 DEF Digits, Ids!TextLength
  <2>5. /\ others[i] = digits[i + 1] /\ others[i + 1] = digits[i]
        /\ \A k \in 1..16 : k \notin {i, i + 1} => others[k] = digits[k]
    BY <1>5, <2>1, <2>2
  <2>6. ~Checked(others)
    BY <1>3, <2>1, <2>4, <2>5, SwapIsCaught
  <2> QED
    BY <1>6, <1>7, <2>4, <2>6
<1>10. CASE text' = SubSeq(text, 1, Len(text) - 1)
  <2>1. others = SubSeq(digits, 1, 15)
    BY <1>2, <1>6, <1>10, <1>11, Zenon
  <2>2. Len(others) = 15
    BY <1>4, <2>1, DigitsAreASequence
  <2> QED
    BY <1>6, <2>2 DEF Ids!ParseGateway, Ids!TextLength
<1> QED
  BY <1>1, <1>8, <1>9, <1>10

LEMMA IdentifiersKeep ==
  ASSUME IdentifiersInv, [Ids!IdentifiersNext]_identifierVars
  PROVE  IdentifiersInv'
<1>1. CASE Ids!MakeGateway
  <2>4. PICK version \in 1..9, data \in GatewayNumbers :
          Ids!Make("gateway", Ids!GatewayDigits(version, data), Ids!GatewayDigits(version, data))
    BY <1>1 DEF Ids!MakeGateway
  <2>1. PICK digits : digits = Ids!GatewayDigits(version, data) /\ Ids!Make("gateway", digits, digits)
    BY <2>4
  <2>2. GatewayText(digits)
    BY <2>1, GatewayIsMade
  <2>3. ReadingOf("gateway", digits) = {digits}
    BY <2>2, GatewayIsRead DEF GatewayText, ReadingOf
  <2> QED
    BY <2>1, <2>2, <2>3, IdentifierIsMade
<1>2. CASE Ids!MakeDevice
  <2>3. PICK bytes \in DeviceNumbers : Ids!DeviceID(bytes) # {} /\ Ids!Make("device", bytes, Ids!DeviceText(bytes))
    BY <1>2 DEF Ids!MakeDevice
  <2>1. PICK shown : shown = Ids!DeviceText(bytes) /\ Ids!DeviceID(bytes) # {} /\ Ids!Make("device", bytes, shown)
    BY <2>3
  <2>2. ReadingOf("device", shown) = {bytes}
    BY <2>1, DeviceIsRead DEF ReadingOf
  <2> QED
    BY <2>1, <2>2, IdentifierIsMade
<1>3. CASE Ids!MakeManager
  <2>3. PICK prefix \in Ids!DevicePrefix \ {0}, ident \in Idents :
          Ids!Make("manager", <<prefix, ident>>, Ids!Hex(<<prefix, ident>>))
    BY <1>3 DEF Ids!MakeManager
  <2>1. PICK bytes, shown :
          bytes = <<prefix, ident>> /\ shown = Ids!Hex(bytes) /\ Ids!Make("manager", bytes, shown)
    BY <2>3
  <2>2. ReadingOf("manager", shown) = {bytes}
    BY <2>1, ManagerIsRead DEF ReadingOf
  <2> QED
    BY <2>1, <2>2, IdentifierIsMade
<1>4. CASE Ids!MakeCertificate
  <2>4. PICK bytes \in Certificates : Ids!Make("certificate", bytes, Ids!SaveCertificate(bytes))
    BY <1>4 DEF Ids!MakeCertificate
  <2>1. PICK shown : shown = Ids!SaveCertificate(bytes) /\ Ids!Make("certificate", bytes, shown)
    BY <2>4
  <2>2. bytes \in Bytes
    BY NumbersAssumption DEF Bytes
  <2>3. ReadingOf("certificate", shown) = {bytes}
    BY <2>1, <2>2, CertificateIsRead DEF ReadingOf
  <2> QED
    BY <2>1, <2>3, IdentifierIsMade
<1>5. CASE Ids!Mistype
  <2>1. Ids!ParseGateway(text') = {}
    BY <1>5, MistypedIsRefused
  <2>2. id.kind = "gateway" /\ damage' # "none" /\ id' = id /\ parsed = Ids!Unread /\ parsed' = parsed
    BY <1>5 DEF Ids!Mistype
  <2>3. ReadingOf(id.kind, text)' = {}
    BY <2>1, <2>2 DEF ReadingOf
  <2> QED
    BY <2>2, <2>3 DEF IdentifiersInv, Ids!Unread
<1>6. CASE Ids!Parse
  <2>1. id' = id /\ text' = text /\ damage' = damage /\ id.kind # "none" /\ parsed' = ReadingOf(id.kind, text)
    BY <1>6 DEF Ids!Parse, ReadingOf
  <2>2. ReadingOf(id.kind, text)' = ReadingOf(id.kind, text) /\ (GatewayText(text))' = GatewayText(text)
    BY <2>1, Zenon DEF ReadingOf, GatewayText, Digits, Checked
  <2> QED
    BY <2>1, <2>2, Zenon DEF IdentifiersInv, Ids!Unread
<1>7. CASE UNCHANGED identifierVars
  <2>1. id' = id /\ text' = text /\ damage' = damage /\ parsed' = parsed
    BY <1>7 DEF identifierVars
  <2>2. ReadingOf(id.kind, text)' = ReadingOf(id.kind, text) /\ (GatewayText(text))' = GatewayText(text)
    BY <2>1, Zenon DEF ReadingOf, GatewayText, Digits, Checked
  <2> QED
    BY <2>1, <2>2, Zenon DEF IdentifiersInv, Ids!Unread
<1> QED
  BY <1>1, <1>2, <1>3, <1>4, <1>5, <1>6, <1>7, Zenon DEF Ids!IdentifiersNext

(* An identifier that is printed and parsed is the same identifier, that of  *)
(* a gateway with one wrong digit, two neighbours swapped or its last digit  *)
(* lost is refused, and the fingerprint of a certificate that has been saved *)
(* is that of its bytes: DAMM, NumberParser, DevicePrefix and the tokens of  *)
(* X509Fingerprint.                                                          *)
THEOREM IdentifiersAreReadBack == Spec => []Ids!IdentifiersReadBack
<1>1. Init => IdentifiersInv
  BY IdentifiersStart DEF Init
<1>2. IdentifiersInv /\ [Next]_vars => IdentifiersInv'
  <2> SUFFICES ASSUME IdentifiersInv, [Next]_vars PROVE IdentifiersInv'
    OBVIOUS
  <2>1. [Ids!IdentifiersNext]_identifierVars
    BY Zenon DEF Next, vars, InfoStep, ServerStep, ProductStep, CredentialsStep, IdentifierStep, StatisticsStep,
      TransactionStep, SslStep, GeneratorStep
  <2> QED
    BY <2>1, IdentifiersKeep
<1>3. IdentifiersInv => Ids!IdentifiersReadBack
  BY DEF IdentifiersInv, Ids!IdentifiersReadBack
<1> QED
  BY <1>1, <1>2, <1>3, PTL DEF Spec
-----------------------------------------------------------------------------
(* Statistics.  What the collector keeps of a module stands for what has   *)
(* been measured of it (SamplesKept): each sample is at one place of the   *)
(* history, and the numbers printed are those of the recent ones.          *)
(* A list of the elements of a set.                                        *)
LEMMA OneByOne ==
  ASSUME NEW A, NEW S, NEW place
  PROVE  place \in Bijection(A, S) <=>
           /\ place \in [A -> S]
           /\ \A i, j \in A : place[i] = place[j] => i = j
           /\ \A x \in S : \E i \in A : place[i] = x
<1>1. place \in Injection(A, S) <=> place \in [A -> S] /\ \A i, j \in A : place[i] = place[j] => i = j
  <2>1. place \in Injection(A, S) <=> place \in [A -> S] /\ IsInjective(place)
    BY DEF Injection
  <2>2. ASSUME place \in [A -> S]
        PROVE  IsInjective(place) <=> \A i, j \in A : place[i] = place[j] => i = j
    BY <2>2 DEF IsInjective
  <2> QED
    BY <2>1, <2>2
<1>2. place \in Surjection(A, S) <=> place \in [A -> S] /\ \A x \in S : \E i \in A : place[i] = x
  BY Zenon DEF Surjection
<1> QED
  BY Zenon, <1>1, <1>2 DEF Bijection

(* What holds of the empty set and is kept when an element is added holds  *)
(* of every finite set.                                                    *)
LEMMA ElementByElement ==
  ASSUME NEW S, IsFiniteSet(S), NEW Good, {} \in Good,
         \A T \in SUBSET S, x \in S : T \in Good /\ x \notin T => T \cup {x} \in Good
  PROVE  S \in Good
<1>1. PICK n \in Nat : ExistsBijection(1..n, S)
  BY FS_NatBijection
<1>2. PICK list \in Bijection(1..n, S) : TRUE
  BY <1>1 DEF ExistsBijection
<1>3. /\ list \in [1..n -> S]
      /\ \A i, j \in 1..n : list[i] = list[j] => i = j
      /\ \A x \in S : \E i \in 1..n : list[i] = x
  BY <1>2, OneByOne
<1> DEFINE Front(k) == {list[i] : i \in 1..k}
           Reached == {k \in 0..n : Front(k) \in Good}
<1>4. 0 \in Reached
  <2>1. Front(0) = {}
    OBVIOUS
  <2> HIDE DEF Front
  <2>2. Front(0) \in Good
    BY <2>1
  <2> QED
    BY <2>2
<1>5. ASSUME NEW k \in 1..n, k - 1 \in Reached PROVE k \in Reached
  <2>1. 1..k = (1..(k - 1)) \cup {k}
    OBVIOUS
  <2>2. Front(k) = Front(k - 1) \cup {list[k]}
    BY <2>1
  <2>3. Front(k - 1) \subseteq S /\ list[k] \in S /\ list[k] \notin Front(k - 1)
    BY <1>3
  <2>4. Front(k - 1) \in Good
    BY <1>5
  <2> HIDE DEF Front
  <2>5. Front(k) \in Good
    BY <2>2, <2>3, <2>4
  <2> QED
    BY <2>5
<1>6. \A k \in 0..n : k \in Reached
  <2> HIDE DEF Reached
  <2> QED
    BY <1>4, <1>5, UpTo
<1>7. Front(n) \in Good
  BY <1>6
<1>8. Front(n) = S
  BY <1>3
<1> QED
  BY <1>7, <1>8

(* Of finitely many numbers one is the least and one the largest.          *)
LEMMA LeastNumber ==
  ASSUME NEW S, IsFiniteSet(S), S \subseteq Int, S # {}
  PROVE  \E x \in S : \A y \in S : x <= y
<1> DEFINE Good == {T \in SUBSET S : T = {} \/ \E x \in T : \A y \in T : x <= y}
<1>1. ASSUME NEW T \in SUBSET S, NEW z \in S, T \in Good PROVE T \cup {z} \in Good
  <2>1. CASE T = {}
    BY <2>1
  <2>2. CASE T # {}
    <3>1. PICK x \in T : \A y \in T : x <= y
      BY <1>1, <2>2
    <3>2. CASE x <= z
      BY <3>1, <3>2
    <3>3. CASE ~ (x <= z)
      <4>1. \A y \in T : z <= y
        BY <3>1, <3>3
      <4> QED
        BY <4>1
    <3> QED
      BY <3>2, <3>3
  <2> QED
    BY <2>1, <2>2
<1>2. S \in Good
  <2>1. {} \in Good
    OBVIOUS
  <2> HIDE DEF Good
  <2> QED
    BY <1>1, <2>1, ElementByElement
<1> QED
  BY <1>2

LEMMA MostNumber ==
  ASSUME NEW S, IsFiniteSet(S), S \subseteq Int, S # {}
  PROVE  \E x \in S : \A y \in S : y <= x
<1> DEFINE Good == {T \in SUBSET S : T = {} \/ \E x \in T : \A y \in T : y <= x}
<1>1. ASSUME NEW T \in SUBSET S, NEW z \in S, T \in Good PROVE T \cup {z} \in Good
  <2>1. CASE T = {}
    BY <2>1
  <2>2. CASE T # {}
    <3>1. PICK x \in T : \A y \in T : y <= x
      BY <1>1, <2>2
    <3>2. CASE z <= x
      BY <3>1, <3>2
    <3>3. CASE ~ (z <= x)
      <4>1. \A y \in T : y <= z
        BY <3>1, <3>3
      <4> QED
        BY <4>1
    <3> QED
      BY <3>2, <3>3
  <2> QED
    BY <2>1, <2>2
<1>2. S \in Good
  <2>1. {} \in Good
    OBVIOUS
  <2> HIDE DEF Good
  <2> QED
    BY <1>1, <2>1, ElementByElement
<1> QED
  BY <1>2

(* As many elements are listed as there are places for them.               *)
PlacedAt(place, T) == {place[i] : i \in T}

LEMMA PlacesCounted ==
  ASSUME NEW n \in Nat, NEW S, NEW place \in Bijection(1..n, S), NEW T \in SUBSET (1..n)
  PROVE  Cardinality(PlacedAt(place, T)) = Cardinality(T)
<1> DEFINE listed == {place[i] : i \in T}
           part == [i \in T |-> place[i]]
<1>1. IsFiniteSet(T)
  <2>1. IsFiniteSet(1..n)
    BY FS_Interval
  <2> QED
    BY <2>1, FS_Subset
<1>2. part \in Bijection(T, listed)
  <2>1. place \in [1..n -> S] /\ \A i, j \in 1..n : place[i] = place[j] => i = j
    BY OneByOne
  <2>2. /\ part \in [T -> listed]
        /\ \A i, j \in T : part[i] = part[j] => i = j
        /\ \A x \in listed : \E i \in T : part[i] = x
    BY <2>1
  <2> HIDE DEF part, listed
  <2> QED
    BY <2>2, OneByOne
<1>3. ExistsBijection(T, listed)
  BY <1>2 DEF ExistsBijection
<1> HIDE DEF listed, part
<1>4. IsFiniteSet(listed) /\ Cardinality(listed) = Cardinality(T)
  BY <1>1, <1>3, FS_Bijection
<1> QED
  BY <1>4 DEF listed, PlacedAt

LEMMA ListedCounted ==
  ASSUME NEW n \in Nat, NEW S, NEW place \in Bijection(1..n, S)
  PROVE  IsFiniteSet(S) /\ Cardinality(S) = n
<1>1. IsFiniteSet(1..n) /\ Cardinality(1..n) = n
  BY FS_Interval
<1>2. ExistsBijection(1..n, S)
  BY DEF ExistsBijection
<1> QED
  BY <1>1, <1>2, FS_Bijection

(* Sums: the recursive function SumOf is made with.                        *)
OneOf(some) == CHOOSE k \in some : TRUE
SumStep(f, number, some) == IF some = {} THEN 0 ELSE number[OneOf(some)] + f[some \ {OneOf(some)}]
Sums(f, number, keys) ==
  DOMAIN f = SUBSET keys /\ \A some \in SUBSET keys : f[some] = SumStep(f, number, some)
Summands(number, keys) == IsFiniteSet(keys) /\ \A key \in keys : number[key] \in Int

LEMMA OneLess ==
  ASSUME NEW some, some # {}, IsFiniteSet(some)
  PROVE  /\ OneOf(some) \in some /\ IsFiniteSet(some \ {OneOf(some)})
         /\ Cardinality(some) \in Nat \ {0}
         /\ Cardinality(some \ {OneOf(some)}) = Cardinality(some) - 1
<1>1. OneOf(some) \in some
  BY DEF OneOf
<1>2. Cardinality(some) \in Nat /\ (Cardinality(some) = 0 <=> some = {})
  BY FS_CardinalityType, FS_EmptySet
<1> QED
  BY <1>1, <1>2, FS_RemoveElement

LEMMA SubsetCounted ==
  ASSUME NEW keys, IsFiniteSet(keys), NEW some \in SUBSET keys
  PROVE  IsFiniteSet(some) /\ Cardinality(some) \in 0..Cardinality(keys)
<1>1. IsFiniteSet(some) /\ Cardinality(some) <= Cardinality(keys)
  BY FS_Subset
<1> QED
  BY <1>1, FS_CardinalityType

LEMMA SumStepTyped ==
  ASSUME NEW number, NEW keys, Summands(number, keys), NEW some \in SUBSET keys,
         NEW f \in [SUBSET keys -> Int]
  PROVE  SumStep(f, number, some) \in Int
<1>1. CASE some = {}
  BY <1>1 DEF SumStep
<1>2. CASE some # {}
  <2>1. OneOf(some) \in some
    BY <1>2 DEF OneOf
  <2>2. f[some \ {OneOf(some)}] \in Int /\ number[OneOf(some)] \in Int
    BY <2>1 DEF Summands
  <2> QED
    BY <1>2, <2>2 DEF SumStep
<1> QED
  BY <1>1, <1>2

LEMMA SumsExist ==
  ASSUME NEW number, NEW keys, Summands(number, keys)
  PROVE  \E f \in [SUBSET keys -> Int] : Sums(f, number, keys)
<1> DEFINE Fitting(f, m) ==
             /\ f \in [SUBSET keys -> Int]
             /\ \A some \in SUBSET keys : Cardinality(some) <= m => f[some] = SumStep(f, number, some)
<1>0. IsFiniteSet(keys)
  BY DEF Summands
<1>1. PICK n \in Nat : n = Cardinality(keys)
  BY <1>0, FS_CardinalityType
<1> DEFINE Good == {m \in 0..n : \E f : Fitting(f, m)}
<1>2. 0 \in Good
  <2> DEFINE g == [some \in SUBSET keys |-> 0]
  <2>1. \A some \in SUBSET keys : Cardinality(some) <= 0 => some = {}
    BY <1>0, SubsetCounted, FS_EmptySet
  <2>2. Fitting(g, 0)
    BY <2>1 DEF SumStep
  <2> HIDE DEF Fitting
  <2> QED
    BY <2>2
<1>3. ASSUME NEW m \in 1..n, m - 1 \in Good PROVE m \in Good
  <2>1. PICK f : Fitting(f, m - 1)
    BY <1>3
  <2> DEFINE g == [some \in SUBSET keys |->
                     IF Cardinality(some) = m THEN SumStep(f, number, some) ELSE f[some]]
  <2>2. g \in [SUBSET keys -> Int]
    BY <2>1, SumStepTyped
  <2>3. \A some \in SUBSET keys :
          g[some] = IF Cardinality(some) = m THEN SumStep(f, number, some) ELSE f[some]
    OBVIOUS
  <2> HIDE DEF g
  <2>4. ASSUME NEW some \in SUBSET keys, Cardinality(some) <= m
        PROVE  g[some] = SumStep(g, number, some) 
    <3>1. IsFiniteSet(some) /\ Cardinality(some) \in 0..n
      BY <1>0, <1>1, SubsetCounted
    <3>2. CASE some = {}
      <4>1. Cardinality(some) = 0
        BY <3>2, FS_EmptySet
      <4>2. g[some] = f[some] /\ f[some] = SumStep(f, number, some)
        BY <2>1, <2>3, <4>1
      <4> QED
        BY <3>2, <4>2 DEF SumStep
    <3>3. CASE some # {}
      <4>1. /\ OneOf(some) \in some
            /\ Cardinality(some \ {OneOf(some)}) = Cardinality(some) - 1
        BY <3>1, <3>3, OneLess
      <4>2. some \ {OneOf(some)} \in SUBSET keys
        OBVIOUS
      <4>3. g[some \ {OneOf(some)}] = f[some \ {OneOf(some)}]
        BY <2>3, <2>4, <3>1, <4>1, <4>2
      <4>4. SumStep(g, number, some) = SumStep(f, number, some)
        BY <3>3, <4>3 DEF SumStep
      <4>5. g[some] = SumStep(f, number, some)
        BY <2>1, <2>3, <2>4, <3>1
      <4> QED
        BY <4>4, <4>5
    <3> QED
      BY <3>2, <3>3
  <2>5. Fitting(g, m)
    BY <2>2, <2>4
  <2> HIDE DEF Fitting
  <2>6. m \in 0..n
    OBVIOUS
  <2> QED
    BY <2>5, <2>6
<1>4. n \in Good
  <2>1. \A k \in 0..n : k \in Good
    <3> HIDE DEF Good
    <3> QED
      BY <1>2, <1>3, UpTo
  <2> HIDE DEF Good
  <2> QED
    BY <2>1
<1>5. PICK f : Fitting(f, n)
  BY <1>4
<1>6. \A some \in SUBSET keys : Cardinality(some) <= n
  BY <1>0, <1>1, SubsetCounted
<1> QED
  BY <1>5, <1>6 DEF Sums

LEMMA SumsAgree ==
  ASSUME NEW number, NEW keys, NEW more, keys \subseteq more, IsFiniteSet(keys),
         NEW f, NEW g, Sums(f, number, keys), Sums(g, number, more)
  PROVE  \A some \in SUBSET keys : f[some] = g[some]
<1>1. PICK n \in Nat : n = Cardinality(keys)
  BY FS_CardinalityType
<1> DEFINE Good == {m \in 0..n : \A some \in SUBSET keys : Cardinality(some) <= m => f[some] = g[some]}
<1>2. f[{}] = g[{}]
  BY DEF Sums, SumStep
<1>3. 0 \in Good
  <2>1. \A some \in SUBSET keys : Cardinality(some) <= 0 => some = {}
    BY SubsetCounted, FS_EmptySet
  <2> QED
    BY <1>2, <2>1
<1>4. ASSUME NEW m \in 1..n, m - 1 \in Good PROVE m \in Good
  <2>1. ASSUME NEW some \in SUBSET keys, Cardinality(some) <= m PROVE f[some] = g[some]
    <3>1. CASE some = {}
      BY <1>2, <3>1
    <3>2. CASE some # {}
      <4>1. IsFiniteSet(some)
        BY SubsetCounted
      <4>2. /\ OneOf(some) \in some /\ Cardinality(some) \in Nat
            /\ Cardinality(some \ {OneOf(some)}) = Cardinality(some) - 1
        BY <3>2, <4>1, OneLess
      <4>3. some \ {OneOf(some)} \in SUBSET keys
        OBVIOUS
      <4>4. Cardinality(some \ {OneOf(some)}) <= m - 1
        BY <2>1, <4>2
      <4>5. f[some \ {OneOf(some)}] = g[some \ {OneOf(some)}]
        BY <1>4, <4>3, <4>4
      <4>6. SumStep(f, number, some) = SumStep(g, number, some)
        BY <4>5 DEF SumStep
      <4> QED
        BY <4>6 DEF Sums
    <3> QED
      BY <3>1, <3>2
  <2> QED
    BY <2>1
<1>5. n \in Good
  <2>1. \A k \in 0..n : k \in Good
    <3> HIDE DEF Good
    <3> QED
      BY <1>3, <1>4, UpTo
  <2> QED
    BY <2>1
<1>6. \A some \in SUBSET keys : Cardinality(some) <= n
  BY <1>1, SubsetCounted
<1> QED
  BY <1>5, <1>6

LEMMA SumIs ==
  ASSUME NEW number, NEW keys, Summands(number, keys)
  PROVE  \E f \in [SUBSET keys -> Int] : Sums(f, number, keys) /\ Collector!SumOf(number, keys) = f[keys]
<1>1. PICK f \in [SUBSET keys -> Int] : Sums(f, number, keys)
  BY SumsExist
<1> DEFINE Made(h) == h = [some \in SUBSET keys |->
                             IF some = {} THEN 0
                             ELSE LET key == CHOOSE k \in some : TRUE
                                  IN  number[key] + h[some \ {key}]]
           g == CHOOSE h : Made(h)
<1>2. \A h : Made(h) => Sums(h, number, keys)
  BY DEF Sums, SumStep, OneOf
<1>3. Made(f)
  BY <1>1 DEF Sums, SumStep, OneOf
<1>4. Collector!SumOf(number, keys) = g[keys]
  BY Zenon DEF Collector!SumOf
<1> HIDE DEF Made
<1>5. Sums(g, number, keys)
  BY <1>2, <1>3
<1> HIDE DEF g
<1>6. g[keys] = f[keys]
  BY <1>1, <1>5, SumsAgree DEF Summands
<1> QED
  BY <1>1, <1>4, <1>6

Adding(f, number, keys) ==
  \A some \in SUBSET keys, key \in keys : key \notin some => f[some \cup {key}] = f[some] + number[key]

LEMMA SumsAdd ==
  ASSUME NEW number, NEW keys, Summands(number, keys),
         NEW f \in [SUBSET keys -> Int], Sums(f, number, keys)
  PROVE  Adding(f, number, keys)
<1>0. IsFiniteSet(keys)
  BY DEF Summands
<1>1. PICK n \in Nat : n = Cardinality(keys)
  BY <1>0, FS_CardinalityType
<1> DEFINE Adds(some, key) == f[some \cup {key}] = f[some] + number[key]
           Good == {m \in 0..n : \A some \in SUBSET keys, key \in keys :
                                   Cardinality(some) <= m /\ key \notin some => Adds(some, key)}
<1>2. ASSUME NEW some \in SUBSET keys, NEW key \in keys, key \notin some,
             OneOf(some \cup {key}) = key
      PROVE  Adds(some, key)
  <2> DEFINE all == some \cup {key}
  <2>1. all \in SUBSET keys /\ all # {} /\ all \ {key} = some
    BY <1>2
  <2>2. f[all] = SumStep(f, number, all)
    BY <2>1 DEF Sums
  <2>3. SumStep(f, number, all) = number[key] + f[some]
    <3> HIDE DEF all
    <3>1. OneOf(all) = key
      BY <1>2 DEF all
    <3> QED
      BY <2>1, <3>1 DEF SumStep
  <2>4. number[key] \in Int /\ f[some] \in Int
    BY DEF Summands
  <2> QED
    BY <2>2, <2>3, <2>4
<1>3. 0 \in Good
  <2>1. ASSUME NEW some \in SUBSET keys, NEW key \in keys, Cardinality(some) <= 0, key \notin some
        PROVE  Adds(some, key)
    <3>1. some = {}
      BY <1>0, <2>1, SubsetCounted, FS_EmptySet
    <3>2. OneOf(some \cup {key}) = key
      BY <3>1 DEF OneOf
    <3> HIDE DEF Adds
    <3> QED
      BY <1>2, <2>1, <3>2
  <2> HIDE DEF Adds
  <2> QED
    BY <2>1
<1>4. ASSUME NEW m \in 1..n, m - 1 \in Good PROVE m \in Good
  <2>1. ASSUME NEW some \in SUBSET keys, NEW key \in keys, Cardinality(some) <= m, key \notin some
        PROVE  Adds(some, key)
    <3> DEFINE all == some \cup {key}
    <3>1. all \in SUBSET keys /\ all # {}
      OBVIOUS
    <3>2. PICK other : other = OneOf(all)
      OBVIOUS
    <3>3. other \in all
      BY <3>1, <3>2 DEF OneOf
    <3>4. CASE other = key
      BY <1>2, <2>1, <3>2, <3>4
    <3>5. CASE other # key
      <4> DEFINE rest == some \ {other}
      <4>1. other \in some /\ other \in keys
        BY <3>3, <3>5
      <4>2. rest \in SUBSET keys /\ key \notin rest /\ other \notin rest
        BY <2>1
      <4>3. rest \cup {other} = some /\ all \ {other} = rest \cup {key}
        BY <2>1, <3>5, <4>1
      <4>4. Cardinality(rest) <= m - 1
        <5>1. IsFiniteSet(some) /\ Cardinality(some) \in Nat
          BY <1>0, SubsetCounted, FS_CardinalityType
        <5>2. Cardinality(rest) = Cardinality(some) - 1
          BY <4>1, <5>1, FS_RemoveElement
        <5> QED
          BY <2>1, <5>1, <5>2
      <4>5. f[all] = SumStep(f, number, all)
        BY <3>1 DEF Sums
      <4> HIDE DEF all, rest
      <4>6. f[all] = number[other] + f[rest \cup {key}]
        BY <3>1, <3>2, <4>3, <4>5 DEF SumStep
      <4>7. f[rest \cup {key}] = f[rest] + number[key]
        BY <1>4, <4>2, <4>4
      <4>8. f[rest \cup {other}] = f[rest] + number[other]
        BY <1>4, <4>1, <4>2, <4>4
      <4>9. number[other] \in Int /\ number[key] \in Int /\ f[rest] \in Int
        BY <4>1, <4>2 DEF Summands
      <4>10. f[some] = f[rest] + number[other]
        BY Zenon, <4>3, <4>8
      <4>11. f[all] = number[other] + (f[rest] + number[key])
        BY Zenon, <4>6, <4>7
      <4>12. f[all] = f[some] + number[key]
        BY <4>9, <4>10, <4>11
      <4> QED
        BY <4>12 DEF all
    <3> QED
      BY <3>4, <3>5
  <2> HIDE DEF Adds
  <2> QED
    BY <2>1
<1>5. n \in Good
  <2>1. \A k \in 0..n : k \in Good
    <3> HIDE DEF Good
    <3> QED
      BY <1>3, <1>4, UpTo
  <2> HIDE DEF Good
  <2> QED
    BY <2>1
<1>6. \A some \in SUBSET keys : Cardinality(some) <= n
  BY <1>0, <1>1, SubsetCounted
<1> QED
  BY <1>5, <1>6 DEF Adding

(* A sum grows by what is added, whichever that is.                        *)
LEMMA SumAdded ==
  ASSUME NEW number, NEW keys, NEW key, key \notin keys, Summands(number, keys \cup {key})
  PROVE  /\ Collector!SumOf(number, keys) \in Int
         /\ Collector!SumOf(number, keys \cup {key}) = Collector!SumOf(number, keys) + number[key]
<1>1. PICK more : more = keys \cup {key}
  OBVIOUS
<1>2. Summands(number, more) /\ keys \in SUBSET more /\ key \in more
  BY <1>1
<1>3. Summands(number, keys)
  <2>1. IsFiniteSet(keys)
    BY <1>2, SubsetCounted DEF Summands
  <2> QED
    BY <1>2, <2>1 DEF Summands
<1>4. PICK f \in [SUBSET more -> Int] : Sums(f, number, more) /\ Collector!SumOf(number, more) = f[more]
  BY <1>2, SumIs
<1>5. PICK g \in [SUBSET keys -> Int] : Sums(g, number, keys) /\ Collector!SumOf(number, keys) = g[keys]
  BY <1>3, SumIs
<1>6. g[keys] = f[keys]
  <2>1. keys \subseteq more /\ IsFiniteSet(keys) /\ keys \in SUBSET keys
    BY <1>2, <1>3 DEF Summands
  <2>2. \A some \in SUBSET keys : g[some] = f[some]
    BY <1>4, <1>5, <2>1, SumsAgree
  <2> QED
    BY <2>1, <2>2
<1>7. f[keys \cup {key}] = f[keys] + number[key]
  <2>1. Adding(f, number, more)
    BY <1>2, <1>4, SumsAdd
  <2> QED
    BY Zenon, <1>2, <2>1 DEF Adding
<1>8. g[keys] \in Int
  OBVIOUS
<1> QED
  BY <1>1, <1>4, <1>5, <1>6, <1>7, <1>8

LEMMA SumOfNothing ==
  ASSUME NEW number
  PROVE  Collector!SumOf(number, {}) = 0
<1>1. Summands(number, {})
  BY FS_EmptySet DEF Summands
<1>2. PICK f \in [SUBSET {} -> Int] : Sums(f, number, {}) /\ Collector!SumOf(number, {}) = f[{}]
  BY <1>1, SumIs
<1> QED
  BY <1>2 DEF Sums, SumStep

(* What is counted in Statistics is counted as everywhere.                 *)
LEMMA SameCount ==
  ASSUME NEW S
  PROVE  Collector!Cardinality(S) = Cardinality(S)
BY Zenon DEF Collector!Cardinality, Cardinality

(* The k-th of some numbers has fewer than k of them before it and at      *)
(* least k up to it.                                                       *)
Below(values, v) == {i \in DOMAIN values : values[i] < v}
AtMost(values, v) == {i \in DOMAIN values : values[i] <= v}
AtLeast(values, v) == {i \in DOMAIN values : values[i] >= v}
Among(values) == {values[i] : i \in DOMAIN values}
IsRanked(values, k, v) == Cardinality(Below(values, v)) < k /\ Cardinality(AtMost(values, v)) >= k

LEMMA CountTo ==
  ASSUME NEW n \in Nat
  PROVE  IsFiniteSet(1..n) /\ Cardinality(1..n) = n
BY FS_Interval

LEMMA CountedPlaces ==
  ASSUME NEW values \in Seq(Int), NEW T \in SUBSET DOMAIN values
  PROVE  IsFiniteSet(T) /\ Cardinality(T) \in 0..Len(values)
<1>1. PICK n \in Nat : n = Len(values) /\ DOMAIN values = 1..n
  BY LenProperties
<1>2. IsFiniteSet(1..n) /\ Cardinality(1..n) = n
  BY FS_Interval
<1> QED
  BY <1>1, <1>2, SubsetCounted

LEMMA AmongFinite ==
  ASSUME NEW values \in Seq(Int)
  PROVE  IsFiniteSet(Among(values)) /\ Among(values) \subseteq Int
<1>1. PICK n \in Nat : n = Len(values) /\ DOMAIN values = 1..n /\ values \in [1..n -> Int]
  BY LenProperties
<1>2. values \in Surjection(1..n, Among(values))
  BY <1>1 DEF Surjection, Among
<1>3. ExistsSurjection(1..n, Among(values))
  BY <1>2 DEF ExistsSurjection
<1> QED
  BY <1>1, <1>3, FS_NatSurjection DEF Among

LEMMA RankedExists ==
  ASSUME NEW values \in Seq(Int), NEW k \in 1..Len(values)
  PROVE  \E v \in Among(values) : IsRanked(values, k, v)
<1>1. PICK n \in Nat : n = Len(values) /\ DOMAIN values = 1..n /\ values \in [1..n -> Int]
  BY LenProperties
<1>2. IsFiniteSet(Among(values)) /\ Among(values) \subseteq Int /\ Among(values) # {}
  BY <1>1, AmongFinite DEF Among
<1> DEFINE Enough == {v \in Among(values) : Cardinality(AtMost(values, v)) >= k}
<1>3. Enough # {}
  <2>1. PICK m \in Among(values) : \A y \in Among(values) : y <= m
    BY <1>2, MostNumber
  <2>2. AtMost(values, m) = 1..n
    BY <1>1, <2>1 DEF AtMost, Among
  <2>3. Cardinality(AtMost(values, m)) = n
    BY <2>2, FS_Interval
  <2> QED
    BY <1>1, <2>1, <2>3
<1>4. PICK v \in Enough : \A y \in Enough : v <= y
  <2>1. IsFiniteSet(Enough) /\ Enough \subseteq Int
    BY <1>2, SubsetCounted
  <2> HIDE DEF Enough
  <2> QED
    BY <1>3, <2>1, LeastNumber
<1>5. ASSUME Cardinality(Below(values, v)) >= k PROVE FALSE
  <2> DEFINE Less == {y \in Among(values) : y < v}
  <2>1. Less # {}
    <3>1. Below(values, v) # {}
      <4> SUFFICES ASSUME Below(values, v) = {} PROVE FALSE
        OBVIOUS
      <4>1. Cardinality(Below(values, v)) = 0
        BY Zenon, FS_EmptySet
      <4> QED
        BY <1>5, <4>1
    <3> QED
      BY <3>1 DEF Below, Among
  <2>2. PICK m \in Less : \A y \in Less : y <= m
    <3>1. IsFiniteSet(Less) /\ Less \subseteq Int
      BY <1>2, SubsetCounted
    <3> HIDE DEF Less
    <3> QED
      BY <2>1, <3>1, MostNumber
  <2>3. m \in Int /\ v \in Int /\ m < v
    BY <1>2, <1>4, <2>2
  <2>4. AtMost(values, m) = Below(values, v)
    <3>1. ASSUME NEW i \in 1..n PROVE values[i] <= m <=> values[i] < v
      <4>1. values[i] \in Int /\ values[i] \in Among(values)
        BY <1>1 DEF Among
      <4>2. values[i] < v => values[i] <= m
        BY <2>2, <4>1
      <4> QED
        BY <2>3, <4>1, <4>2
    <3> QED
      BY <1>1, <3>1 DEF AtMost, Below
  <2>5. m \in Enough
    BY <1>5, <2>2, <2>4
  <2>6. v <= m
    BY <1>4, <2>5
  <2> QED
    BY <2>3, <2>6
<1>6. Cardinality(Below(values, v)) \in Int
  BY CountedPlaces DEF Below
<1> QED
  BY <1>4, <1>5, <1>6 DEF IsRanked

LEMMA RankedIs ==
  ASSUME NEW values \in Seq(Int), NEW k \in 1..Len(values)
  PROVE  Collector!Ranked(values, k) \in Among(values) /\ IsRanked(values, k, Collector!Ranked(values, k))
<1>1. \E v \in {values[i] : i \in DOMAIN values} :
        /\ Collector!Cardinality({i \in DOMAIN values : values[i] < v}) < k
        /\ Collector!Cardinality({i \in DOMAIN values : values[i] <= v}) >= k
  <2>1. PICK v \in Among(values) : IsRanked(values, k, v)
    BY RankedExists
  <2>2. /\ Collector!Cardinality(Below(values, v)) < k
        /\ Collector!Cardinality(AtMost(values, v)) >= k
    BY <2>1, SameCount DEF IsRanked
  <2> QED
    BY <2>1, <2>2 DEF Among, Below, AtMost
<1>2. PICK v : v = Collector!Ranked(values, k)
  OBVIOUS
<1>3. v = CHOOSE w \in {values[i] : i \in DOMAIN values} :
            /\ Collector!Cardinality({i \in DOMAIN values : values[i] < w}) < k
            /\ Collector!Cardinality({i \in DOMAIN values : values[i] <= w}) >= k
  BY Zenon, <1>2 DEF Collector!Ranked
<1>4. /\ v \in {values[i] : i \in DOMAIN values}
      /\ Collector!Cardinality({i \in DOMAIN values : values[i] < v}) < k
      /\ Collector!Cardinality({i \in DOMAIN values : values[i] <= v}) >= k
  BY <1>1, <1>3
<1>5. v \in Among(values) /\ IsRanked(values, k, v)
  <2>1. /\ v \in Among(values)
        /\ Collector!Cardinality(Below(values, v)) < k
        /\ Collector!Cardinality(AtMost(values, v)) >= k
    BY Zenon, <1>4 DEF Among, Below, AtMost
  <2> QED
    BY <2>1, SameCount DEF IsRanked
<1> QED
  BY <1>2, <1>5

(* Of an even number of numbers the two in the middle have half of them up *)
(* to the lower and half of them from the higher on.                       *)
InTheMiddle(values, low, high) ==
  /\ low # high
  /\ \A i \in DOMAIN values : values[i] <= values[low] \/ values[i] >= values[high]
  /\ 2 * Cardinality(AtMost(values, values[low])) >= Len(values)
  /\ 2 * Cardinality(AtLeast(values, values[high])) >= Len(values)

LEMMA TwoOfThem ==
  ASSUME NEW T, IsFiniteSet(T), Cardinality(T) >= 2
  PROVE  \E i, j \in T : i # j
<1>1. Cardinality(T) \in Nat
  BY FS_CardinalityType
<1>2. PICK i \in T : TRUE
  BY FS_EmptySet
<1>3. T # {i}
  <2>1. Cardinality({i}) = 1
    BY Zenon, FS_Singleton
  <2> QED
    BY <2>1
<1> QED
  BY <1>2, <1>3

LEMMA MiddleIsMedian ==
  ASSUME NEW values \in Seq(Int), Len(values) # 0, Len(values) % 2 = 0
  PROVE  \E low, high \in DOMAIN values :
           InTheMiddle(values, low, high) /\ Collector!Median2(values) = values[low] + values[high]
<1>1. PICK n \in Nat : n = Len(values) /\ DOMAIN values = 1..n /\ values \in [1..n -> Int]
  BY LenProperties
<1>2. PICK half \in Nat : half = n \div 2
  OBVIOUS
<1>3. n = 2 * half /\ half \in 1..n /\ half + 1 \in 1..n
  <2>1. n # 0 /\ n % 2 = 0
    BY <1>1
  <2>2. n = 2 * half
    BY <1>2, <2>1
  <2> QED
    BY <2>1, <2>2
<1>4. PICK a : a = Collector!Ranked(values, half)
  OBVIOUS
<1>5. PICK b : b = Collector!Ranked(values, half + 1)
  OBVIOUS
<1>6. a \in Among(values) /\ IsRanked(values, half, a) /\ b \in Among(values) /\ IsRanked(values, half + 1, b)
  BY <1>1, <1>3, <1>4, <1>5, RankedIs
<1>7. Collector!Median2(values) = a + b
  BY <1>1, <1>2, <1>4, <1>5 DEF Collector!Median2
<1>8. \A T \in SUBSET (1..n) : IsFiniteSet(T) /\ Cardinality(T) \in 0..n
  BY <1>1, CountedPlaces
<1>9. a \in Int /\ b \in Int /\ (\E i \in 1..n : a = values[i]) /\ \E i \in 1..n : b = values[i]
  BY <1>1, <1>6 DEF Among
<1>10. /\ AtMost(values, a) \in SUBSET (1..n) /\ Below(values, a) \in SUBSET (1..n)
       /\ AtMost(values, b) \in SUBSET (1..n) /\ Below(values, b) \in SUBSET (1..n)
       /\ AtLeast(values, b) \in SUBSET (1..n)
  BY <1>1 DEF AtMost, Below, AtLeast
<1>11. PICK am, ba, bb \in Nat :
         /\ am = Cardinality(AtMost(values, a)) /\ ba = Cardinality(Below(values, a))
         /\ bb = Cardinality(Below(values, b))
  BY <1>8, <1>10
<1>12. ba < half /\ half <= am /\ bb < half + 1
  BY <1>6, <1>11 DEF IsRanked
<1>13. Cardinality(AtMost(values, b)) >= half + 1
  BY <1>6 DEF IsRanked
<1>14. a <= b
  <2> SUFFICES ASSUME b < a PROVE FALSE
    BY <1>9
  <2>1. AtMost(values, b) \subseteq Below(values, a)
    BY <1>1, <1>9 DEF AtMost, Below
  <2>2. Cardinality(AtMost(values, b)) \in 0..ba
    BY <1>8, <1>10, <1>11, <2>1, SubsetCounted
  <2> QED
    BY <1>12, <1>13, <2>2
<1>15. \A i \in 1..n : values[i] <= a \/ values[i] >= b
  <2> SUFFICES ASSUME NEW i \in 1..n, values[i] > a, values[i] < b PROVE FALSE
    BY <1>1, <1>9
  <2> DEFINE up == AtMost(values, a) \cup {i}
  <2>1. i \notin AtMost(values, a)
    BY <1>1, <1>9 DEF AtMost
  <2>2. Cardinality(up) = am + 1
    BY <1>8, <1>10, <1>11, <2>1, FS_AddElement
  <2>3. up \subseteq Below(values, b)
    BY <1>1, <1>9 DEF AtMost, Below
  <2> HIDE DEF up
  <2>4. Cardinality(up) \in 0..bb
    BY <1>8, <1>10, <1>11, <2>3, SubsetCounted
  <2> QED
    BY <1>12, <2>2, <2>4
<1>16. Cardinality(AtLeast(values, b)) = n - bb
  <2>1. AtLeast(values, b) = (1..n) \ Below(values, b)
    BY <1>1, <1>9 DEF AtLeast, Below
  <2>2. (1..n) \cap Below(values, b) = Below(values, b)
    BY <1>10
  <2>3. IsFiniteSet(1..n) /\ Cardinality(1..n) = n
    BY Zenon, CountTo
  <2>4. Cardinality((1..n) \ Below(values, b)) = Cardinality(1..n) - Cardinality((1..n) \cap Below(values, b))
    BY <2>3, FS_Difference
  <2> QED
    BY Zenon, <1>11, <2>1, <2>2, <2>3, <2>4
<1>17. 2 * Cardinality(AtMost(values, a)) >= n /\ 2 * Cardinality(AtLeast(values, b)) >= n
  BY <1>3, <1>11, <1>12, <1>16
<1>18. PICK low \in 1..n, high \in 1..n : low # high /\ values[low] = a /\ values[high] = b
  <2>1. CASE a # b
    BY <1>9, <2>1
  <2>2. CASE a = b
    <3> DEFINE equal == AtMost(values, a) \ Below(values, a)
    <3>1. AtMost(values, a) \cap Below(values, a) = Below(values, a)
      BY <1>1, <1>9 DEF AtMost, Below
    <3>2. IsFiniteSet(equal) /\ Cardinality(equal) = am - ba
      <4>1. IsFiniteSet(AtMost(values, a))
        BY <1>8, <1>10
      <4>2. /\ IsFiniteSet(equal)
            /\ Cardinality(equal) = Cardinality(AtMost(values, a)) - Cardinality(AtMost(values, a) \cap Below(values, a))
        BY <4>1, FS_Difference
      <4> QED
        BY Zenon, <1>11, <3>1, <4>2
    <3>3. am >= half + 1
      BY <1>11, <1>13, <2>2
    <3>4. \A i \in equal : i \in 1..n /\ values[i] = a
      BY <1>1, <1>9 DEF AtMost, Below
    <3> HIDE DEF equal
    <3>5. \E i, j \in equal : i # j
      <4>1. Cardinality(equal) >= 2
        BY <1>12, <3>2, <3>3
      <4> QED
        BY <3>2, <4>1, TwoOfThem
    <3> QED
      BY <2>2, <3>4, <3>5
  <2> QED
    BY <2>1, <2>2
<1>19. InTheMiddle(values, low, high)
  BY <1>1, <1>15, <1>17, <1>18 DEF InTheMiddle
<1> QED
  BY <1>1, <1>7, <1>18, <1>19

(* What is collected.  A fact is a sample of a module of a device, at the  *)
(* place it has among what has been exported.                              *)
Amounts == {v \in Int : v <= Collector!Largest}
SampleSet == [time : Int, value : Amounts, valid : BOOLEAN]
ModuleSet == [module : Nat, values : Seq(SampleSet)]

OfIn(fact, device, module) == {at \in DOMAIN fact : fact[at].device = device /\ fact[at].module = module}

SamplesKept(values, fact, S) ==
  /\ values \in Seq(SampleSet) /\ S \subseteq DOMAIN fact
  /\ \E place \in Bijection(1..Len(values), S) : \A k \in 1..Len(values) : values[k] = fact[place[k]].sample

OneEach(modules) ==
  \A i, j \in DOMAIN modules : modules[i].module = modules[j].module => i = j
EachKept(modules, fact, device) ==
  \A i \in DOMAIN modules :
    modules[i].values # <<>> /\ SamplesKept(modules[i].values, fact, OfIn(fact, device, modules[i].module))
NoneMissing(modules, fact, device) ==
  \A at \in DOMAIN fact : fact[at].device = device =>
    \E i \in DOMAIN modules : modules[i].module = fact[at].module

ModulesKept(modules, fact, device) ==
  /\ modules \in Seq(ModuleSet) /\ OneEach(modules)
  /\ EachKept(modules, fact, device) /\ NoneMissing(modules, fact, device)

(* A fact more.                                                            *)
Grown(fact, more, at, device, module, sample) ==
  /\ at \notin DOMAIN fact /\ DOMAIN more = DOMAIN fact \cup {at}
  /\ more[at] = [device |-> device, module |-> module, sample |-> sample]
  /\ \A other \in DOMAIN fact : more[other] = fact[other]

LEMMA GrownOf ==
  ASSUME NEW fact, NEW more, NEW at, NEW device, NEW module, NEW sample,
         Grown(fact, more, at, device, module, sample)
  PROVE  /\ at \notin OfIn(fact, device, module)
         /\ OfIn(more, device, module) = OfIn(fact, device, module) \cup {at}
         /\ \A d, m : d # device \/ m # module => OfIn(more, d, m) = OfIn(fact, d, m)
<1>1. more[at].device = device /\ more[at].module = module
  BY DEF Grown
<1> QED
  BY <1>1 DEF Grown, OfIn

LEMMA KeptStill ==
  ASSUME NEW values, NEW fact, NEW more, NEW S, SamplesKept(values, fact, S),
         DOMAIN fact \subseteq DOMAIN more, \A at \in DOMAIN fact : more[at] = fact[at]
  PROVE  SamplesKept(values, more, S)
<1>1. PICK place \in Bijection(1..Len(values), S) : \A k \in 1..Len(values) : values[k] = fact[place[k]].sample
  BY DEF SamplesKept
<1>2. place \in [1..Len(values) -> S]
  BY OneByOne
<1>3. \A k \in 1..Len(values) : values[k] = more[place[k]].sample
  BY <1>1, <1>2 DEF SamplesKept
<1> QED
  BY <1>1, <1>3 DEF SamplesKept

(* One place more.                                                         *)
LEMMA PlaceMore ==
  ASSUME NEW n \in Nat, NEW S, NEW place \in Bijection(1..n, S), NEW at, at \notin S
  PROVE  \E longer \in Bijection(1..(n + 1), S \cup {at}) :
           longer[n + 1] = at /\ \A k \in 1..n : longer[k] = place[k]
<1>1. /\ place \in [1..n -> S] /\ \A i, j \in 1..n : place[i] = place[j] => i = j
      /\ \A x \in S : \E i \in 1..n : place[i] = x
  BY OneByOne
<1> DEFINE longer == [k \in 1..(n + 1) |-> IF k = n + 1 THEN at ELSE place[k]]
           all == S \cup {at}
<1>2. \A k \in 1..(n + 1) : k # n + 1 => k \in 1..n
  OBVIOUS
<1>3. n + 1 \in 1..(n + 1) /\ longer[n + 1] = at
  OBVIOUS
<1>4. \A i \in 1..n : i \in 1..(n + 1) /\ longer[i] = place[i]
  OBVIOUS
<1>5. longer \in [1..(n + 1) -> all]
  BY <1>1, <1>2
<1>6. \A i, j \in 1..(n + 1) : longer[i] = longer[j] => i = j
  BY <1>1, <1>2
<1>7. \A x \in all : \E i \in 1..(n + 1) : longer[i] = x
  <2> HIDE DEF longer
  <2> QED
    BY <1>1, <1>3, <1>4
<1> HIDE DEF longer, all
<1>8. longer \in Bijection(1..(n + 1), all)
  BY <1>5, <1>6, <1>7, OneByOne
<1> QED
  BY <1>3, <1>4, <1>8 DEF all

LEMMA KeptMore ==
  ASSUME NEW values, NEW fact, NEW more, NEW at, NEW device, NEW module, NEW sample \in SampleSet, NEW S,
         SamplesKept(values, fact, S), Grown(fact, more, at, device, module, sample)
  PROVE  SamplesKept(Append(values, sample), more, S \cup {at})
<1>1. PICK place \in Bijection(1..Len(values), S) : \A k \in 1..Len(values) : values[k] = fact[place[k]].sample
  BY DEF SamplesKept
<1>2. PICK n \in Nat : n = Len(values)
  BY LenProperties DEF SamplesKept
<1>3. place \in Bijection(1..n, S) /\ place \in [1..n -> S]
  BY <1>1, <1>2, OneByOne
<1>4. at \notin S
  BY DEF SamplesKept, Grown
<1>5. PICK all : all = S \cup {at}
  OBVIOUS
<1>6. PICK longer \in Bijection(1..(n + 1), all) : longer[n + 1] = at /\ \A k \in 1..n : longer[k] = place[k]
  BY <1>3, <1>4, <1>5, PlaceMore
<1>7. /\ Append(values, sample) \in Seq(SampleSet) /\ Len(Append(values, sample)) = n + 1
      /\ \A k \in 1..n : Append(values, sample)[k] = values[k]
      /\ Append(values, sample)[n + 1] = sample
  BY <1>2, AppendProperties DEF SamplesKept
<1>8. \A k \in 1..(n + 1) : Append(values, sample)[k] = more[longer[k]].sample
  <2>1. ASSUME NEW k \in 1..n PROVE Append(values, sample)[k] = more[longer[k]].sample
    <3>1. longer[k] = place[k] /\ place[k] \in DOMAIN fact
      BY <1>3, <1>6 DEF SamplesKept
    <3> QED
      BY <1>1, <1>2, <1>7, <3>1 DEF Grown
  <2>2. Append(values, sample)[n + 1] = more[longer[n + 1]].sample
    BY <1>6, <1>7 DEF Grown
  <2>3. \A k \in 1..(n + 1) : k # n + 1 => k \in 1..n
    OBVIOUS
  <2> QED
    BY <2>1, <2>2, <2>3
<1>9. all \subseteq DOMAIN more
  BY <1>5 DEF SamplesKept, Grown
<1>10. SamplesKept(Append(values, sample), more, all)
  BY <1>6, <1>7, <1>8, <1>9 DEF SamplesKept
<1> QED
  BY <1>5, <1>10

(* What belongs to other devices stays as it is.                           *)
LEMMA OthersKept ==
  ASSUME NEW fact, NEW more, NEW at, NEW device, NEW module, NEW sample,
         Grown(fact, more, at, device, module, sample),
         NEW modules, NEW other, other # device, ModulesKept(modules, fact, other)
  PROVE  ModulesKept(modules, more, other)
<1>1. EachKept(modules, more, other)
  <2> SUFFICES ASSUME NEW i \in DOMAIN modules
               PROVE  SamplesKept(modules[i].values, more, OfIn(more, other, modules[i].module))
    BY DEF EachKept, ModulesKept
  <2>1. OfIn(more, other, modules[i].module) = OfIn(fact, other, modules[i].module)
    BY GrownOf
  <2>2. SamplesKept(modules[i].values, fact, OfIn(fact, other, modules[i].module))
    BY DEF ModulesKept, EachKept
  <2>3. DOMAIN fact \subseteq DOMAIN more /\ \A o \in DOMAIN fact : more[o] = fact[o]
    BY DEF Grown
  <2>4. SamplesKept(modules[i].values, more, OfIn(fact, other, modules[i].module))
    BY <2>2, <2>3, KeptStill
  <2> QED
    BY <2>1, <2>4
<1>2. NoneMissing(modules, more, other)
  BY DEF NoneMissing, ModulesKept, Grown
<1> QED
  BY <1>1, <1>2 DEF ModulesKept

(* DeviceDataCollection::insertData()                                      *)
LEMMA ValueKept ==
  ASSUME NEW fact, NEW more, NEW at, NEW device, NEW value, NEW time, NEW modules,
         NEW sample \in SampleSet, sample = [time |-> time, value |-> value.value, valid |-> value.valid],
         value.module \in Nat,
         Grown(fact, more, at, device, value.module, sample), ModulesKept(modules, fact, device)
  PROVE  ModulesKept(Collector!InsertValue(modules, time, value), more, device)
<1>1. PICK m \in Nat : m = value.module
  OBVIOUS
<1>2. /\ OfIn(more, device, m) = OfIn(fact, device, m) \cup {at}
      /\ \A k : k # m => OfIn(more, device, k) = OfIn(fact, device, k)
  BY <1>1, GrownOf
<1>3. DOMAIN fact \subseteq DOMAIN more /\ \A o \in DOMAIN fact : more[o] = fact[o]
  BY DEF Grown
<1>4. /\ more[at].device = device /\ more[at].module = m
      /\ \A o \in DOMAIN more : o # at => o \in DOMAIN fact /\ more[o] = fact[o]
  BY <1>1 DEF Grown
<1>5. PICK n \in Nat : n = Len(modules) /\ DOMAIN modules = 1..n /\ modules \in [1..n -> ModuleSet]
  BY LenProperties DEF ModulesKept
<1>6. ASSUME NEW i \in 1..n, modules[i].module # m
      PROVE  SamplesKept(modules[i].values, more, OfIn(more, device, modules[i].module))
  <2>1. SamplesKept(modules[i].values, fact, OfIn(fact, device, modules[i].module))
    BY <1>5 DEF ModulesKept, EachKept
  <2>2. SamplesKept(modules[i].values, more, OfIn(fact, device, modules[i].module))
    BY <1>3, <2>1, KeptStill
  <2> QED
    BY <1>2, <1>6, <2>2
<1>7. CASE \E i \in 1..n : modules[i].module = m
  <2>1. PICK i \in 1..n :
          /\ modules[i].module = m
          /\ Collector!InsertValue(modules, time, value) = [modules EXCEPT ![i].values = Append(@, sample)]
    <3>1. \E i \in DOMAIN modules : modules[i].module = value.module
      BY <1>1, <1>5, <1>7
    <3>2. PICK i : i = CHOOSE j \in DOMAIN modules : modules[j].module = value.module
      OBVIOUS
    <3>3. i \in 1..n /\ modules[i].module = m
      BY <1>1, <1>5, <3>1, <3>2
    <3>4. Collector!InsertValue(modules, time, value) = [modules EXCEPT ![i].values = Append(@, sample)]
      BY Zenon, <3>1, <3>2 DEF Collector!InsertValue
    <3> QED
      BY <3>3, <3>4
  <2>2. PICK result2 : result2 = Collector!InsertValue(modules, time, value)
    OBVIOUS
  <2>3. /\ modules[i] = [module |-> m, values |-> modules[i].values]
        /\ modules[i].values \in Seq(SampleSet)
    BY <1>5, <2>1 DEF ModuleSet
  <2>4. Append(modules[i].values, sample) \in Seq(SampleSet) /\ Append(modules[i].values, sample) # <<>>
    BY <2>3, AppendProperties
  <2>5. PICK longer \in Seq(SampleSet) : longer = Append(modules[i].values, sample) /\ longer # <<>>
    BY <2>4
  <2>6. result2 = [modules EXCEPT ![i] = [module |-> m, values |-> longer]]
    BY <1>5, <2>1, <2>2, <2>3, <2>5
  <2>7. /\ result2 \in Seq(ModuleSet) /\ DOMAIN result2 = 1..n
        /\ result2[i] = [module |-> m, values |-> longer]
        /\ \A j \in 1..n : j # i => result2[j] = modules[j]
    <3>1. [module |-> m, values |-> longer] \in ModuleSet
      BY <2>5 DEF ModuleSet
    <3>2. modules \in Seq(ModuleSet)
      BY DEF ModulesKept
    <3> QED
      BY <1>5, <2>6, <3>1, <3>2, ExceptSeq
  <2>8. result2[i].module = m /\ result2[i].values = longer
    BY <2>7
  <2>9. \A j \in 1..n : result2[j].module = modules[j].module
    BY <2>1, <2>7, <2>8
  <2>10. \A j \in 1..n : j # i => modules[j].module # m
    BY <1>5, <2>1 DEF ModulesKept, OneEach
  <2>11. OneEach(result2)
    BY <1>5, <2>7, <2>9 DEF ModulesKept, OneEach
  <2>12. EachKept(result2, more, device)
    <3>1. SamplesKept(longer, more, OfIn(more, device, m))
      <4>1. SamplesKept(modules[i].values, fact, OfIn(fact, device, m))
        BY <1>5, <2>1 DEF ModulesKept, EachKept
      <4>2. SamplesKept(longer, more, OfIn(fact, device, m) \cup {at})
        BY <2>5, <4>1, KeptMore
      <4> QED
        BY <1>2, <4>2
    <3>2. ASSUME NEW j \in 1..n, j # i
          PROVE  result2[j].values # <<>> /\ SamplesKept(result2[j].values, more, OfIn(more, device, result2[j].module))
      <4>1. result2[j] = modules[j] /\ modules[j].module # m /\ modules[j].values # <<>>
        BY <1>5, <2>7, <2>10, <3>2 DEF ModulesKept, EachKept
      <4> QED
        BY <1>6, <4>1
    <3> QED
      BY <2>5, <2>7, <2>8, <3>1, <3>2 DEF EachKept
  <2>13. NoneMissing(result2, more, device)
    <3> SUFFICES ASSUME NEW o \in DOMAIN more, more[o].device = device
                 PROVE  \E j \in 1..n : result2[j].module = more[o].module
      BY <2>7 DEF NoneMissing
    <3>1. CASE o = at
      BY <1>4, <2>8, <3>1
    <3>2. CASE o # at
      <4>1. o \in DOMAIN fact /\ more[o] = fact[o]
        BY <1>4, <3>2
      <4>2. PICK j \in 1..n : modules[j].module = fact[o].module
        BY <1>5, <4>1 DEF ModulesKept, NoneMissing
      <4> QED
        BY <2>9, <4>1, <4>2
    <3> QED
      BY <3>1, <3>2
  <2> QED
    BY <2>2, <2>7, <2>11, <2>12, <2>13 DEF ModulesKept
<1>8. CASE \A i \in 1..n : modules[i].module # m
  <2>1. PICK added : added = [module |-> m, values |-> <<sample>>]
    OBVIOUS
  <2>2. added \in ModuleSet /\ added.module = m /\ added.values = <<sample>> /\ <<sample>> # <<>>
    BY <2>1 DEF ModuleSet
  <2>3. PICK result2 : result2 = Append(modules, added)
    OBVIOUS
  <2>4. Collector!InsertValue(modules, time, value) = result2
    <3>1. ~ \E i \in DOMAIN modules : modules[i].module = value.module
      BY <1>1, <1>5, <1>8
    <3> QED
      BY Zenon, <1>1, <2>1, <2>3, <3>1 DEF Collector!InsertValue
  <2>5. /\ result2 \in Seq(ModuleSet) /\ DOMAIN result2 = 1..(n + 1)
        /\ \A j \in 1..n : result2[j] = modules[j]
        /\ result2[n + 1] = added
    <3>1. modules \in Seq(ModuleSet)
      BY DEF ModulesKept
    <3>2. result2 \in Seq(ModuleSet) /\ Len(result2) = n + 1
      BY <1>5, <2>2, <2>3, <3>1, AppendProperties
    <3> QED
      BY <1>5, <2>2, <2>3, <3>1, <3>2, AppendProperties, LenProperties
  <2>6. \A j \in 1..(n + 1) : j # n + 1 => j \in 1..n
    OBVIOUS
  <2>7. \A j \in 1..n : result2[j].module = modules[j].module
    BY <2>5
  <2>8. OneEach(result2)
    <3> SUFFICES ASSUME NEW i \in 1..(n + 1), NEW j \in 1..(n + 1), result2[i].module = result2[j].module
                 PROVE  i = j
      BY <2>5 DEF OneEach
    <3> QED
      BY <1>5, <1>8, <2>2, <2>5, <2>6, <2>7 DEF ModulesKept, OneEach
  <2>9. EachKept(result2, more, device)
    <3>1. SamplesKept(<<sample>>, more, OfIn(more, device, m))
      <4>1. OfIn(fact, device, m) = {}
        BY <1>5, <1>8 DEF OfIn, ModulesKept, NoneMissing
      <4>2. SamplesKept(<<>>, fact, {})
        <5>1. <<>> \in Bijection(1..0, {})
          <6>1. <<>> \in [1..0 -> {}] /\ 1..0 = {}
            OBVIOUS
          <6> QED
            BY <6>1, OneByOne
        <5>2. <<>> \in Seq(SampleSet) /\ Len(<<>>) = 0
          BY EmptySeq
        <5> QED
          BY <5>1, <5>2 DEF SamplesKept
      <4>3. SamplesKept(Append(<<>>, sample), more, {} \cup {at})
        BY <4>2, KeptMore
      <4>4. Append(<<>>, sample) = <<sample>>
        OBVIOUS
      <4> QED
        BY <1>2, <4>1, <4>3, <4>4
    <3>2. ASSUME NEW j \in 1..n
          PROVE  result2[j].values # <<>> /\ SamplesKept(result2[j].values, more, OfIn(more, device, result2[j].module))
      <4>1. result2[j] = modules[j] /\ modules[j].module # m /\ modules[j].values # <<>>
        BY <1>5, <1>8, <2>5 DEF ModulesKept, EachKept
      <4> QED
        BY <1>6, <4>1
    <3> QED
      BY <2>2, <2>5, <2>6, <3>1, <3>2 DEF EachKept
  <2>10. NoneMissing(result2, more, device)
    <3>1. n + 1 \in 1..(n + 1) /\ \A j \in 1..n : j \in 1..(n + 1)
      OBVIOUS
    <3> QED
      BY <1>4, <1>5, <2>2, <2>5, <2>7, <3>1 DEF ModulesKept, NoneMissing
  <2> QED
    BY <2>4, <2>5, <2>8, <2>9, <2>10 DEF ModulesKept
<1> QED
  BY <1>7, <1>8

Exported == [module : Nat, value : Amounts, valid : BOOLEAN]

LEMMA SampleMade ==
  ASSUME NEW time \in Int, NEW value \in Exported
  PROVE  [time |-> time, value |-> value.value, valid |-> value.valid] \in SampleSet /\ value.module \in Nat
BY DEF Exported, SampleSet

LEMMA InsertedTyped ==
  ASSUME NEW time \in Int, NEW value \in Exported, NEW modules \in Seq(ModuleSet)
  PROVE  Collector!InsertValue(modules, time, value) \in Seq(ModuleSet)
<1>1. PICK sample \in SampleSet : sample = [time |-> time, value |-> value.value, valid |-> value.valid]
  BY SampleMade
<1>2. PICK n \in Nat : n = Len(modules) /\ DOMAIN modules = 1..n /\ modules \in [1..n -> ModuleSet]
  BY LenProperties
<1>3. CASE \E i \in DOMAIN modules : modules[i].module = value.module
  <2>1. PICK i : i = CHOOSE j \in DOMAIN modules : modules[j].module = value.module
    OBVIOUS
  <2>2. i \in 1..n
    BY <1>2, <1>3, <2>1
  <2>3. Collector!InsertValue(modules, time, value) = [modules EXCEPT ![i].values = Append(@, sample)]
    BY Zenon, <1>1, <1>3, <2>1 DEF Collector!InsertValue
  <2>4. modules[i] = [module |-> modules[i].module, values |-> modules[i].values]
        /\ modules[i].module \in Nat /\ modules[i].values \in Seq(SampleSet)
    BY <1>2, <2>2 DEF ModuleSet
  <2>5. PICK longer \in Seq(SampleSet) : longer = Append(modules[i].values, sample)
    BY <2>4, AppendProperties
  <2>6. PICK new \in ModuleSet : new = [module |-> modules[i].module, values |-> longer]
    BY <2>4, <2>5 DEF ModuleSet
  <2>7. Collector!InsertValue(modules, time, value) = [modules EXCEPT ![i] = new]
    BY <1>2, <2>2, <2>3, <2>4, <2>5, <2>6
  <2>8. [modules EXCEPT ![i] = new] \in Seq(ModuleSet)
    BY <1>2, <2>2, <2>6, ExceptSeq
  <2> QED
    BY <2>7, <2>8
<1>4. CASE ~ \E i \in DOMAIN modules : modules[i].module = value.module
  <2>1. Collector!InsertValue(modules, time, value) =
          Append(modules, [module |-> value.module, values |-> <<sample>>])
    BY Zenon, <1>1, <1>4 DEF Collector!InsertValue
  <2>2. [module |-> value.module, values |-> <<sample>>] \in ModuleSet
    BY DEF ModuleSet, Exported
  <2> QED
    BY <2>1, <2>2, AppendProperties
<1> QED
  BY <1>3, <1>4

Goes(f, S, start, n, step) ==
  f \in [0..n -> S] /\ f[0] = start /\ \A k \in 1..n : f[k] = step[k][f[k - 1]]

LEMMA GoesOn ==
  ASSUME NEW S, NEW start \in S, NEW n \in Nat, NEW step \in [1..n -> [S -> S]]
  PROVE  \E f : Goes(f, S, start, n, step)
BY Recursion DEF Goes

LEMMA InsertDataIs ==
  ASSUME NEW time \in Int, NEW values \in Seq(Exported), NEW modules \in Seq(ModuleSet)
  PROVE  \E f \in [0..Len(values) -> Seq(ModuleSet)] :
           /\ f[0] = modules
           /\ \A k \in 1..Len(values) : f[k] = Collector!InsertValue(f[k - 1], time, values[k])
           /\ Collector!InsertData(modules, time, values) = f[Len(values)]
<1>1. PICK n \in Nat : n = Len(values) /\ values \in [1..n -> Exported]
  BY LenProperties
<1> DEFINE Made(f) == f = [k \in 0..Len(values) |->
                             IF k = 0 THEN modules ELSE Collector!InsertValue(f[k - 1], time, values[k])]
           g == CHOOSE f : Made(f)
<1>2. \E f : Made(f)
  <2> DEFINE step == [k \in 1..n |-> [ms \in Seq(ModuleSet) |-> Collector!InsertValue(ms, time, values[k])]]
  <2>1. step \in [1..n -> [Seq(ModuleSet) -> Seq(ModuleSet)]]
    BY <1>1, InsertedTyped
  <2>2. PICK f \in [0..n -> Seq(ModuleSet)] : f[0] = modules /\ \A k \in 1..n : f[k] = step[k][f[k - 1]]
    <3> HIDE DEF step, Made, g
    <3>1. \E f : Goes(f, Seq(ModuleSet), modules, n, step)
      BY <2>1, GoesOn
    <3> QED
      BY <3>1 DEF Goes
  <2>3. \A k \in 1..n : f[k] = Collector!InsertValue(f[k - 1], time, values[k])
    <3> SUFFICES ASSUME NEW k \in 1..n PROVE f[k] = Collector!InsertValue(f[k - 1], time, values[k])
      OBVIOUS
    <3>1. f[k - 1] \in Seq(ModuleSet)
      BY <2>2
    <3> QED
      BY <2>2, <3>1
  <2>4. \A k \in 0..n : k # 0 => k \in 1..n
    OBVIOUS
  <2>5. f = [k \in 0..n |-> IF k = 0 THEN modules ELSE Collector!InsertValue(f[k - 1], time, values[k])]
    BY <2>2, <2>3, <2>4
  <2>6. Made(f)
    BY <1>1, <2>5
  <2> HIDE DEF Made
  <2> QED
    BY <2>6
<1>3. Made(g)
  <2> HIDE DEF Made
  <2> QED
    BY <1>2
<1>4. Collector!InsertData(modules, time, values) = g[n]
  BY Zenon, <1>1 DEF Collector!InsertData
<1> HIDE DEF g
<1>5. /\ g = [k \in 0..n |-> g[k]] /\ g[0] = modules
      /\ \A k \in 1..n : g[k] = Collector!InsertValue(g[k - 1], time, values[k])
  <2>1. /\ g = [k \in 0..n |-> g[k]]
        /\ \A k \in 0..n : g[k] = IF k = 0 THEN modules ELSE Collector!InsertValue(g[k - 1], time, values[k])
    BY <1>1, <1>3, Zenon
  <2>2. 0 \in 0..n /\ \A k \in 1..n : k \in 0..n /\ k # 0
    OBVIOUS
  <2> QED
    BY <2>1, <2>2, Zenon
<1> HIDE DEF Made
<1>6. \A k \in 0..n : g[k] \in Seq(ModuleSet)
  <2> DEFINE Good == {k \in 0..n : g[k] \in Seq(ModuleSet)}
  <2>1. 0 \in Good
    BY <1>5
  <2>2. ASSUME NEW k \in 1..n, k - 1 \in Good PROVE k \in Good
    <3>1. g[k - 1] \in Seq(ModuleSet) /\ values[k] \in Exported
      BY <1>1, <2>2
    <3>2. g[k] \in Seq(ModuleSet)
      BY <1>5, <3>1, InsertedTyped
    <3> QED
      BY <3>2
  <2>3. \A k \in 0..n : k \in Good
    <3> HIDE DEF Good
    <3> QED
      BY <2>1, <2>2, UpTo
  <2> QED
    BY <2>3
<1>7. g \in [0..n -> Seq(ModuleSet)]
  BY ZenonT(60), <1>5, <1>6
<1> QED
  BY <1>1, <1>4, <1>5, <1>7

(* What has been exported, as facts.                                       *)
ExportSet == [time : Int, data : Samples]
FactPlaces(history, n) == UNION {{i} \X DOMAIN history[i].data.values : i \in 1..n}
FactOf(history, at) ==
  [device |-> history[at[1]].data.device, module |-> history[at[1]].data.values[at[2]].module,
   sample |-> [time |-> history[at[1]].time, value |-> history[at[1]].data.values[at[2]].value,
               valid |-> history[at[1]].data.values[at[2]].valid]]
FactsOf(history, n) == [at \in FactPlaces(history, n) |-> FactOf(history, at)]

LEMMA ExportedValues ==
  ASSUME NEW data \in Samples
  PROVE  data.values \in Seq(Exported)
<1>1. PICK S : S = [module : Nat, value : Int, valid : BOOLEAN]
  OBVIOUS
<1>2. data.values \in Seq(S) /\ \A i \in DOMAIN data.values : data.values[i].value <= Collector!Largest
  BY <1>1, SamplesAssumption
<1>3. PICK n \in Nat : n = Len(data.values) /\ DOMAIN data.values = 1..n /\ data.values \in [1..n -> S]
  BY <1>2, LenProperties
<1>4. ASSUME NEW i \in 1..n PROVE data.values[i] \in Exported
  <2>1. data.values[i] \in S /\ data.values[i].value <= Collector!Largest
    BY <1>2, <1>3
  <2> QED
    BY <1>1, <2>1 DEF Exported, Amounts
<1>5. data.values \in [1..n -> Exported]
  BY <1>3, <1>4
<1> QED
  BY <1>5, FunctionIsSequence

LEMMA PlacesOf ==
  ASSUME NEW history, NEW n \in Nat, NEW at
  PROVE  at \in FactPlaces(history, n) <=>
           \E i \in 1..n : \E j \in DOMAIN history[i].data.values : at = <<i, j>>
BY DEF FactPlaces

(* Facts stay what they are while more is exported.                        *)
LEMMA FactsStay ==
  ASSUME NEW history \in Seq(ExportSet), NEW new \in ExportSet, NEW n \in 0..Len(history)
  PROVE  FactsOf(Append(history, new), n) = FactsOf(history, n)
<1>1. PICK longer : longer = Append(history, new)
  OBVIOUS
<1>2. \A i \in 1..n : longer[i] = history[i]
  BY <1>1, AppendProperties
<1>3. FactPlaces(longer, n) = FactPlaces(history, n)
  BY <1>2 DEF FactPlaces
<1>4. ASSUME NEW at \in FactPlaces(history, n) PROVE FactOf(longer, at) = FactOf(history, at)
  <2>1. PICK i \in 1..n : \E j \in DOMAIN history[i].data.values : at = <<i, j>>
    BY PlacesOf
  <2>2. at[1] = i /\ longer[at[1]] = history[at[1]]
    BY <1>2, <2>1
  <2> QED
    BY Zenon, <2>2 DEF FactOf
<1>5. FactsOf(longer, n) = FactsOf(history, n)
  BY <1>3, <1>4 DEF FactsOf
<1> QED
  BY <1>1, <1>5

HistoryKept(history, modulesOf) ==
  /\ history \in Seq(ExportSet)
  /\ DOMAIN modulesOf = {history[i].data.device : i \in 1..Len(history)}
  /\ \A device \in DOMAIN modulesOf : ModulesKept(modulesOf[device], FactsOf(history, Len(history)), device)

(* The first values of the last export, too.                               *)
FactsUpTo(history, n, k) ==
  [at \in FactPlaces(history, n) \cup ({n + 1} \X (1..k)) |-> FactOf(history, at)]

LEMMA FactAdded ==
  ASSUME NEW history \in Seq(ExportSet), NEW n \in Nat, Len(history) = n + 1,
         NEW k \in 1..Len(history[n + 1].data.values),
         NEW value, value = history[n + 1].data.values[k]
  PROVE  Grown(FactsUpTo(history, n, k - 1), FactsUpTo(history, n, k), <<n + 1, k>>,
               history[n + 1].data.device, value.module,
               [time |-> history[n + 1].time, value |-> value.value, valid |-> value.valid])
<1>1. PICK at : at = <<n + 1, k>>
  OBVIOUS
<1>2. at[1] = n + 1 /\ at[2] = k
  BY <1>1
<1>3. k \in Nat /\ 1..k = (1..(k - 1)) \cup {k}
  OBVIOUS
<1>4. {n + 1} \X (1..k) = ({n + 1} \X (1..(k - 1))) \cup {at}
  BY <1>1, <1>3
<1>5. at \notin FactPlaces(history, n) \cup ({n + 1} \X (1..(k - 1)))
  <2>1. at \notin FactPlaces(history, n)
    <3> SUFFICES ASSUME at \in FactPlaces(history, n) PROVE FALSE
      OBVIOUS
    <3>1. PICK i \in 1..n : \E j \in DOMAIN history[i].data.values : at = <<i, j>>
      BY PlacesOf
    <3>2. at[1] = i
      BY <3>1
    <3> QED
      BY <1>2, <3>2
  <2>2. at \notin {n + 1} \X (1..(k - 1))
    BY <1>1, <1>3
  <2> QED
    BY <2>1, <2>2
<1>6. /\ DOMAIN FactsUpTo(history, n, k - 1) = FactPlaces(history, n) \cup ({n + 1} \X (1..(k - 1)))
      /\ DOMAIN FactsUpTo(history, n, k) = DOMAIN FactsUpTo(history, n, k - 1) \cup {at}
  BY <1>4 DEF FactsUpTo
<1>7. \A other \in DOMAIN FactsUpTo(history, n, k - 1) :
        FactsUpTo(history, n, k)[other] = FactsUpTo(history, n, k - 1)[other]
  BY <1>6 DEF FactsUpTo
<1>8. FactsUpTo(history, n, k)[at] = FactOf(history, at)
  BY <1>6 DEF FactsUpTo
<1>9. FactOf(history, at) =
        [device |-> history[n + 1].data.device, module |-> value.module,
         sample |-> [time |-> history[n + 1].time, value |-> value.value, valid |-> value.valid]]
  BY Zenon, <1>2 DEF FactOf
<1>10. at \notin DOMAIN FactsUpTo(history, n, k - 1)
  BY <1>5, <1>6
<1> HIDE DEF FactsUpTo
<1> QED
  BY Zenon, <1>1, <1>6, <1>7, <1>8, <1>9, <1>10 DEF Grown

LEMMA FactsAtFirst ==
  ASSUME NEW history, NEW n \in Nat
  PROVE  FactsUpTo(history, n, 0) = FactsOf(history, n)
<1>1. FactPlaces(history, n) \cup ({n + 1} \X (1..0)) = FactPlaces(history, n)
  OBVIOUS
<1> QED
  BY Zenon, <1>1 DEF FactsUpTo, FactsOf

LEMMA FactsInTheEnd ==
  ASSUME NEW history \in Seq(ExportSet), NEW n \in Nat, Len(history) = n + 1
  PROVE  FactsUpTo(history, n, Len(history[n + 1].data.values)) = FactsOf(history, n + 1)
<1>1. PICK count \in Nat : count = Len(history[n + 1].data.values) /\ DOMAIN history[n + 1].data.values = 1..count
  <2>1. history[n + 1] \in ExportSet
    BY LenProperties
  <2>2. history[n + 1].data \in Samples
    BY <2>1 DEF ExportSet
  <2>3. history[n + 1].data.values \in Seq(Exported)
    BY <2>2, ExportedValues
  <2> QED
    BY <2>3, LenProperties
<1>2. FactPlaces(history, n + 1) = FactPlaces(history, n) \cup ({n + 1} \X (1..count))
  <2>1. 1..(n + 1) = (1..n) \cup {n + 1}
    OBVIOUS
  <2> QED
    BY <1>1, <2>1 DEF FactPlaces
<1> QED
  BY Zenon, <1>1, <1>2 DEF FactsUpTo, FactsOf

(* What onExport() makes of a history and of the modules.                  *)
AfterExport(history, modulesOf, data, time, before, newHistory, newModules) ==
  /\ before = IF data.device \in DOMAIN modulesOf THEN modulesOf[data.device] ELSE <<>>
  /\ newHistory = Append(history, [time |-> time, data |-> data])
  /\ newModules = [device \in DOMAIN modulesOf \cup {data.device} |->
                     IF device = data.device THEN Collector!InsertData(before, time, data.values)
                     ELSE modulesOf[device]]

LEMMA ExportKept ==
  ASSUME NEW history, NEW modulesOf, HistoryKept(history, modulesOf),
         NEW data \in Samples, NEW time \in Int, NEW before, NEW newHistory, NEW newModules,
         AfterExport(history, modulesOf, data, time, before, newHistory, newModules)
  PROVE  HistoryKept(newHistory, newModules)
<1>0. /\ before = IF data.device \in DOMAIN modulesOf THEN modulesOf[data.device] ELSE <<>>
      /\ newHistory = Append(history, [time |-> time, data |-> data])
      /\ newModules = [device \in DOMAIN modulesOf \cup {data.device} |->
                         IF device = data.device THEN Collector!InsertData(before, time, data.values)
                         ELSE modulesOf[device]]
  BY Zenon DEF AfterExport
<1>1. PICK n \in Nat : n = Len(history) /\ DOMAIN history = 1..n
  BY LenProperties DEF HistoryKept
<1>2. PICK new \in ExportSet : new = [time |-> time, data |-> data]
  BY DEF ExportSet
<1>3. PICK longer \in Seq(ExportSet) :
        /\ longer = Append(history, new) /\ Len(longer) = n + 1 /\ longer[n + 1] = new
        /\ \A i \in 1..n : longer[i] = history[i]
  <2>1. history \in Seq(ExportSet)
    BY DEF HistoryKept
  <2>2. /\ Append(history, new) \in Seq(ExportSet) /\ Len(Append(history, new)) = n + 1
        /\ Append(history, new)[n + 1] = new /\ \A i \in 1..n : Append(history, new)[i] = history[i]
    BY <1>1, <2>1, AppendProperties
  <2> QED
    BY <2>2
<1>4. PICK d : d = data.device
  OBVIOUS
<1>5. PICK values \in Seq(Exported) : values = data.values
  BY ExportedValues
<1>6. PICK count \in Nat : count = Len(values) /\ DOMAIN values = 1..count /\ values \in [1..count -> Exported]
  BY LenProperties
<1>7. longer[n + 1].data.values = values /\ longer[n + 1].data.device = d /\ longer[n + 1].time = time
  BY <1>2, <1>3, <1>4, <1>5
<1>8. FactsUpTo(longer, n, 0) = FactsOf(history, n)
  <2>1. FactsOf(longer, n) = FactsOf(history, n)
    BY <1>1, <1>3, FactsStay DEF HistoryKept
  <2> QED
    BY <2>1, FactsAtFirst
<1>9. FactsUpTo(longer, n, count) = FactsOf(longer, n + 1)
  BY <1>3, <1>6, <1>7, FactsInTheEnd
<1>10. ASSUME NEW k \in 1..count
       PROVE  /\ Grown(FactsUpTo(longer, n, k - 1), FactsUpTo(longer, n, k), <<n + 1, k>>, d, values[k].module,
                       [time |-> time, value |-> values[k].value, valid |-> values[k].valid])
              /\ [time |-> time, value |-> values[k].value, valid |-> values[k].valid] \in SampleSet
              /\ values[k].module \in Nat
  <2>1. values[k] \in Exported
    BY <1>6
  <2>2. /\ [time |-> time, value |-> values[k].value, valid |-> values[k].valid] \in SampleSet
        /\ values[k].module \in Nat
    BY <2>1, SampleMade
  <2>3. PICK value : value = longer[n + 1].data.values[k]
    OBVIOUS
  <2>4. k \in 1..Len(longer[n + 1].data.values) /\ value = values[k]
    BY <1>6, <1>7, <2>3
  <2>5. Grown(FactsUpTo(longer, n, k - 1), FactsUpTo(longer, n, k), <<n + 1, k>>, longer[n + 1].data.device,
              value.module, [time |-> longer[n + 1].time, value |-> value.value, valid |-> value.valid])
    BY <1>3, <2>3, <2>4, FactAdded
  <2>6. Grown(FactsUpTo(longer, n, k - 1), FactsUpTo(longer, n, k), <<n + 1, k>>, d,
              value.module, [time |-> time, value |-> value.value, valid |-> value.valid])
    BY Zenon, <1>7, <2>5
  <2>7. Grown(FactsUpTo(longer, n, k - 1), FactsUpTo(longer, n, k), <<n + 1, k>>, d,
              values[k].module, [time |-> time, value |-> values[k].value, valid |-> values[k].valid])
    BY Zenon, <2>4, <2>6
  <2> QED
    BY Zenon, <2>2, <2>7
<1>11. ModulesKept(before, FactsUpTo(longer, n, 0), d)
  <2>1. CASE d \in DOMAIN modulesOf
    BY <1>0, <1>1, <1>4, <1>8, <2>1 DEF HistoryKept
  <2>2. CASE d \notin DOMAIN modulesOf
    <3>1. before = <<>>
      BY <1>0, <1>4, <2>2
    <3>2. NoneMissing(<<>>, FactsOf(history, n), d)
      <4> SUFFICES ASSUME NEW at \in FactPlaces(history, n), FactOf(history, at).device = d PROVE FALSE
        BY DEF NoneMissing, FactsOf
      <4>1. PICK i \in 1..n : \E j \in DOMAIN history[i].data.values : at = <<i, j>>
        BY PlacesOf
      <4>2. at[1] = i
        BY <4>1
      <4>3. d = history[i].data.device
        BY <4>2 DEF FactOf
      <4> QED
        BY <1>1, <2>2, <4>3 DEF HistoryKept
    <3>3. <<>> \in Seq(ModuleSet) /\ DOMAIN <<>> = {}
      BY EmptySeq
    <3>4. OneEach(<<>>) /\ EachKept(<<>>, FactsOf(history, n), d)
      BY <3>3 DEF OneEach, EachKept
    <3> QED
      BY <1>8, <3>1, <3>2, <3>3, <3>4 DEF ModulesKept
  <2> QED
    BY <2>1, <2>2
<1>12. PICK f \in [0..count -> Seq(ModuleSet)] :
         /\ f[0] = before
         /\ \A k \in 1..count : f[k] = Collector!InsertValue(f[k - 1], time, values[k])
         /\ Collector!InsertData(before, time, values) = f[count]
  <2>1. before \in Seq(ModuleSet)
    BY <1>11 DEF ModulesKept
  <2>2. \E f \in [0..Len(values) -> Seq(ModuleSet)] :
           /\ f[0] = before
           /\ \A k \in 1..Len(values) : f[k] = Collector!InsertValue(f[k - 1], time, values[k])
           /\ Collector!InsertData(before, time, values) = f[Len(values)]
    BY <2>1, InsertDataIs
  <2> QED
    BY Zenon, <1>6, <2>2
<1>13. ModulesKept(f[count], FactsUpTo(longer, n, count), d)
  <2> DEFINE Good == {k \in 0..count : ModulesKept(f[k], FactsUpTo(longer, n, k), d)}
  <2>1. 0 \in Good
    BY <1>11, <1>12
  <2>2. ASSUME NEW k \in 1..count, k - 1 \in Good PROVE k \in Good
    <3>1. ModulesKept(f[k - 1], FactsUpTo(longer, n, k - 1), d)
      BY <2>2
    <3>2. PICK sample \in SampleSet :
            sample = [time |-> time, value |-> values[k].value, valid |-> values[k].valid]
      BY <1>10
    <3>3. /\ Grown(FactsUpTo(longer, n, k - 1), FactsUpTo(longer, n, k), <<n + 1, k>>, d, values[k].module, sample)
          /\ values[k].module \in Nat
      BY Zenon, <1>10, <3>2
    <3>4. ModulesKept(Collector!InsertValue(f[k - 1], time, values[k]), FactsUpTo(longer, n, k), d)
      BY <3>1, <3>2, <3>3, ValueKept
    <3> QED
      BY <1>12, <3>4
  <2>3. \A k \in 0..count : k \in Good
    <3> HIDE DEF Good
    <3> QED
      BY <2>1, <2>2, UpTo
  <2> QED
    BY <2>3
<1>14. ASSUME NEW e \in DOMAIN modulesOf, e # d
       PROVE  ModulesKept(modulesOf[e], FactsUpTo(longer, n, count), e)
  <2> DEFINE Good == {k \in 0..count : ModulesKept(modulesOf[e], FactsUpTo(longer, n, k), e)}
  <2>1. 0 \in Good
    <3>1. ModulesKept(modulesOf[e], FactsOf(history, Len(history)), e)
      BY DEF HistoryKept
    <3>2. ModulesKept(modulesOf[e], FactsUpTo(longer, n, 0), e)
      BY Zenon, <1>1, <1>8, <3>1
    <3> QED
      BY <3>2
  <2>2. ASSUME NEW k \in 1..count, k - 1 \in Good PROVE k \in Good
    <3>1. ModulesKept(modulesOf[e], FactsUpTo(longer, n, k - 1), e)
      BY <2>2
    <3>2. PICK sample : sample = [time |-> time, value |-> values[k].value, valid |-> values[k].valid]
      OBVIOUS
    <3>3. Grown(FactsUpTo(longer, n, k - 1), FactsUpTo(longer, n, k), <<n + 1, k>>, d, values[k].module, sample)
      BY Zenon, <1>10, <3>2
    <3>4. ModulesKept(modulesOf[e], FactsUpTo(longer, n, k), e)
      BY <1>14, <3>1, <3>3, OthersKept
    <3> QED
      BY <3>4
  <2>3. \A k \in 0..count : k \in Good
    <3> HIDE DEF Good
    <3> QED
      BY <2>1, <2>2, UpTo
  <2> QED
    BY <2>3
<1>15. PICK more : more = [device \in DOMAIN modulesOf \cup {d} |->
                             IF device = d THEN Collector!InsertData(before, time, values) ELSE modulesOf[device]]
  OBVIOUS
<1>16. /\ DOMAIN more = DOMAIN modulesOf \cup {d} /\ more[d] = f[count]
       /\ \A e \in DOMAIN modulesOf : e # d => more[e] = modulesOf[e]
  BY <1>12, <1>15
<1>17. DOMAIN more = {longer[i].data.device : i \in 1..Len(longer)}
  <2>1. \A i \in 1..(n + 1) : i # n + 1 => i \in 1..n
    OBVIOUS
  <2>2. \A i \in 1..n : i \in 1..(n + 1) /\ longer[i].data.device = history[i].data.device
    BY <1>3
  <2>3. n + 1 \in 1..(n + 1)
    OBVIOUS
  <2>4. DOMAIN modulesOf = {history[i].data.device : i \in 1..n}
    BY <1>1 DEF HistoryKept
  <2>5. {longer[i].data.device : i \in 1..(n + 1)} = {history[i].data.device : i \in 1..n} \cup {d}
    BY <1>7, <2>1, <2>2, <2>3
  <2> QED
    BY <1>3, <1>16, <2>4, <2>5
<1>18. \A e \in DOMAIN more : ModulesKept(more[e], FactsOf(longer, Len(longer)), e)
  BY <1>3, <1>9, <1>13, <1>14, <1>16
<1>19. HistoryKept(longer, more)
  BY <1>17, <1>18 DEF HistoryKept
<1> QED
  <2>1. newHistory = longer
    BY Zenon, <1>0, <1>2, <1>3
  <2>2. newModules = more
    BY Zenon, <1>0, <1>4, <1>5, <1>15
  <2> QED
    BY Zenon, <1>19, <2>1, <2>2

(* Statistics of the valid samples V and the invalid ones I.               *)
StatSet == [min : Int, max : Int, sum : Int, invalid : Int, values : Seq(Int)]

Lists(values, number, V) ==
  values \in Seq(Int) /\ \E place \in Bijection(1..Len(values), V) :
                           \A k \in 1..Len(values) : values[k] = number[place[k]]
LeastIs(least, number, V) ==
  /\ \A at \in V : least <= number[at]
  /\ least = Collector!Largest \/ \E at \in V : least = number[at]
MostIs(most, number, V) ==
  /\ \A at \in V : number[at] <= most
  /\ most = Collector!Least \/ \E at \in V : most = number[at]

IsStat(stat, number, V, I) ==
  /\ stat \in StatSet /\ Lists(stat.values, number, V)
  /\ LeastIs(stat.min, number, V) /\ MostIs(stat.max, number, V)
  /\ Summands(number, V) /\ stat.sum = Collector!SumOf(number, V)
  /\ IsFiniteSet(I) /\ stat.invalid = Cardinality(I)

LEMMA ListsMore ==
  ASSUME NEW values, NEW number, NEW V, Lists(values, number, V), NEW at, at \notin V, number[at] \in Int
  PROVE  Lists(Append(values, number[at]), number, V \cup {at})
<1>1. PICK place \in Bijection(1..Len(values), V) : \A k \in 1..Len(values) : values[k] = number[place[k]]
  BY DEF Lists
<1>2. PICK n \in Nat : n = Len(values)
  BY LenProperties DEF Lists
<1>3. place \in Bijection(1..n, V)
  BY <1>1, <1>2
<1>4. PICK all : all = V \cup {at}
  OBVIOUS
<1>5. PICK longer \in Bijection(1..(n + 1), all) : longer[n + 1] = at /\ \A k \in 1..n : longer[k] = place[k]
  BY <1>3, <1>4, PlaceMore
<1>6. PICK new \in Int : new = number[at]
  OBVIOUS
<1>7. /\ Append(values, new) \in Seq(Int) /\ Len(Append(values, new)) = n + 1
      /\ \A k \in 1..n : Append(values, new)[k] = values[k]
      /\ Append(values, new)[n + 1] = new
  BY <1>2, AppendProperties DEF Lists
<1>8. \A k \in 1..(n + 1) : Append(values, new)[k] = number[longer[k]]
  <2>1. \A k \in 1..n : Append(values, new)[k] = number[longer[k]]
    BY <1>1, <1>2, <1>5, <1>7
  <2>2. Append(values, new)[n + 1] = number[longer[n + 1]]
    BY <1>5, <1>6, <1>7
  <2>3. \A k \in 1..(n + 1) : k # n + 1 => k \in 1..n
    OBVIOUS
  <2> QED
    BY <2>1, <2>2, <2>3
<1>9. Lists(Append(values, new), number, all)
  BY <1>5, <1>7, <1>8 DEF Lists
<1> QED
  BY <1>4, <1>6, <1>9

LEMMA NewStat ==
  ASSUME NEW number
  PROVE  Collector!New \in StatSet /\ IsStat(Collector!New, number, {}, {})
<1>1. /\ Collector!New.values = <<>> /\ Collector!New.min = Collector!Largest
      /\ Collector!New.max = Collector!Least /\ Collector!New.sum = 0 /\ Collector!New.invalid = 0
  BY DEF Collector!New
<1>2. Collector!New \in StatSet
  <2>1. <<>> \in Seq(Int)
    BY EmptySeq
  <2> QED
    BY <2>1 DEF Collector!New, StatSet, Collector!Largest, Collector!Least
<1>3. Lists(<<>>, number, {})
  <2>1. <<>> \in Bijection(1..0, {})
    <3>1. <<>> \in [1..0 -> {}] /\ 1..0 = {}
      OBVIOUS
    <3> QED
      BY <3>1, OneByOne
  <2>2. <<>> \in Seq(Int) /\ Len(<<>>) = 0
    BY EmptySeq
  <2> QED
    BY <2>1, <2>2 DEF Lists
<1>4. LeastIs(Collector!Largest, number, {}) /\ MostIs(Collector!Least, number, {})
  BY DEF LeastIs, MostIs
<1>5. Summands(number, {}) /\ IsFiniteSet({}) /\ Cardinality({}) = 0
  BY FS_EmptySet DEF Summands
<1> QED
  BY <1>1, <1>2, <1>3, <1>4, <1>5, SumOfNothing DEF IsStat

Recently(sample) == clock - sample.time <= Interval

LEMMA SampleSeen ==
  ASSUME NEW stat \in StatSet, NEW sample \in SampleSet
  PROVE  /\ ~ Recently(sample) => Collector!Seen(stat, sample) = stat
         /\ Recently(sample) /\ ~ sample.valid =>
              Collector!Seen(stat, sample) =
                [min |-> stat.min, max |-> stat.max, sum |-> stat.sum, invalid |-> stat.invalid + 1,
                 values |-> stat.values]
         /\ Recently(sample) /\ sample.valid =>
              Collector!Seen(stat, sample) =
                [min |-> IF sample.value < stat.min THEN sample.value ELSE stat.min,
                 max |-> IF sample.value > stat.max THEN sample.value ELSE stat.max,
                 sum |-> stat.sum + sample.value, invalid |-> stat.invalid,
                 values |-> Append(stat.values, sample.value)]
<1>1. stat = [min |-> stat.min, max |-> stat.max, sum |-> stat.sum, invalid |-> stat.invalid, values |-> stat.values]
  BY DEF StatSet
<1>2. CASE ~ Recently(sample)
  BY <1>2 DEF Recently, Collector!Seen
<1>3. CASE Recently(sample) /\ ~ sample.valid
  <2>1. Collector!Seen(stat, sample) = Collector!InsertInvalid(stat)
    BY <1>3 DEF Recently, Collector!Seen, Collector!Insert
  <2> QED
    BY <1>1, <1>3, <2>1 DEF Collector!InsertInvalid
<1>4. CASE Recently(sample) /\ sample.valid
  <2>1. Collector!Seen(stat, sample) = Collector!InsertSample(stat, sample.value)
    BY <1>4 DEF Recently, Collector!Seen, Collector!Insert
  <2> QED
    BY <1>1, <1>4, <2>1 DEF Collector!InsertSample
<1> QED
  BY <1>2, <1>3, <1>4

LEMMA SeenTyped ==
  ASSUME NEW stat \in StatSet, NEW sample \in SampleSet
  PROVE  Collector!Seen(stat, sample) \in StatSet
<1>1. sample.value \in Int /\ sample.valid \in BOOLEAN
  BY DEF SampleSet, Amounts
<1>2. /\ stat.min \in Int /\ stat.max \in Int /\ stat.sum \in Int /\ stat.invalid \in Int
      /\ stat.values \in Seq(Int)
  BY DEF StatSet
<1>3. Append(stat.values, sample.value) \in Seq(Int)
  BY <1>1, <1>2, AppendProperties
<1>4. CASE ~ Recently(sample)
  BY <1>4, SampleSeen
<1>5. CASE Recently(sample) /\ ~ sample.valid
  BY <1>2, <1>5, SampleSeen DEF StatSet
<1>6. CASE Recently(sample) /\ sample.valid
  <2>1. PICK lower \in Int : lower = IF sample.value < stat.min THEN sample.value ELSE stat.min
    BY <1>1, <1>2
  <2>2. PICK higher \in Int : higher = IF sample.value > stat.max THEN sample.value ELSE stat.max
    BY <1>1, <1>2
  <2>3. Collector!Seen(stat, sample) =
          [min |-> lower, max |-> higher, sum |-> stat.sum + sample.value, invalid |-> stat.invalid,
           values |-> Append(stat.values, sample.value)]
    BY Zenon, <1>6, <2>1, <2>2, SampleSeen
  <2> QED
    BY <1>1, <1>2, <1>3, <2>3 DEF StatSet
<1> QED
  BY <1>1, <1>4, <1>5, <1>6

LEMMA InvalidSeen ==
  ASSUME NEW stat, NEW sample \in SampleSet, NEW number, NEW V, NEW I, NEW at,
         IsStat(stat, number, V, I), Recently(sample), ~ sample.valid, at \notin I
  PROVE  IsStat(Collector!Seen(stat, sample), number, V, I \cup {at})
<1>1. PICK seen : seen = Collector!Seen(stat, sample)
  OBVIOUS
<1>2. stat \in StatSet
  BY DEF IsStat
<1>3. seen \in StatSet
  BY <1>1, <1>2, SeenTyped
<1>4. /\ seen.min = stat.min /\ seen.max = stat.max /\ seen.sum = stat.sum
      /\ seen.invalid = stat.invalid + 1 /\ seen.values = stat.values
  BY <1>1, <1>2, SampleSeen
<1>5. IsFiniteSet(I \cup {at}) /\ Cardinality(I \cup {at}) = Cardinality(I) + 1
  BY FS_AddElement DEF IsStat
<1> QED
  BY Zenon, <1>1, <1>3, <1>4, <1>5 DEF IsStat

LEMMA ValidSeen ==
  ASSUME NEW stat, NEW sample \in SampleSet, NEW number, NEW V, NEW I, NEW at,
         IsStat(stat, number, V, I), Recently(sample), sample.valid, at \notin V, number[at] = sample.value
  PROVE  IsStat(Collector!Seen(stat, sample), number, V \cup {at}, I)
<1>1. PICK seen : seen = Collector!Seen(stat, sample)
  OBVIOUS
<1>2. stat \in StatSet /\ number[at] \in Int
  BY DEF IsStat, SampleSet, Amounts
<1>3. seen \in StatSet
  BY <1>1, <1>2, SeenTyped
<1>4. /\ seen.min = (IF number[at] < stat.min THEN number[at] ELSE stat.min)
      /\ seen.max = (IF number[at] > stat.max THEN number[at] ELSE stat.max)
      /\ seen.sum = stat.sum + number[at]
      /\ seen.invalid = stat.invalid /\ seen.values = Append(stat.values, number[at])
  BY <1>1, <1>2, SampleSeen
<1>5. PICK all : all = V \cup {at}
  OBVIOUS
<1>6. Lists(seen.values, number, all)
  <2>1. Lists(stat.values, number, V)
    BY DEF IsStat
  <2>2. Lists(Append(stat.values, number[at]), number, V \cup {at})
    BY <1>2, <2>1, ListsMore
  <2> QED
    BY Zenon, <1>4, <1>5, <2>2
<1>7. \A v \in V : number[v] \in Int
  BY DEF IsStat, Summands
<1>8. stat.min \in Int /\ stat.max \in Int
  BY <1>2 DEF StatSet
<1>9. LeastIs(seen.min, number, all)
  <2>1. LeastIs(stat.min, number, V)
    BY DEF IsStat
  <2>2. CASE number[at] < stat.min
    <3>1. seen.min = number[at]
      BY <1>4, <2>2
    <3>2. \A v \in V : number[at] <= number[v]
      BY <1>2, <1>7, <1>8, <2>1, <2>2 DEF LeastIs
    <3> QED
      BY <1>2, <1>5, <3>1, <3>2 DEF LeastIs
  <2>3. CASE ~ (number[at] < stat.min)
    <3>1. seen.min = stat.min /\ stat.min <= number[at]
      BY <1>2, <1>4, <1>8, <2>3
    <3> QED
      BY <1>5, <2>1, <3>1 DEF LeastIs
  <2> QED
    BY <2>2, <2>3
<1>10. MostIs(seen.max, number, all)
  <2>1. MostIs(stat.max, number, V)
    BY DEF IsStat
  <2>2. CASE number[at] > stat.max
    <3>1. seen.max = number[at]
      BY <1>4, <2>2
    <3>2. \A v \in V : number[v] <= number[at]
      BY <1>2, <1>7, <1>8, <2>1, <2>2 DEF MostIs
    <3> QED
      BY <1>2, <1>5, <3>1, <3>2 DEF MostIs
  <2>3. CASE ~ (number[at] > stat.max)
    <3>1. seen.max = stat.max /\ number[at] <= stat.max
      BY <1>2, <1>4, <1>8, <2>3
    <3> QED
      BY <1>5, <2>1, <3>1 DEF MostIs
  <2> QED
    BY <2>2, <2>3
<1>11. Summands(number, all)
  <2>1. IsFiniteSet(all)
    BY <1>5, FS_AddElement DEF IsStat, Summands
  <2> QED
    BY <1>2, <1>5, <1>7, <2>1 DEF Summands
<1>12. seen.sum = Collector!SumOf(number, all)
  <2>1. Collector!SumOf(number, all) = Collector!SumOf(number, V) + number[at]
    BY <1>5, <1>11, SumAdded
  <2>2. stat.sum = Collector!SumOf(number, V)
    BY DEF IsStat
  <2> QED
    BY Zenon, <1>4, <2>1, <2>2
<1>13. IsStat(seen, number, all, I)
  BY Zenon, <1>3, <1>4, <1>6, <1>9, <1>10, <1>11, <1>12 DEF IsStat
<1> QED
  BY <1>1, <1>5, <1>13

NumbersIn(fact) == [at \in DOMAIN fact |-> fact[at].sample.value]
LateIn(fact, time, S, valid) ==
  {at \in S : fact[at].sample.valid = valid /\ fact[at].sample.time + Interval >= time}

LEMMA StatOfComputed ==
  ASSUME NEW module, module.values \in Seq(SampleSet)
  PROVE  \E g : /\ g[0] = Collector!New
                /\ \A k \in 1..Len(module.values) : g[k] = Collector!Seen(g[k - 1], module.values[k])
                /\ Collector!StatOf(module) = g[Len(module.values)]
<1>1. PICK values \in Seq(SampleSet) : values = module.values
  OBVIOUS
<1>2. PICK n \in Nat : n = Len(values) /\ values \in [1..n -> SampleSet]
  BY LenProperties
<1> DEFINE Made(f) == f = [k \in 0..Len(module.values) |->
                             IF k = 0 THEN Collector!New ELSE Collector!Seen(f[k - 1], module.values[k])]
           h == CHOOSE f : Made(f)
           step == [k \in 1..n |-> [stat \in StatSet |-> Collector!Seen(stat, values[k])]]
<1>3. step \in [1..n -> [StatSet -> StatSet]]
  BY <1>2, SeenTyped
<1>4. PICK f : Goes(f, StatSet, Collector!New, n, step)
  <2> HIDE DEF step
  <2>1. Collector!New \in StatSet
    BY NewStat
  <2> QED
    BY <1>3, <2>1, GoesOn
<1>5. Made(f)
  <2>1. /\ f \in [0..n -> StatSet] /\ f[0] = Collector!New
        /\ \A k \in 1..n : f[k] = step[k][f[k - 1]]
    BY <1>4 DEF Goes
  <2>2. ASSUME NEW k \in 1..n PROVE f[k] = Collector!Seen(f[k - 1], values[k])
    <3>1. f[k - 1] \in StatSet
      BY <2>1
    <3> QED
      BY <2>1, <3>1
  <2>3. \A k \in 0..n : k # 0 => k \in 1..n
    OBVIOUS
  <2> HIDE DEF step
  <2>4. f = [k \in 0..n |-> IF k = 0 THEN Collector!New ELSE Collector!Seen(f[k - 1], values[k])]
    BY <2>1, <2>2, <2>3
  <2> QED
    BY Zenon, <1>1, <1>2, <2>4
<1>6. Made(h)
  <2> HIDE DEF Made
  <2> QED
    BY <1>5
<1>7. Collector!StatOf(module) = h[Len(module.values)]
  BY Zenon DEF Collector!StatOf
<1> HIDE DEF h
<1>8. h[0] = Collector!New /\ \A k \in 1..n : h[k] = Collector!Seen(h[k - 1], values[k])
  <2>1. \A k \in 0..n : h[k] = IF k = 0 THEN Collector!New ELSE Collector!Seen(h[k - 1], values[k])
    BY Zenon, <1>1, <1>2, <1>6
  <2>2. 0 \in 0..n /\ \A k \in 1..n : k \in 0..n /\ k # 0
    OBVIOUS
  <2> QED
    BY Zenon, <2>1, <2>2
<1> HIDE DEF Made
<1> QED
  BY Zenon, <1>1, <1>2, <1>7, <1>8

(* computeLastStats()                                                      *)
LEMMA StatOfIs ==
  ASSUME clock \in Int, NEW module, NEW fact, NEW S, SamplesKept(module.values, fact, S)
  PROVE  IsStat(Collector!StatOf(module), NumbersIn(fact),
                LateIn(fact, clock, S, TRUE), LateIn(fact, clock, S, FALSE))
<1>1. PICK values \in Seq(SampleSet) : values = module.values
  BY DEF SamplesKept
<1>2. PICK n \in Nat : n = Len(values) /\ values \in [1..n -> SampleSet]
  BY LenProperties
<1>3. PICK place \in Bijection(1..n, S) : \A k \in 1..n : values[k] = fact[place[k]].sample
  BY <1>1, <1>2 DEF SamplesKept
<1>4. /\ place \in [1..n -> S] /\ \A i, j \in 1..n : place[i] = place[j] => i = j
      /\ \A x \in S : \E i \in 1..n : place[i] = x
  BY <1>3, OneByOne
<1>5. PICK g : /\ g[0] = Collector!New
               /\ \A k \in 1..n : g[k] = Collector!Seen(g[k - 1], values[k])
               /\ Collector!StatOf(module) = g[n]
  <2>1. \E g : /\ g[0] = Collector!New
               /\ \A k \in 1..Len(module.values) : g[k] = Collector!Seen(g[k - 1], module.values[k])
               /\ Collector!StatOf(module) = g[Len(module.values)]
    BY <1>1, StatOfComputed
  <2> QED
    BY Zenon, <1>1, <1>2, <2>1
<1>6. PICK number : number = NumbersIn(fact)
  OBVIOUS
<1> DEFINE Front(k) == {place[i] : i \in 1..k}
           Right(k) == IsStat(g[k], number, LateIn(fact, clock, Front(k), TRUE), LateIn(fact, clock, Front(k), FALSE))
           Good == {k \in 0..n : Right(k)}
<1>7. 0 \in Good
  <2>1. Front(0) = {}
    OBVIOUS
  <2>2. LateIn(fact, clock, Front(0), TRUE) = {} /\ LateIn(fact, clock, Front(0), FALSE) = {}
    BY <2>1 DEF LateIn
  <2> HIDE DEF Front
  <2>3. Right(0)
    BY <1>5, <2>2, NewStat
  <2> HIDE DEF Right
  <2> QED
    BY <2>3
<1>8. ASSUME NEW k \in 1..n, k - 1 \in Good PROVE k \in Good
  <2>1. PICK at : at = place[k]
    OBVIOUS
  <2>2. 1..k = (1..(k - 1)) \cup {k}
    OBVIOUS
  <2>3. Front(k) = Front(k - 1) \cup {at}
    BY <2>1, <2>2
  <2>4. at \in S /\ at \notin Front(k - 1)
    BY <1>4, <2>1
  <2>5. PICK sample \in SampleSet : sample = values[k] /\ sample = fact[at].sample
    BY <1>2, <1>3, <2>1
  <2>6. number[at] = sample.value
    BY <1>6, <2>4, <2>5 DEF NumbersIn, SamplesKept
  <2>7. g[k] = Collector!Seen(g[k - 1], sample)
    BY <1>5, <2>5
  <2>8. Right(k - 1)
    BY <1>8
  <2>9. sample.time \in Int /\ sample.valid \in BOOLEAN /\ Interval \in Int
    BY SamplesAssumption DEF SampleSet
  <2>10. Recently(sample) <=> sample.time + Interval >= clock
    BY <2>9 DEF Recently
  <2> HIDE DEF Front
  <2>11. g[k - 1] \in StatSet
    BY <2>8 DEF IsStat
  <2>12. \A valid : at \notin LateIn(fact, clock, Front(k - 1), valid)
    BY <2>4 DEF LateIn
  <2>13. k \in 0..n
    OBVIOUS
  <2> SUFFICES Right(k)
    <3> HIDE DEF Right
    <3> QED
      BY <2>13
  <2>14. CASE ~ Recently(sample)
    <3>1. /\ LateIn(fact, clock, Front(k), TRUE) = LateIn(fact, clock, Front(k - 1), TRUE)
          /\ LateIn(fact, clock, Front(k), FALSE) = LateIn(fact, clock, Front(k - 1), FALSE)
      BY <2>3, <2>5, <2>10, <2>14 DEF LateIn
    <3>2. g[k] = g[k - 1]
      BY <2>7, <2>11, <2>14, SampleSeen
    <3> QED
      BY Zenon, <2>8, <3>1, <3>2
  <2>15. CASE Recently(sample) /\ sample.valid
    <3>1. LateIn(fact, clock, Front(k), TRUE) = LateIn(fact, clock, Front(k - 1), TRUE) \cup {at}
      BY <2>3, <2>5, <2>9, <2>10, <2>15 DEF LateIn
    <3>2. LateIn(fact, clock, Front(k), FALSE) = LateIn(fact, clock, Front(k - 1), FALSE)
      BY <2>3, <2>5, <2>9, <2>10, <2>15 DEF LateIn
    <3>3. IsStat(Collector!Seen(g[k - 1], sample), number,
                 LateIn(fact, clock, Front(k - 1), TRUE) \cup {at}, LateIn(fact, clock, Front(k - 1), FALSE))
      BY <2>6, <2>8, <2>12, <2>15, ValidSeen
    <3> QED
      BY Zenon, <2>7, <3>1, <3>2, <3>3
  <2>16. CASE Recently(sample) /\ ~ sample.valid
    <3>1. LateIn(fact, clock, Front(k), FALSE) = LateIn(fact, clock, Front(k - 1), FALSE) \cup {at}
      BY <2>3, <2>5, <2>9, <2>10, <2>16 DEF LateIn
    <3>2. LateIn(fact, clock, Front(k), TRUE) = LateIn(fact, clock, Front(k - 1), TRUE)
      BY <2>3, <2>5, <2>9, <2>10, <2>16 DEF LateIn
    <3>3. IsStat(Collector!Seen(g[k - 1], sample), number,
                 LateIn(fact, clock, Front(k - 1), TRUE), LateIn(fact, clock, Front(k - 1), FALSE) \cup {at})
      BY <2>8, <2>12, <2>16, InvalidSeen
    <3> QED
      BY Zenon, <2>7, <3>1, <3>2, <3>3
  <2> QED
    BY <2>15, <2>16, <2>14
<1>9. Right(n)
  <2>1. \A k \in 0..n : k \in Good
    <3> HIDE DEF Good
    <3> QED
      BY <1>7, <1>8, UpTo
  <2> HIDE DEF Right
  <2> QED
    BY <2>1
<1>10. Front(n) = S
  BY <1>4
<1> HIDE DEF Front
<1> QED
  BY Zenon, <1>5, <1>6, <1>9, <1>10

LEMMA LowestIs ==
  ASSUME NEW least, NEW number, NEW V, V # {}, LeastIs(least, number, V), \A at \in V : number[at] \in Amounts
  PROVE  Collector!Lowest(number, V) = least
<1>1. \A at \in V : number[at] \in Int /\ number[at] <= Collector!Largest /\ least <= number[at]
  BY DEF Amounts, LeastIs
<1>2. PICK at \in V : least = number[at]
  <2>1. CASE least = Collector!Largest
    <3>1. PICK at \in V : TRUE
      OBVIOUS
    <3>2. number[at] = Collector!Largest
      BY <1>1, <2>1 DEF Collector!Largest
    <3> QED
      BY <2>1, <3>2
  <2>2. CASE \E at \in V : least = number[at]
    BY <2>2
  <2> QED
    BY <2>1, <2>2 DEF LeastIs
<1>3. PICK S : S = {number[v] : v \in V}
  OBVIOUS
<1>4. least \in S /\ \A v \in V : least <= number[v]
  BY <1>1, <1>2, <1>3
<1>5. PICK chosen : chosen = Collector!Lowest(number, V)
  OBVIOUS
<1>6. chosen = CHOOSE x \in S : \A v \in V : x <= number[v]
  BY Zenon, <1>3, <1>5 DEF Collector!Lowest
<1>7. chosen \in S /\ \A v \in V : chosen <= number[v]
  BY <1>4, <1>6
<1>8. chosen = least
  BY <1>1, <1>2, <1>3, <1>4, <1>7
<1> QED
  BY <1>5, <1>8

LEMMA HighestIs ==
  ASSUME NEW most, NEW number, NEW V, V # {}, Summands(number, V), MostIs(most, number, V)
  PROVE  Collector!Highest(number, V) >= 0 => most = Collector!Highest(number, V)
<1>1. PICK S : S = {number[v] : v \in V}
  OBVIOUS
<1>2. \A v \in V : number[v] \in Int /\ number[v] <= most
  BY DEF Summands, MostIs
<1>3. PICK x \in S : \A y \in S : y <= x
  <2>1. S \subseteq Int /\ S # {}
    BY <1>1, <1>2
  <2>2. IsFiniteSet(S)
    <3>1. PICK f : f = [v \in V |-> number[v]]
      OBVIOUS
    <3>2. f \in Surjection(V, S)
      BY <1>1, <3>1 DEF Surjection
    <3>3. IsFiniteSet(V)
      BY DEF Summands
    <3> QED
      BY <3>2, <3>3, FS_Surjection
  <2> QED
    BY <2>1, <2>2, MostNumber
<1>4. PICK chosen : chosen = Collector!Highest(number, V)
  OBVIOUS
<1>5. chosen = CHOOSE z \in S : \A v \in V : z >= number[v]
  BY Zenon, <1>1, <1>4 DEF Collector!Highest
<1>6. x \in S /\ \A v \in V : x >= number[v]
  BY <1>1, <1>2, <1>3
<1>7. chosen \in S /\ \A v \in V : chosen >= number[v]
  BY <1>5, <1>6
<1>8. chosen \in Int /\ chosen <= most
  BY <1>1, <1>2, <1>7
<1>9. most = Collector!Least \/ \E v \in V : most = number[v]
  BY DEF MostIs
<1>10. most = Collector!Least => (chosen >= 0 => most = chosen)
  BY <1>8 DEF Collector!Least
<1>11. (\E v \in V : most = number[v]) => most = chosen
  BY <1>2, <1>7, <1>8
<1> QED
  BY Zenon, <1>4, <1>9, <1>10, <1>11

LEMMA MedianIs ==
  ASSUME NEW values, NEW number, NEW V, Lists(values, number, V), values # <<>>, Len(values) % 2 = 0
  PROVE  Collector!IsMedian2(Collector!Median2(values), number, V)
<1>1. PICK n \in Nat : n = Len(values) /\ DOMAIN values = 1..n /\ n # 0 /\ values \in Seq(Int)
  BY LenProperties, EmptySeq DEF Lists
<1>2. PICK place \in Bijection(1..n, V) : \A k \in 1..n : values[k] = number[place[k]]
  BY <1>1 DEF Lists
<1>3. /\ place \in [1..n -> V] /\ \A i, j \in 1..n : place[i] = place[j] => i = j
      /\ \A x \in V : \E i \in 1..n : place[i] = x
  BY <1>2, OneByOne
<1>4. PICK low \in 1..n, high \in 1..n :
        InTheMiddle(values, low, high) /\ Collector!Median2(values) = values[low] + values[high]
  BY <1>1, MiddleIsMedian
<1>5. Collector!Cardinality(V) = n
  BY <1>2, ListedCounted, SameCount
<1>6. PICK a, b : a = place[low] /\ b = place[high]
  OBVIOUS
<1>7. a \in V /\ b \in V /\ a # b /\ values[low] = number[a] /\ values[high] = number[b]
  BY <1>2, <1>3, <1>4, <1>6 DEF InTheMiddle
<1>8. \A at \in V : number[at] <= number[a] \/ number[at] >= number[b]
  <2> SUFFICES ASSUME NEW at \in V PROVE number[at] <= number[a] \/ number[at] >= number[b]
    OBVIOUS
  <2>1. PICK i \in 1..n : place[i] = at
    BY <1>3
  <2>2. values[i] = number[at] /\ (values[i] <= values[low] \/ values[i] >= values[high])
    BY <1>1, <1>2, <1>4, <2>1 DEF InTheMiddle
  <2> QED
    BY Zenon, <1>7, <2>2
<1>9. {at \in V : number[at] <= number[a]} = PlacedAt(place, AtMost(values, values[low]))
  BY <1>1, <1>2, <1>3, <1>7 DEF AtMost, PlacedAt
<1>10. {at \in V : number[at] >= number[b]} = PlacedAt(place, AtLeast(values, values[high]))
  BY <1>1, <1>2, <1>3, <1>7 DEF AtLeast, PlacedAt
<1>11. Cardinality(PlacedAt(place, AtMost(values, values[low]))) = Cardinality(AtMost(values, values[low]))
  <2>1. AtMost(values, values[low]) \in SUBSET (1..n)
    BY <1>1 DEF AtMost
  <2> QED
    BY <2>1, PlacesCounted
<1>12. Cardinality(PlacedAt(place, AtLeast(values, values[high]))) = Cardinality(AtLeast(values, values[high]))
  <2>1. AtLeast(values, values[high]) \in SUBSET (1..n)
    BY <1>1 DEF AtLeast
  <2> QED
    BY <2>1, PlacesCounted
<1>13. Collector!Cardinality({at \in V : number[at] <= number[a]}) = Cardinality(AtMost(values, values[low]))
  BY Zenon, <1>9, <1>11, SameCount
<1>14. Collector!Cardinality({at \in V : number[at] >= number[b]}) = Cardinality(AtLeast(values, values[high]))
  BY Zenon, <1>10, <1>12, SameCount
<1>15. /\ 2 * Collector!Cardinality({at \in V : number[at] <= number[a]}) >= Collector!Cardinality(V)
       /\ 2 * Collector!Cardinality({at \in V : number[at] >= number[b]}) >= Collector!Cardinality(V)
  BY Zenon, <1>1, <1>4, <1>5, <1>13, <1>14 DEF InTheMiddle
<1>16. Collector!Median2(values) = number[a] + number[b]
  BY Zenon, <1>4, <1>7
<1> QED
  BY Zenon, <1>7, <1>8, <1>15, <1>16 DEF Collector!IsMedian2

(* What is printed of a module of a device.                                *)
EntryRight(entry, fact, time) ==
  LET V == LateIn(fact, time, OfIn(fact, entry.device, entry.module), TRUE)
      number == NumbersIn(fact)
  IN  /\ entry.size = Collector!Cardinality(V)
      /\ entry.invalid = Collector!Cardinality(LateIn(fact, time, OfIn(fact, entry.device, entry.module), FALSE))
      /\ entry.sum = Collector!SumOf(number, V)
      /\ entry.min = Collector!Lowest(number, V)
      /\ Collector!Highest(number, V) >= 0 => entry.max = Collector!Highest(number, V)
      /\ entry.size % 2 = 0 => Collector!IsMedian2(entry.median2, number, V)

LEMMA ListsNothing ==
  ASSUME NEW values, NEW number, NEW V, Lists(values, number, V)
  PROVE  /\ values = <<>> <=> V = {}
         /\ Collector!Cardinality(V) = Len(values)
<1>1. PICK n \in Nat : n = Len(values)
  BY LenProperties DEF Lists
<1>2. PICK place \in Bijection(1..n, V) : TRUE
  BY <1>1 DEF Lists
<1>3. place \in [1..n -> V] /\ \A x \in V : \E i \in 1..n : place[i] = x
  BY <1>2, OneByOne
<1>4. n = 0 <=> V = {}
  <2>1. n = 0 => 1..n = {}
    OBVIOUS
  <2>2. n # 0 => 1 \in 1..n
    OBVIOUS
  <2> QED
    BY <1>3, <2>1, <2>2
<1>5. values = <<>> <=> n = 0
  BY <1>1, EmptySeq DEF Lists
<1>6. Collector!Cardinality(V) = n
  BY <1>2, ListedCounted, SameCount
<1> QED
  BY <1>1, <1>4, <1>5, <1>6

LEMMA NumbersOfKept ==
  ASSUME NEW values, NEW fact, NEW S, SamplesKept(values, fact, S), NEW T \in SUBSET S
  PROVE  \A at \in T : NumbersIn(fact)[at] \in Amounts
<1> SUFFICES ASSUME NEW at \in T PROVE NumbersIn(fact)[at] \in Amounts
  OBVIOUS
<1>1. PICK place \in Bijection(1..Len(values), S) : \A k \in 1..Len(values) : values[k] = fact[place[k]].sample
  BY DEF SamplesKept
<1>2. PICK k \in 1..Len(values) : place[k] = at
  BY OneByOne
<1>3. values[k] \in SampleSet
  BY LenProperties DEF SamplesKept
<1>4. fact[at].sample \in SampleSet /\ at \in DOMAIN fact
  BY <1>1, <1>2, <1>3 DEF SamplesKept
<1> QED
  BY <1>4 DEF NumbersIn, SampleSet

(* exportStatistics()                                                      *)
LEMMA EntryPrinted ==
  ASSUME clock \in Int, NEW module, NEW fact, NEW device, SamplesKept(module.values, fact, OfIn(fact, device, module.module)),
         NEW V, V = LateIn(fact, clock, OfIn(fact, device, module.module), TRUE)
  PROVE  /\ Collector!EntryOf(device, module) = {} <=> V = {}
         /\ \A entry \in Collector!EntryOf(device, module) :
              entry.device = device /\ entry.module = module.module /\ EntryRight(entry, fact, clock)
<1>1. PICK S : S = OfIn(fact, device, module.module)
  OBVIOUS
<1>2. PICK number, stat, I : /\ number = NumbersIn(fact) /\ stat = Collector!StatOf(module)
                             /\ I = LateIn(fact, clock, S, FALSE)
  OBVIOUS
<1>3. IsStat(stat, number, V, I)
  BY <1>1, <1>2, StatOfIs
<1>4. V \subseteq S
  BY <1>1 DEF LateIn
<1>5. Lists(stat.values, number, V)
  BY <1>3 DEF IsStat
<1>6. (stat.values = <<>> <=> V = {}) /\ Collector!Cardinality(V) = Len(stat.values)
  BY <1>5, ListsNothing
<1>7. CASE stat.values = <<>>
  <2>1. Collector!EntryOf(device, module) = {}
    BY Zenon, <1>2, <1>7 DEF Collector!EntryOf
  <2> QED
    BY <1>6, <1>7, <2>1
<1>8. CASE stat.values # <<>>
  <2>1. PICK entry :
          entry = [device |-> device, module |-> module.module, min |-> stat.min, max |-> stat.max,
                   sum |-> stat.sum, size |-> Len(stat.values), median2 |-> Collector!Median2(stat.values),
                   invalid |-> stat.invalid]
    OBVIOUS
  <2>2. Collector!EntryOf(device, module) = {entry}
    BY Zenon, <1>2, <1>8, <2>1 DEF Collector!EntryOf
  <2>3. /\ entry.device = device /\ entry.module = module.module /\ entry.min = stat.min
        /\ entry.max = stat.max /\ entry.sum = stat.sum /\ entry.size = Len(stat.values)
        /\ entry.median2 = Collector!Median2(stat.values) /\ entry.invalid = stat.invalid
    BY <2>1
  <2>4. V # {}
    BY <1>6, <1>8
  <2>5. Collector!Lowest(number, V) = stat.min
    <3>1. \A at \in V : number[at] \in Amounts
      <4>1. SamplesKept(module.values, fact, S) /\ V \in SUBSET S
        BY <1>1, <1>4
      <4>2. \A at \in V : NumbersIn(fact)[at] \in Amounts
        BY <4>1, NumbersOfKept
      <4> QED
        BY Zenon, <1>2, <4>2
    <3>2. LeastIs(stat.min, number, V)
      BY <1>3 DEF IsStat
    <3> QED
      BY <2>4, <3>1, <3>2, LowestIs
  <2>6. Collector!Highest(number, V) >= 0 => stat.max = Collector!Highest(number, V)
    <3>1. Summands(number, V) /\ MostIs(stat.max, number, V)
      BY <1>3 DEF IsStat
    <3> QED
      BY <2>4, <3>1, HighestIs
  <2>7. Len(stat.values) % 2 = 0 => Collector!IsMedian2(Collector!Median2(stat.values), number, V)
    BY <1>5, <1>8, MedianIs
  <2>8. stat.sum = Collector!SumOf(number, V) /\ stat.invalid = Collector!Cardinality(I)
    BY <1>3, SameCount DEF IsStat
  <2>9. /\ V = LateIn(fact, clock, OfIn(fact, entry.device, entry.module), TRUE)
        /\ I = LateIn(fact, clock, OfIn(fact, entry.device, entry.module), FALSE)
    BY Zenon, <1>1, <1>2, <2>3
  <2>10. EntryRight(entry, fact, clock)
    BY Zenon, <1>2, <1>6, <2>3, <2>5, <2>6, <2>7, <2>8, <2>9 DEF EntryRight
  <2> QED
    BY Zenon, <2>2, <2>3, <2>4, <2>10
<1> QED
  BY <1>7, <1>8

PairsOf(fact) == {<<fact[at].device, fact[at].module>> : at \in DOMAIN fact}
PairsIn(fact, devices) == {<<fact[at].device, fact[at].module>> : at \in {x \in DOMAIN fact : fact[x].device \in devices}}

LEMMA ModulesOfDevice ==
  ASSUME NEW modules, NEW fact, NEW device, ModulesKept(modules, fact, device)
  PROVE  IsFiniteSet(PairsIn(fact, {device})) /\ Cardinality(PairsIn(fact, {device})) = Len(modules)
<1>1. PICK n \in Nat : n = Len(modules) /\ DOMAIN modules = 1..n
  BY LenProperties DEF ModulesKept
<1>2. PICK each : each = [i \in 1..n |-> <<device, modules[i].module>>]
  OBVIOUS
<1>3. PICK S : S = PairsIn(fact, {device})
  OBVIOUS
<1>4. ASSUME NEW i \in 1..n PROVE <<device, modules[i].module>> \in S
  <2>1. modules[i].values # <<>> /\ SamplesKept(modules[i].values, fact, OfIn(fact, device, modules[i].module))
    BY <1>1 DEF ModulesKept, EachKept
  <2>2. PICK at : at \in OfIn(fact, device, modules[i].module)
    <3>1. PICK place \in Bijection(1..Len(modules[i].values), OfIn(fact, device, modules[i].module)) : TRUE
      BY <2>1 DEF SamplesKept
    <3>2. place \in [1..Len(modules[i].values) -> OfIn(fact, device, modules[i].module)]
      BY <3>1, OneByOne
    <3>3. 1 \in 1..Len(modules[i].values)
      BY <2>1, EmptySeq DEF SamplesKept
    <3> QED
      BY <3>2, <3>3
  <2>3. at \in DOMAIN fact /\ fact[at].device = device /\ fact[at].module = modules[i].module
    BY <2>2 DEF OfIn
  <2> QED
    BY <1>3, <2>3 DEF PairsIn
<1>5. each \in [1..n -> S]
  BY <1>2, <1>4
<1>6. \A i, j \in 1..n : each[i] = each[j] => i = j
  <2> SUFFICES ASSUME NEW i \in 1..n, NEW j \in 1..n, each[i] = each[j] PROVE i = j
    OBVIOUS
  <2>1. modules[i].module = modules[j].module
    BY <1>2
  <2> QED
    BY <1>1, <2>1 DEF ModulesKept, OneEach
<1>7. \A x \in S : \E i \in 1..n : each[i] = x
  <2> SUFFICES ASSUME NEW x \in S PROVE \E i \in 1..n : each[i] = x
    OBVIOUS
  <2>1. PICK at \in DOMAIN fact : fact[at].device = device /\ x = <<fact[at].device, fact[at].module>>
    BY <1>3 DEF PairsIn
  <2>2. PICK i \in 1..n : modules[i].module = fact[at].module
    BY <1>1, <2>1 DEF ModulesKept, NoneMissing
  <2> QED
    BY <1>2, <2>1, <2>2
<1>8. each \in Bijection(1..n, S)
  BY <1>5, <1>6, <1>7, OneByOne
<1> QED
  BY <1>1, <1>3, <1>8, ListedCounted

LEMMA HistoryFinite ==
  ASSUME NEW history, NEW modulesOf, HistoryKept(history, modulesOf)
  PROVE  IsFiniteSet(DOMAIN modulesOf)
<1>1. PICK n \in Nat : n = Len(history)
  BY LenProperties DEF HistoryKept
<1>2. PICK S : S = DOMAIN modulesOf
  OBVIOUS
<1>3. PICK f : f = [i \in 1..n |-> history[i].data.device]
  OBVIOUS
<1>4. f \in Surjection(1..n, S)
  BY <1>1, <1>2, <1>3 DEF Surjection, HistoryKept
<1>5. ExistsSurjection(1..n, S)
  BY <1>4 DEF ExistsSurjection
<1> QED
  BY <1>2, <1>5, FS_NatSurjection

LEMMA ModulesCounted ==
  ASSUME NEW history, NEW modulesOf, HistoryKept(history, modulesOf), NEW fact, fact = FactsOf(history, Len(history)),
         NEW number, number = [device \in DOMAIN modulesOf |-> Len(modulesOf[device])]
  PROVE  Collector!SumOf(number, DOMAIN modulesOf) = Cardinality(PairsOf(fact))
<1>1. PICK D : D = DOMAIN modulesOf /\ IsFiniteSet(D)
  BY HistoryFinite
<1> DEFINE Right(E) == IsFiniteSet(PairsIn(fact, E)) /\ Collector!SumOf(number, E) = Cardinality(PairsIn(fact, E))
           Good == {E \in SUBSET D : Right(E)}
<1>2. {} \in Good
  <2>1. PairsIn(fact, {}) = {}
    BY DEF PairsIn
  <2>2. Right({})
    BY <2>1, SumOfNothing, FS_EmptySet
  <2> QED
    BY <2>2
<1>3. ASSUME NEW E \in SUBSET D, NEW d \in D, E \in Good, d \notin E PROVE E \cup {d} \in Good
  <2>1. ModulesKept(modulesOf[d], fact, d)
    BY <1>1 DEF HistoryKept
  <2>2. IsFiniteSet(PairsIn(fact, {d})) /\ Cardinality(PairsIn(fact, {d})) = Len(modulesOf[d])
    BY <2>1, ModulesOfDevice
  <2>3. PairsIn(fact, E \cup {d}) = PairsIn(fact, E) \cup PairsIn(fact, {d})
    BY DEF PairsIn
  <2>4. PairsIn(fact, E) \cap PairsIn(fact, {d}) = {}
    BY <1>3 DEF PairsIn
  <2>5. Right(E)
    BY <1>3
  <2>6. PICK one, two : one = PairsIn(fact, E) /\ two = PairsIn(fact, {d})
    OBVIOUS
  <2>7. /\ IsFiniteSet(one \cup two)
        /\ Cardinality(one \cup two) = Cardinality(one) + Cardinality(two) - Cardinality(one \cap two)
    BY <2>2, <2>5, <2>6, FS_Union
  <2>8. one \cap two = {} /\ Cardinality({}) = 0
    BY <2>4, <2>6, FS_EmptySet
  <2>9. Cardinality(one) \in Nat /\ Cardinality(two) \in Nat
    BY <2>2, <2>5, <2>6, FS_CardinalityType
  <2>10. Cardinality(one \cup two) = Cardinality(one) + Cardinality(two)
    <3>1. PICK a, b \in Nat : a = Cardinality(one) /\ b = Cardinality(two)
      BY <2>9
    <3>2. Cardinality(one \cup two) = a + b - 0
      BY Zenon, <2>7, <2>8, <3>1
    <3>3. a + b - 0 = a + b
      OBVIOUS
    <3> QED
      BY Zenon, <3>1, <3>2, <3>3
  <2>11. number[d] = Len(modulesOf[d])
    BY <1>1
  <2>12. Collector!SumOf(number, E \cup {d}) = Collector!SumOf(number, E) + number[d]
    <3>1. \A e \in D : number[e] \in Int
      <4> SUFFICES ASSUME NEW e \in D PROVE Len(modulesOf[e]) \in Int
        BY <1>1
      <4>1. modulesOf[e] \in Seq(ModuleSet)
        BY <1>1 DEF HistoryKept, ModulesKept
      <4> QED
        BY <4>1, LenProperties
    <3>2. E \cup {d} \in SUBSET D
      OBVIOUS
    <3>3. IsFiniteSet(E \cup {d})
      BY <1>1, <3>2, SubsetCounted
    <3>4. Summands(number, E \cup {d})
      BY <3>1, <3>2, <3>3 DEF Summands
    <3> QED
      BY <1>3, <3>4, SumAdded
  <2>13. Collector!SumOf(number, E \cup {d}) = Cardinality(one) + Cardinality(two)
    BY Zenon, <2>2, <2>5, <2>6, <2>11, <2>12
  <2>14. Right(E \cup {d})
    BY Zenon, <2>3, <2>6, <2>7, <2>10, <2>13
  <2> HIDE DEF Right
  <2> QED
    BY <2>14
<1>4. D \in Good
  <2> HIDE DEF Good
  <2> QED
    BY <1>1, <1>2, <1>3, ElementByElement
<1>5. PairsIn(fact, D) = PairsOf(fact)
  <2>1. \A at \in DOMAIN fact : fact[at].device \in D
    <3> SUFFICES ASSUME NEW at \in FactPlaces(history, Len(history)) PROVE FactOf(history, at).device \in D
      BY DEF FactsOf
    <3>1. Len(history) \in Nat
      BY LenProperties DEF HistoryKept
    <3>2. PICK i \in 1..Len(history) : \E j \in DOMAIN history[i].data.values : at = <<i, j>>
      BY <3>1, PlacesOf
    <3>3. at[1] = i
      BY <3>2
    <3> QED
      BY <1>1, <3>3 DEF FactOf, HistoryKept
  <2> QED
    BY <2>1 DEF PairsIn, PairsOf
<1> QED
  BY <1>1, <1>4, <1>5

DevicesOf(history, n) == {history[i].data.device : i \in 1..n}
PairsPrinted(out) == {<<entry.device, entry.module>> : entry \in out.entries}
PairsToPrint(fact, time) ==
  {pair \in PairsOf(fact) : LateIn(fact, time, OfIn(fact, pair[1], pair[2]), TRUE) # {}}

PrintRight(out, history, time) ==
  LET fact == FactsOf(history, out.exports)
  IN  /\ \A entry \in out.entries : EntryRight(entry, fact, time)
      /\ PairsPrinted(out) = PairsToPrint(fact, time)
      /\ out.modules = Collector!Cardinality(PairsOf(fact))
      /\ out.devices = Collector!Cardinality(DevicesOf(history, out.exports))

(* What is printed of a module of a device, V being its recent valid       *)
(* samples.                                                                *)
EntriesRight(device, module, fact, time, V) ==
  /\ Collector!EntryOf(device, module) = {} <=> V = {}
  /\ \A entry \in Collector!EntryOf(device, module) :
       entry.device = device /\ entry.module = module.module /\ EntryRight(entry, fact, time)

LEMMA EntriesPrinted ==
  ASSUME HistoryKept(measured, collected), clock \in Int, NEW fact, fact = FactsOf(measured, Len(measured)),
         NEW d \in DOMAIN collected, NEW i \in DOMAIN collected[d], NEW V,
         V = LateIn(fact, clock, OfIn(fact, d, collected[d][i].module), TRUE)
  PROVE  EntriesRight(d, collected[d][i], fact, clock, V)
<1>1. PICK module : module = collected[d][i]
  OBVIOUS
<1>2. SamplesKept(module.values, fact, OfIn(fact, d, module.module))
  BY <1>1 DEF HistoryKept, ModulesKept, EachKept
<1>3. V = LateIn(fact, clock, OfIn(fact, d, module.module), TRUE)
  BY <1>1
<1>4. /\ Collector!EntryOf(d, module) = {} <=> V = {}
      /\ \A entry \in Collector!EntryOf(d, module) :
           entry.device = d /\ entry.module = module.module /\ EntryRight(entry, fact, clock)
  BY <1>2, <1>3, EntryPrinted
<1>5. EntriesRight(d, module, fact, clock, V)
  BY Zenon, <1>4 DEF EntriesRight
<1> QED
  BY Zenon, <1>1, <1>5

LEMMA FactsCollected ==
  ASSUME HistoryKept(measured, collected), NEW fact, fact = FactsOf(measured, Len(measured)), NEW at \in DOMAIN fact
  PROVE  \E d \in DOMAIN collected : \E i \in DOMAIN collected[d] :
           fact[at].device = d /\ fact[at].module = collected[d][i].module
<1>1. at \in FactPlaces(measured, Len(measured)) /\ fact[at] = FactOf(measured, at)
  BY DEF FactsOf
<1>2. Len(measured) \in Nat
  BY LenProperties DEF HistoryKept
<1>3. PICK k \in 1..Len(measured) : \E j \in DOMAIN measured[k].data.values : at = <<k, j>>
  BY <1>1, <1>2, PlacesOf
<1>4. at[1] = k
  BY <1>3
<1>5. PICK d \in DOMAIN collected : fact[at].device = d
  BY <1>1, <1>4 DEF FactOf, HistoryKept
<1>6. NoneMissing(collected[d], fact, d)
  BY DEF HistoryKept, ModulesKept
<1> QED
  BY <1>5, <1>6 DEF NoneMissing

LEMMA StatisticsPrinted ==
  ASSUME HistoryKept(measured, collected), clock \in Int, NEW out, out = Collector!ExportStatistics
  PROVE  PrintRight(out, measured, clock) /\ out.exports = Len(measured)
<1>1. PICK fact : fact = FactsOf(measured, Len(measured))
  OBVIOUS
<1>2. /\ out.exports = Len(measured) /\ out.devices = Collector!DevicesCount /\ out.modules = Collector!ModulesCount
      /\ out.entries = UNION {UNION {Collector!EntryOf(device, collected[device][i]) : i \in DOMAIN collected[device]} :
                                device \in DOMAIN collected}
  BY DEF Collector!ExportStatistics
<1>3. \A entry : entry \in out.entries <=>
        \E d \in DOMAIN collected : \E i \in DOMAIN collected[d] : entry \in Collector!EntryOf(d, collected[d][i])
  BY <1>2
<1>4. ASSUME NEW d \in DOMAIN collected, NEW i \in DOMAIN collected[d]
      PROVE  /\ Collector!EntryOf(d, collected[d][i]) = {} <=>
                  LateIn(fact, clock, OfIn(fact, d, collected[d][i].module), TRUE) = {}
             /\ \A entry \in Collector!EntryOf(d, collected[d][i]) :
                  entry.device = d /\ entry.module = collected[d][i].module /\ EntryRight(entry, fact, clock)
  <2>1. PICK V : V = LateIn(fact, clock, OfIn(fact, d, collected[d][i].module), TRUE)
    OBVIOUS
  <2>2. EntriesRight(d, collected[d][i], fact, clock, V)
    BY Zenon, <1>1, <2>1, EntriesPrinted
  <2> QED
    BY Zenon, <2>1, <2>2 DEF EntriesRight
<1>5. \A entry \in out.entries : EntryRight(entry, fact, clock)
  BY <1>3, <1>4
<1>6. PairsPrinted(out) = PairsToPrint(fact, clock)
  <2>1. ASSUME NEW entry \in out.entries PROVE <<entry.device, entry.module>> \in PairsToPrint(fact, clock)
    <3>1. PICK d \in DOMAIN collected : \E i \in DOMAIN collected[d] : entry \in Collector!EntryOf(d, collected[d][i])
      BY <1>3
    <3>2. PICK i \in DOMAIN collected[d] : entry \in Collector!EntryOf(d, collected[d][i])
      BY <3>1
    <3>3. PICK m : m = collected[d][i].module
      OBVIOUS
    <3>4. entry.device = d /\ entry.module = m /\ LateIn(fact, clock, OfIn(fact, d, m), TRUE) # {}
      BY <1>4, <3>2, <3>3
    <3>5. PICK at \in DOMAIN fact : fact[at].device = d /\ fact[at].module = m
      BY <3>4 DEF LateIn, OfIn
    <3>6. PICK pair : pair = <<d, m>>
      OBVIOUS
    <3>7. pair[1] = d /\ pair[2] = m /\ pair \in PairsOf(fact)
      BY <3>5, <3>6 DEF PairsOf
    <3>8. pair \in PairsToPrint(fact, clock)
      BY Zenon, <3>4, <3>7 DEF PairsToPrint
    <3> QED
      BY <3>4, <3>6, <3>8
  <2>2. ASSUME NEW pair \in PairsToPrint(fact, clock)
        PROVE  \E entry \in out.entries : pair = <<entry.device, entry.module>>
    <3>1. pair \in PairsOf(fact) /\ LateIn(fact, clock, OfIn(fact, pair[1], pair[2]), TRUE) # {}
      BY Zenon DEF PairsToPrint
    <3>2. PICK at \in DOMAIN fact : pair = <<fact[at].device, fact[at].module>>
      BY <3>1 DEF PairsOf
    <3>3. PICK d \in DOMAIN collected : \E i \in DOMAIN collected[d] :
                 fact[at].device = d /\ fact[at].module = collected[d][i].module
      BY <1>1, FactsCollected
    <3>4. PICK i \in DOMAIN collected[d] : fact[at].device = d /\ fact[at].module = collected[d][i].module
      BY <3>3
    <3>5. pair[1] = d /\ pair[2] = collected[d][i].module /\ pair = <<d, collected[d][i].module>>
      BY <3>2, <3>4
    <3>6. Collector!EntryOf(d, collected[d][i]) # {}
      BY Zenon, <1>4, <3>1, <3>5
    <3>7. PICK entry : entry \in Collector!EntryOf(d, collected[d][i])
      BY <3>6
    <3>8. entry \in out.entries /\ entry.device = d /\ entry.module = collected[d][i].module
      BY <1>3, <1>4, <3>7
    <3> QED
      BY <3>5, <3>8
  <2> QED
    BY <2>1, <2>2 DEF PairsPrinted
<1>7. out.modules = Collector!Cardinality(PairsOf(fact))
  <2>1. PICK number : number = [device \in DOMAIN collected |-> Len(collected[device])]
    OBVIOUS
  <2>2. Collector!ModulesCount = Collector!SumOf(number, DOMAIN collected)
    BY <2>1 DEF Collector!ModulesCount
  <2>3. Collector!SumOf(number, DOMAIN collected) = Cardinality(PairsOf(fact))
    BY <1>1, <2>1, ModulesCounted
  <2> QED
    BY <1>2, <2>2, <2>3, SameCount
<1>8. out.devices = Collector!Cardinality(DevicesOf(measured, out.exports))
  BY <1>2 DEF HistoryKept, DevicesOf, Collector!DevicesCount
<1>9. PrintRight(out, measured, clock)
  BY <1>1, <1>2, <1>5, <1>6, <1>7, <1>8 DEF PrintRight
<1> QED
  BY <1>2, <1>9

(* What has been printed stays right.                                      *)
LEMMA StaysRight ==
  ASSUME NEW out, NEW history \in Seq(ExportSet), NEW time, NEW new \in ExportSet, out.exports \in 0..Len(history),
         PrintRight(out, history, time)
  PROVE  PrintRight(out, Append(history, new), time)
<1>1. PICK n \in Nat : n = out.exports /\ n \in 0..Len(history)
  OBVIOUS
<1>2. FactsOf(Append(history, new), n) = FactsOf(history, n)
  BY <1>1, FactsStay
<1>3. DevicesOf(Append(history, new), n) = DevicesOf(history, n)
  <2>1. \A i \in 1..n : Append(history, new)[i] = history[i]
    BY <1>1, AppendProperties
  <2> QED
    BY <2>1 DEF DevicesOf
<1> QED
  BY <1>1, <1>2, <1>3 DEF PrintRight

StatisticsInv ==
  /\ HistoryKept(measured, collected) /\ clock \in Int
  /\ printed.exports \in 0..Len(measured) /\ PrintRight(printed, measured, printedAt)

LEMMA StatisticsStart ==
  ASSUME Collector!StatisticsInit
  PROVE  StatisticsInv
<1>1. /\ measured = <<>> /\ collected = <<>> /\ clock = 0 /\ printed = Collector!Nothing
      /\ printed.exports = 0 /\ printed.entries = {} /\ printed.modules = 0 /\ printed.devices = 0
  BY DEF Collector!StatisticsInit, Collector!Nothing
<1>2. measured \in Seq(ExportSet) /\ Len(measured) = 0 /\ 1..0 = {} /\ DOMAIN collected = {}
  BY <1>1, EmptySeq
<1>3. HistoryKept(measured, collected)
  BY <1>2 DEF HistoryKept
<1>4. FactPlaces(measured, 0) = {}
  BY <1>2 DEF FactPlaces
<1>5. DOMAIN FactsOf(measured, 0) = {}
  BY <1>4 DEF FactsOf
<1>6. PairsOf(FactsOf(measured, 0)) = {} /\ DevicesOf(measured, 0) = {}
  BY <1>2, <1>5 DEF PairsOf, DevicesOf
<1>7. PairsPrinted(printed) = {} /\ PairsToPrint(FactsOf(measured, 0), printedAt) = {}
  BY <1>1, <1>6 DEF PairsPrinted, PairsToPrint
<1>8. Collector!Cardinality({}) = 0
  BY FS_EmptySet, SameCount
<1>9. PrintRight(printed, measured, printedAt)
  BY Zenon, <1>1, <1>6, <1>7, <1>8 DEF PrintRight
<1> QED
  BY <1>1, <1>2, <1>3, <1>9 DEF StatisticsInv

LEMMA StatisticsExport ==
  ASSUME StatisticsInv, Collector!OnExport
  PROVE  StatisticsInv'
<1>1. PICK data \in Samples, time \in {clock, -Interval - 1} :
        LET before == IF data.device \in DOMAIN collected THEN collected[data.device] ELSE <<>>
            after == Collector!InsertData(before, time, data.values)
        IN  /\ collected' = [device \in DOMAIN collected \cup {data.device} |->
                               IF device = data.device THEN after ELSE collected[device]]
            /\ measured' = Append(measured, [time |-> time, data |-> data])
            /\ UNCHANGED <<clock, printedAt, printed>>
  BY Zenon DEF Collector!OnExport
<1>2. time \in Int /\ clock \in Int
  BY SamplesAssumption DEF StatisticsInv
<1>3. PICK before : before = IF data.device \in DOMAIN collected THEN collected[data.device] ELSE <<>>
  OBVIOUS
<1>4. PICK new \in ExportSet : new = [time |-> time, data |-> data]
  BY <1>2 DEF ExportSet
<1>5. /\ collected' = [device \in DOMAIN collected \cup {data.device} |->
                         IF device = data.device THEN Collector!InsertData(before, time, data.values)
                         ELSE collected[device]]
      /\ measured' = Append(measured, new) /\ clock' = clock /\ printedAt' = printedAt /\ printed' = printed
  BY Zenon, <1>1, <1>3, <1>4
<1>6. PICK history, modulesOf : history = measured /\ modulesOf = collected
  OBVIOUS
<1>7. HistoryKept(history, modulesOf)
  BY <1>6 DEF StatisticsInv
<1>8. PICK newHistory, newModules :
        /\ newHistory = Append(history, [time |-> time, data |-> data])
        /\ newModules = [device \in DOMAIN modulesOf \cup {data.device} |->
                           IF device = data.device THEN Collector!InsertData(before, time, data.values)
                           ELSE modulesOf[device]]
  OBVIOUS
<1>9. HistoryKept(measured', collected')
  <2>1. AfterExport(history, modulesOf, data, time, before, newHistory, newModules)
    BY Zenon, <1>3, <1>6, <1>8 DEF AfterExport
  <2>2. HistoryKept(newHistory, newModules)
    BY Zenon, <1>2, <1>7, <2>1, ExportKept
  <2>3. measured' = newHistory /\ collected' = newModules
    BY Zenon, <1>4, <1>5, <1>6, <1>8
  <2> QED
    BY Zenon, <2>2, <2>3
<1>10. measured \in Seq(ExportSet) /\ printed.exports \in 0..Len(measured)
  BY DEF StatisticsInv, HistoryKept
<1>11. PrintRight(printed, Append(measured, new), printedAt)
  BY <1>10, StaysRight DEF StatisticsInv
<1>12. Len(measured') = Len(measured) + 1 /\ Len(measured) \in Nat
  BY <1>5, <1>10, AppendProperties, LenProperties
<1>13. printed'.exports \in 0..Len(measured')
  BY <1>5, <1>10, <1>12
<1> QED
  BY Zenon, <1>2, <1>5, <1>9, <1>11, <1>13 DEF StatisticsInv

LEMMA StatisticsPrint ==
  ASSUME StatisticsInv, Collector!PrintStatistics
  PROVE  StatisticsInv'
<1>1. /\ printedAt' = clock /\ printed' = Collector!ExportStatistics
      /\ clock' = clock /\ collected' = collected /\ measured' = measured
  BY DEF Collector!PrintStatistics
<1>2. HistoryKept(measured, collected) /\ clock \in Int
  BY DEF StatisticsInv
<1>3. PICK out : out = Collector!ExportStatistics
  OBVIOUS
<1>4. PrintRight(out, measured, clock) /\ out.exports = Len(measured)
  BY <1>2, <1>3, StatisticsPrinted
<1>5. Len(measured) \in Nat
  BY <1>2, LenProperties DEF HistoryKept
<1>6. out.exports \in 0..Len(measured)
  BY <1>4, <1>5
<1> QED
  BY Zenon, <1>1, <1>2, <1>3, <1>4, <1>6 DEF StatisticsInv

LEMMA StatisticsKeep ==
  ASSUME StatisticsInv, [Collector!StatisticsNext]_statisticsVars
  PROVE  StatisticsInv'
<1>1. CASE Collector!OnExport
  BY <1>1, StatisticsExport
<1>2. CASE Collector!PrintStatistics
  BY <1>2, StatisticsPrint
<1>3. CASE Collector!Tick
  <2>1. clock' = clock + 1 /\ collected' = collected /\ printedAt' = printedAt /\ printed' = printed /\ measured' = measured
    BY <1>3 DEF Collector!Tick
  <2>2. clock' \in Int
    BY <2>1 DEF StatisticsInv
  <2> QED
    BY Zenon, <2>1, <2>2 DEF StatisticsInv
<1>4. CASE UNCHANGED statisticsVars
  <2>1. clock' = clock /\ collected' = collected /\ printedAt' = printedAt /\ printed' = printed /\ measured' = measured
    BY <1>4 DEF statisticsVars
  <2> QED
    BY Zenon, <2>1 DEF StatisticsInv
<1> QED
  BY <1>1, <1>2, <1>3, <1>4 DEF Collector!StatisticsNext

LEMMA StatisticsAgree ==
  ASSUME StatisticsInv
  PROVE  Collector!StatisticsAreRight
<1>1. PICK n \in Nat : n = printed.exports
  BY DEF StatisticsInv
<1>2. PICK fact : fact = FactsOf(measured, n)
  OBVIOUS
<1>3. Collector!MeasuredAt = FactPlaces(measured, n) /\ DOMAIN fact = Collector!MeasuredAt
  <2>1. Collector!MeasuredAt = FactPlaces(measured, n)
    BY <1>1 DEF Collector!MeasuredAt, FactPlaces
  <2> QED
    BY <1>2, <2>1 DEF FactsOf
<1>4. ASSUME NEW at \in Collector!MeasuredAt
      PROVE  /\ fact[at].device = measured[at[1]].data.device
             /\ fact[at].module = Collector!ValueAt(at).module
             /\ fact[at].sample.time = measured[at[1]].time
             /\ fact[at].sample.value = Collector!ValueAt(at).value
             /\ fact[at].sample.valid = Collector!ValueAt(at).valid
  <2>1. fact[at] = FactOf(measured, at)
    BY <1>2, <1>3 DEF FactsOf
  <2> QED
    BY <2>1 DEF FactOf, Collector!ValueAt
<1>5. Collector!SampleValues = NumbersIn(fact)
  BY <1>3, <1>4 DEF Collector!SampleValues, NumbersIn
<1>6. \A d, m : Collector!OfModule(d, m) = OfIn(fact, d, m)
  BY <1>3, <1>4 DEF Collector!OfModule, OfIn
<1>7. \A d, m, valid : Collector!Recent(d, m, valid) = LateIn(fact, printedAt, OfIn(fact, d, m), valid)
  <2> SUFFICES ASSUME NEW d, NEW m, NEW valid
               PROVE  Collector!Recent(d, m, valid) = LateIn(fact, printedAt, OfIn(fact, d, m), valid)
    OBVIOUS
  <2>1. PICK S : S = OfIn(fact, d, m) /\ S = Collector!OfModule(d, m)
    BY <1>6
  <2>2. S \subseteq Collector!MeasuredAt
    BY <1>3, <2>1 DEF OfIn
  <2>3. LateIn(fact, printedAt, S, valid) = Collector!Recent(d, m, valid)
    BY <1>4, <2>1, <2>2 DEF LateIn, Collector!Recent
  <2> QED
    BY <2>1, <2>3
<1>8. Collector!Pairs = PairsOf(fact)
  BY <1>3, <1>4 DEF Collector!Pairs, PairsOf
<1>9. PrintRight(printed, measured, printedAt)
  BY DEF StatisticsInv
<1>10. /\ \A entry \in printed.entries : EntryRight(entry, fact, printedAt)
       /\ PairsPrinted(printed) = PairsToPrint(fact, printedAt)
       /\ printed.modules = Collector!Cardinality(PairsOf(fact))
       /\ printed.devices = Collector!Cardinality(DevicesOf(measured, n))
  BY Zenon, <1>1, <1>2, <1>9 DEF PrintRight
<1>11. ASSUME NEW entry \in printed.entries PROVE Collector!EntryIsRight(entry)
  <2>1. EntryRight(entry, fact, printedAt)
    BY <1>10
  <2>2. PICK d, m : d = entry.device /\ m = entry.module
    OBVIOUS
  <2>3. /\ Collector!Recent(d, m, TRUE) = LateIn(fact, printedAt, OfIn(fact, d, m), TRUE)
        /\ Collector!Recent(d, m, FALSE) = LateIn(fact, printedAt, OfIn(fact, d, m), FALSE)
    BY <1>7
  <2> QED
    BY Zenon, <1>5, <2>1, <2>2, <2>3 DEF EntryRight, Collector!EntryIsRight
<1>12. PairsToPrint(fact, printedAt) = {pair \in Collector!Pairs : Collector!Recent(pair[1], pair[2], TRUE) # {}}
  BY <1>7, <1>8 DEF PairsToPrint
<1>13. {<<entry.device, entry.module>> : entry \in printed.entries} =
         {pair \in Collector!Pairs : Collector!Recent(pair[1], pair[2], TRUE) # {}}
  BY <1>10, <1>12 DEF PairsPrinted
<1>14. printed.devices = Collector!Cardinality({measured[i].data.device : i \in 1..printed.exports})
  BY <1>1, <1>10 DEF DevicesOf
<1> QED
  BY Zenon, <1>8, <1>10, <1>11, <1>13, <1>14 DEF Collector!StatisticsAreRight

(* Whatever order and mixture has been exported: the statistics that are   *)
(* printed are those of what has been measured since one interval before,  *)
(* device by device and module by module (SimpleCollector.cpp,             *)
(* StatisticsData.cpp).                                                    *)
THEOREM StatisticsComeOutRight == Spec => []Collector!StatisticsAreRight
<1>1. Init => StatisticsInv
  BY StatisticsStart DEF Init
<1>2. StatisticsInv /\ [Next]_vars => StatisticsInv'
  <2> SUFFICES ASSUME StatisticsInv, [Next]_vars PROVE StatisticsInv'
    OBVIOUS
  <2>1. [Collector!StatisticsNext]_statisticsVars
    BY Zenon DEF Next, vars, InfoStep, ServerStep, ProductStep, CredentialsStep, IdentifierStep, StatisticsStep,
      TransactionStep, SslStep, GeneratorStep
  <2> QED
    BY <2>1, StatisticsKeep
<1>3. StatisticsInv => Collector!StatisticsAreRight
  BY StatisticsAgree
<1> QED
  BY <1>1, <1>2, <1>3, PTL DEF Spec

-----------------------------------------------------------------------------
(* Together: whatever is read back, computed, counted or opened is what    *)
(* has been written, made, measured or chosen, in every family (Values).   *)
THEOREM AllIsReadBack == Spec => []ReadsBack
<1> QED
  BY MessagesAreReadBack, ProductsAreReadBack, CredentialsAreKept, IdentifiersAreReadBack, StatisticsComeOutRight,
     TransactionsEndOnce, KeysOpenedInAnyOrder, GeneratedAsMade, PTL DEF ReadsBack
=============================================================================
