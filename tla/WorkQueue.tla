------------------------------ MODULE WorkQueue ------------------------------
(***************************************************************************)
(* BasicQueue (base/src/work) under its lock: m_queue, the works that wait *)
(* for anything, and m_active, a multimap that orders those with an        *)
(* activation time.  Key::operator< compares periods of EVERY_5SECS,       *)
(* priorities and times, and is not an order as soon as works of different *)
(* priorities are in different periods: each of two keys may then be less  *)
(* than the other one.  Where an insertion ends depends on the shape of    *)
(* the tree; every gap in which the search of the multimap can end is      *)
(* possible here.                                                          *)
(***************************************************************************)
EXTENDS Integers, SequencesExt

CONSTANTS
  Works,
  None,
  Priorities,  \* the priorities of works
  Every,       \* EVERY_5SECS, in ticks of the clock
  Durations,   \* the sleep durations of works
  Horizon      \* bound: the last time of the clock

ASSUME QueueAssumption ==
  /\ Priorities \subseteq Int
  /\ Every \in Nat \ {0}
  /\ Durations \subseteq Nat
  /\ Horizon \in Nat
  /\ None \notin Works

Never == -1   \* an activationTime() that is null

VARIABLES
  base,      \* base[w]: m_suspended, or m_created until it is set
  sleep,     \* sleep[w]: m_sleepDuration, Never when it is null
  priority,  \* priority[w]: m_priority
  done,      \* the works in state FINISHED, FAILED or CANCELED
  queued,    \* the keys of m_queue
  linked,    \* the works whose Record::ref is not m_active.end()
  active,    \* m_active: a sequence of keys with their works
  now,
  popped,    \* what popFast() has returned: a time and a work
  broken     \* TRUE: end() was erased

workVars == <<base, sleep, priority, done>>
queueVars == <<queued, linked, active>>
vars == <<workVars, queueVars, now, popped, broken>>

Nothing == [at |-> Never, work |-> None]

Entries == [at : Nat, priority : Priorities, work : Works]

TypeOK ==
  /\ base \in [Works -> 0 .. Horizon]
  /\ sleep \in [Works -> Durations \cup {0, Never}]
  /\ priority \in [Works -> Priorities]
  /\ done \subseteq Works
  /\ queued \subseteq Works
  /\ linked \subseteq Works
  /\ active \in Seq(Entries)
  /\ now \in 0 .. Horizon
  /\ popped \in [at : Nat \cup {Never}, work : Works \cup {None}]
  /\ broken \in BOOLEAN

Init ==
  /\ base = [w \in Works |-> 0]
  /\ sleep \in [Works -> Durations \cup {Never}]
  /\ priority \in [Works -> Priorities]
  /\ done = {}
  /\ queued = {}
  /\ linked = {}
  /\ active = <<>>
  /\ now = 0
  /\ popped = Nothing
  /\ broken = FALSE

Period(t) == t \div Every

(* Mutated: lower priorities first. *)
LessSwapped(k, l) ==
  \/ Period(k.at) < Period(l.at)
  \/ k.priority < l.priority
  \/ k.priority = l.priority /\ k.at < l.at

(* Key::operator< *)
Less(k, l) ==
  \/ Period(k.at) < Period(l.at)
  \/ k.priority > l.priority
  \/ k.priority = l.priority /\ k.at < l.at

ActivationTime(w, s) == IF s = Never THEN Never ELSE base[w] + s

(* The gaps the insertion of an equal or greater key goes to. *)
Gaps(k, s) ==
  {p \in 1 .. Len(s) + 1 :
     /\ p > 1 => ~Less(k, s[p - 1])
     /\ p <= Len(s) => Less(k, s[p])}

(* The place Record::ref of w points to, and m_active without it. *)
RefOf(s, w) == CHOOSE i \in DOMAIN s : s[i].work = w
Without(s, w) == RemoveAt(s, RefOf(s, w))

IsActive(w) == w \in linked
KeyOf(w) == active[RefOf(active, w)]

(* Mutated: a new priority does not move a work that is active. *)
StaysForTime(w, at) == IsActive(w) /\ at # Never /\ KeyOf(w).at = at

(* doPushUnfinishedUnlocked() leaves an active work where it is when       *)
(* neither its activation time nor its priority has changed.               *)
Stays(w, at) ==
  /\ IsActive(w)
  /\ at # Never
  /\ KeyOf(w).at = at
  /\ KeyOf(w).priority = priority[w]

(* Otherwise the work is deactivated, and activated if it has a time. *)
Enter(w, at) ==
  /\ queued' = queued \cup {w}
  /\ IF Stays(w, at)
     THEN UNCHANGED <<linked, active>>
     ELSE LET others == IF IsActive(w) THEN Without(active, w) ELSE active
              entry == [at |-> at, priority |-> priority[w], work |-> w]
          IN  IF at = Never
              THEN /\ active' = others
                   /\ linked' = linked \ {w}
              ELSE /\ \E p \in Gaps(entry, others) : active' = InsertAt(others, p, entry)
                   /\ linked' = linked \cup {w}

DoPush(w, at) == IF w \in done THEN UNCHANGED queueVars ELSE Enter(w, at)

Push(w) ==
  /\ DoPush(w, ActivationTime(w, sleep[w]))
  /\ popped' = Nothing
  /\ UNCHANGED <<workVars, now, broken>>

Wakeup(w) ==
  /\ w \in queued
  /\ sleep' = [sleep EXCEPT ![w] = 0]
  /\ DoPush(w, base[w])
  /\ popped' = Nothing
  /\ UNCHANGED <<base, priority, done, now, broken>>

(* Mutated: erases the record only. *)
CancelRecord(w) ==
  /\ w \in queued
  /\ queued' = queued \ {w}
  /\ linked' = linked \ {w}
  /\ popped' = Nothing
  /\ UNCHANGED <<workVars, active, now, broken>>

(* cancelUnlocked() erases record.ref whatever it is. *)
Cancel(w) ==
  /\ w \in queued
  /\ queued' = queued \ {w}
  /\ linked' = linked \ {w}
  /\ active' = IF IsActive(w) THEN Without(active, w) ELSE active
  /\ broken' = ~IsActive(w)
  /\ popped' = Nothing
  /\ UNCHANGED <<workVars, now>>

(* popFast() takes the head when it is due, ... *)
Pop ==
  /\ active # <<>>
  /\ Head(active).at <= now
  /\ active' = Tail(active)
  /\ queued' = queued \ {Head(active).work}
  /\ linked' = linked \ {Head(active).work}
  /\ popped' = [at |-> Head(active).at, work |-> Head(active).work]
  /\ UNCHANGED <<workVars, now, broken>>

(* ... returns the time of the head when it is not ... *)
PopEarly ==
  /\ active # <<>>
  /\ Head(active).at > now
  /\ popped' = [at |-> Head(active).at, work |-> None]
  /\ UNCHANGED <<workVars, queueVars, now, broken>>

(* ... and a time in the past when there is none. *)
PopEmpty ==
  /\ active = <<>>
  /\ popped' = Nothing
  /\ UNCHANGED <<workVars, queueVars, now, broken>>

(* The owner of a work sets its sleep duration and priority, a runner also *)
(* the time of the suspension.                                             *)
Change(w, s, p) ==
  /\ \E b \in {base[w], now} : base' = [base EXCEPT ![w] = b]
  /\ sleep' = [sleep EXCEPT ![w] = s]
  /\ priority' = [priority EXCEPT ![w] = p]
  /\ popped' = Nothing
  /\ UNCHANGED <<done, queueVars, now, broken>>

(* A runner finishes the work; a client may have pushed it meanwhile. *)
Finish(w) ==
  /\ done' = done \cup {w}
  /\ popped' = Nothing
  /\ UNCHANGED <<base, sleep, priority, queueVars, now, broken>>

Tick ==
  /\ now < Horizon
  /\ now' = now + 1
  /\ popped' = Nothing
  /\ UNCHANGED <<workVars, queueVars, broken>>

Next ==
  /\ ~broken
  /\ \/ \E w \in Works : Push(w) \/ Wakeup(w) \/ Cancel(w) \/ Finish(w)
     \/ \E w \in Works, s \in Durations \cup {Never}, p \in Priorities : Change(w, s, p)
     \/ Pop
     \/ PopEarly
     \/ PopEmpty
     \/ Tick

Spec == Init /\ [][Next]_vars

-----------------------------------------------------------------------------

EntriesOf(w) == {i \in DOMAIN active : active[i].work = w}

(* The two containers agree whatever the priorities: each record that      *)
(* points into m_active points to the only entry of its work, and nothing  *)
(* else is in m_active.  popFast() erases by work, deactivate() by         *)
(* iterator.                                                               *)
InSync ==
  /\ TypeOK
  /\ ~broken => linked \subseteq queued
  /\ ~broken =>
       \A w \in Works : Cardinality(EntriesOf(w)) = IF w \in linked THEN 1 ELSE 0

(* A push is never lost: afterwards the entry of a work has the time and   *)
(* the priority the work has now, wherever the work was before, and a work *)
(* without a time has no entry.                                            *)
PushTakesEffect ==
  [][\A w \in Works \ done : Push(w) \/ Wakeup(w) =>
       /\ w \in queued'
       /\ \A i \in DOMAIN active' : active'[i].work = w =>
            active'[i].at = base[w] + sleep'[w] /\ active'[i].priority = priority[w]
       /\ (\E i \in DOMAIN active' : active'[i].work = w) <=> sleep'[w] # Never]_vars

(* Within one period the priority decides, and the time among equals.      *)
PopsByPriority ==
  [][\A w \in Works : Pop /\ popped'.work = w =>
       \A e \in Range(active) :
         LET k == KeyOf(w)
         IN  k.priority > e.priority \/ (k.priority = e.priority /\ k.at <= e.at)]_vars
=============================================================================
