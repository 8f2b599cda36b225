--------------------------- MODULE WorkQueue_proofs ---------------------------
(***************************************************************************)
(* BasicQueue for every set of works, priorities and times: what           *)
(* Key::operator< orders, and what it does not; that m_queue and m_active  *)
(* agree whatever it orders; that a push takes effect, and that works are  *)
(* popped by their priority as long as the keys are in order.              *)
(***************************************************************************)
EXTENDS WorkQueue, SequenceTheorems, FiniteSetTheorems, TLAPS

LEMMA PeriodMonotone ==
  ASSUME NEW a \in Nat, NEW b \in Nat, a <= b
  PROVE  Period(a) <= Period(b)
<1>1. Every \in Nat /\ Every > 0
  BY QueueAssumption
<1> DEFINE q == a \div Every
           r == a % Every
           p == b \div Every
           s == b % Every
<1>2. /\ q \in Int /\ r \in Int /\ a = Every * q + r /\ 0 <= r /\ r < Every
      /\ p \in Int /\ s \in Int /\ b = Every * p + s /\ 0 <= s /\ s < Every
  BY <1>1
<1> HIDE DEF q, r, p, s
<1>3. ASSUME p < q PROVE FALSE
  <2>1. p + 1 <= q
    BY <1>2, <1>3
  <2>2. Every * (p + 1) <= Every * q
    BY <1>1, <1>2, <2>1
  <2>3. Every * (p + 1) = Every * p + Every
    BY <1>1, <1>2
  <2> QED
    BY <1>1, <1>2, <2>2, <2>3
<1> QED
  BY <1>2, <1>3 DEF Period, q, p

(* Among keys of one priority, operator< is the order of the activation    *)
(* times, so the multimap of works of one priority is ordered by time.     *)
THEOREM OnePriorityByTime ==
  ASSUME NEW k \in [at : Nat, priority : Int],
         NEW l \in [at : Nat, priority : Int],
         k.priority = l.priority
  PROVE  Less(k, l) <=> k.at < l.at
<1>1. Period(k.at) < Period(l.at) => k.at < l.at
  <2>1. l.at <= k.at => Period(l.at) <= Period(k.at)
    BY PeriodMonotone
  <2>2. Period(k.at) \in Int /\ Period(l.at) \in Int
    BY QueueAssumption DEF Period
  <2> QED
    BY <2>1, <2>2
<1> QED
  BY <1>1 DEF Less

(* Within one period operator< is a strict weak order: the higher priority *)
(* first, then the earlier time.  A multimap may rely on it.               *)
THEOREM OnePeriodIsOrdered ==
  ASSUME NEW k \in [at : Nat, priority : Int],
         NEW l \in [at : Nat, priority : Int],
         NEW m \in [at : Nat, priority : Int],
         Period(k.at) = Period(l.at), Period(l.at) = Period(m.at)
  PROVE  /\ Less(k, l) <=>
              (k.priority > l.priority \/ (k.priority = l.priority /\ k.at < l.at))
         /\ ~(Less(k, l) /\ Less(l, k))
         /\ Less(k, l) /\ Less(l, m) => Less(k, m)
         /\ ~Less(k, l) /\ ~Less(l, m) => ~Less(k, m)
<1>1. Period(k.at) \in Int /\ Period(l.at) \in Int /\ Period(m.at) \in Int
  BY QueueAssumption DEF Period
<1> QED
  BY <1>1 DEF Less

(* Across periods it is no order: of a work with a higher priority in a    *)
(* later period and one with a lower priority in an earlier period, each   *)
(* is less than the other.                                                 *)
THEOREM PeriodsBreakTheOrder ==
  ASSUME NEW k \in [at : Nat, priority : Int],
         NEW l \in [at : Nat, priority : Int],
         Period(k.at) < Period(l.at), k.priority < l.priority
  PROVE  Less(k, l) /\ Less(l, k)
BY DEF Less

(***************************************************************************)
(* The two containers.                                                     *)
(***************************************************************************)

(* No work has two entries in a list of entries. *)
Distinct(list) == \A i, j \in DOMAIN list : list[i].work = list[j].work => i = j

(* The works that have an entry. *)
WorksOf(list) == {list[i].work : i \in DOMAIN list}

(* The inductive invariant: as long as nothing was erased that is not      *)
(* there, the works whose record points into m_active are those that have  *)
(* an entry in it, one each.                                               *)
QInv ==
  /\ TypeOK
  /\ Distinct(active)
  /\ ~broken => linked = WorksOf(active) /\ linked \subseteq queued

(* RefOf() finds the entry of a work that has one. *)
LEMMA RefFinds ==
  ASSUME NEW list \in Seq(Entries), Distinct(list), NEW i \in DOMAIN list
  PROVE  RefOf(list, list[i].work) = i
BY DEF RefOf, Distinct

(* Erasing an entry leaves the others, in their order. *)
LEMMA ErasedEntry ==
  ASSUME NEW list \in Seq(Entries), NEW k \in 1 .. Len(list)
  PROVE  /\ RemoveAt(list, k) \in Seq(Entries)
         /\ Len(RemoveAt(list, k)) = Len(list) - 1
         /\ \A i \in 1 .. Len(list) - 1 :
              RemoveAt(list, k)[i] = list[IF i < k THEN i ELSE i + 1]
<1>1. Len(list) \in Nat /\ \A i \in 1 .. Len(list) : list[i] \in Entries
  BY LenProperties, ElementOfSeq
<1> DEFINE front == SubSeq(list, 1, k - 1)
           back == SubSeq(list, k + 1, Len(list))
<1>2. /\ front \in Seq(Entries) /\ Len(front) = k - 1
      /\ \A i \in 1 .. k - 1 : front[i] = list[i]
  <2>1. \A i \in 1 .. k - 1 : list[i] \in Entries
    BY <1>1
  <2> QED
    BY <1>1, <2>1, SubSeqProperties
<1>3. /\ back \in Seq(Entries) /\ Len(back) = Len(list) - k
      /\ \A i \in 1 .. Len(list) - k : back[i] = list[k + i]
  <2>1. \A i \in k + 1 .. Len(list) : list[i] \in Entries
    BY <1>1
  <2> QED
    BY <1>1, <2>1, SubSeqProperties
<1> HIDE DEF front, back
<1>4. /\ front \o back \in Seq(Entries)
      /\ Len(front \o back) = Len(front) + Len(back)
      /\ \A i \in 1 .. Len(front) + Len(back) :
           (front \o back)[i] = IF i <= Len(front) THEN front[i] ELSE back[i - Len(front)]
  BY <1>2, <1>3, ConcatProperties
<1>5. RemoveAt(list, k) = front \o back
  BY DEF RemoveAt, front, back
<1>6. Len(front) + Len(back) = Len(list) - 1
  BY <1>1, <1>2, <1>3
<1>7. ASSUME NEW i \in 1 .. Len(list) - 1
      PROVE  RemoveAt(list, k)[i] = list[IF i < k THEN i ELSE i + 1]
  <2>1. RemoveAt(list, k)[i] = IF i <= Len(front) THEN front[i] ELSE back[i - Len(front)]
    BY <1>4, <1>5, <1>6
  <2>2. CASE i < k
    BY <1>1, <1>2, <2>1, <2>2
  <2>3. CASE ~(i < k)
    <3>1. i - Len(front) \in 1 .. Len(list) - k /\ ~(i <= Len(front))
      BY <1>1, <1>2, <2>3
    <3>2. k + (i - Len(front)) = i + 1
      BY <1>1, <1>2
    <3> QED
      BY <1>3, <2>1, <2>3, <3>1, <3>2
  <2> QED
    BY <2>2, <2>3
<1> QED
  BY <1>4, <1>5, <1>6, <1>7

(* Inserting an entry leaves the others, in their order. *)
LEMMA InsertedEntry ==
  ASSUME NEW list \in Seq(Entries), NEW k \in 1 .. Len(list) + 1, NEW e \in Entries
  PROVE  /\ InsertAt(list, k, e) \in Seq(Entries)
         /\ Len(InsertAt(list, k, e)) = Len(list) + 1
         /\ \A i \in 1 .. Len(list) + 1 :
              InsertAt(list, k, e)[i] =
                IF i < k THEN list[i] ELSE IF i = k THEN e ELSE list[i - 1]
<1>1. Len(list) \in Nat /\ \A i \in 1 .. Len(list) : list[i] \in Entries
  BY LenProperties, ElementOfSeq
<1> DEFINE front == SubSeq(list, 1, k - 1)
           back == SubSeq(list, k, Len(list))
<1>2. /\ front \in Seq(Entries) /\ Len(front) = k - 1
      /\ \A i \in 1 .. k - 1 : front[i] = list[i]
  <2>1. \A i \in 1 .. k - 1 : list[i] \in Entries
    BY <1>1
  <2> QED
    BY <1>1, <2>1, SubSeqProperties
<1>3. /\ back \in Seq(Entries) /\ Len(back) = Len(list) - k + 1
      /\ \A i \in 1 .. Len(list) - k + 1 : back[i] = list[k + i - 1]
  <2>1. \A i \in k .. Len(list) : list[i] \in Entries
    BY <1>1
  <2> QED
    BY <1>1, <2>1, SubSeqProperties
<1> HIDE DEF front, back
<1>4. /\ <<e>> \in Seq(Entries) /\ Len(<<e>>) = 1 /\ <<e>>[1] = e
  OBVIOUS
<1>5. /\ front \o <<e>> \in Seq(Entries)
      /\ Len(front \o <<e>>) = k
      /\ \A i \in 1 .. k : (front \o <<e>>)[i] = IF i < k THEN list[i] ELSE e
  <2>1. /\ front \o <<e>> \in Seq(Entries)
        /\ Len(front \o <<e>>) = Len(front) + 1
        /\ \A i \in 1 .. Len(front) + 1 :
             (front \o <<e>>)[i] = IF i <= Len(front) THEN front[i] ELSE <<e>>[i - Len(front)]
    BY <1>2, <1>4, ConcatProperties
  <2> QED
    BY <1>2, <1>4, <2>1
<1> DEFINE most == front \o <<e>>
<1>6. InsertAt(list, k, e) = most \o back
  BY DEF InsertAt, front, back
<1>7. /\ most \in Seq(Entries) /\ Len(most) = k
      /\ \A i \in 1 .. k : most[i] = IF i < k THEN list[i] ELSE e
  BY <1>5
<1> HIDE DEF most
<1>8. /\ most \o back \in Seq(Entries)
      /\ Len(most \o back) = Len(most) + Len(back)
      /\ \A i \in 1 .. Len(most) + Len(back) :
           (most \o back)[i] = IF i <= Len(most) THEN most[i] ELSE back[i - Len(most)]
  BY <1>3, <1>7, ConcatProperties
<1>9. Len(most) + Len(back) = Len(list) + 1
  BY <1>1, <1>3, <1>7
<1>10. ASSUME NEW i \in 1 .. Len(list) + 1
       PROVE  InsertAt(list, k, e)[i] =
                IF i < k THEN list[i] ELSE IF i = k THEN e ELSE list[i - 1]
  <2>1. InsertAt(list, k, e)[i] = IF i <= k THEN most[i] ELSE back[i - k]
    BY <1>6, <1>7, <1>8, <1>9
  <2>2. CASE i <= k
    BY <1>1, <1>7, <2>1, <2>2
  <2>3. CASE ~(i <= k)
    <3>1. i - k \in 1 .. Len(list) - k + 1 /\ k + (i - k) - 1 = i - 1
      BY <1>1, <2>3
    <3> QED
      BY <1>1, <1>3, <2>1, <2>3, <3>1
  <2> QED
    BY <2>2, <2>3
<1> QED
  BY <1>6, <1>8, <1>9, <1>10

(* Erasing the entry of a work takes the work away, and no other one. *)
LEMMA WithoutWork ==
  ASSUME NEW list \in Seq(Entries), Distinct(list), NEW w \in WorksOf(list)
  PROVE  /\ Without(list, w) \in Seq(Entries)
         /\ Distinct(Without(list, w))
         /\ WorksOf(Without(list, w)) = WorksOf(list) \ {w}
<1>1. PICK k \in DOMAIN list : list[k].work = w
  BY DEF WorksOf
<1>2. /\ DOMAIN list = 1 .. Len(list) /\ Len(list) \in Nat
      /\ k \in 1 .. Len(list)
  BY <1>1, LenProperties
<1> DEFINE new == RemoveAt(list, k)
<1>3. Without(list, w) = new
  BY <1>1, RefFinds DEF Without
<1>4. /\ new \in Seq(Entries)
      /\ DOMAIN new = 1 .. Len(list) - 1
      /\ \A i \in 1 .. Len(list) - 1 : new[i] = list[IF i < k THEN i ELSE i + 1]
  <2>1. /\ new \in Seq(Entries) /\ Len(new) = Len(list) - 1
        /\ \A i \in 1 .. Len(list) - 1 : new[i] = list[IF i < k THEN i ELSE i + 1]
    BY <1>2, ErasedEntry
  <2> QED
    BY <2>1, LenProperties
<1> HIDE DEF new
<1>5. Distinct(new)
  <2> DEFINE Old(i) == IF i < k THEN i ELSE i + 1
  <2>1. ASSUME NEW i \in DOMAIN new, NEW j \in DOMAIN new, new[i].work = new[j].work
        PROVE  i = j
    <3>1. Old(i) \in DOMAIN list /\ Old(j) \in DOMAIN list
      BY <1>2, <1>4
    <3>2. new[i] = list[Old(i)] /\ new[j] = list[Old(j)]
      BY <1>4
    <3>3. Old(i) = Old(j)
      BY <2>1, <3>1, <3>2 DEF Distinct
    <3> QED
      BY <1>2, <1>4, <3>3
  <2> QED
    BY <2>1 DEF Distinct
<1>6. ASSUME NEW i \in DOMAIN new
      PROVE  new[i].work \in WorksOf(list) \ {w}
  <2> DEFINE j == IF i < k THEN i ELSE i + 1
  <2>1. j \in DOMAIN list /\ j # k /\ new[i] = list[j]
    BY <1>2, <1>4
  <2> QED
    BY <1>1, <2>1 DEF WorksOf, Distinct
<1>7. ASSUME NEW j \in DOMAIN list, list[j].work # w
      PROVE  list[j].work \in WorksOf(new)
  <2> DEFINE i == IF j < k THEN j ELSE j - 1
  <2>1. j # k
    BY <1>1, <1>7
  <2>2. i \in DOMAIN new /\ new[i] = list[j]
    BY <1>2, <1>4, <2>1
  <2> QED
    BY <2>2 DEF WorksOf
<1>8. WorksOf(new) = WorksOf(list) \ {w}
  BY <1>6, <1>7 DEF WorksOf
<1> QED
  BY <1>3, <1>4, <1>5, <1>8

(* Inserting the entry of a work that has none adds this work. *)
LEMMA WithWork ==
  ASSUME NEW list \in Seq(Entries), Distinct(list), NEW e \in Entries,
         e.work \notin WorksOf(list), NEW k \in 1 .. Len(list) + 1
  PROVE  LET new == InsertAt(list, k, e)
         IN  /\ new \in Seq(Entries)
             /\ Distinct(new)
             /\ WorksOf(new) = WorksOf(list) \cup {e.work}
             /\ \A i \in DOMAIN new : new[i].work = e.work => new[i] = e
<1> DEFINE new == InsertAt(list, k, e)
<1>1. DOMAIN list = 1 .. Len(list) /\ Len(list) \in Nat
  BY LenProperties
<1>2. /\ new \in Seq(Entries)
      /\ DOMAIN new = 1 .. Len(list) + 1
      /\ \A i \in 1 .. Len(list) + 1 :
           new[i] = IF i < k THEN list[i] ELSE IF i = k THEN e ELSE list[i - 1]
  <2>1. /\ new \in Seq(Entries) /\ Len(new) = Len(list) + 1
        /\ \A i \in 1 .. Len(list) + 1 :
             new[i] = IF i < k THEN list[i] ELSE IF i = k THEN e ELSE list[i - 1]
    BY InsertedEntry
  <2> QED
    BY <2>1, LenProperties
<1> HIDE DEF new
<1> DEFINE from(i) == IF i < k THEN i ELSE i - 1
<1>3. ASSUME NEW i \in DOMAIN new, i # k
      PROVE  from(i) \in DOMAIN list /\ new[i] = list[from(i)]
  BY <1>1, <1>2, <1>3
<1>4. \A i \in DOMAIN new : i # k => new[i].work # e.work
  BY <1>3 DEF WorksOf
<1>5. k \in DOMAIN new /\ new[k] = e
  BY <1>1, <1>2
<1>6. Distinct(new)
  <2> SUFFICES ASSUME NEW i \in DOMAIN new, NEW j \in DOMAIN new, new[i].work = new[j].work
               PROVE  i = j
    BY DEF Distinct
  <2>1. CASE i = k \/ j = k
    BY <1>4, <1>5, <2>1
  <2>2. CASE i # k /\ j # k
    <3>1. from(i) = from(j)
      BY <1>3, <2>2 DEF Distinct
    <3> QED
      BY <1>1, <1>2, <2>2, <3>1
  <2> QED
    BY <2>1, <2>2
<1>7. ASSUME NEW j \in DOMAIN list PROVE list[j].work \in WorksOf(new)
  <2> DEFINE i == IF j < k THEN j ELSE j + 1
  <2>1. i \in DOMAIN new /\ new[i] = list[j]
    BY <1>1, <1>2
  <2> QED
    BY <2>1 DEF WorksOf
<1>8. WorksOf(new) = WorksOf(list) \cup {e.work}
  <2>1. ASSUME NEW i \in DOMAIN new PROVE new[i].work \in WorksOf(list) \cup {e.work}
    BY <1>3, <1>5 DEF WorksOf
  <2> QED
    BY <1>5, <1>7, <2>1 DEF WorksOf
<1> QED
  BY <1>2, <1>4, <1>5, <1>6, <1>8 DEF new

(* What doPushUnfinishedUnlocked() does: the work is queued, and has one   *)
(* entry with its time and priority, or none when it has no time.          *)
LEMMA EnterEffect ==
  ASSUME QInv, ~broken, NEW w \in Works, NEW at \in Nat \cup {Never}, Enter(w, at)
  PROVE  /\ active' \in Seq(Entries)
         /\ Distinct(active')
         /\ queued' = queued \cup {w}
         /\ linked' = WorksOf(active')
         /\ linked' = IF at = Never THEN linked \ {w} ELSE linked \cup {w}
         /\ \A i \in DOMAIN active' : active'[i].work = w =>
              active'[i].at = at /\ active'[i].priority = priority[w]
<1>1. /\ active \in Seq(Entries) /\ Distinct(active) /\ linked = WorksOf(active)
      /\ priority[w] \in Priorities
  BY DEF QInv, TypeOK
<1> DEFINE others == IF IsActive(w) THEN Without(active, w) ELSE active
           entry == [at |-> at, priority |-> priority[w], work |-> w]
<1>2. /\ others \in Seq(Entries) /\ Distinct(others)
      /\ WorksOf(others) = linked \ {w}
  <2>1. CASE IsActive(w)
    BY <1>1, <2>1, WithoutWork DEF IsActive
  <2>2. CASE ~IsActive(w)
    BY <1>1, <2>2 DEF IsActive
  <2> QED
    BY <2>1, <2>2
<1>3. CASE Stays(w, at)
  <2>1. active' = active /\ linked' = linked /\ queued' = queued \cup {w} /\ at # Never
    BY <1>3 DEF Enter, Stays
  <2>2. w \in linked /\ KeyOf(w).at = at /\ KeyOf(w).priority = priority[w]
    BY <1>3 DEF Stays, IsActive
  <2>3. \A i \in DOMAIN active : active[i].work = w => active[i] = KeyOf(w)
    BY <1>1, RefFinds DEF KeyOf
  <2> QED
    BY <1>1, <2>1, <2>2, <2>3
<1>4. CASE ~Stays(w, at) /\ at = Never
  <2>1. active' = others /\ linked' = linked \ {w} /\ queued' = queued \cup {w}
    BY <1>4 DEF Enter
  <2> HIDE DEF others
  <2>2. \A i \in DOMAIN others : others[i].work # w
    BY <1>2 DEF WorksOf
  <2> QED
    BY <1>2, <1>4, <2>1, <2>2
<1>5. CASE ~Stays(w, at) /\ at # Never
  <2>1. /\ \E p \in Gaps(entry, others) : active' = InsertAt(others, p, entry)
        /\ linked' = linked \cup {w} /\ queued' = queued \cup {w}
    BY <1>5 DEF Enter
  <2>2. entry \in Entries /\ entry.work = w
    BY <1>1, <1>5 DEF Entries
  <2> HIDE DEF others, entry
  <2>3. PICK p \in 1 .. Len(others) + 1 : active' = InsertAt(others, p, entry)
    BY <2>1 DEF Gaps
  <2>4. /\ active' \in Seq(Entries) /\ Distinct(active')
        /\ WorksOf(active') = (linked \ {w}) \cup {w}
        /\ \A i \in DOMAIN active' : active'[i].work = w => active'[i] = entry
    BY <1>2, <2>2, <2>3, WithWork
  <2> QED
    BY <1>5, <2>1, <2>4 DEF entry
<1> QED
  BY <1>3, <1>4, <1>5

(* A work that is pushed has a time, or none. *)
LEMMA TimesAreTimes ==
  ASSUME TypeOK, NEW w \in Works
  PROVE  /\ ActivationTime(w, sleep[w]) \in Nat \cup {Never}
         /\ base[w] \in Nat \cup {Never}
         /\ sleep[w] # Never => ActivationTime(w, sleep[w]) # Never
<1>1. base[w] \in Nat /\ sleep[w] \in Nat \cup {Never}
  <2>1. base[w] \in 0 .. Horizon /\ Horizon \in Nat
    BY QueueAssumption DEF TypeOK
  <2>2. sleep[w] \in Durations \cup {0, Never} /\ Durations \subseteq Nat
    BY QueueAssumption DEF TypeOK
  <2>3. 0 \in Nat /\ base[w] \in Nat
    BY <2>1
  <2>4. sleep[w] \in Nat \cup {Never}
    BY <2>2, <2>3
  <2> QED
    BY <2>3, <2>4
<1>2. sleep[w] # Never => base[w] + sleep[w] \in Nat
  BY <1>1
<1> QED
  BY <1>1, <1>2 DEF ActivationTime, Never

(* Both ways into the queue leave the containers in agreement. *)
LEMMA DoPushStep ==
  ASSUME QInv, ~broken, NEW w \in Works, NEW at \in Nat \cup {Never}, DoPush(w, at)
  PROVE  /\ active' \in Seq(Entries) /\ Distinct(active')
         /\ queued' \subseteq Works /\ linked' \subseteq queued'
         /\ linked' = WorksOf(active')
<1>1. /\ active \in Seq(Entries) /\ Distinct(active) /\ linked = WorksOf(active)
      /\ linked \subseteq queued /\ queued \subseteq Works
  BY DEF QInv, TypeOK
<1>2. CASE w \in done
  BY <1>1, <1>2 DEF DoPush, queueVars
<1>3. CASE w \notin done
  <2>1. Enter(w, at)
    BY <1>3 DEF DoPush
  <2> QED
    BY <1>1, <2>1, EnterEffect
<1> QED
  BY <1>2, <1>3

LEMMA QInvInit == Init => QInv
<1> SUFFICES ASSUME Init PROVE QInv
  OBVIOUS
<1>1. /\ active = << >> /\ linked = {} /\ queued = {}
      /\ popped = [at |-> Never, work |-> None]
  BY DEF Init, Nothing
<1>2. TypeOK
  <2>1. base \in [Works -> 0 .. Horizon] /\ now \in 0 .. Horizon
    BY QueueAssumption DEF Init
  <2>2. /\ sleep \in [Works -> Durations \cup {0, Never}]
        /\ priority \in [Works -> Priorities]
    BY DEF Init
  <2>3. done \subseteq Works /\ broken \in BOOLEAN
    BY DEF Init
  <2>4. active \in Seq(Entries)
    BY <1>1, EmptySeq
  <2> QED
    BY <1>1, <2>1, <2>2, <2>3, <2>4 DEF TypeOK
<1>3. Distinct(active) /\ WorksOf(active) = {}
  BY <1>1 DEF Distinct, WorksOf
<1> QED
  BY <1>1, <1>2, <1>3 DEF QInv

(* Every step keeps the containers in agreement, or erases what is not     *)
(* there and is the last one.                                              *)
LEMMA QInvStep ==
  ASSUME QInv, [Next]_vars
  PROVE  QInv'
<1> USE QueueAssumption DEF Never
<1>0. /\ TypeOK /\ Distinct(active) /\ active \in Seq(Entries)
      /\ ~broken => linked = WorksOf(active) /\ linked \subseteq queued
  BY DEF QInv, TypeOK
<1>1. ASSUME ~broken, NEW w \in Works, Push(w) PROVE QInv'
  <2>1. DoPush(w, ActivationTime(w, sleep[w]))
    BY <1>1 DEF Push
  <2>2. /\ active' \in Seq(Entries) /\ Distinct(active')
        /\ queued' \subseteq Works /\ linked' \subseteq queued' /\ linked' = WorksOf(active')
    BY <1>0, <1>1, <2>1, DoPushStep, TimesAreTimes
  <2> QED
    BY <1>0, <1>1, <2>2 DEF Push, QInv, TypeOK, workVars, Nothing
<1>2. ASSUME ~broken, NEW w \in Works, Wakeup(w) PROVE QInv'
  <2>1. DoPush(w, base[w]) /\ 0 \in Nat
    BY <1>2 DEF Wakeup
  <2>2. /\ active' \in Seq(Entries) /\ Distinct(active')
        /\ queued' \subseteq Works /\ linked' \subseteq queued' /\ linked' = WorksOf(active')
    BY <1>0, <1>2, <2>1, DoPushStep, TimesAreTimes
  <2> QED
    BY <1>0, <1>2, <2>2 DEF Wakeup, QInv, TypeOK, workVars, Nothing
<1>3. ASSUME ~broken, NEW w \in Works, Cancel(w) PROVE QInv'
  <2>1. CASE IsActive(w)
    <3>1. /\ Without(active, w) \in Seq(Entries)
          /\ Distinct(Without(active, w))
          /\ WorksOf(Without(active, w)) = WorksOf(active) \ {w}
      BY <1>0, <1>3, <2>1, WithoutWork DEF IsActive
    <3>2. active' = Without(active, w) /\ linked' = linked \ {w} /\ queued' = queued \ {w}
      BY <1>3, <2>1 DEF Cancel
    <3> QED
      BY <1>0, <1>3, <3>1, <3>2 DEF Cancel, QInv, TypeOK, workVars, Nothing
  <2>2. CASE ~IsActive(w)
    BY <1>0, <1>3, <2>2 DEF Cancel, QInv, TypeOK, workVars, Nothing
  <2> QED
    BY <2>1, <2>2
<1>4. ASSUME ~broken, Pop PROVE QInv'
  <2> DEFINE w == Head(active).work
  <2>1. active # << >> /\ DOMAIN active = 1 .. Len(active) /\ Len(active) \in Nat \ {0}
    BY <1>0, <1>4, EmptySeq, LenProperties DEF Pop
  <2>2. Head(active) = active[1] /\ 1 \in DOMAIN active
    BY <1>0, <2>1
  <2>3. /\ Tail(active) \in Seq(Entries) /\ DOMAIN Tail(active) = 1 .. Len(active) - 1
        /\ \A i \in 1 .. Len(active) - 1 : Tail(active)[i] = active[i + 1]
    BY <1>0, <2>1, HeadTailProperties, LenProperties
  <2>4. Distinct(Tail(active))
    BY <1>0, <2>1, <2>3 DEF Distinct
  <2>5. WorksOf(Tail(active)) = WorksOf(active) \ {w}
    <3>1. ASSUME NEW i \in DOMAIN Tail(active)
          PROVE  Tail(active)[i].work \in WorksOf(active) \ {w}
      BY <1>0, <2>1, <2>2, <2>3 DEF WorksOf, Distinct
    <3>2. ASSUME NEW j \in DOMAIN active, active[j].work # w
          PROVE  active[j].work \in WorksOf(Tail(active))
      <4>1. j - 1 \in DOMAIN Tail(active) /\ Tail(active)[j - 1] = active[j]
        BY <2>1, <2>2, <2>3, <3>2
      <4> QED
        BY <4>1 DEF WorksOf
    <3> QED
      BY <3>1, <3>2 DEF WorksOf
  <2>6. w \in Works /\ Head(active).at \in Nat
    <3>1. active[1] \in Entries
      BY <1>0, <2>1, ElementOfSeq
    <3> QED
      BY <2>2, <3>1 DEF Entries
  <2>7. /\ active' = Tail(active) /\ linked' = linked \ {w} /\ queued' = queued \ {w}
        /\ popped' = [at |-> Head(active).at, work |-> w]
    BY <1>4 DEF Pop
  <2> HIDE DEF w
  <2> QED
    BY <1>0, <1>4, <2>3, <2>4, <2>5, <2>6, <2>7 DEF Pop, QInv, TypeOK, workVars
<1>5. ASSUME PopEarly PROVE QInv'
  <2>1. Head(active).at \in Nat
    <3>1. active # << >>
      BY <1>5 DEF PopEarly
    <3>2. Head(active) \in Entries
      BY <1>0, <3>1, HeadTailProperties
    <3> QED
      BY <3>2 DEF Entries
  <2> QED
    BY <1>0, <1>5, <2>1 DEF PopEarly, QInv, TypeOK, workVars, queueVars
<1>6. ASSUME PopEmpty PROVE QInv'
  BY <1>0, <1>6 DEF PopEmpty, QInv, TypeOK, workVars, queueVars, Nothing
<1>7. ASSUME NEW w \in Works, NEW s \in Durations \cup {Never}, NEW p \in Priorities,
             Change(w, s, p)
      PROVE  QInv'
  BY <1>0, <1>7 DEF Change, QInv, TypeOK, queueVars, Nothing
<1>8. ASSUME NEW w \in Works, Finish(w) PROVE QInv'
  BY <1>0, <1>8 DEF Finish, QInv, TypeOK, queueVars, Nothing
<1>9. ASSUME Tick PROVE QInv'
  BY <1>0, <1>9 DEF Tick, QInv, TypeOK, workVars, queueVars, Nothing
<1>10. CASE UNCHANGED vars
  BY <1>0, <1>10 DEF vars, workVars, queueVars, QInv, TypeOK
<1> QED
  BY <1>1, <1>2, <1>3, <1>4, <1>5, <1>6, <1>7, <1>8, <1>9, <1>10 DEF Next

(* What m_queue, m_active and the records look like between two calls. *)
THEOREM QueueInvariance == Spec => []QInv
<1>1. Init => QInv
  BY QInvInit
<1>2. QInv /\ [Next]_vars => QInv'
  BY QInvStep
<1> QED
  BY <1>1, <1>2, PTL DEF Spec

(* m_queue and m_active agree, for every number of works and whatever the  *)
(* order of the keys: a record that points into m_active points to the     *)
(* only entry of its work, and m_active has no other entries.              *)
THEOREM QueuesInSync == Spec => []InSync
<1>1. QInv => InSync
  <2> SUFFICES ASSUME QInv, ~broken, NEW w \in Works
               PROVE  Cardinality(EntriesOf(w)) = IF w \in linked THEN 1 ELSE 0
    BY DEF QInv, InSync
  <2>1. CASE w \in linked
    <3>1. PICK i \in DOMAIN active : active[i].work = w
      BY <2>1 DEF QInv, WorksOf
    <3>2. EntriesOf(w) = {i}
      BY <3>1 DEF EntriesOf, QInv, Distinct
    <3> QED
      BY <2>1, <3>2, FS_Singleton
  <2>2. CASE w \notin linked
    <3>1. EntriesOf(w) = {}
      BY <2>2 DEF EntriesOf, QInv, WorksOf
    <3> QED
      BY <2>2, <3>1, FS_EmptySet
  <2> QED
    BY <2>1, <2>2
<1> QED
  BY <1>1, QueueInvariance, PTL

(* A push and a wakeup are never lost: the work has one entry with its     *)
(* time and its priority afterwards, or none when it has no time, wherever *)
(* it was before.                                                          *)
THEOREM PushesTakeEffect == Spec => PushTakesEffect
<1> DEFINE Effect(w) ==
      /\ w \in queued'
      /\ \A i \in DOMAIN active' : active'[i].work = w =>
           active'[i].at = base[w] + sleep'[w] /\ active'[i].priority = priority[w]
      /\ (\E i \in DOMAIN active' : active'[i].work = w) <=> sleep'[w] # Never
<1>1. ASSUME QInv, ~broken, NEW w \in Works \ done, NEW at \in Nat \cup {Never},
             DoPush(w, at), at # Never <=> sleep'[w] # Never,
             at # Never => at = base[w] + sleep'[w]
      PROVE  Effect(w)
  <2>1. Enter(w, at)
    BY <1>1 DEF DoPush
  <2>2. /\ queued' = queued \cup {w}
        /\ linked' = WorksOf(active')
        /\ linked' = IF at = Never THEN linked \ {w} ELSE linked \cup {w}
        /\ \A i \in DOMAIN active' : active'[i].work = w =>
             active'[i].at = at /\ active'[i].priority = priority[w]
    BY <1>1, <2>1, EnterEffect
  <2>3. (\E i \in DOMAIN active' : active'[i].work = w) <=> w \in linked'
    BY <2>2 DEF WorksOf
  <2> QED
    BY <1>1, <2>2, <2>3
<1>2. ASSUME QInv, ~broken, NEW w \in Works \ done, Push(w) PROVE Effect(w)
  <2>1. sleep' = sleep /\ DoPush(w, ActivationTime(w, sleep[w]))
    BY <1>2 DEF Push, workVars
  <2>2. /\ ActivationTime(w, sleep[w]) \in Nat \cup {Never}
        /\ sleep[w] # Never => ActivationTime(w, sleep[w]) # Never
    BY <1>2, TimesAreTimes DEF QInv
  <2> HIDE DEF Effect
  <2> QED
    BY <1>1, <1>2, <2>1, <2>2 DEF ActivationTime
<1>3. ASSUME QInv, ~broken, NEW w \in Works \ done, Wakeup(w) PROVE Effect(w)
  <2>1. sleep' = [sleep EXCEPT ![w] = 0] /\ DoPush(w, base[w])
    BY <1>3 DEF Wakeup
  <2>2. sleep'[w] = 0 /\ base[w] \in Nat
    BY <1>3, <2>1, QueueAssumption DEF QInv, TypeOK
  <2>3. base[w] # Never /\ sleep'[w] # Never /\ base[w] = base[w] + sleep'[w]
    BY <2>2 DEF Never
  <2> HIDE DEF Effect
  <2> QED
    BY <1>1, <1>3, <2>1, <2>2, <2>3
<1>4. QInv /\ [Next]_vars =>
        [\A w \in Works \ done : Push(w) \/ Wakeup(w) => Effect(w)]_vars
  <2> SUFFICES ASSUME QInv, Next, NEW w \in Works \ done, Push(w) \/ Wakeup(w)
               PROVE  Effect(w)
    OBVIOUS
  <2> HIDE DEF Effect
  <2>1. ~broken
    BY DEF Next
  <2> QED
    BY <1>2, <1>3, <2>1
<1> QED
  BY <1>4, QueueInvariance, PTL DEF Spec, PushTakesEffect

(***************************************************************************)
(* The order of m_active, as long as its keys have one.                    *)
(***************************************************************************)

(* Two keys of one priority or of one period. *)
Comparable(k, l) == k.priority = l.priority \/ Period(k.at) = Period(l.at)

(* Any two keys of a list are comparable: all are of one priority, or all  *)
(* of one period.                                                          *)
Orderly(list) == \A i, j \in DOMAIN list : Comparable(list[i], list[j])

(* What a multimap takes for granted: the order of its keys is one.        *)
OneOrder == Orderly(active)

(* No entry is less than one before it. *)
Sorted(list) == \A i, j \in DOMAIN list : i < j => ~Less(list[j], list[i])

LEMMA EntriesAreKeys ==
  ASSUME NEW k \in Entries
  PROVE  k.at \in Nat /\ k.priority \in Int /\ Period(k.at) \in Int
<1>1. k.at \in Nat /\ k.priority \in Int
  BY QueueAssumption DEF Entries
<1>2. \A t \in Nat : Period(t) \in Int
  BY QueueAssumption DEF Period
<1> QED
  BY <1>1, <1>2

(* Among comparable keys operator< is asymmetric and its negation          *)
(* transitive.                                                             *)
LEMMA ComparableKeys ==
  ASSUME NEW k \in Entries, NEW l \in Entries, NEW m \in Entries,
         Comparable(k, l), Comparable(l, m), Comparable(k, m)
  PROVE  /\ Less(k, l) => ~Less(l, k)
         /\ ~Less(m, l) /\ ~Less(l, k) => ~Less(m, k)
<1>1. /\ k.at \in Nat /\ k.priority \in Int /\ Period(k.at) \in Int
      /\ l.at \in Nat /\ l.priority \in Int /\ Period(l.at) \in Int
      /\ m.at \in Nat /\ m.priority \in Int /\ Period(m.at) \in Int
  BY EntriesAreKeys
<1>2. /\ k.at <= l.at => Period(k.at) <= Period(l.at)
      /\ l.at <= k.at => Period(l.at) <= Period(k.at)
      /\ l.at <= m.at => Period(l.at) <= Period(m.at)
      /\ m.at <= l.at => Period(m.at) <= Period(l.at)
      /\ k.at <= m.at => Period(k.at) <= Period(m.at)
      /\ m.at <= k.at => Period(m.at) <= Period(k.at)
  BY <1>1, PeriodMonotone
<1> QED
  BY <1>1, <1>2 DEF Comparable, Less

LEMMA ErasingKeepsOrder ==
  ASSUME NEW list \in Seq(Entries), NEW k \in 1 .. Len(list)
  PROVE  /\ Sorted(list) => Sorted(RemoveAt(list, k))
         /\ \A i \in DOMAIN RemoveAt(list, k) :
              \E j \in DOMAIN list : RemoveAt(list, k)[i] = list[j]
<1> DEFINE new == RemoveAt(list, k)
           from(i) == IF i < k THEN i ELSE i + 1
<1>1. DOMAIN list = 1 .. Len(list) /\ Len(list) \in Nat
  BY LenProperties
<1>2. /\ DOMAIN new = 1 .. Len(list) - 1
      /\ \A i \in 1 .. Len(list) - 1 : new[i] = list[from(i)]
  <2>1. /\ new \in Seq(Entries) /\ Len(new) = Len(list) - 1
        /\ \A i \in 1 .. Len(list) - 1 : new[i] = list[from(i)]
    BY ErasedEntry
  <2> QED
    BY <2>1, LenProperties
<1> HIDE DEF new
<1>3. \A i \in DOMAIN new : from(i) \in DOMAIN list
  BY <1>1, <1>2
<1>4. \A i, j \in DOMAIN new : i < j => from(i) < from(j)
  BY <1>1, <1>2
<1>5. Sorted(list) => Sorted(new)
  <2> HIDE DEF from
  <2> QED
    BY <1>2, <1>3, <1>4 DEF Sorted
<1> QED
  BY <1>2, <1>3, <1>5 DEF new

(* A gap keeps the list in order when the keys have one. *)
LEMMA InsertingKeepsOrder ==
  ASSUME NEW list \in Seq(Entries), NEW e \in Entries, NEW p \in Gaps(e, list),
         Sorted(list), Orderly(InsertAt(list, p, e))
  PROVE  Sorted(InsertAt(list, p, e))
<1> DEFINE new == InsertAt(list, p, e)
<1>1. /\ DOMAIN list = 1 .. Len(list) /\ Len(list) \in Nat
      /\ \A i \in 1 .. Len(list) : list[i] \in Entries
  BY LenProperties, ElementOfSeq
<1>2. /\ p \in 1 .. Len(list) + 1
      /\ p > 1 => ~Less(e, list[p - 1])
      /\ p <= Len(list) => Less(e, list[p])
  BY DEF Gaps
<1>3. /\ DOMAIN new = 1 .. Len(list) + 1
      /\ \A i \in 1 .. Len(list) + 1 :
           new[i] = IF i < p THEN list[i] ELSE IF i = p THEN e ELSE list[i - 1]
  <2>1. /\ new \in Seq(Entries) /\ Len(new) = Len(list) + 1
        /\ \A i \in 1 .. Len(list) + 1 :
             new[i] = IF i < p THEN list[i] ELSE IF i = p THEN e ELSE list[i - 1]
    BY <1>2, InsertedEntry
  <2> QED
    BY <2>1, LenProperties
<1>4. Orderly(new)
  OBVIOUS
<1> HIDE DEF new
<1>5. \A i \in DOMAIN list : Comparable(list[i], e) /\ Comparable(e, list[i])
  <2> SUFFICES ASSUME NEW i \in DOMAIN list
               PROVE  Comparable(list[i], e) /\ Comparable(e, list[i])
    OBVIOUS
  <2> DEFINE j == IF i < p THEN i ELSE i + 1
  <2>1. j \in DOMAIN new /\ p \in DOMAIN new /\ new[j] = list[i] /\ new[p] = e
    BY <1>1, <1>2, <1>3
  <2> QED
    BY <1>4, <2>1 DEF Orderly
<1>6. \A i, j \in DOMAIN list : Comparable(list[i], list[j])
  <2> SUFFICES ASSUME NEW i \in DOMAIN list, NEW j \in DOMAIN list
               PROVE  Comparable(list[i], list[j])
    OBVIOUS
  <2> DEFINE at(n) == IF n < p THEN n ELSE n + 1
  <2>1. /\ at(i) \in DOMAIN new /\ new[at(i)] = list[i]
        /\ at(j) \in DOMAIN new /\ new[at(j)] = list[j]
    BY <1>1, <1>2, <1>3
  <2> QED
    BY <1>4, <2>1 DEF Orderly
<1>7. ASSUME NEW i \in DOMAIN list, i < p PROVE ~Less(e, list[i])
  <2>1. /\ p - 1 \in DOMAIN list /\ ~Less(e, list[p - 1])
        /\ i = p - 1 \/ i < p - 1
    BY <1>1, <1>2, <1>7
  <2>2. i < p - 1 => ~Less(list[p - 1], list[i])
    BY <2>1 DEF Sorted
  <2>3. i < p - 1 => ~Less(e, list[i])
    BY <1>1, <1>5, <1>6, <2>1, <2>2, ComparableKeys
  <2> QED
    BY <2>1, <2>3
<1>8. ASSUME NEW j \in DOMAIN list, p <= j PROVE ~Less(list[j], e)
  <2>1. /\ p \in DOMAIN list /\ Less(e, list[p])
        /\ j = p \/ p < j
    BY <1>1, <1>2, <1>8
  <2>2. ~Less(list[p], e)
    BY <1>1, <1>5, <1>6, <2>1, ComparableKeys
  <2>3. p < j => ~Less(list[j], list[p])
    BY <2>1 DEF Sorted
  <2>4. p < j => ~Less(list[j], e)
    BY <1>1, <1>5, <1>6, <2>1, <2>2, <2>3, ComparableKeys
  <2> QED
    BY <2>1, <2>2, <2>4
<1>9. ASSUME NEW i \in DOMAIN new, NEW j \in DOMAIN new, i < j
      PROVE  ~Less(new[j], new[i])
  <2>1. CASE j < p
    <3>1. i \in DOMAIN list /\ j \in DOMAIN list /\ new[i] = list[i] /\ new[j] = list[j]
      BY <1>1, <1>2, <1>3, <1>9, <2>1
    <3> QED
      BY <1>9, <3>1 DEF Sorted
  <2>2. CASE j = p
    <3>1. i \in DOMAIN list /\ i < p /\ new[i] = list[i] /\ new[j] = e
      BY <1>1, <1>2, <1>3, <1>9, <2>2
    <3> QED
      BY <1>7, <3>1
  <2>3. CASE j > p /\ i = p
    <3>1. j - 1 \in DOMAIN list /\ p <= j - 1 /\ new[i] = e /\ new[j] = list[j - 1]
      BY <1>1, <1>2, <1>3, <1>9, <2>3
    <3> QED
      BY <1>8, <3>1
  <2>4. CASE j > p /\ i # p
    <3> DEFINE h == IF i < p THEN i ELSE i - 1
    <3>1. /\ j - 1 \in DOMAIN list /\ h \in DOMAIN list /\ h < j - 1
          /\ new[i] = list[h] /\ new[j] = list[j - 1]
      BY <1>1, <1>2, <1>3, <1>9, <2>4
    <3> QED
      BY <3>1 DEF Sorted
  <2>5. j < p \/ j = p \/ j > p
    BY <1>2, <1>3
  <2> QED
    BY <2>1, <2>2, <2>3, <2>4, <2>5
<1>10. Sorted(new)
  BY <1>9 DEF Sorted
<1> QED
  BY <1>10 DEF new

(* The place of a work that has an entry. *)
LEMMA PlaceOfWork ==
  ASSUME NEW list \in Seq(Entries), Distinct(list), NEW w \in WorksOf(list)
  PROVE  /\ RefOf(list, w) \in 1 .. Len(list)
         /\ Without(list, w) = RemoveAt(list, RefOf(list, w))
<1>1. PICK i \in DOMAIN list : list[i].work = w
  BY DEF WorksOf
<1>2. RefOf(list, w) = i
  BY <1>1, RefFinds
<1> QED
  BY <1>1, <1>2, LenProperties DEF Without

(* A push inserts into m_active in order. *)
LEMMA DoPushKeepsOrder ==
  ASSUME QInv, ~broken, NEW w \in Works, NEW at \in Nat \cup {Never}, DoPush(w, at),
         Sorted(active), Orderly(active')
  PROVE  Sorted(active')
<1>1. /\ active \in Seq(Entries) /\ Distinct(active) /\ linked = WorksOf(active)
      /\ priority[w] \in Priorities
  BY DEF QInv, TypeOK
<1> DEFINE others == IF IsActive(w) THEN Without(active, w) ELSE active
           entry == [at |-> at, priority |-> priority[w], work |-> w]
<1>2. others \in Seq(Entries) /\ Sorted(others)
  <2>1. CASE IsActive(w)
    <3>1. w \in WorksOf(active)
      BY <1>1, <2>1 DEF IsActive
    <3> QED
      BY <1>1, <2>1, <3>1, PlaceOfWork, ErasingKeepsOrder, WithoutWork
  <2>2. CASE ~IsActive(w)
    BY <1>1, <2>2
  <2> QED
    BY <2>1, <2>2
<1>3. CASE active' = active
  BY <1>3
<1>4. CASE active' # active
  <2>1. Enter(w, at) /\ ~Stays(w, at)
    BY <1>4 DEF DoPush, Enter, queueVars
  <2>2. CASE at = Never
    BY <1>2, <2>1, <2>2 DEF Enter
  <2>3. CASE at # Never
    <3>1. \E p \in Gaps(entry, others) : active' = InsertAt(others, p, entry)
      BY <2>1, <2>3 DEF Enter
    <3>2. entry \in Entries
      BY <1>1, <2>3 DEF Entries
    <3> HIDE DEF others, entry
    <3> QED
      BY <1>2, <3>1, <3>2, InsertingKeepsOrder
  <2> QED
    BY <2>2, <2>3
<1> QED
  BY <1>3, <1>4

(* The keys stay in order for as long as they have one. *)
LEMMA SortedStep ==
  ASSUME QInv, Sorted(active), OneOrder', [Next]_vars
  PROVE  Sorted(active')
<1>1. active \in Seq(Entries) /\ Orderly(active')
  BY DEF QInv, TypeOK, OneOrder
<1>2. ASSUME ~broken, NEW w \in Works, Push(w) \/ Wakeup(w) PROVE Sorted(active')
  <2>1. DoPush(w, ActivationTime(w, sleep[w])) \/ DoPush(w, base[w])
    BY <1>2 DEF Push, Wakeup
  <2>2. ActivationTime(w, sleep[w]) \in Nat \cup {Never} /\ base[w] \in Nat \cup {Never}
    BY TimesAreTimes DEF QInv
  <2> QED
    BY <1>1, <1>2, <2>1, <2>2, DoPushKeepsOrder
<1>3. ASSUME ~broken, NEW w \in Works, Cancel(w) PROVE Sorted(active')
  <2>1. CASE IsActive(w)
    <3>1. w \in WorksOf(active) /\ Distinct(active)
      BY <1>3, <2>1 DEF QInv, IsActive
    <3>2. active' = RemoveAt(active, RefOf(active, w)) /\ RefOf(active, w) \in 1 .. Len(active)
      BY <1>1, <1>3, <2>1, <3>1, PlaceOfWork DEF Cancel
    <3> QED
      BY <1>1, <3>2, ErasingKeepsOrder
  <2>2. CASE ~IsActive(w)
    BY <1>3, <2>2 DEF Cancel
  <2> QED
    BY <2>1, <2>2
<1>4. ASSUME Pop PROVE Sorted(active')
  <2>1. active # << >> /\ active' = Tail(active)
    BY <1>4 DEF Pop
  <2>2. /\ DOMAIN active = 1 .. Len(active) /\ Len(active) \in Nat
        /\ DOMAIN Tail(active) = 1 .. Len(active) - 1
        /\ \A i \in 1 .. Len(active) - 1 : Tail(active)[i] = active[i + 1]
    BY <1>1, <2>1, HeadTailProperties, LenProperties
  <2> QED
    BY <2>1, <2>2 DEF Sorted
<1>5. CASE UNCHANGED active
  BY <1>5
<1> QED
  BY <1>2, <1>3, <1>4, <1>5
     DEF Next, Change, Finish, PopEarly, PopEmpty, Tick, vars, queueVars

(* As long as the keys in m_active are of one priority or of one period,   *)
(* popFast() returns a work none that waits precedes: the priority decides *)
(* and the time among equals.                                              *)
THEOREM PopsInOrder == Spec /\ []OneOrder => PopsByPriority
<1> DEFINE First(w) == \A e \in Range(active) :
      LET k == KeyOf(w)
      IN  k.priority > e.priority \/ (k.priority = e.priority /\ k.at <= e.at)
<1>1. Init => Sorted(active)
  BY DEF Init, Sorted
<1>2. QInv /\ Sorted(active) /\ OneOrder' /\ [Next]_vars => Sorted(active)'
  BY SortedStep
<1>3. ASSUME QInv, Sorted(active), OneOrder, NEW w \in Works, Pop, popped'.work = w
      PROVE  First(w)
  <2>1. /\ active \in Seq(Entries) /\ Distinct(active) /\ active # << >>
        /\ Head(active).work = w
    BY <1>3 DEF QInv, TypeOK, Pop
  <2>2. /\ DOMAIN active = 1 .. Len(active) /\ 1 \in DOMAIN active
        /\ Head(active) = active[1]
        /\ \A i \in DOMAIN active : active[i] \in Entries
    BY <2>1, HeadTailProperties, LenProperties, ElementOfSeq, EmptySeq
  <2>3. KeyOf(w) = active[1]
    BY <2>1, <2>2, RefFinds DEF KeyOf
  <2>4. ASSUME NEW i \in DOMAIN active
        PROVE  \/ active[1].priority > active[i].priority
               \/ active[1].priority = active[i].priority /\ active[1].at <= active[i].at
    <3>1. /\ active[1].at \in Nat /\ active[1].priority \in Int
          /\ active[i].at \in Nat /\ active[i].priority \in Int
          /\ Period(active[1].at) \in Int /\ Period(active[i].at) \in Int
      BY <2>2, EntriesAreKeys
    <3>2. i = 1 \/ ~Less(active[i], active[1])
      BY <1>3, <2>2 DEF Sorted
    <3>3. Comparable(active[i], active[1])
      BY <1>3, <2>2 DEF OneOrder, Orderly
    <3>4. active[i].at < active[1].at => Period(active[i].at) <= Period(active[1].at)
      BY <3>1, PeriodMonotone
    <3> QED
      BY <3>1, <3>2, <3>3, <3>4 DEF Less, Comparable
  <2> QED
    BY <2>3, <2>4 DEF Range
<1>4. QInv /\ Sorted(active) /\ OneOrder /\ [Next]_vars =>
        [\A w \in Works : Pop /\ popped'.work = w => First(w)]_vars
  <2> HIDE DEF First
  <2> QED
    BY <1>3
<1> QED
  BY <1>1, <1>2, <1>4, QueueInvariance, PTL DEF Spec, PopsByPriority

(* All entries are of the first period. *)
Early(list) == \A i \in DOMAIN list : list[i].at < Every

LEMMA EarlyIsOrderly ==
  ASSUME NEW list \in Seq(Entries), Early(list)
  PROVE  Orderly(list)
<1>1. \A t \in Nat : t < Every => Period(t) = 0
  BY QueueAssumption DEF Period
<1>2. \A i \in DOMAIN list : list[i].at \in Nat
  <2>1. \A i \in DOMAIN list : list[i] \in Entries
    BY ElementOfSeq, LenProperties
  <2> QED
    BY <2>1, EntriesAreKeys
<1> QED
  BY <1>1, <1>2 DEF Orderly, Comparable, Early

LEMMA DoPushKeepsEarly ==
  ASSUME QInv, ~broken, NEW w \in Works, NEW at \in Nat \cup {Never}, DoPush(w, at),
         Early(active), at < Every
  PROVE  Early(active')
<1>1. /\ active \in Seq(Entries) /\ Distinct(active) /\ linked = WorksOf(active)
      /\ priority[w] \in Priorities
  BY DEF QInv, TypeOK
<1> DEFINE others == IF IsActive(w) THEN Without(active, w) ELSE active
           entry == [at |-> at, priority |-> priority[w], work |-> w]
<1>2. others \in Seq(Entries) /\ Early(others)
  <2>1. CASE IsActive(w)
    <3>1. w \in WorksOf(active)
      BY <1>1, <2>1 DEF IsActive
    <3>2. \A i \in DOMAIN others : \E j \in DOMAIN active : others[i] = active[j]
      BY <1>1, <2>1, <3>1, PlaceOfWork, ErasingKeepsOrder
    <3> QED
      BY <1>1, <2>1, <3>1, <3>2, WithoutWork DEF Early
  <2>2. CASE ~IsActive(w)
    BY <1>1, <2>2
  <2> QED
    BY <2>1, <2>2
<1>3. CASE active' = active
  BY <1>3
<1>4. CASE active' # active
  <2>1. Enter(w, at) /\ ~Stays(w, at)
    BY <1>4 DEF DoPush, Enter, queueVars
  <2>2. CASE at = Never
    BY <1>2, <2>1, <2>2 DEF Enter
  <2>3. CASE at # Never
    <3>1. \E p \in Gaps(entry, others) : active' = InsertAt(others, p, entry)
      BY <2>1, <2>3 DEF Enter
    <3>2. entry \in Entries /\ entry.at < Every
      BY <1>1, <2>3 DEF Entries
    <3> HIDE DEF others, entry
    <3>3. PICK p \in 1 .. Len(others) + 1 : active' = InsertAt(others, p, entry)
      BY <3>1 DEF Gaps
    <3> DEFINE new == InsertAt(others, p, entry)
    <3>4. /\ DOMAIN new = 1 .. Len(others) + 1
          /\ DOMAIN others = 1 .. Len(others) /\ Len(others) \in Nat
          /\ \A i \in 1 .. Len(others) + 1 :
               new[i] = IF i < p THEN others[i] ELSE IF i = p THEN entry ELSE others[i - 1]
      <4>1. others \in Seq(Entries) /\ entry \in Entries
        BY <1>2, <3>2
      <4>2. /\ new \in Seq(Entries) /\ Len(new) = Len(others) + 1
            /\ \A i \in 1 .. Len(others) + 1 :
                 new[i] = IF i < p THEN others[i] ELSE IF i = p THEN entry ELSE others[i - 1]
        BY <3>3, <4>1, InsertedEntry, SMTT(30)
      <4> HIDE DEF new
      <4> QED
        BY <4>1, <4>2, LenProperties
    <3> HIDE DEF new
    <3>5. active' = new
      BY <3>3 DEF new
    <3> QED
      BY <1>2, <3>2, <3>4, <3>5 DEF Early
  <2> QED
    BY <2>2, <2>3
<1> QED
  BY <1>3, <1>4

(* A clock that stays, with every sleep, within the first period never     *)
(* brings keys of different periods together.                              *)
LEMMA EarlyStep ==
  ASSUME Horizon < Every, \A d \in Durations : Horizon + d < Every,
         QInv, Early(active), [Next]_vars
  PROVE  Early(active')
<1>1. active \in Seq(Entries) /\ Horizon \in Nat /\ Every \in Nat
  BY QueueAssumption DEF QInv, TypeOK
<1>2. ASSUME NEW w \in Works
      PROVE  ActivationTime(w, sleep[w]) < Every /\ base[w] < Every
  <2>1. base[w] \in 0 .. Horizon /\ sleep[w] \in Durations \cup {0, Never}
    BY DEF QInv, TypeOK
  <2>2. base[w] < Every /\ Never < Every
    BY <1>1, <2>1 DEF Never
  <2>3. sleep[w] # Never => base[w] + sleep[w] < Every
    <3>1. CASE sleep[w] = 0
      BY <1>1, <2>1, <2>2, <3>1
    <3>2. CASE sleep[w] \in Durations
      <4>1. Horizon + sleep[w] < Every /\ sleep[w] \in Nat
        BY <3>2, QueueAssumption
      <4> QED
        BY <1>1, <2>1, <4>1
    <3> QED
      BY <2>1, <3>1, <3>2
  <2> QED
    BY <2>2, <2>3 DEF ActivationTime
<1>3. ASSUME ~broken, NEW w \in Works, Push(w) \/ Wakeup(w) PROVE Early(active')
  <2>1. DoPush(w, ActivationTime(w, sleep[w])) \/ DoPush(w, base[w])
    BY <1>3 DEF Push, Wakeup
  <2>2. ActivationTime(w, sleep[w]) \in Nat \cup {Never} /\ base[w] \in Nat \cup {Never}
    BY TimesAreTimes DEF QInv
  <2> QED
    BY <1>2, <1>3, <2>1, <2>2, DoPushKeepsEarly
<1>4. ASSUME ~broken, NEW w \in Works, Cancel(w) PROVE Early(active')
  <2>1. CASE IsActive(w)
    <3>1. w \in WorksOf(active) /\ Distinct(active)
      BY <1>4, <2>1 DEF QInv, IsActive
    <3>2. active' = RemoveAt(active, RefOf(active, w)) /\ RefOf(active, w) \in 1 .. Len(active)
      BY <1>1, <1>4, <2>1, <3>1, PlaceOfWork DEF Cancel
    <3>3. \A i \in DOMAIN active' : \E j \in DOMAIN active : active'[i] = active[j]
      BY <1>1, <3>2, ErasingKeepsOrder
    <3> QED
      BY <3>3 DEF Early
  <2>2. CASE ~IsActive(w)
    BY <1>4, <2>2 DEF Cancel
  <2> QED
    BY <2>1, <2>2
<1>5. ASSUME Pop PROVE Early(active')
  <2>1. active # << >> /\ active' = Tail(active)
    BY <1>5 DEF Pop
  <2>2. /\ DOMAIN active = 1 .. Len(active) /\ Len(active) \in Nat
        /\ DOMAIN Tail(active) = 1 .. Len(active) - 1
        /\ \A i \in 1 .. Len(active) - 1 : Tail(active)[i] = active[i + 1]
    BY <1>1, <2>1, HeadTailProperties, LenProperties
  <2> QED
    BY <2>1, <2>2 DEF Early
<1>6. CASE UNCHANGED active
  BY <1>6
<1> QED
  BY <1>3, <1>4, <1>5, <1>6
     DEF Next, Change, Finish, PopEarly, PopEmpty, Tick, vars, queueVars

(* Within one period, which no activation time leaves, works are always    *)
(* popped by their priority and time: the assumption of PopsInOrder is     *)
(* met.                                                                    *)
THEOREM OnePeriodPopsInOrder ==
  ASSUME Horizon < Every, \A d \in Durations : Horizon + d < Every
  PROVE  Spec => []OneOrder /\ PopsByPriority
<1>1. Init => Early(active)
  BY DEF Init, Early
<1>2. QInv /\ Early(active) /\ [Next]_vars => Early(active)'
  BY EarlyStep
<1>3. QInv /\ Early(active) => OneOrder
  BY EarlyIsOrderly DEF QInv, TypeOK, OneOrder
<1> QED
  BY <1>1, <1>2, <1>3, QueueInvariance, PopsInOrder, PTL DEF Spec

=============================================================================
