--------------------------- MODULE Documents_proofs ---------------------------
(***************************************************************************)
(* What SAXHelper and its handlers make of a document, event by event, is  *)
(* what the document says by the places of its elements, whatever it       *)
(* leaves out and in whatever order it has it.  The lemmas on sequences    *)
(* and induction are those of Values_proofs.                               *)
(***************************************************************************)
EXTENDS Values_proofs

(* The end of a path that is left. *)
LEMMA FrontIs ==
  ASSUME NEW S, NEW s \in Seq(S)
  PROVE  /\ Info!Front(s) \in Seq(S)
         /\ s # <<>> => /\ Len(s) \in Nat \ {0} /\ Len(Info!Front(s)) = Len(s) - 1
                        /\ \A i \in 1..(Len(s) - 1) : Info!Front(s)[i] = s[i]
<1>1. CASE s = <<>>
  <2>1. Info!Front(s) = SubSeq(<<>>, 1, -1)
    BY <1>1, EmptySeq DEF Info!Front
  <2>2. SubSeq(<<>>, 1, -1) = <<>>
    OBVIOUS
  <2> QED
    BY <1>1, <2>1, <2>2
<1>2. CASE s # <<>>
  <2>1. Len(s) \in Nat \ {0}
    BY <1>2, EmptySeq, LenProperties
  <2>2. PICK n \in Nat : n = Len(s) - 1
    BY <2>1
  <2>3. \A i \in 1..n : s[i] \in S
    BY <2>2, LenProperties
  <2>4. /\ SubSeq(s, 1, n) \in Seq(S) /\ Len(SubSeq(s, 1, n)) = IF 1 <= n THEN n - 1 + 1 ELSE 0
        /\ \A i \in 1..(n - 1 + 1) : SubSeq(s, 1, n)[i] = s[1 + i - 1]
    BY <2>3, SubSeqProperties
  <2>5. Info!Front(s) = SubSeq(s, 1, n)
    BY <2>2 DEF Info!Front
  <2> QED
    BY <2>1, <2>2, <2>4, <2>5
<1> QED
  BY <1>1, <1>2

(* What the events of a document are. *)
NamesIn(d) == {d.events[n].name : n \in DOMAIN d.events}
TextsIn(d) == {d.events[n].text : n \in DOMAIN d.events}

LEMMA EventsAre ==
  ASSUME NEW d \in Documents
  PROVE  /\ Len(d.events) \in Nat /\ DOMAIN d.events = 1..Len(d.events)
         /\ \A n \in 1..Len(d.events) :
              /\ d.events[n].event \in {"start", "text", "entity", "end"}
              /\ d.events[n].event # "start" => Info!OpenAfter(d)[n - 1] # <<>>
              /\ d.events[n].event = "text" => ~d.events[n].indented
              /\ d.events[n].name \in NamesIn(d) /\ d.events[n].text \in TextsIn(d)
<1>1. Info!WellFormed(d)
  BY DocumentsAssumption
<1>2. Len(d.events) \in Nat /\ DOMAIN d.events = 1..Len(d.events)
  BY <1>1, LenProperties DEF Info!WellFormed
<1> QED
  BY <1>1, <1>2 DEF Info!WellFormed, NamesIn, TextsIn

OpenGoes(d, open) ==
  /\ open \in [0..Len(d.events) -> Seq(NamesIn(d))] /\ open[0] = <<>>
  /\ \A n \in 1..Len(d.events) :
       open[n] = CASE d.events[n].event = "start" -> Append(open[n - 1], d.events[n].name)
                   [] d.events[n].event = "end" -> Info!Front(open[n - 1])
                   [] OTHER -> open[n - 1]

LEMMA OpenIs ==
  ASSUME NEW d \in Documents
  PROVE  OpenGoes(d, Info!OpenAfter(d))
<1>1. PICK n \in Nat : n = Len(d.events)
  BY EventsAre
<1>2. PICK S : S = Seq(NamesIn(d))
  OBVIOUS
<1> DEFINE Next1(k, s) == CASE d.events[k].event = "start" -> Append(s, d.events[k].name)
                            [] d.events[k].event = "end" -> Info!Front(s)
                            [] OTHER -> s
           Made(f) == f = [k \in 0..Len(d.events) |->
                             IF k = 0 THEN <<>>
                             ELSE CASE d.events[k].event = "start" -> Append(f[k - 1], d.events[k].name)
                                    [] d.events[k].event = "end" -> Info!Front(f[k - 1])
                                    [] OTHER -> f[k - 1]]
           g == CHOOSE f : Made(f)
<1>3. ASSUME NEW k \in 1..n, NEW s \in S PROVE Next1(k, s) \in S
  <2>1. Append(s, d.events[k].name) \in S
    BY <1>1, <1>2, EventsAre, AppendProperties
  <2>2. Info!Front(s) \in S
    BY <1>2, FrontIs
  <2> QED
    BY <2>1, <2>2
<1>4. \E f : Made(f)
  <2> DEFINE step == [k \in 1..n |-> [s \in S |-> Next1(k, s)]]
  <2>1. step \in [1..n -> [S -> S]]
    BY <1>3
  <2>2. <<>> \in S
    BY <1>2, EmptySeq
  <2>3. PICK f \in [0..n -> S] : f[0] = <<>> /\ \A k \in 1..n : f[k] = step[k][f[k - 1]]
    <3> HIDE DEF step, Made, g, Next1
    <3>1. PICK start : start = <<>> /\ start \in S
      BY <2>2
    <3>2. \E f : Goes(f, S, start, n, step)
      BY <2>1, <3>1, GoesOn
    <3> QED
      BY <3>1, <3>2 DEF Goes
  <2>4. \A k \in 1..n : f[k] = Next1(k, f[k - 1])
    <3> SUFFICES ASSUME NEW k \in 1..n PROVE f[k] = Next1(k, f[k - 1])
      OBVIOUS
    <3>1. f[k - 1] \in S
      BY <2>3
    <3> QED
      BY <2>3, <3>1
  <2>5. \A k \in 0..n : k # 0 => k \in 1..n
    OBVIOUS
  <2>6. f = [k \in 0..n |-> IF k = 0 THEN <<>> ELSE Next1(k, f[k - 1])]
    <3> HIDE DEF Next1
    <3> QED
      BY <2>3, <2>4, <2>5
  <2>7. Made(f)
    BY Zenon, <1>1, <2>6
  <2> QED
    BY <2>7
<1>5. Made(g)
  BY Zenon, <1>4
<1>6. g = Info!OpenAfter(d)
  BY Zenon DEF Info!OpenAfter
<1>7. /\ g = [k \in 0..n |-> IF k = 0 THEN <<>> ELSE Next1(k, g[k - 1])]
  BY Zenon, <1>1, <1>5
<1> HIDE DEF Made, g
<1>8. g[0] = <<>> /\ \A k \in 1..n : g[k] = Next1(k, g[k - 1])
  <2> HIDE DEF Next1
  <2>1. 0 \in 0..n /\ \A k \in 1..n : k \in 0..n /\ k # 0
    OBVIOUS
  <2> QED
    BY Zenon, <1>7, <2>1
<1>9. \A k \in 0..n : g[k] \in S
  <2> DEFINE Good == {k \in 0..n : g[k] \in S}
  <2>1. 0 \in Good
    <3>1. g[0] \in S
      BY <1>2, <1>8, EmptySeq
    <3> QED
      BY <3>1
  <2>2. ASSUME NEW k \in 1..n, k - 1 \in Good PROVE k \in Good
    BY <1>3, <1>8, <2>2
  <2>3. \A k \in 0..n : k \in Good
    <3> HIDE DEF Good
    <3> QED
      BY <2>1, <2>2, UpTo
  <2> QED
    BY <2>3
<1>10. g \in [0..n -> S]
  BY <1>7, <1>9
<1>11. OpenGoes(d, g)
  BY <1>1, <1>2, <1>8, <1>10 DEF OpenGoes
<1> QED
  BY Zenon, <1>6, <1>11

PiecesGo(d, f) ==
  /\ f \in [0..Len(d.events) -> Seq(TextsIn(d))] /\ f[0] = <<>>
  /\ \A n \in 1..Len(d.events) : f[n] = IF d.events[n].event = "start" THEN <<>>
                                           ELSE IF Info!IsPiece(d, d.events[n]) THEN Append(f[n - 1], d.events[n].text)
                                                ELSE f[n - 1]

LEMMA PiecesAre ==
  ASSUME NEW d \in Documents
  PROVE  PiecesGo(d, Info!PiecesAfter(d))
<1>1. PICK n \in Nat : n = Len(d.events)
  BY EventsAre
<1>2. PICK S : S = Seq(TextsIn(d))
  OBVIOUS
<1> DEFINE Next1(k, s) == IF d.events[k].event = "start" THEN <<>>
                            ELSE IF Info!IsPiece(d, d.events[k]) THEN Append(s, d.events[k].text) ELSE s
           Made(f) == f = [k \in 0..Len(d.events) |->
                             IF k = 0 \/ d.events[k].event = "start" THEN <<>>
                             ELSE IF Info!IsPiece(d, d.events[k]) THEN Append(f[k - 1], d.events[k].text) ELSE f[k - 1]]
           g == CHOOSE f : Made(f)
<1>3. ASSUME NEW k \in 1..n, NEW s \in S PROVE Next1(k, s) \in S
  <2>1. Append(s, d.events[k].text) \in S
    BY <1>1, <1>2, EventsAre, AppendProperties
  <2>2. <<>> \in S
    BY <1>2, EmptySeq
  <2> QED
    BY <2>1, <2>2
<1>4. \E f : Made(f)
  <2> DEFINE step == [k \in 1..n |-> [s \in S |-> Next1(k, s)]]
  <2>1. step \in [1..n -> [S -> S]]
    BY <1>3
  <2>2. <<>> \in S
    BY <1>2, EmptySeq
  <2>3. PICK f \in [0..n -> S] : f[0] = <<>> /\ \A k \in 1..n : f[k] = step[k][f[k - 1]]
    <3> HIDE DEF step, Made, g, Next1
    <3>1. PICK start : start = <<>> /\ start \in S
      BY <2>2
    <3>2. \E f : Goes(f, S, start, n, step)
      BY <2>1, <3>1, GoesOn
    <3> QED
      BY <3>1, <3>2 DEF Goes
  <2>4. \A k \in 1..n : f[k] = Next1(k, f[k - 1])
    <3> SUFFICES ASSUME NEW k \in 1..n PROVE f[k] = Next1(k, f[k - 1])
      OBVIOUS
    <3>1. f[k - 1] \in S
      BY <2>3
    <3> QED
      BY <2>3, <3>1
  <2>5. \A k \in 0..n : k # 0 => k \in 1..n
    OBVIOUS
  <2>6. f = [k \in 0..n |-> IF k = 0 THEN <<>> ELSE Next1(k, f[k - 1])]
    <3> HIDE DEF Next1
    <3> QED
      BY <2>3, <2>4, <2>5
  <2>7. Made(f)
    BY Zenon, <1>1, <2>6
  <2> QED
    BY <2>7
<1>5. Made(g)
  BY Zenon, <1>4
<1>6. g = Info!PiecesAfter(d)
  BY Zenon DEF Info!PiecesAfter
<1>7. g = [k \in 0..n |-> IF k = 0 THEN <<>> ELSE Next1(k, g[k - 1])]
  BY Zenon, <1>1, <1>5
<1> HIDE DEF Made, g
<1>8. g[0] = <<>> /\ \A k \in 1..n : g[k] = Next1(k, g[k - 1])
  <2> HIDE DEF Next1
  <2>1. 0 \in 0..n /\ \A k \in 1..n : k \in 0..n /\ k # 0
    OBVIOUS
  <2> QED
    BY Zenon, <1>7, <2>1
<1>9. \A k \in 0..n : g[k] \in S
  <2> DEFINE Good == {k \in 0..n : g[k] \in S}
  <2>1. 0 \in Good
    <3>1. g[0] \in S
      BY <1>2, <1>8, EmptySeq
    <3> QED
      BY <3>1
  <2>2. ASSUME NEW k \in 1..n, k - 1 \in Good PROVE k \in Good
    <3> HIDE DEF Next1
    <3>1. g[k - 1] \in S
      BY <2>2
    <3>2. Next1(k, g[k - 1]) \in S
      BY <1>3, <3>1
    <3> QED
      BY <1>8, <3>2
  <2>3. \A k \in 0..n : k \in Good
    <3> HIDE DEF Good
    <3> QED
      BY <2>1, <2>2, UpTo
  <2> QED
    BY <2>3
<1>10. g \in [0..n -> S]
  BY <1>7, <1>9
<1>11. PiecesGo(d, g)
  BY <1>1, <1>2, <1>8, <1>10 DEF PiecesGo
<1> QED
  BY Zenon, <1>6, <1>11

ModulesIn(d) == {Info!ModuleOf(d, n) : n \in DOMAIN d.events}

ModulesGo(d, f) ==
  /\ f \in [0..Len(d.events) -> Seq(ModulesIn(d))] /\ f[0] = <<>>
  /\ \A n \in 1..Len(d.events) : f[n] = IF n \in Info!Begins(d, Info!DevicePath) THEN <<>>
                                           ELSE IF n \in Info!Ends(d, Info!ModulePath) THEN Append(f[n - 1], Info!ModuleOf(d, n))
                                                ELSE f[n - 1]

LEMMA ModulesAre ==
  ASSUME NEW d \in Documents
  PROVE  ModulesGo(d, Info!ModulesAfter(d))
<1>1. PICK n \in Nat : n = Len(d.events)
  BY EventsAre
<1>2. PICK S : S = Seq(ModulesIn(d))
  OBVIOUS
<1> DEFINE Next1(k, s) == IF k \in Info!Begins(d, Info!DevicePath) THEN <<>>
                            ELSE IF k \in Info!Ends(d, Info!ModulePath) THEN Append(s, Info!ModuleOf(d, k)) ELSE s
           Made(f) == f = [k \in 0..Len(d.events) |->
                             IF k = 0 \/ k \in Info!Begins(d, Info!DevicePath) THEN <<>>
                             ELSE IF k \in Info!Ends(d, Info!ModulePath) THEN Append(f[k - 1], Info!ModuleOf(d, k)) ELSE f[k - 1]]
           g == CHOOSE f : Made(f)
<1>3. ASSUME NEW k \in 1..n, NEW s \in S PROVE Next1(k, s) \in S
  <2>1. Append(s, Info!ModuleOf(d, k)) \in S
    <3>1. Info!ModuleOf(d, k) \in ModulesIn(d)
      BY <1>1, EventsAre DEF ModulesIn
    <3> QED
      BY <1>2, <3>1, AppendProperties
  <2>2. <<>> \in S
    BY <1>2, EmptySeq
  <2> QED
    BY <2>1, <2>2
<1>4. \E f : Made(f)
  <2> DEFINE step == [k \in 1..n |-> [s \in S |-> Next1(k, s)]]
  <2>1. step \in [1..n -> [S -> S]]
    BY <1>3
  <2>2. <<>> \in S
    BY <1>2, EmptySeq
  <2>3. PICK f \in [0..n -> S] : f[0] = <<>> /\ \A k \in 1..n : f[k] = step[k][f[k - 1]]
    <3> HIDE DEF step, Made, g, Next1
    <3>1. PICK start : start = <<>> /\ start \in S
      BY <2>2
    <3>2. \E f : Goes(f, S, start, n, step)
      BY <2>1, <3>1, GoesOn
    <3> QED
      BY <3>1, <3>2 DEF Goes
  <2>4. \A k \in 1..n : f[k] = Next1(k, f[k - 1])
    <3> SUFFICES ASSUME NEW k \in 1..n PROVE f[k] = Next1(k, f[k - 1])
      OBVIOUS
    <3>1. f[k - 1] \in S
      BY <2>3
    <3> QED
      BY <2>3, <3>1
  <2>5. \A k \in 0..n : k # 0 => k \in 1..n
    OBVIOUS
  <2>6. f = [k \in 0..n |-> IF k = 0 THEN <<>> ELSE Next1(k, f[k - 1])]
    <3> HIDE DEF Next1
    <3> QED
      BY <2>3, <2>4, <2>5
  <2>7. Made(f)
    BY Zenon, <1>1, <2>6
  <2> QED
    BY <2>7
<1>5. Made(g)
  BY Zenon, <1>4
<1>6. g = Info!ModulesAfter(d)
  BY Zenon DEF Info!ModulesAfter
<1>7. g = [k \in 0..n |-> IF k = 0 THEN <<>> ELSE Next1(k, g[k - 1])]
  BY Zenon, <1>1, <1>5
<1> HIDE DEF Made, g
<1>8. g[0] = <<>> /\ \A k \in 1..n : g[k] = Next1(k, g[k - 1])
  <2> HIDE DEF Next1
  <2>1. 0 \in 0..n /\ \A k \in 1..n : k \in 0..n /\ k # 0
    OBVIOUS
  <2> QED
    BY Zenon, <1>7, <2>1
<1>9. \A k \in 0..n : g[k] \in S
  <2> DEFINE Good == {k \in 0..n : g[k] \in S}
  <2>1. 0 \in Good
    <3>1. g[0] \in S
      BY <1>2, <1>8, EmptySeq
    <3> QED
      BY <3>1
  <2>2. ASSUME NEW k \in 1..n, k - 1 \in Good PROVE k \in Good
    <3> HIDE DEF Next1
    <3>1. g[k - 1] \in S
      BY <2>2
    <3>2. Next1(k, g[k - 1]) \in S
      BY <1>3, <3>1
    <3> QED
      BY <1>8, <3>2
  <2>3. \A k \in 0..n : k \in Good
    <3> HIDE DEF Good
    <3> QED
      BY <2>1, <2>2, UpTo
  <2> QED
    BY <2>3
<1>10. g \in [0..n -> S]
  BY <1>7, <1>9
<1>11. ModulesGo(d, g)
  BY <1>1, <1>2, <1>8, <1>10 DEF ModulesGo
<1> QED
  BY Zenon, <1>6, <1>11

InfosIn(d) == {Info!DeviceOf(d, n) : n \in DOMAIN d.events} \cup {Info!TypeOf(d, n) : n \in DOMAIN d.events}

InfosGo(d, f) ==
  /\ f \in [0..Len(d.events) -> Seq(InfosIn(d))] /\ f[0] = <<>>
  /\ \A n \in 1..Len(d.events) : f[n] = f[n - 1] \o Info!InfoOf(d, n)

LEMMA InfosAre ==
  ASSUME NEW d \in Documents
  PROVE  InfosGo(d, Info!InfosAfter(d))
<1>1. PICK n \in Nat : n = Len(d.events)
  BY EventsAre
<1>2. PICK S : S = Seq(InfosIn(d))
  OBVIOUS
<1> DEFINE Next1(k, s) == s \o Info!InfoOf(d, k)
           Made(f) == f = [k \in 0..Len(d.events) |->
                             IF k = 0 THEN <<>> ELSE f[k - 1] \o Info!InfoOf(d, k)]
           g == CHOOSE f : Made(f)
<1>3. ASSUME NEW k \in 1..n, NEW s \in S PROVE Next1(k, s) \in S
  <2>1. Info!DeviceOf(d, k) \in InfosIn(d) /\ Info!TypeOf(d, k) \in InfosIn(d)
    BY <1>1, EventsAre DEF InfosIn
  <2>2. <<Info!DeviceOf(d, k)>> \in S /\ <<Info!TypeOf(d, k)>> \in S /\ <<>> \in S
    BY <1>2, <2>1, EmptySeq
  <2>3. Info!InfoOf(d, k) \in S
    BY <2>2 DEF Info!InfoOf
  <2> QED
    BY <1>2, <2>3, ConcatProperties
<1>4. \E f : Made(f)
  <2> DEFINE step == [k \in 1..n |-> [s \in S |-> Next1(k, s)]]
  <2>1. step \in [1..n -> [S -> S]]
    BY <1>3
  <2>2. <<>> \in S
    BY <1>2, EmptySeq
  <2>3. PICK f \in [0..n -> S] : f[0] = <<>> /\ \A k \in 1..n : f[k] = step[k][f[k - 1]]
    <3> HIDE DEF step, Made, g, Next1
    <3>1. PICK start : start = <<>> /\ start \in S
      BY <2>2
    <3>2. \E f : Goes(f, S, start, n, step)
      BY <2>1, <3>1, GoesOn
    <3> QED
      BY <3>1, <3>2 DEF Goes
  <2>4. \A k \in 1..n : f[k] = Next1(k, f[k - 1])
    <3> SUFFICES ASSUME NEW k \in 1..n PROVE f[k] = Next1(k, f[k - 1])
      OBVIOUS
    <3>1. f[k - 1] \in S
      BY <2>3
    <3> QED
      BY <2>3, <3>1
  <2>5. \A k \in 0..n : k # 0 => k \in 1..n
    OBVIOUS
  <2>6. f = [k \in 0..n |-> IF k = 0 THEN <<>> ELSE Next1(k, f[k - 1])]
    <3> HIDE DEF Next1
    <3> QED
      BY <2>3, <2>4, <2>5
  <2>7. Made(f)
    BY Zenon, <1>1, <2>6
  <2> QED
    BY <2>7
<1>5. Made(g)
  BY Zenon, <1>4
<1>6. g = Info!InfosAfter(d)
  BY Zenon DEF Info!InfosAfter
<1>7. g = [k \in 0..n |-> IF k = 0 THEN <<>> ELSE Next1(k, g[k - 1])]
  BY Zenon, <1>1, <1>5
<1> HIDE DEF Made, g
<1>8. g[0] = <<>> /\ \A k \in 1..n : g[k] = Next1(k, g[k - 1])
  <2> HIDE DEF Next1
  <2>1. 0 \in 0..n /\ \A k \in 1..n : k \in 0..n /\ k # 0
    OBVIOUS
  <2> QED
    BY Zenon, <1>7, <2>1
<1>9. \A k \in 0..n : g[k] \in S
  <2> DEFINE Good == {k \in 0..n : g[k] \in S}
  <2>1. 0 \in Good
    <3>1. g[0] \in S
      BY <1>2, <1>8, EmptySeq
    <3> QED
      BY <3>1
  <2>2. ASSUME NEW k \in 1..n, k - 1 \in Good PROVE k \in Good
    <3> HIDE DEF Next1
    <3>1. g[k - 1] \in S
      BY <2>2
    <3>2. Next1(k, g[k - 1]) \in S
      BY <1>3, <3>1
    <3> QED
      BY <1>8, <3>2
  <2>3. \A k \in 0..n : k \in Good
    <3> HIDE DEF Good
    <3> QED
      BY <2>1, <2>2, UpTo
  <2> QED
    BY <2>3
<1>10. g \in [0..n -> S]
  BY <1>7, <1>9
<1>11. InfosGo(d, g)
  BY <1>1, <1>2, <1>8, <1>10 DEF InfosGo
<1> QED
  BY Zenon, <1>6, <1>11

(* The latest of some places, one after the other. *)
IsLatest(places, n, k) ==
  k \in {0} \cup (places \cap (1..n)) /\ \A m \in {0} \cup (places \cap (1..n)) : m <= k

LEMMA LatestExists ==
  ASSUME NEW places, NEW n \in Nat
  PROVE  \E k : IsLatest(places, n, k)
<1> DEFINE Good == {m \in 0..n : \E k : IsLatest(places, m, k)}
<1>1. 0 \in Good
  <2>1. IsLatest(places, 0, 0)
    BY DEF IsLatest
  <2> QED
    BY <2>1
<1>2. ASSUME NEW m \in 1..n, m - 1 \in Good PROVE m \in Good
  <2>1. PICK k : IsLatest(places, m - 1, k)
    BY <1>2
  <2>2. 1..m = (1..(m - 1)) \cup {m}
    OBVIOUS
  <2>3. CASE m \in places
    <3>1. IsLatest(places, m, m)
      BY <2>2, <2>3 DEF IsLatest
    <3> QED
      BY <3>1
  <2>4. CASE m \notin places
    <3>1. IsLatest(places, m, k)
      BY <2>1, <2>2, <2>4 DEF IsLatest
    <3> QED
      BY <3>1
  <2> QED
    BY <2>3, <2>4
<1>3. \A m \in 0..n : m \in Good
  <2> HIDE DEF Good
  <2> QED
    BY <1>1, <1>2, UpTo
<1> QED
  BY <1>3

LEMMA LatestIs ==
  ASSUME NEW places, NEW n \in Nat
  PROVE  IsLatest(places, n, Info!Latest(places, n)) /\ Info!Latest(places, n) \in 0..n
<1>1. IsLatest(places, n, Info!Latest(places, n))
  BY LatestExists DEF IsLatest, Info!Latest
<1> QED
  BY <1>1 DEF IsLatest

LEMMA LatestOne ==
  ASSUME NEW places, NEW n \in Nat, NEW k, IsLatest(places, n, k)
  PROVE  Info!Latest(places, n) = k
<1>1. PICK last2 : last2 = Info!Latest(places, n)
  OBVIOUS
<1>2. IsLatest(places, n, last2)
  BY <1>1, LatestIs
<1> QED
  BY <1>1, <1>2 DEF IsLatest

LEMMA LatestGoesOn ==
  ASSUME NEW places, NEW n \in Nat
  PROVE  /\ n + 1 \in places => Info!Latest(places, n + 1) = n + 1
         /\ n + 1 \notin places => Info!Latest(places, n + 1) = Info!Latest(places, n)
<1>1. 1..(n + 1) = (1..n) \cup {n + 1}
  OBVIOUS
<1>2. PICK k : k = Info!Latest(places, n) /\ IsLatest(places, n, k)
  BY LatestIs
<1>3. ASSUME n + 1 \in places PROVE Info!Latest(places, n + 1) = n + 1
  <2>1. IsLatest(places, n + 1, n + 1)
    BY <1>1, <1>3 DEF IsLatest
  <2> QED
    BY <2>1, LatestOne
<1>4. ASSUME n + 1 \notin places PROVE Info!Latest(places, n + 1) = k
  <2>1. IsLatest(places, n + 1, k)
    BY <1>1, <1>2, <1>4 DEF IsLatest
  <2> QED
    BY <2>1, LatestOne
<1> QED
  BY <1>2, <1>3, <1>4

LEMMA LatestAtFirst ==
  ASSUME NEW places
  PROVE  Info!Latest(places, 0) = 0
<1>1. IsLatest(places, 0, 0)
  BY DEF IsLatest
<1> QED
  BY <1>1, LatestOne

(* Content of an element, from one event to the next. *)
LEMMA ContentGoesOn ==
  ASSUME NEW d \in Documents, NEW paths, NEW within, NEW n \in Nat
  PROVE  /\ n + 1 \in Info!Begins(d, within) => /\ ~Info!EndedIn(d, paths, within, n + 1)
                                                /\ Info!ContentOf(d, paths, within, n + 1) = <<>>
         /\ n + 1 \in Info!Ends(d, paths) => /\ Info!EndedIn(d, paths, within, n + 1)
                                             /\ Info!ContentOf(d, paths, within, n + 1) = Info!PiecesAfter(d)[n]
         /\ n + 1 \notin Info!Begins(d, within) /\ n + 1 \notin Info!Ends(d, paths) =>
              /\ Info!EndedIn(d, paths, within, n + 1) = Info!EndedIn(d, paths, within, n)
              /\ Info!ContentOf(d, paths, within, n + 1) = Info!ContentOf(d, paths, within, n)
<1>1. PICK E, B : E = Info!Ends(d, paths) /\ B = Info!Begins(d, within)
  OBVIOUS
<1>2. /\ Info!Latest(E, n) \in 0..n /\ Info!Latest(B, n) \in 0..n
      /\ Info!Latest(E, n + 1) \in 0..(n + 1) /\ Info!Latest(B, n + 1) \in 0..(n + 1)
  BY LatestIs
<1>3. n + 1 \in B => n + 1 \notin E
  BY <1>1 DEF Info!Begins, Info!Ends
<1>4. ASSUME n + 1 \in B PROVE Info!Latest(B, n + 1) = n + 1 /\ Info!Latest(E, n + 1) = Info!Latest(E, n)
  BY <1>3, <1>4, LatestGoesOn
<1>5. ASSUME n + 1 \in E PROVE Info!Latest(E, n + 1) = n + 1 /\ Info!Latest(B, n + 1) = Info!Latest(B, n)
  BY <1>3, <1>5, LatestGoesOn
<1>6. ASSUME n + 1 \notin B, n + 1 \notin E
      PROVE  Info!Latest(E, n + 1) = Info!Latest(E, n) /\ Info!Latest(B, n + 1) = Info!Latest(B, n)
  BY <1>6, LatestGoesOn
<1>7. \A m : Info!EndedIn(d, paths, within, m) = (Info!Latest(E, m) > Info!Latest(B, m))
  BY <1>1 DEF Info!EndedIn
<1>8. \A m : Info!ContentOf(d, paths, within, m) =
               IF Info!EndedIn(d, paths, within, m) THEN Info!PiecesAfter(d)[Info!Latest(E, m) - 1] ELSE <<>>
  BY <1>1 DEF Info!ContentOf
<1>9. ASSUME n + 1 \in B
      PROVE  ~Info!EndedIn(d, paths, within, n + 1) /\ Info!ContentOf(d, paths, within, n + 1) = <<>>
  <2>1. ~(Info!Latest(E, n + 1) > Info!Latest(B, n + 1))
    BY <1>2, <1>4, <1>9
  <2>2. ~Info!EndedIn(d, paths, within, n + 1)
    BY <1>7, <2>1
  <2> QED
    BY <1>8, <2>2
<1>10. ASSUME n + 1 \in E
       PROVE  /\ Info!EndedIn(d, paths, within, n + 1)
              /\ Info!ContentOf(d, paths, within, n + 1) = Info!PiecesAfter(d)[n]
  <2>1. Info!Latest(E, n + 1) > Info!Latest(B, n + 1) /\ Info!Latest(E, n + 1) - 1 = n
    BY <1>2, <1>5, <1>10
  <2> QED
    BY <1>7, <1>8, <2>1
<1>11. ASSUME n + 1 \notin B, n + 1 \notin E
       PROVE  /\ Info!EndedIn(d, paths, within, n + 1) = Info!EndedIn(d, paths, within, n)
              /\ Info!ContentOf(d, paths, within, n + 1) = Info!ContentOf(d, paths, within, n)
  BY <1>6, <1>7, <1>8, <1>11
<1> QED
  BY <1>1, <1>9, <1>10, <1>11

LEMMA ContentAtFirst ==
  ASSUME NEW d, NEW paths, NEW within
  PROVE  ~Info!EndedIn(d, paths, within, 0) /\ Info!ContentOf(d, paths, within, 0) = <<>>
BY LatestAtFirst DEF Info!EndedIn, Info!ContentOf

(* The names on a path, one by one. *)
LEMMA TuplesAre ==
  ASSUME NEW N, NEW s \in Seq(N), NEW a, NEW b, NEW c, NEW e, NEW f
  PROVE  /\ s = <<>> <=> Len(s) = 0
         /\ s = <<a>> <=> Len(s) = 1 /\ s[1] = a
         /\ s = <<a, b>> <=> Len(s) = 2 /\ s[1] = a /\ s[2] = b
         /\ s = <<a, b, c>> <=> Len(s) = 3 /\ s[1] = a /\ s[2] = b /\ s[3] = c
         /\ s = <<a, b, c, e>> <=> Len(s) = 4 /\ s[1] = a /\ s[2] = b /\ s[3] = c /\ s[4] = e
         /\ s = <<a, b, c, e, f>> <=> Len(s) = 5 /\ s[1] = a /\ s[2] = b /\ s[3] = c /\ s[4] = e /\ s[5] = f
<1>1. PICK n \in Nat : n = Len(s) /\ DOMAIN s = 1..n /\ s = [i \in 1..n |-> s[i]]
  BY LenProperties
<1>2. s = <<>> <=> n = 0
  BY <1>1, EmptySeq
<1>3. s = <<a>> <=> n = 1 /\ s[1] = a
  BY <1>1
<1>4. s = <<a, b>> <=> n = 2 /\ s[1] = a /\ s[2] = b
  BY <1>1
<1>5. s = <<a, b, c>> <=> n = 3 /\ s[1] = a /\ s[2] = b /\ s[3] = c
  <2>1. PICK t : t = <<a, b, c>>
    OBVIOUS
  <2>2. t = [i \in 1..3 |-> t[i]] /\ t[1] = a /\ t[2] = b /\ t[3] = c
    BY <2>1
  <2>3. ASSUME n = 3, s[1] = a /\ s[2] = b /\ s[3] = c PROVE s = t
    <3>1. \A i \in 1..3 : i = 1 \/ i = 2 \/ i = 3
      OBVIOUS
    <3>2. \A i \in 1..3 : s[i] = t[i]
      BY <2>2, <2>3, <3>1
    <3> QED
      BY <1>1, <2>2, <2>3, <3>2
  <2>4. ASSUME s = t PROVE n = 3 /\ s[1] = a /\ s[2] = b /\ s[3] = c
    BY <1>1, <2>1, <2>2, <2>4
  <2> QED
    BY <2>1, <2>3, <2>4
<1>6. s = <<a, b, c, e>> <=> n = 4 /\ s[1] = a /\ s[2] = b /\ s[3] = c /\ s[4] = e
  <2>1. PICK t : t = <<a, b, c, e>>
    OBVIOUS
  <2>2. t = [i \in 1..4 |-> t[i]] /\ t[1] = a /\ t[2] = b /\ t[3] = c /\ t[4] = e
    BY <2>1
  <2>3. ASSUME n = 4, s[1] = a /\ s[2] = b /\ s[3] = c /\ s[4] = e PROVE s = t
    <3>1. \A i \in 1..4 : i = 1 \/ i = 2 \/ i = 3 \/ i = 4
      OBVIOUS
    <3>2. \A i \in 1..4 : s[i] = t[i]
      BY <2>2, <2>3, <3>1
    <3> QED
      BY <1>1, <2>2, <2>3, <3>2
  <2>4. ASSUME s = t PROVE n = 4 /\ s[1] = a /\ s[2] = b /\ s[3] = c /\ s[4] = e
    BY <1>1, <2>1, <2>2, <2>4
  <2> QED
    BY <2>1, <2>3, <2>4
<1>7. s = <<a, b, c, e, f>> <=> n = 5 /\ s[1] = a /\ s[2] = b /\ s[3] = c /\ s[4] = e /\ s[5] = f
  <2>1. PICK t : t = <<a, b, c, e, f>>
    OBVIOUS
  <2>2. t = [i \in 1..5 |-> t[i]] /\ t[1] = a /\ t[2] = b /\ t[3] = c /\ t[4] = e /\ t[5] = f
    BY <2>1
  <2>3. ASSUME n = 5, s[1] = a /\ s[2] = b /\ s[3] = c /\ s[4] = e /\ s[5] = f PROVE s = t
    <3>1. \A i \in 1..5 : i = 1 \/ i = 2 \/ i = 3 \/ i = 4 \/ i = 5
      OBVIOUS
    <3>2. \A i \in 1..5 : s[i] = t[i]
      BY <2>2, <2>3, <3>1
    <3> QED
      BY <1>1, <2>2, <2>3, <3>2
  <2>4. ASSUME s = t PROVE n = 5 /\ s[1] = a /\ s[2] = b /\ s[3] = c /\ s[4] = e /\ s[5] = f
    BY <1>1, <2>1, <2>2, <2>4
  <2> QED
    BY <2>1, <2>3, <2>4
<1> QED
  BY <1>1, <1>2, <1>3, <1>4, <1>5, <1>6, <1>7

BelowModules(s) == Len(s) >= 3 /\ s[1] = "devices" /\ s[2] = "device" /\ s[3] = "modules"
Classes == DOMAIN Info!ModuleChildren

LEMMA StartsIs ==
  ASSUME NEW N, NEW s \in Seq(N)
  PROVE  Info!Starts(s, Info!Modules) <=> BelowModules(s)
<1>1. PICK n \in Nat : n = Len(s) /\ DOMAIN s = 1..n
  BY LenProperties
<1>2. Info!Modules = <<"devices", "device", "modules">> /\ Len(Info!Modules) = 3
  BY DEF Info!Modules
<1>3. ASSUME n >= 3
      PROVE  SubSeq(s, 1, 3) = <<"devices", "device", "modules">> <=> s[1] = "devices" /\ s[2] = "device" /\ s[3] = "modules"
  <2>1. \A i \in 1..3 : s[i] \in N
    BY <1>1, <1>3, LenProperties
  <2>2. PICK t : t = SubSeq(s, 1, 3)
    OBVIOUS
  <2>3. t \in Seq(N) /\ Len(t) = 3 /\ \A i \in 1..3 : t[i] = s[i]
    BY <2>1, <2>2, SubSeqProperties
  <2>4. t[1] = s[1] /\ t[2] = s[2] /\ t[3] = s[3]
    BY <2>3
  <2>5. t = <<"devices", "device", "modules">> <=> Len(t) = 3 /\ t[1] = "devices" /\ t[2] = "device" /\ t[3] = "modules"
    BY <2>3, TuplesAre
  <2> QED
    BY <2>2, <2>3, <2>4, <2>5
<1> QED
  BY <1>1, <1>2, <1>3 DEF Info!Starts, BelowModules

LEMMA PathsAre ==
  ASSUME NEW N, NEW s \in Seq(N), NEW name
  PROVE  /\ s \in Info!DevicePath <=> Len(s) = 2 /\ s[1] = "devices" /\ s[2] = "device"
         /\ s \in Info!DevicePaths(name) <=> Len(s) = 3 /\ s[1] = "devices" /\ s[2] = "device" /\ s[3] = name
         /\ s \in Info!ModulePath <=> Len(s) = 4 /\ BelowModules(s) /\ s[4] \in Classes
         /\ s \in Info!ModulePaths(name) <=> Len(s) = 5 /\ BelowModules(s) /\ s[4] \in Classes /\ s[5] = name
         /\ s \in Info!TypePath <=> Len(s) = 2 /\ s[1] = "types" /\ s[2] = "type"
         /\ s \in Info!TypePaths(name) <=> Len(s) = 3 /\ s[1] = "types" /\ s[2] = "type" /\ s[3] = name
<1>1. s \in Info!DevicePath <=> Len(s) = 2 /\ s[1] = "devices" /\ s[2] = "device"
  BY TuplesAre DEF Info!DevicePath
<1>2. s \in Info!DevicePaths(name) <=> Len(s) = 3 /\ s[1] = "devices" /\ s[2] = "device" /\ s[3] = name
  BY TuplesAre DEF Info!DevicePaths
<1>3. s \in Info!ModulePath <=> Len(s) = 4 /\ BelowModules(s) /\ s[4] \in Classes
  <2>1. \A class : s = <<"devices", "device", "modules", class>> <=>
                     Len(s) = 4 /\ s[1] = "devices" /\ s[2] = "device" /\ s[3] = "modules" /\ s[4] = class
    BY TuplesAre
  <2> QED
    BY <2>1 DEF Info!ModulePath, BelowModules, Classes
<1>4. s \in Info!ModulePaths(name) <=> Len(s) = 5 /\ BelowModules(s) /\ s[4] \in Classes /\ s[5] = name
  <2>1. \A class : s = <<"devices", "device", "modules", class, name>> <=>
                     /\ Len(s) = 5 /\ s[1] = "devices" /\ s[2] = "device" /\ s[3] = "modules"
                     /\ s[4] = class /\ s[5] = name
    BY TuplesAre
  <2> QED
    BY <2>1 DEF Info!ModulePaths, BelowModules, Classes
<1>5. s \in Info!TypePath <=> Len(s) = 2 /\ s[1] = "types" /\ s[2] = "type"
  BY TuplesAre DEF Info!TypePath
<1>6. s \in Info!TypePaths(name) <=> Len(s) = 3 /\ s[1] = "types" /\ s[2] = "type" /\ s[3] = name
  BY TuplesAre DEF Info!TypePaths
<1> QED
  BY <1>1, <1>2, <1>3, <1>4, <1>5, <1>6

LEMMA TupleIn ==
  ASSUME NEW S, NEW a \in S, NEW b \in S, NEW c \in S
  PROVE  /\ <<a, b>> \in Seq(S) /\ Len(<<a, b>>) = 2 /\ <<a, b>>[1] = a /\ <<a, b>>[2] = b
         /\ <<a, b, c>> \in Seq(S) /\ Len(<<a, b, c>>) = 3
         /\ <<a, b, c>>[1] = a /\ <<a, b, c>>[2] = b /\ <<a, b, c>>[3] = c
OBVIOUS

LEMMA LongPath ==
  ASSUME NEW a, NEW b, NEW c, NEW e, NEW f, NEW g
  PROVE  Len(<<a, b, c, e, f, g>>) = 6
OBVIOUS

(* Where there are no elements any more, and where there are modules. *)
LEMMA NoneExpected ==
  ASSUME NEW N, NEW s \in Seq(N), NEW kind,
         \/ Len(s) = 3 /\ s[3] \notin {"modules", "transform"}
         \/ Len(s) = 5 /\ BelowModules(s) /\ s[5] \notin {"constraints", "values", "rules"}
  PROVE  Info!ExpectElement(kind, s) = {}
<1>1. /\ s # <<>> /\ s # <<"devices">> /\ s # <<"devices", "device">> /\ s # <<"types">> /\ s # <<"types", "type">>
      /\ s # <<"types", "type", "transform">>
  BY TuplesAre
<1>2. s # Info!Modules
  BY TuplesAre DEF Info!Modules
<1>3. /\ ~(Info!Starts(s, Info!Modules) /\ Len(s) = 4)
      /\ ~(Info!Starts(s, Info!Modules) /\ Len(s) = 5 /\ s[5] = "constraints")
      /\ ~(Info!Starts(s, Info!Modules) /\ Len(s) = 5 /\ s[5] = "values")
  OBVIOUS
<1>4. /\ s # <<"devices", "device", "modules", "actuator", "rules">>
      /\ s # <<"devices", "device", "modules", "actuator", "rules", "if">>
  <2>1. s # <<"devices", "device", "modules", "actuator", "rules">>
    BY TuplesAre
  <2> QED
    BY <2>1, LongPath
<1>5. Info!DevicesExpect(s) = {}
  BY Zenon, <1>1, <1>2, <1>3, <1>4 DEF Info!DevicesExpect
<1>6. Info!TypesExpect(s) = {}
  BY Zenon, <1>1 DEF Info!TypesExpect
<1> QED
  BY <1>5, <1>6 DEF Info!ExpectElement

LEMMA LeavesAre ==
  ASSUME NEW N, NEW s \in Seq(N), NEW kind,
         \/ s \in Info!DevicePaths("name") \cup Info!DevicePaths("manufacturer")
         \/ s \in Info!ModulePaths("name") \cup Info!ModulePaths("group") \cup Info!ModulePaths("default")
         \/ s \in Info!TypePaths("name") \cup Info!TypePaths("unit") \cup Info!TypePaths("var")
  PROVE  Info!ExpectElement(kind, s) = {}
<1>1. \/ Len(s) = 3 /\ s[3] \in {"name", "manufacturer", "unit", "var"}
      \/ Len(s) = 5 /\ BelowModules(s) /\ s[5] \in {"name", "group", "default"}
  BY PathsAre
<1>2. \/ Len(s) = 3 /\ s[3] \notin {"modules", "transform"}
      \/ Len(s) = 5 /\ BelowModules(s) /\ s[5] \notin {"constraints", "values", "rules"}
  BY <1>1
<1> QED
  BY <1>2, NoneExpected

LEMMA ClassesExpected ==
  ASSUME NEW kind
  PROVE  Info!ExpectElement(kind, <<"devices", "device", "modules">>) \subseteq Classes
<1>1. PICK a, b, c : a = "devices" /\ b = "device" /\ c = "modules"
  OBVIOUS
<1>2. PICK N : N = {a, b, c}
  OBVIOUS
<1>3. PICK s \in Seq(N) : s = <<a, b, c>> /\ Len(s) = 3 /\ s[1] = a /\ s[2] = b /\ s[3] = c
  <2>1. a \in N /\ b \in N /\ c \in N
    BY <1>2
  <2>2. PICK s : s = <<a, b, c>>
    OBVIOUS
  <2>3. s \in Seq(N) /\ Len(s) = 3 /\ s[1] = a /\ s[2] = b /\ s[3] = c
    BY <2>1, <2>2, TupleIn
  <2> QED
    BY <2>2, <2>3
<1>4. s = <<"devices", "device", "modules">>
  BY <1>1, <1>3
<1>5. /\ s # <<>> /\ s # <<"devices">> /\ s # <<"devices", "device">> /\ s # <<"types">> /\ s # <<"types", "type">>
      /\ s # <<"types", "type", "transform">> /\ s # <<"devices", "device", "modules", "actuator", "rules">>
  BY <1>1, <1>3, TuplesAre
<1>6. /\ s # <<"devices", "device", "modules", "actuator", "rules", "if">> /\ Len(s) # 4 /\ Len(s) # 5
  BY <1>3, LongPath
<1>7. s = Info!Modules
  BY <1>4 DEF Info!Modules
<1>8. Info!DevicesExpect(s) = Classes
  BY Zenon, <1>5, <1>6, <1>7 DEF Info!DevicesExpect, Classes
<1>9. Info!TypesExpect(s) = {}
  BY Zenon, <1>5 DEF Info!TypesExpect
<1>10. Info!ExpectElement(kind, s) \subseteq Classes
  BY <1>8, <1>9 DEF Info!ExpectElement
<1> QED
  BY <1>4, <1>10

(* The parts of a path. *)
LEMMA PrefixSame ==
  ASSUME NEW S, NEW s \in Seq(S), NEW t \in Seq(S), NEW i \in Nat, i <= Len(s), i <= Len(t),
         \A k \in 1..i : s[k] = t[k]
  PROVE  SubSeq(s, 1, i) = SubSeq(t, 1, i)
<1>1. \A k \in 1..i : s[k] \in S /\ t[k] \in S
  BY LenProperties
<1>2. PICK a, b : a = SubSeq(s, 1, i) /\ b = SubSeq(t, 1, i)
  OBVIOUS
<1>3. a \in Seq(S) /\ b \in Seq(S) /\ Len(a) = i /\ Len(b) = i
  BY <1>1, <1>2, SubSeqProperties
<1>4. \A k \in 1..i : a[k] = s[k] /\ b[k] = t[k]
  BY <1>1, <1>2, SubSeqProperties
<1>5. a = b
  BY <1>3, <1>4, SeqEqual
<1> QED
  BY <1>2, <1>5

LEMMA PrefixAll ==
  ASSUME NEW S, NEW s \in Seq(S)
  PROVE  SubSeq(s, 1, Len(s)) = s
<1>1. PICK n \in Nat : n = Len(s)
  BY LenProperties
<1>2. \A k \in 1..n : s[k] \in S
  BY <1>1, LenProperties
<1>3. PICK a : a = SubSeq(s, 1, n)
  OBVIOUS
<1>4. a \in Seq(S) /\ Len(a) = n /\ \A k \in 1..n : a[k] = s[k]
  BY <1>2, <1>3, SubSeqProperties
<1>5. a = s
  BY <1>1, <1>4, SeqEqual
<1> QED
  BY <1>1, <1>3, <1>5

(* Elements that are open are where they may be, and have begun. *)
OnPath(d, n) ==
  \A i \in 1..Len(Info!OpenAfter(d)[n]) :
    /\ Info!OpenAfter(d)[n][i] \in Info!ExpectElement(d.kind, SubSeq(Info!OpenAfter(d)[n], 1, i - 1))
    /\ \E m \in 1..n : d.events[m].event = "start" /\ Info!OpenAfter(d)[m] = SubSeq(Info!OpenAfter(d)[n], 1, i)

OpenStep(d, n, above, open) ==
  /\ d.events[n].event = "start" => open = Append(above, d.events[n].name)
  /\ d.events[n].event = "end" => above # <<>> /\ open = Info!Front(above)
  /\ d.events[n].event \notin {"start", "end"} => open = above

LEMMA OpenGoesOn ==
  ASSUME NEW d \in Documents, NEW n \in 1..Len(d.events)
  PROVE  /\ Info!OpenAfter(d)[n - 1] \in Seq(NamesIn(d)) /\ Info!OpenAfter(d)[n] \in Seq(NamesIn(d))
         /\ OpenStep(d, n, Info!OpenAfter(d)[n - 1], Info!OpenAfter(d)[n])
<1>1. PICK open : open = Info!OpenAfter(d)
  OBVIOUS
<1>2. PICK len \in Nat : len = Len(d.events)
  BY EventsAre
<1>3. /\ open \in [0..len -> Seq(NamesIn(d))]
      /\ open[n] = CASE d.events[n].event = "start" -> Append(open[n - 1], d.events[n].name)
                   [] d.events[n].event = "end" -> Info!Front(open[n - 1])
                   [] OTHER -> open[n - 1]
  BY <1>1, <1>2, OpenIs DEF OpenGoes
<1>4. n - 1 \in 0..len /\ n \in 0..len
  BY <1>2
<1>5. d.events[n].event = "end" => open[n - 1] # <<>>
  BY <1>1, <1>2, EventsAre
<1>6. OpenStep(d, n, open[n - 1], open[n])
  BY <1>3, <1>5 DEF OpenStep
<1> QED
  BY <1>1, <1>3, <1>4, <1>6

LEMMA OnPathKept ==
  ASSUME NEW d \in Documents, NEW n \in 1..Len(d.events), OnPath(d, n - 1), Info!Fine(d, n)
  PROVE  OnPath(d, n)
<1>1. PICK above, open : above = Info!OpenAfter(d)[n - 1] /\ open = Info!OpenAfter(d)[n]
  OBVIOUS
<1>2. PICK S : S = NamesIn(d)
  OBVIOUS
<1>3. above \in Seq(S) /\ open \in Seq(S) /\ OpenStep(d, n, above, open)
  BY <1>1, <1>2, OpenGoesOn
<1>4. PICK size \in Nat : size = Len(above)
  BY <1>3, LenProperties
<1>5. n \in Nat \ {0} /\ 1..(n - 1) \subseteq 1..n
  BY EventsAre
<1>6. ASSUME NEW i \in 1..size
      PROVE  /\ above[i] \in Info!ExpectElement(d.kind, SubSeq(above, 1, i - 1))
             /\ \E m \in 1..n : d.events[m].event = "start" /\ Info!OpenAfter(d)[m] = SubSeq(above, 1, i)
  BY <1>1, <1>4, <1>5, <1>6 DEF OnPath
<1>7. CASE d.events[n].event = "start"
  <2>1. PICK name \in S : name = d.events[n].name
    BY <1>2, EventsAre
  <2>2. open = Append(above, name) /\ Len(open) = size + 1 /\ open[size + 1] = name
    BY <1>3, <1>4, <1>7, <2>1, AppendProperties DEF OpenStep
  <2>3. \A i \in 1..size : open[i] = above[i]
    BY <1>3, <1>4, <2>2, AppendProperties
  <2>4. \A i \in 0..size : SubSeq(open, 1, i) = SubSeq(above, 1, i)
    <3> SUFFICES ASSUME NEW i \in 0..size PROVE SubSeq(open, 1, i) = SubSeq(above, 1, i)
      OBVIOUS
    <3>1. i \in Nat /\ i <= Len(open) /\ i <= Len(above) /\ \A k \in 1..i : open[k] = above[k]
      BY <1>4, <2>2, <2>3
    <3> QED
      BY <1>3, <3>1, PrefixSame
  <2>5. SubSeq(above, 1, size) = above /\ SubSeq(open, 1, size + 1) = open
    BY <1>3, <1>4, <2>2, PrefixAll
  <2>6. name \in Info!ExpectElement(d.kind, above)
    BY <1>1, <1>7, <2>1 DEF Info!Fine
  <2>7. ASSUME NEW i \in 1..(size + 1)
        PROVE  /\ open[i] \in Info!ExpectElement(d.kind, SubSeq(open, 1, i - 1))
               /\ \E m \in 1..n : d.events[m].event = "start" /\ Info!OpenAfter(d)[m] = SubSeq(open, 1, i)
    <3>1. CASE i \in 1..size
      <4>1. i - 1 \in 0..size /\ i \in 0..size
        BY <3>1
      <4>2. open[i] = above[i] /\ SubSeq(open, 1, i - 1) = SubSeq(above, 1, i - 1) /\ SubSeq(open, 1, i) = SubSeq(above, 1, i)
        BY <2>3, <2>4, <3>1, <4>1
      <4> QED
        BY <1>6, <3>1, <4>2
    <3>2. CASE i = size + 1
      <4>1. SubSeq(open, 1, i - 1) = above
        <5>1. i - 1 = size /\ size \in 0..size
          BY <3>2
        <5> QED
          BY <2>4, <2>5, <5>1
      <4>2. open[i] = name /\ SubSeq(open, 1, i) = open
        BY <2>2, <2>5, <3>2
      <4>3. n \in 1..n
        BY <1>5
      <4> QED
        BY <1>1, <1>7, <2>6, <4>1, <4>2, <4>3
    <3>3. i \in 1..size \/ i = size + 1
      OBVIOUS
    <3> QED
      BY <3>1, <3>2, <3>3
  <2> QED
    BY <1>1, <2>2, <2>7 DEF OnPath
<1>8. CASE d.events[n].event = "end"
  <2>1. above # <<>> /\ open = Info!Front(above)
    BY <1>3, <1>8 DEF OpenStep
  <2>2. size # 0 /\ Len(open) = size - 1 /\ \A i \in 1..(size - 1) : open[i] = above[i]
    BY <1>3, <1>4, <2>1, FrontIs
  <2>3. \A i \in 0..(size - 1) : SubSeq(open, 1, i) = SubSeq(above, 1, i)
    <3> SUFFICES ASSUME NEW i \in 0..(size - 1) PROVE SubSeq(open, 1, i) = SubSeq(above, 1, i)
      OBVIOUS
    <3>1. i \in Nat /\ i <= Len(open) /\ i <= Len(above) /\ \A k \in 1..i : open[k] = above[k]
      BY <1>4, <2>2
    <3> QED
      BY <1>3, <3>1, PrefixSame
  <2>4. ASSUME NEW i \in 1..(size - 1)
        PROVE  /\ open[i] \in Info!ExpectElement(d.kind, SubSeq(open, 1, i - 1))
               /\ \E m \in 1..n : d.events[m].event = "start" /\ Info!OpenAfter(d)[m] = SubSeq(open, 1, i)
    <3>1. i - 1 \in 0..(size - 1) /\ i \in 0..(size - 1) /\ i \in 1..size
      OBVIOUS
    <3>2. open[i] = above[i] /\ SubSeq(open, 1, i - 1) = SubSeq(above, 1, i - 1) /\ SubSeq(open, 1, i) = SubSeq(above, 1, i)
      BY <2>2, <2>3, <3>1
    <3> QED
      BY <1>6, <3>1, <3>2
  <2> QED
    BY <1>1, <2>2, <2>4 DEF OnPath
<1>9. CASE d.events[n].event \notin {"start", "end"}
  <2>1. open = above
    BY <1>3, <1>9 DEF OpenStep
  <2> QED
    BY <1>1, <1>4, <1>6, <2>1 DEF OnPath
<1> QED
  BY <1>7, <1>8, <1>9

LEMMA OnPathAlways ==
  ASSUME NEW d \in Documents, NEW n \in 0..Len(d.events), \A m \in 1..n : Info!Fine(d, m)
  PROVE  OnPath(d, n)
<1>1. n \in Nat /\ Len(d.events) \in Nat
  BY EventsAre
<1> DEFINE Good == {m \in 0..n : OnPath(d, m)}
<1>2. 0 \in Good
  <2>1. Info!OpenAfter(d)[0] = <<>>
    BY OpenIs DEF OpenGoes
  <2>2. Len(Info!OpenAfter(d)[0]) = 0
    BY <2>1, EmptySeq
  <2>3. OnPath(d, 0)
    BY <2>2 DEF OnPath
  <2> QED
    BY <1>1, <2>3
<1>3. ASSUME NEW m \in 1..n, m - 1 \in Good PROVE m \in Good
  <2>1. OnPath(d, m - 1) /\ m \in 1..Len(d.events) /\ Info!Fine(d, m)
    BY <1>1, <1>3
  <2>2. OnPath(d, m)
    BY <2>1, OnPathKept
  <2> QED
    BY <2>2
<1>4. \A m \in 0..n : m \in Good
  <2> HIDE DEF Good
  <2> QED
    BY <1>1, <1>2, <1>3, UpTo
<1> QED
  BY <1>1, <1>4

(* Where the modules of a device are. *)
LEMMA ClassAlways ==
  ASSUME NEW d \in Documents, NEW n \in 0..Len(d.events), OnPath(d, n),
         BelowModules(Info!OpenAfter(d)[n]), Len(Info!OpenAfter(d)[n]) >= 4
  PROVE  Info!OpenAfter(d)[n][4] \in Classes
<1>1. PICK S, open : S = NamesIn(d) /\ open = Info!OpenAfter(d)[n]
  OBVIOUS
<1>2. open \in Seq(S)
  <2>1. PICK f : f = Info!OpenAfter(d)
    OBVIOUS
  <2>2. f \in [0..Len(d.events) -> Seq(S)]
    BY <1>1, <2>1, OpenIs DEF OpenGoes
  <2> QED
    BY <1>1, <2>1, <2>2
<1>3. PICK size \in Nat : size = Len(open)
  BY <1>2, LenProperties
<1>4. size >= 4 /\ 4 \in 1..size /\ 4 - 1 = 3
  BY <1>1, <1>3
<1>5. open[4] \in Info!ExpectElement(d.kind, SubSeq(open, 1, 3))
  BY <1>1, <1>3, <1>4 DEF OnPath
<1>6. SubSeq(open, 1, 3) = <<"devices", "device", "modules">>
  <2>1. \A i \in 1..3 : open[i] \in S
    BY <1>2, <1>3, <1>4, LenProperties
  <2>2. PICK t : t = SubSeq(open, 1, 3)
    OBVIOUS
  <2>3. t \in Seq(S) /\ Len(t) = 3 /\ \A i \in 1..3 : t[i] = open[i]
    BY <2>1, <2>2, SubSeqProperties
  <2>4. t[1] = open[1] /\ t[2] = open[2] /\ t[3] = open[3]
    BY <2>3
  <2>5. open[1] = "devices" /\ open[2] = "device" /\ open[3] = "modules"
    BY <1>1 DEF BelowModules
  <2>6. PICK a, b, c : a = "devices" /\ b = "device" /\ c = "modules"
    OBVIOUS
  <2>7. t = <<a, b, c>>
    BY <2>3, <2>4, <2>5, <2>6, TuplesAre
  <2> QED
    BY <2>2, <2>6, <2>7
<1>7. Info!ExpectElement(d.kind, SubSeq(open, 1, 3)) \subseteq Classes
  BY <1>6, ClassesExpected
<1> QED
  BY <1>1, <1>5, <1>7

PlaceIn(s, names) ==
  Info!Starts(s, Info!Modules) /\ Len(s) = 4 + Len(names) /\ SubSeq(s, 5, Len(s)) = names

LEMMA PlacesAre ==
  ASSUME NEW N, NEW s \in Seq(N), BelowModules(s) /\ Len(s) >= 4 => s[4] \in Classes, NEW name
  PROVE  /\ Info!Starts(s, Info!Modules) /\ Len(s) = 4 <=> s \in Info!ModulePath
         /\ PlaceIn(s, <<>>) <=> s \in Info!ModulePath
         /\ PlaceIn(s, <<name>>) <=> s \in Info!ModulePaths(name)
<1>1. PICK size \in Nat : size = Len(s)
  BY LenProperties
<1>2. /\ s \in Info!ModulePath <=> size = 4 /\ BelowModules(s) /\ s[4] \in Classes
      /\ s \in Info!ModulePaths(name) <=> size = 5 /\ BelowModules(s) /\ s[4] \in Classes /\ s[5] = name
  BY <1>1, PathsAre
<1>3. Info!Starts(s, Info!Modules) <=> BelowModules(s)
  BY StartsIs
<1>4. Info!Starts(s, Info!Modules) /\ Len(s) = 4 <=> s \in Info!ModulePath
  BY <1>1, <1>2, <1>3
<1>5. PlaceIn(s, <<>>) <=> s \in Info!ModulePath
  <2>1. Len(<<>>) = 0
    BY EmptySeq
  <2>2. ASSUME size = 4 PROVE SubSeq(s, 5, size) = <<>>
    <3>1. PICK t : t = SubSeq(s, 5, 4)
      OBVIOUS
    <3>2. t \in Seq(N) /\ Len(t) = 0
      BY <3>1, SubSeqProperties
    <3> QED
      BY <2>2, <3>1, <3>2, EmptySeq
  <2> QED
    BY <1>1, <1>4, <2>1, <2>2 DEF PlaceIn
<1>6. PlaceIn(s, <<name>>) <=> s \in Info!ModulePaths(name)
  <2>1. Len(<<name>>) = 1
    OBVIOUS
  <2>2. ASSUME size = 5 PROVE SubSeq(s, 5, size) = <<name>> <=> s[5] = name
    <3>1. \A i \in 5..5 : s[i] \in N
      <4>1. 5 \in 1..size
        BY <2>2
      <4>2. s[5] \in N
        BY <1>1, <4>1, LenProperties
      <4>3. \A i \in 5..5 : i = 5
        OBVIOUS
      <4> QED
        BY <4>2, <4>3
    <3>2. PICK t : t = SubSeq(s, 5, 5)
      OBVIOUS
    <3>3. t \in Seq(N) /\ Len(t) = 1 /\ t[1] = s[5]
      BY <3>1, <3>2, SubSeqProperties
    <3>4. t = <<name>> <=> Len(t) = 1 /\ t[1] = name
      BY <3>3, TuplesAre
    <3> QED
      BY <2>2, <3>2, <3>3, <3>4
  <2> QED
    BY <1>1, <1>2, <1>3, <2>1, <2>2 DEF PlaceIn
<1> QED
  BY <1>4, <1>5, <1>6

(* What is open has begun. *)
LEMMA Begun ==
  ASSUME NEW d \in Documents, NEW n \in 0..Len(d.events), OnPath(d, n), NEW paths,
         Info!OpenAfter(d)[n] \in paths, Info!OpenAfter(d)[n] # <<>>
  PROVE  Info!Latest(Info!Begins(d, paths), n) # 0
<1>1. PICK S, open : S = NamesIn(d) /\ open = Info!OpenAfter(d)[n]
  OBVIOUS
<1>2. open \in Seq(S)
  <2>1. PICK f : f = Info!OpenAfter(d)
    OBVIOUS
  <2>2. f \in [0..Len(d.events) -> Seq(S)]
    BY <1>1, <2>1, OpenIs DEF OpenGoes
  <2> QED
    BY <1>1, <2>1, <2>2
<1>3. PICK size \in Nat : size = Len(open)
  BY <1>2, LenProperties
<1>4. size \in 1..size
  BY <1>1, <1>2, <1>3, EmptySeq
<1>5. PICK m \in 1..n : d.events[m].event = "start" /\ Info!OpenAfter(d)[m] = SubSeq(open, 1, size)
  BY <1>1, <1>3, <1>4 DEF OnPath
<1>6. SubSeq(open, 1, size) = open
  BY <1>2, <1>3, PrefixAll
<1>7. n \in Nat /\ m \in DOMAIN d.events
  BY EventsAre
<1>8. m \in Info!Begins(d, paths)
  BY <1>1, <1>5, <1>6, <1>7 DEF Info!Begins
<1>9. PICK k, places : k = Info!Latest(Info!Begins(d, paths), n) /\ places = Info!Begins(d, paths)
  OBVIOUS
<1>10. IsLatest(places, n, k) /\ k \in 0..n
  BY <1>7, <1>9, LatestIs
<1>11. m <= k
  BY <1>8, <1>9, <1>10 DEF IsLatest
<1> QED
  BY <1>9, <1>10, <1>11

(* What has had an element is not a leaf. *)
LEMMA NoLeaf ==
  ASSUME NEW d \in Documents, NEW n \in 1..Len(d.events), OnPath(d, n - 1), d.events[n].event = "end"
  PROVE  Info!ExpectElement(d.kind, Info!OpenAfter(d)[n]) # {}
<1>1. PICK S, above, open : S = NamesIn(d) /\ above = Info!OpenAfter(d)[n - 1] /\ open = Info!OpenAfter(d)[n]
  OBVIOUS
<1>2. above \in Seq(S) /\ open \in Seq(S) /\ OpenStep(d, n, above, open)
  BY <1>1, OpenGoesOn
<1>3. above # <<>> /\ open = Info!Front(above)
  BY <1>2 DEF OpenStep
<1>4. PICK size \in Nat : size = Len(above)
  BY <1>2, LenProperties
<1>5. size # 0 /\ Len(open) = size - 1 /\ \A i \in 1..(size - 1) : open[i] = above[i]
  BY <1>2, <1>3, <1>4, FrontIs
<1>6. above[size] \in Info!ExpectElement(d.kind, SubSeq(above, 1, size - 1))
  <2>1. size \in 1..size
    BY <1>5
  <2> QED
    BY <1>1, <1>4, <2>1 DEF OnPath
<1>7. SubSeq(above, 1, size - 1) = SubSeq(open, 1, size - 1)
  <2>1. PICK less \in Nat : less = size - 1
    BY <1>5
  <2>2. less <= Len(open) /\ less <= Len(above) /\ \A k \in 1..less : above[k] = open[k]
    BY <1>4, <1>5, <2>1
  <2>3. SubSeq(above, 1, less) = SubSeq(open, 1, less)
    BY <1>2, <2>2, PrefixSame
  <2> QED
    BY <2>1, <2>3
<1>8. SubSeq(open, 1, size - 1) = open
  BY <1>2, <1>5, PrefixAll
<1> QED
  BY <1>1, <1>6, <1>7, <1>8

(* The places of an event. *)
LEMMA PlacesOfEvent ==
  ASSUME NEW d \in Documents, NEW n \in 1..Len(d.events), NEW paths
  PROVE  /\ n \in Info!Begins(d, paths) <=> d.events[n].event = "start" /\ Info!OpenAfter(d)[n] \in paths
         /\ n \in Info!Ends(d, paths) <=> d.events[n].event = "end" /\ Info!OpenAfter(d)[n - 1] \in paths
<1>1. n \in DOMAIN d.events
  BY EventsAre
<1> QED
  BY <1>1 DEF Info!Begins, Info!Ends

(* Content and the latest of some places, seen from the event. *)
ContentStep(d, paths, within, n) ==
  /\ n \in Info!Begins(d, within) => /\ ~Info!EndedIn(d, paths, within, n)
                                     /\ Info!ContentOf(d, paths, within, n) = <<>>
  /\ n \in Info!Ends(d, paths) => /\ Info!EndedIn(d, paths, within, n)
                                  /\ Info!ContentOf(d, paths, within, n) = Info!PiecesAfter(d)[n - 1]
  /\ n \notin Info!Begins(d, within) /\ n \notin Info!Ends(d, paths) =>
       /\ Info!EndedIn(d, paths, within, n) = Info!EndedIn(d, paths, within, n - 1)
       /\ Info!ContentOf(d, paths, within, n) = Info!ContentOf(d, paths, within, n - 1)

LEMMA ContentSteps ==
  ASSUME NEW d \in Documents, NEW n \in 1..Len(d.events), NEW paths, NEW within
  PROVE  ContentStep(d, paths, within, n)
<1>1. PICK k \in Nat : k = n - 1 /\ n = k + 1
  BY EventsAre
<1>2. /\ k + 1 \in Info!Begins(d, within) => /\ ~Info!EndedIn(d, paths, within, k + 1)
                                             /\ Info!ContentOf(d, paths, within, k + 1) = <<>>
      /\ k + 1 \in Info!Ends(d, paths) => /\ Info!EndedIn(d, paths, within, k + 1)
                                          /\ Info!ContentOf(d, paths, within, k + 1) = Info!PiecesAfter(d)[k]
      /\ k + 1 \notin Info!Begins(d, within) /\ k + 1 \notin Info!Ends(d, paths) =>
           /\ Info!EndedIn(d, paths, within, k + 1) = Info!EndedIn(d, paths, within, k)
           /\ Info!ContentOf(d, paths, within, k + 1) = Info!ContentOf(d, paths, within, k)
  BY ContentGoesOn, Zenon
<1> QED
  BY <1>1, <1>2, Zenon DEF ContentStep

LEMMA LatestSteps ==
  ASSUME NEW d \in Documents, NEW n \in 1..Len(d.events), NEW places
  PROVE  /\ n \in places => Info!Latest(places, n) = n
         /\ n \notin places => Info!Latest(places, n) = Info!Latest(places, n - 1)
<1>1. PICK k \in Nat : k = n - 1 /\ n = k + 1
  BY EventsAre
<1>2. /\ k + 1 \in places => Info!Latest(places, k + 1) = k + 1
      /\ k + 1 \notin places => Info!Latest(places, k + 1) = Info!Latest(places, k)
  BY LatestGoesOn, Zenon
<1> QED
  BY <1>1, <1>2, Zenon

(* What is known of a device after an event, and what an event makes of it. *)
DeviceIs(d, n, v) ==
  /\ v = [id |-> v.id, name |-> v.name, display |-> v.display, vendor |-> v.vendor, modules |-> v.modules]
  /\ Info!Latest(Info!Begins(d, Info!DevicePath), n) # 0 =>
       /\ v.id = d.events[Info!Latest(Info!Begins(d, Info!DevicePath), n)].attributes.id
       /\ v.display = d.events[Info!Latest(Info!Begins(d, Info!DevicePath), n)].attributes.name
  /\ v.name = Info!ContentOf(d, Info!DevicePaths("name"), Info!DevicePath, n)
  /\ v.vendor = Info!ContentOf(d, Info!DevicePaths("manufacturer"), Info!DevicePath, n)
  /\ v.modules = Info!ModulesAfter(d)[n]

DeviceStep(d, n, v, w) ==
  /\ w = [id |-> w.id, name |-> w.name, display |-> w.display, vendor |-> w.vendor, modules |-> w.modules]
  /\ n \in Info!Begins(d, Info!DevicePath) =>
       /\ w.id = d.events[n].attributes.id /\ w.display = d.events[n].attributes.name
       /\ w.name = <<>> /\ w.vendor = <<>> /\ w.modules = <<>>
  /\ n \notin Info!Begins(d, Info!DevicePath) =>
       /\ w.id = v.id /\ w.display = v.display
       /\ w.name = IF n \in Info!Ends(d, Info!DevicePaths("name")) THEN Info!PiecesAfter(d)[n - 1] ELSE v.name
       /\ w.vendor = IF n \in Info!Ends(d, Info!DevicePaths("manufacturer")) THEN Info!PiecesAfter(d)[n - 1] ELSE v.vendor
       /\ w.modules = IF n \in Info!Ends(d, Info!ModulePath) THEN Append(v.modules, Info!ModuleOf(d, n)) ELSE v.modules

LEMMA DeviceGoesOn ==
  ASSUME NEW d \in Documents, NEW n \in 1..Len(d.events), NEW v, NEW w, DeviceIs(d, n - 1, v), DeviceStep(d, n, v, w)
  PROVE  DeviceIs(d, n, w)
<1>1. PICK begins, names, vendors, modules :
        /\ begins = Info!Begins(d, Info!DevicePath) /\ names = Info!DevicePaths("name")
        /\ vendors = Info!DevicePaths("manufacturer") /\ modules = Info!Ends(d, Info!ModulePath)
  OBVIOUS
<1>2. /\ n \in begins => Info!Latest(begins, n) = n
      /\ n \notin begins => Info!Latest(begins, n) = Info!Latest(begins, n - 1)
  BY LatestSteps, Zenon
<1>3. ContentStep(d, names, Info!DevicePath, n) /\ ContentStep(d, vendors, Info!DevicePath, n)
  BY ContentSteps
<1>4. Info!ModulesAfter(d)[n] = IF n \in begins THEN <<>>
                                ELSE IF n \in modules THEN Append(Info!ModulesAfter(d)[n - 1], Info!ModuleOf(d, n))
                                     ELSE Info!ModulesAfter(d)[n - 1]
  BY <1>1, ModulesAre DEF ModulesGo
<1>5. w = [id |-> w.id, name |-> w.name, display |-> w.display, vendor |-> w.vendor, modules |-> w.modules]
  BY DEF DeviceStep
<1>6. n # 0
  BY EventsAre
<1>7. ASSUME Info!Latest(begins, n) # 0
      PROVE  /\ w.id = d.events[Info!Latest(begins, n)].attributes.id
             /\ w.display = d.events[Info!Latest(begins, n)].attributes.name
  BY <1>1, <1>2, <1>7, Zenon DEF DeviceIs, DeviceStep
<1>8. w.name = Info!ContentOf(d, names, Info!DevicePath, n)
  BY <1>1, <1>3, Zenon DEF DeviceIs, DeviceStep, ContentStep
<1>9. w.vendor = Info!ContentOf(d, vendors, Info!DevicePath, n)
  BY <1>1, <1>3, Zenon DEF DeviceIs, DeviceStep, ContentStep
<1>10. w.modules = Info!ModulesAfter(d)[n]
  <2>1. v.modules = Info!ModulesAfter(d)[n - 1]
    BY Zenon DEF DeviceIs
  <2>2. /\ n \in begins => w.modules = <<>>
        /\ n \notin begins => w.modules = IF n \in modules THEN Append(v.modules, Info!ModuleOf(d, n)) ELSE v.modules
    BY <1>1, Zenon DEF DeviceStep
  <2> QED
    BY <1>4, <2>1, <2>2
<1> QED
  BY <1>1, <1>5, <1>7, <1>8, <1>9, <1>10, Zenon DEF DeviceIs

(* A module. *)
ModuleIs(d, n, v) ==
  /\ v = [id |-> v.id, class |-> v.class, type |-> v.type, name |-> v.name, group |-> v.group,
          unavailable |-> v.unavailable, default |-> v.default]
  /\ Info!Latest(Info!Begins(d, Info!ModulePath), n) # 0 =>
       /\ v.id = d.events[Info!Latest(Info!Begins(d, Info!ModulePath), n)].attributes.id
       /\ v.class = d.events[Info!Latest(Info!Begins(d, Info!ModulePath), n)].name
       /\ v.type = d.events[Info!Latest(Info!Begins(d, Info!ModulePath), n)].attributes.type
       /\ v.unavailable = d.events[Info!Latest(Info!Begins(d, Info!ModulePath), n)].attributes.unavailable
  /\ v.name = Info!ContentOf(d, Info!ModulePaths("name"), Info!ModulePath, n)
  /\ v.group = Info!ContentOf(d, Info!ModulePaths("group"), Info!ModulePath, n)
  /\ v.default = Info!ContentOf(d, Info!ModulePaths("default"), Info!ModulePath, n)

ModuleStep(d, n, v, w) ==
  /\ w = [id |-> w.id, class |-> w.class, type |-> w.type, name |-> w.name, group |-> w.group,
          unavailable |-> w.unavailable, default |-> w.default]
  /\ n \in Info!Begins(d, Info!ModulePath) =>
       /\ w.id = d.events[n].attributes.id /\ w.class = d.events[n].name
       /\ w.type = d.events[n].attributes.type /\ w.unavailable = d.events[n].attributes.unavailable
       /\ w.name = <<>> /\ w.group = <<>> /\ w.default = <<>>
  /\ n \notin Info!Begins(d, Info!ModulePath) =>
       /\ w.id = v.id /\ w.class = v.class /\ w.type = v.type /\ w.unavailable = v.unavailable
       /\ w.name = IF n \in Info!Ends(d, Info!ModulePaths("name")) THEN Info!PiecesAfter(d)[n - 1] ELSE v.name
       /\ w.group = IF n \in Info!Ends(d, Info!ModulePaths("group")) THEN Info!PiecesAfter(d)[n - 1] ELSE v.group
       /\ w.default = IF n \in Info!Ends(d, Info!ModulePaths("default")) THEN Info!PiecesAfter(d)[n - 1] ELSE v.default

LEMMA ModuleGoesOn ==
  ASSUME NEW d \in Documents, NEW n \in 1..Len(d.events), NEW v, NEW w, ModuleIs(d, n - 1, v), ModuleStep(d, n, v, w)
  PROVE  ModuleIs(d, n, w)
<1>1. PICK begins, names, groups, defaults :
        /\ begins = Info!Begins(d, Info!ModulePath) /\ names = Info!ModulePaths("name")
        /\ groups = Info!ModulePaths("group") /\ defaults = Info!ModulePaths("default")
  OBVIOUS
<1>2. /\ n \in begins => Info!Latest(begins, n) = n
      /\ n \notin begins => Info!Latest(begins, n) = Info!Latest(begins, n - 1)
  BY LatestSteps, Zenon
<1>3. /\ ContentStep(d, names, Info!ModulePath, n) /\ ContentStep(d, groups, Info!ModulePath, n)
      /\ ContentStep(d, defaults, Info!ModulePath, n)
  BY ContentSteps
<1>4. w = [id |-> w.id, class |-> w.class, type |-> w.type, name |-> w.name, group |-> w.group,
           unavailable |-> w.unavailable, default |-> w.default]
  BY DEF ModuleStep
<1>5. ASSUME Info!Latest(begins, n) # 0
      PROVE  /\ w.id = d.events[Info!Latest(begins, n)].attributes.id
             /\ w.class = d.events[Info!Latest(begins, n)].name
             /\ w.type = d.events[Info!Latest(begins, n)].attributes.type
             /\ w.unavailable = d.events[Info!Latest(begins, n)].attributes.unavailable
  BY <1>1, <1>2, <1>5, Zenon DEF ModuleIs, ModuleStep
<1>6. w.name = Info!ContentOf(d, names, Info!ModulePath, n)
  BY <1>1, <1>3, Zenon DEF ModuleIs, ModuleStep, ContentStep
<1>7. w.group = Info!ContentOf(d, groups, Info!ModulePath, n)
  BY <1>1, <1>3, Zenon DEF ModuleIs, ModuleStep, ContentStep
<1>8. w.default = Info!ContentOf(d, defaults, Info!ModulePath, n)
  BY <1>1, <1>3, Zenon DEF ModuleIs, ModuleStep, ContentStep
<1> QED
  BY <1>1, <1>4, <1>5, <1>6, <1>7, <1>8, Zenon DEF ModuleIs

(* And a type. *)
TypeIs(d, n, v) ==
  /\ v = [id |-> v.id, name |-> v.name, unit |-> v.unit, ctype |-> v.ctype, width |-> v.width]
  /\ Info!Latest(Info!Begins(d, Info!TypePath), n) # 0 =>
       v.id = d.events[Info!Latest(Info!Begins(d, Info!TypePath), n)].attributes.id
  /\ v.name = Info!ContentOf(d, Info!TypePaths("name"), Info!TypePath, n)
  /\ v.unit = Info!ContentOf(d, Info!TypePaths("unit"), Info!TypePath, n)
  /\ v.ctype = IF Info!EndedIn(d, Info!TypePaths("var"), Info!TypePath, n)
               THEN Info!SetCType(Info!ContentOf(d, Info!TypePaths("var"), Info!TypePath, n)) ELSE <<"int">>
  /\ v.width = IF Info!Latest(Info!Begins(d, Info!TypePaths("var")), n) > Info!Latest(Info!Begins(d, Info!TypePath), n)
               THEN d.events[Info!Latest(Info!Begins(d, Info!TypePaths("var")), n)].attributes.size ELSE 1

TypeStep(d, n, v, w) ==
  /\ w = [id |-> w.id, name |-> w.name, unit |-> w.unit, ctype |-> w.ctype, width |-> w.width]
  /\ n \in Info!Begins(d, Info!TypePath) =>
       /\ w.id = d.events[n].attributes.id
       /\ w.name = <<>> /\ w.unit = <<>> /\ w.ctype = <<"int">> /\ w.width = 1
  /\ n \notin Info!Begins(d, Info!TypePath) =>
       /\ w.id = v.id
       /\ w.name = IF n \in Info!Ends(d, Info!TypePaths("name")) THEN Info!PiecesAfter(d)[n - 1] ELSE v.name
       /\ w.unit = IF n \in Info!Ends(d, Info!TypePaths("unit")) THEN Info!PiecesAfter(d)[n - 1] ELSE v.unit
       /\ w.ctype = IF n \in Info!Ends(d, Info!TypePaths("var")) THEN Info!SetCType(Info!PiecesAfter(d)[n - 1]) ELSE v.ctype
       /\ w.width = IF n \in Info!Begins(d, Info!TypePaths("var")) THEN d.events[n].attributes.size ELSE v.width

LEMMA TypeGoesOn ==
  ASSUME NEW d \in Documents, NEW n \in 1..Len(d.events), NEW v, NEW w, TypeIs(d, n - 1, v), TypeStep(d, n, v, w)
  PROVE  TypeIs(d, n, w)
<1>1. PICK begins, names, units, varPaths, varBegins :
        /\ begins = Info!Begins(d, Info!TypePath) /\ names = Info!TypePaths("name")
        /\ units = Info!TypePaths("unit") /\ varPaths = Info!TypePaths("var") /\ varBegins = Info!Begins(d, Info!TypePaths("var"))
  OBVIOUS
<1>2. /\ n \in begins => Info!Latest(begins, n) = n
      /\ n \notin begins => Info!Latest(begins, n) = Info!Latest(begins, n - 1)
      /\ n \in varBegins => Info!Latest(varBegins, n) = n
      /\ n \notin varBegins => Info!Latest(varBegins, n) = Info!Latest(varBegins, n - 1)
  BY LatestSteps, Zenon
<1>3. /\ ContentStep(d, names, Info!TypePath, n) /\ ContentStep(d, units, Info!TypePath, n)
      /\ ContentStep(d, varPaths, Info!TypePath, n)
  BY ContentSteps
<1>4. w = [id |-> w.id, name |-> w.name, unit |-> w.unit, ctype |-> w.ctype, width |-> w.width]
  BY DEF TypeStep
<1>5. ASSUME Info!Latest(begins, n) # 0
      PROVE  w.id = d.events[Info!Latest(begins, n)].attributes.id
  BY <1>1, <1>2, <1>5, Zenon DEF TypeIs, TypeStep
<1>6. w.name = Info!ContentOf(d, names, Info!TypePath, n)
  BY <1>1, <1>3, Zenon DEF TypeIs, TypeStep, ContentStep
<1>7. w.unit = Info!ContentOf(d, units, Info!TypePath, n)
  BY <1>1, <1>3, Zenon DEF TypeIs, TypeStep, ContentStep
<1>8. w.ctype = IF Info!EndedIn(d, varPaths, Info!TypePath, n)
                THEN Info!SetCType(Info!ContentOf(d, varPaths, Info!TypePath, n)) ELSE <<"int">>
  BY <1>1, <1>3, Zenon DEF TypeIs, TypeStep, ContentStep
<1>9. ~(n \in begins /\ n \in varBegins)
  <2>1. PICK S, open : S = NamesIn(d) /\ open = Info!OpenAfter(d)[n]
    OBVIOUS
  <2>2. open \in Seq(S)
    BY <2>1, OpenGoesOn
  <2>3. ~(open \in Info!TypePath /\ open \in Info!TypePaths("var"))
    BY <2>2, PathsAre
  <2> QED
    BY <1>1, <2>1, <2>3, PlacesOfEvent
<1>10. n \in Nat /\ n - 1 \in Nat
  BY EventsAre
<1>11. /\ Info!Latest(begins, n - 1) \in 0..(n - 1) /\ Info!Latest(varBegins, n - 1) \in 0..(n - 1)
  BY <1>10, LatestIs
<1>12. w.width = IF Info!Latest(varBegins, n) > Info!Latest(begins, n)
                 THEN d.events[Info!Latest(varBegins, n)].attributes.size ELSE 1
  <2>1. v.width = IF Info!Latest(varBegins, n - 1) > Info!Latest(begins, n - 1)
                  THEN d.events[Info!Latest(varBegins, n - 1)].attributes.size ELSE 1
    BY <1>1, Zenon DEF TypeIs
  <2>2. /\ n \in begins => w.width = 1
        /\ n \notin begins => w.width = IF n \in varBegins THEN d.events[n].attributes.size ELSE v.width
    BY <1>1, Zenon DEF TypeStep
  <2>3. PICK a, b, e, f : /\ a = Info!Latest(varBegins, n - 1) /\ b = Info!Latest(begins, n - 1)
                          /\ e = Info!Latest(varBegins, n) /\ f = Info!Latest(begins, n)
    OBVIOUS
  <2>4. CASE n \in begins
    <3>1. f = n /\ e = a /\ a < n
      BY <1>2, <1>9, <1>10, <1>11, <2>3, <2>4
    <3>2. ~(e > f)
      BY <1>10, <1>11, <2>3, <3>1
    <3> QED
      BY <2>2, <2>3, <2>4, <3>2
  <2>5. CASE n \in varBegins
    <3>1. f = b /\ e = n /\ b < n
      BY <1>2, <1>9, <1>10, <1>11, <2>3, <2>5
    <3>2. e > f
      BY <1>10, <1>11, <2>3, <3>1
    <3>3. w.width = d.events[n].attributes.size
      BY <1>9, <2>2, <2>5
    <3> QED
      BY <2>3, <3>1, <3>2, <3>3
  <2>6. CASE n \notin begins /\ n \notin varBegins
    <3>1. f = b /\ e = a
      BY <1>2, <2>3, <2>6
    <3>2. w.width = v.width
      BY <2>2, <2>6
    <3> QED
      BY <2>1, <2>3, <3>1, <3>2
  <2> QED
    BY <2>4, <2>5, <2>6
<1> QED
  BY <1>1, <1>4, <1>5, <1>6, <1>7, <1>8, <1>12, Zenon DEF TypeIs

(* The path the handler keeps, and the names on it. *)
NamesOf(p) == [i \in DOMAIN p |-> p[i].name]

Named(R, S) == \A e \in R : e.name \in S

LEMMA PathNames ==
  ASSUME NEW S, NEW R, Named(R, S), NEW p \in Seq(R)
  PROVE  /\ NamesOf(p) \in Seq(S) /\ Len(NamesOf(p)) = Len(p)
         /\ \A i \in 1..Len(p) : NamesOf(p)[i] = p[i].name
<1>1. PICK size \in Nat : size = Len(p) /\ DOMAIN p = 1..size
  BY LenProperties
<1>2. \A i \in 1..size : p[i] \in R
  BY <1>1, LenProperties
<1>3. PICK f : f = NamesOf(p)
  OBVIOUS
<1>4. f = [i \in 1..size |-> p[i].name]
  BY <1>1, <1>3 DEF NamesOf
<1>5. f \in [1..size -> S]
  BY <1>2, <1>4 DEF Named
<1> QED
  BY <1>1, <1>3, <1>4, <1>5, FunctionIsSequence

LEMMA PathAppend ==
  ASSUME NEW S, NEW R, Named(R, S), NEW p \in Seq(R), NEW e \in R
  PROVE  /\ Append(p, e) \in Seq(R) /\ Append(p, e) # <<>>
         /\ NamesOf(Append(p, e)) = Append(NamesOf(p), e.name)
         /\ Info!Last(Append(p, e)) = e
<1>1. PICK size \in Nat : size = Len(p)
  BY LenProperties
<1>2. PICK q : q = Append(p, e)
  OBVIOUS
<1>3. /\ q \in Seq(R) /\ Len(q) = size + 1 /\ q[size + 1] = e
      /\ \A i \in 1..size : q[i] = p[i]
  BY <1>1, <1>2, AppendProperties
<1>4. PICK names : names = NamesOf(p)
  OBVIOUS
<1>5. names \in Seq(S) /\ Len(names) = size /\ \A i \in 1..size : names[i] = p[i].name
  <2>1. NamesOf(p) \in Seq(S) /\ Len(NamesOf(p)) = Len(p) /\ \A i \in 1..Len(p) : NamesOf(p)[i] = p[i].name
    BY PathNames
  <2> QED
    BY <1>1, <1>4, <2>1
<1>6. PICK more : more = NamesOf(q)
  OBVIOUS
<1>7. more \in Seq(S) /\ Len(more) = size + 1 /\ \A i \in 1..(size + 1) : more[i] = q[i].name
  <2>1. q \in Seq(R)
    BY <1>3
  <2>2. NamesOf(q) \in Seq(S) /\ Len(NamesOf(q)) = Len(q) /\ \A i \in 1..Len(q) : NamesOf(q)[i] = q[i].name
    BY <2>1, PathNames
  <2> QED
    BY <1>3, <1>6, <2>2
<1>8. PICK name \in S : name = e.name
  BY DEF Named
<1>9. PICK all : all = Append(names, name)
  OBVIOUS
<1>10. all \in Seq(S) /\ Len(all) = size + 1 /\ all[size + 1] = name /\ \A i \in 1..size : all[i] = names[i]
  BY <1>5, <1>9, AppendProperties
<1>11. \A i \in 1..(size + 1) : more[i] = all[i]
  <2> SUFFICES ASSUME NEW i \in 1..(size + 1) PROVE more[i] = all[i]
    OBVIOUS
  <2>1. i \in 1..size \/ i = size + 1
    OBVIOUS
  <2>2. CASE i \in 1..size
    BY <1>3, <1>5, <1>7, <1>10, <2>2
  <2>3. CASE i = size + 1
    BY <1>3, <1>7, <1>8, <1>10, <2>3
  <2> QED
    BY <2>1, <2>2, <2>3
<1>12. more = all
  BY <1>7, <1>10, <1>11, SeqEqual
<1>13. q # <<>>
  <2>1. Len(q) # 0
    BY <1>3
  <2> QED
    BY <2>1, EmptySeq
<1>14. Info!Last(q) = e
  BY <1>3 DEF Info!Last
<1> QED
  BY <1>2, <1>3, <1>4, <1>6, <1>8, <1>9, <1>12, <1>13, <1>14

LEMMA PathFront ==
  ASSUME NEW S, NEW R, Named(R, S), NEW p \in Seq(R), p # <<>>
  PROVE  /\ Info!Front(p) \in Seq(R)
         /\ NamesOf(Info!Front(p)) = Info!Front(NamesOf(p))
<1>1. PICK size \in Nat \ {0} : size = Len(p)
  BY FrontIs
<1>2. PICK q : q = Info!Front(p)
  OBVIOUS
<1>3. q \in Seq(R) /\ Len(q) = size - 1 /\ \A i \in 1..(size - 1) : q[i] = p[i]
  BY <1>1, <1>2, FrontIs
<1>4. PICK names : names = NamesOf(p)
  OBVIOUS
<1>5. names \in Seq(S) /\ Len(names) = size /\ \A i \in 1..size : names[i] = p[i].name
  <2>1. NamesOf(p) \in Seq(S) /\ Len(NamesOf(p)) = Len(p) /\ \A i \in 1..Len(p) : NamesOf(p)[i] = p[i].name
    BY PathNames
  <2> QED
    BY <1>1, <1>4, <2>1
<1>6. names # <<>>
  BY <1>1, <1>5, EmptySeq
<1>7. PICK fewer : fewer = NamesOf(q)
  OBVIOUS
<1>8. fewer \in Seq(S) /\ Len(fewer) = size - 1 /\ \A i \in 1..(size - 1) : fewer[i] = q[i].name
  <2>1. q \in Seq(R)
    BY <1>3
  <2>2. NamesOf(q) \in Seq(S) /\ Len(NamesOf(q)) = Len(q) /\ \A i \in 1..Len(q) : NamesOf(q)[i] = q[i].name
    BY <2>1, PathNames
  <2> QED
    BY <1>3, <1>7, <2>2
<1>9. PICK rest : rest = Info!Front(names)
  OBVIOUS
<1>10. rest \in Seq(S) /\ Len(rest) = size - 1 /\ \A i \in 1..(size - 1) : rest[i] = names[i]
  BY <1>5, <1>6, <1>9, FrontIs
<1>11. \A i \in 1..(size - 1) : fewer[i] = rest[i]
  <2> SUFFICES ASSUME NEW i \in 1..(size - 1) PROVE fewer[i] = rest[i]
    OBVIOUS
  <2>1. i \in 1..size
    OBVIOUS
  <2> QED
    BY <1>3, <1>5, <1>8, <1>10, <2>1
<1>12. fewer = rest
  BY <1>8, <1>10, <1>11, SeqEqual
<1> QED
  BY <1>2, <1>3, <1>4, <1>7, <1>9, <1>12

WithLast(p, e) == [p EXCEPT ![Len(p)] = e]

LEMMA PathContent ==
  ASSUME NEW S, NEW R, Named(R, S), NEW p \in Seq(R), p # <<>>, NEW e \in R, e.name = Info!Last(p).name,
         NEW q, q = WithLast(p, e)
  PROVE  q \in Seq(R) /\ NamesOf(q) = NamesOf(p) /\ Info!Last(q) = e
<1>1. PICK size \in Nat \ {0} : size = Len(p)
  BY FrontIs
<1>2. DOMAIN p = 1..size /\ \A i \in 1..size : p[i] \in R
  BY <1>1, LenProperties
<1>3. size \in 1..size
  BY <1>1
<1>4. e.name = p[size].name
  BY <1>1 DEF Info!Last
<1>5. q = [i \in 1..size |-> IF i = size THEN e ELSE p[i]]
  BY <1>1, <1>2 DEF WithLast
<1>6. q \in [1..size -> R]
  BY <1>2, <1>5
<1>7. q \in Seq(R) /\ Len(q) = size
  BY <1>6, FunctionIsSequence
<1>8. Info!Last(q) = e
  BY <1>3, <1>5, <1>7 DEF Info!Last
<1>9. NamesOf(q) = NamesOf(p)
  <2>1. DOMAIN q = 1..size
    BY <1>5
  <2>2. \A i \in 1..size : q[i].name = p[i].name
    BY <1>4, <1>5
  <2> QED
    BY <1>2, <2>1, <2>2 DEF NamesOf
<1> QED
  BY <1>7, <1>8, <1>9

LEMMA PathLast ==
  ASSUME NEW S, NEW R, Named(R, S), NEW p \in Seq(R), p # <<>>
  PROVE  /\ Info!Last(NamesOf(p)) = Info!Last(p).name /\ NamesOf(p) # <<>>
         /\ Info!Last(p) \in R
<1>1. PICK size \in Nat \ {0} : size = Len(p)
  BY FrontIs
<1>2. size \in 1..size
  BY <1>1
<1>3. PICK names : names = NamesOf(p)
  OBVIOUS
<1>4. Len(names) = size /\ names[size] = p[size].name
  BY <1>1, <1>2, <1>3, PathNames
<1>5. names # <<>>
  BY <1>1, <1>4, EmptySeq
<1>6. p[size] \in R
  BY <1>1, <1>2, LenProperties
<1> QED
  BY <1>1, <1>3, <1>4, <1>5, <1>6 DEF Info!Last

(* What is known of the three after an event, and what an event makes of them. *)
TempIs(d, n, t) ==
  /\ t = [device |-> t.device, module |-> t.module, type |-> t.type]
  /\ DeviceIs(d, n, t.device) /\ ModuleIs(d, n, t.module) /\ TypeIs(d, n, t.type)

TempStep(d, n, t, u) ==
  /\ u = [device |-> u.device, module |-> u.module, type |-> u.type]
  /\ DeviceStep(d, n, t.device, u.device) /\ ModuleStep(d, n, t.module, u.module) /\ TypeStep(d, n, t.type, u.type)

LEMMA TempGoesOn ==
  ASSUME NEW d \in Documents, NEW n \in 1..Len(d.events), NEW t, NEW u, TempIs(d, n - 1, t), TempStep(d, n, t, u)
  PROVE  TempIs(d, n, u)
<1>1. DeviceIs(d, n - 1, t.device) /\ ModuleIs(d, n - 1, t.module) /\ TypeIs(d, n - 1, t.type)
  BY DEF TempIs
<1>2. /\ u = [device |-> u.device, module |-> u.module, type |-> u.type]
      /\ DeviceStep(d, n, t.device, u.device) /\ ModuleStep(d, n, t.module, u.module) /\ TypeStep(d, n, t.type, u.type)
  BY Zenon DEF TempStep
<1>3. DeviceIs(d, n, u.device)
  BY <1>1, <1>2, DeviceGoesOn
<1>4. ModuleIs(d, n, u.module)
  BY <1>1, <1>2, ModuleGoesOn
<1>5. TypeIs(d, n, u.type)
  BY <1>1, <1>2, TypeGoesOn
<1> QED
  BY <1>2, <1>3, <1>4, <1>5, Zenon DEF TempIs

(* The paths that matter, apart from each other. *)
LEMMA PathsApart ==
  ASSUME NEW N, NEW s \in Seq(N)
  PROVE  /\ s \in Info!DevicePath <=> Len(s) = 2 /\ s[1] = "devices" /\ s[2] = "device"
         /\ s \in Info!DevicePaths("name") <=> Len(s) = 3 /\ s[1] = "devices" /\ s[2] = "device" /\ s[3] = "name"
         /\ s \in Info!DevicePaths("manufacturer") <=>
              Len(s) = 3 /\ s[1] = "devices" /\ s[2] = "device" /\ s[3] = "manufacturer"
         /\ s \in Info!ModulePath => Len(s) = 4
         /\ s \in Info!ModulePaths("name") => Len(s) = 5 /\ s[5] = "name"
         /\ s \in Info!ModulePaths("group") => Len(s) = 5 /\ s[5] = "group"
         /\ s \in Info!ModulePaths("default") => Len(s) = 5 /\ s[5] = "default"
         /\ s \in Info!TypePath <=> Len(s) = 2 /\ s[1] = "types" /\ s[2] = "type"
         /\ s \in Info!TypePaths("name") <=> Len(s) = 3 /\ s[1] = "types" /\ s[2] = "type" /\ s[3] = "name"
         /\ s \in Info!TypePaths("unit") <=> Len(s) = 3 /\ s[1] = "types" /\ s[2] = "type" /\ s[3] = "unit"
         /\ s \in Info!TypePaths("var") <=> Len(s) = 3 /\ s[1] = "types" /\ s[2] = "type" /\ s[3] = "var"
<1>1. /\ s \in Info!DevicePath <=> Len(s) = 2 /\ s[1] = "devices" /\ s[2] = "device"
      /\ s \in Info!ModulePath => Len(s) = 4
      /\ s \in Info!TypePath <=> Len(s) = 2 /\ s[1] = "types" /\ s[2] = "type"
  BY PathsAre
<1>2. ASSUME NEW name
      PROVE  /\ s \in Info!DevicePaths(name) <=> Len(s) = 3 /\ s[1] = "devices" /\ s[2] = "device" /\ s[3] = name
             /\ s \in Info!ModulePaths(name) => Len(s) = 5 /\ s[5] = name
             /\ s \in Info!TypePaths(name) <=> Len(s) = 3 /\ s[1] = "types" /\ s[2] = "type" /\ s[3] = name
  BY PathsAre
<1> QED
  BY <1>1, <1>2, Zenon

(* startElement() begins what the path says. *)
LEMMA StartedStep ==
  ASSUME NEW d \in Documents, NEW n \in 1..Len(d.events), d.events[n].event = "start", OnPath(d, n),
         TempIs(d, n - 1, temp)
  PROVE  TempStep(d, n, temp, Info!Started(Info!OpenAfter(d)[n], d.events[n].attributes))
<1>1. PICK S, above, open : S = NamesIn(d) /\ above = Info!OpenAfter(d)[n - 1] /\ open = Info!OpenAfter(d)[n]
  OBVIOUS
<1>2. above \in Seq(S) /\ open \in Seq(S) /\ OpenStep(d, n, above, open)
  BY <1>1, OpenGoesOn
<1>3. PICK attributes, w : attributes = d.events[n].attributes /\ w = Info!Started(open, attributes)
  OBVIOUS
<1>4. /\ temp = [device |-> temp.device, module |-> temp.module, type |-> temp.type]
      /\ temp.device = [id |-> temp.device.id, name |-> temp.device.name, display |-> temp.device.display,
                        vendor |-> temp.device.vendor, modules |-> temp.device.modules]
      /\ temp.module = [id |-> temp.module.id, class |-> temp.module.class, type |-> temp.module.type,
                        name |-> temp.module.name, group |-> temp.module.group,
                        unavailable |-> temp.module.unavailable, default |-> temp.module.default]
      /\ temp.type = [id |-> temp.type.id, name |-> temp.type.name, unit |-> temp.type.unit,
                      ctype |-> temp.type.ctype, width |-> temp.type.width]
  BY Zenon DEF TempIs, DeviceIs, ModuleIs, TypeIs
<1>5. n \in 0..Len(d.events)
  BY EventsAre
<1>6. BelowModules(open) /\ Len(open) >= 4 => open[4] \in Classes
  BY <1>1, <1>5, ClassAlways
<1>7. /\ open = <<"devices", "device">> <=> open \in Info!DevicePath
      /\ Info!Starts(open, Info!Modules) /\ Len(open) = 4 <=> open \in Info!ModulePath
      /\ open = <<"types", "type">> <=> open \in Info!TypePath
      /\ open = <<"types", "type", "var">> <=> open \in Info!TypePaths("var")
  <2>1. Info!Starts(open, Info!Modules) /\ Len(open) = 4 <=> open \in Info!ModulePath
    BY <1>2, <1>6, PlacesAre
  <2> QED
    BY <2>1 DEF Info!DevicePath, Info!TypePath, Info!TypePaths
<1>8. \A paths : /\ n \in Info!Begins(d, paths) <=> open \in paths
                 /\ n \notin Info!Ends(d, paths)
  BY <1>1, PlacesOfEvent
<1>9. /\ ~(open \in Info!DevicePath /\ open \in Info!ModulePath)
      /\ ~(open \in Info!DevicePath /\ open \in Info!TypePath)
      /\ ~(open \in Info!DevicePath /\ open \in Info!TypePaths("var"))
      /\ ~(open \in Info!ModulePath /\ open \in Info!TypePath)
      /\ ~(open \in Info!ModulePath /\ open \in Info!TypePaths("var"))
      /\ ~(open \in Info!TypePath /\ open \in Info!TypePaths("var"))
  <2>1. PICK size \in Nat : size = Len(open)
    BY <1>2, LenProperties
  <2>2. /\ open \in Info!DevicePath => size = 2 /\ open[1] = "devices"
        /\ open \in Info!ModulePath => size = 4
        /\ open \in Info!TypePath => size = 2 /\ open[1] = "types"
        /\ open \in Info!TypePaths("var") => size = 3
    BY <1>2, <2>1, PathsApart
  <2>3. "devices" # "types" /\ 2 # 3 /\ 2 # 4 /\ 3 # 4
    OBVIOUS
  <2> QED
    BY <2>2, <2>3, Zenon
<1>10. CASE open \in Info!DevicePath
  <2>1. w = [temp EXCEPT !.device = Info!NewDevice(attributes.id, attributes.name)]
    BY <1>3, <1>7, <1>9, <1>10, Zenon DEF Info!Started, Info!DeviceStarted
  <2>2. /\ w = [device |-> w.device, module |-> w.module, type |-> w.type]
        /\ w.device = [id |-> attributes.id, name |-> <<>>, display |-> attributes.name, vendor |-> <<>>, modules |-> <<>>]
        /\ w.module = temp.module /\ w.type = temp.type
    BY <1>4, <2>1 DEF Info!NewDevice
  <2>3. DeviceStep(d, n, temp.device, w.device)
    BY <1>3, <1>8, <1>10, <2>2 DEF DeviceStep
  <2>4. ModuleStep(d, n, temp.module, w.module)
    BY <1>4, <1>8, <1>9, <1>10, <2>2, Zenon DEF ModuleStep
  <2>5. TypeStep(d, n, temp.type, w.type)
    BY <1>4, <1>8, <1>9, <1>10, <2>2, Zenon DEF TypeStep
  <2> QED
    BY <1>1, <1>3, <2>2, <2>3, <2>4, <2>5, Zenon DEF TempStep
<1>11. CASE open \in Info!ModulePath
  <2>1. w = [temp EXCEPT !.module = Info!NewModule(attributes.id, open[4], attributes.type, attributes.unavailable)]
    BY <1>3, <1>7, <1>9, <1>11, Zenon DEF Info!Started, Info!ModuleStarted
  <2>2. open[4] = d.events[n].name
    <3>1. PICK name \in S : name = d.events[n].name
      BY <1>1, EventsAre
    <3>2. open = Append(above, name)
      BY <1>2, <3>1 DEF OpenStep
    <3>3. Len(open) = 4
      BY <1>2, <1>11, PathsApart
    <3> QED
      BY <1>2, <3>1, <3>2, <3>3, AppendProperties
  <2>3. /\ w = [device |-> w.device, module |-> w.module, type |-> w.type]
        /\ w.module = [id |-> attributes.id, class |-> d.events[n].name, type |-> attributes.type, name |-> <<>>,
                       group |-> <<>>, unavailable |-> attributes.unavailable, default |-> <<>>]
        /\ w.device = temp.device /\ w.type = temp.type
    BY <1>4, <2>1, <2>2 DEF Info!NewModule
  <2>4. ModuleStep(d, n, temp.module, w.module)
    BY <1>3, <1>8, <1>11, <2>3 DEF ModuleStep
  <2>5. DeviceStep(d, n, temp.device, w.device)
    BY <1>4, <1>8, <1>9, <1>11, <2>3, Zenon DEF DeviceStep
  <2>6. TypeStep(d, n, temp.type, w.type)
    BY <1>4, <1>8, <1>9, <1>11, <2>3, Zenon DEF TypeStep
  <2> QED
    BY <1>1, <1>3, <2>3, <2>4, <2>5, <2>6, Zenon DEF TempStep
<1>12. CASE open \in Info!TypePath
  <2>1. w = [temp EXCEPT !.type = Info!NewType(attributes.id)]
    BY <1>3, <1>7, <1>9, <1>12, Zenon DEF Info!Started
  <2>2. /\ w = [device |-> w.device, module |-> w.module, type |-> w.type]
        /\ w.type = [id |-> attributes.id, name |-> <<>>, unit |-> <<>>, ctype |-> <<"int">>, width |-> 1]
        /\ w.module = temp.module /\ w.device = temp.device
    BY <1>4, <2>1 DEF Info!NewType
  <2>3. TypeStep(d, n, temp.type, w.type)
    BY <1>3, <1>8, <1>12, <2>2 DEF TypeStep
  <2>4. ModuleStep(d, n, temp.module, w.module)
    BY <1>4, <1>8, <1>9, <1>12, <2>2, Zenon DEF ModuleStep
  <2>5. DeviceStep(d, n, temp.device, w.device)
    BY <1>4, <1>8, <1>9, <1>12, <2>2, Zenon DEF DeviceStep
  <2> QED
    BY <1>1, <1>3, <2>2, <2>3, <2>4, <2>5, Zenon DEF TempStep
<1>13. CASE open \in Info!TypePaths("var")
  <2>1. w = [temp EXCEPT !.type.width = attributes.size]
    BY <1>3, <1>7, <1>9, <1>13, Zenon DEF Info!Started
  <2>2. /\ w = [device |-> w.device, module |-> w.module, type |-> w.type]
        /\ w.type = [id |-> temp.type.id, name |-> temp.type.name, unit |-> temp.type.unit,
                     ctype |-> temp.type.ctype, width |-> attributes.size]
        /\ w.module = temp.module /\ w.device = temp.device
    BY <1>4, <2>1
  <2>3. TypeStep(d, n, temp.type, w.type)
    <3>1. n \notin Info!Begins(d, Info!TypePath) /\ n \in Info!Begins(d, Info!TypePaths("var"))
      BY <1>8, <1>9, <1>13
    <3> QED
      BY <1>3, <1>8, <2>2, <3>1 DEF TypeStep
  <2>4. ModuleStep(d, n, temp.module, w.module)
    BY <1>4, <1>8, <1>9, <1>13, <2>2, Zenon DEF ModuleStep
  <2>5. DeviceStep(d, n, temp.device, w.device)
    BY <1>4, <1>8, <1>9, <1>13, <2>2, Zenon DEF DeviceStep
  <2> QED
    BY <1>1, <1>3, <2>2, <2>3, <2>4, <2>5, Zenon DEF TempStep
<1>14. CASE open \notin Info!DevicePath \cup Info!ModulePath \cup Info!TypePath \cup Info!TypePaths("var")
  <2>1. w = temp
    BY <1>3, <1>7, <1>14, Zenon DEF Info!Started
  <2>2. /\ n \notin Info!Begins(d, Info!DevicePath) /\ n \notin Info!Begins(d, Info!ModulePath)
        /\ n \notin Info!Begins(d, Info!TypePath) /\ n \notin Info!Begins(d, Info!TypePaths("var"))
    BY <1>8, <1>14
  <2>3. DeviceStep(d, n, temp.device, w.device)
    BY <1>4, <1>8, <2>1, <2>2, Zenon DEF DeviceStep
  <2>4. ModuleStep(d, n, temp.module, w.module)
    BY <1>4, <1>8, <2>1, <2>2, Zenon DEF ModuleStep
  <2>5. TypeStep(d, n, temp.type, w.type)
    BY <1>4, <1>8, <2>1, <2>2, Zenon DEF TypeStep
  <2> QED
    BY <1>1, <1>3, <1>4, <2>1, <2>3, <2>4, <2>5, Zenon DEF TempStep
<1> QED
  BY <1>10, <1>11, <1>12, <1>13, <1>14

(* What has ended is what is known of it. *)
LEMMA ModuleEnded ==
  ASSUME NEW d \in Documents, NEW n \in 1..Len(d.events), d.events[n].event = "end", OnPath(d, n - 1),
         Info!OpenAfter(d)[n - 1] \in Info!ModulePath, NEW v, ModuleIs(d, n - 1, v)
  PROVE  v = Info!ModuleOf(d, n)
<1>1. PICK S, above, begins : /\ S = NamesIn(d) /\ above = Info!OpenAfter(d)[n - 1]
                              /\ begins = Info!Begins(d, Info!ModulePath)
  OBVIOUS
<1>2. above \in Seq(S) /\ above \in Info!ModulePath
  BY <1>1, OpenGoesOn
<1>3. PICK size \in Nat : size = Len(above)
  BY <1>2, LenProperties
<1>4. size = 4 /\ above # <<>>
  <2>1. size = 4
    BY <1>2, <1>3, PathsApart
  <2>2. above = <<>> <=> size = 0
    BY <1>2, <1>3, EmptySeq
  <2>3. 4 # 0
    OBVIOUS
  <2> QED
    BY <2>1, <2>2, <2>3
<1>5. \A paths : n \notin Info!Begins(d, paths) /\ (n \in Info!Ends(d, paths) <=> above \in paths)
  BY <1>1, PlacesOfEvent
<1>6. /\ above \notin Info!ModulePaths("name") /\ above \notin Info!ModulePaths("group")
      /\ above \notin Info!ModulePaths("default")
  <2>1. /\ above \in Info!ModulePaths("name") => size = 5
        /\ above \in Info!ModulePaths("group") => size = 5
        /\ above \in Info!ModulePaths("default") => size = 5
    BY <1>2, <1>3, PathsApart
  <2>2. 4 # 5
    OBVIOUS
  <2> QED
    BY <1>4, <2>1, <2>2, Zenon
<1>7. v = [id |-> v.id, class |-> v.class, type |-> v.type, name |-> v.name, group |-> v.group,
           unavailable |-> v.unavailable, default |-> v.default]
  BY Zenon DEF ModuleIs
<1>8. ModuleStep(d, n, v, v)
  BY <1>5, <1>6, <1>7, Zenon DEF ModuleStep
<1>9. ModuleIs(d, n, v)
  BY <1>8, ModuleGoesOn
<1>10. Info!Latest(begins, n) # 0
  <2>1. n - 1 \in 0..Len(d.events)
    BY EventsAre
  <2>2. Info!Latest(begins, n - 1) # 0
    BY <1>1, <1>2, <1>4, <2>1, Begun
  <2>3. n \notin begins
    BY <1>1, <1>5
  <2> QED
    BY <2>2, <2>3, LatestSteps
<1>11. /\ v.id = d.events[Info!Latest(begins, n)].attributes.id
       /\ v.class = d.events[Info!Latest(begins, n)].name
       /\ v.type = d.events[Info!Latest(begins, n)].attributes.type
       /\ v.unavailable = d.events[Info!Latest(begins, n)].attributes.unavailable
       /\ v.name = Info!ContentOf(d, Info!ModulePaths("name"), Info!ModulePath, n)
       /\ v.group = Info!ContentOf(d, Info!ModulePaths("group"), Info!ModulePath, n)
       /\ v.default = Info!ContentOf(d, Info!ModulePaths("default"), Info!ModulePath, n)
  BY <1>1, <1>9, <1>10, Zenon DEF ModuleIs
<1> QED
  BY <1>1, <1>7, <1>11, Zenon DEF Info!ModuleOf

LEMMA DeviceEnded ==
  ASSUME NEW d \in Documents, NEW n \in 1..Len(d.events), d.events[n].event = "end", OnPath(d, n - 1),
         Info!OpenAfter(d)[n - 1] \in Info!DevicePath, NEW v, DeviceIs(d, n - 1, v)
  PROVE  v = Info!DeviceOf(d, n)
<1>1. PICK S, above, begins : /\ S = NamesIn(d) /\ above = Info!OpenAfter(d)[n - 1]
                              /\ begins = Info!Begins(d, Info!DevicePath)
  OBVIOUS
<1>2. above \in Seq(S) /\ above \in Info!DevicePath
  BY <1>1, OpenGoesOn
<1>3. PICK size \in Nat : size = Len(above)
  BY <1>2, LenProperties
<1>4. size = 2 /\ above # <<>>
  <2>1. size = 2
    BY <1>2, <1>3, PathsApart
  <2>2. above = <<>> <=> size = 0
    BY <1>2, <1>3, EmptySeq
  <2>3. 2 # 0
    OBVIOUS
  <2> QED
    BY <2>1, <2>2, <2>3
<1>5. \A paths : n \notin Info!Begins(d, paths) /\ (n \in Info!Ends(d, paths) <=> above \in paths)
  BY <1>1, PlacesOfEvent
<1>6. /\ above \notin Info!DevicePaths("name") /\ above \notin Info!DevicePaths("manufacturer")
      /\ above \notin Info!ModulePath
  <2>1. /\ above \in Info!DevicePaths("name") => size = 3
        /\ above \in Info!DevicePaths("manufacturer") => size = 3
        /\ above \in Info!ModulePath => size = 4
    BY <1>2, <1>3, PathsApart
  <2>2. 2 # 3 /\ 2 # 4
    OBVIOUS
  <2> QED
    BY <1>4, <2>1, <2>2, Zenon
<1>7. v = [id |-> v.id, name |-> v.name, display |-> v.display, vendor |-> v.vendor, modules |-> v.modules]
  BY Zenon DEF DeviceIs
<1>8. DeviceStep(d, n, v, v)
  BY <1>5, <1>6, <1>7, Zenon DEF DeviceStep
<1>9. DeviceIs(d, n, v)
  BY <1>8, DeviceGoesOn
<1>10. Info!Latest(begins, n) # 0
  <2>1. n - 1 \in 0..Len(d.events)
    BY EventsAre
  <2>2. Info!Latest(begins, n - 1) # 0
    BY <1>1, <1>2, <1>4, <2>1, Begun
  <2>3. n \notin begins
    BY <1>1, <1>5
  <2> QED
    BY <2>2, <2>3, LatestSteps
<1>11. /\ v.id = d.events[Info!Latest(begins, n)].attributes.id
       /\ v.display = d.events[Info!Latest(begins, n)].attributes.name
       /\ v.name = Info!ContentOf(d, Info!DevicePaths("name"), Info!DevicePath, n)
       /\ v.vendor = Info!ContentOf(d, Info!DevicePaths("manufacturer"), Info!DevicePath, n)
       /\ v.modules = Info!ModulesAfter(d)[n]
  BY <1>1, <1>9, <1>10, Zenon DEF DeviceIs
<1> QED
  BY <1>1, <1>7, <1>11, Zenon DEF Info!DeviceOf

LEMMA TypeEnded ==
  ASSUME NEW d \in Documents, NEW n \in 1..Len(d.events), d.events[n].event = "end", OnPath(d, n - 1),
         Info!OpenAfter(d)[n - 1] \in Info!TypePath, NEW v, TypeIs(d, n - 1, v)
  PROVE  v = Info!TypeOf(d, n)
<1>1. PICK S, above, begins : /\ S = NamesIn(d) /\ above = Info!OpenAfter(d)[n - 1]
                              /\ begins = Info!Begins(d, Info!TypePath)
  OBVIOUS
<1>2. above \in Seq(S) /\ above \in Info!TypePath
  BY <1>1, OpenGoesOn
<1>3. PICK size \in Nat : size = Len(above)
  BY <1>2, LenProperties
<1>4. size = 2 /\ above # <<>>
  <2>1. size = 2
    BY <1>2, <1>3, PathsApart
  <2>2. above = <<>> <=> size = 0
    BY <1>2, <1>3, EmptySeq
  <2>3. 2 # 0
    OBVIOUS
  <2> QED
    BY <2>1, <2>2, <2>3
<1>5. \A paths : n \notin Info!Begins(d, paths) /\ (n \in Info!Ends(d, paths) <=> above \in paths)
  BY <1>1, PlacesOfEvent
<1>6. /\ above \notin Info!TypePaths("name") /\ above \notin Info!TypePaths("unit")
      /\ above \notin Info!TypePaths("var")
  <2>1. /\ above \in Info!TypePaths("name") => size = 3
        /\ above \in Info!TypePaths("unit") => size = 3
        /\ above \in Info!TypePaths("var") => size = 3
    BY <1>2, <1>3, PathsApart
  <2>2. 2 # 3
    OBVIOUS
  <2> QED
    BY <1>4, <2>1, <2>2, Zenon
<1>7. v = [id |-> v.id, name |-> v.name, unit |-> v.unit, ctype |-> v.ctype, width |-> v.width]
  BY Zenon DEF TypeIs
<1>8. TypeStep(d, n, v, v)
  BY <1>5, <1>6, <1>7, Zenon DEF TypeStep
<1>9. TypeIs(d, n, v)
  BY <1>8, TypeGoesOn
<1>10. Info!Latest(begins, n) # 0
  <2>1. n - 1 \in 0..Len(d.events)
    BY EventsAre
  <2>2. Info!Latest(begins, n - 1) # 0
    BY <1>1, <1>2, <1>4, <2>1, Begun
  <2>3. n \notin begins
    BY <1>1, <1>5
  <2> QED
    BY <2>2, <2>3, LatestSteps
<1>11. /\ v.id = d.events[Info!Latest(begins, n)].attributes.id
       /\ v.name = Info!ContentOf(d, Info!TypePaths("name"), Info!TypePath, n)
       /\ v.unit = Info!ContentOf(d, Info!TypePaths("unit"), Info!TypePath, n)
       /\ v.ctype = IF Info!EndedIn(d, Info!TypePaths("var"), Info!TypePath, n)
                    THEN Info!SetCType(Info!ContentOf(d, Info!TypePaths("var"), Info!TypePath, n)) ELSE <<"int">>
       /\ v.width = IF Info!Latest(Info!Begins(d, Info!TypePaths("var")), n) > Info!Latest(begins, n)
                    THEN d.events[Info!Latest(Info!Begins(d, Info!TypePaths("var")), n)].attributes.size ELSE 1
  BY <1>1, <1>9, <1>10, Zenon DEF TypeIs
<1> QED
  BY <1>1, <1>7, <1>11, Zenon DEF Info!TypeOf

(* The content of an element that has no elements. *)
LeafIs(d, n, p) ==
  p # <<>> /\ Info!ExpectElement(d.kind, Info!OpenAfter(d)[n]) = {} => Info!Last(p).content = Info!PiecesAfter(d)[n]

(* The tests of endElement() ask for the places of the path. *)
LEMMA TestsAre ==
  ASSUME NEW d \in Documents, NEW n \in 1..Len(d.events), OnPath(d, n - 1), NEW above,
         above = Info!OpenAfter(d)[n - 1], NamesOf(path) = above
  PROVE  /\ Info!InModule(<<"name">>) <=> above \in Info!ModulePaths("name")
         /\ Info!InModule(<<"default">>) <=> above \in Info!ModulePaths("default")
         /\ Info!InModule(<<"group">>) <=> above \in Info!ModulePaths("group")
         /\ Info!InModule(<<>>) <=> above \in Info!ModulePath
         /\ Info!IsPath(<<"devices", "device", "name">>) <=> above \in Info!DevicePaths("name")
         /\ Info!IsPath(<<"devices", "device", "manufacturer">>) <=> above \in Info!DevicePaths("manufacturer")
         /\ Info!IsPath(<<"types", "type", "name">>) <=> above \in Info!TypePaths("name")
         /\ Info!IsPath(<<"types", "type", "var">>) <=> above \in Info!TypePaths("var")
         /\ Info!IsPath(<<"types", "type", "unit">>) <=> above \in Info!TypePaths("unit")
         /\ Info!IsPath(<<"devices", "device">>) <=> above \in Info!DevicePath
         /\ Info!IsPath(<<"types", "type">>) <=> above \in Info!TypePath
<1>1. PICK S : S = NamesIn(d)
  OBVIOUS
<1>2. above \in Seq(S) /\ Info!Names = above
  BY <1>1, OpenGoesOn DEF Info!Names, NamesOf
<1>3. n - 1 \in 0..Len(d.events)
  BY EventsAre
<1>4. BelowModules(above) /\ Len(above) >= 4 => above[4] \in Classes
  BY <1>3, ClassAlways
<1>5. ASSUME NEW name
      PROVE  /\ PlaceIn(above, <<>>) <=> above \in Info!ModulePath
             /\ PlaceIn(above, <<name>>) <=> above \in Info!ModulePaths(name)
  BY <1>2, <1>4, PlacesAre
<1>6. /\ Info!InModule(<<"name">>) <=> above \in Info!ModulePaths("name")
      /\ Info!InModule(<<"default">>) <=> above \in Info!ModulePaths("default")
      /\ Info!InModule(<<"group">>) <=> above \in Info!ModulePaths("group")
      /\ Info!InModule(<<>>) <=> above \in Info!ModulePath
  BY <1>2, <1>5, Zenon DEF Info!InModule, PlaceIn
<1>7. /\ Info!IsPath(<<"devices", "device", "name">>) <=> above \in Info!DevicePaths("name")
      /\ Info!IsPath(<<"devices", "device", "manufacturer">>) <=> above \in Info!DevicePaths("manufacturer")
      /\ Info!IsPath(<<"types", "type", "name">>) <=> above \in Info!TypePaths("name")
      /\ Info!IsPath(<<"types", "type", "var">>) <=> above \in Info!TypePaths("var")
      /\ Info!IsPath(<<"types", "type", "unit">>) <=> above \in Info!TypePaths("unit")
      /\ Info!IsPath(<<"devices", "device">>) <=> above \in Info!DevicePath
      /\ Info!IsPath(<<"types", "type">>) <=> above \in Info!TypePath
  BY <1>2 DEF Info!IsPath, Info!DevicePaths, Info!TypePaths, Info!DevicePath, Info!TypePath
<1> QED
  BY <1>6, <1>7, Zenon

(* endElement() puts content where the path says. *)
LEMMA FilledStep ==
  ASSUME NEW d \in Documents, NEW n \in 1..Len(d.events), d.events[n].event = "end", OnPath(d, n - 1),
         TempIs(d, n - 1, temp), NamesOf(path) = Info!OpenAfter(d)[n - 1], LeafIs(d, n - 1, path), path # <<>>
  PROVE  TempStep(d, n, temp, Info!Filled)
<1>1. PICK S, above, pieces : /\ S = NamesIn(d) /\ above = Info!OpenAfter(d)[n - 1]
                              /\ pieces = Info!PiecesAfter(d)[n - 1]
  OBVIOUS
<1>2. above \in Seq(S) /\ Info!Names = above
  BY <1>1, OpenGoesOn DEF Info!Names, NamesOf
<1>3. PICK w, content : w = Info!Filled /\ content = Info!Content
  OBVIOUS
<1>4. /\ temp = [device |-> temp.device, module |-> temp.module, type |-> temp.type]
      /\ temp.device = [id |-> temp.device.id, name |-> temp.device.name, display |-> temp.device.display,
                        vendor |-> temp.device.vendor, modules |-> temp.device.modules]
      /\ temp.module = [id |-> temp.module.id, class |-> temp.module.class, type |-> temp.module.type,
                        name |-> temp.module.name, group |-> temp.module.group,
                        unavailable |-> temp.module.unavailable, default |-> temp.module.default]
      /\ temp.type = [id |-> temp.type.id, name |-> temp.type.name, unit |-> temp.type.unit,
                      ctype |-> temp.type.ctype, width |-> temp.type.width]
  BY Zenon DEF TempIs, DeviceIs, ModuleIs, TypeIs
<1>5. /\ Info!InModule(<<"name">>) <=> above \in Info!ModulePaths("name")
      /\ Info!InModule(<<"default">>) <=> above \in Info!ModulePaths("default")
      /\ Info!InModule(<<"group">>) <=> above \in Info!ModulePaths("group")
      /\ Info!InModule(<<>>) <=> above \in Info!ModulePath
  BY <1>1, TestsAre, Zenon
<1>6. /\ Info!IsPath(<<"devices", "device", "name">>) <=> above \in Info!DevicePaths("name")
      /\ Info!IsPath(<<"devices", "device", "manufacturer">>) <=> above \in Info!DevicePaths("manufacturer")
      /\ Info!IsPath(<<"types", "type", "name">>) <=> above \in Info!TypePaths("name")
      /\ Info!IsPath(<<"types", "type", "var">>) <=> above \in Info!TypePaths("var")
      /\ Info!IsPath(<<"types", "type", "unit">>) <=> above \in Info!TypePaths("unit")
  BY <1>1, TestsAre, Zenon
<1>7. \A paths : n \notin Info!Begins(d, paths) /\ (n \in Info!Ends(d, paths) <=> above \in paths)
  BY <1>1, PlacesOfEvent
<1>8. PICK size \in Nat : size = Len(above)
  BY <1>2, LenProperties
<1>9. /\ above \in Info!ModulePaths("name") => size = 5 /\ above[5] = "name"
      /\ above \in Info!ModulePaths("default") => size = 5 /\ above[5] = "default"
      /\ above \in Info!ModulePaths("group") => size = 5 /\ above[5] = "group"
      /\ above \in Info!ModulePath => size = 4
      /\ above \in Info!DevicePaths("name") => size = 3 /\ above[1] = "devices" /\ above[3] = "name"
      /\ above \in Info!DevicePaths("manufacturer") => size = 3 /\ above[1] = "devices" /\ above[3] = "manufacturer"
      /\ above \in Info!TypePaths("name") => size = 3 /\ above[1] = "types" /\ above[3] = "name"
      /\ above \in Info!TypePaths("var") => size = 3 /\ above[1] = "types" /\ above[3] = "var"
      /\ above \in Info!TypePaths("unit") => size = 3 /\ above[1] = "types" /\ above[3] = "unit"
  BY <1>2, <1>8, PathsApart
<1>10. /\ 3 # 4 /\ 3 # 5 /\ 4 # 5 /\ "devices" # "types" /\ "name" # "default" /\ "name" # "group" /\ "default" # "group"
       /\ "name" # "manufacturer" /\ "name" # "var" /\ "name" # "unit" /\ "var" # "unit"
  OBVIOUS
<1>11. above \in Info!DevicePaths("name") \cup Info!DevicePaths("manufacturer")
         \cup (Info!ModulePaths("name") \cup Info!ModulePaths("group") \cup Info!ModulePaths("default"))
         \cup (Info!TypePaths("name") \cup Info!TypePaths("unit") \cup Info!TypePaths("var"))
       => content = pieces
  <2>1. ASSUME \/ above \in Info!DevicePaths("name") \cup Info!DevicePaths("manufacturer")
               \/ above \in Info!ModulePaths("name") \cup Info!ModulePaths("group") \cup Info!ModulePaths("default")
               \/ above \in Info!TypePaths("name") \cup Info!TypePaths("unit") \cup Info!TypePaths("var")
        PROVE  content = pieces
    <3>1. Info!ExpectElement(d.kind, above) = {}
      BY <1>2, <2>1, LeavesAre
    <3> QED
      BY <1>1, <1>3, <3>1 DEF LeafIs, Info!Content
  <2> QED
    BY <2>1
<1>12. CASE above \in Info!ModulePaths("name")
  <2>1. /\ above \notin Info!ModulePaths("default")
        /\ above \notin Info!ModulePaths("group")
        /\ above \notin Info!ModulePath
        /\ above \notin Info!DevicePaths("name")
        /\ above \notin Info!DevicePaths("manufacturer")
        /\ above \notin Info!TypePaths("name")
        /\ above \notin Info!TypePaths("var")
        /\ above \notin Info!TypePaths("unit")
    BY <1>9, <1>10, <1>12, Zenon
  <2>2. content = pieces
    BY <1>11, <1>12
  <2>3. w = [temp EXCEPT !.module.name = content]
    BY <1>3, <1>5, <1>6, <1>12, <2>1, Zenon DEF Info!Filled
  <2>4. /\ w = [device |-> w.device, module |-> w.module, type |-> w.type]
        /\ w.module = [id |-> temp.module.id, class |-> temp.module.class, type |-> temp.module.type, name |-> content, group |-> temp.module.group, unavailable |-> temp.module.unavailable, default |-> temp.module.default]
        /\ w.device = temp.device /\ w.type = temp.type
    BY <1>4, <2>3
  <2>5. ModuleStep(d, n, temp.module, w.module)
    BY <1>1, <1>7, <1>12, <2>1, <2>2, <2>4 DEF ModuleStep
  <2>6. DeviceStep(d, n, temp.device, w.device)
    BY <1>4, <1>7, <2>1, <2>4, Zenon DEF DeviceStep
  <2>7. TypeStep(d, n, temp.type, w.type)
    BY <1>4, <1>7, <2>1, <2>4, Zenon DEF TypeStep
  <2> QED
    BY <1>3, <2>4, <2>5, <2>6, <2>7, Zenon DEF TempStep
<1>13. CASE above \in Info!ModulePaths("default")
  <2>1. /\ above \notin Info!ModulePaths("name")
        /\ above \notin Info!ModulePaths("group")
        /\ above \notin Info!ModulePath
        /\ above \notin Info!DevicePaths("name")
        /\ above \notin Info!DevicePaths("manufacturer")
        /\ above \notin Info!TypePaths("name")
        /\ above \notin Info!TypePaths("var")
        /\ above \notin Info!TypePaths("unit")
    BY <1>9, <1>10, <1>13, Zenon
  <2>2. content = pieces
    BY <1>11, <1>13
  <2>3. w = [temp EXCEPT !.module.default = content]
    BY <1>3, <1>5, <1>6, <1>13, <2>1, Zenon DEF Info!Filled
  <2>4. /\ w = [device |-> w.device, module |-> w.module, type |-> w.type]
        /\ w.module = [id |-> temp.module.id, class |-> temp.module.class, type |-> temp.module.type, name |-> temp.module.name, group |-> temp.module.group, unavailable |-> temp.module.unavailable, default |-> content]
        /\ w.device = temp.device /\ w.type = temp.type
    BY <1>4, <2>3
  <2>5. ModuleStep(d, n, temp.module, w.module)
    BY <1>1, <1>7, <1>13, <2>1, <2>2, <2>4 DEF ModuleStep
  <2>6. DeviceStep(d, n, temp.device, w.device)
    BY <1>4, <1>7, <2>1, <2>4, Zenon DEF DeviceStep
  <2>7. TypeStep(d, n, temp.type, w.type)
    BY <1>4, <1>7, <2>1, <2>4, Zenon DEF TypeStep
  <2> QED
    BY <1>3, <2>4, <2>5, <2>6, <2>7, Zenon DEF TempStep
<1>14. CASE above \in Info!ModulePaths("group")
  <2>1. /\ above \notin Info!ModulePaths("name")
        /\ above \notin Info!ModulePaths("default")
        /\ above \notin Info!ModulePath
        /\ above \notin Info!DevicePaths("name")
        /\ above \notin Info!DevicePaths("manufacturer")
        /\ above \notin Info!TypePaths("name")
        /\ above \notin Info!TypePaths("var")
        /\ above \notin Info!TypePaths("unit")
    BY <1>9, <1>10, <1>14, Zenon
  <2>2. content = pieces
    BY <1>11, <1>14
  <2>3. w = [temp EXCEPT !.module.group = content]
    BY <1>3, <1>5, <1>6, <1>14, <2>1, Zenon DEF Info!Filled
  <2>4. /\ w = [device |-> w.device, module |-> w.module, type |-> w.type]
        /\ w.module = [id |-> temp.module.id, class |-> temp.module.class, type |-> temp.module.type, name |-> temp.module.name, group |-> content, unavailable |-> temp.module.unavailable, default |-> temp.module.default]
        /\ w.device = temp.device /\ w.type = temp.type
    BY <1>4, <2>3
  <2>5. ModuleStep(d, n, temp.module, w.module)
    BY <1>1, <1>7, <1>14, <2>1, <2>2, <2>4 DEF ModuleStep
  <2>6. DeviceStep(d, n, temp.device, w.device)
    BY <1>4, <1>7, <2>1, <2>4, Zenon DEF DeviceStep
  <2>7. TypeStep(d, n, temp.type, w.type)
    BY <1>4, <1>7, <2>1, <2>4, Zenon DEF TypeStep
  <2> QED
    BY <1>3, <2>4, <2>5, <2>6, <2>7, Zenon DEF TempStep
<1>15. CASE above \in Info!ModulePath
  <2>1. /\ above \notin Info!ModulePaths("name")
        /\ above \notin Info!ModulePaths("default")
        /\ above \notin Info!ModulePaths("group")
        /\ above \notin Info!DevicePaths("name")
        /\ above \notin Info!DevicePaths("manufacturer")
        /\ above \notin Info!TypePaths("name")
        /\ above \notin Info!TypePaths("var")
        /\ above \notin Info!TypePaths("unit")
    BY <1>9, <1>10, <1>15, Zenon
  <2>2. temp.module = Info!ModuleOf(d, n)
    <3>1. ModuleIs(d, n - 1, temp.module)
      BY DEF TempIs
    <3> QED
      BY <1>1, <1>15, <3>1, ModuleEnded
  <2>3. w = [temp EXCEPT !.device.modules = Append(@, temp.module)]
    BY <1>3, <1>5, <1>6, <1>15, <2>1, Zenon DEF Info!Filled
  <2>4. /\ w = [device |-> w.device, module |-> w.module, type |-> w.type]
        /\ w.device = [id |-> temp.device.id, name |-> temp.device.name, display |-> temp.device.display, vendor |-> temp.device.vendor, modules |-> Append(temp.device.modules, temp.module)]
        /\ w.module = temp.module /\ w.type = temp.type
    BY <1>4, <2>3
  <2>5. DeviceStep(d, n, temp.device, w.device)
    BY <1>1, <1>7, <1>15, <2>1, <2>2, <2>4 DEF DeviceStep
  <2>6. ModuleStep(d, n, temp.module, w.module)
    BY <1>4, <1>7, <2>1, <2>4, Zenon DEF ModuleStep
  <2>7. TypeStep(d, n, temp.type, w.type)
    BY <1>4, <1>7, <2>1, <2>4, Zenon DEF TypeStep
  <2> QED
    BY <1>3, <2>4, <2>5, <2>6, <2>7, Zenon DEF TempStep
<1>16. CASE above \in Info!DevicePaths("name")
  <2>1. /\ above \notin Info!ModulePaths("name")
        /\ above \notin Info!ModulePaths("default")
        /\ above \notin Info!ModulePaths("group")
        /\ above \notin Info!ModulePath
        /\ above \notin Info!DevicePaths("manufacturer")
        /\ above \notin Info!TypePaths("name")
        /\ above \notin Info!TypePaths("var")
        /\ above \notin Info!TypePaths("unit")
    BY <1>9, <1>10, <1>16, Zenon
  <2>2. content = pieces
    BY <1>11, <1>16
  <2>3. w = [temp EXCEPT !.device.name = content]
    BY <1>3, <1>5, <1>6, <1>16, <2>1, Zenon DEF Info!Filled
  <2>4. /\ w = [device |-> w.device, module |-> w.module, type |-> w.type]
        /\ w.device = [id |-> temp.device.id, name |-> content, display |-> temp.device.display, vendor |-> temp.device.vendor, modules |-> temp.device.modules]
        /\ w.module = temp.module /\ w.type = temp.type
    BY <1>4, <2>3
  <2>5. DeviceStep(d, n, temp.device, w.device)
    BY <1>1, <1>7, <1>16, <2>1, <2>2, <2>4 DEF DeviceStep
  <2>6. ModuleStep(d, n, temp.module, w.module)
    BY <1>4, <1>7, <2>1, <2>4, Zenon DEF ModuleStep
  <2>7. TypeStep(d, n, temp.type, w.type)
    BY <1>4, <1>7, <2>1, <2>4, Zenon DEF TypeStep
  <2> QED
    BY <1>3, <2>4, <2>5, <2>6, <2>7, Zenon DEF TempStep
<1>17. CASE above \in Info!DevicePaths("manufacturer")
  <2>1. /\ above \notin Info!ModulePaths("name")
        /\ above \notin Info!ModulePaths("default")
        /\ above \notin Info!ModulePaths("group")
        /\ above \notin Info!ModulePath
        /\ above \notin Info!DevicePaths("name")
        /\ above \notin Info!TypePaths("name")
        /\ above \notin Info!TypePaths("var")
        /\ above \notin Info!TypePaths("unit")
    BY <1>9, <1>10, <1>17, Zenon
  <2>2. content = pieces
    BY <1>11, <1>17
  <2>3. w = [temp EXCEPT !.device.vendor = content]
    BY <1>3, <1>5, <1>6, <1>17, <2>1, Zenon DEF Info!Filled
  <2>4. /\ w = [device |-> w.device, module |-> w.module, type |-> w.type]
        /\ w.device = [id |-> temp.device.id, name |-> temp.device.name, display |-> temp.device.display, vendor |-> content, modules |-> temp.device.modules]
        /\ w.module = temp.module /\ w.type = temp.type
    BY <1>4, <2>3
  <2>5. DeviceStep(d, n, temp.device, w.device)
    BY <1>1, <1>7, <1>17, <2>1, <2>2, <2>4 DEF DeviceStep
  <2>6. ModuleStep(d, n, temp.module, w.module)
    BY <1>4, <1>7, <2>1, <2>4, Zenon DEF ModuleStep
  <2>7. TypeStep(d, n, temp.type, w.type)
    BY <1>4, <1>7, <2>1, <2>4, Zenon DEF TypeStep
  <2> QED
    BY <1>3, <2>4, <2>5, <2>6, <2>7, Zenon DEF TempStep
<1>18. CASE above \in Info!TypePaths("name")
  <2>1. /\ above \notin Info!ModulePaths("name")
        /\ above \notin Info!ModulePaths("default")
        /\ above \notin Info!ModulePaths("group")
        /\ above \notin Info!ModulePath
        /\ above \notin Info!DevicePaths("name")
        /\ above \notin Info!DevicePaths("manufacturer")
        /\ above \notin Info!TypePaths("var")
        /\ above \notin Info!TypePaths("unit")
    BY <1>9, <1>10, <1>18, Zenon
  <2>2. content = pieces
    BY <1>11, <1>18
  <2>3. w = [temp EXCEPT !.type.name = content]
    BY <1>3, <1>5, <1>6, <1>18, <2>1, Zenon DEF Info!Filled
  <2>4. /\ w = [device |-> w.device, module |-> w.module, type |-> w.type]
        /\ w.type = [id |-> temp.type.id, name |-> content, unit |-> temp.type.unit, ctype |-> temp.type.ctype, width |-> temp.type.width]
        /\ w.device = temp.device /\ w.module = temp.module
    BY <1>4, <2>3
  <2>5. TypeStep(d, n, temp.type, w.type)
    BY <1>1, <1>7, <1>18, <2>1, <2>2, <2>4 DEF TypeStep
  <2>6. DeviceStep(d, n, temp.device, w.device)
    BY <1>4, <1>7, <2>1, <2>4, Zenon DEF DeviceStep
  <2>7. ModuleStep(d, n, temp.module, w.module)
    BY <1>4, <1>7, <2>1, <2>4, Zenon DEF ModuleStep
  <2> QED
    BY <1>3, <2>4, <2>5, <2>6, <2>7, Zenon DEF TempStep
<1>19. CASE above \in Info!TypePaths("var")
  <2>1. /\ above \notin Info!ModulePaths("name")
        /\ above \notin Info!ModulePaths("default")
        /\ above \notin Info!ModulePaths("group")
        /\ above \notin Info!ModulePath
        /\ above \notin Info!DevicePaths("name")
        /\ above \notin Info!DevicePaths("manufacturer")
        /\ above \notin Info!TypePaths("name")
        /\ above \notin Info!TypePaths("unit")
    BY <1>9, <1>10, <1>19, Zenon
  <2>2. content = pieces
    BY <1>11, <1>19
  <2>3. w = [temp EXCEPT !.type.ctype = Info!SetCType(content)]
    BY <1>3, <1>5, <1>6, <1>19, <2>1, Zenon DEF Info!Filled
  <2>4. /\ w = [device |-> w.device, module |-> w.module, type |-> w.type]
        /\ w.type = [id |-> temp.type.id, name |-> temp.type.name, unit |-> temp.type.unit, ctype |-> Info!SetCType(content), width |-> temp.type.width]
        /\ w.device = temp.device /\ w.module = temp.module
    BY <1>4, <2>3
  <2>5. TypeStep(d, n, temp.type, w.type)
    BY <1>1, <1>7, <1>19, <2>1, <2>2, <2>4 DEF TypeStep
  <2>6. DeviceStep(d, n, temp.device, w.device)
    BY <1>4, <1>7, <2>1, <2>4, Zenon DEF DeviceStep
  <2>7. ModuleStep(d, n, temp.module, w.module)
    BY <1>4, <1>7, <2>1, <2>4, Zenon DEF ModuleStep
  <2> QED
    BY <1>3, <2>4, <2>5, <2>6, <2>7, Zenon DEF TempStep
<1>20. CASE above \in Info!TypePaths("unit")
  <2>1. /\ above \notin Info!ModulePaths("name")
        /\ above \notin Info!ModulePaths("default")
        /\ above \notin Info!ModulePaths("group")
        /\ above \notin Info!ModulePath
        /\ above \notin Info!DevicePaths("name")
        /\ above \notin Info!DevicePaths("manufacturer")
        /\ above \notin Info!TypePaths("name")
        /\ above \notin Info!TypePaths("var")
    BY <1>9, <1>10, <1>20, Zenon
  <2>2. content = pieces
    BY <1>11, <1>20
  <2>3. w = [temp EXCEPT !.type.unit = content]
    BY <1>3, <1>5, <1>6, <1>20, <2>1, Zenon DEF Info!Filled
  <2>4. /\ w = [device |-> w.device, module |-> w.module, type |-> w.type]
        /\ w.type = [id |-> temp.type.id, name |-> temp.type.name, unit |-> content, ctype |-> temp.type.ctype, width |-> temp.type.width]
        /\ w.device = temp.device /\ w.module = temp.module
    BY <1>4, <2>3
  <2>5. TypeStep(d, n, temp.type, w.type)
    BY <1>1, <1>7, <1>20, <2>1, <2>2, <2>4 DEF TypeStep
  <2>6. DeviceStep(d, n, temp.device, w.device)
    BY <1>4, <1>7, <2>1, <2>4, Zenon DEF DeviceStep
  <2>7. ModuleStep(d, n, temp.module, w.module)
    BY <1>4, <1>7, <2>1, <2>4, Zenon DEF ModuleStep
  <2> QED
    BY <1>3, <2>4, <2>5, <2>6, <2>7, Zenon DEF TempStep
<1>21. CASE /\ above \notin Info!ModulePaths("name")
            /\ above \notin Info!ModulePaths("default")
            /\ above \notin Info!ModulePaths("group")
            /\ above \notin Info!ModulePath
            /\ above \notin Info!DevicePaths("name")
            /\ above \notin Info!DevicePaths("manufacturer")
            /\ above \notin Info!TypePaths("name")
            /\ above \notin Info!TypePaths("var")
            /\ above \notin Info!TypePaths("unit")
  <2>1. w = temp
    BY <1>3, <1>5, <1>6, <1>21, Zenon DEF Info!Filled
  <2>2. DeviceStep(d, n, temp.device, w.device)
    BY <1>4, <1>7, <1>21, <2>1, Zenon DEF DeviceStep
  <2>3. ModuleStep(d, n, temp.module, w.module)
    BY <1>4, <1>7, <1>21, <2>1, Zenon DEF ModuleStep
  <2>4. TypeStep(d, n, temp.type, w.type)
    BY <1>4, <1>7, <1>21, <2>1, Zenon DEF TypeStep
  <2> QED
    BY <1>3, <1>4, <2>1, <2>2, <2>3, <2>4, Zenon DEF TempStep
<1> QED
  BY <1>12, <1>13, <1>14, <1>15, <1>16, <1>17, <1>18, <1>19, <1>20, <1>21, Zenon

(* What is complete at an end. *)
LEMMA CompleteIs ==
  ASSUME NEW d \in Documents, NEW n \in 1..Len(d.events), d.events[n].event = "end", OnPath(d, n - 1),
         TempIs(d, n - 1, temp), NamesOf(path) = Info!OpenAfter(d)[n - 1]
  PROVE  Info!Complete = Info!InfoOf(d, n)
<1>1. PICK S, above : S = NamesIn(d) /\ above = Info!OpenAfter(d)[n - 1]
  OBVIOUS
<1>2. above \in Seq(S)
  BY <1>1, OpenGoesOn
<1>3. /\ Info!IsPath(<<"devices", "device">>) <=> above \in Info!DevicePath
      /\ Info!IsPath(<<"types", "type">>) <=> above \in Info!TypePath
  BY <1>1, TestsAre, Zenon
<1>4. \A paths : n \in Info!Ends(d, paths) <=> above \in paths
  BY <1>1, PlacesOfEvent
<1>5. ~(above \in Info!DevicePath /\ above \in Info!TypePath)
  <2>1. /\ above \in Info!DevicePath => above[1] = "devices"
        /\ above \in Info!TypePath => above[1] = "types"
    BY <1>2, PathsApart
  <2> QED
    BY <2>1
<1>6. above \in Info!DevicePath => temp.device = Info!DeviceOf(d, n)
  <2>1. DeviceIs(d, n - 1, temp.device)
    BY DEF TempIs
  <2> QED
    BY <1>1, <2>1, DeviceEnded
<1>7. above \in Info!TypePath => temp.type = Info!TypeOf(d, n)
  <2>1. TypeIs(d, n - 1, temp.type)
    BY DEF TempIs
  <2> QED
    BY <1>1, <2>1, TypeEnded
<1> QED
  BY <1>3, <1>4, <1>5, <1>6, <1>7, Zenon DEF Info!Complete, Info!InfoOf

(* The errors of endElement() are what is not as it should be. *)
LEMMA BadIs ==
  ASSUME NEW d \in Documents, NEW n \in 1..Len(d.events), d.events[n].event = "end", OnPath(d, n - 1),
         TempIs(d, n - 1, temp), NamesOf(path) = Info!OpenAfter(d)[n - 1], LeafIs(d, n - 1, path), path # <<>>,
         infos = Info!InfosAfter(d)[n - 1]
  PROVE  Info!BadElement <=> ~Info!Fine(d, n)
<1>1. PICK S, above : S = NamesIn(d) /\ above = Info!OpenAfter(d)[n - 1]
  OBVIOUS
<1>2. above \in Seq(S)
  BY <1>1, OpenGoesOn
<1>3. /\ Info!InModule(<<>>) <=> above \in Info!ModulePath
      /\ Info!IsPath(<<"types", "type", "var">>) <=> above \in Info!TypePaths("var")
  BY <1>1, TestsAre, Zenon
<1>4. \A paths : n \in Info!Ends(d, paths) <=> above \in paths
  BY <1>1, PlacesOfEvent
<1>5. above \in Info!ModulePath => temp.module = Info!ModuleOf(d, n)
  <2>1. ModuleIs(d, n - 1, temp.module)
    BY DEF TempIs
  <2> QED
    BY <1>1, <2>1, ModuleEnded
<1>6. temp.device.modules = Info!ModulesAfter(d)[n - 1]
  BY Zenon DEF TempIs, DeviceIs
<1>7. above \in Info!TypePaths("var") => Info!Content = Info!PiecesAfter(d)[n - 1]
  <2>1. ASSUME above \in Info!TypePaths("var") PROVE Info!Content = Info!PiecesAfter(d)[n - 1]
    <3>1. Info!ExpectElement(d.kind, above) = {}
      BY <1>2, <2>1, LeavesAre
    <3> QED
      BY <1>1, <3>1 DEF LeafIs, Info!Content
  <2> QED
    BY <2>1
<1>8. Info!Complete = Info!InfoOf(d, n)
  BY CompleteIs
<1>9. Info!Fine(d, n) <=>
        /\ above \in Info!ModulePath => Info!ModuleOf(d, n).id \notin Info!Ids(Info!ModulesAfter(d)[n - 1])
        /\ above \in Info!TypePaths("var") =>
             Info!PiecesAfter(d)[n - 1] \in {<<type>> : type \in DOMAIN Info!CTypes}
        /\ Info!InfoOf(d, n) # <<>> => /\ Info!InfoOf(d, n)[1].name # <<>>
                                       /\ Info!InfoOf(d, n)[1].id \notin Info!Ids(Info!InfosAfter(d)[n - 1])
  <2>1. "end" # "start" /\ "end" # "text"
    OBVIOUS
  <2> QED
    BY <1>4, <2>1, Zenon DEF Info!Fine
<1>10. Info!BadElement <=>
         \/ above \in Info!ModulePath /\ temp.module.id \in Info!Ids(temp.device.modules)
         \/ above \in Info!TypePaths("var") /\ Info!Content \notin {<<type>> : type \in DOMAIN Info!CTypes}
         \/ Info!Complete # <<>> /\ (Info!Complete[1].name = <<>> \/ Info!Complete[1].id \in Info!Ids(infos))
  BY <1>3, Zenon DEF Info!BadElement
<1> QED
  BY <1>5, <1>6, <1>7, <1>8, <1>9, <1>10, Zenon

(* What has been parsed up to an event of a document. *)
PathIn(d) == [name : NamesIn(d), content : Seq(TextsIn(d))]

ParsedTo(d, n, p, t, all) ==
  /\ n \in 0..Len(d.events)
  /\ p \in Seq(PathIn(d)) /\ NamesOf(p) = Info!OpenAfter(d)[n]
  /\ \A m \in 1..n : Info!Fine(d, m)
  /\ LeafIs(d, n, p) /\ TempIs(d, n, t) /\ all = Info!InfosAfter(d)[n]

LEMMA FineGoesOn ==
  ASSUME NEW d \in Documents, NEW n \in 1..Len(d.events), \A m \in 1..(n - 1) : Info!Fine(d, m), Info!Fine(d, n)
  PROVE  (\A m \in 1..n : Info!Fine(d, m)) /\ OnPath(d, n) /\ OnPath(d, n - 1)
<1>1. n \in Nat /\ n \in 0..Len(d.events) /\ n - 1 \in 0..Len(d.events)
  BY EventsAre
<1>2. ASSUME NEW m \in 1..n PROVE Info!Fine(d, m)
  <2>1. m \in 1..(n - 1) \/ m = n
    BY <1>1
  <2> QED
    BY <2>1
<1>3. OnPath(d, n)
  BY <1>1, <1>2, OnPathAlways
<1>4. OnPath(d, n - 1)
  BY <1>1, OnPathAlways
<1> QED
  BY <1>2, <1>3, <1>4

(* What the infos are behind an event. *)
LEMMA InfosSteps ==
  ASSUME NEW d \in Documents, NEW n \in 1..Len(d.events)
  PROVE  /\ Info!InfosAfter(d)[n] = Info!InfosAfter(d)[n - 1] \o Info!InfoOf(d, n)
         /\ d.events[n].event # "end" => Info!InfosAfter(d)[n] = Info!InfosAfter(d)[n - 1]
<1>1. PICK S, f : S = InfosIn(d) /\ f = Info!InfosAfter(d)
  OBVIOUS
<1>2. f \in [0..Len(d.events) -> Seq(S)] /\ f[n] = f[n - 1] \o Info!InfoOf(d, n)
  BY <1>1, InfosAre DEF InfosGo
<1>3. n - 1 \in 0..Len(d.events)
  BY EventsAre
<1>4. f[n - 1] \in Seq(S)
  BY <1>2, <1>3
<1>5. ASSUME d.events[n].event # "end" PROVE f[n] = f[n - 1]
  <2>1. \A paths : n \notin Info!Ends(d, paths)
    BY <1>5, PlacesOfEvent
  <2>2. Info!InfoOf(d, n) = <<>>
    BY <2>1 DEF Info!InfoOf
  <2> QED
    BY <1>2, <1>4, <2>2
<1> QED
  BY <1>1, <1>2, <1>5

LEMMA NothingThere ==
  ASSUME NEW d \in Documents
  PROVE  ParsedTo(d, 0, <<>>, [device |-> Info!NewDevice("", ""), module |-> Info!NewModule("", "", "", ""),
                               type |-> Info!NewType("")], <<>>)
<1>1. PICK t : t = [device |-> Info!NewDevice("", ""), module |-> Info!NewModule("", "", "", ""),
                    type |-> Info!NewType("")]
  OBVIOUS
<1>2. /\ t = [device |-> t.device, module |-> t.module, type |-> t.type]
      /\ t.device = [id |-> "", name |-> <<>>, display |-> "", vendor |-> <<>>, modules |-> <<>>]
      /\ t.module = [id |-> "", class |-> "", type |-> "", name |-> <<>>, group |-> <<>>, unavailable |-> "", default |-> <<>>]
      /\ t.type = [id |-> "", name |-> <<>>, unit |-> <<>>, ctype |-> <<"int">>, width |-> 1]
  BY <1>1 DEF Info!NewDevice, Info!NewModule, Info!NewType
<1>3. \A paths : Info!Latest(Info!Begins(d, paths), 0) = 0
  BY LatestAtFirst
<1>4. \A paths, within : ~Info!EndedIn(d, paths, within, 0) /\ Info!ContentOf(d, paths, within, 0) = <<>>
  BY ContentAtFirst
<1>5. Info!ModulesAfter(d)[0] = <<>>
  BY ModulesAre DEF ModulesGo
<1>6. DeviceIs(d, 0, t.device)
  <2>1. PICK v : v = t.device
    OBVIOUS
  <2>2. v = [id |-> "", name |-> <<>>, display |-> "", vendor |-> <<>>, modules |-> <<>>]
    BY <1>2, <2>1, Zenon
  <2>3. /\ v = [id |-> v.id, name |-> v.name, display |-> v.display, vendor |-> v.vendor, modules |-> v.modules]
        /\ v.name = <<>> /\ v.vendor = <<>> /\ v.modules = <<>>
    BY <2>2
  <2> QED
    BY <1>3, <1>4, <1>5, <2>1, <2>3, Zenon DEF DeviceIs
<1>7. ModuleIs(d, 0, t.module)
  <2>1. PICK v : v = t.module
    OBVIOUS
  <2>2. v = [id |-> "", class |-> "", type |-> "", name |-> <<>>, group |-> <<>>, unavailable |-> "", default |-> <<>>]
    BY <1>2, <2>1, Zenon
  <2>3. /\ v = [id |-> v.id, class |-> v.class, type |-> v.type, name |-> v.name, group |-> v.group,
                unavailable |-> v.unavailable, default |-> v.default]
        /\ v.name = <<>> /\ v.group = <<>> /\ v.default = <<>>
    BY <2>2
  <2> QED
    BY <1>3, <1>4, <2>1, <2>3, Zenon DEF ModuleIs
<1>8. TypeIs(d, 0, t.type)
  <2>1. ~(0 > 0)
    OBVIOUS
  <2>2. PICK v : v = t.type
    OBVIOUS
  <2>3. v = [id |-> "", name |-> <<>>, unit |-> <<>>, ctype |-> <<"int">>, width |-> 1]
    BY <1>2, <2>2, Zenon
  <2>5. /\ v = [id |-> v.id, name |-> v.name, unit |-> v.unit, ctype |-> v.ctype, width |-> v.width]
        /\ v.name = <<>> /\ v.unit = <<>> /\ v.ctype = <<"int">> /\ v.width = 1
    BY <2>3
  <2>4. ~(Info!Latest(Info!Begins(d, Info!TypePaths("var")), 0) > Info!Latest(Info!Begins(d, Info!TypePath), 0))
    BY <1>3, <2>1
  <2> QED
    BY <1>3, <1>4, <2>2, <2>4, <2>5, Zenon DEF TypeIs
<1>9. 0 \in 0..Len(d.events) /\ 1..0 = {}
  BY EventsAre
<1>10. Info!OpenAfter(d)[0] = <<>> /\ Info!InfosAfter(d)[0] = <<>>
  BY OpenIs, InfosAre DEF OpenGoes, InfosGo
<1>11. <<>> \in Seq(PathIn(d)) /\ NamesOf(<<>>) = <<>>
  BY EmptySeq DEF NamesOf
<1>12. LeafIs(d, 0, <<>>)
  BY DEF LeafIs
<1>13. TempIs(d, 0, t)
  BY <1>2, <1>6, <1>7, <1>8, Zenon DEF TempIs
<1>14. \A m \in 1..0 : Info!Fine(d, m)
  BY <1>9
<1> QED
  BY <1>1, <1>9, <1>10, <1>11, <1>12, <1>13, <1>14, Zenon DEF ParsedTo

(* An element begins. *)
LEMMA StartKept ==
  ASSUME NEW d \in Documents, NEW n \in 1..Len(d.events), d.events[n].event = "start", Info!Fine(d, n),
         ParsedTo(d, n - 1, path, temp, infos)
  PROVE  /\ ParsedTo(d, n, Append(path, [name |-> d.events[n].name, content |-> <<>>]),
                     Info!Started(Append(Info!Names, d.events[n].name), d.events[n].attributes), infos)
         /\ Append(Info!Names, d.events[n].name) = Info!OpenAfter(d)[n]
<1>1. PICK S, R, above, open : /\ S = NamesIn(d) /\ R = PathIn(d)
                               /\ above = Info!OpenAfter(d)[n - 1] /\ open = Info!OpenAfter(d)[n]
  OBVIOUS
<1>2. above \in Seq(S) /\ open \in Seq(S) /\ OpenStep(d, n, above, open)
  BY <1>1, OpenGoesOn
<1>3. PICK name \in S : name = d.events[n].name
  BY <1>1, EventsAre
<1>4. path \in Seq(R) /\ NamesOf(path) = above /\ \A m \in 1..(n - 1) : Info!Fine(d, m)
  BY <1>1, Zenon DEF ParsedTo
<1>5. TempIs(d, n - 1, temp) /\ infos = Info!InfosAfter(d)[n - 1]
  BY Zenon DEF ParsedTo
<1>6. (\A m \in 1..n : Info!Fine(d, m)) /\ OnPath(d, n)
  BY <1>4, FineGoesOn
<1>7. Info!Names = above /\ open = Append(above, name)
  BY <1>2, <1>3, <1>4 DEF Info!Names, NamesOf, OpenStep
<1>8. PICK e : e = [name |-> name, content |-> <<>>]
  OBVIOUS
<1>9. e \in R /\ e.name = name /\ e.content = <<>> /\ Named(R, S)
  <2>1. <<>> \in Seq(TextsIn(d))
    BY EmptySeq
  <2>2. PICK T : T = Seq(TextsIn(d))
    OBVIOUS
  <2>3. R = [name : S, content : T]
    BY <1>1, <2>2 DEF PathIn
  <2> QED
    BY <1>8, <2>1, <2>2, <2>3 DEF Named
<1>10. PICK q : q = Append(path, e)
  OBVIOUS
<1>11. q \in Seq(R) /\ NamesOf(q) = open /\ Info!Last(q) = e
  <2>1. /\ Append(path, e) \in Seq(R) /\ NamesOf(Append(path, e)) = Append(NamesOf(path), e.name)
        /\ Info!Last(Append(path, e)) = e
    BY <1>4, <1>9, PathAppend
  <2> QED
    BY <1>4, <1>7, <1>9, <1>10, <2>1
<1>12. Info!PiecesAfter(d)[n] = <<>>
  BY PiecesAre DEF PiecesGo
<1>13. LeafIs(d, n, q)
  BY <1>9, <1>11, <1>12 DEF LeafIs
<1>14. PICK w : w = Info!Started(open, d.events[n].attributes)
  OBVIOUS
<1>15. TempStep(d, n, temp, w)
  BY <1>1, <1>5, <1>6, <1>14, StartedStep
<1>16. TempIs(d, n, w)
  BY <1>5, <1>15, TempGoesOn
<1>17. infos = Info!InfosAfter(d)[n]
  <2>1. "start" # "end"
    OBVIOUS
  <2> QED
    BY <1>5, <2>1, InfosSteps
<1>18. n \in 0..Len(d.events)
  BY EventsAre
<1>19. ParsedTo(d, n, q, w, infos)
  BY <1>1, <1>6, <1>11, <1>13, <1>16, <1>17, <1>18, Zenon DEF ParsedTo
<1> QED
  BY <1>1, <1>3, <1>7, <1>8, <1>10, <1>14, <1>19

(* Content goes to the element it is in. *)
TextStep(d, n, p, q) ==
  q = IF Info!IsPiece(d, d.events[n]) THEN [p EXCEPT ![Len(p)].content = Append(@, d.events[n].text)] ELSE p

LEMMA TextKept ==
  ASSUME NEW d \in Documents, NEW n \in 1..Len(d.events), d.events[n].event \in {"text", "entity"}, Info!Fine(d, n),
         ParsedTo(d, n - 1, path, temp, infos), NEW q, TextStep(d, n, path, q)
  PROVE  ParsedTo(d, n, q, temp, infos)
<1>1. PICK S, R, above, open : /\ S = NamesIn(d) /\ R = PathIn(d)
                               /\ above = Info!OpenAfter(d)[n - 1] /\ open = Info!OpenAfter(d)[n]
  OBVIOUS
<1>2. d.events[n].event # "start" /\ d.events[n].event # "end" /\ d.events[n].event \notin {"start", "end"}
  OBVIOUS
<1>3. above \in Seq(S) /\ OpenStep(d, n, above, open) /\ above # <<>>
  BY <1>1, <1>2, OpenGoesOn, EventsAre
<1>4. open = above
  BY <1>2, <1>3 DEF OpenStep
<1>5. path \in Seq(R) /\ NamesOf(path) = above /\ \A m \in 1..(n - 1) : Info!Fine(d, m)
  BY <1>1, Zenon DEF ParsedTo
<1>6. TempIs(d, n - 1, temp) /\ infos = Info!InfosAfter(d)[n - 1] /\ LeafIs(d, n - 1, path)
  BY Zenon DEF ParsedTo
<1>7. (\A m \in 1..n : Info!Fine(d, m)) /\ OnPath(d, n) /\ OnPath(d, n - 1)
  BY <1>5, FineGoesOn
<1>8. PICK T : T = Seq(TextsIn(d)) /\ R = [name : S, content : T]
  BY <1>1 DEF PathIn
<1>9. path # <<>>
  <2>1. NamesOf(<<>>) = <<>>
    BY DEF NamesOf
  <2> QED
    BY <1>3, <1>5, <2>1
<1>10. Named(R, S)
  BY <1>8 DEF Named
<1>11. Info!Last(path) \in R
  BY <1>5, <1>9, <1>10, PathLast
<1>12. PICK chunk \in TextsIn(d) : chunk = d.events[n].text
  BY EventsAre
<1>13. PICK c : c = Append(Info!Last(path).content, chunk)
  OBVIOUS
<1>14. c \in T
  BY <1>8, <1>11, <1>12, <1>13
<1>15. /\ q \in Seq(R) /\ NamesOf(q) = open
       /\ Info!IsPiece(d, d.events[n]) => Info!Last(q).content = c
  <2>1. CASE Info!IsPiece(d, d.events[n])
    <3>1. PICK e : e = [Info!Last(path) EXCEPT !.content = c]
      OBVIOUS
    <3>2. e \in R /\ e.name = Info!Last(path).name /\ e.content = c
      BY <1>8, <1>11, <1>14, <3>1
    <3>3. q = WithLast(path, e)
      BY <1>12, <1>13, <2>1, <3>1 DEF Info!Last, WithLast, TextStep
    <3>4. NamesOf(q) = NamesOf(path) /\ q \in Seq(R) /\ Info!Last(q) = e
      BY <1>5, <1>9, <1>10, <3>2, <3>3, PathContent
    <3> QED
      BY <1>4, <1>5, <3>2, <3>4
  <2>2. CASE ~Info!IsPiece(d, d.events[n])
    BY <1>4, <1>5, <2>2 DEF TextStep
  <2> QED
    BY <2>1, <2>2
<1>16. LeafIs(d, n, q)
  <2> SUFFICES ASSUME Info!ExpectElement(d.kind, open) = {} PROVE Info!Last(q).content = Info!PiecesAfter(d)[n]
    BY <1>1 DEF LeafIs
  <2>1. Info!Last(path).content = Info!PiecesAfter(d)[n - 1]
    BY <1>1, <1>4, <1>6, <1>9 DEF LeafIs
  <2>2. Info!PiecesAfter(d)[n] = IF Info!IsPiece(d, d.events[n]) THEN Append(Info!PiecesAfter(d)[n - 1], d.events[n].text)
                                 ELSE Info!PiecesAfter(d)[n - 1]
    BY <1>2, PiecesAre DEF PiecesGo
  <2>3. CASE Info!IsPiece(d, d.events[n])
    BY <1>12, <1>13, <1>15, <2>1, <2>2, <2>3
  <2>4. CASE ~Info!IsPiece(d, d.events[n])
    BY <2>1, <2>2, <2>4 DEF TextStep
  <2> QED
    BY <2>3, <2>4
<1>17. TempIs(d, n, temp)
  <2>1. \A paths : n \notin Info!Begins(d, paths) /\ n \notin Info!Ends(d, paths)
    BY <1>2, PlacesOfEvent
  <2>2. /\ temp = [device |-> temp.device, module |-> temp.module, type |-> temp.type]
        /\ temp.device = [id |-> temp.device.id, name |-> temp.device.name, display |-> temp.device.display,
                          vendor |-> temp.device.vendor, modules |-> temp.device.modules]
        /\ temp.module = [id |-> temp.module.id, class |-> temp.module.class, type |-> temp.module.type,
                          name |-> temp.module.name, group |-> temp.module.group,
                          unavailable |-> temp.module.unavailable, default |-> temp.module.default]
        /\ temp.type = [id |-> temp.type.id, name |-> temp.type.name, unit |-> temp.type.unit,
                        ctype |-> temp.type.ctype, width |-> temp.type.width]
    BY <1>6, Zenon DEF TempIs, DeviceIs, ModuleIs, TypeIs
  <2>3. DeviceStep(d, n, temp.device, temp.device)
    BY <2>1, <2>2, Zenon DEF DeviceStep
  <2>4. ModuleStep(d, n, temp.module, temp.module)
    BY <2>1, <2>2, Zenon DEF ModuleStep
  <2>5. TypeStep(d, n, temp.type, temp.type)
    BY <2>1, <2>2, Zenon DEF TypeStep
  <2>6. TempStep(d, n, temp, temp)
    BY <2>2, <2>3, <2>4, <2>5, Zenon DEF TempStep
  <2> QED
    BY <1>6, <2>6, TempGoesOn
<1>18. infos = Info!InfosAfter(d)[n]
  BY <1>2, <1>6, InfosSteps
<1>19. n \in 0..Len(d.events)
  BY EventsAre
<1> QED
  BY <1>1, <1>7, <1>15, <1>16, <1>17, <1>18, <1>19, Zenon DEF ParsedTo

(* An element ends. *)
LEMMA EndKept ==
  ASSUME NEW d \in Documents, NEW n \in 1..Len(d.events), d.events[n].event = "end", Info!Fine(d, n),
         ParsedTo(d, n - 1, path, temp, infos)
  PROVE  ParsedTo(d, n, Info!Front(path), Info!Filled, infos \o Info!Complete)
<1>1. PICK S, R, above, open : /\ S = NamesIn(d) /\ R = PathIn(d)
                               /\ above = Info!OpenAfter(d)[n - 1] /\ open = Info!OpenAfter(d)[n]
  OBVIOUS
<1>2. above \in Seq(S) /\ OpenStep(d, n, above, open)
  BY <1>1, OpenGoesOn
<1>3. above # <<>> /\ open = Info!Front(above)
  BY <1>2 DEF OpenStep
<1>4. path \in Seq(R) /\ NamesOf(path) = above /\ \A m \in 1..(n - 1) : Info!Fine(d, m)
  BY <1>1, Zenon DEF ParsedTo
<1>5. TempIs(d, n - 1, temp) /\ infos = Info!InfosAfter(d)[n - 1] /\ LeafIs(d, n - 1, path)
  BY Zenon DEF ParsedTo
<1>6. (\A m \in 1..n : Info!Fine(d, m)) /\ OnPath(d, n) /\ OnPath(d, n - 1)
  BY <1>4, FineGoesOn
<1>7. path # <<>>
  <2>1. NamesOf(<<>>) = <<>>
    BY DEF NamesOf
  <2> QED
    BY <1>3, <1>4, <2>1
<1>8. Named(R, S)
  BY <1>1 DEF PathIn, Named
<1>9. Info!Front(path) \in Seq(R) /\ NamesOf(Info!Front(path)) = open
  BY <1>3, <1>4, <1>7, <1>8, PathFront
<1>10. LeafIs(d, n, Info!Front(path))
  BY <1>6, NoLeaf DEF LeafIs
<1>11. TempStep(d, n, temp, Info!Filled)
  BY <1>1, <1>4, <1>5, <1>6, <1>7, FilledStep
<1>12. TempIs(d, n, Info!Filled)
  BY <1>5, <1>11, TempGoesOn
<1>13. Info!Complete = Info!InfoOf(d, n)
  BY <1>1, <1>4, <1>5, <1>6, CompleteIs
<1>14. infos \o Info!Complete = Info!InfosAfter(d)[n]
  BY <1>5, <1>13, InfosSteps
<1>15. n \in 0..Len(d.events)
  BY EventsAre
<1> QED
  BY <1>1, <1>6, <1>9, <1>10, <1>12, <1>14, <1>15, Zenon DEF ParsedTo

(* Only what is as it should be goes on. *)
LEMMA StartFine ==
  ASSUME NEW d \in Documents, NEW n \in 1..Len(d.events), d.events[n].event = "start", NamesOf(path) = Info!OpenAfter(d)[n - 1]
  PROVE  Info!Fine(d, n) <=> ~(\/ d.events[n].name \notin Info!ExpectElement(d.kind, Info!Names)
                               \/ Info!BadAttributes(Append(Info!Names, d.events[n].name), d.events[n].attributes))
<1>1. OpenStep(d, n, Info!OpenAfter(d)[n - 1], Info!OpenAfter(d)[n])
  BY OpenGoesOn
<1>2. Info!Names = Info!OpenAfter(d)[n - 1] /\ Info!OpenAfter(d)[n] = Append(Info!Names, d.events[n].name)
  BY <1>1 DEF Info!Names, NamesOf, OpenStep
<1>3. (\A paths : n \notin Info!Ends(d, paths)) /\ d.events[n].event # "text"
  BY PlacesOfEvent
<1>4. Info!InfoOf(d, n) = <<>>
  BY <1>3 DEF Info!InfoOf
<1> QED
  BY <1>2, <1>3, <1>4, Zenon DEF Info!Fine

LEMMA TextFine ==
  ASSUME NEW d \in Documents, NEW n \in 1..Len(d.events), d.events[n].event \in {"text", "entity"},
         path \in Seq(PathIn(d)), path # <<>>, NamesOf(path) = Info!OpenAfter(d)[n - 1]
  PROVE  Info!Fine(d, n) <=> (d.events[n].event = "text" =>
                                d.events[n].text = "" \/ Info!Last(path).name \in Info!ExpectContent(d.kind))
<1>1. PICK S, R : S = NamesIn(d) /\ R = PathIn(d)
  OBVIOUS
<1>2. Info!Last(NamesOf(path)) = Info!Last(path).name
  <2>1. Named(R, S)
    BY <1>1 DEF PathIn, Named
  <2> QED
    BY <1>1, <2>1, PathLast
<1>3. (\A paths : n \notin Info!Ends(d, paths)) /\ d.events[n].event # "start"
  BY PlacesOfEvent
<1>4. Info!InfoOf(d, n) = <<>>
  BY <1>3 DEF Info!InfoOf
<1> QED
  BY <1>2, <1>3, <1>4, Zenon DEF Info!Fine

(* The invariant: what has been parsed is what the document says up to the *)
(* event that is next.                                                     *)
InfoInv ==
  /\ parse \in {"idle", "parsing", "parsed", "loaded", "threw"}
  /\ parse = "idle" => /\ next = 1 /\ path = <<>> /\ infos = <<>>
                       /\ temp = [device |-> Info!NewDevice("", ""), module |-> Info!NewModule("", "", "", ""),
                                  type |-> Info!NewType("")]
  /\ parse \in {"parsing", "parsed"} =>
       document \in Documents /\ next \in Nat /\ ParsedTo(document, next - 1, path, temp, infos)
  /\ parse = "parsed" => next - 1 = Len(document.events)
  /\ parse = "loaded" => document.valid /\ provided = document.means
  /\ parse = "threw" => ~document.valid

(* A step of the parser, with what is there before it. *)
LEMMA GoesKeeps ==
  ASSUME parse = "parsing", NEW d \in Documents, document = d, NEW n \in 1..Len(d.events), next = n,
         Info!Goes, ParsedTo(d, n, path', temp', infos')
  PROVE  InfoInv'
<1>1. next' = n + 1 /\ document' = d /\ parse' = "parsing"
  BY DEF Info!Goes
<1>2. n \in Nat /\ next' \in Nat /\ next' - 1 = n
  BY <1>1, EventsAre
<1>3. ParsedTo(document', next' - 1, path', temp', infos')
  BY <1>1, <1>2
<1> QED
  BY <1>1, <1>2, <1>3, Zenon DEF InfoInv

LEMMA ThrowKeeps ==
  ASSUME parse = "parsing", NEW d \in Documents, document = d, NEW n \in 1..Len(d.events), next = n,
         Info!Throw, ~Info!Fine(d, n)
  PROVE  InfoInv'
<1>1. document' = d /\ parse' = "threw"
  BY DEF Info!Throw
<1>2. n \in DOMAIN d.events
  BY EventsAre
<1>3. ~d.valid
  BY <1>2, DocumentsAssumption
<1> QED
  BY <1>1, <1>3 DEF InfoInv

LEMMA StartKeeps ==
  ASSUME InfoInv, Info!StartElement
  PROVE  InfoInv'
<1>1. PICK d, n : d = document /\ n = next
  OBVIOUS
<1>2. parse = "parsing" /\ n <= Len(d.events) /\ d.events[n].event = "start"
  BY <1>1 DEF Info!StartElement, Info!IsNext, Info!Event
<1>3. d \in Documents /\ n \in Nat /\ ParsedTo(d, n - 1, path, temp, infos)
  BY <1>1, <1>2 DEF InfoInv
<1>4. n \in 1..Len(d.events)
  <2>1. n - 1 \in 0..Len(d.events)
    BY <1>3, Zenon DEF ParsedTo
  <2> QED
    BY <1>2, <1>3, <2>1, EventsAre
<1>5. NamesOf(path) = Info!OpenAfter(d)[n - 1]
  BY <1>3, Zenon DEF ParsedTo
<1>6. PICK bad : bad = (\/ d.events[n].name \notin Info!ExpectElement(d.kind, Info!Names)
                        \/ Info!BadAttributes(Append(Info!Names, d.events[n].name), d.events[n].attributes))
  OBVIOUS
<1>7. Info!Fine(d, n) <=> ~bad
  BY <1>2, <1>3, <1>4, <1>5, <1>6, StartFine
<1>8. IF bad THEN Info!Throw
      ELSE /\ path' = Append(path, [name |-> d.events[n].name, content |-> <<>>])
           /\ temp' = Info!Started(Append(Info!Names, d.events[n].name), d.events[n].attributes)
           /\ Info!Goes /\ UNCHANGED infos
  BY <1>1, <1>6, Zenon DEF Info!StartElement, Info!Event
<1>9. CASE bad
  BY <1>1, <1>2, <1>3, <1>4, <1>7, <1>8, <1>9, ThrowKeeps
<1>10. CASE ~bad
  <2>1. ParsedTo(d, n, Append(path, [name |-> d.events[n].name, content |-> <<>>]),
                 Info!Started(Append(Info!Names, d.events[n].name), d.events[n].attributes), infos)
    BY <1>2, <1>3, <1>4, <1>7, <1>10, StartKept
  <2>2. ParsedTo(d, n, path', temp', infos')
    BY <1>8, <1>10, <2>1, Zenon
  <2> QED
    BY <1>1, <1>2, <1>3, <1>4, <1>8, <1>10, <2>2, GoesKeeps
<1> QED
  BY <1>9, <1>10

LEMMA CharactersKeep ==
  ASSUME InfoInv, Info!Characters
  PROVE  InfoInv'
<1>1. PICK d, n : d = document /\ n = next
  OBVIOUS
<1>2. parse = "parsing" /\ n <= Len(d.events) /\ d.events[n].event = "text"
  BY <1>1 DEF Info!Characters, Info!IsNext, Info!Event
<1>3. d \in Documents /\ n \in Nat /\ ParsedTo(d, n - 1, path, temp, infos)
  BY <1>1, <1>2 DEF InfoInv
<1>4. n \in 1..Len(d.events)
  <2>1. n - 1 \in 0..Len(d.events)
    BY <1>3, Zenon DEF ParsedTo
  <2> QED
    BY <1>2, <1>3, <2>1, EventsAre
<1>5. NamesOf(path) = Info!OpenAfter(d)[n - 1] /\ path \in Seq(PathIn(d))
  BY <1>3, Zenon DEF ParsedTo
<1>6. path # <<>>
  <2>1. Info!OpenAfter(d)[n - 1] # <<>> /\ NamesOf(<<>>) = <<>>
    BY <1>2, <1>3, <1>4, EventsAre DEF NamesOf
  <2> QED
    BY <1>5, <2>1
<1>7. PICK chunk, bad : chunk = d.events[n].text /\ bad = (chunk # "" /\ Info!Last(path).name \notin Info!ExpectContent(d.kind))
  OBVIOUS
<1>8. Info!Fine(d, n) <=> ~bad
  <2>1. d.events[n].event \in {"text", "entity"}
    BY <1>2
  <2>2. Info!Fine(d, n) <=> (d.events[n].event = "text" =>
                               d.events[n].text = "" \/ Info!Last(path).name \in Info!ExpectContent(d.kind))
    BY <1>3, <1>4, <1>5, <1>6, <2>1, TextFine
  <2> QED
    BY <1>2, <1>7, <2>2
<1>9. Info!TrimContent(Info!Event) = chunk
  BY <1>1, <1>2, <1>3, <1>4, <1>7, EventsAre DEF Info!TrimContent, Info!Event
<1>10. CASE bad
  <2>1. Info!Throw
    BY <1>1, <1>7, <1>9, <1>10, Zenon DEF Info!Characters
  <2> QED
    BY <1>1, <1>2, <1>3, <1>4, <1>8, <1>10, <2>1, ThrowKeeps
<1>11. CASE ~bad
  <2>1. Info!IsPiece(d, d.events[n]) <=> chunk # ""
    <3>1. "text" # "entity"
      OBVIOUS
    <3> QED
      BY <1>2, <1>7, <3>1 DEF Info!IsPiece
  <2>2. /\ Info!Goes /\ temp' = temp /\ infos' = infos
        /\ chunk = "" => path' = path
        /\ chunk # "" => path' = [path EXCEPT ![Len(path)].content = Append(@, chunk)]
    <3>1. CASE chunk = ""
      BY <1>1, <1>7, <1>9, <1>11, <3>1, Zenon DEF Info!Characters
    <3>2. CASE chunk # ""
      BY <1>1, <1>7, <1>9, <1>11, <3>2, Zenon DEF Info!Characters, Info!Append2
    <3> QED
      BY <3>1, <3>2
  <2>3. TextStep(d, n, path, path')
    BY <1>7, <2>1, <2>2 DEF TextStep
  <2>4. ParsedTo(d, n, path', temp, infos)
    BY <1>2, <1>3, <1>4, <1>8, <1>11, <2>3, TextKept
  <2>5. ParsedTo(d, n, path', temp', infos')
    BY <2>2, <2>4, Zenon
  <2> QED
    BY <1>1, <1>2, <1>3, <1>4, <2>2, <2>5, GoesKeeps
<1> QED
  BY <1>10, <1>11

LEMMA EntityKeeps ==
  ASSUME InfoInv, Info!SkippedEntity
  PROVE  InfoInv'
<1>1. PICK d, n : d = document /\ n = next
  OBVIOUS
<1>2. parse = "parsing" /\ n <= Len(d.events) /\ d.events[n].event = "entity"
  BY <1>1 DEF Info!SkippedEntity, Info!IsNext, Info!Event
<1>3. d \in Documents /\ n \in Nat /\ ParsedTo(d, n - 1, path, temp, infos)
  BY <1>1, <1>2 DEF InfoInv
<1>4. n \in 1..Len(d.events)
  <2>1. n - 1 \in 0..Len(d.events)
    BY <1>3, Zenon DEF ParsedTo
  <2> QED
    BY <1>2, <1>3, <2>1, EventsAre
<1>5. NamesOf(path) = Info!OpenAfter(d)[n - 1] /\ path \in Seq(PathIn(d))
  BY <1>3, Zenon DEF ParsedTo
<1>6. path # <<>>
  <2>1. Info!OpenAfter(d)[n - 1] # <<>> /\ NamesOf(<<>>) = <<>>
    BY <1>2, <1>3, <1>4, EventsAre DEF NamesOf
  <2> QED
    BY <1>5, <2>1
<1>7. d.events[n].event \in {"text", "entity"} /\ d.events[n].event # "text"
  BY <1>2
<1>8. Info!Fine(d, n)
  BY <1>3, <1>4, <1>5, <1>6, <1>7, TextFine
<1>9. Info!IsPiece(d, d.events[n]) <=> ~Info!IsDevices /\ Info!Event.text # "unknown"
  BY <1>1, <1>2, <1>7 DEF Info!IsPiece, Info!IsDevices, Info!Event
<1>10. /\ Info!Goes /\ temp' = temp /\ infos' = infos
       /\ Info!IsPiece(d, d.events[n]) => path' = [path EXCEPT ![Len(path)].content = Append(@, d.events[n].text)]
       /\ ~Info!IsPiece(d, d.events[n]) => path' = path
  <2>1. CASE Info!IsPiece(d, d.events[n])
    BY <1>1, <1>9, <2>1, Zenon DEF Info!SkippedEntity, Info!Append2, Info!Event
  <2>2. CASE ~Info!IsPiece(d, d.events[n])
    BY <1>9, <2>2, Zenon DEF Info!SkippedEntity
  <2> QED
    BY <2>1, <2>2
<1>11. TextStep(d, n, path, path')
  BY <1>10 DEF TextStep
<1>12. ParsedTo(d, n, path', temp, infos)
  BY <1>3, <1>4, <1>7, <1>8, <1>11, TextKept
<1>13. ParsedTo(d, n, path', temp', infos')
  BY <1>10, <1>12, Zenon
<1> QED
  BY <1>1, <1>2, <1>3, <1>4, <1>10, <1>13, GoesKeeps

LEMMA EndKeeps ==
  ASSUME InfoInv, Info!EndElement
  PROVE  InfoInv'
<1>1. PICK d, n : d = document /\ n = next
  OBVIOUS
<1>2. parse = "parsing" /\ n <= Len(d.events) /\ d.events[n].event = "end"
  BY <1>1 DEF Info!EndElement, Info!IsNext, Info!Event
<1>3. d \in Documents /\ n \in Nat /\ ParsedTo(d, n - 1, path, temp, infos)
  BY <1>1, <1>2 DEF InfoInv
<1>4. n - 1 \in 0..Len(d.events) /\ n \in 1..Len(d.events)
  <2>1. n - 1 \in 0..Len(d.events)
    BY <1>3, Zenon DEF ParsedTo
  <2> QED
    BY <1>2, <1>3, <2>1, EventsAre
<1>5. /\ NamesOf(path) = Info!OpenAfter(d)[n - 1] /\ \A m \in 1..(n - 1) : Info!Fine(d, m)
      /\ LeafIs(d, n - 1, path) /\ TempIs(d, n - 1, temp) /\ infos = Info!InfosAfter(d)[n - 1]
  BY <1>3, Zenon DEF ParsedTo
<1>6. path # <<>>
  <2>1. Info!OpenAfter(d)[n - 1] # <<>> /\ NamesOf(<<>>) = <<>>
    BY <1>2, <1>3, <1>4, EventsAre DEF NamesOf
  <2> QED
    BY <1>5, <2>1
<1>7. OnPath(d, n - 1)
  BY <1>3, <1>4, <1>5, OnPathAlways
<1>8. Info!BadElement <=> ~Info!Fine(d, n)
  BY <1>2, <1>3, <1>4, <1>5, <1>6, <1>7, BadIs
<1>9. CASE Info!BadElement
  <2>1. Info!Throw
    BY <1>9, Zenon DEF Info!EndElement
  <2> QED
    BY <1>1, <1>2, <1>3, <1>4, <1>8, <1>9, <2>1, ThrowKeeps
<1>10. CASE ~Info!BadElement
  <2>1. /\ temp' = Info!Filled /\ infos' = infos \o Info!Complete /\ path' = Info!Front(path) /\ Info!Goes
    BY <1>10, Zenon DEF Info!EndElement
  <2>2. ParsedTo(d, n, Info!Front(path), Info!Filled, infos \o Info!Complete)
    BY <1>2, <1>3, <1>4, <1>8, <1>10, EndKept
  <2>3. ParsedTo(d, n, path', temp', infos')
    BY <2>1, <2>2, Zenon
  <2> QED
    BY <1>1, <1>2, <1>3, <1>4, <2>1, <2>3, GoesKeeps
<1> QED
  BY <1>9, <1>10

(* The beginning and the end of a document. *)
LEMMA ParseFileKeeps ==
  ASSUME InfoInv, Info!ParseFile
  PROVE  InfoInv'
<1>1. PICK d \in Documents : document' = d
  BY DEF Info!ParseFile
<1>2. /\ next' = 1 /\ path' = <<>> /\ infos' = <<>> /\ parse' = "parsing"
      /\ temp' = [device |-> Info!NewDevice("", ""), module |-> Info!NewModule("", "", "", ""), type |-> Info!NewType("")]
  BY Zenon DEF InfoInv, Info!ParseFile
<1>3. next' - 1 = 0 /\ next' \in Nat
  <2>1. 1 - 1 = 0 /\ 1 \in Nat
    OBVIOUS
  <2> QED
    BY <1>2, <2>1, Zenon
<1>4. ParsedTo(d, 0, path', temp', infos')
  BY <1>2, NothingThere, Zenon
<1>5. ParsedTo(document', next' - 1, path', temp', infos')
  BY <1>1, <1>3, <1>4, Zenon
<1> QED
  BY <1>1, <1>2, <1>3, <1>5, Zenon DEF InfoInv

LEMMA EndDocumentKeeps ==
  ASSUME InfoInv, Info!EndDocument
  PROVE  InfoInv'
<1>1. /\ parse = "parsing" /\ next > Len(document.events) /\ parse' = "parsed"
      /\ UNCHANGED <<document, next, path, temp, infos>>
  BY DEF Info!EndDocument
<1>2. document \in Documents /\ next \in Nat /\ ParsedTo(document, next - 1, path, temp, infos)
  BY <1>1 DEF InfoInv
<1>3. next - 1 \in 0..Len(document.events)
  BY <1>2, Zenon DEF ParsedTo
<1>4. next - 1 = Len(document.events)
  BY <1>1, <1>2, <1>3, EventsAre
<1> QED
  BY <1>1, <1>2, <1>4, Zenon DEF InfoInv

LEMMA LoadInfoKeeps ==
  ASSUME InfoInv, Info!LoadInfo
  PROVE  InfoInv'
<1>1. PICK d, n : d = document /\ n = Len(d.events)
  OBVIOUS
<1>2. /\ parse = "parsed" /\ parse' = "loaded" /\ document' = d
      /\ provided' = IF d.kind = "devices" THEN [i \in DOMAIN infos |-> Info!ResolveTypes(infos[i])] ELSE infos
  BY <1>1, Zenon DEF Info!LoadInfo, Info!IsDevices
<1>3. d \in Documents /\ ParsedTo(d, n, path, temp, infos)
  BY <1>1, <1>2, Zenon DEF InfoInv
<1>4. (\A m \in 1..n : Info!Fine(d, m)) /\ infos = Info!InfosAfter(d)[n]
  BY <1>3, Zenon DEF ParsedTo
<1>5. d.valid
  <2>1. DOMAIN d.events = 1..n
    BY <1>1, <1>3, EventsAre
  <2> QED
    BY <1>3, <1>4, <2>1, DocumentsAssumption
<1>6. d.means = Info!Meaning(d)
  BY <1>3, <1>5, DocumentsAssumption
<1>7. provided' = d.means
  BY <1>1, <1>2, <1>4, <1>6, Zenon DEF Info!Meaning
<1> QED
  BY <1>2, <1>5, <1>7 DEF InfoInv

LEMMA InfoKeeps ==
  ASSUME InfoInv, [Info!InfoNext]_infoVars
  PROVE  InfoInv'
<1>1. CASE Info!ParseFile
  BY <1>1, ParseFileKeeps
<1>2. CASE Info!StartElement
  BY <1>2, StartKeeps
<1>3. CASE Info!Characters
  BY <1>3, CharactersKeep
<1>4. CASE Info!SkippedEntity
  BY <1>4, EntityKeeps
<1>5. CASE Info!EndElement
  BY <1>5, EndKeeps
<1>6. CASE Info!EndDocument
  BY <1>6, EndDocumentKeeps
<1>7. CASE Info!LoadInfo
  BY <1>7, LoadInfoKeeps
<1>8. CASE UNCHANGED infoVars
  BY <1>8, Zenon DEF infoVars, InfoInv
<1> QED
  BY <1>1, <1>2, <1>3, <1>4, <1>5, <1>6, <1>7, <1>8, Zenon DEF Info!InfoNext

(* NothingCarriedOver: what the providers have been given is what the      *)
(* document says, place by place, whatever it leaves out and in whatever   *)
(* order it has it, and SAXHelper and its handlers refuse the documents    *)
(* with a mistake and no other.                                            *)
THEOREM NothingIsCarriedOver == Spec => []NothingCarriedOver
<1>1. Init => InfoInv
  BY Zenon DEF Init, Info!InfoInit, InfoInv
<1>2. InfoInv /\ [Next]_vars => InfoInv'
  <2> SUFFICES ASSUME InfoInv, [Next]_vars PROVE InfoInv'
    OBVIOUS
  <2>1. [Info!InfoNext]_infoVars
    BY Zenon DEF Next, vars, InfoStep, ServerStep, ProductStep, CredentialsStep, IdentifierStep, StatisticsStep,
      TransactionStep, SslStep, GeneratorStep
  <2> QED
    BY <2>1, InfoKeeps
<1>3. InfoInv => NothingCarriedOver
  BY Zenon DEF InfoInv, NothingCarriedOver, Info!NothingCarriedOver
<1> QED
  BY <1>1, <1>2, <1>3, PTL DEF Spec
=============================================================================
