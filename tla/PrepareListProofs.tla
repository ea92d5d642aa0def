-------------------------- MODULE PrepareListProofs --------------------------
(***************************************************************************)
(* The prepare list over the proved ring, for every capacity and staleness *)
(* bound: the loops of pops end and pop nothing that is not committed, and *)
(* no operation but reset forgets a mutation above the commit point.       *)
(***************************************************************************)
EXTENDS PrepareList, MutationCacheProofs, ProofLemmas

(***************************************************************************)
(* The inductive invariant: the commit point never lies beyond the list,   *)
(* an empty list stands at it, and the list ends within the staleness      *)
(* bound after it.                                                         *)
(***************************************************************************)
ListInv(c, lcd) ==
    /\ Good(c)
    /\ lcd \in Nat
    /\ lcd <= MaxDecree(c)
    /\ MaxDecree(c) <= lcd + Staleness
    /\ Count(c) = 0 => MinDecree(c) = lcd

PLInv ==
    /\ ListInv(cache, last_committed_decree)
    /\ logged \subseteq Held(cache)
    /\ ready \subseteq logged

\* What c holds above lcd is still in e, or gave way to a ballot not smaller.
Kept(c, e, lcd) ==
    \A x \in Nat :
        x > lcd /\ GetMutationByDecree(c, x) # Null =>
            /\ GetMutationByDecree(e, x) # Null
            /\ GetMutationByDecree(e, x).ballot >= GetMutationByDecree(c, x).ballot
-------------------------------------------------------------------------------
\* The function of a loop of pops exists: it satisfies its recursive equation.
LEMMA PopsEquation ==
    ASSUME NEW c, c.interval \in Nat
    PROVE  Pops(c) = [p \in 0 .. Count(c) |-> IF p = 0 THEN c ELSE PopMinOf(Pops(c)[p - 1])]
  <1> DEFINE S == {m \in Nat : \E f : f = [p \in 0 .. m |-> IF p = 0 THEN c ELSE PopMinOf(f[p - 1])]}
  <1>1. 0 \in S
    <2> DEFINE f == [p \in 0 .. 0 |-> c]
    <2>1. f = [p \in 0 .. 0 |-> IF p = 0 THEN c ELSE PopMinOf(f[p - 1])] OBVIOUS
    <2> QED BY Zenon, <2>1
  <1>2. ASSUME NEW m \in Nat, m \in S PROVE m + 1 \in S
    <2>1. PICK f : f = [p \in 0 .. m |-> IF p = 0 THEN c ELSE PopMinOf(f[p - 1])] BY <1>2
    <2> DEFINE g == [p \in 0 .. m + 1 |-> IF p = 0 THEN c ELSE PopMinOf(f[p - 1])]
    <2>2. \A p \in 0 .. m : g[p] = f[p] BY <2>1
    <2>3. \A p \in 0 .. m + 1 : p # 0 => g[p - 1] = f[p - 1]
      <3>1. \A p \in 0 .. m + 1 : p # 0 => p - 1 \in 0 .. m OBVIOUS
      <3> HIDE DEF g
      <3> QED BY <3>1, <2>2
    <2>4. g = [p \in 0 .. m + 1 |-> IF p = 0 THEN c ELSE PopMinOf(g[p - 1])] BY Zenon, <2>3
    <2> HIDE DEF g
    <2> QED BY <2>4
  <1>3. \A m \in Nat : m \in S
    <2> HIDE DEF S
    <2> QED BY <1>1, <1>2, SetInduction
  <1>4. \E f : f = [p \in 0 .. Count(c) |-> IF p = 0 THEN c ELSE PopMinOf(f[p - 1])]
    BY <1>3 DEF Count
  <1> QED BY <1>4, Zenon DEF Pops

\* The ring after p pops.
LEMMA PopsState ==
    ASSUME NEW c, Good(c), NEW p \in 0 .. Count(c)
    PROVE  /\ Good(Pops(c)[p])
           /\ Pops(c)[p].interval = Count(c) - p
           /\ Pops(c)[p].end_decree = c.end_decree
           /\ Pops(c)[p].start_decree =
                IF p > 0 /\ p = Count(c) THEN c.start_decree + p - 1 ELSE c.start_decree + p
           /\ \A x \in Nat : x >= c.start_decree + p =>
                GetMutationByDecree(Pops(c)[p], x) = GetMutationByDecree(c, x)
           /\ Held(Pops(c)[p]) \subseteq Held(c)
  <1>t. /\ c.interval \in Nat /\ Count(c) \in Nat /\ c.start_decree \in Nat /\ c.end_decree \in Nat
    BY Fields, MaxCountAssumption DEF Count
  <1> DEFINE f == Pops(c)
             Q(q) == /\ Good(f[q])
                     /\ f[q].interval = Count(c) - q
                     /\ f[q].end_decree = c.end_decree
                     /\ f[q].start_decree =
                          IF q > 0 /\ q = Count(c) THEN c.start_decree + q - 1
                          ELSE c.start_decree + q
                     /\ \A x \in Nat : x >= c.start_decree + q =>
                          GetMutationByDecree(f[q], x) = GetMutationByDecree(c, x)
                     /\ Held(f[q]) \subseteq Held(c)
             S == {q \in Nat : q <= Count(c) => Q(q)}
  <1>e. f = [q \in 0 .. Count(c) |-> IF q = 0 THEN c ELSE PopMinOf(f[q - 1])]
    BY <1>t, PopsEquation
  <1> HIDE DEF f
  <1>1. 0 \in S
    <2>1. f[0] = c BY <1>e, <1>t
    <2>2. Q(0) BY <2>1, <1>t DEF Count
    <2> QED BY <2>2
  <1>2. ASSUME NEW q \in Nat, q \in S PROVE q + 1 \in S
    <2> SUFFICES ASSUME q + 1 <= Count(c) PROVE Q(q + 1) OBVIOUS
    <2> DEFINE b == f[q]
               e == f[q + 1]
               n == Count(c)
    <2>1. Q(q) BY <1>2, <1>t
    <2>2. e = PopMinOf(b) BY <1>e, <1>t
    <2>3. /\ b.interval = n - q /\ b.interval > 0 /\ b.start_decree = c.start_decree + q
          /\ b.end_decree = c.end_decree
      BY <2>1, <1>t
    <2>4. Good(e) BY <2>1, <2>2, <2>3, PopGood
    <2>5. /\ e.interval = b.interval - 1
          /\ e.start_decree = IF b.interval = 1 THEN b.start_decree ELSE b.start_decree + 1
          /\ e.end_decree = b.end_decree
      BY <2>1, <2>2, <2>3, PopLookup
    <2>6. \A x \in b.start_decree + 1 .. b.start_decree + b.interval - 1 :
             GetMutationByDecree(e, x) = GetMutationByDecree(b, x)
      BY <2>1, <2>2, <2>3, PopLookup
    <2>7. ASSUME NEW x \in Nat, x >= c.start_decree + (q + 1)
          PROVE  GetMutationByDecree(e, x) = GetMutationByDecree(c, x)
      <3>1. GetMutationByDecree(b, x) = GetMutationByDecree(c, x) BY <2>1, <2>7, <1>t
      <3>2. b.end_decree = b.start_decree + (b.interval - 1)
        BY <2>1, <2>3, <1>t DEF Good, FieldsAgree
      <3>3. CASE x <= c.end_decree
        BY <3>1, <3>2, <3>3, <2>3, <2>6, <2>7, <1>t
      <3>4. CASE x > c.end_decree
        BY <3>1, <3>4, <2>3, <2>5, <1>t DEF GetMutationByDecree
      <3> QED BY <3>3, <3>4, <1>t
    <2>8. Held(e) \subseteq Held(c)
      <3>1. b.array \in [Slots -> Mutation \cup {Null}] BY <2>1, Fields
      <3>2. \A i \in Slots : e.array[i] = b.array[i] \/ e.array[i] = Null
        BY <2>2, <3>1 DEF PopMinOf
      <3>3. Held(e) \subseteq Held(b) BY <3>2 DEF Held
      <3> QED BY <3>3, <2>1
    <2>9. e.start_decree = IF q + 1 > 0 /\ q + 1 = n THEN c.start_decree + (q + 1) - 1
                           ELSE c.start_decree + (q + 1)
      BY <2>3, <2>5, <1>t
    <2> QED BY <2>3, <2>4, <2>5, <2>7, <2>8, <2>9, <1>t
  <1>3. \A q \in Nat : q \in S
    <2> HIDE DEF S
    <2> QED BY <1>1, <1>2, SetInduction
  <1>4. Q(p) BY <1>3, <1>t
  <1> QED BY <1>4 DEF f

(***************************************************************************)
(* Making room: the loop of pops of prepare ends while the commit point is *)
(* not beyond the list, leaves a list that ends where it ended, and every  *)
(* lookup from the commit point on answers as before.                      *)
(***************************************************************************)
LEMMA PopCommittedState ==
    ASSUME NEW c, Good(c), NEW lcd \in Nat, lcd <= c.end_decree, NEW d \in Nat, NEW all \in BOOLEAN
    PROVE  LET e == PopCommitted(c, lcd, d, all)
           IN  /\ e # Null
               /\ Good(e)
               /\ ~PopAgain(e, lcd, d, all)
               /\ e.end_decree = c.end_decree
               /\ c.interval > 0 => e.interval > 0
               /\ c.interval = 0 => e = c
               /\ \A x \in Nat : x >= lcd =>
                    GetMutationByDecree(e, x) = GetMutationByDecree(c, x)
               /\ Held(e) \subseteq Held(c)
  <1> DEFINE n == Count(c)
             stops == {p \in 0 .. Count(c) : ~PopAgain(Pops(c)[p], lcd, d, all)}
             m == Min(stops)
  <1>t. /\ n \in Nat /\ c.start_decree \in Nat /\ c.end_decree \in Nat
        /\ n = c.interval
    BY Fields, MaxCountAssumption DEF Count
  <1>e. c.end_decree = IF n = 0 THEN c.start_decree ELSE c.start_decree + n - 1
    BY <1>t DEF Good, FieldsAgree
  <1>0. Pops(c)[0] = c BY <1>t, PopsEquation
  <1>1. (IF n = 0 THEN 0 ELSE n - 1) \in stops
    <2> DEFINE q == IF n = 0 THEN 0 ELSE n - 1
    <2>1. q \in 0 .. Count(c) /\ ~(q > 0 /\ q = Count(c)) BY <1>t
    <2>2. Pops(c)[q].start_decree = c.start_decree + q BY <2>1, PopsState
    <2>3. Pops(c)[q].start_decree = c.end_decree BY <2>2, <1>e, <1>t
    <2>4. ~PopAgain(Pops(c)[q], lcd, d, all) BY <2>3, <1>t DEF PopAgain, MinDecree
    <2> QED BY <2>1, <2>4
  <1>2. m \in stops /\ \A y \in stops : m <= y
    <2>1. stops \subseteq Nat /\ stops # {} BY <1>1, <1>t
    <2> HIDE DEF stops
    <2> QED BY Zenon, <2>1, MinOfNats
  <1>3. PopCommitted(c, lcd, d, all) = Pops(c)[m] BY <1>1 DEF PopCommitted
  <1> DEFINE e == Pops(c)[m]
  <1>4. m \in 0 .. n /\ m <= (IF n = 0 THEN 0 ELSE n - 1) /\ ~PopAgain(e, lcd, d, all)
    BY <1>1, <1>2
  <1>5. /\ Good(e) /\ e.interval = n - m /\ e.end_decree = c.end_decree
        /\ \A x \in Nat : x >= c.start_decree + m =>
             GetMutationByDecree(e, x) = GetMutationByDecree(c, x)
        /\ Held(e) \subseteq Held(c)
    BY Zenon, <1>4, PopsState
  <1>6. e # Null BY <1>5, NullAssumption DEF Good
  <1>7. m > 0 => c.start_decree + m <= lcd
    <2> SUFFICES ASSUME m > 0 PROVE c.start_decree + m <= lcd OBVIOUS
    <2> HIDE DEF m, stops
    <2>1. m - 1 \in 0 .. Count(c) /\ ~(m - 1 > 0 /\ m - 1 = Count(c)) BY <1>4, <1>t
    <2>2. m - 1 \notin stops BY <1>2, <1>4, <1>t
    <2>3. PopAgain(Pops(c)[m - 1], lcd, d, all) BY <2>1, <2>2 DEF stops
    <2>4. Pops(c)[m - 1].start_decree = c.start_decree + (m - 1) BY <2>1, PopsState
    <2> QED BY <2>3, <2>4, <1>4, <1>t DEF PopAgain, MinDecree
  <1>8. ASSUME NEW x \in Nat, x >= lcd
        PROVE  GetMutationByDecree(e, x) = GetMutationByDecree(c, x)
    <2> HIDE DEF m
    <2>1. CASE m = 0 BY <2>1, <1>0
    <2>2. CASE m > 0
      <3>1. x >= c.start_decree + m BY <2>2, <1>7, <1>8, <1>4, <1>t
      <3> QED BY <3>1, <1>5
    <2> QED BY <2>1, <2>2, <1>4, <1>t
  <1>9. /\ c.interval > 0 => e.interval > 0
        /\ c.interval = 0 => e = c
    <2> HIDE DEF m
    <2> QED BY <1>4, <1>5, <1>0, <1>t
  <1> QED BY <1>3, <1>4, <1>5, <1>6, <1>8, <1>9

\* truncate pops up to d, or starts the list again there.
LEMMA TruncatedState ==
    ASSUME NEW c, Good(c), NEW d \in Nat
    PROVE  LET e == Truncated(c, d)
           IN  /\ Good(e)
               /\ d <= e.end_decree
               /\ e.interval = 0 => e = ResetTo(d)
               /\ e.interval > 0 => e.end_decree = c.end_decree
               /\ \A x \in Nat : x > d =>
                    GetMutationByDecree(e, x) = GetMutationByDecree(c, x)
  <1> DEFINE n == Count(c)
             stops == {p \in 0 .. Count(c) : MinDecree(Pops(c)[p]) > d \/ p = Count(c)}
             m == Min(stops)
  <1>t. /\ n \in Nat /\ c.start_decree \in Nat /\ c.end_decree \in Nat
        /\ n = c.interval
    BY Fields, MaxCountAssumption DEF Count
  <1>e. c.end_decree = IF n = 0 THEN c.start_decree ELSE c.start_decree + n - 1
    BY <1>t DEF Good, FieldsAgree
  <1>2. m \in stops /\ \A y \in stops : m <= y
    <2>1. stops \subseteq Nat /\ n \in stops BY <1>t
    <2> HIDE DEF stops
    <2> QED BY Zenon, <2>1, MinOfNats
  <1>3. Truncated(c, d) = IF m = n THEN ResetTo(d) ELSE Pops(c)[m] BY DEF Truncated
  <1>4. m \in 0 .. n /\ (m # n => MinDecree(Pops(c)[m]) > d) BY <1>2
  <1>5. \A p \in 0 .. Count(c) : p < m => ~(MinDecree(Pops(c)[p]) > d)
    <2> SUFFICES ASSUME NEW p \in 0 .. Count(c), p < m, MinDecree(Pops(c)[p]) > d PROVE FALSE
      OBVIOUS
    <2>1. p \in stops OBVIOUS
    <2> HIDE DEF m, stops
    <2> QED BY <2>1, <1>2, <1>4, <1>t
  <1> HIDE DEF m, stops
  <1>6. CASE m = n
    <2>1. Truncated(c, d) = ResetTo(d) BY <1>3, <1>6
    <2>2. Good(ResetTo(d)) /\ ResetTo(d).interval = 0 /\ ResetTo(d).end_decree = d
          /\ ResetTo(d).start_decree = d
      BY ResetGood DEF ResetTo
    <2>3. n > 0 => c.end_decree <= d
      <3> SUFFICES ASSUME n > 0 PROVE c.end_decree <= d OBVIOUS
      <3>1. n - 1 \in 0 .. Count(c) /\ n - 1 < m /\ ~(n - 1 > 0 /\ n - 1 = Count(c))
        BY <1>6, <1>t
      <3>2. Pops(c)[n - 1].start_decree = c.start_decree + (n - 1) BY <3>1, PopsState
      <3>3. ~(Pops(c)[n - 1].start_decree > d) BY <3>1, <1>5 DEF MinDecree
      <3> QED BY <3>2, <3>3, <1>e, <1>t
    <2>4. ASSUME NEW x \in Nat, x > d
          PROVE  GetMutationByDecree(ResetTo(d), x) = GetMutationByDecree(c, x)
      <3>1. GetMutationByDecree(ResetTo(d), x) = Null
        BY <2>2, <2>4 DEF GetMutationByDecree
      <3>2. GetMutationByDecree(c, x) = Null
        <4>1. CASE n > 0 BY <4>1, <2>3, <2>4, <1>t DEF GetMutationByDecree
        <4>2. CASE n = 0
          <5>1. (c.start_idx + (x - c.start_decree) + MaxCount) % MaxCount \in Slots
            <6>1. c.start_idx + (x - c.start_decree) + MaxCount \in Int BY Fields
            <6> QED BY Zenon, <6>1, ModRange, MaxCountAssumption DEF Slots
          <5> QED BY <5>1, <4>2, <1>t, EmptyIsNull DEF GetMutationByDecree
        <4> QED BY <4>1, <4>2, <1>t
      <3> QED BY <3>1, <3>2
    <2> QED BY <2>1, <2>2, <2>4
  <1>7. CASE m # n
    <2> DEFINE e == Pops(c)[m]
    <2>1. Truncated(c, d) = e BY <1>3, <1>7
    <2>2. m \in 0 .. Count(c) /\ ~(m > 0 /\ m = Count(c)) BY <1>4, <1>7
    <2>3. /\ Good(e) /\ e.interval = n - m /\ e.end_decree = c.end_decree
          /\ e.start_decree = c.start_decree + m
      BY <2>2, PopsState
    <2>4. \A x \in Nat : x >= c.start_decree + m =>
            GetMutationByDecree(e, x) = GetMutationByDecree(c, x)
      BY <2>2, PopsState
    <2>5. e.interval > 0 /\ d < c.start_decree + m /\ e.start_decree <= e.end_decree
      BY <2>3, <1>4, <1>7, <1>e, <1>t DEF MinDecree
    <2>6. m > 0 => c.start_decree + m <= d + 1
      <3> SUFFICES ASSUME m > 0 PROVE c.start_decree + m <= d + 1 OBVIOUS
      <3>1. m - 1 \in 0 .. Count(c) /\ m - 1 < m /\ ~(m - 1 > 0 /\ m - 1 = Count(c))
        BY <1>4, <1>t
      <3>2. Pops(c)[m - 1].start_decree = c.start_decree + (m - 1) BY <3>1, PopsState
      <3>3. ~(Pops(c)[m - 1].start_decree > d) BY <3>1, <1>5 DEF MinDecree
      <3> QED BY <3>2, <3>3, <1>4, <1>t
    <2>7. ASSUME NEW x \in Nat, x > d
          PROVE  GetMutationByDecree(e, x) = GetMutationByDecree(c, x)
      <3>1. CASE m = 0
        <4>1. e = c BY <3>1, <1>t, PopsEquation
        <4> QED BY <4>1
      <3>2. CASE m > 0
        <4>1. x >= c.start_decree + m BY <3>2, <2>6, <2>7, <1>4, <1>t
        <4> QED BY <4>1, <2>4
      <3> QED BY <3>1, <3>2, <1>4, <1>t
    <2>8. d <= e.end_decree /\ e.interval # 0 BY <2>3, <2>5, <1>4, <1>t
    <2> QED BY <2>1, <2>3, <2>7, <2>8
  <1> QED BY <1>6, <1>7

\* A lookup finds nothing in an empty list, nor outside of the window; what it
\* finds is a mutation.
LEMMA LookupNull ==
    ASSUME NEW c, Good(c), NEW x \in Nat
    PROVE  /\ c.interval = 0 => GetMutationByDecree(c, x) = Null
           /\ GetMutationByDecree(c, x) # Null => x <= c.end_decree
           /\ GetMutationByDecree(c, x) \in Mutation \cup {Null}
  <1>1. (c.start_idx + (x - c.start_decree) + MaxCount) % MaxCount \in Slots
    <2>1. c.start_idx + (x - c.start_decree) + MaxCount \in Int BY Fields
    <2> QED BY Zenon, <2>1, ModRange, MaxCountAssumption DEF Slots
  <1>2. c.interval = 0 => GetMutationByDecree(c, x) = Null
    BY <1>1, EmptyIsNull DEF GetMutationByDecree
  <1>3. GetMutationByDecree(c, x) # Null => x <= c.end_decree
    BY Fields DEF GetMutationByDecree
  <1>4. GetMutationByDecree(c, x) \in Mutation \cup {Null}
    BY <1>1, Fields DEF GetMutationByDecree
  <1> QED BY <1>2, <1>3, <1>4

\* put changes what one decree is looked up as, and extends the list up to it.
LEMMA PutState ==
    ASSUME NEW c, Good(c), NEW mu \in Mutation, Accepts(c, mu)
    PROVE  LET e == PutIn(c, mu)
               d == mu.decree
           IN  /\ Good(e)
               /\ e.interval > 0
               /\ e.end_decree = IF c.interval = 0 \/ d > c.end_decree THEN d ELSE c.end_decree
               /\ GetMutationByDecree(e, d) = mu
               /\ \A x \in Nat : x # d =>
                    GetMutationByDecree(e, x) = GetMutationByDecree(c, x)
               /\ GetMutationByDecree(c, d) # Null =>
                    GetMutationByDecree(c, d).ballot <= mu.ballot
  <1> DEFINE e  == PutIn(c, mu)
             d  == mu.decree
             n  == c.interval
             lo == c.start_decree
             l  == IF n = 0 \/ d < lo THEN d ELSE lo
             h  == IF n = 0 \/ d > lo + n - 1 THEN d ELSE lo + n - 1
  <1>1. Good(e) BY PutGood
  <1>2. /\ d \in Nat /\ d \in l .. h /\ l \in Nat /\ h \in Nat
        /\ e.start_decree = l /\ e.interval = h - l + 1 /\ e.end_decree = h
        /\ d \in lo .. lo + n - 1 => \/ GetMutationByDecree(c, d) = Null
                                     \/ GetMutationByDecree(c, d).ballot <= mu.ballot
    BY PutLookup
  <1>3. \A x \in l .. h : GetMutationByDecree(e, x) =
          IF x = d THEN mu
          ELSE IF x \in lo .. lo + n - 1 THEN GetMutationByDecree(c, x) ELSE Null
    BY Zenon, PutLookup
  <1>t. n \in Nat /\ lo \in Nat /\ c.end_decree \in Nat
    BY Fields, MaxCountAssumption
  <1>e. n > 0 => c.end_decree = lo + n - 1
    BY <1>t DEF Good, FieldsAgree
  <1>4. \A x \in Nat : x \notin lo .. lo + n - 1 => GetMutationByDecree(c, x) = Null
    <2> SUFFICES ASSUME NEW x \in Nat, x \notin lo .. lo + n - 1
                 PROVE  GetMutationByDecree(c, x) = Null
      OBVIOUS
    <2>1. CASE n = 0 BY <2>1, LookupNull
    <2>2. CASE n > 0 BY <2>2, <1>t, <1>e DEF GetMutationByDecree
    <2> QED BY <2>1, <2>2, <1>t
  <1>5. ASSUME NEW x \in Nat, x # d
        PROVE  GetMutationByDecree(e, x) = GetMutationByDecree(c, x)
    <2>1. CASE x \in l .. h
      <3>1. GetMutationByDecree(e, x)
              = IF x \in lo .. lo + n - 1 THEN GetMutationByDecree(c, x) ELSE Null
        BY <2>1, <1>3, <1>5
      <3> QED BY <3>1, <1>4
    <2>2. CASE x \notin l .. h
      <3>1. GetMutationByDecree(e, x) = Null BY <2>2, <1>2 DEF GetMutationByDecree
      <3>2. x \notin lo .. lo + n - 1 BY <2>2, <1>2, <1>t
      <3> QED BY <3>1, <3>2, <1>4
    <2> QED BY <2>1, <2>2
  <1>6. GetMutationByDecree(e, d) = mu BY <1>2, <1>3
  <1>7. GetMutationByDecree(c, d) # Null => GetMutationByDecree(c, d).ballot <= mu.ballot
    BY <1>2, <1>4
  <1>8. e.interval > 0 BY <1>2, <1>t
  <1>9. e.end_decree = IF c.interval = 0 \/ d > c.end_decree THEN d ELSE c.end_decree
    BY <1>2, <1>e, <1>t
  <1> QED BY <1>1, <1>5, <1>6, <1>7, <1>8, <1>9

\* What commit reaches: a decree from the commit point up to the end of the list.
LEMMA CommittableBound ==
    ASSUME NEW c, Good(c), NEW lcd \in Nat, lcd <= c.end_decree, NEW d \in Nat, NEW ok,
           d > lcd, Committable(c, lcd, d, ok)
    PROVE  d <= c.end_decree /\ c.interval # 0
  <1>1. d \in lcd + 1 .. d OBVIOUS
  <1>2. GetMutationByDecree(c, d) # Null BY <1>1 DEF Committable
  <1> QED BY <1>2, LookupNull

\* A soft commit moves the commit point forward, and not beyond the list.
LEMMA CommitSoftBound ==
    ASSUME NEW c, Good(c), NEW lcd \in Nat, lcd <= c.end_decree, NEW hi \in Nat, NEW ok
    PROVE  LET r == CommitSoft(c, lcd, hi, ok)
           IN  /\ r \in Nat /\ lcd <= r /\ r <= c.end_decree
               /\ c.interval = 0 => r = lcd
  <1> DEFINE S == {lcd} \cup {e \in lcd + 1 .. hi : Committable(c, lcd, e, ok)}
             r == CommitSoft(c, lcd, hi, ok)
  <1>1. \A y \in S : y \in Nat /\ y >= lcd /\ y <= c.end_decree /\ (c.interval = 0 => y = lcd)
    <2> SUFFICES ASSUME NEW y \in lcd + 1 .. hi, Committable(c, lcd, y, ok)
                 PROVE  y \in Nat /\ y >= lcd /\ y <= c.end_decree /\ (c.interval = 0 => y = lcd)
      OBVIOUS
    <2>1. y \in Nat /\ y > lcd OBVIOUS
    <2>2. y <= c.end_decree /\ c.interval # 0 BY <2>1, CommittableBound
    <2> QED BY <2>1, <2>2
  <1>2. r = Max(S) BY DEF CommitSoft
  <1>3. S # {} OBVIOUS
  <1>4. c.end_decree \in Nat BY Fields
  <1> HIDE DEF S
  <1>5. Max(S) \in S
    <2>1. S \subseteq Nat /\ \A y \in S : y <= c.end_decree BY <1>1
    <2> QED BY Zenon, <2>1, <1>3, <1>4, MaxOfNats
  <1> QED BY <1>1, <1>2, <1>5

\* A hard commit does as well.
LEMMA CommitHardBound ==
    ASSUME NEW c, Good(c), NEW lcd \in Nat, lcd <= c.end_decree, NEW d \in Nat, NEW ok,
           Committable(c, lcd, d, ok)
    PROVE  LET r == CommitHard(lcd, d)
           IN  /\ r \in Nat /\ lcd <= r /\ d <= r /\ r <= c.end_decree
               /\ c.interval = 0 => r = lcd
  <1>1. CASE d <= lcd BY <1>1 DEF CommitHard
  <1>2. CASE d > lcd BY <1>2, CommittableBound DEF CommitHard
  <1> QED BY <1>1, <1>2

\* What stays as it is is kept.
LEMMA SameIsKept ==
    ASSUME NEW c, Good(c), NEW e, NEW lcd \in Nat,
           \A x \in Nat : x > lcd => GetMutationByDecree(e, x) = GetMutationByDecree(c, x)
    PROVE  Kept(c, e, lcd)
  <1> SUFFICES ASSUME NEW x \in Nat, x > lcd, GetMutationByDecree(c, x) # Null
               PROVE  /\ GetMutationByDecree(e, x) # Null
                      /\ GetMutationByDecree(e, x).ballot >= GetMutationByDecree(c, x).ballot
    BY DEF Kept
  <1>1. GetMutationByDecree(e, x) = GetMutationByDecree(c, x) OBVIOUS
  <1>2. GetMutationByDecree(c, x).ballot \in Nat BY LookupNull, MutationAssumption
  <1> QED BY <1>1, <1>2

(***************************************************************************)
(* prepare from its loop on, whatever the role: the committed mutations    *)
(* make room and the new one is put.                                       *)
(***************************************************************************)
LEMMA PrepareState ==
    ASSUME NEW c, NEW lcd, ListInv(c, lcd), NEW mu \in Mutation, NEW all \in BOOLEAN,
           lcd < mu.decree, mu.decree <= lcd + Staleness,
           HasRoom(PopCommitted(c, lcd, mu.decree, all), mu.decree),
           BallotCheck(PopCommitted(c, lcd, mu.decree, all), mu)
    PROVE  LET f == PutIn(PopCommitted(c, lcd, mu.decree, all), mu)
           IN  ListInv(f, lcd) /\ Kept(c, f, lcd)
  <1> DEFINE d == mu.decree
             e == PopCommitted(c, lcd, d, all)
             f == PutIn(e, mu)
  <1>t. /\ Good(c) /\ lcd \in Nat /\ lcd <= c.end_decree /\ c.end_decree <= lcd + Staleness
        /\ c.interval = 0 => c.start_decree = lcd
        /\ d \in Nat /\ mu.ballot \in Nat /\ Staleness \in Nat
        /\ c.end_decree \in Nat /\ c.interval \in Nat
    BY MutationAssumption, StalenessAssumption, MaxCountAssumption, Fields
    DEF ListInv, MaxDecree, MinDecree, Count
  <1>1. /\ Good(e) /\ e.end_decree = c.end_decree
        /\ c.interval > 0 => e.interval > 0
        /\ c.interval = 0 => e = c
    BY <1>t, PopCommittedState
  <1>2. \A x \in Nat : x >= lcd => GetMutationByDecree(e, x) = GetMutationByDecree(c, x)
    BY <1>t, PopCommittedState
  <1>3. e.interval = 0 => d >= e.end_decree
    <2> SUFFICES ASSUME e.interval = 0 PROVE d >= e.end_decree OBVIOUS
    <2>1. c.interval = 0 BY <1>1, <1>t
    <2>2. c.end_decree = c.start_decree BY <2>1, <1>t DEF Good, FieldsAgree
    <2> QED BY <2>1, <2>2, <1>1, <1>t
  <1>4. Accepts(e, mu) BY <1>3 DEF Accepts
  <1> HIDE DEF e
  <1>5. /\ Good(f) /\ f.interval > 0
        /\ f.end_decree = IF e.interval = 0 \/ d > e.end_decree THEN d ELSE e.end_decree
        /\ GetMutationByDecree(f, d) = mu
        /\ GetMutationByDecree(e, d) # Null => GetMutationByDecree(e, d).ballot <= mu.ballot
    BY <1>1, <1>4, PutState
  <1>6. \A x \in Nat : x # d => GetMutationByDecree(f, x) = GetMutationByDecree(e, x)
    BY <1>1, <1>4, PutState
  <1> HIDE DEF f, d
  <1>7. ListInv(f, lcd)
    <2>1. lcd <= f.end_decree /\ f.end_decree <= lcd + Staleness
      BY <1>5, <1>1, <1>3, <1>t DEF d
    <2>2. f.interval # 0 BY <1>5
    <2> QED BY <2>1, <2>2, <1>5, <1>t DEF ListInv, MaxDecree, MinDecree, Count
  <1>8. ASSUME NEW x \in Nat, x > lcd, GetMutationByDecree(c, x) # Null
        PROVE  /\ GetMutationByDecree(f, x) # Null
               /\ GetMutationByDecree(f, x).ballot >= GetMutationByDecree(c, x).ballot
    <2>1. GetMutationByDecree(e, x) = GetMutationByDecree(c, x)
      <3>1. x >= lcd BY <1>8, <1>t
      <3> QED BY <3>1, <1>2
    <2>2. GetMutationByDecree(c, x).ballot \in Nat BY <1>t, <1>8, LookupNull, MutationAssumption
    <2>3. CASE x = d
      <3>1. GetMutationByDecree(f, x) = mu /\ mu # Null BY <2>3, <1>5, MutationAssumption
      <3>2. GetMutationByDecree(c, x).ballot <= mu.ballot BY <2>1, <2>3, <1>5, <1>8
      <3> QED BY <3>1, <3>2, <2>2, <1>t
    <2>4. CASE x # d
      <3>1. GetMutationByDecree(f, x) = GetMutationByDecree(c, x) BY <2>1, <2>4, <1>6
      <3> QED BY <3>1, <2>2, <1>8
    <2> QED BY <2>3, <2>4
  <1>9. Kept(c, f, lcd) BY <1>8 DEF Kept
  <1> QED BY <1>7, <1>9 DEF d, e, f

\* The commit point advances inside the list.
LEMMA Advance ==
    ASSUME NEW c, NEW lcd, ListInv(c, lcd), NEW r \in Nat, lcd <= r, r <= c.end_decree,
           c.interval = 0 => r = lcd
    PROVE  ListInv(c, r)
  <1>1. c.end_decree \in Nat BY Fields DEF ListInv
  <1> QED BY <1>1, StalenessAssumption DEF ListInv, MaxDecree, MinDecree, Count

\* A list that was reset satisfies the invariant.
LEMMA ResetListInv ==
    ASSUME NEW d \in Nat
    PROVE  ListInv(ResetTo(d), d)
  <1>1. Good(ResetTo(d)) BY ResetGood
  <1>2. /\ ResetTo(d).end_decree = d /\ ResetTo(d).start_decree = d
    BY DEF ResetTo
  <1> QED BY <1>1, <1>2, StalenessAssumption DEF ListInv, MaxDecree, MinDecree, Count

\* The step of prepare for every status, from what it leaves of the list.
LEMMA BecomeInv ==
    ASSUME NEW c, NEW lcd, ListInv(c, lcd), Become(c, lcd), PLInv
    PROVE  PLInv'
  BY DEF PLInv, Become
-------------------------------------------------------------------------------
\* The part of UncommittedKept that a step which is no reset has to show.
StepKeeps == Kept(cache, cache', last_committed_decree')

\* prepare on a primary: the commit point stays.
LEMMA PreparePrimaryStep ==
    ASSUME PLInv, NEW mu \in Mutation, NEW all \in BOOLEAN, PreparePrimary(mu, all)
    PROVE  PLInv' /\ StepKeeps
  <1> DEFINE lcd == last_committed_decree
             e   == PopCommitted(cache, lcd, mu.decree, all)
             f   == PutIn(e, mu)
  <1>1. ListInv(cache, lcd) BY DEF PLInv
  <1>2. lcd < mu.decree /\ mu.decree <= lcd + Staleness BY DEF PreparePrimary, Fresh
  <1>3. CASE HasRoom(e, mu.decree)
    <2>1. BallotCheck(e, mu) /\ Become(f, lcd) BY <1>3 DEF PreparePrimary
    <2>2. ListInv(f, lcd) /\ Kept(cache, f, lcd) BY <1>1, <1>2, <1>3, <2>1, PrepareState
    <2> HIDE DEF f
    <2>3. PLInv' BY <2>1, <2>2, BecomeInv
    <2> QED BY <2>1, <2>2, <2>3 DEF Become, StepKeeps
  <1>4. CASE ~HasRoom(e, mu.decree)
    <2>1. Become(e, lcd) BY <1>4 DEF PreparePrimary
    <2>t. /\ Good(cache) /\ lcd \in Nat /\ lcd <= cache.end_decree /\ mu.decree \in Nat
          /\ cache.end_decree \in Nat /\ cache.interval \in Nat
      BY <1>1, Fields, MutationAssumption, MaxCountAssumption DEF ListInv, MaxDecree
    <2>2. /\ Good(e) /\ e.end_decree = cache.end_decree
          /\ cache.interval > 0 => e.interval > 0
          /\ cache.interval = 0 => e = cache
      BY <2>t, PopCommittedState
    <2>3. \A x \in Nat : x >= lcd =>
            GetMutationByDecree(e, x) = GetMutationByDecree(cache, x)
      BY <2>t, PopCommittedState
    <2> HIDE DEF e
    <2>4. ListInv(e, lcd)
      BY <1>1, <2>2, <2>t DEF ListInv, MaxDecree, MinDecree, Count
    <2>5. Kept(cache, e, lcd)
      <3>1. \A x \in Nat : x > lcd => x >= lcd BY <2>t
      <3> QED BY <3>1, <2>3, <2>t, SameIsKept
    <2>6. PLInv' BY <2>1, <2>4, BecomeInv
    <2> QED BY <2>1, <2>5, <2>6 DEF Become, StepKeeps
  <1> QED BY <1>3, <1>4

\* prepare on a secondary: it commits up to the point the message carries.
LEMMA PrepareSecondaryStep ==
    ASSUME PLInv, NEW mu \in Mutation, NEW mlcd \in Decree, NEW all \in BOOLEAN,
           PrepareSecondary(mu, mlcd, all)
    PROVE  PLInv' /\ StepKeeps
  <1> DEFINE lcd == CommitHard(last_committed_decree, mlcd)
             e   == PopCommitted(cache, lcd, mu.decree, all)
             f   == PutIn(e, mu)
  <1>t. /\ mlcd \in Nat /\ last_committed_decree \in Nat /\ mu.decree \in Nat
        /\ Staleness \in Nat
        /\ last_committed_decree <= cache.end_decree /\ Good(cache)
    BY DecreeAssumption, MutationAssumption, StalenessAssumption DEF PLInv, ListInv, MaxDecree
  <1>1. /\ last_committed_decree < mu.decree /\ mlcd < mu.decree
        /\ mu.decree <= mlcd + Staleness
        /\ Committable(cache, last_committed_decree, mlcd, logged)
    BY DEF PrepareSecondary, Fresh, HardAllowed
  <1>2. /\ HasRoom(e, mu.decree) /\ BallotCheck(e, mu) /\ Become(f, lcd)
    BY DEF PrepareSecondary
  <1>3. /\ lcd \in Nat /\ last_committed_decree <= lcd /\ mlcd <= lcd
        /\ lcd <= cache.end_decree /\ (cache.interval = 0 => lcd = last_committed_decree)
    BY <1>t, <1>1, CommitHardBound
  <1>4. lcd < mu.decree /\ mu.decree <= lcd + Staleness
    BY <1>t, <1>1, <1>3 DEF CommitHard
  <1>5. ListInv(cache, lcd) BY <1>3, Advance DEF PLInv
  <1> HIDE DEF lcd
  <1>6. ListInv(f, lcd) /\ Kept(cache, f, lcd) BY <1>2, <1>4, <1>5, PrepareState
  <1> HIDE DEF f
  <1>7. PLInv' BY <1>2, <1>6, BecomeInv
  <1> QED BY <1>2, <1>6, <1>7 DEF Become, StepKeeps

\* prepare on an inactive replica, which starts the list anew when the commit
\* point is beyond it.
LEMMA PrepareInactiveStep ==
    ASSUME PLInv, NEW mu \in Mutation, NEW mlcd \in Decree, PrepareInactive(mu, mlcd)
    PROVE  PLInv' /\ StepKeeps
  <1> DEFINE beyond == mlcd > MaxDecree(cache)
             lcd    == CommitHard(last_committed_decree, mlcd)
             c      == IF beyond THEN ResetTo(mlcd) ELSE cache
             e      == PopCommitted(c, lcd, mu.decree, FALSE)
             f      == PutIn(e, mu)
  <1>t. /\ mlcd \in Nat /\ last_committed_decree \in Nat /\ mu.decree \in Nat
        /\ Staleness \in Nat /\ cache.end_decree \in Nat
        /\ last_committed_decree <= cache.end_decree /\ Good(cache)
    BY DecreeAssumption, MutationAssumption, StalenessAssumption, Fields
    DEF PLInv, ListInv, MaxDecree
  <1>1. /\ last_committed_decree < mu.decree /\ mlcd < mu.decree
        /\ mu.decree <= mlcd + Staleness
        /\ beyond \/ Committable(cache, last_committed_decree, mlcd, logged)
    BY DEF PrepareInactive, Fresh, HardAllowed
  <1>2. /\ HasRoom(e, mu.decree) /\ BallotCheck(e, mu) /\ Become(f, lcd)
    BY Zenon DEF PrepareInactive
  <1>3. CASE beyond
    <2>1. lcd = mlcd BY <1>3, <1>t DEF CommitHard, MaxDecree
    <2>2. ListInv(c, lcd) BY <1>3, <2>1, <1>t, ResetListInv
    <2>3. lcd < mu.decree /\ mu.decree <= lcd + Staleness BY <2>1, <1>1
    <2>4. ListInv(f, lcd)
      <3> HIDE DEF c, lcd
      <3> QED BY Zenon, <1>2, <2>2, <2>3, PrepareState
    <2>5. Kept(cache, f, lcd)
      <3> SUFFICES ASSUME NEW x \in Nat, x > lcd, GetMutationByDecree(cache, x) # Null
                   PROVE  FALSE
        BY DEF Kept
      <3>1. x <= cache.end_decree BY <1>t, LookupNull
      <3> QED BY <3>1, <1>3, <2>1, <1>t DEF MaxDecree
    <2> HIDE DEF f, lcd
    <2>6. PLInv' BY <1>2, <2>4, BecomeInv
    <2> QED BY <1>2, <2>5, <2>6 DEF Become, StepKeeps
  <1>4. CASE ~beyond
    <2>1. Committable(cache, last_committed_decree, mlcd, logged) BY <1>1, <1>4
    <2>3. /\ lcd \in Nat /\ last_committed_decree <= lcd /\ mlcd <= lcd
          /\ lcd <= cache.end_decree /\ (cache.interval = 0 => lcd = last_committed_decree)
      BY <1>t, <2>1, CommitHardBound
    <2>4. lcd < mu.decree /\ mu.decree <= lcd + Staleness
      BY <1>t, <1>1, <2>3 DEF CommitHard
    <2>5. ListInv(cache, lcd) BY <2>3, Advance DEF PLInv
    <2>c. c = cache BY <1>4
    <2> HIDE DEF lcd, c
    <2>6. ListInv(f, lcd) /\ Kept(cache, f, lcd) BY Zenon, <1>2, <2>4, <2>5, <2>c, PrepareState
    <2> HIDE DEF f
    <2>7. PLInv' BY <1>2, <2>6, BecomeInv
    <2> QED BY <1>2, <2>6, <2>7 DEF Become, StepKeeps
  <1> QED BY <1>3, <1>4

\* commit, of each type.
LEMMA CommitStep ==
    ASSUME PLInv, NEW d \in Decree, Commit_Hard(d) \/ Commit_Soft(d) \/ Commit_AllReady(d)
    PROVE  PLInv' /\ StepKeeps
  <1> DEFINE lcd == last_committed_decree
             r   == last_committed_decree'
  <1>t. /\ Good(cache) /\ lcd \in Nat /\ lcd <= cache.end_decree /\ d \in Nat
        /\ cache.end_decree \in Nat
    BY DecreeAssumption, Fields DEF PLInv, ListInv, MaxDecree
  <1>1. /\ r \in Nat /\ lcd <= r /\ r <= cache.end_decree
        /\ cache.interval = 0 => r = lcd
    <2>1. CASE Commit_Hard(d) BY <2>1, <1>t, CommitHardBound DEF Commit_Hard, HardAllowed
    <2>2. CASE Commit_Soft(d) BY <2>2, <1>t, CommitSoftBound DEF Commit_Soft
    <2>3. CASE Commit_AllReady(d)
      BY <2>3, <1>t, CommitSoftBound DEF Commit_AllReady, MaxDecree
    <2> QED BY <2>1, <2>2, <2>3
  <1>2. UNCHANGED <<cache, logged, ready>> BY DEF Commit_Hard, Commit_Soft, Commit_AllReady
  <1>3. ListInv(cache, r)
    <2> HIDE DEF r
    <2> QED BY <1>1, Advance DEF PLInv
  <1>4. PLInv' BY <1>2, <1>3 DEF PLInv, Held
  <1>5. Kept(cache, cache, r)
    <2> HIDE DEF r
    <2> QED BY <1>1, <1>t, SameIsKept
  <1> QED BY <1>2, <1>4, <1>5 DEF StepKeeps

\* A mutation of the list is logged or acknowledged.
LEMMA FlagStep ==
    ASSUME PLInv, NEW mu \in Held(cache), SetLogged(mu) \/ SetReady(mu)
    PROVE  PLInv' /\ StepKeeps
  <1>1. UNCHANGED <<cache, last_committed_decree>> BY DEF SetLogged, SetReady
  <1>2. PLInv' BY <1>1 DEF SetLogged, SetReady, PLInv, Held
  <1>3. Kept(cache, cache, last_committed_decree) BY SameIsKept DEF PLInv, ListInv
  <1> QED BY <1>1, <1>2, <1>3 DEF StepKeeps

\* truncate raises the commit point to its decree; nothing above it changes.
LEMMA TruncateStep ==
    ASSUME PLInv, NEW d \in Decree, Truncate(d)
    PROVE  PLInv' /\ StepKeeps
  <1> DEFINE e == Truncated(cache, d)
  <1>t. /\ Good(cache) /\ d \in Nat /\ Staleness \in Nat
        /\ last_committed_decree \in Nat /\ cache.end_decree \in Nat
        /\ cache.end_decree <= last_committed_decree + Staleness
    BY DecreeAssumption, StalenessAssumption, Fields DEF PLInv, ListInv, MaxDecree
  <1>1. d >= last_committed_decree /\ Become(e, d) BY DEF Truncate
  <1>2. /\ Good(e) /\ d <= e.end_decree
        /\ e.interval = 0 => e = ResetTo(d)
        /\ e.interval > 0 => e.end_decree = cache.end_decree
    BY <1>t, TruncatedState
  <1>3. \A x \in Nat : x > d => GetMutationByDecree(e, x) = GetMutationByDecree(cache, x)
    BY <1>t, TruncatedState
  <1> HIDE DEF e
  <1>4. ListInv(e, d)
    <2>1. CASE e.interval = 0 BY <2>1, <1>2, <1>t, ResetListInv
    <2>2. CASE e.interval > 0
      BY <2>2, <1>1, <1>2, <1>t DEF ListInv, MaxDecree, MinDecree, Count
    <2>3. e.interval \in Nat BY <1>2, Fields, MaxCountAssumption
    <2> QED BY <2>1, <2>2, <2>3
  <1>5. Kept(cache, e, d) BY <1>3, <1>t, SameIsKept
  <1>6. PLInv' BY <1>1, <1>4, BecomeInv
  <1> QED BY <1>1, <1>5, <1>6 DEF Become, StepKeeps

\* reset leaves an empty list at its new commit point.
LEMMA ResetStep ==
    ASSUME PLInv, NEW d \in Decree, PLReset(d)
    PROVE  PLInv'
  <1>1. ListInv(ResetTo(d), d) BY DecreeAssumption, ResetListInv
  <1> QED BY <1>1, BecomeInv DEF PLReset
-------------------------------------------------------------------------------
\* The empty list of a new replica.
LEMMA PLInitInv == PLInit => PLInv
  <1> SUFFICES ASSUME NEW d \in Decree, cache = ResetTo(d), last_committed_decree = d,
                      logged = {}, ready = {}
               PROVE  PLInv
    BY DEF PLInit
  <1>1. ListInv(ResetTo(d), d) BY DecreeAssumption, ResetListInv
  <1> QED BY <1>1 DEF PLInv

\* Every step keeps the invariant, and all but a reset keep what is not committed.
LEMMA PLNextInv ==
    ASSUME PLInv, PLNext
    PROVE  PLInv' /\ (StepKeeps \/ \E d \in Decree : PLReset(d))
  BY PreparePrimaryStep, PrepareSecondaryStep, PrepareInactiveStep, CommitStep, FlagStep,
     TruncateStep, ResetStep DEF PLNext

(***************************************************************************)
(* The prepare list satisfies its invariant whatever its replica calls.    *)
(***************************************************************************)
THEOREM PrepareListInvariant == PLSpec => []PLInv
  <1>1. PLInv /\ [PLNext]_plvars => PLInv'
    <2> SUFFICES ASSUME PLInv, [PLNext]_plvars PROVE PLInv' OBVIOUS
    <2>1. CASE PLNext BY <2>1, PLNextInv
    <2>2. CASE UNCHANGED plvars BY <2>2 DEF plvars, PLInv, Held
    <2> QED BY <2>1, <2>2
  <1> QED BY <1>1, PLInitInv, PTL DEF PLSpec

\* The list is a well-formed ring, its flags are about mutations that it holds,
\* and only a logged mutation is ever ready for commit.
THEOREM PrepareListTypeCorrect == PLSpec => []PLTypeOK
  <1>1. PLInv => PLTypeOK BY DEF PLInv, ListInv, Good, PLTypeOK
  <1> QED BY <1>1, PrepareListInvariant, PTL

(***************************************************************************)
(* The loop of prepare that makes room ends for every decree, because the  *)
(* commit point is never beyond the list.                                  *)
(***************************************************************************)
THEOREM MakingRoomEnds == PLSpec => []PopLoopEnds
  <1>1. PLInv => PopLoopEnds
    <2> SUFFICES ASSUME PLInv, NEW d \in Preparable, NEW all \in BOOLEAN
                 PROVE  PopCommitted(cache, last_committed_decree, d, all) # Null
      BY DEF PopLoopEnds
    <2>1. /\ Good(cache) /\ last_committed_decree \in Nat
          /\ last_committed_decree <= cache.end_decree
      BY DEF PLInv, ListInv, MaxDecree
    <2>2. d \in Nat BY <2>1, StalenessAssumption DEF Preparable
    <2> QED BY <2>1, <2>2, PopCommittedState
  <1> QED BY <1>1, PrepareListInvariant, PTL

(***************************************************************************)
(* With a staleness bound below the capacity, as the two flags have it by  *)
(* default, put never refuses what bounded staleness lets a primary send.  *)
(***************************************************************************)
THEOREM PrepareFits ==
    ASSUME Staleness < MaxCount
    PROVE  PLSpec => []PrepareNeverRefused
  <1>1. PLInv => PrepareNeverRefused
    <2> SUFFICES ASSUME PLInv, NEW d \in Preparable
                 PROVE  HasRoom(PopCommitted(cache, last_committed_decree, d, FALSE), d)
      BY Zenon DEF PrepareNeverRefused
    <2> DEFINE lcd == last_committed_decree
               e   == PopCommitted(cache, lcd, d, FALSE)
    <2>1. /\ Good(cache) /\ lcd \in Nat /\ lcd <= cache.end_decree
          /\ cache.end_decree <= lcd + Staleness
      BY DEF PLInv, ListInv, MaxDecree
    <2>2. d \in Nat /\ lcd < d /\ d <= lcd + Staleness /\ Staleness \in Nat
      BY <2>1, StalenessAssumption DEF Preparable
    <2>3. Good(e) /\ e.end_decree = cache.end_decree /\ ~PopAgain(e, lcd, d, FALSE)
      BY Zenon, <2>1, <2>2, PopCommittedState
    <2> HIDE DEF e
    <2>4. /\ e.interval \in 0 .. MaxCount /\ e.start_decree \in Nat /\ e.end_decree \in Nat
          /\ MaxCount \in Nat \ {0}
      BY <2>3, Fields
    <2>5. e.interval > 0 => e.end_decree = e.start_decree + e.interval - 1
      BY <2>3, <2>4 DEF Good, FieldsAgree
    <2>6. d - e.start_decree < MaxCount
      BY <2>1, <2>2, <2>3, <2>4 DEF PopAgain, MinDecree
    <2>7. CASE e.interval = 0
      <3>1. Delta(e, d) + e.interval <= MaxCount BY <2>7, <2>4 DEF Delta
      <3> QED BY Zenon, <3>1 DEF HasRoom, e
    <2>8. CASE e.interval > 0 /\ d > e.end_decree
      <3>1. Delta(e, d) = d - e.end_decree BY <2>8, <2>4 DEF Delta
      <3>2. Delta(e, d) + e.interval <= MaxCount
        BY <3>1, <2>8, <2>2, <2>4, <2>5, <2>6
      <3> QED BY Zenon, <3>2 DEF HasRoom, e
    <2>9. CASE e.interval > 0 /\ ~(d > e.end_decree) /\ d < e.start_decree
      <3>1. Delta(e, d) = e.start_decree - d BY <2>9, <2>4 DEF Delta
      <3>2. Delta(e, d) + e.interval <= MaxCount
        BY <3>1, <2>9, <2>1, <2>2, <2>3, <2>4, <2>5
      <3> QED BY Zenon, <3>2 DEF HasRoom, e
    <2>10. CASE e.interval > 0 /\ ~(d > e.end_decree) /\ ~(d < e.start_decree)
      <3>1. Delta(e, d) = 0 BY <2>10, <2>4 DEF Delta
      <3>2. Delta(e, d) + e.interval <= MaxCount BY <3>1, <2>4
      <3> QED BY Zenon, <3>2 DEF HasRoom, e
    <2>11. e.interval = 0 \/ e.interval > 0 BY <2>4
    <2> QED BY Zenon, <2>7, <2>8, <2>9, <2>10, <2>11
  <1> QED BY <1>1, PrepareListInvariant, PTL

(***************************************************************************)
(* No prepare, commit or truncate drops a mutation above the commit point. *)
(***************************************************************************)
THEOREM UncommittedStays == PLSpec => UncommittedKept
  <1> DEFINE Step ==
        \/ \E d \in Decree : PLReset(d)
        \/ \A d \in last_committed_decree' + 1 .. MaxDecree(cache) :
             LET old == GetMutationByDecree(cache, d)
                 new == GetMutationByDecree(cache', d)
             IN  old # Null => new # Null /\ new.ballot >= old.ballot
  <1>1. PLInv /\ [PLNext]_plvars => [Step]_plvars
    <2> SUFFICES ASSUME PLInv, PLNext, ~\E d \in Decree : PLReset(d)
                 PROVE  Step
      OBVIOUS
    <2>1. StepKeeps /\ PLInv' BY PLNextInv
    <2>2. last_committed_decree' \in Nat /\ MaxDecree(cache) \in Nat
      BY <2>1, Fields DEF PLInv, ListInv, MaxDecree
    <2>3. ASSUME NEW d, d \in last_committed_decree' + 1 .. MaxDecree(cache),
                 GetMutationByDecree(cache, d) # Null
          PROVE  /\ GetMutationByDecree(cache', d) # Null
                 /\ GetMutationByDecree(cache', d).ballot >= GetMutationByDecree(cache, d).ballot
      <3> DEFINE a == last_committed_decree'
                 b == MaxDecree(cache)
      <3>1. d \in Nat /\ d > a
        <4>1. a \in Nat /\ b \in Nat /\ d \in a + 1 .. b BY Zenon, <2>2, <2>3
        <4> HIDE DEF a, b
        <4> QED BY <4>1
      <3> QED BY <3>1, <2>1, <2>3 DEF StepKeeps, Kept
    <2> QED BY <2>3
  <1>2. PLSpec => [][Step]_plvars BY <1>1, PrepareListInvariant, PTL DEF PLSpec
  <1> QED BY <1>2 DEF UncommittedKept
===============================================================================
