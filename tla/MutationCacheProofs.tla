------------------------- MODULE MutationCacheProofs -------------------------
(***************************************************************************)
(* The ring buffer of MutationCache, for every capacity: its inductive     *)
(* invariant, what a lookup answers, and that the ring implements the      *)
(* window of decrees of DecreeWindow.  The lemmas about an operation are   *)
(* about any ring c, so that PrepareListProofs can use them for the rings  *)
(* inside a loop of pops.                                                  *)
(***************************************************************************)
EXTENDS MutationCache, TLAPS

\* What % does to the sums that put, pop_min and the lookup form.
LEMMA ModRange ==
    ASSUME NEW M \in Nat \ {0}, NEW a \in Int
    PROVE  a % M \in 0 .. M - 1
  OBVIOUS

\* A remainder of a sum that wraps at most twice, by cases.
LEMMA ModWrap ==
    ASSUME NEW M \in Nat \ {0}, NEW a \in 0 .. 3 * M - 1
    PROVE  a % M = IF a < M THEN a ELSE IF a < 2 * M THEN a - M ELSE a - 2 * M
  <1>1. CASE a < M BY <1>1
  <1>2. CASE ~(a < M) /\ a < 2 * M BY <1>2
  <1>3. CASE ~(a < 2 * M) BY <1>3
  <1> QED BY <1>1, <1>2, <1>3

\* A ring whose fields are right; the inductive invariant is that cache is one.
Good(c) == c \in Cache /\ FieldsAgree(c) /\ SlotsAgree(c)
IInv == Good(cache)

\* What put requires of its caller and of the ring.
Accepts(c, mu) == /\ c.interval = 0 => mu.decree >= c.end_decree
                  /\ HasRoom(c, mu.decree)
                  /\ BallotCheck(c, mu)

\* The slot of the k-th decree, without %.
LEMMA SlotOfValue ==
    ASSUME NEW c, c.start_idx \in Slots, NEW k \in 0 .. MaxCount
    PROVE  SlotOf(c, k) = IF c.start_idx + k < MaxCount
                          THEN c.start_idx + k ELSE c.start_idx + k - MaxCount
  <1> DEFINE a == c.start_idx + k
  <1>1. a \in 0 .. 3 * MaxCount - 1 /\ a < 2 * MaxCount
    BY MaxCountAssumption DEF Slots
  <1>2. SlotOf(c, k) = a % MaxCount BY DEF SlotOf
  <1>3. a % MaxCount = IF a < MaxCount THEN a ELSE a - MaxCount
    <2> HIDE DEF a
    <2> QED BY <1>1, ModWrap, MaxCountAssumption
  <1> QED BY <1>2, <1>3, MaxCountAssumption DEF Slots

\* The first slot of the window is the one at start_idx.
LEMMA SlotOfZero ==
    ASSUME NEW c, c.start_idx \in Slots PROVE SlotOf(c, 0) = c.start_idx
  <1>1. SlotOf(c, 0) = (c.start_idx + 0) % MaxCount BY DEF SlotOf
  <1>2. \A a \in Slots : (a + 0) % MaxCount = a BY MaxCountAssumption DEF Slots
  <1> QED BY <1>1, <1>2

\* The constructor and reset leave a good ring.
LEMMA ResetGood ==
    ASSUME NEW d \in Nat
    PROVE  Good(ResetTo(d))
  <1> DEFINE c == ResetTo(d)
  <1>1. c \in Cache
    BY MaxCountAssumption DEF Cache, ResetTo, Slots
  <1>2. FieldsAgree(c)
    <2>1. SlotOf(c, 0) = 0
      BY SlotOfValue, MaxCountAssumption DEF ResetTo, Slots
    <2> QED BY <2>1 DEF FieldsAgree, ResetTo
  <1>3. SlotsAgree(c) BY DEF SlotsAgree, ResetTo
  <1> QED BY <1>1, <1>2, <1>3 DEF Good

\* pop_min keeps a ring good, also when it empties it.
LEMMA PopGood ==
    ASSUME NEW c, NEW e, Good(c), c.interval > 0, e = PopMinOf(c)
    PROVE  Good(e)
  <1> DEFINE M == MaxCount
             s == c.start_idx
             n == c.interval
  <1>t. /\ M \in Nat \ {0}
        /\ c.array \in [Slots -> Mutation \cup {Null}]
        /\ n \in 1 .. M
        /\ s \in 0 .. M - 1 /\ s \in Slots
        /\ c.end_idx \in Slots
        /\ c.start_decree \in Nat
        /\ c.end_decree \in Nat
    BY MaxCountAssumption DEF Good, Cache, Slots
  <1>n. e.start_idx = (IF s + 1 < M THEN s + 1 ELSE s + 1 - M)
    <2>1. e.start_idx = SlotOf(c, 1) BY DEF PopMinOf, SlotOf
    <2> QED BY <2>1, <1>t, SlotOfValue
  <1>s. e.start_idx \in Slots BY <1>n, <1>t DEF Slots
  <1>1. e \in Cache
    <2>1. /\ e.array \in [Slots -> Mutation \cup {Null}]
          /\ e.interval \in 0 .. MaxCount
          /\ e.end_idx \in Slots
          /\ e.start_decree \in Nat
          /\ e.end_decree \in Nat
      BY <1>t, <1>s DEF PopMinOf
    <2>2. e = [array |-> e.array, interval |-> e.interval,
                    start_idx |-> e.start_idx, end_idx |-> e.end_idx,
                    start_decree |-> e.start_decree, end_decree |-> e.end_decree]
      BY DEF PopMinOf
    <2> QED BY <2>1, <2>2, <1>s DEF Cache
  <1>v. \A k \in 0 .. M : /\ SlotOf(c, k) = (IF s + k < M THEN s + k ELSE s + k - M)
                          /\ SlotOf(e, k) =
                               (IF e.start_idx + k < M
                                THEN e.start_idx + k ELSE e.start_idx + k - M)
    BY <1>t, <1>s, SlotOfValue
  <1>2. FieldsAgree(e)
    <2>1. CASE n = 1
      <3>1. SlotOf(e, 0) = e.start_idx
        BY <1>s, SlotOfZero
      <3> QED BY <2>1, <3>1, <1>t DEF FieldsAgree, PopMinOf
    <2>2. CASE n > 1
      <3>1. SlotOf(e, n - 2) = SlotOf(c, n - 1)
        <4>1. n - 2 \in 0 .. M /\ n - 1 \in 0 .. M BY <1>t, <2>2
        <4> QED BY <4>1, <1>v, <1>n, <1>t
      <3>2. c.end_idx = SlotOf(c, n - 1) /\ c.end_decree = c.start_decree + n - 1
        BY <2>2, <1>t DEF Good, FieldsAgree
      <3>3. e.interval = n - 1 /\ e.end_idx = c.end_idx
            /\ e.end_decree = c.end_decree /\ e.start_decree = c.start_decree + 1
        BY <2>2, <1>t DEF PopMinOf
      <3> QED BY <3>1, <3>2, <3>3, <2>2, <1>t DEF FieldsAgree
    <2> QED BY <2>1, <2>2, <1>t
  <1>3. SlotsAgree(e)
    <2> SUFFICES ASSUME NEW i \in Slots, e.array[i] # Null
                 PROVE  \E k \in 0 .. e.interval - 1 :
                          /\ i = SlotOf(e, k)
                          /\ e.array[i].decree = e.start_decree + k
      BY DEF SlotsAgree
    <2>1. i # s /\ e.array[i] = c.array[i]
      BY <1>t DEF PopMinOf
    <2>2. PICK k \in 0 .. n - 1 : /\ i = SlotOf(c, k)
                                  /\ c.array[i].decree = c.start_decree + k
      BY <2>1 DEF Good, SlotsAgree
    <2>3. k # 0 BY <2>1, <2>2, <1>v, <1>t
    <2>4. k - 1 \in 0 .. e.interval - 1 /\ e.start_decree = c.start_decree + 1
      BY <2>2, <2>3, <1>t DEF PopMinOf
    <2>5. SlotOf(e, k - 1) = i
      <3>1. k \in 0 .. M /\ k - 1 \in 0 .. M BY <2>2, <2>3, <1>t
      <3> QED BY <3>1, <2>2, <1>v, <1>n, <1>t
    <2>6. e.array[i].decree = e.start_decree + (k - 1)
      BY <2>1, <2>2, <2>4, <1>t
    <2> QED BY <2>4, <2>5, <2>6
  <1> QED BY <1>1, <1>2, <1>3 DEF Good

\* The types of the fields, in the form the steps below use.
LEMMA Fields ==
    ASSUME NEW c, Good(c)
    PROVE  /\ MaxCount \in Nat \ {0}
           /\ c.array \in [Slots -> Mutation \cup {Null}]
           /\ c.interval \in 0 .. MaxCount
           /\ c.start_idx \in 0 .. MaxCount - 1 /\ c.start_idx \in Slots
           /\ c.end_idx \in 0 .. MaxCount - 1 /\ c.end_idx \in Slots
           /\ c.start_decree \in Nat
           /\ c.end_decree \in Nat
  BY MaxCountAssumption DEF Good, Cache, Slots

\* The slot that put writes lies in the array.
LEMMA PutIdxInSlots ==
    ASSUME NEW c, Good(c), NEW d \in Nat
    PROVE  PutIdx(c, d) \in Slots
  <1>1. (d - c.end_decree) + c.end_idx + MaxCount \in Int BY Fields
  <1> QED BY <1>1, MaxCountAssumption, ModRange DEF PutIdx, Slots

\* SlotOf answers a slot of the array.
LEMMA SlotOfInSlots ==
    ASSUME NEW c, c.start_idx \in Slots, NEW k \in Int
    PROVE  SlotOf(c, k) \in Slots
  <1>1. c.start_idx + k \in Int BY MaxCountAssumption DEF Slots
  <1> QED BY <1>1, ModRange, MaxCountAssumption DEF SlotOf, Slots

\* put and the lookup agree on the slot of a decree, also of one that put is
\* about to add in front of the window or behind it.
LEMMA PutIdxValue ==
    ASSUME NEW c, Good(c), c.interval > 0, NEW d \in Nat, HasRoom(c, d)
    PROVE  LET q == c.start_idx + (d - c.start_decree)
           IN  PutIdx(c, d) = IF q < 0 THEN q + MaxCount
                                  ELSE IF q < MaxCount THEN q ELSE q - MaxCount
  <1> DEFINE M == MaxCount
             s == c.start_idx
             n == c.interval
             q == s + (d - c.start_decree)
             a == (d - c.end_decree) + c.end_idx + M
  <1>t. /\ M \in Nat \ {0} /\ n \in 1 .. M /\ s \in 0 .. M - 1
        /\ c.start_decree \in Nat /\ c.end_decree \in Nat
        /\ c.end_idx \in 0 .. M - 1
    BY Fields
  <1>1. /\ c.end_decree = c.start_decree + (n - 1)
        /\ c.end_idx = IF s + (n - 1) < M THEN s + (n - 1) ELSE s + (n - 1) - M
    <2>1. n - 1 \in 0 .. M BY <1>t
    <2>2. SlotOf(c, n - 1) = IF s + (n - 1) < M THEN s + (n - 1) ELSE s + (n - 1) - M
      BY <2>1, Fields, SlotOfValue
    <2> QED BY <2>2, <1>t DEF Good, FieldsAgree
  <1>2. d - c.start_decree \in n - M .. M - 1
    <2>1. CASE d > c.end_decree
      BY <2>1, <1>1, <1>t DEF HasRoom, Delta
    <2>2. CASE d < c.start_decree
      BY <2>2, <1>1, <1>t DEF HasRoom, Delta
    <2>3. CASE d \in c.start_decree .. c.end_decree
      BY <2>3, <1>1, <1>t
    <2> QED BY <2>1, <2>2, <2>3, <1>t
  <1>3. a = q + M \/ a = q
    BY <1>1, <1>t
  <1>4. a \in 0 .. 3 * M - 1 /\ q \in 1 - M .. 2 * M - 1 /\ (a = q => q >= 0)
    BY <1>1, <1>2, <1>3, <1>t
  <1>5. a % M = IF a < M THEN a ELSE IF a < 2 * M THEN a - M ELSE a - 2 * M
    <2> HIDE DEF a
    <2> QED BY <1>4, <1>t, ModWrap
  <1>6. PutIdx(c, d) = a % M BY DEF PutIdx
  <1>7. a % M = IF q < 0 THEN q + M ELSE IF q < M THEN q ELSE q - M
    <2> HIDE DEF a, q
    <2> QED BY <1>3, <1>4, <1>5, <1>t
  <1> QED BY <1>6, <1>7

\* put keeps a ring good, whichever side of the window it extends.
LEMMA PutGood ==
    ASSUME NEW c, NEW e, Good(c), NEW mu \in Mutation, Accepts(c, mu), e = PutIn(c, mu)
    PROVE  Good(e)
  <1> DEFINE M   == MaxCount
             s   == c.start_idx
             n   == c.interval
             d   == mu.decree
             idx == PutIdx(c, d)
  <1>t. /\ M \in Nat \ {0} /\ n \in 0 .. M /\ s \in 0 .. M - 1 /\ s \in Slots
        /\ c.array \in [Slots -> Mutation \cup {Null}]
        /\ c.end_idx \in Slots
        /\ c.start_decree \in Nat /\ c.end_decree \in Nat
        /\ d \in Nat /\ mu # Null
    BY Fields, MutationAssumption
  <1>i. idx \in Slots BY <1>t, PutIdxInSlots
  <1>c. e = PutIn(c, mu) /\ HasRoom(c, d) BY DEF Accepts
  <1>a. /\ e.array = [c.array EXCEPT ![idx] = mu]
        /\ e.interval = n + Delta(c, d)
    BY <1>c DEF PutIn
  <1>1. e \in Cache
    <2>1. e.array \in [Slots -> Mutation \cup {Null}] BY <1>a, <1>t, <1>i
    <2>2. e.interval \in 0 .. MaxCount
      BY <1>a, <1>c, <1>t DEF HasRoom, Delta
    <2>3. /\ e.start_idx \in Slots /\ e.end_idx \in Slots
          /\ e.start_decree \in Nat /\ e.end_decree \in Nat
      BY <1>c, <1>t, <1>i DEF PutIn
    <2>4. e = [array |-> e.array, interval |-> e.interval,
                    start_idx |-> e.start_idx, end_idx |-> e.end_idx,
                    start_decree |-> e.start_decree, end_decree |-> e.end_decree]
      BY <1>c DEF PutIn
    <2> QED BY <2>1, <2>2, <2>3, <2>4 DEF Cache
  <1>2. CASE n = 0
    <2>1. /\ e.interval = 1 /\ e.start_idx = idx /\ e.end_idx = idx
          /\ e.start_decree = d /\ e.end_decree = d
      BY <1>2, <1>c DEF PutIn, Delta
    <2>2. SlotOf(e, 0) = idx BY <2>1, <1>i, SlotOfZero
    <2>3. FieldsAgree(e) BY <2>1, <2>2, <1>t DEF FieldsAgree
    <2>4. SlotsAgree(e)
      <3> SUFFICES ASSUME NEW i \in Slots, e.array[i] # Null
                   PROVE  i = SlotOf(e, 0) /\ e.array[i].decree = d
        BY <2>1, <1>t DEF SlotsAgree
      <3>1. c.array[i] = Null BY <1>2, <1>t DEF Good, SlotsAgree
      <3> QED BY <3>1, <2>2, <1>a, <1>t, <1>i
    <2> QED BY <1>1, <2>3, <2>4 DEF Good
  <1>3. CASE n > 0
    <2> DEFINE q == s + (d - c.start_decree)
    <2>1. idx = IF q < 0 THEN q + M ELSE IF q < M THEN q ELSE q - M
      BY <1>3, <1>c, <1>t, PutIdxValue
    <2>2. /\ c.end_decree = c.start_decree + (n - 1)
          /\ c.end_idx = SlotOf(c, n - 1)
      BY <1>3, <1>t DEF Good, FieldsAgree
    <2>v. \A k \in 0 .. M : SlotOf(c, k) = IF s + k < M THEN s + k ELSE s + k - M
      BY <1>t, SlotOfValue
    <2>w. \A k \in 0 .. M : SlotOf(e, k) = IF e.start_idx + k < M
                             THEN e.start_idx + k ELSE e.start_idx + k - M
      BY <1>1, SlotOfValue DEF Cache
    <2>3. CASE d \in c.start_decree .. c.end_decree
      <3>1. /\ e.interval = n /\ e.start_idx = s
            /\ e.end_idx = c.end_idx
            /\ e.start_decree = c.start_decree
            /\ e.end_decree = c.end_decree
        BY <2>3, <1>3, <1>c, <1>t DEF PutIn, Delta
      <3>2. \A k : SlotOf(e, k) = SlotOf(c, k) BY <3>1 DEF SlotOf
      <3>3. FieldsAgree(e) BY <3>1, <3>2, <2>2, <1>3, <1>t DEF FieldsAgree
      <3>4. SlotsAgree(e)
        <4> SUFFICES ASSUME NEW i \in Slots, e.array[i] # Null
                     PROVE  \E k \in 0 .. n - 1 :
                              /\ i = SlotOf(c, k)
                              /\ e.array[i].decree = c.start_decree + k
          BY <3>1, <3>2 DEF SlotsAgree
        <4>1. CASE i = idx
          <5> DEFINE k == d - c.start_decree
          <5>1. k \in 0 .. n - 1 /\ k \in 0 .. M /\ d = c.start_decree + k
            BY <2>3, <2>2, <1>t
          <5>2. SlotOf(c, k) = idx BY <5>1, <2>1, <2>v, <1>t
          <5> QED BY <4>1, <5>1, <5>2, <1>a, <1>t, <1>i
        <4>2. CASE i # idx
          <5>1. e.array[i] = c.array[i] BY <4>2, <1>a, <1>t, <1>i
          <5> QED BY <5>1 DEF Good, SlotsAgree
        <4> QED BY <4>1, <4>2
      <3> QED BY <1>1, <3>3, <3>4 DEF Good
    <2>4. CASE d > c.end_decree
      <3>1. /\ e.interval = d - c.start_decree + 1 /\ e.start_idx = s
            /\ e.end_idx = idx
            /\ e.start_decree = c.start_decree
            /\ e.end_decree = d
        BY <2>4, <2>2, <1>3, <1>c, <1>t DEF PutIn, Delta
      <3>2. \A k : SlotOf(e, k) = SlotOf(c, k) BY <3>1 DEF SlotOf
      <3> DEFINE k0 == d - c.start_decree
      <3>3. /\ k0 \in n .. M - 1 /\ k0 \in 0 .. M
            /\ k0 \in 0 .. e.interval - 1 /\ d = c.start_decree + k0
        BY <3>1, <2>4, <2>2, <1>1, <1>t DEF Cache
      <3>4. SlotOf(c, k0) = idx BY <3>3, <2>1, <2>v, <1>t
      <3>5. FieldsAgree(e) BY <3>1, <3>2, <3>3, <3>4, <1>t DEF FieldsAgree
      <3>6. SlotsAgree(e)
        <4> SUFFICES ASSUME NEW i \in Slots, e.array[i] # Null
                     PROVE  \E k \in 0 .. e.interval - 1 :
                              /\ i = SlotOf(c, k)
                              /\ e.array[i].decree = c.start_decree + k
          BY <3>1, <3>2 DEF SlotsAgree
        <4>1. CASE i = idx
          BY <4>1, <3>3, <3>4, <1>a, <1>t, <1>i
        <4>2. CASE i # idx
          <5>1. e.array[i] = c.array[i] BY <4>2, <1>a, <1>t, <1>i
          <5>2. PICK k \in 0 .. n - 1 : /\ i = SlotOf(c, k)
                                        /\ c.array[i].decree = c.start_decree + k
            BY <5>1 DEF Good, SlotsAgree
          <5>3. k \in 0 .. e.interval - 1 BY <3>1, <3>3, <1>t
          <5> QED BY <5>1, <5>2, <5>3
        <4> QED BY <4>1, <4>2
      <3> QED BY <1>1, <3>5, <3>6 DEF Good
    <2>5. CASE d < c.start_decree
      <3> DEFINE g == c.start_decree - d
      <3>1. /\ e.interval = n + g /\ e.start_idx = idx
            /\ e.end_idx = c.end_idx
            /\ e.start_decree = d
            /\ e.end_decree = c.end_decree
        BY <2>5, <2>2, <1>3, <1>c, <1>t DEF PutIn, Delta
      <3>2. g \in 1 .. M - n
        BY <3>1, <2>5, <1>1, <1>t DEF Cache
      <3>3. idx = IF s - g < 0 THEN s - g + M ELSE s - g
        BY <2>1, <3>2, <2>5, <1>t
      <3>4. \A k \in 0 .. n - 1 : SlotOf(e, k + g) = SlotOf(c, k)
        <4> SUFFICES ASSUME NEW k \in 0 .. n - 1
                     PROVE  SlotOf(e, k + g) = SlotOf(c, k)
          OBVIOUS
        <4>1. k \in 0 .. M /\ k + g \in 0 .. M BY <3>2, <1>t
        <4>2. SlotOf(c, k) = IF s + k < M THEN s + k ELSE s + k - M
          BY <4>1, <2>v
        <4>3. SlotOf(e, k + g) = IF idx + (k + g) < M THEN idx + (k + g)
                                      ELSE idx + (k + g) - M
          BY <4>1, <2>w, <3>1
        <4> HIDE DEF g, idx
        <4> QED BY <4>1, <4>2, <4>3, <3>3, <3>2, <1>t
      <3>5. SlotOf(e, 0) = idx BY <3>1, <1>i, SlotOfZero
      <3>6. FieldsAgree(e)
        <4>1. n - 1 \in 0 .. n - 1 /\ (n - 1) + g = e.interval - 1
          BY <3>1, <3>2, <1>3, <1>t
        <4>2. SlotOf(e, e.interval - 1) = c.end_idx
          BY <4>1, <3>4, <2>2
        <4> QED BY <4>1, <4>2, <3>1, <3>2, <2>2, <1>t DEF FieldsAgree
      <3>7. SlotsAgree(e)
        <4> SUFFICES ASSUME NEW i \in Slots, e.array[i] # Null
                     PROVE  \E k \in 0 .. e.interval - 1 :
                              /\ i = SlotOf(e, k)
                              /\ e.array[i].decree = d + k
          BY <3>1 DEF SlotsAgree
        <4>1. CASE i = idx
          <5>1. 0 \in 0 .. e.interval - 1 BY <3>1, <3>2, <1>t
          <5> QED BY <4>1, <5>1, <3>5, <1>a, <1>t, <1>i
        <4>2. CASE i # idx
          <5>1. e.array[i] = c.array[i] BY <4>2, <1>a, <1>t, <1>i
          <5>2. PICK k \in 0 .. n - 1 : /\ i = SlotOf(c, k)
                                        /\ c.array[i].decree = c.start_decree + k
            BY <5>1 DEF Good, SlotsAgree
          <5>3. k + g \in 0 .. e.interval - 1 /\ c.start_decree + k = d + (k + g)
            BY <3>1, <3>2, <1>t
          <5> QED BY <5>1, <5>2, <5>3, <3>4
        <4> QED BY <4>1, <4>2
      <3> QED BY <1>1, <3>6, <3>7 DEF Good
    <2> QED BY <2>3, <2>4, <2>5, <1>t
  <1> QED BY <1>2, <1>3, <1>t

\* The constructor establishes the invariant.
LEMMA InitIInv == Init => IInv
  BY ResetGood, DecreeAssumption DEF Init, IInv

\* Every operation of the cache keeps the invariant.
LEMMA NextIInv == IInv /\ [Next]_cache => IInv'
  <1> SUFFICES ASSUME IInv, [Next]_cache PROVE IInv' OBVIOUS
  <1>1. ASSUME NEW mu \in Mutation, Put(mu) PROVE IInv' BY <1>1, PutGood DEF IInv, Put, Accepts
  <1>2. CASE UNCHANGED cache
    BY <1>2 DEF IInv
  <1>3. ASSUME NEW mu \in Mutation, PutRefused(mu) PROVE IInv'
    BY <1>2, <1>3 DEF PutRefused
  <1>4. CASE PopMin
    <2>1. CASE cache.interval > 0
      BY <1>4, <2>1, PopGood, Fields DEF IInv, PopMin
    <2>2. CASE cache.interval <= 0 BY <1>4, <2>2, <1>2 DEF PopMin
    <2> QED BY <2>1, <2>2, Fields DEF IInv
  <1>5. ASSUME NEW d \in Decree, Reset(d) PROVE IInv' BY <1>5, ResetGood, DecreeAssumption DEF IInv, Reset
  <1> QED BY <1>1, <1>2, <1>3, <1>4, <1>5 DEF Next

(***************************************************************************)
(* The fields of mutation_cache agree with one another in every reachable  *)
(* state, for every capacity: the invariant that all of the facts below    *)
(* rest on.                                                                *)
(***************************************************************************)
THEOREM RingInvariant == Spec => []IInv
  BY InitIInv, NextIInv, PTL DEF Spec

\* put, pop_min and reset keep the indices inside the array and the interval
\* within the capacity.
THEOREM TypeCorrect == Spec => []TypeOK
  BY RingInvariant, PTL DEF IInv, Good, TypeOK

\* The array holds nothing but the mutations of the window, each in the slot
\* of its own decree.
THEOREM SlotsHoldWindow == Spec => []SlotInv
  BY RingInvariant, PTL DEF IInv, Good, SlotInv
-------------------------------------------------------------------------------
\* The lookup of a decree of the window reads the slot of that decree.
LEMMA LookupSlot ==
    ASSUME NEW c, c.start_idx \in Slots, c.start_decree \in Nat,
           c.interval \in 1 .. MaxCount,
           c.end_decree = c.start_decree + (c.interval - 1),
           NEW d \in c.start_decree .. c.end_decree
    PROVE  GetMutationByDecree(c, d) = c.array[SlotOf(c, d - c.start_decree)]
  <1> DEFINE k == d - c.start_decree
             a == c.start_idx + k + MaxCount
  <1>1. k \in 0 .. MaxCount - 1 /\ k \in 0 .. MaxCount BY MaxCountAssumption
  <1>2. SlotOf(c, k) = IF c.start_idx + k < MaxCount
                       THEN c.start_idx + k ELSE c.start_idx + k - MaxCount
    BY <1>1, SlotOfValue
  <1>3. a \in 0 .. 3 * MaxCount - 1 /\ a >= MaxCount
    BY <1>1, MaxCountAssumption DEF Slots
  <1>4. a % MaxCount = IF a < 2 * MaxCount THEN a - MaxCount ELSE a - 2 * MaxCount
    <2> HIDE DEF a
    <2>1. a % MaxCount = IF a < MaxCount THEN a
                         ELSE IF a < 2 * MaxCount THEN a - MaxCount ELSE a - 2 * MaxCount
      BY <1>3, ModWrap, MaxCountAssumption
    <2> QED BY <2>1, <1>3, MaxCountAssumption
  <1>5. a % MaxCount = SlotOf(c, k)
    BY <1>1, <1>2, <1>4, MaxCountAssumption DEF Slots
  <1>6. GetMutationByDecree(c, d) = c.array[a % MaxCount]
    BY MaxCountAssumption DEF GetMutationByDecree
  <1> QED BY <1>5, <1>6

\* Different decrees of the window have different slots.
LEMMA SlotInjective ==
    ASSUME NEW c, c.start_idx \in Slots,
           NEW j \in 0 .. MaxCount - 1, NEW k \in 0 .. MaxCount - 1, j # k
    PROVE  SlotOf(c, j) # SlotOf(c, k)
  <1>1. j \in 0 .. MaxCount /\ k \in 0 .. MaxCount BY MaxCountAssumption
  <1>2. SlotOf(c, j) = IF c.start_idx + j < MaxCount
                       THEN c.start_idx + j ELSE c.start_idx + j - MaxCount
    BY <1>1, SlotOfValue
  <1>3. SlotOf(c, k) = IF c.start_idx + k < MaxCount
                       THEN c.start_idx + k ELSE c.start_idx + k - MaxCount
    BY <1>1, SlotOfValue
  <1>4. ASSUME NEW s \in 0 .. MaxCount - 1
        PROVE (IF s + j < MaxCount THEN s + j ELSE s + j - MaxCount)
              # (IF s + k < MaxCount THEN s + k ELSE s + k - MaxCount)
    BY MaxCountAssumption
  <1> QED BY <1>2, <1>3, <1>4 DEF Slots

\* An empty ring has no mutation in any slot.
LEMMA EmptyIsNull ==
    ASSUME NEW c, Good(c), c.interval = 0
    PROVE  \A i \in Slots : c.array[i] = Null
  BY DEF Good, SlotsAgree

\* A lookup in a good ring finds a mutation of its decree or nothing.
LEMMA LookupDecree ==
    ASSUME NEW c, Good(c), NEW d \in Nat, GetMutationByDecree(c, d) # Null
    PROVE  GetMutationByDecree(c, d).decree = d
  <1>1. d \in c.start_decree .. c.end_decree
    BY Fields DEF GetMutationByDecree
  <1>2. CASE c.interval = 0
    <2>1. (c.start_idx + (d - c.start_decree) + MaxCount) % MaxCount \in Slots
      <3>1. c.start_idx + (d - c.start_decree) + MaxCount \in Int
        BY Fields
      <3> QED BY <3>1, ModRange, MaxCountAssumption DEF Slots
    <2> QED BY <1>2, <1>1, <2>1, EmptyIsNull DEF GetMutationByDecree
  <1>3. CASE c.interval > 0
    <2> DEFINE k == d - c.start_decree
    <2>1. c.end_decree = c.start_decree + (c.interval - 1)
      BY <1>3, Fields DEF Good, FieldsAgree
    <2>2. k \in 0 .. MaxCount - 1 /\ k \in 0 .. MaxCount /\ d = c.start_decree + k
      BY <1>1, <2>1, Fields
    <2>3. GetMutationByDecree(c, d) = c.array[SlotOf(c, k)]
      BY <1>1, <1>3, <2>1, Fields, LookupSlot
    <2>4. SlotOf(c, k) \in Slots
      <3>1. c.start_idx + k \in Int BY <2>2, Fields
      <3> QED BY <3>1, ModRange, MaxCountAssumption DEF SlotOf, Slots
    <2>5. PICK j \in 0 .. c.interval - 1 :
            /\ SlotOf(c, k) = SlotOf(c, j)
            /\ c.array[SlotOf(c, k)].decree = c.start_decree + j
      BY <2>3, <2>4 DEF Good, SlotsAgree
    <2>6. j \in 0 .. MaxCount - 1 BY Fields
    <2>7. j = k BY <2>2, <2>5, <2>6, Fields, SlotInjective
    <2> QED BY <2>2, <2>3, <2>5, <2>7
  <1> QED BY <1>2, <1>3, Fields

\* get_mutation_by_decree(d) answers a mutation of decree d or nothing.
THEOREM LookupByDecree == Spec => []GetByDecreeInv
  <1>1. IInv => GetByDecreeInv
    BY LookupDecree, DecreeAssumption DEF IInv, GetByDecreeInv
  <1> QED BY RingInvariant, <1>1, PTL
-------------------------------------------------------------------------------
\* The lookups of a ring, as slots.
LEMMA WindowLookup ==
    ASSUME NEW c, Good(c),
           NEW x \in c.start_decree .. c.start_decree + c.interval - 1
    PROVE  /\ x - c.start_decree \in 0 .. MaxCount - 1
           /\ GetMutationByDecree(c, x)
                = c.array[SlotOf(c, x - c.start_decree)]
  <1>1. c.interval > 0 BY Fields
  <1>2. c.end_decree = c.start_decree + (c.interval - 1)
    BY <1>1, Fields DEF Good, FieldsAgree
  <1>3. x \in c.start_decree .. c.end_decree BY <1>2, Fields
  <1> QED BY <1>1, <1>2, <1>3, Fields, LookupSlot

\* pop_min takes the lowest decree from the window and nothing else.
LEMMA PopLookup ==
    ASSUME NEW c, NEW e, Good(c), c.interval > 0, e = PopMinOf(c)
    PROVE  LET lo == c.start_decree
               n  == c.interval
           IN  /\ e.interval = n - 1
               /\ e.start_decree = IF n = 1 THEN lo ELSE lo + 1
               /\ e.end_decree = c.end_decree
               /\ \A x \in lo + 1 .. lo + n - 1 :
                     GetMutationByDecree(e, x) = GetMutationByDecree(c, x)
  <1> DEFINE n  == c.interval
             lo == c.start_decree
             s  == c.start_idx
  <1>t. /\ MaxCount \in Nat \ {0} /\ n \in 1 .. MaxCount /\ s \in Slots
        /\ lo \in Nat /\ c.array \in [Slots -> Mutation \cup {Null}]
    BY Fields
  <1>g. Good(e) BY PopGood
  <1>1. /\ e.interval = n - 1
        /\ e.start_decree = IF n = 1 THEN lo ELSE lo + 1
        /\ e.array = [c.array EXCEPT ![s] = Null]
        /\ e.start_idx = SlotOf(c, 1)
    BY DEF PopMinOf, SlotOf
  <1>2. e.start_decree .. e.start_decree + e.interval - 1
          = lo + 1 .. lo + n - 1
    BY <1>1, <1>t
  <1>3. ASSUME NEW x \in lo + 1 .. lo + n - 1
        PROVE  GetMutationByDecree(e, x) = GetMutationByDecree(c, x)
    <2>1. /\ GetMutationByDecree(c, x) = c.array[SlotOf(c, x - lo)]
          /\ x - lo \in 0 .. MaxCount - 1 /\ x - lo # 0
      BY <1>t, WindowLookup
    <2>2. /\ GetMutationByDecree(e, x)
               = e.array[SlotOf(e, x - e.start_decree)]
          /\ x - e.start_decree \in 0 .. MaxCount - 1
      BY <1>2, <1>g, WindowLookup
    <2>3. x - e.start_decree = (x - lo) - 1 BY <1>1, <1>t
    <2>4. SlotOf(e, (x - lo) - 1) = SlotOf(c, x - lo)
      <3> DEFINE k == x - lo
      <3>1. k \in 1 .. MaxCount - 1 /\ k \in 0 .. MaxCount
            /\ k - 1 \in 0 .. MaxCount /\ 1 \in 0 .. MaxCount
        BY <2>1, <1>t
      <3> HIDE DEF k
      <3>2. SlotOf(c, k) = IF s + k < MaxCount THEN s + k ELSE s + k - MaxCount
        BY <3>1, <1>t, SlotOfValue
      <3>3. e.start_idx = IF s + 1 < MaxCount THEN s + 1 ELSE s + 1 - MaxCount
        BY <3>1, <1>1, <1>t, SlotOfValue
      <3>4. e.start_idx \in Slots BY <1>g DEF Good, Cache
      <3>5. SlotOf(e, k - 1) = IF e.start_idx + (k - 1) < MaxCount
                                    THEN e.start_idx + (k - 1)
                                    ELSE e.start_idx + (k - 1) - MaxCount
        BY <3>1, <3>4, SlotOfValue
      <3>6. SlotOf(e, k - 1) = SlotOf(c, k)
        <4>1. s \in 0 .. MaxCount - 1 BY <1>t DEF Slots
        <4>2. CASE s + 1 < MaxCount BY <4>1, <4>2, <3>1, <3>2, <3>3, <3>5, <1>t
        <4>3. CASE ~(s + 1 < MaxCount) BY <4>1, <4>3, <3>1, <3>2, <3>3, <3>5, <1>t
        <4> QED BY <4>2, <4>3
      <3> QED BY <3>6 DEF k
    <2>5. SlotOf(c, x - lo) # s
      <3>1. 0 \in 0 .. MaxCount - 1 BY <1>t
      <3> QED BY <3>1, <2>1, <1>t, SlotOfZero, SlotInjective
    <2>6. SlotOf(c, x - lo) \in Slots
      BY <2>1, <1>t, SlotOfInSlots
    <2> QED BY <2>1, <2>2, <2>3, <2>4, <2>5, <2>6, <1>1, <1>t
  <1>4. e.end_decree = c.end_decree
    BY <1>t DEF PopMinOf, Good, FieldsAgree
  <1> QED BY <1>1, <1>3, <1>4

\* put adds its mutation to the window, and with it the decrees of the gap.
LEMMA PutLookup ==
    ASSUME NEW c, NEW e, Good(c), NEW mu \in Mutation, Accepts(c, mu), e = PutIn(c, mu)
    PROVE  LET n  == c.interval
               lo == c.start_decree
               d  == mu.decree
               l  == IF n = 0 \/ d < lo THEN d ELSE lo
               h  == IF n = 0 \/ d > lo + n - 1 THEN d ELSE lo + n - 1
           IN  /\ d \in Nat /\ d \in l .. h /\ l \in Nat /\ h \in Nat /\ h - l + 1 <= MaxCount
               /\ e.start_decree = l /\ e.interval = h - l + 1 /\ e.end_decree = h
               /\ n > 0 => lo .. lo + n - 1 \subseteq l .. h
               /\ d \in lo .. lo + n - 1 =>
                     GetMutationByDecree(c, d) = Null
                     \/ GetMutationByDecree(c, d).ballot <= mu.ballot
               /\ \A x \in l .. h : GetMutationByDecree(e, x) =
                     IF x = d THEN mu
                     ELSE IF x \in lo .. lo + n - 1 THEN GetMutationByDecree(c, x) ELSE Null
  <1> DEFINE n   == c.interval
             lo  == c.start_decree
             s   == c.start_idx
             d   == mu.decree
             idx == PutIdx(c, d)
             l   == IF n = 0 \/ d < lo THEN d ELSE lo
             h   == IF n = 0 \/ d > lo + n - 1 THEN d ELSE lo + n - 1
  <1>t. /\ MaxCount \in Nat \ {0} /\ n \in 0 .. MaxCount /\ s \in 0 .. MaxCount - 1
        /\ s \in Slots /\ lo \in Nat /\ d \in Nat
        /\ c.array \in [Slots -> Mutation \cup {Null}]
        /\ c.end_decree \in Nat
    BY Fields, MutationAssumption
  <1>e. c.end_decree = IF n = 0 THEN lo ELSE lo + n - 1
    BY <1>t DEF Good, FieldsAgree
  <1>good. Good(e) BY PutGood
  <1>c. /\ e = PutIn(c, mu) /\ HasRoom(c, d) /\ BallotCheck(c, mu)
        /\ n = 0 => d >= lo
    BY <1>e DEF Accepts
  <1>1. /\ e.array = [c.array EXCEPT ![idx] = mu]
        /\ e.start_decree = l
        /\ e.interval = h - l + 1
        /\ e.start_idx = IF n = 0 \/ d < lo THEN idx ELSE s
    BY <1>c, <1>e, <1>t DEF PutIn, Delta
  <1>2. h - l + 1 <= MaxCount /\ l \in Nat /\ h \in Nat /\ d \in l .. h
    BY <1>c, <1>e, <1>t DEF HasRoom, Delta
  <1>3. l .. l + (h - l + 1) - 1 = l .. h BY <1>2
  <1>f. /\ n = 0 \/ d < lo => l = d
        /\ ~(n = 0 \/ d < lo) => l = lo
        /\ n > 0 => l <= lo /\ h >= lo + n - 1
        /\ n > 0 /\ d < lo => h = lo + n - 1
    BY <1>t
  <1> HIDE DEF l, h
  <1>i. idx \in Slots BY <1>t, PutIdxInSlots
  <1> HIDE DEF idx
  <1>k. e.start_idx \in Slots BY <1>good DEF Good, Cache
  <1>g. ASSUME NEW x \in l .. h
        PROVE  /\ x - l \in 0 .. MaxCount - 1
               /\ GetMutationByDecree(e, x) = e.array[SlotOf(e, x - l)]
    BY <1>1, <1>3, <1>good, WindowLookup
  <1>m. ASSUME NEW k \in Int PROVE SlotOf(e, k) \in Slots
    BY <1>k, SlotOfInSlots
  <1>4. SlotOf(e, d - l) = idx
    <2>1. CASE n = 0 \/ d < lo
      <3>1. e.start_idx = idx /\ d - l = 0 BY <2>1, <1>1, <1>f, <1>t
      <3> QED BY <3>1, <1>k, SlotOfZero
    <2>2. CASE ~(n = 0 \/ d < lo)
      <3>1. n > 0 BY <2>2, <1>t
      <3>2. LET q == s + (d - lo)
            IN  idx = IF q < 0 THEN q + MaxCount
                      ELSE IF q < MaxCount THEN q ELSE q - MaxCount
        BY <3>1, <1>c, <1>t, PutIdxValue DEF idx
      <3>3. d - l \in 0 .. MaxCount BY <1>g, <1>2, <1>t
      <3>4. SlotOf(e, d - l) = IF s + (d - l) < MaxCount THEN s + (d - l)
                                    ELSE s + (d - l) - MaxCount
        BY <3>3, <2>2, <1>1, <1>k, SlotOfValue
      <3> QED BY <3>2, <3>4, <2>2, <1>f, <1>t
    <2> QED BY <2>1, <2>2
  <1>5. GetMutationByDecree(e, d) = mu
    BY <1>2, <1>g, <1>4, <1>1, <1>t, <1>i
  <1>6. ASSUME NEW x \in l .. h, x # d
        PROVE  /\ GetMutationByDecree(e, x) = c.array[SlotOf(e, x - l)]
               /\ SlotOf(e, x - l) \in Slots
    <2>1. /\ x - l \in 0 .. MaxCount - 1 /\ d - l \in 0 .. MaxCount - 1
          /\ x - l # d - l /\ x - l \in Int
      BY <1>6, <1>2, <1>g, <1>t
    <2>2. SlotOf(e, x - l) # idx BY <2>1, <1>4, <1>k, SlotInjective
    <2>3. SlotOf(e, x - l) \in Slots BY <2>1, <1>m
    <2> QED BY <2>2, <2>3, <1>g, <1>1, <1>t
  <1>7. ASSUME NEW x \in lo .. lo + n - 1
        PROVE  /\ GetMutationByDecree(c, x) = c.array[SlotOf(c, x - lo)]
               /\ SlotOf(e, x - l) = SlotOf(c, x - lo)
               /\ x \in l .. h
    <2>0. n > 0 /\ x \in l .. h BY <1>2, <1>f, <1>t
    <2>1. /\ GetMutationByDecree(c, x) = c.array[SlotOf(c, x - lo)]
          /\ x - lo \in 0 .. MaxCount - 1
      BY WindowLookup
    <2>2. CASE ~(d < lo)
      <3>1. l = lo /\ e.start_idx = s BY <2>0, <2>2, <1>1, <1>f, <1>t
      <3> QED BY <3>1, <2>0, <2>1 DEF SlotOf
    <2>3. CASE d < lo
      <3> DEFINE g == lo - d
                 k == x - lo
      <3>1. l = d /\ e.start_idx = idx /\ h = lo + n - 1
        BY <2>0, <2>3, <1>1, <1>f, <1>t
      <3>2. g \in 1 .. MaxCount - n /\ k \in 0 .. n - 1 /\ x - l = k + g
        BY <3>1, <2>0, <2>3, <1>2, <1>t
      <3>3. idx = IF s - g < 0 THEN s - g + MaxCount ELSE s - g
        <4>1. LET q == s + (d - lo)
              IN  idx = IF q < 0 THEN q + MaxCount
                        ELSE IF q < MaxCount THEN q ELSE q - MaxCount
          BY <2>0, <1>c, <1>t, PutIdxValue DEF idx
        <4> QED BY <4>1, <3>2, <1>t
      <3> HIDE DEF g, k
      <3>4. k \in 0 .. MaxCount /\ k + g \in 0 .. MaxCount BY <3>2, <1>t
      <3>5. SlotOf(c, k) = IF s + k < MaxCount THEN s + k ELSE s + k - MaxCount
        BY <3>4, <1>t, SlotOfValue
      <3>6. SlotOf(e, k + g) = IF idx + (k + g) < MaxCount THEN idx + (k + g)
                                    ELSE idx + (k + g) - MaxCount
        BY <3>4, <3>1, <1>k, SlotOfValue
      <3>7. SlotOf(e, k + g) = SlotOf(c, k)
        BY <3>2, <3>3, <3>4, <3>5, <3>6, <1>t
      <3> QED BY <3>7, <3>2, <2>0, <2>1 DEF k
    <2> QED BY <2>2, <2>3
  <1>8. ASSUME NEW x \in l .. h, x # d, x \notin lo .. lo + n - 1
        PROVE  GetMutationByDecree(e, x) = Null
    <2>1. GetMutationByDecree(e, x) = c.array[SlotOf(e, x - l)]
          /\ SlotOf(e, x - l) \in Slots
      BY <1>8, <1>6
    <2> SUFFICES ASSUME c.array[SlotOf(e, x - l)] # Null PROVE FALSE
      BY <2>1
    <2>2. PICK k \in 0 .. n - 1 : SlotOf(e, x - l) = SlotOf(c, k)
      BY <2>1 DEF Good, SlotsAgree
    <2>3. lo + k \in lo .. lo + n - 1 /\ (lo + k) - lo = k BY <1>t
    <2>4. SlotOf(e, (lo + k) - l) = SlotOf(c, k) /\ lo + k \in l .. h
      BY <2>3, <1>7
    <2>5. /\ x - l \in 0 .. MaxCount - 1 /\ (lo + k) - l \in 0 .. MaxCount - 1
          /\ x - l # (lo + k) - l
      BY <1>8, <2>3, <2>4, <1>g, <1>2, <1>t
    <2> QED BY <2>2, <2>4, <2>5, <1>k, SlotInjective
  <1>9. d \in lo .. lo + n - 1 =>
          GetMutationByDecree(c, d) = Null
          \/ GetMutationByDecree(c, d).ballot <= mu.ballot
    <2> SUFFICES ASSUME d \in lo .. lo + n - 1
                 PROVE  GetMutationByDecree(c, d) = c.array[idx]
      BY <1>c DEF BallotCheck, idx
    <2> QED BY <1>7, <1>4
  <1>10. e.end_decree = h
    BY <1>c, <1>e, <1>t DEF PutIn, h
  <1>11. n > 0 => lo .. lo + n - 1 \subseteq l .. h
    BY <1>7
  <1> QED BY <1>1, <1>2, <1>5, <1>6, <1>7, <1>8, <1>9, <1>10, <1>11, <1>t DEF l, h
-------------------------------------------------------------------------------
(***************************************************************************)
(* The refinement: each operation of the ring is the same operation of the *)
(* window that its lookups show.                                           *)
(***************************************************************************)
LEMMA WindowInit == Init => Window!Init
  <1> SUFFICES ASSUME NEW d \in Decree, cache = ResetTo(d) PROVE Window!Init
    BY DEF Init
  <1>1. d \in Nat BY DecreeAssumption
  <1>2. cache.start_decree = d /\ cache.interval = 0 BY DEF ResetTo
  <1>3. cache.start_decree .. cache.start_decree + cache.interval - 1 = {} BY <1>1, <1>2
  <1> QED BY <1>1, <1>2, <1>3 DEF Window!Init, Window!Empty

\* reset is the reset of the window.
LEMMA WindowReset == ASSUME NEW d \in Decree, Reset(d) PROVE Window!Reset
  <1>1. d \in Nat BY DecreeAssumption
  <1>2. cache'.start_decree = d /\ cache'.interval = 0 BY DEF Reset, ResetTo
  <1>3. cache'.start_decree .. cache'.start_decree + cache'.interval - 1 = {} BY <1>1, <1>2
  <1> QED BY <1>1, <1>2, <1>3 DEF Window!Reset, Window!Empty

\* pop_min is the pop of the window.
LEMMA WindowPop ==
    ASSUME IInv, cache.interval > 0, cache' = PopMinOf(cache)
    PROVE  Window!PopMin
  <1> DEFINE n  == cache.interval
             lo == cache.start_decree
  <1>1. Good(cache) BY DEF IInv
  <1>2. /\ cache'.interval = n - 1
        /\ cache'.start_decree = IF n = 1 THEN lo ELSE lo + 1
    BY <1>1, PopLookup
  <1>6. \A x \in lo + 1 .. lo + n - 1 :
          GetMutationByDecree(cache', x) = GetMutationByDecree(cache, x)
    BY <1>1, PopLookup
  <1>3. n \in 1 .. MaxCount /\ MaxCount \in Nat /\ lo \in Nat BY <1>1, Fields
  <1>4. cache'.start_decree .. cache'.start_decree + cache'.interval - 1
          = lo + 1 .. lo + n - 1
    BY <1>2, <1>3
  <1>5. lo + 1 .. lo + n - 1 \subseteq lo .. lo + n - 1 BY <1>3
  <1> QED BY <1>2, <1>3, <1>4, <1>5, <1>6 DEF Window!PopMin

\* put is the put of the window.
LEMMA WindowPut ==
    ASSUME IInv, NEW mu \in Mutation, Put(mu)
    PROVE  Window!Put(mu)
  <1> DEFINE n  == cache.interval
             lo == cache.start_decree
             d  == mu.decree
             l  == IF n = 0 \/ d < lo THEN d ELSE lo
             h  == IF n = 0 \/ d > lo + n - 1 THEN d ELSE lo + n - 1
  <1>1. Good(cache) /\ Accepts(cache, mu) /\ cache' = PutIn(cache, mu)
    BY DEF IInv, Put, Accepts
  <1>2. n = 0 => d >= lo
    <2>1. n = 0 => cache.end_decree = lo BY <1>1, Fields DEF Good, FieldsAgree
    <2> QED BY <1>1, <2>1 DEF Accepts
  <1>3. /\ d \in l .. h /\ l \in Nat /\ h \in Nat /\ h - l + 1 <= MaxCount
        /\ cache'.start_decree = l /\ cache'.interval = h - l + 1
        /\ d \in lo .. lo + n - 1 =>
              GetMutationByDecree(cache, d) = Null
              \/ GetMutationByDecree(cache, d).ballot <= mu.ballot
        /\ \A x \in l .. h : GetMutationByDecree(cache', x) =
              IF x = d THEN mu
              ELSE IF x \in lo .. lo + n - 1 THEN GetMutationByDecree(cache, x) ELSE Null
    BY <1>1, PutLookup
  <1> HIDE DEF l, h
  <1>4. l .. l + (h - l + 1) - 1 = l .. h BY <1>3
  <1>5. [x \in l .. h |-> GetMutationByDecree(cache', x)]
          = [x \in l .. h |-> IF x = d THEN mu
               ELSE IF x \in lo .. lo + n - 1
               THEN [y \in lo .. lo + n - 1 |-> GetMutationByDecree(cache, y)][x]
               ELSE Null]
    BY <1>3
  <1>6. d \in lo .. lo + n - 1 =>
          [y \in lo .. lo + n - 1 |-> GetMutationByDecree(cache, y)][d]
            = GetMutationByDecree(cache, d)
    OBVIOUS
  <1> QED BY <1>2, <1>3, <1>4, <1>5, <1>6 DEF Window!Put, Window!Decrees, l, h

\* Every operation of the ring is an operation of the window, or changes nothing in it.
LEMMA WindowNext ==
    ASSUME IInv, [Next]_cache
    PROVE  [Window!Next]_(Window!wvars)
  <1>1. ASSUME NEW mu \in Mutation, Put(mu) PROVE Window!Next
    BY <1>1, WindowPut DEF Window!Next
  <1>2. CASE UNCHANGED cache BY <1>2 DEF Window!wvars
  <1>3. ASSUME NEW mu \in Mutation, PutRefused(mu) PROVE UNCHANGED cache
    BY <1>3 DEF PutRefused
  <1>4. CASE PopMin
    <2>1. CASE cache.interval > 0
      BY <1>4, <2>1, WindowPop, Fields DEF IInv, PopMin, Window!Next
    <2>2. CASE cache.interval <= 0 BY <1>4, <2>2, <1>2 DEF PopMin
    <2> QED BY <2>1, <2>2, Fields DEF IInv
  <1>5. ASSUME NEW d \in Decree, Reset(d) PROVE Window!Next
    BY <1>5, WindowReset DEF Window!Next
  <1> QED BY <1>1, <1>2, <1>3, <1>4, <1>5 DEF Next

(***************************************************************************)
(* mutation_cache implements the window of decrees, for every capacity and *)
(* every set of mutations: whatever sequence of put, pop_min and reset is  *)
(* run, the ring answers every lookup as the window would.                 *)
(***************************************************************************)
THEOREM ImplementsWindow == Spec => WindowSpec
  BY RingInvariant, WindowInit, WindowNext, PTL DEF Spec, WindowSpec, Window!Spec
===============================================================================
