------------------------- MODULE MutationQueueProofs -------------------------
(***************************************************************************)
(* The write queue for any number of rows, requests and running mutations, *)
(* and any size of a batch and of the lock table.                          *)
(***************************************************************************)
EXTENDS MutationQueue, ProofLemmas, SequenceTheorems

\* A mutation whose requests fit together: an atomic write is alone in it.
Made == {mu \in Mutations : (\E i \in DOMAIN mu.reqs : mu.reqs[i].kind = "atomic")
                                => Len(mu.reqs) = 1 /\ mu.candidate}

\* A mutation of this replica's clients, and one that can take one more request.
Own  == {mu \in Made : mu.local}
Open == {mu \in Own : /\ Len(mu.reqs) < MaxBatch
                      /\ ~mu.candidate
                      /\ \A i \in DOMAIN mu.reqs : mu.reqs[i].kind = "put"}

RowEntry == [row : Row, decree : Nat]

\* The queue with a pending mutation of P.
Work(P) == [pending : P \cup {Null}, queue : Seq(Own), blocking : Seq(Own),
            ops : 0 .. MaxConcurrentOp, locks : SUBSET Row, lru : Seq(RowEntry),
            mu : Own \cup {Null}]

\* Every lock has an entry.
Listed(w) == \A row \in w.locks : \E i \in DOMAIN w.lru : w.lru[i].row = row

(***************************************************************************)
(* Until the first clear every entry is the only one of a locked row, and  *)
(* the rows of a mutation that is not applied are locked up to its decree. *)
(***************************************************************************)
Exact(w) == /\ \A i \in DOMAIN w.lru : w.lru[i].row \in w.locks
            /\ \A i, j \in DOMAIN w.lru : w.lru[i].row = w.lru[j].row => i = j

Guards(w, row, d) == /\ row \in w.locks
                     /\ \A i \in DOMAIN w.lru : w.lru[i].row = row => w.lru[i].decree >= d

LocksHold(w, ds, applied) ==
    \A d \in applied + 1 .. Len(ds) : \A row \in Rows(ds[d]) : Guards(w, row, d)

(***************************************************************************)
(* The inductive invariant.                                                *)
(***************************************************************************)
QInv ==
    /\ Contents \in Work(Open)
    /\ Listed(Contents)
    /\ decrees \in Seq(Made)
    /\ last_applied \in Nat
    /\ last_applied <= Len(decrees) /\ Len(decrees) <= last_applied + MaxConcurrentOp
    /\ role \in {"primary", "short", "other"}
    /\ changes \in Nat
    /\ changes = 0 => /\ role = "primary"
                      /\ Exact(Contents)
                      /\ LocksHold(Contents, decrees, last_applied)
                      /\ dirty = {}
-------------------------------------------------------------------------------
\* The requests of a mutation.
LEMMA RequestsOf ==
    ASSUME NEW x
    PROVE  x \in UNION {[1..n -> [row : Row, kind : Kind]] : n \in 0..MaxBatch}
             <=> x \in Seq([row : Row, kind : Kind]) /\ Len(x) <= MaxBatch
  <1> DEFINE S == [row : Row, kind : Kind]
             U == UNION {[1..n -> S] : n \in 0..MaxBatch}
  <1>t. MaxBatch \in Nat BY QueueAssumption
  <1> HIDE DEF S
  <1>1. ASSUME x \in U PROVE x \in Seq(S) /\ Len(x) <= MaxBatch
    <2>1. PICK m \in 0 .. MaxBatch : x \in [1 .. m -> S] BY <1>1
    <2> QED BY <2>1, <1>t
  <1>2. ASSUME x \in Seq(S), Len(x) <= MaxBatch PROVE x \in U
    <2>1. Len(x) \in 0 .. MaxBatch /\ x \in [1 .. Len(x) -> S] BY <1>2, <1>t
    <2> QED BY <2>1
  <1> QED BY <1>1, <1>2 DEF S

\* An entry moves to the head of a list.
Moved(s, i, e) == <<e>> \o Without(s, i)

IsMoved(u, s, i, e) ==
    /\ u \in Seq(RowEntry) /\ Len(u) = Len(s) /\ u[1] = e
    /\ \A k \in 2 .. Len(s) : u[k] = IF k <= i THEN s[k - 1] ELSE s[k]

\* Moving an entry to the head, as enter_2pc does with the LRU list, is a
\* shift of the entries before it.
LEMMA MoveToHead ==
    ASSUME NEW s \in Seq(RowEntry), NEW i \in 1 .. Len(s), NEW e \in RowEntry
    PROVE  IsMoved(Moved(s, i, e), s, i, e)
  <1> DEFINE S == RowEntry
             a == SubSeq(s, 1, i - 1)
             b == SubSeq(s, i + 1, Len(s))
             r == a \o b
  <1>t. Len(s) \in Nat /\ i \in Nat /\ 1 <= i /\ i <= Len(s) OBVIOUS
  <1>1. a \in Seq(S) /\ Len(a) = i - 1 /\ \A k \in 1 .. i - 1 : a[k] = s[k] BY <1>t
  <1>2. /\ b \in Seq(S) /\ Len(b) = Len(s) - i
        /\ \A k \in 1 .. Len(s) - i : b[k] = s[i + k]
    BY <1>t
  <1> HIDE DEF a, b
  <1>3. /\ r \in Seq(S) /\ Len(r) = Len(s) - 1
        /\ \A k \in 1 .. Len(s) - 1 : r[k] = IF k <= i - 1 THEN a[k] ELSE b[k - (i - 1)]
    <2>1. /\ r \in Seq(S) /\ Len(r) = Len(a) + Len(b)
          /\ \A k \in 1 .. Len(a) + Len(b) : r[k] = IF k <= Len(a) THEN a[k] ELSE b[k - Len(a)]
      BY Zenon, <1>1, <1>2, ConcatProperties
    <2>2. Len(a) + Len(b) = Len(s) - 1 BY <1>1, <1>2, <1>t
    <2> QED BY <2>1, <2>2, <1>1
  <1>4. \A k \in 1 .. Len(s) - 1 : r[k] = IF k <= i - 1 THEN s[k] ELSE s[k + 1]
    <2> SUFFICES ASSUME NEW k \in 1 .. Len(s) - 1
                 PROVE  r[k] = IF k <= i - 1 THEN s[k] ELSE s[k + 1]
      BY Zenon
    <2>1. r[k] = IF k <= i - 1 THEN a[k] ELSE b[k - (i - 1)] BY <1>3
    <2>2. CASE k <= i - 1
      <3>1. k \in 1 .. i - 1 BY <2>2, <1>t
      <3> QED BY <2>1, <2>2, <3>1, <1>1
    <2>3. CASE ~(k <= i - 1)
      <3>1. k - (i - 1) \in 1 .. Len(s) - i /\ i + (k - (i - 1)) = k + 1 BY <2>3, <1>t
      <3> QED BY <2>1, <2>3, <3>1, <1>2
    <2> QED BY Zenon, <2>2, <2>3
  <1>5. Without(s, i) = r BY DEF Without, a, b
  <1> HIDE DEF r
  <1> DEFINE t == <<e>> \o r
  <1>6. t \in Seq(S) /\ Len(t) = Len(s) /\ t[1] = e
    BY <1>t, <1>3
  <1>7. \A k \in 2 .. Len(s) : t[k] = r[k - 1] BY <1>t, <1>3
  <1> HIDE DEF t
  <1>8. \A k \in 2 .. Len(s) : t[k] = IF k <= i THEN s[k - 1] ELSE s[k]
    <2> SUFFICES ASSUME NEW k \in 2 .. Len(s)
                 PROVE  t[k] = IF k <= i THEN s[k - 1] ELSE s[k]
      OBVIOUS
    <2>1. k - 1 \in 1 .. Len(s) - 1 /\ (k - 1 <= i - 1 <=> k <= i) /\ k - 1 + 1 = k BY <1>t
    <2> QED BY <2>1, <1>4, <1>7
  <1> QED BY <1>5, <1>6, <1>8 DEF t, Moved, IsMoved

\* The entry that a lock stands for.
LEMMA EntryIs ==
    ASSUME NEW w, w.lru \in Seq(RowEntry), NEW row, \E i \in DOMAIN w.lru : w.lru[i].row = row
    PROVE  Entry(w, row) \in DOMAIN w.lru /\ w.lru[Entry(w, row)].row = row
  <1> DEFINE S == {i \in DOMAIN w.lru : w.lru[i].row = row}
  <1>1. S \subseteq Nat /\ S # {} OBVIOUS
  <1>2. Min(S) \in S
    <2> HIDE DEF S
    <2> QED BY Zenon, <1>1, MinOfNats
  <1> QED BY <1>2 DEF Entry

\* Assigning one member of the queue leaves the others as they are.
LEMMA SetPending ==
    ASSUME NEW P, NEW Q, NEW w \in Work(P), NEW v \in Q \cup {Null},
           NEW e, e = [w EXCEPT !.pending = v]
    PROVE  /\ e \in Work(Q) /\ e.pending = v
           /\ e.queue = w.queue /\ e.blocking = w.blocking /\ e.ops = w.ops
           /\ e.locks = w.locks /\ e.lru = w.lru /\ e.mu = w.mu
  BY Zenon DEF Work

\* Assigning one member of the queue leaves the types of the others (this
\* lemma and those that follow, one for each member).
LEMMA SetQueue ==
    ASSUME NEW P, NEW w \in Work(P), NEW v \in Seq(Own),
           NEW e, e = [w EXCEPT !.queue = v]
    PROVE  /\ e \in Work(P) /\ e.queue = v
           /\ e.pending = w.pending /\ e.blocking = w.blocking /\ e.ops = w.ops
           /\ e.locks = w.locks /\ e.lru = w.lru /\ e.mu = w.mu
  BY Zenon DEF Work

LEMMA SetBlocking ==
    ASSUME NEW P, NEW w \in Work(P), NEW v \in Seq(Own),
           NEW e, e = [w EXCEPT !.blocking = v]
    PROVE  /\ e \in Work(P) /\ e.blocking = v
           /\ e.pending = w.pending /\ e.queue = w.queue /\ e.ops = w.ops
           /\ e.locks = w.locks /\ e.lru = w.lru /\ e.mu = w.mu
  BY Zenon DEF Work

LEMMA SetOps ==
    ASSUME NEW P, NEW w \in Work(P), NEW v \in 0 .. MaxConcurrentOp,
           NEW e, e = [w EXCEPT !.ops = v]
    PROVE  /\ e \in Work(P) /\ e.ops = v
           /\ e.pending = w.pending /\ e.queue = w.queue /\ e.blocking = w.blocking
           /\ e.locks = w.locks /\ e.lru = w.lru /\ e.mu = w.mu
  BY DEF Work

LEMMA SetLocks ==
    ASSUME NEW P, NEW w \in Work(P), NEW v \in SUBSET Row,
           NEW e, e = [w EXCEPT !.locks = v]
    PROVE  /\ e \in Work(P) /\ e.locks = v
           /\ e.pending = w.pending /\ e.queue = w.queue /\ e.blocking = w.blocking
           /\ e.ops = w.ops /\ e.lru = w.lru /\ e.mu = w.mu
  BY Zenon DEF Work

LEMMA SetLru ==
    ASSUME NEW P, NEW w \in Work(P), NEW v \in Seq(RowEntry),
           NEW e, e = [w EXCEPT !.lru = v]
    PROVE  /\ e \in Work(P) /\ e.lru = v
           /\ e.pending = w.pending /\ e.queue = w.queue /\ e.blocking = w.blocking
           /\ e.ops = w.ops /\ e.locks = w.locks /\ e.mu = w.mu
  BY Zenon DEF Work

LEMMA SetMu ==
    ASSUME NEW P, NEW w \in Work(P), NEW v \in Own \cup {Null},
           NEW e, e = [w EXCEPT !.mu = v]
    PROVE  /\ e \in Work(P) /\ e.mu = v
           /\ e.pending = w.pending /\ e.queue = w.queue /\ e.blocking = w.blocking
           /\ e.ops = w.ops /\ e.locks = w.locks /\ e.lru = w.lru
  BY Zenon DEF Work

\* Neither locking nor eviction touches the mutations.
SameQueue(w, e) == /\ e.pending = w.pending /\ e.queue = w.queue /\ e.blocking = w.blocking
                   /\ e.ops = w.ops /\ e.mu = w.mu

\* enter_2pc on one row: its lock is at the head of the LRU list, with the new
\* decree, and no other row loses its own.
LEMMA LockRowState ==
    ASSUME NEW P, NEW w \in Work(P), Listed(w), NEW row \in Row, NEW d \in Nat,
           NEW e, e = LockRow(w, row, d)
    PROVE  /\ e \in Work(P) /\ Listed(e) /\ SameQueue(w, e)
           /\ Exact(w) => /\ Exact(e) /\ Guards(e, row, d)
                          /\ \A r, x : x \in Nat /\ Guards(w, r, x) => Guards(e, r, x)
  <1>t. w.lru \in Seq(RowEntry) /\ w.locks \subseteq Row /\ DOMAIN w.lru = 1 .. Len(w.lru)
    BY DEF Work
  <1>1. CASE row \in w.locks
    <2> DEFINE i == Entry(w, row)
               m == Max({d, w.lru[i].decree})
               h == [row |-> row, decree |-> m]
               t == Moved(w.lru, i, h)
    <2>1. i \in 1 .. Len(w.lru) /\ w.lru[i].row = row BY <1>1, <1>t, EntryIs DEF Listed
    <2> HIDE DEF i
    <2>2. w.lru[i].decree \in Nat
      <3>1. w.lru[i] \in RowEntry BY <2>1, <1>t
      <3> QED BY <3>1 DEF RowEntry
    <2>3. m \in Nat /\ m >= d /\ m >= w.lru[i].decree
      <3>1. CASE d >= w.lru[i].decree
        <4>1. d \in {d, w.lru[i].decree} /\ \A y \in {d, w.lru[i].decree} : d >= y
          BY <3>1, <2>2
        <4>2. \A x \in {d, w.lru[i].decree} : (\A y \in {d, w.lru[i].decree} : x >= y) => x = d
          BY <3>1, <2>2
        <4>3. m = d BY <4>1, <4>2 DEF Max
        <4> QED BY <4>3, <3>1, <2>2
      <3>2. CASE ~(d >= w.lru[i].decree)
        <4> DEFINE v == w.lru[i].decree
        <4>1. v \in {d, v} /\ \A y \in {d, v} : v >= y BY <3>2, <2>2
        <4>2. \A x \in {d, v} : (\A y \in {d, v} : x >= y) => x = v BY <3>2, <2>2
        <4>3. m = v BY <4>1, <4>2 DEF Max
        <4> QED BY <4>3, <3>2, <2>2
      <3> QED BY <3>1, <3>2
    <2> HIDE DEF m
    <2>4. h \in RowEntry /\ h.row = row /\ h.decree = m BY <2>3 DEF RowEntry
    <2> HIDE DEF h
    <2>5. /\ t \in Seq(RowEntry) /\ Len(t) = Len(w.lru) /\ t[1] = h
          /\ \A k \in 2 .. Len(w.lru) : t[k] = IF k <= i THEN w.lru[k - 1] ELSE w.lru[k]
      <3>1. IsMoved(t, w.lru, i, h) BY <1>t, <2>1, <2>4, MoveToHead
      <3> HIDE DEF t
      <3> QED BY <3>1 DEF IsMoved
    <2>6. e = [w EXCEPT !.lru = t] BY <1>1 DEF LockRow, Moved, t, h, m, i
    <2> HIDE DEF t
    <2>7. e \in Work(P) /\ SameQueue(w, e) /\ e.lru = t /\ e.locks = w.locks
      BY <2>5, <2>6, SetLru DEF SameQueue
    <2>d. DOMAIN e.lru = 1 .. Len(w.lru) /\ Len(w.lru) \in Nat BY <2>5, <2>7, <1>t
    \* where the entries come from
    <2> DEFINE from(k) == IF k = 1 THEN i ELSE IF k <= i THEN k - 1 ELSE k
               to(k)   == IF k = i THEN 1 ELSE IF k < i THEN k + 1 ELSE k
    <2>8. \A k \in 1 .. Len(w.lru) :
            /\ from(k) \in 1 .. Len(w.lru) /\ e.lru[k].row = w.lru[from(k)].row
            /\ e.lru[k].decree = IF k = 1 THEN m ELSE w.lru[from(k)].decree
      <3> SUFFICES ASSUME NEW k \in 1 .. Len(w.lru)
                   PROVE  /\ from(k) \in 1 .. Len(w.lru) /\ e.lru[k].row = w.lru[from(k)].row
                          /\ e.lru[k].decree = IF k = 1 THEN m ELSE w.lru[from(k)].decree
        OBVIOUS
      <3>1. CASE k = 1 BY <3>1, <2>1, <2>4, <2>5, <2>7
      <3>2. CASE k # 1
        <4>1. k \in 2 .. Len(w.lru) BY <3>2, <2>d
        <4>2. from(k) \in 1 .. Len(w.lru) BY <4>1, <2>1, <2>d
        <4> QED BY <4>1, <4>2, <3>2, <2>5, <2>7
      <3> QED BY <3>1, <3>2
    <2>9. \A k \in 1 .. Len(w.lru) : to(k) \in 1 .. Len(w.lru) /\ from(to(k)) = k
      BY <2>1, <2>d
    <2>10. \A j, k \in 1 .. Len(w.lru) : from(j) = from(k) => j = k BY <2>1, <2>d
    <2> HIDE DEF from, to
    <2>11. Listed(e)
      <3> SUFFICES ASSUME NEW r \in w.locks PROVE \E k \in DOMAIN e.lru : e.lru[k].row = r
        BY <2>7 DEF Listed
      <3>1. PICK k \in 1 .. Len(w.lru) : w.lru[k].row = r BY <1>t DEF Listed
      <3>2. to(k) \in 1 .. Len(w.lru) /\ from(to(k)) = k BY <2>9
      <3>3. e.lru[to(k)].row = r BY <3>1, <3>2, <2>8
      <3> QED BY <3>2, <3>3, <2>d
    <2>12. ASSUME Exact(w)
           PROVE  /\ Exact(e) /\ Guards(e, row, d)
                  /\ \A r, x : x \in Nat /\ Guards(w, r, x) => Guards(e, r, x)
      <3>1. \A k \in DOMAIN e.lru : e.lru[k].row \in e.locks
        BY <2>12, <2>7, <2>8, <2>d, <1>t DEF Exact
      <3>2. \A j, k \in DOMAIN e.lru : e.lru[j].row = e.lru[k].row => j = k
        <4> SUFFICES ASSUME NEW j \in 1 .. Len(w.lru), NEW k \in 1 .. Len(w.lru),
                            e.lru[j].row = e.lru[k].row
                     PROVE  j = k
          BY <2>d
        <4>1. /\ from(j) \in DOMAIN w.lru /\ e.lru[j].row = w.lru[from(j)].row
              /\ from(k) \in DOMAIN w.lru /\ e.lru[k].row = w.lru[from(k)].row
          BY <2>8, <1>t
        <4>2. from(j) = from(k) BY Zenon, <4>1, <2>12 DEF Exact
        <4> QED BY <4>2, <2>10
      <3>3. Exact(e) BY <3>1, <3>2 DEF Exact
      <3>4. e.lru[1].row = row /\ 1 \in DOMAIN e.lru BY <2>4, <2>5, <2>7, <2>1, <2>d
      <3>5. Guards(e, row, d)
        <4>1. \A k \in DOMAIN e.lru : e.lru[k].row = row => k = 1 BY <3>2, <3>4
        <4> QED BY <4>1, <1>1, <2>3, <2>4, <2>5, <2>7 DEF Guards
      <3>6. ASSUME NEW r, NEW x \in Nat, Guards(w, r, x) PROVE Guards(e, r, x)
        <4>1. r \in e.locks BY <3>6, <2>7 DEF Guards
        <4>2. ASSUME NEW k \in DOMAIN e.lru, e.lru[k].row = r PROVE e.lru[k].decree >= x
          <5>1. w.lru[from(k)].row = r /\ from(k) \in DOMAIN w.lru
            BY <4>2, <2>8, <2>d, <1>t
          <5>2. w.lru[from(k)].decree >= x /\ w.lru[from(k)].decree \in Nat
            <6>1. w.lru[from(k)] \in RowEntry BY <5>1, <1>t
            <6> QED BY <6>1, <5>1, <3>6 DEF Guards, RowEntry
          <5>3. CASE k = 1
            <6>1. from(k) = i BY <5>3 DEF from
            <6>2. e.lru[k].decree = m BY <5>3, <2>8, <2>d
            <6> QED BY <6>1, <6>2, <5>2, <2>3
          <5>4. CASE k # 1 BY <5>4, <5>2, <2>8, <2>d
          <5> QED BY <5>3, <5>4
        <4> QED BY <4>1, <4>2 DEF Guards
      <3> QED BY <3>3, <3>5, <3>6
    <2> QED BY <2>7, <2>11, <2>12
  <1>2. CASE row \notin w.locks
    <2> DEFINE h == [row |-> row, decree |-> d]
               t == <<h>> \o w.lru
    <2>1. h \in RowEntry /\ h.row = row /\ h.decree = d BY DEF RowEntry
    <2>2. e = [w EXCEPT !.locks = @ \cup {row}, !.lru = t] BY <1>2 DEF LockRow
    <2> HIDE DEF h
    <2>3. /\ t \in Seq(RowEntry) /\ Len(t) = Len(w.lru) + 1 /\ t[1] = h
          /\ \A k \in 1 .. Len(w.lru) : t[k + 1] = w.lru[k]
      BY <1>t, <2>1
    <2>4. \A k \in 2 .. Len(w.lru) + 1 : t[k] = w.lru[k - 1] /\ k - 1 \in 1 .. Len(w.lru)
      BY <1>t, <2>1
    <2> HIDE DEF t
    <2>5. /\ e \in Work(P) /\ SameQueue(w, e) /\ e.lru = t /\ e.locks = w.locks \cup {row}
      <3> DEFINE y == [w EXCEPT !.locks = w.locks \cup {row}]
      <3>1. e = [y EXCEPT !.lru = t] BY <2>2
      <3>2. y \in Work(P) /\ SameQueue(w, y) /\ y.locks = w.locks \cup {row}
        <4>1. w.locks \cup {row} \in SUBSET Row BY <1>t
        <4> QED BY <4>1, SetLocks DEF SameQueue
      <3> HIDE DEF y
      <3> QED BY <3>1, <3>2, <2>3, SetLru DEF SameQueue
    <2>d. DOMAIN e.lru = 1 .. Len(w.lru) + 1 /\ Len(w.lru) \in Nat BY <2>3, <2>5, <1>t
    <2>6. Listed(e)
      <3> SUFFICES ASSUME NEW r \in w.locks \cup {row}
                   PROVE  \E k \in DOMAIN e.lru : e.lru[k].row = r
        BY <2>5 DEF Listed
      <3>1. CASE r = row
        <4>1. 1 \in DOMAIN e.lru BY <2>d
        <4> QED BY <4>1, <3>1, <2>1, <2>3, <2>5
      <3>2. CASE r \in w.locks
        <4>1. PICK k \in 1 .. Len(w.lru) : w.lru[k].row = r BY <3>2, <1>t DEF Listed
        <4>2. k + 1 \in DOMAIN e.lru BY <2>d
        <4> QED BY <4>1, <4>2, <2>3, <2>5
      <3> QED BY <3>1, <3>2
    <2>7. ASSUME NEW k \in DOMAIN e.lru, k # 1
          PROVE  k - 1 \in DOMAIN w.lru /\ e.lru[k] = w.lru[k - 1]
      <3>1. k \in 2 .. Len(w.lru) + 1 BY <2>7, <2>d
      <3> QED BY <3>1, <2>4, <2>5, <1>t
    <2>8. ASSUME Exact(w)
          PROVE  /\ Exact(e) /\ Guards(e, row, d)
                 /\ \A r, x : x \in Nat /\ Guards(w, r, x) => Guards(e, r, x)
      <3>1. e.lru[1].row = row /\ e.lru[1].decree = d BY <2>1, <2>3, <2>5
      <3>2. \A k \in DOMAIN e.lru : k # 1 => e.lru[k].row \in w.locks BY <2>7, <2>8 DEF Exact
      <3>3. \A j, k \in DOMAIN e.lru : e.lru[j].row = e.lru[k].row => j = k
        <4> SUFFICES ASSUME NEW j \in DOMAIN e.lru, NEW k \in DOMAIN e.lru,
                            e.lru[j].row = e.lru[k].row
                     PROVE  j = k
          OBVIOUS
        <4>1. j = 1 <=> k = 1 BY <3>1, <3>2, <1>2
        <4>2. CASE j # 1
          <5>1. j - 1 = k - 1 BY <4>1, <4>2, <2>7, <2>8 DEF Exact
          <5> QED BY <5>1, <2>d
        <4> QED BY <4>1, <4>2
      <3>4. Exact(e) BY <3>1, <3>2, <3>3, <2>5 DEF Exact
      <3>5. Guards(e, row, d) BY <3>1, <3>2, <1>2, <2>5 DEF Guards
      <3>6. ASSUME NEW r, NEW x \in Nat, Guards(w, r, x) PROVE Guards(e, r, x)
        <4>1. r \in e.locks /\ r # row BY <3>6, <1>2, <2>5 DEF Guards
        <4>2. \A k \in DOMAIN e.lru : e.lru[k].row = r => e.lru[k].decree >= x
          BY <3>1, <3>6, <4>1, <2>7 DEF Guards
        <4> QED BY <4>1, <4>2 DEF Guards
      <3> QED BY <3>4, <3>5, <3>6
    <2> QED BY <2>5, <2>6, <2>8
  <1> QED BY <1>1, <1>2

(***************************************************************************)
(* e is w with other locks: whatever was guarded up to a decree that is    *)
(* not applied still is.                                                   *)
(***************************************************************************)
Relocked(w, e, applied) ==
    /\ Listed(e) /\ SameQueue(w, e)
    /\ Exact(w) => /\ Exact(e)
                   /\ \A r, x : x \in Nat /\ x > applied /\ Guards(w, r, x) => Guards(e, r, x)

\* The function of the loop over the requests of a mutation.
LEMMA LockRowsEquation ==
    ASSUME NEW w, NEW reqs, Len(reqs) \in Nat, NEW d
    PROVE  LockRows(w, reqs, d) = [i \in 0 .. Len(reqs) |->
               IF i = 0 THEN w ELSE LockRow(LockRows(w, reqs, d)[i - 1], reqs[i].row, d)]
  <1> DEFINE S == {m \in Nat : \E f : f = [i \in 0 .. m |->
                       IF i = 0 THEN w ELSE LockRow(f[i - 1], reqs[i].row, d)]}
  <1>1. 0 \in S
    <2> DEFINE f == [i \in 0 .. 0 |-> w]
    <2>1. f = [i \in 0 .. 0 |-> IF i = 0 THEN w ELSE LockRow(f[i - 1], reqs[i].row, d)] OBVIOUS
    <2> QED BY Zenon, <2>1
  <1>2. ASSUME NEW m \in Nat, m \in S PROVE m + 1 \in S
    <2>1. PICK f : f = [i \in 0 .. m |-> IF i = 0 THEN w ELSE LockRow(f[i - 1], reqs[i].row, d)]
      BY <1>2
    <2> DEFINE g == [i \in 0 .. m + 1 |-> IF i = 0 THEN w ELSE LockRow(f[i - 1], reqs[i].row, d)]
    <2>2. \A i \in 0 .. m : g[i] = f[i] BY <2>1
    <2>3. \A i \in 0 .. m + 1 : i # 0 => g[i - 1] = f[i - 1]
      <3>1. \A i \in 0 .. m + 1 : i # 0 => i - 1 \in 0 .. m OBVIOUS
      <3> HIDE DEF g
      <3> QED BY <3>1, <2>2
    <2>4. g = [i \in 0 .. m + 1 |-> IF i = 0 THEN w ELSE LockRow(g[i - 1], reqs[i].row, d)]
      BY Zenon, <2>3
    <2> HIDE DEF g
    <2> QED BY <2>4
  <1>3. \A m \in Nat : m \in S
    <2> HIDE DEF S
    <2> QED BY <1>1, <1>2, SetInduction
  <1>4. \E f : f = [i \in 0 .. Len(reqs) |->
                      IF i = 0 THEN w ELSE LockRow(f[i - 1], reqs[i].row, d)]
    BY <1>3
  <1> QED BY <1>4, Zenon DEF LockRows

\* enter_2pc on all rows of a mutation, by induction on the requests.
LEMMA LockRowsState ==
    ASSUME NEW P, NEW w \in Work(P), Listed(w), NEW d \in Nat, NEW applied,
           NEW reqs \in Seq([row : Row, kind : Kind]), NEW i \in 0 .. Len(reqs)
    PROVE  LET e == LockRows(w, reqs, d)[i]
           IN  /\ e \in Work(P) /\ Relocked(w, e, applied)
               /\ Exact(w) => \A j \in 1 .. i : Guards(e, reqs[j].row, d)
  <1> DEFINE F == LockRows(w, reqs, d)
             OK(j) == /\ F[j] \in Work(P) /\ Listed(F[j]) /\ SameQueue(w, F[j])
                      /\ Exact(w) =>
                           /\ Exact(F[j])
                           /\ \A r, x : x \in Nat /\ Guards(w, r, x) => Guards(F[j], r, x)
                           /\ \A k \in 1 .. j : Guards(F[j], reqs[k].row, d)
             S == {j \in Nat : j <= Len(reqs) => OK(j)}
  <1>t. Len(reqs) \in Nat OBVIOUS
  <1>1. F = [j \in 0 .. Len(reqs) |-> IF j = 0 THEN w ELSE LockRow(F[j - 1], reqs[j].row, d)]
    BY <1>t, LockRowsEquation
  <1> HIDE DEF F
  <1>2. 0 \in S
    <2>1. F[0] = w BY <1>1, <1>t
    <2> QED BY <2>1 DEF SameQueue
  <1>3. ASSUME NEW j \in Nat, j \in S PROVE j + 1 \in S
    <2> SUFFICES ASSUME j + 1 <= Len(reqs) PROVE OK(j + 1) OBVIOUS
    <2>1. OK(j) BY <1>3, <1>t
    <2>2. j + 1 \in 0 .. Len(reqs) /\ j + 1 # 0 /\ j + 1 - 1 = j BY <1>t
    <2> DEFINE e == F[j + 1]
               row == reqs[j + 1].row
    <2>3. e = LockRow(F[j], row, d) BY <2>2, <1>1
    <2>4. row \in Row
      <3>1. j + 1 \in 1 .. Len(reqs) BY <1>t
      <3>2. reqs[j + 1] \in [row : Row, kind : Kind] BY Zenon, <3>1, ElementOfSeq
      <3> QED BY <3>2
    <2> HIDE DEF e, row
    <2>5. /\ e \in Work(P) /\ Listed(e) /\ SameQueue(F[j], e)
          /\ Exact(F[j]) => /\ Exact(e) /\ Guards(e, row, d)
                            /\ \A r, x : x \in Nat /\ Guards(F[j], r, x) => Guards(e, r, x)
      BY <2>1, <2>3, <2>4, LockRowState
    <2>6. SameQueue(w, e) BY <2>1, <2>5 DEF SameQueue
    <2>7. ASSUME Exact(w) PROVE \A k \in 1 .. j + 1 : Guards(e, reqs[k].row, d)
      <3> SUFFICES ASSUME NEW k \in 1 .. j + 1 PROVE Guards(e, reqs[k].row, d) OBVIOUS
      <3>1. CASE k = j + 1 BY <3>1, <2>5, <2>1, <2>7 DEF row
      <3>2. CASE k # j + 1
        <4>1. k \in 1 .. j BY <3>2
        <4> QED BY <4>1, <2>1, <2>5, <2>7
      <3> QED BY <3>1, <3>2
    <2> QED BY <2>1, <2>5, <2>6, <2>7 DEF e
  <1>4. \A j \in Nat : j \in S
    <2> HIDE DEF S
    <2> QED BY <1>2, <1>3, SetInduction
  <1>5. OK(i) BY <1>4, <1>t
  <1> QED BY <1>5 DEF F, Relocked

\* Eviction keeps the lock of every row that a mutation in two-phase commit
\* writes, because it stops at the first such entry.
LEMMA EvictState ==
    ASSUME NEW P, NEW w \in Work(P), Listed(w), NEW applied \in Nat,
           NEW e, e = Evict(w, applied)
    PROVE  e \in Work(P) /\ Relocked(w, e, applied)
  <1> DEFINE n == Len(w.lru)
             stops == {k \in 0 .. n : k = 0 \/ Fits(Left(w, k)) \/ w.lru[k].decree > applied}
             m == Max(stops)
             gone == {w.lru[i].row : i \in m + 1 .. n}
             t == SubSeq(w.lru, 1, m)
  <1>t. /\ w.lru \in Seq(RowEntry) /\ w.locks \subseteq Row
        /\ n \in Nat /\ DOMAIN w.lru = 1 .. n
    BY DEF Work
  <1>1. m \in stops /\ \A k \in stops : k <= m
    <2>1. stops \subseteq Nat /\ stops # {} /\ \A k \in stops : k <= n BY <1>t
    <2> HIDE DEF stops
    <2> QED BY Zenon, <2>1, <1>t, MaxOfNats
  <1>2. m \in 0 .. n BY <1>1
  <1>3. \A i \in m + 1 .. n : w.lru[i].decree <= applied
    <2> SUFFICES ASSUME NEW i \in m + 1 .. n PROVE w.lru[i].decree <= applied OBVIOUS
    <2>1. i \in 0 .. n /\ i \notin stops
      <3> HIDE DEF stops, m
      <3> QED BY <1>1, <1>2, <1>t
    <2>2. ~(w.lru[i].decree > applied) BY <2>1
    <2>3. i \in 1 .. n
      <3> HIDE DEF m
      <3> QED BY <1>2, <1>t
    <2>4. w.lru[i] \in RowEntry BY <2>3, <1>t
    <2> HIDE DEF m
    <2> QED BY <2>2, <2>4 DEF RowEntry
  <1>4. e = [w EXCEPT !.locks = w.locks \ gone, !.lru = t] BY DEF Evict, Left
  <1> HIDE DEF m
  <1>5. /\ t \in Seq(RowEntry) /\ Len(t) = m /\ \A i \in 1 .. m : t[i] = w.lru[i]
    BY <1>2, <1>t
  <1> HIDE DEF t, gone
  <1>6. e \in Work(P) /\ SameQueue(w, e) /\ e.lru = t /\ e.locks = w.locks \ gone
    <2> DEFINE y == [w EXCEPT !.locks = w.locks \ gone]
    <2>1. e = [y EXCEPT !.lru = t] BY <1>4
    <2>2. y \in Work(P) /\ SameQueue(w, y) /\ y.locks = w.locks \ gone
      <3>1. w.locks \ gone \in SUBSET Row BY <1>t
      <3> QED BY <3>1, SetLocks DEF SameQueue
    <2> HIDE DEF y
    <2> QED BY <2>1, <2>2, <1>5, SetLru DEF SameQueue
  <1>7. DOMAIN e.lru = 1 .. m /\ \A i \in 1 .. m : e.lru[i] = w.lru[i] /\ i \in DOMAIN w.lru
    BY <1>2, <1>5, <1>6, <1>t
  <1>8. Listed(e)
    <2> SUFFICES ASSUME NEW r \in e.locks PROVE \E i \in DOMAIN e.lru : e.lru[i].row = r
      BY DEF Listed
    <2>1. r \in w.locks /\ r \notin gone BY <1>6
    <2>2. PICK i \in 1 .. n : w.lru[i].row = r BY <2>1, <1>t DEF Listed
    <2>3. i \notin m + 1 .. n BY <2>1, <2>2 DEF gone
    <2>4. i \in 1 .. m BY <2>3, <1>2, <1>t
    <2> QED BY <2>2, <2>4, <1>7
  <1>9. ASSUME Exact(w)
        PROVE  /\ Exact(e)
               /\ \A r, x : x \in Nat /\ x > applied /\ Guards(w, r, x) => Guards(e, r, x)
    <2>1. \A i \in DOMAIN e.lru : e.lru[i].row \in e.locks
      <3> SUFFICES ASSUME NEW i \in 1 .. m PROVE e.lru[i].row \in e.locks BY <1>7
      <3>1. e.lru[i].row = w.lru[i].row /\ w.lru[i].row \in w.locks BY <1>7, <1>9 DEF Exact
      <3>2. w.lru[i].row \notin gone
        <4> SUFFICES ASSUME NEW j \in m + 1 .. n, w.lru[j].row = w.lru[i].row PROVE FALSE
          BY DEF gone
        <4>1. j \in 1 .. n /\ i \in 1 .. n /\ i # j BY <1>2, <1>t
        <4> QED BY <4>1, <1>9, <1>t DEF Exact
      <3> QED BY <3>1, <3>2, <1>6
    <2>2. \A i, j \in DOMAIN e.lru : e.lru[i].row = e.lru[j].row => i = j
      BY <1>7, <1>9 DEF Exact
    <2>3. ASSUME NEW r, NEW x \in Nat, x > applied, Guards(w, r, x) PROVE Guards(e, r, x)
      <3>1. r \notin gone
        <4> SUFFICES ASSUME NEW j \in m + 1 .. n, w.lru[j].row = r PROVE FALSE
          BY DEF gone
        <4>1. j \in 1 .. n BY <1>2, <1>t
        <4>2. w.lru[j].decree >= x /\ w.lru[j].decree <= applied
          BY <4>1, <2>3, <1>3, <1>t DEF Guards
        <4>3. w.lru[j] \in RowEntry BY <4>1, <1>t
        <4>4. w.lru[j].decree \in Nat BY <4>3 DEF RowEntry
        <4> QED BY <4>2, <4>4, <2>3
      <3> QED BY <3>1, <2>3, <1>6, <1>7 DEF Guards
    <2> QED BY <2>1, <2>2, <2>3 DEF Exact
  <1> QED BY <1>6, <1>8, <1>9 DEF Relocked

\* Of a mutation: its requests are a sequence, and their rows are rows.
LEMMA MadeRequests ==
    ASSUME NEW mu \in Made
    PROVE  /\ mu.reqs \in Seq([row : Row, kind : Kind])
           /\ Len(mu.reqs) <= MaxBatch
           /\ mu.candidate \in BOOLEAN /\ mu.local \in BOOLEAN
           /\ mu # Null
  <1>1. mu \in Mutations BY DEF Made
  <1>2. /\ mu.reqs \in UNION {[1..n -> [row : Row, kind : Kind]] : n \in 0..MaxBatch}
        /\ mu.candidate \in BOOLEAN /\ mu.local \in BOOLEAN
    BY <1>1 DEF Mutations
  <1> QED BY Zenon, <1>1, <1>2, RequestsOf, NullAssumption

\* A mutation that enters two-phase commit locks its rows up to its decree.
LEMMA EnterState ==
    ASSUME NEW P, NEW w \in Work(P), Listed(w), NEW d \in Nat, NEW applied \in Nat,
           NEW mu \in Made, NEW e, e = enter_2pc(w, mu, d, applied)
    PROVE  /\ e \in Work(P) /\ Relocked(w, e, applied)
           /\ Exact(w) /\ mu.local /\ d > applied => \A row \in Rows(mu) : Guards(e, row, d)
  <1> DEFINE reqs == IF mu.local THEN mu.reqs ELSE <<>>
             y == LockRows(w, reqs, d)[Len(reqs)]
  <1>t. mu.reqs \in Seq([row : Row, kind : Kind]) BY Zenon, MadeRequests
  <1>1. reqs \in Seq([row : Row, kind : Kind])
    BY <1>t, EmptySeq
  <1>2. e = Evict(y, applied) BY DEF enter_2pc
  <1>3. mu.local => reqs = mu.reqs OBVIOUS
  <1> HIDE DEF reqs
  <1>4. Len(reqs) \in 0 .. Len(reqs) /\ Len(reqs) \in Nat BY <1>1
  <1>5. /\ y \in Work(P) /\ Relocked(w, y, applied)
        /\ Exact(w) => \A j \in 1 .. Len(reqs) : Guards(y, reqs[j].row, d)
    BY Zenon, <1>1, <1>4, LockRowsState
  <1> HIDE DEF y
  <1>6. e \in Work(P) /\ Relocked(y, e, applied) BY <1>2, <1>5, EvictState DEF Relocked
  <1>7. Relocked(w, e, applied) BY <1>5, <1>6 DEF Relocked, SameQueue
  <1>8. ASSUME Exact(w), mu.local, d > applied, NEW row \in Rows(mu) PROVE Guards(e, row, d)
    <2>1. PICK j \in DOMAIN mu.reqs : row = mu.reqs[j].row BY DEF Rows
    <2>2. j \in 1 .. Len(reqs) /\ row = reqs[j].row BY <1>3, <1>8, <1>t, <2>1
    <2>3. Guards(y, row, d) BY <2>2, <1>5, <1>8
    <2>4. Exact(y) BY <1>5, <1>8 DEF Relocked
    <2> QED BY <2>3, <2>4, <1>6, <1>8 DEF Relocked
  <1> QED BY <1>6, <1>7, <1>8

\* The function of the loop over the decrees that are replayed.
LEMMA ReplayedEquation ==
    ASSUME Len(decrees) - last_applied \in Nat, NEW w
    PROVE  Replayed(w) = [i \in 0 .. Len(decrees) - last_applied |->
               IF i = 0 THEN w
               ELSE enter_2pc(Replayed(w)[i - 1], decrees[last_applied + i], last_applied + i,
                              last_applied)]
  <1> DEFINE n == Len(decrees) - last_applied
             E(x, i) == enter_2pc(x, decrees[last_applied + i], last_applied + i, last_applied)
             S == {m \in Nat : \E f : f = [i \in 0 .. m |-> IF i = 0 THEN w ELSE E(f[i - 1], i)]}
  <1>0. ASSUME \E f : f = [i \in 0 .. n |-> IF i = 0 THEN w ELSE E(f[i - 1], i)]
        PROVE  Replayed(w) = [i \in 0 .. n |-> IF i = 0 THEN w ELSE E(Replayed(w)[i - 1], i)]
    BY <1>0, Zenon DEF Replayed
  <1> HIDE DEF E
  <1>1. 0 \in S
    <2> DEFINE f == [i \in 0 .. 0 |-> w]
    <2>1. f = [i \in 0 .. 0 |-> IF i = 0 THEN w ELSE E(f[i - 1], i)] OBVIOUS
    <2> QED BY Zenon, <2>1
  <1>2. ASSUME NEW m \in Nat, m \in S PROVE m + 1 \in S
    <2>1. PICK f : f = [i \in 0 .. m |-> IF i = 0 THEN w ELSE E(f[i - 1], i)] BY <1>2
    <2> DEFINE g == [i \in 0 .. m + 1 |-> IF i = 0 THEN w ELSE E(f[i - 1], i)]
    <2>2. \A i \in 0 .. m : g[i] = f[i] BY <2>1
    <2>3. \A i \in 0 .. m + 1 : i # 0 => g[i - 1] = f[i - 1]
      <3>1. \A i \in 0 .. m + 1 : i # 0 => i - 1 \in 0 .. m OBVIOUS
      <3> HIDE DEF g
      <3> QED BY <3>1, <2>2
    <2>4. g = [i \in 0 .. m + 1 |-> IF i = 0 THEN w ELSE E(g[i - 1], i)] BY Zenon, <2>3
    <2> HIDE DEF g
    <2> QED BY <2>4
  <1>3. \A m \in Nat : m \in S
    <2> HIDE DEF S
    <2> QED BY <1>1, <1>2, SetInduction
  <1>4. n \in S BY <1>3
  <1> QED BY <1>0, <1>4 DEF E

\* replay_prepare_list changes no mutation of the queue.
LEMMA ReplayState ==
    ASSUME NEW P, NEW w \in Work(P), Listed(w), decrees \in Seq(Made), last_applied \in Nat,
           last_applied <= Len(decrees), NEW e, e = replay_prepare_list(w)
    PROVE  e \in Work(P) /\ Listed(e) /\ SameQueue(w, e)
  <1> DEFINE n == Len(decrees) - last_applied
             F == Replayed(w)
             OK(j) == F[j] \in Work(P) /\ Listed(F[j]) /\ SameQueue(w, F[j])
             S == {j \in Nat : j <= n => OK(j)}
  <1>t. n \in Nat /\ Len(decrees) \in Nat OBVIOUS
  <1>1. F = [i \in 0 .. n |->
               IF i = 0 THEN w
               ELSE enter_2pc(F[i - 1], decrees[last_applied + i], last_applied + i, last_applied)]
    BY <1>t, ReplayedEquation
  <1> HIDE DEF F
  <1>2. 0 \in S
    <2>1. F[0] = w BY <1>1, <1>t
    <2> QED BY <2>1 DEF SameQueue
  <1>3. ASSUME NEW j \in Nat, j \in S PROVE j + 1 \in S
    <2> SUFFICES ASSUME j + 1 <= n PROVE OK(j + 1) OBVIOUS
    <2>1. OK(j) BY <1>3, <1>t
    <2>2. j + 1 \in 0 .. n /\ j + 1 # 0 /\ j + 1 - 1 = j BY <1>t
    <2> DEFINE d == last_applied + (j + 1)
    <2>3. F[j + 1] = enter_2pc(F[j], decrees[d], d, last_applied) BY <2>2, <1>1
    <2>4. d \in Nat /\ decrees[d] \in Made
      <3>1. d \in 1 .. Len(decrees) BY <1>t
      <3> QED BY <3>1, ElementOfSeq
    <2> HIDE DEF d
    <2>5. F[j + 1] \in Work(P) /\ Relocked(F[j], F[j + 1], last_applied)
      BY <2>1, <2>3, <2>4, EnterState
    <2> QED BY <2>1, <2>5 DEF Relocked, SameQueue
  <1>4. \A j \in Nat : j \in S
    <2> HIDE DEF S
    <2> QED BY <1>2, <1>3, SetInduction
  <1>5. OK(n) BY <1>4, <1>t
  <1> QED BY <1>5 DEF F, replay_prepare_list
-------------------------------------------------------------------------------
\* u is w after a mutation was handed out or not: the locks are those of w, the
\* count goes with the mutation, and an atomic write's row is free.
Handed(w, u, applied) ==
    /\ u.locks = w.locks /\ u.lru = w.lru
    /\ u.ops = IF u.mu = Null THEN w.ops ELSE w.ops + 1
    /\ u.mu # Null /\ u.mu.candidate => ~row_locked(u, u.mu, applied)

\* row_locked looks at the locks alone.
LEMMA RowLockedSame ==
    ASSUME NEW w, NEW u, u.locks = w.locks, u.lru = w.lru, NEW mu, NEW applied
    PROVE  row_locked(u, mu, applied) <=> row_locked(w, mu, applied)
  BY DEF row_locked, Entry

\* Taking an element out of a sequence, or a part of it.
LEMMA WithoutSeq ==
    ASSUME NEW s \in Seq(Own), NEW i \in 1 .. Len(s)
    PROVE  Without(s, i) \in Seq(Own)
  <1>1. Len(s) \in Nat OBVIOUS
  <1>2. SubSeq(s, 1, i - 1) \in Seq(Own) /\ SubSeq(s, i + 1, Len(s)) \in Seq(Own) BY <1>1
  <1> QED BY <1>2, ConcatProperties DEF Without

\* try_unblock hands out at most one blocked mutation, whose row is free.
LEMMA TryUnblockState ==
    ASSUME NEW P, NEW w \in Work(P), w.mu = Null, w.ops < MaxConcurrentOp, NEW applied,
           NEW u, u = try_unblock(w, applied)
    PROVE  /\ u \in Work(P) /\ Handed(w, u, applied)
           /\ u.pending = w.pending /\ u.queue = w.queue
           /\ u.mu = Null => u = w
  <1> DEFINE free == {i \in DOMAIN w.blocking : ~row_locked(w, w.blocking[i], applied)}
             i == Min(free)
             mu == w.blocking[i]
             s == Without(w.blocking, i)
  <1>t. w.blocking \in Seq(Own) /\ w.ops \in 0 .. MaxConcurrentOp /\ MaxConcurrentOp \in Nat
    BY QueueAssumption DEF Work
  <1>1. CASE free = {}
    <2>1. u = w BY <1>1 DEF try_unblock
    <2> QED BY <2>1 DEF Handed
  <1>2. CASE free # {}
    <2>1. i \in free
      <3>1. free \subseteq Nat BY <1>t
      <3> HIDE DEF free
      <3> QED BY Zenon, <3>1, <1>2, MinOfNats
    <2>2. u = [w EXCEPT !.mu = mu, !.ops = w.ops + 1, !.blocking = s]
      BY <1>2 DEF try_unblock
    <2>3. i \in 1 .. Len(w.blocking) /\ ~row_locked(w, mu, applied) BY <2>1, <1>t
    <2> HIDE DEF i, free
    <2>4. mu \in Own /\ s \in Seq(Own) BY <2>3, <1>t, WithoutSeq, ElementOfSeq
    <2>5. mu # Null
      <3>1. mu \in Made BY <2>4 DEF Own
      <3> HIDE DEF mu
      <3> QED BY <3>1, MadeRequests
    <2> HIDE DEF mu, s
    <2> DEFINE y == [w EXCEPT !.mu = mu]
               z == [y EXCEPT !.ops = w.ops + 1]
    <2>6. u = [z EXCEPT !.blocking = s] BY <2>2
    <2>7. /\ y \in Work(P) /\ y.mu = mu /\ y.ops = w.ops /\ y.locks = w.locks /\ y.lru = w.lru
          /\ y.pending = w.pending /\ y.queue = w.queue
      BY <2>4, SetMu
    <2> HIDE DEF y
    <2>8. /\ z \in Work(P) /\ z.mu = mu /\ z.ops = w.ops + 1 /\ z.locks = w.locks
          /\ z.lru = w.lru /\ z.pending = w.pending /\ z.queue = w.queue
      <3>1. w.ops + 1 \in 0 .. MaxConcurrentOp BY <1>t
      <3> QED BY <3>1, <2>7, SetOps
    <2> HIDE DEF z
    <2>9. /\ u \in Work(P) /\ u.mu = mu /\ u.ops = w.ops + 1 /\ u.locks = w.locks
          /\ u.lru = w.lru /\ u.pending = w.pending /\ u.queue = w.queue
      BY <2>4, <2>6, <2>8, SetBlocking
    <2>10. ~row_locked(u, mu, applied) BY <2>3, <2>9, RowLockedSame
    <2> QED BY <2>5, <2>9, <2>10 DEF Handed
  <1> QED BY <1>1, <1>2

\* pop_or_block on a sequence of mutations.
LEMMA PopOrBlockState ==
    ASSUME NEW P, NEW w \in Work(P), w.mu = Null, w.ops < MaxConcurrentOp, NEW applied,
           NEW q \in Seq(Own), NEW u, u = PopOrBlock(w, q, applied)
    PROVE  /\ u \in Work(P) /\ Handed(w, u, applied)
           /\ u.pending = w.pending /\ u.queue = w.queue
           /\ Passing(w, q, applied) # {} => Min(Passing(w, q, applied)) \in 1 .. Len(q)
  <1> DEFINE free == Passing(w, q, applied)
             n == Min(free)
             mu == q[n]
             s == w.blocking \o SubSeq(q, 1, n - 1)
  <1>t. w.blocking \in Seq(Own) /\ w.ops \in 0 .. MaxConcurrentOp /\ MaxConcurrentOp \in Nat
    BY QueueAssumption DEF Work
  <1>1. CASE free = {}
    <2> DEFINE v == w.blocking \o q
    <2>1. u = [w EXCEPT !.blocking = v] BY <1>1 DEF PopOrBlock
    <2>2. v \in Seq(Own) BY <1>t, ConcatProperties
    <2> HIDE DEF v
    <2> QED BY <1>1, <2>1, <2>2, SetBlocking DEF Handed
  <1>2. CASE free # {}
    <2>1. n \in free
      <3>1. free \subseteq Nat BY DEF Passing
      <3> HIDE DEF free
      <3> QED BY Zenon, <3>1, <1>2, MinOfNats
    <2>2. u = [w EXCEPT !.blocking = s, !.mu = mu, !.ops = w.ops + 1]
      BY <1>2 DEF PopOrBlock
    <2>3. n \in 1 .. Len(q) /\ ~try_block(w, mu, applied) BY <2>1 DEF Passing
    <2> HIDE DEF n, free
    <2>4. mu \in Own /\ s \in Seq(Own)
      <3>1. SubSeq(q, 1, n - 1) \in Seq(Own) BY <2>3
      <3> QED BY <2>3, <3>1, <1>t, ConcatProperties, ElementOfSeq
    <2>5. mu # Null /\ (mu.candidate => ~row_locked(w, mu, applied))
      <3>1. mu \in Made BY <2>4 DEF Own
      <3> HIDE DEF mu
      <3> QED BY <3>1, <2>3, MadeRequests DEF try_block
    <2> HIDE DEF mu, s
    <2> DEFINE y == [w EXCEPT !.blocking = s]
               z == [y EXCEPT !.mu = mu]
    <2>6. u = [z EXCEPT !.ops = w.ops + 1] BY <2>2
    <2>7. /\ y \in Work(P) /\ y.ops = w.ops /\ y.locks = w.locks /\ y.lru = w.lru
          /\ y.pending = w.pending /\ y.queue = w.queue
      BY <2>4, SetBlocking
    <2> HIDE DEF y
    <2>8. /\ z \in Work(P) /\ z.mu = mu /\ z.locks = w.locks
          /\ z.lru = w.lru /\ z.pending = w.pending /\ z.queue = w.queue
      BY <2>4, <2>7, SetMu
    <2> HIDE DEF z
    <2>9. /\ u \in Work(P) /\ u.mu = mu /\ u.ops = w.ops + 1 /\ u.locks = w.locks
          /\ u.lru = w.lru /\ u.pending = w.pending /\ u.queue = w.queue
      <3>1. w.ops + 1 \in 0 .. MaxConcurrentOp BY <1>t
      <3> QED BY <3>1, <2>6, <2>8, SetOps
    <2>10. mu.candidate => ~row_locked(u, mu, applied) BY <2>5, <2>9, RowLockedSame
    <2> QED BY <2>3, <2>5, <2>9, <2>10 DEF Handed, n, free
  <1> QED BY <1>1, <1>2

\* pop_or_block_queue hands out the first mutation that need not wait.
LEMMA PopQueueState ==
    ASSUME NEW P, NEW w \in Work(P), w.mu = Null, w.ops < MaxConcurrentOp, NEW applied,
           NEW u, u = pop_or_block_queue(w, applied)
    PROVE  u \in Work(P) /\ Handed(w, u, applied) /\ u.pending = w.pending
  <1> DEFINE q == w.queue
             free == Passing(w, q, applied)
             n == Min(free)
             v == PopOrBlock(w, q, applied)
             r == IF free = {} THEN <<>> ELSE SubSeq(q, n + 1, Len(q))
  <1>1. q \in Seq(Own) BY DEF Work
  <1>2. /\ v \in Work(P) /\ Handed(w, v, applied)
        /\ v.pending = w.pending /\ v.queue = w.queue
        /\ free # {} => n \in 1 .. Len(q)
    BY <1>1, PopOrBlockState
  <1>3. u = [v EXCEPT !.queue = IF free = {} THEN <<>> ELSE SubSeq(v.queue, n + 1, Len(v.queue))]
    BY DEF pop_or_block_queue
  <1> HIDE DEF v, free, n
  <1>4. u = [v EXCEPT !.queue = r] BY <1>2, <1>3
  <1>5. r \in Seq(Own) BY <1>1, <1>2, EmptySeq
  <1> HIDE DEF r
  <1>6. /\ u \in Work(P) /\ u.pending = v.pending /\ u.ops = v.ops /\ u.mu = v.mu
        /\ u.locks = v.locks /\ u.lru = v.lru
    BY <1>2, <1>4, <1>5, SetQueue
  <1>7. u.mu # Null /\ u.mu.candidate => ~row_locked(u, u.mu, applied)
    BY <1>2, <1>6, RowLockedSame DEF Handed
  <1> QED BY <1>2, <1>6, <1>7 DEF Handed

\* pop_or_block_pending hands out the pending mutation or leaves none.
LEMMA PopPendingState ==
    ASSUME NEW w \in Work(Own), w.pending \in Own, w.mu = Null, w.ops < MaxConcurrentOp,
           NEW applied, NEW u, u = pop_or_block_pending(w, applied)
    PROVE  u \in Work(Open) /\ Handed(w, u, applied)
  <1> DEFINE q == <<w.pending>>
             v == PopOrBlock(w, q, applied)
  <1>1. q \in Seq(Own) OBVIOUS
  <1>2. v \in Work(Own) /\ Handed(w, v, applied) BY Zenon, <1>1, PopOrBlockState
  <1>3. u = [v EXCEPT !.pending = Null] BY DEF pop_or_block_pending
  <1> HIDE DEF v
  <1>4. Null \in Open \cup {Null} OBVIOUS
  <1>6. /\ u \in Work(Open) /\ u.ops = v.ops /\ u.mu = v.mu
        /\ u.locks = v.locks /\ u.lru = v.lru
    BY <1>2, <1>3, <1>4, SetPending
  <1>7. u.mu # Null /\ u.mu.candidate => ~row_locked(u, u.mu, applied)
    BY <1>2, <1>6, RowLockedSame DEF Handed
  <1> QED BY <1>2, <1>6, <1>7 DEF Handed

\* e is w with the pending mutation elsewhere.
SameCounts(w, e) == e.ops = w.ops /\ e.mu = w.mu /\ e.locks = w.locks /\ e.lru = w.lru

\* promote_pending moves the pending mutation to the end of the queue.
LEMMA PromoteState ==
    ASSUME NEW w \in Work(Own), w.pending \in Own, NEW e, e = promote_pending(w)
    PROVE  e \in Work(Open) /\ SameCounts(w, e) /\ e.pending = Null
  <1> DEFINE q == Append(w.queue, w.pending)
             y == [w EXCEPT !.queue = q]
  <1>1. q \in Seq(Own)
    <2>1. w.queue \in Seq(Own) BY DEF Work
    <2> QED BY <2>1, AppendProperties
  <1>2. e = [y EXCEPT !.pending = Null] BY DEF promote_pending
  <1> HIDE DEF q
  <1>3. y \in Work(Own) /\ SameCounts(w, y) BY <1>1, SetQueue DEF SameCounts
  <1> HIDE DEF y
  <1>4. Null \in Open \cup {Null} OBVIOUS
  <1> QED BY <1>2, <1>3, <1>4, SetPending DEF SameCounts

\* A queue whose pending mutation is open may be seen as one of any kind.
LEMMA OpenIsOwn ==
    ASSUME NEW w \in Work(Open)
    PROVE  w \in Work(Own)
  BY DEF Work, Open

\* A pending mutation that is full, or may not be batched, is promoted.
LEMMA TryPromoteState ==
    ASSUME NEW f \in Work(Own), f.pending \in Own, NEW kind,
           kind = "put" /\ Len(f.pending.reqs) < MaxBatch => f.pending \in Open,
           NEW e, e = try_promote_pending(f, kind)
    PROVE  e \in Work(Open) /\ SameCounts(f, e)
  <1>1. CASE kind = "put" /\ Len(f.pending.reqs) < MaxBatch
    <2>1. e = f BY <1>1 DEF try_promote_pending
    <2>2. f \in Work(Open) BY <1>1 DEF Work
    <2> QED BY <2>1, <2>2 DEF SameCounts
  <1>2. CASE ~(kind = "put" /\ Len(f.pending.reqs) < MaxBatch)
    <2>1. e = promote_pending(f) BY <1>2 DEF try_promote_pending
    <2> QED BY <2>1, PromoteState
  <1> QED BY <1>1, <1>2

\* A mutation made of one request.
LEMMA MutationOfOne ==
    ASSUME NEW row \in Row, NEW kind \in Kind, NEW mu,
           mu = Mutation(<<[row |-> row, kind |-> kind]>>, kind = "atomic", TRUE)
    PROVE  mu \in Own /\ (kind = "put" /\ Len(mu.reqs) < MaxBatch => mu \in Open)
  <1> DEFINE r == [row |-> row, kind |-> kind]
             q == <<r>>
  <1>1. r \in [row : Row, kind : Kind] /\ r.kind = kind OBVIOUS
  <1> HIDE DEF r
  <1>2. q \in Seq([row : Row, kind : Kind]) /\ Len(q) = 1 /\ q[1] = r /\ DOMAIN q = {1}
    BY <1>1
  <1>3. Len(q) <= MaxBatch BY <1>2, QueueAssumption
  <1>4. mu.reqs = q /\ mu.candidate = (kind = "atomic") /\ mu.local = TRUE
    BY DEF Mutation, q, r
  <1>5. mu \in Mutations
    <2>1. q \in UNION {[1..n -> [row : Row, kind : Kind]] : n \in 0..MaxBatch}
      BY <1>2, <1>3, RequestsOf
    <2> QED BY <2>1 DEF Mutations, Mutation, q, r
  <1> HIDE DEF q
  <1>6. mu \in Own
    <2>1. ASSUME NEW i \in DOMAIN mu.reqs, mu.reqs[i].kind = "atomic"
          PROVE  Len(mu.reqs) = 1 /\ mu.candidate
      BY Zenon, <2>1, <1>1, <1>2, <1>4
    <2> QED BY Zenon, <2>1, <1>4, <1>5 DEF Own, Made
  <1>7. ASSUME kind = "put", Len(mu.reqs) < MaxBatch PROVE mu \in Open
    <2>1. \A i \in DOMAIN mu.reqs : mu.reqs[i].kind = "put" BY Zenon, <1>1, <1>2, <1>4, <1>7
    <2>2. ~mu.candidate BY Zenon, <1>4, <1>7
    <2> QED BY Zenon, <2>1, <2>2, <1>6, <1>7 DEF Open
  <1> QED BY Zenon, <1>6, <1>7

\* A request joins an open mutation.
LEMMA MutationOfMore ==
    ASSUME NEW row \in Row, NEW old \in Open, NEW mu,
           mu = [old EXCEPT !.reqs = Append(old.reqs, [row |-> row, kind |-> "put"])]
    PROVE  mu \in Own /\ (Len(mu.reqs) < MaxBatch => mu \in Open)
  <1> DEFINE Req == [row : Row, kind : Kind]
             r == [row |-> row, kind |-> "put"]
             q == Append(old.reqs, r)
  <1>1. r \in Req /\ r.kind = "put" BY DEF Kind
  <1>2. mu = [old EXCEPT !.reqs = q] OBVIOUS
  <1>3. /\ old \in Own /\ old \in Made /\ old \in Mutations /\ Len(old.reqs) < MaxBatch
        /\ ~old.candidate /\ old.local
        /\ \A i \in DOMAIN old.reqs : old.reqs[i].kind = "put"
    BY DEF Open, Own, Made
  <1>4. old.reqs \in Seq(Req) BY Zenon, <1>3, MadeRequests
  <1> HIDE DEF r, Req
  <1>5. /\ q \in Seq(Req) /\ Len(q) = Len(old.reqs) + 1
        /\ \A i \in 1 .. Len(old.reqs) : q[i] = old.reqs[i]
        /\ q[Len(old.reqs) + 1] = r
    BY <1>1, <1>4, AppendProperties
  <1>6. Len(old.reqs) \in Nat /\ DOMAIN old.reqs = 1 .. Len(old.reqs) /\ MaxBatch \in Nat
        /\ DOMAIN q = 1 .. Len(old.reqs) + 1
    BY <1>4, <1>5, QueueAssumption
  <1> HIDE DEF q
  <1>7. \A i \in DOMAIN q : q[i].kind = "put"
    <2> SUFFICES ASSUME NEW i \in DOMAIN q PROVE q[i].kind = "put" OBVIOUS
    <2>1. CASE i = Len(old.reqs) + 1 BY <2>1, <1>1, <1>5
    <2>2. CASE i # Len(old.reqs) + 1
      <3>1. i \in 1 .. Len(old.reqs) BY <2>2, <1>6
      <3> QED BY <3>1, <1>3, <1>5, <1>6
    <2> QED BY <2>1, <2>2
  <1>8. Len(q) <= MaxBatch BY <1>3, <1>5, <1>6
  <1>9. mu \in Mutations /\ mu.reqs = q /\ mu.candidate = old.candidate /\ mu.local = old.local
    <2>1. q \in UNION {[1..n -> [row : Row, kind : Kind]] : n \in 0..MaxBatch}
      BY Zenon, <1>5, <1>8, RequestsOf DEF Req
    <2> QED BY Zenon, <2>1, <1>2, <1>3 DEF Mutations
  <1>10. \A i \in DOMAIN q : q[i].kind # "atomic" BY <1>7
  <1>11. mu \in Own BY Zenon, <1>3, <1>9, <1>10 DEF Own, Made
  <1> QED BY Zenon, <1>3, <1>7, <1>9, <1>11 DEF Open

\* The first part of add_work.
LEMMA FilledState ==
    ASSUME NEW w \in Work(Open), NEW row \in Row, NEW kind \in Kind, NEW f, f = Filled(w, row, kind)
    PROVE  /\ f \in Work(Own) /\ f.pending \in Own /\ SameCounts(w, f)
           /\ kind = "put" /\ Len(f.pending.reqs) < MaxBatch => f.pending \in Open
  <1> DEFINE p == IF w.pending # Null /\ kind # "put" THEN promote_pending(w) ELSE w
             r == [row |-> row, kind |-> kind]
  <1>t. w \in Work(Own) BY OpenIsOwn
  <1>1. /\ p \in Work(Open) /\ SameCounts(w, p)
        /\ p.pending # Null => kind = "put"
    <2>1. CASE w.pending # Null /\ kind # "put"
      <3>1. w.pending \in Own BY <2>1 DEF Work, Open
      <3> QED BY <2>1, <3>1, <1>t, PromoteState
    <2>2. CASE ~(w.pending # Null /\ kind # "put") BY <2>2 DEF SameCounts
    <2> QED BY <2>1, <2>2
  <1>2. f = IF p.pending = Null
            THEN [p EXCEPT !.pending = Mutation(<<r>>, kind = "atomic", TRUE)]
            ELSE [p EXCEPT !.pending.reqs = Append(@, r)]
    BY DEF Filled
  <1> HIDE DEF p
  <1>3. CASE p.pending = Null
    <2> DEFINE mu == Mutation(<<r>>, kind = "atomic", TRUE)
    <2>1. f = [p EXCEPT !.pending = mu] BY <1>2, <1>3
    <2>2. mu \in Own /\ (kind = "put" /\ Len(mu.reqs) < MaxBatch => mu \in Open)
      BY Zenon, MutationOfOne
    <2> HIDE DEF mu
    <2> QED BY <1>1, <2>1, <2>2, SetPending DEF SameCounts
  <1>4. CASE p.pending # Null
    <2> DEFINE old == p.pending
               mu == [old EXCEPT !.reqs = Append(old.reqs, [row |-> row, kind |-> "put"])]
    <2>1. kind = "put" BY <1>1, <1>4
    <2>2. f = [p EXCEPT !.pending = mu] BY <1>2, <1>4, <2>1
    <2>3. old \in Open BY <1>1, <1>4 DEF Work
    <2>4. mu \in Own /\ (Len(mu.reqs) < MaxBatch => mu \in Open)
      <3> HIDE DEF old
      <3> QED BY Zenon, <2>3, MutationOfMore
    <2> HIDE DEF mu
    <2> QED BY <1>1, <2>2, <2>4, SetPending DEF SameCounts
  <1> QED BY <1>3, <1>4

\* Steps before and after that touch no count do not change what was handed out.
LEMMA HandedSame ==
    ASSUME NEW w, NEW f, NEW u, NEW g, NEW applied,
           SameCounts(w, f), Handed(f, u, applied), SameCounts(u, g)
    PROVE  Handed(w, g, applied)
  <1>1. g.mu # Null /\ g.mu.candidate => ~row_locked(g, g.mu, applied)
    BY RowLockedSame DEF SameCounts, Handed
  <1> QED BY <1>1 DEF SameCounts, Handed

\* add_work hands out a mutation only below the limit.
LEMMA AddWorkState ==
    ASSUME NEW w \in Work(Open), w.mu = Null, NEW row \in Row, NEW kind \in Kind,
           NEW g, g = add_work(w, row, kind)
    PROVE  g \in Work(Open) /\ Handed(w, g, last_applied)
  <1> DEFINE f == Filled(w, row, kind)
             u == try_unblock(f, last_applied)
  <1>1. /\ f \in Work(Own) /\ f.pending \in Own /\ SameCounts(w, f)
        /\ kind = "put" /\ Len(f.pending.reqs) < MaxBatch => f.pending \in Open
    BY FilledState
  <1>2. g = IF f.ops >= MaxConcurrentOp THEN try_promote_pending(f, kind)
            ELSE IF u.mu # Null THEN try_promote_pending(u, kind)
            ELSE IF f.queue = <<>> THEN pop_or_block_pending(f, last_applied)
            ELSE pop_or_block_queue(try_promote_pending(f, kind), last_applied)
    BY DEF add_work
  <1> HIDE DEF f
  <1>t. f.mu = Null /\ f.ops \in Nat /\ MaxConcurrentOp \in Nat
    BY <1>1, QueueAssumption DEF SameCounts, Work
  <1>s. SameCounts(g, g) BY DEF SameCounts
  <1>3. CASE f.ops >= MaxConcurrentOp
    <2>1. g \in Work(Open) /\ SameCounts(f, g) BY <1>1, <1>2, <1>3, TryPromoteState
    <2>2. Handed(f, f, last_applied) BY <1>t DEF Handed
    <2> QED BY <2>1, <2>2, <1>1, HandedSame
  <1>4. CASE ~(f.ops >= MaxConcurrentOp)
    <2>t. f.ops < MaxConcurrentOp BY <1>4, <1>t
    <2>1. /\ u \in Work(Own) /\ Handed(f, u, last_applied) /\ u.pending = f.pending
      BY <2>t, <1>t, <1>1, TryUnblockState
    <2> HIDE DEF u
    <2>2. CASE u.mu # Null
      <3>1. g = try_promote_pending(u, kind) BY <1>2, <1>4, <2>2
      <3>2. g \in Work(Open) /\ SameCounts(u, g) BY <1>1, <2>1, <3>1, TryPromoteState
      <3> QED BY <3>2, <2>1, <1>1, HandedSame
    <2>3. CASE u.mu = Null /\ f.queue = <<>>
      <3>1. g = pop_or_block_pending(f, last_applied) BY <1>2, <1>4, <2>3
      <3>2. g \in Work(Open) /\ Handed(f, g, last_applied)
        BY <3>1, <2>t, <1>t, <1>1, PopPendingState
      <3> QED BY <3>2, <1>1, <1>s, HandedSame
    <2>4. CASE u.mu = Null /\ f.queue # <<>>
      <3> DEFINE p == try_promote_pending(f, kind)
      <3>1. g = pop_or_block_queue(p, last_applied) BY <1>2, <1>4, <2>4
      <3>2. p \in Work(Open) /\ SameCounts(f, p) BY <1>1, TryPromoteState
      <3> HIDE DEF p
      <3>3. p.mu = Null /\ p.ops < MaxConcurrentOp BY <3>2, <2>t, <1>t DEF SameCounts
      <3>4. g \in Work(Open) /\ Handed(p, g, last_applied) BY <3>1, <3>2, <3>3, PopQueueState
      <3>5. SameCounts(w, p) BY <3>2, <1>1 DEF SameCounts
      <3> QED BY <3>4, <3>5, <1>s, HandedSame
    <2> QED BY <2>2, <2>3, <2>4
  <1> QED BY <1>3, <1>4

\* next_work keeps the queue well formed, counts what it hands out, and hands
\* out an atomic write only when its row is free.
LEMMA NextWorkState ==
    ASSUME NEW w \in Work(Open), w.mu = Null, NEW running \in 0 .. MaxConcurrentOp, NEW applied,
           NEW g, g = next_work(w, running, applied)
    PROVE  /\ g \in Work(Open) /\ g.locks = w.locks /\ g.lru = w.lru
           /\ g.ops = IF g.mu = Null THEN running ELSE running + 1
           /\ g.mu # Null /\ g.mu.candidate => ~row_locked(g, g.mu, applied)
  <1> DEFINE r == [w EXCEPT !.ops = running]
             u == try_unblock(r, applied)
  <1>1. /\ r \in Work(Open) /\ r.ops = running /\ r.mu = Null
        /\ r.locks = w.locks /\ r.lru = w.lru
    BY SetOps
  <1>2. g = IF running >= MaxConcurrentOp THEN r
            ELSE IF u.mu # Null THEN u
            ELSE IF r.queue # <<>> THEN pop_or_block_queue(r, applied)
            ELSE IF r.pending # Null THEN pop_or_block_pending(r, applied)
            ELSE r
    BY DEF next_work
  <1> HIDE DEF r
  <1>t. running \in Nat /\ MaxConcurrentOp \in Nat BY QueueAssumption
  <1>3. Handed(r, r, applied) BY <1>1 DEF Handed
  <1>4. g \in Work(Open) /\ Handed(r, g, applied)
    <2>1. CASE running >= MaxConcurrentOp BY <2>1, <1>1, <1>2, <1>3
    <2>2. CASE ~(running >= MaxConcurrentOp)
      <3>t. r.ops < MaxConcurrentOp BY <2>2, <1>1, <1>t
      <3>1. u \in Work(Open) /\ Handed(r, u, applied) BY <3>t, <1>1, TryUnblockState
      <3> HIDE DEF u
      <3>2. CASE u.mu # Null BY <3>1, <3>2, <2>2, <1>2
      <3>3. CASE u.mu = Null /\ r.queue # <<>>
        <4>1. g = pop_or_block_queue(r, applied) BY <3>3, <2>2, <1>2
        <4> QED BY <4>1, <3>t, <1>1, PopQueueState
      <3>4. CASE u.mu = Null /\ r.queue = <<>> /\ r.pending # Null
        <4>1. g = pop_or_block_pending(r, applied) BY <3>4, <2>2, <1>2
        <4>2. r \in Work(Own) BY <1>1, OpenIsOwn
        <4>3. r.pending \in Own BY <3>4, <1>1 DEF Work, Open
        <4> QED BY <4>1, <4>2, <4>3, <3>t, <1>1, PopPendingState
      <3>5. CASE u.mu = Null /\ r.queue = <<>> /\ r.pending = Null
        BY <3>5, <2>2, <1>1, <1>2, <1>3
      <3> QED BY <3>2, <3>3, <3>4, <3>5
    <2> QED BY <2>1, <2>2
  <1> QED BY <1>1, <1>4 DEF Handed
-------------------------------------------------------------------------------
\* The locks of two queues that agree on them.
LEMMA SameLocks ==
    ASSUME NEW w, NEW u, u.locks = w.locks, u.lru = w.lru
    PROVE  /\ Listed(w) => Listed(u)
           /\ Exact(w) => Exact(u)
           /\ \A r, x : Guards(w, r, x) => Guards(u, r, x)
           /\ \A ds, a : LocksHold(w, ds, a) => LocksHold(u, ds, a)
  BY DEF Listed, Exact, Guards, LocksHold

\* The variables after a step are the members of the record it computed.
LEMMA ContentsSet ==
    ASSUME NEW w \in Work(Open), Listed(w), SetContents(w)
    PROVE  /\ Contents' \in Work(Open) /\ Listed(Contents')
           /\ Contents'.locks = w.locks /\ Contents'.lru = w.lru /\ current_op_count' = w.ops
  <1>1. Contents' = [pending |-> w.pending, queue |-> w.queue, blocking |-> w.blocking,
                     ops |-> w.ops, locks |-> w.locks, lru |-> w.lru, mu |-> Null]
    BY DEF SetContents, Contents
  <1> DEFINE u == [pending |-> w.pending, queue |-> w.queue, blocking |-> w.blocking,
                   ops |-> w.ops, locks |-> w.locks, lru |-> w.lru, mu |-> Null]
  <1>2. u \in Work(Open) /\ u.locks = w.locks /\ u.lru = w.lru BY DEF Work
  <1>3. Contents' = u BY <1>1
  <1> HIDE DEF u
  <1>4. Listed(u) BY <1>2, SameLocks
  <1> QED BY <1>2, <1>3, <1>4 DEF SetContents

\* make_idempotent of a write whose row is free reads nothing that is about to
\* change.
LEMMA FreeRowClean ==
    ASSUME NEW w \in Work(Open), Listed(w), NEW mu, NEW applied \in Nat, decrees \in Seq(Made),
           mu.candidate => ~row_locked(w, mu, applied), LocksHold(w, decrees, applied),
           dirty = {}, make_idempotent(mu, applied)
    PROVE  dirty' = {}
  <1> DEFINE ds == {e \in (applied + 1)..Len(decrees) : Rows(decrees[e]) \cap Rows(mu) # {}}
  <1>1. CASE ~mu.candidate BY <1>1 DEF make_idempotent
  <1>2. CASE mu.candidate
    <2>1. ASSUME NEW e \in ds PROVE FALSE
      <3>1. PICK row \in Rows(decrees[e]) : row \in Rows(mu) OBVIOUS
      <3>2. e \in applied + 1 .. Len(decrees) /\ e \in Nat /\ e > applied OBVIOUS
      <3>3. Guards(w, row, e) BY <3>1, <3>2 DEF LocksHold
      <3>4. row \in w.locks /\ w.lru \in Seq(RowEntry) BY <3>3 DEF Guards, Work
      <3>5. \E i \in DOMAIN w.lru : w.lru[i].row = row BY <3>4 DEF Listed
      <3>6. Entry(w, row) \in DOMAIN w.lru /\ w.lru[Entry(w, row)].row = row
        BY <3>4, <3>5, EntryIs
      <3>7. w.lru[Entry(w, row)].decree >= e BY <3>3, <3>6 DEF Guards
      <3>8. w.lru[Entry(w, row)] \in RowEntry BY <3>4, <3>6
      <3>9. w.lru[Entry(w, row)].decree > applied BY <3>2, <3>7, <3>8 DEF RowEntry
      <3> QED BY <3>1, <3>4, <3>9, <1>2 DEF row_locked
    <2>2. ds = {} BY <2>1
    <2>3. dirty' = dirty \cup {IF decrees[d].local THEN "own" ELSE "foreign" : d \in ds}
      BY <1>2 DEF make_idempotent
    <2> HIDE DEF ds
    <2> QED BY <2>2, <2>3
  <1> QED BY <1>1, <1>2

\* What init_prepare is given, with the decree up to which all is applied.
Ready(w, applied) ==
    /\ w \in Work(Open) /\ Listed(w)
    /\ applied \in Nat /\ decrees \in Seq(Made)
    /\ applied <= Len(decrees) /\ Len(decrees) <= applied + MaxConcurrentOp
    /\ w.mu # Null /\ w.mu.candidate => ~row_locked(w, w.mu, applied)

Clean(w, applied) == Exact(w) /\ LocksHold(w, decrees, applied) /\ dirty = {}

\* What init_prepare leaves, whether it refuses the mutation or gives it a decree.
LEMMA InitPrepareState ==
    ASSUME NEW w, NEW applied, Ready(w, applied), NEW short \in BOOLEAN,
           init_prepare(w, applied, short)
    PROVE  /\ Contents' \in Work(Open) /\ Listed(Contents')
           /\ decrees' \in Seq(Made)
           /\ applied <= Len(decrees') /\ Len(decrees') <= applied + MaxConcurrentOp
           /\ Clean(w, applied) =>
                Exact(Contents') /\ LocksHold(Contents', decrees', applied) /\ dirty' = {}
  <1>t. /\ w \in Work(Open) /\ Listed(w) /\ applied \in Nat /\ decrees \in Seq(Made)
        /\ applied <= Len(decrees) /\ Len(decrees) <= applied + MaxConcurrentOp
        /\ Len(decrees) \in Nat /\ MaxConcurrentOp \in Nat
    <2>1. /\ w \in Work(Open) /\ Listed(w) /\ applied \in Nat /\ decrees \in Seq(Made)
          /\ applied <= Len(decrees) /\ Len(decrees) <= applied + MaxConcurrentOp
      BY DEF Ready
    <2>2. MaxConcurrentOp \in Nat BY QueueAssumption
    <2>3. Len(decrees) \in Nat BY <2>1
    <2> QED BY <2>1, <2>2, <2>3
  <1>f. w.mu # Null /\ w.mu.candidate => ~row_locked(w, w.mu, applied) BY DEF Ready
  \* the cases in which the queue is just written back
  <1>1. ASSUME SetContents(w), decrees' = decrees,
               Clean(w, applied) => dirty' = {}
        PROVE  /\ Contents' \in Work(Open) /\ Listed(Contents')
               /\ decrees' \in Seq(Made)
               /\ applied <= Len(decrees') /\ Len(decrees') <= applied + MaxConcurrentOp
               /\ Clean(w, applied) =>
                    Exact(Contents') /\ LocksHold(Contents', decrees', applied) /\ dirty' = {}
    <2>1. /\ Contents' \in Work(Open) /\ Listed(Contents')
          /\ Contents'.locks = w.locks /\ Contents'.lru = w.lru /\ current_op_count' = w.ops
      BY <1>1, <1>t, ContentsSet
    <2> DEFINE c == Contents'
    <2>2. c.locks = w.locks /\ c.lru = w.lru BY <2>1
    <2>3. /\ Exact(w) => Exact(c)
          /\ LocksHold(w, decrees, applied) => LocksHold(c, decrees, applied)
      <3> HIDE DEF c
      <3> QED BY <2>2, SameLocks
    <2>4. Clean(w, applied) =>
            Exact(Contents') /\ LocksHold(Contents', decrees', applied) /\ dirty' = {}
      BY <2>3, <1>1 DEF Clean
    <2> QED BY <2>1, <2>4, <1>1, <1>t
  <1>2. CASE w.mu = Null /\ SetContents(w) /\ UNCHANGED <<decrees, dirty>>
    BY <1>1, <1>2, <1>t DEF Clean
  <1>3. CASE /\ w.mu # Null /\ make_idempotent(w.mu, applied)
             /\ SetContents(w) /\ UNCHANGED decrees
    <2>1. Clean(w, applied) => dirty' = {} BY <1>3, <1>t, <1>f, FreeRowClean DEF Clean
    <2> QED BY <2>1, <1>1, <1>3
  <1>4. CASE /\ w.mu # Null /\ make_idempotent(w.mu, applied)
             /\ ~(Len(decrees) + 1 > applied + MaxConcurrentOp)
             /\ decrees' = Append(decrees, w.mu)
             /\ SetContents(enter_2pc(w, w.mu, Len(decrees) + 1, applied))
    <2> DEFINE d == Len(decrees) + 1
               mu == w.mu
               x == enter_2pc(w, mu, d, applied)
               c == Contents'
    <2>1. mu \in Own /\ mu \in Made /\ mu.local BY <1>4, <1>t DEF Work, Own
    <2>2. d \in Nat /\ d > applied /\ d <= applied + MaxConcurrentOp BY <1>4, <1>t
    <2>3. /\ x \in Work(Open) /\ Relocked(w, x, applied)
          /\ Exact(w) => \A row \in Rows(mu) : Guards(x, row, d)
      <3> HIDE DEF d
      <3> QED BY <2>1, <2>2, <1>t, EnterState
    <2>4. SetContents(x) BY <1>4
    <2> HIDE DEF x
    <2>5. /\ c \in Work(Open) /\ Listed(c)
          /\ c.locks = x.locks /\ c.lru = x.lru /\ current_op_count' = x.ops
      BY <2>3, <2>4, ContentsSet DEF Relocked
    <2>6. /\ decrees' \in Seq(Made) /\ Len(decrees') = d /\ decrees'[d] = mu
          /\ \A e \in 1 .. Len(decrees) : decrees'[e] = decrees[e]
      BY <1>4, <1>t, <2>1, AppendProperties
    <2>7. ASSUME Clean(w, applied)
          PROVE  Exact(c) /\ LocksHold(c, decrees', applied) /\ dirty' = {}
      <3> HIDE DEF c, mu
      <3>1. dirty' = {} BY <1>4, <1>t, <1>f, <2>7, FreeRowClean DEF Clean
      <3>2. Exact(x) /\ \A r, y : y \in Nat /\ y > applied /\ Guards(w, r, y) => Guards(x, r, y)
        BY <2>3, <2>7 DEF Relocked, Clean
      <3>3. Exact(c) /\ \A r, y : Guards(x, r, y) => Guards(c, r, y)
        BY <3>2, <2>5, SameLocks
      <3>4. ASSUME NEW e \in applied + 1 .. Len(decrees'), NEW row \in Rows(decrees'[e])
            PROVE  Guards(c, row, e)
        <4>1. CASE e = d
          <5>1. Guards(x, row, d) BY <4>1, <2>3, <2>6, <2>7, <3>4 DEF Clean
          <5> QED BY <5>1, <4>1, <3>3
        <4>2. CASE e # d
          <5>1. e \in 1 .. Len(decrees) /\ e \in applied + 1 .. Len(decrees) /\ e \in Nat
                /\ e > applied
            BY <4>2, <2>6, <1>t
          <5>2. row \in Rows(decrees[e]) BY <5>1, <2>6, <3>4
          <5>3. Guards(w, row, e) BY <5>1, <5>2, <2>7 DEF Clean, LocksHold
          <5> QED BY <5>1, <5>3, <3>2, <3>3
        <4> QED BY <4>1, <4>2
      <3>5. LocksHold(c, decrees', applied) BY <3>4 DEF LocksHold
      <3> QED BY <3>1, <3>3, <3>5
    <2>8. applied <= Len(decrees') /\ Len(decrees') <= applied + MaxConcurrentOp
      BY <2>2, <2>6, <1>4, <1>t
    <2> QED BY <2>5, <2>6, <2>7, <2>8
  <1> QED BY <1>2, <1>3, <1>4 DEF init_prepare

-------------------------------------------------------------------------------
\* Every caller of init_prepare ends in the invariant.
LEMMA AfterPrepare ==
    ASSUME NEW w, NEW applied, Ready(w, applied), NEW short \in BOOLEAN,
           init_prepare(w, applied, short), last_applied' = applied,
           role' \in {"primary", "short", "other"}, changes' \in Nat,
           changes' = 0 => role' = "primary" /\ Clean(w, applied)
    PROVE  QInv'
  <1>1. /\ Contents' \in Work(Open) /\ Listed(Contents')
        /\ decrees' \in Seq(Made)
        /\ applied <= Len(decrees') /\ Len(decrees') <= applied + MaxConcurrentOp
        /\ Clean(w, applied) =>
             Exact(Contents') /\ LocksHold(Contents', decrees', applied) /\ dirty' = {}
    BY InitPrepareState
  <1>2. applied \in Nat BY DEF Ready
  <1> QED BY <1>1, <1>2 DEF QInv

\* The queue between two calls has no mutation at hand.
LEMMA ContentsIs ==
    /\ Contents.mu = Null /\ Contents.ops = current_op_count
    /\ Contents.pending = pending_mutation /\ Contents.queue = queue
    /\ Contents.blocking = blocking_mutations
    /\ Contents.locks = row_locks /\ Contents.lru = lru_rows
  BY DEF Contents

\* A client's write.
LEMMA ClientWriteStep ==
    ASSUME QInv, NEW row \in Row, NEW kind \in Kind, on_client_write(row, kind)
    PROVE  QInv'
  <1> DEFINE g == add_work(Contents, row, kind)
  <1>1. g \in Work(Open) /\ Handed(Contents, g, last_applied)
    BY AddWorkState, ContentsIs DEF QInv
  <1>2. init_prepare(g, last_applied, FALSE) BY Zenon DEF on_client_write
  <1> HIDE DEF g
  <1>3. g.locks = Contents.locks /\ g.lru = Contents.lru BY <1>1 DEF Handed
  <1>4. Listed(g) BY <1>3, SameLocks DEF QInv
  <1>5. Ready(g, last_applied) BY <1>1, <1>4 DEF Ready, QInv, Handed
  <1>6. role = "primary" BY DEF on_client_write
  <1>8. changes = 0 => Clean(g, last_applied)
    BY <1>3, SameLocks DEF QInv, Clean
  <1>9. role' = role /\ last_applied' = last_applied /\ changes' = changes
    BY DEF on_client_write
  <1>10. role' \in {"primary", "short", "other"} /\ changes' \in Nat BY <1>9 DEF QInv
  <1> QED BY Zenon, <1>2, <1>5, <1>6, <1>8, <1>9, <1>10, AfterPrepare

\* The empty mutation of the group check.
LEMMA EmptyMutation == Mutation(<<>>, FALSE, TRUE) \in Own
  <1> DEFINE mu == Mutation(<<>>, FALSE, TRUE)
  <1>1. <<>> \in Seq([row : Row, kind : Kind]) /\ Len(<<>>) = 0 /\ DOMAIN <<>> = {} OBVIOUS
  <1>2. <<>> \in UNION {[1..n -> [row : Row, kind : Kind]] : n \in 0..MaxBatch}
    <2> DEFINE e == <<>>
    <2>1. e \in Seq([row : Row, kind : Kind]) /\ Len(e) <= MaxBatch BY <1>1, QueueAssumption
    <2> HIDE DEF e
    <2>2. e \in UNION {[1..n -> [row : Row, kind : Kind]] : n \in 0..MaxBatch}
      BY Zenon, <2>1, RequestsOf
    <2> QED BY <2>2 DEF e
  <1>3. mu \in Mutations /\ mu.reqs = <<>> /\ mu.local = TRUE
    BY <1>2 DEF Mutation, Mutations
  <1> HIDE DEF mu
  <1> QED BY Zenon, <1>1, <1>3 DEF Own, Made, mu

\* The group check, which does not pass through the queue.
LEMMA GroupCheckStep ==
    ASSUME QInv, broadcast_group_check
    PROVE  QInv'
  <1> DEFINE mu == Mutation(<<>>, FALSE, TRUE)
             g == [Contents EXCEPT !.mu = mu]
  <1>1. mu \in Own /\ mu # Null /\ ~mu.candidate
    <2>1. mu \in Own BY Zenon, EmptyMutation
    <2>2. mu \in Mutations BY Zenon, <2>1 DEF Own, Made
    <2>3. ~mu.candidate BY DEF Mutation
    <2> QED BY Zenon, <2>1, <2>2, <2>3, NullAssumption
  <1>2. init_prepare(g, last_applied, FALSE) BY Zenon DEF broadcast_group_check
  <1> HIDE DEF mu
  <1>3. /\ g \in Work(Open) /\ g.mu = mu /\ g.ops = Contents.ops
        /\ g.locks = Contents.locks /\ g.lru = Contents.lru
    BY <1>1, SetMu DEF QInv
  <1> HIDE DEF g
  <1>4. Listed(g) BY <1>3, SameLocks DEF QInv
  <1>5. Ready(g, last_applied) BY <1>1, <1>3, <1>4 DEF Ready, QInv
  <1>6. role = "primary" BY DEF broadcast_group_check
  <1>8. changes = 0 => Clean(g, last_applied)
    BY <1>3, SameLocks DEF QInv, Clean
  <1>9. role' = role /\ last_applied' = last_applied /\ changes' = changes
    BY DEF broadcast_group_check
  <1>10. role' \in {"primary", "short", "other"} /\ changes' \in Nat BY <1>9 DEF QInv
  <1> QED BY Zenon, <1>2, <1>5, <1>6, <1>8, <1>9, <1>10, AfterPrepare

\* The next decree is applied: the rows it held are those of later decrees only.
LEMMA ExecuteStep ==
    ASSUME QInv, execute_mutation
    PROVE  QInv'
  <1> DEFINE a == last_applied + 1
             running == Len(decrees) - last_applied - 1
             g == next_work(Contents, running, a)
  <1>t. /\ last_applied \in Nat /\ Len(decrees) \in Nat /\ last_applied < Len(decrees)
        /\ Len(decrees) <= last_applied + MaxConcurrentOp /\ MaxConcurrentOp \in Nat
    BY QueueAssumption DEF QInv, execute_mutation, Applied
  <1>1. a \in Nat /\ a <= Len(decrees) /\ Len(decrees) <= a + MaxConcurrentOp
        /\ running \in 0 .. MaxConcurrentOp /\ running = Len(decrees) - a
    BY <1>t
  <1>2. /\ last_applied' = a /\ role' = role /\ changes' = changes
        /\ role' \in {"primary", "short", "other"} /\ changes' \in Nat
    BY DEF execute_mutation, Applied, QInv
  <1>3. CASE role = "other" /\ UNCHANGED <<work, rowVars, decrees, dirty, refusals>>
    <2>1. Contents' = Contents /\ decrees' = decrees
      BY <1>3 DEF work, rowVars, Contents
    <2>2. changes # 0 BY <1>3 DEF QInv
    <2> QED BY <1>1, <1>2, <1>3, <2>1, <2>2 DEF QInv
  <1>4. CASE role # "other" /\ init_prepare(g, a, role = "short")
    <2> HIDE DEF a, running
    <2>1. /\ g \in Work(Open) /\ g.locks = Contents.locks /\ g.lru = Contents.lru
          /\ g.ops = IF g.mu = Null THEN running ELSE running + 1
          /\ g.mu # Null /\ g.mu.candidate => ~row_locked(g, g.mu, a)
      <3>1. Contents \in Work(Open) /\ Contents.mu = Null BY ContentsIs DEF QInv
      <3>2. g = next_work(Contents, running, a) OBVIOUS
      <3> HIDE DEF g
      <3> QED BY <1>1, <3>1, <3>2, NextWorkState
    <2> HIDE DEF g
    <2>2. Listed(g) BY <2>1, SameLocks DEF QInv
    <2>3. Ready(g, a) BY <1>1, <2>1, <2>2 DEF Ready, QInv
    <2>5. changes = 0 => Clean(g, a)
      <3> SUFFICES ASSUME changes = 0 PROVE Clean(g, a) OBVIOUS
      <3>1. Exact(Contents) /\ LocksHold(Contents, decrees, last_applied) /\ dirty = {}
        BY DEF QInv
      <3>2. LocksHold(Contents, decrees, a)
        <4>1. \A d \in a + 1 .. Len(decrees) : d \in last_applied + 1 .. Len(decrees)
          BY <1>t, <1>1 DEF a
        <4> QED BY <4>1, <3>1 DEF LocksHold
      <3> QED BY <3>1, <3>2, <2>1, SameLocks DEF Clean
    <2>6. changes = 0 => role = "primary" BY DEF QInv
    <2>8. (role = "short") \in BOOLEAN OBVIOUS
    <2> QED BY Zenon, <1>4, <1>2, <2>3, <2>5, <2>6, <2>8, AfterPrepare
  <1> QED BY <1>3, <1>4 DEF execute_mutation

\* A cleared queue holds no lock.
LEMMA ClearState ==
    ASSUME NEW w \in Work(Open)
    PROVE  clear(w) \in Work(Open) /\ Listed(clear(w))
  <1> DEFINE x == [w EXCEPT !.pending = Null]
             y == [x EXCEPT !.queue = <<>>]
             z == [y EXCEPT !.blocking = <<>>]
             c == [z EXCEPT !.locks = {}]
  <1>1. clear(w) = c BY DEF clear
  <1>2. <<>> \in Seq(Own) BY EmptySeq
  <1>3. Null \in Open \cup {Null} /\ {} \in SUBSET Row OBVIOUS
  <1>4. x \in Work(Open) BY <1>3, SetPending
  <1> HIDE DEF x
  <1>5. y \in Work(Open) BY Zenon, <1>2, <1>4, SetQueue
  <1> HIDE DEF y
  <1>6. z \in Work(Open) BY Zenon, <1>2, <1>5, SetBlocking
  <1> HIDE DEF z
  <1>7. c \in Work(Open) /\ c.locks = {} BY <1>3, <1>6, SetLocks
  <1> HIDE DEF c
  <1> QED BY <1>1, <1>7 DEF Listed

\* The replica stops being primary, with or without the queue being cleared.
LEMMA LeavePrimaryStep ==
    ASSUME QInv, NEW cleaned \in BOOLEAN, LeavePrimary(cleaned)
    PROVE  QInv'
  <1> DEFINE g == IF cleaned THEN clear(Contents) ELSE Contents
  <1>1. g \in Work(Open) /\ Listed(g)
    <2>1. Contents \in Work(Open) /\ Listed(Contents) BY DEF QInv
    <2>2. clear(Contents) \in Work(Open) /\ Listed(clear(Contents)) BY <2>1, ClearState
    <2> QED BY <2>1, <2>2
  <1>2. SetContents(g) BY DEF LeavePrimary
  <1> HIDE DEF g
  <1>3. Contents' \in Work(Open) /\ Listed(Contents') BY <1>1, <1>2, ContentsSet
  <1>4. /\ decrees' = decrees /\ last_applied' = last_applied
        /\ role' = "other" /\ changes' = changes + 1
    BY DEF LeavePrimary
  <1>5. changes' \in Nat /\ changes' # 0 BY <1>4 DEF QInv
  <1> QED BY <1>3, <1>4, <1>5 DEF QInv

\* Another primary's mutation takes a decree that is not applied.
LEMMA ForeignStep ==
    ASSUME QInv, NEW d \in (last_applied + 1)..(Len(decrees) + 1), NEW row \in Row,
           on_prepare(d, row)
    PROVE  QInv'
  <1> DEFINE mu == Mutation(<<[row |-> row, kind |-> "put"]>>, FALSE, FALSE)
  <1>t. last_applied \in Nat /\ Len(decrees) \in Nat /\ last_applied <= Len(decrees)
        /\ Len(decrees) <= last_applied + MaxConcurrentOp /\ MaxConcurrentOp \in Nat
        /\ decrees \in Seq(Made) /\ d <= last_applied + MaxConcurrentOp
    BY QueueAssumption DEF QInv, on_prepare
  <1>1. mu \in Made
    <2> DEFINE r == [row |-> row, kind |-> "put"]
               q == <<r>>
    <2>1. r \in [row : Row, kind : Kind] /\ r.kind = "put" BY DEF Kind
    <2> HIDE DEF r
    <2>2. q \in Seq([row : Row, kind : Kind]) /\ Len(q) = 1 /\ q[1] = r /\ DOMAIN q = {1}
      BY <2>1
    <2>3. Len(q) <= MaxBatch BY <2>2, QueueAssumption
    <2>4. mu = Mutation(q, FALSE, FALSE) BY DEF r
    <2> HIDE DEF q, mu
    <2>5. q \in UNION {[1..n -> [row : Row, kind : Kind]] : n \in 0..MaxBatch}
      BY Zenon, <2>2, <2>3, RequestsOf
    <2>6. mu \in Mutations /\ mu.reqs = q BY <2>4, <2>5 DEF Mutation, Mutations
    <2> QED BY <2>1, <2>2, <2>6 DEF Made
  <1>2. decrees' = IF d > Len(decrees) THEN Append(decrees, mu) ELSE [decrees EXCEPT ![d] = mu]
    BY DEF on_prepare
  <1> HIDE DEF mu
  <1>3. /\ decrees' \in Seq(Made) /\ last_applied <= Len(decrees')
        /\ Len(decrees') <= last_applied + MaxConcurrentOp
    <2>1. CASE d > Len(decrees)
      <3>1. decrees' \in Seq(Made) /\ Len(decrees') = Len(decrees) + 1
        BY <2>1, <1>1, <1>2, <1>t, AppendProperties
      <3> QED BY <3>1, <2>1, <1>t
    <2>2. CASE ~(d > Len(decrees))
      <3>1. d \in 1 .. Len(decrees) BY <2>2, <1>t
      <3>2. decrees' = [decrees EXCEPT ![d] = mu] BY <2>2, <1>2
      <3>3. decrees' \in Seq(Made) /\ Len(decrees') = Len(decrees)
        BY <3>1, <3>2, <1>1, <1>t, ExceptSeq
      <3> QED BY <3>3, <1>t
    <2> QED BY <2>1, <2>2
  <1>4. /\ Contents' = Contents /\ last_applied' = last_applied /\ role' = role
        /\ changes' = changes /\ role = "other"
    BY DEF on_prepare, work, rowVars, Contents
  <1>5. changes # 0 BY <1>4 DEF QInv
  <1> QED BY <1>3, <1>4, <1>5 DEF QInv

\* The replica becomes primary again.
LEMMA BecomePrimaryStep ==
    ASSUME QInv, NEW short \in BOOLEAN, BecomePrimary(short)
    PROVE  QInv'
  <1> DEFINE running == Len(decrees) - last_applied
             e == replay_prepare_list(Contents)
             g == next_work(e, running, last_applied)
  <1>t. /\ last_applied \in Nat /\ Len(decrees) \in Nat /\ last_applied <= Len(decrees)
        /\ Len(decrees) <= last_applied + MaxConcurrentOp /\ MaxConcurrentOp \in Nat
        /\ decrees \in Seq(Made)
        /\ Contents \in Work(Open) /\ Listed(Contents)
    BY QueueAssumption DEF QInv
  <1>1. running \in 0 .. MaxConcurrentOp BY <1>t
  <1>2. e \in Work(Open) /\ Listed(e) /\ SameQueue(Contents, e)
    BY <1>t, ReplayState
  <1>3. e.mu = Null BY <1>2, ContentsIs DEF SameQueue
  <1>4. /\ role' \in {"primary", "short", "other"} /\ changes' = changes
        /\ last_applied' = last_applied /\ role = "other" /\ changes # 0 /\ changes' \in Nat
    BY DEF BecomePrimary, QInv
  <1>5. IF short THEN SetContents(clear(g)) /\ UNCHANGED <<decrees, dirty, refusals>>
        ELSE init_prepare(g, last_applied, FALSE)
    BY Zenon DEF BecomePrimary
  <1> HIDE DEF e, running
  <1>6. /\ g \in Work(Open) /\ g.locks = e.locks /\ g.lru = e.lru
        /\ g.ops = IF g.mu = Null THEN running ELSE running + 1
        /\ g.mu # Null /\ g.mu.candidate => ~row_locked(g, g.mu, last_applied)
    BY <1>1, <1>2, <1>3, NextWorkState
  <1> HIDE DEF g
  <1>7. Listed(g) BY <1>6, <1>2, SameLocks
  <1>8. CASE short
    <2>1. clear(g) \in Work(Open) /\ Listed(clear(g)) BY <1>6, <1>7, ClearState
    <2> DEFINE c == clear(g)
    <2>2. SetContents(c) /\ c \in Work(Open) /\ Listed(c) BY <1>5, <1>8, <2>1
    <2> HIDE DEF c
    <2>3. Contents' \in Work(Open) /\ Listed(Contents') BY <2>2, ContentsSet
    <2>4. role' = "short" BY <1>8 DEF BecomePrimary
    <2> QED BY <1>4, <1>5, <1>8, <1>t, <2>3, <2>4 DEF QInv
  <1>9. CASE ~short
    <2>1. Ready(g, last_applied) BY <1>6, <1>7, <1>t DEF Ready
    <2> QED BY Zenon, <2>1, <1>4, <1>5, <1>9, AfterPrepare
  <1> QED BY <1>8, <1>9

-------------------------------------------------------------------------------
\* The invariant holds at first.
LEMMA QInitInv == Init => QInv
  <1> SUFFICES ASSUME Init PROVE QInv OBVIOUS
  <1>1. Contents = [pending |-> Null, queue |-> <<>>, blocking |-> <<>>, ops |-> 0,
                    locks |-> {}, lru |-> <<>>, mu |-> Null]
    BY DEF Contents, Init
  <1>2. <<>> \in Seq(Own) /\ <<>> \in Seq(RowEntry) /\ <<>> \in Seq(Made) BY EmptySeq
  <1>3. Contents \in Work(Open) BY <1>1, <1>2, QueueAssumption DEF Work
  <1>4. Contents.locks = {} /\ Contents.lru = <<>> /\ DOMAIN <<>> = {} BY <1>1
  <1>5. Listed(Contents) /\ Exact(Contents) BY <1>4 DEF Listed, Exact
  <1>6. decrees = <<>> /\ last_applied = 0 /\ Len(<<>>) = 0 BY DEF Init
  <1>7. LocksHold(Contents, decrees, last_applied) BY <1>6 DEF LocksHold
  <1>8. decrees \in Seq(Made) /\ Len(decrees) = 0 BY <1>2, <1>6
  <1>9. changes = 0 /\ role = "primary" /\ dirty = {}
    BY DEF Init
  <1> QED BY <1>3, <1>5, <1>6, <1>7, <1>8, <1>9, QueueAssumption DEF QInv

\* Every step keeps it.
LEMMA QNextInv == QInv /\ [Next]_vars => QInv'
  <1> SUFFICES ASSUME QInv, [Next]_vars PROVE QInv' OBVIOUS
  <1>1. CASE UNCHANGED vars
    <2>1. Contents' = Contents BY <1>1 DEF vars, work, rowVars, Contents
    <2>2. /\ decrees' = decrees /\ last_applied' = last_applied /\ role' = role
          /\ changes' = changes /\ dirty' = dirty
      BY <1>1 DEF vars, work
    <2> QED BY <2>1, <2>2 DEF QInv
  <1>2. ASSUME NEW row \in Row, NEW kind \in Kind, on_client_write(row, kind) PROVE QInv'
    BY <1>2, ClientWriteStep
  <1>3. CASE broadcast_group_check BY <1>3, GroupCheckStep
  <1>4. CASE execute_mutation BY <1>4, ExecuteStep
  <1>5. ASSUME NEW cleaned \in BOOLEAN, LeavePrimary(cleaned) PROVE QInv'
    BY <1>5, LeavePrimaryStep
  <1>6. ASSUME NEW d \in (last_applied + 1)..(Len(decrees) + 1), NEW row \in Row,
               on_prepare(d, row)
        PROVE  QInv'
    BY <1>6, ForeignStep
  <1>7. ASSUME NEW short \in BOOLEAN, BecomePrimary(short) PROVE QInv'
    BY <1>7, BecomePrimaryStep
  <1> QED BY <1>1, <1>2, <1>3, <1>4, <1>5, <1>6, <1>7 DEF Next

\* mutation_queue and its callers keep the queue well formed, the running
\* mutations within staleness_for_commit, and, in the first term as primary, the
\* rows of every mutation in two-phase commit locked.
THEOREM QueueInvariant == Spec => []QInv
  BY QInitInv, QNextInv, PTL DEF Spec

\* The types of the queue's members; a mutation never has more requests than fill
\* it and every lock in _row_locks has its entry in _lru_rows.
THEOREM QueueTypeCorrect == Spec => []TypeOK
  <1>1. QInv => TypeOK
    <2> SUFFICES ASSUME QInv PROVE TypeOK OBVIOUS
    <2>1. /\ pending_mutation \in Open \cup {Null} /\ queue \in Seq(Own)
          /\ blocking_mutations \in Seq(Own) /\ current_op_count \in 0 .. MaxConcurrentOp
      BY ContentsIs DEF QInv, Work
    <2>2. Open \subseteq Own /\ Own \subseteq Mutations /\ Made \subseteq Mutations
      BY DEF Open, Own, Made
    <2>3. \A i \in 1 .. Len(queue) : queue[i] \in Own BY <2>1, ElementOfSeq
    <2>4. \A i \in 1 .. Len(blocking_mutations) : blocking_mutations[i] \in Own
      BY <2>1, ElementOfSeq
    <2>5. \A i \in 1 .. Len(decrees) : decrees[i] \in Made BY ElementOfSeq DEF QInv
    <2>6. /\ DOMAIN queue = 1 .. Len(queue) /\ DOMAIN decrees = 1 .. Len(decrees)
          /\ DOMAIN blocking_mutations = 1 .. Len(blocking_mutations)
      BY <2>1 DEF QInv
    <2>7. Range(queue) \cup Range(blocking_mutations) \cup Range(decrees) \subseteq Mutations
      BY <2>2, <2>3, <2>4, <2>5, <2>6 DEF Range
    <2>8. row_locks \subseteq {lru_rows[i].row : i \in DOMAIN lru_rows}
      BY ContentsIs DEF QInv, Listed
    <2>10. last_applied \in 0 .. Len(decrees) BY DEF QInv
    <2> QED BY <2>1, <2>2, <2>7, <2>8, <2>10 DEF TypeOK, QInv
  <1> QED BY <1>1, QueueInvariant, PTL

\* make_idempotent's CHECK holds: add_work never batches an atomic write with
\* another request, wherever the mutation waits and whoever prepared it.
THEOREM AtomicStaysAlone == Spec => []AtomicAlone
  <1>1. QInv => AtomicAlone
    <2> SUFFICES ASSUME QInv PROVE AtomicAlone OBVIOUS
    <2>1. /\ pending_mutation \in Open \cup {Null} /\ queue \in Seq(Own)
          /\ blocking_mutations \in Seq(Own)
      BY ContentsIs DEF QInv, Work
    <2>2. Open \subseteq Made /\ Own \subseteq Made BY DEF Open, Own
    <2>3. \A i \in 1 .. Len(queue) : queue[i] \in Own BY <2>1, ElementOfSeq
    <2>4. \A i \in 1 .. Len(blocking_mutations) : blocking_mutations[i] \in Own
      BY <2>1, ElementOfSeq
    <2>5. \A i \in 1 .. Len(decrees) : decrees[i] \in Made BY ElementOfSeq DEF QInv
    <2>6. /\ DOMAIN queue = 1 .. Len(queue) /\ DOMAIN decrees = 1 .. Len(decrees)
          /\ DOMAIN blocking_mutations = 1 .. Len(blocking_mutations)
      BY <2>1 DEF QInv
    <2>7. Range(queue) \cup Range(blocking_mutations) \cup Range(decrees)
             \cup ({pending_mutation} \ {Null}) \subseteq Made
      BY <2>1, <2>2, <2>3, <2>4, <2>5, <2>6 DEF Range
    <2> QED BY <2>7 DEF AtomicAlone, Made
  <1> QED BY <1>1, QueueInvariant, PTL

\* In the first term of a primary no atomic write is translated from a value that
\* a mutation in two-phase commit is about to change, however few rows the lock
\* table may hold.
THEOREM FirstTermReadsApplied == Spec => []AtomicReadsApplied
  <1>1. QInv => AtomicReadsApplied BY DEF QInv, AtomicReadsApplied
  <1> QED BY <1>1, QueueInvariant, PTL
=============================================================================
