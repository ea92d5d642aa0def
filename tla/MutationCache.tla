---------------------------- MODULE MutationCache ----------------------------
(***************************************************************************)
(* The ring buffer under every prepare list: class mutation_cache.  Its    *)
(* operations are written as operators on a record that holds the fields   *)
(* of the class, so that PrepareList, whose class derives from             *)
(* mutation_cache, can use them one after another inside one handler.      *)
(***************************************************************************)
EXTENDS Integers

CONSTANTS MaxCount,   \* _max_count, the capacity given to the constructor
          Mutation,   \* the mutations: records with at least decree and ballot
          Decree,     \* the decrees reset may be called with
          Null        \* nullptr

ASSUME MaxCountAssumption == MaxCount \in Nat \ {0}

ASSUME MutationAssumption ==
    /\ Null \notin Mutation
    /\ \A mu \in Mutation : mu.decree \in Nat /\ mu.ballot \in Nat

ASSUME DecreeAssumption == Decree \subseteq Nat

VARIABLE cache

Slots == 0 .. MaxCount - 1

(***************************************************************************)
(* The fields: _array, _interval, _start_idx, _end_idx, _start_decree and  *)
(* _end_decree.  reset(d, true) leaves the same object as the constructor. *)
(***************************************************************************)
ResetTo(d) == [array        |-> [i \in Slots |-> Null],
               interval     |-> 0,
               start_idx    |-> 0,
               end_idx      |-> 0,
               start_decree |-> d,
               end_decree   |-> d]

\* min_decree(), max_decree(), count()
MinDecree(c) == c.start_decree
MaxDecree(c) == c.end_decree
Count(c)     == c.interval

\* mutant: the last decree of the window is taken to be outside of it
GetExcludesEnd(c, d) ==
    IF d < c.start_decree \/ d >= c.end_decree
    THEN Null
    ELSE c.array[(c.start_idx + (d - c.start_decree) + MaxCount) % MaxCount]

GetMutationByDecree(c, d) ==
    IF d < c.start_decree \/ d > c.end_decree
    THEN Null
    ELSE c.array[(c.start_idx + (d - c.start_decree) + MaxCount) % MaxCount]

(***************************************************************************)
(* put: by how much the interval grows, and the slot of the decree.        *)
(***************************************************************************)
Delta(c, d) == IF c.interval = 0 THEN 1
               ELSE IF d > c.end_decree THEN d - c.end_decree
               ELSE IF d < c.start_decree THEN c.start_decree - d
               ELSE 0

PutIdx(c, d) == ((d - c.end_decree) + c.end_idx + MaxCount) % MaxCount

\* mutant: the capacity is missed by one
RoomForOneMore(c, d) == Delta(c, d) + c.interval <= MaxCount + 1

\* put does not answer ERR_CAPACITY_EXCEEDED
HasRoom(c, d) == Delta(c, d) + c.interval <= MaxCount

\* CHECK_LE(old->data.header.ballot, mu->data.header.ballot)
BallotCheck(c, mu) ==
    LET old == c.array[PutIdx(c, mu.decree)]
    IN  old # Null => old.ballot <= mu.ballot

PutIn(c, mu) ==
    LET d     == mu.decree
        idx   == PutIdx(c, d)
        first == c.interval = 0
        up    == first \/ d > c.end_decree
        down  == first \/ d < c.start_decree
    IN  [array        |-> [c.array EXCEPT ![idx] = mu],
         interval     |-> c.interval + Delta(c, d),
         start_idx    |-> IF down THEN idx ELSE c.start_idx,
         end_idx      |-> IF up THEN idx ELSE c.end_idx,
         start_decree |-> IF down THEN d ELSE c.start_decree,
         end_decree   |-> IF up THEN d ELSE c.end_decree]

\* mutant: the popped slot is not cleared
PopMinKeepsSlot(c) ==
    LET next == (c.start_idx + 1) % MaxCount
        last == c.interval = 1
    IN  [array        |-> c.array,
         interval     |-> c.interval - 1,
         start_idx    |-> next,
         end_idx      |-> IF last THEN next ELSE c.end_idx,
         start_decree |-> IF last THEN c.start_decree ELSE c.start_decree + 1,
         end_decree   |-> IF last THEN c.start_decree ELSE c.end_decree]

\* pop_min when there is something to pop
PopMinOf(c) ==
    LET next == (c.start_idx + 1) % MaxCount
        last == c.interval = 1
    IN  [array        |-> [c.array EXCEPT ![c.start_idx] = Null],
         interval     |-> c.interval - 1,
         start_idx    |-> next,
         end_idx      |-> IF last THEN next ELSE c.end_idx,
         start_decree |-> IF last THEN c.start_decree ELSE c.start_decree + 1,
         end_decree   |-> IF last THEN c.start_decree ELSE c.end_decree]
-------------------------------------------------------------------------------
Init == \E d \in Decree : cache = ResetTo(d)

(***************************************************************************)
(* The callers' side of the bargain: an empty cache is only given a decree *)
(* that is not below the one it stands at.  prepare_list::prepare          *)
(* guarantees it (it CHECKs that the decree is above the committed one,    *)
(* where an empty list stands); below it the slot index could be negative. *)
(***************************************************************************)
Put(mu) == /\ cache.interval = 0 => mu.decree >= cache.end_decree
           /\ HasRoom(cache, mu.decree)
           /\ BallotCheck(cache, mu)
           /\ cache' = PutIn(cache, mu)

\* ERR_CAPACITY_EXCEEDED: nothing changes
PutRefused(mu) == /\ ~HasRoom(cache, mu.decree)
                  /\ UNCHANGED cache

PopMin == IF cache.interval <= 0 THEN UNCHANGED cache
                                 ELSE cache' = PopMinOf(cache)

Reset(d) == cache' = ResetTo(d)

Next == \/ \E mu \in Mutation : Put(mu) \/ PutRefused(mu)
        \/ PopMin
        \/ \E d \in Decree : Reset(d)

Spec == Init /\ [][Next]_cache
-------------------------------------------------------------------------------
Cache == [array        : [Slots -> Mutation \cup {Null}],
          interval     : 0 .. MaxCount,
          start_idx    : Slots,
          end_idx      : Slots,
          start_decree : Nat,
          end_decree   : Nat]

\* Every field of the class keeps its type: put and pop_min never leave an
\* index outside the array or an interval above the capacity.
TypeOK == cache \in Cache

\* The slot of the k-th decree of the window.
SlotOf(c, k) == (c.start_idx + k) % MaxCount

(***************************************************************************)
(* The redundant fields agree: the two indices and the two decrees are     *)
(* _interval - 1 apart (around the ring), or coincide in an empty cache.   *)
(* put maintains them in three branches and pop_min in two.                *)
(***************************************************************************)
FieldsAgree(c) ==
    LET n == IF c.interval = 0 THEN 0 ELSE c.interval - 1
    IN  /\ c.end_decree = c.start_decree + n
        /\ c.end_idx = SlotOf(c, n)

RingInv == FieldsAgree(cache)

(***************************************************************************)
(* The array holds nothing but the window: a slot that is not empty is the *)
(* slot of some decree of the window and holds a mutation of that decree.  *)
(* So a slot reused after wrapping around never shows an older mutation.   *)
(***************************************************************************)
SlotsAgree(c) ==
    \A i \in Slots : c.array[i] # Null =>
        \E k \in 0 .. c.interval - 1 :
            /\ i = SlotOf(c, k)
            /\ c.array[i].decree = c.start_decree + k

SlotInv == SlotsAgree(cache)

(***************************************************************************)
(* get_mutation_by_decree(d) answers a mutation of decree d or nothing,    *)
(* for every decree a caller may ask for, inside the window or not.        *)
(***************************************************************************)
GetByDecreeInv ==
    \A d \in Decree : GetMutationByDecree(cache, d) # Null =>
        GetMutationByDecree(cache, d).decree = d
-------------------------------------------------------------------------------
\* The window that the ring represents.
Window == INSTANCE DecreeWindow WITH
    lo   <- cache.start_decree,
    size <- cache.interval,
    win  <- [d \in cache.start_decree .. cache.start_decree + cache.interval - 1
                |-> GetMutationByDecree(cache, d)]

(***************************************************************************)
(* The ring implements the window of decrees: every put, pop_min and reset *)
(* of the ring is a put, pop or reset of the window its lookups show.      *)
(***************************************************************************)
WindowSpec == Window!Spec
===============================================================================
