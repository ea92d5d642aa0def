----------------------------- MODULE DecreeWindow -----------------------------
(***************************************************************************)
(* What a mutation_cache promises its callers: a bounded window of         *)
(* consecutive decrees, lo .. lo+size-1, that remembers at most one        *)
(* mutation for each of them.  How the window is laid out in memory is the *)
(* business of MutationCache, which implements this specification.         *)
(***************************************************************************)
EXTENDS Integers

CONSTANTS MaxCount,   \* the widest window that may be held
          Mutation,   \* the mutations that may be stored
          Null        \* "no mutation"

VARIABLES lo,         \* the smallest decree of the window
          size,       \* the number of decrees it spans
          win         \* the mutation remembered for each of its decrees

wvars == <<lo, size, win>>

Decrees == lo .. lo + size - 1

Empty == [d \in {} |-> Null]

Init == /\ lo \in Nat
        /\ size = 0
        /\ win = Empty

(***************************************************************************)
(* Remember mu.  The window is stretched, in either direction, just far    *)
(* enough to hold its decree; a window that would become wider than        *)
(* MaxCount is refused.  A mutation only gives way to one whose ballot is  *)
(* not smaller.                                                            *)
(***************************************************************************)
Put(mu) ==
    LET d  == mu.decree
        l  == IF size = 0 \/ d < lo THEN d ELSE lo
        h  == IF size = 0 \/ d > lo + size - 1 THEN d ELSE lo + size - 1
    IN  /\ size = 0 => d >= lo
        /\ d \in Decrees => win[d] = Null \/ win[d].ballot <= mu.ballot
        /\ h - l + 1 <= MaxCount
        /\ lo' = l
        /\ size' = h - l + 1
        /\ win' = [x \in l .. h |-> IF x = d THEN mu
                                    ELSE IF x \in Decrees THEN win[x] ELSE Null]

\* Forget the smallest decree.  An emptied window stays where it was.
PopMin == /\ size > 0
          /\ size' = size - 1
          /\ lo' = IF size = 1 THEN lo ELSE lo + 1
          /\ win' = [x \in lo + 1 .. lo + size - 1 |-> win[x]]

\* Forget everything and start again at any decree.
Reset == /\ lo' \in Nat
         /\ size' = 0
         /\ win' = Empty

Next == \/ \E mu \in Mutation : Put(mu)
        \/ PopMin
        \/ Reset

Spec == Init /\ [][Next]_wvars
===============================================================================
