----------------------------- MODULE PrepareList -----------------------------
(***************************************************************************)
(* class prepare_list: a mutation_cache with a commit point.  One action   *)
(* per operation, called by an arbitrary replica that keeps the operations' *)
(* CHECKs.  Of a mutation the list only looks at the decree, the ballot    *)
(* and whether it is logged and ready for commit; the last_committed_decree *)
(* in its header is an argument of prepare.                                *)
(***************************************************************************)
EXTENDS MutationCache, FiniteSetsExt

CONSTANT Staleness     \* FLAGS_staleness_for_commit

ASSUME StalenessAssumption == Staleness \in Nat \ {0}

\* Null, which also stands for a loop without end, is not a list.
ASSUME NullAssumption == Null \notin Cache

VARIABLES last_committed_decree,   \* _last_committed_decree
          logged,                  \* mutations of the list with is_logged()
          ready                    \* mutations of the list with is_ready_for_commit()

plvars == <<cache, last_committed_decree, logged, ready>>

Held(c) == {c.array[i] : i \in Slots} \ {Null}

(***************************************************************************)
(* The loop of prepare that makes room,                                    *)
(*   while ((d - min_decree() >= capacity() || all) && lcd > min_decree()) *)
(*       pop_min();                                                        *)
(* is Null if it would run forever: pop_min leaves an empty cache alone.   *)
(***************************************************************************)
\* mutant: the loop also pops the mutations that are not committed
PopAgainUncommitted(c, lcd, d, all) == /\ d - MinDecree(c) >= MaxCount \/ all
                                       /\ Count(c) > 0

\* mutant: the loop stops one pop too early
PopAgainOffByOne(c, lcd, d, all) == /\ d - MinDecree(c) > MaxCount \/ all
                                    /\ lcd > MinDecree(c)

PopAgain(c, lcd, d, all) == /\ d - MinDecree(c) >= MaxCount \/ all
                            /\ lcd > MinDecree(c)

\* c after p calls of pop_min
Pops(c) == LET f[p \in 0 .. Count(c)] == IF p = 0 THEN c ELSE PopMinOf(f[p - 1]) IN f

PopCommitted(c, lcd, d, all) ==
    LET stops == {p \in 0 .. Count(c) : ~PopAgain(Pops(c)[p], lcd, d, all)}
    IN  IF stops = {} THEN Null ELSE Pops(c)[Min(stops)]

(***************************************************************************)
(* commit(d, ...): the decrees after lcd that are committed are those of a *)
(* prefix of mutations that are all in ok and whose ballots do not         *)
(* decrease.                                                               *)
(***************************************************************************)
Committable(c, lcd, hi, ok) ==
    LET mu(d) == GetMutationByDecree(c, d)
    IN  /\ \A d \in lcd + 1 .. hi : mu(d) # Null /\ mu(d) \in ok
        /\ \A d \in lcd + 2 .. hi : mu(d - 1).ballot <= mu(d).ballot

CommitSoft(c, lcd, hi, ok) ==
    Max({lcd} \cup {e \in lcd + 1 .. hi : Committable(c, lcd, e, ok)})

\* COMMIT_TO_DECREE_HARD aborts the process when it meets a mutation that is
\* missing or not logged.
HardAllowed(c, lcd, d) == Committable(c, lcd, d, logged)

CommitHard(lcd, d) == IF d <= lcd THEN lcd ELSE d
-------------------------------------------------------------------------------
\* The list becomes c with commit point lcd; flags of mutations it let go of
\* are of no interest any more.
Become(c, lcd) == /\ cache' = c
                  /\ last_committed_decree' = lcd
                  /\ logged' = logged \cap Held(c)
                  /\ ready' = ready \cap Held(c)

PLInit == \E d \in Decree : /\ cache = ResetTo(d)
                            /\ last_committed_decree = d
                            /\ logged = {}
                            /\ ready = {}

\* Bounded staleness, checked by replica::init_prepare on the primary.  mlcd is
\* the committed decree of the primary that the mutation carries.
Fresh(mu, mlcd) == mlcd < mu.decree /\ mu.decree <= mlcd + Staleness

\* prepare(mu, PS_PRIMARY, all)
PreparePrimary(mu, all) ==
    LET c == PopCommitted(cache, last_committed_decree, mu.decree, all)
    IN  /\ mu.decree > last_committed_decree
        /\ Fresh(mu, last_committed_decree)
        /\ c # Null
        /\ HasRoom(c, mu.decree) => BallotCheck(c, mu)
        /\ Become(IF HasRoom(c, mu.decree) THEN PutIn(c, mu) ELSE c, last_committed_decree)

\* prepare(mu, PS_SECONDARY or PS_POTENTIAL_SECONDARY, all): commits first, and
\* aborts if put is refused.  No caller passes secondary_commit = false.
PrepareSecondary(mu, mlcd, all) ==
    LET lcd == CommitHard(last_committed_decree, mlcd)
        c   == PopCommitted(cache, lcd, mu.decree, all)
    IN  /\ mu.decree > last_committed_decree
        /\ Fresh(mu, mlcd)
        /\ HardAllowed(cache, last_committed_decree, mlcd)
        /\ c # Null
        /\ HasRoom(c, mu.decree)
        /\ BallotCheck(c, mu)
        /\ Become(PutIn(c, mu), lcd)

\* prepare(mu, PS_INACTIVE): a mutation replayed from the log.  When its header
\* shows a commit point beyond the list, the list starts again there.
PrepareInactive(mu, mlcd) ==
    LET beyond == mlcd > MaxDecree(cache)
        lcd    == CommitHard(last_committed_decree, mlcd)
        c      == PopCommitted(IF beyond THEN ResetTo(mlcd) ELSE cache, lcd, mu.decree, FALSE)
    IN  /\ mu.decree > last_committed_decree
        /\ Fresh(mu, mlcd)
        /\ beyond \/ HardAllowed(cache, last_committed_decree, mlcd)
        /\ c # Null
        /\ HasRoom(c, mu.decree)
        /\ BallotCheck(c, mu)
        /\ Become(PutIn(c, mu), lcd)

\* commit(d, COMMIT_TO_DECREE_HARD)
Commit_Hard(d) ==
    /\ HardAllowed(cache, last_committed_decree, d)
    /\ last_committed_decree' = CommitHard(last_committed_decree, d)
    /\ UNCHANGED <<cache, logged, ready>>

\* commit(d, COMMIT_TO_DECREE_SOFT)
Commit_Soft(d) ==
    /\ last_committed_decree' = CommitSoft(cache, last_committed_decree, d, ready)
    /\ UNCHANGED <<cache, logged, ready>>

\* commit(d, COMMIT_ALL_READY)
Commit_AllReady(d) ==
    /\ d = last_committed_decree + 1
    /\ last_committed_decree' =
         CommitSoft(cache, last_committed_decree, MaxDecree(cache), ready)
    /\ UNCHANGED <<cache, logged, ready>>

\* set_logged(), and the last acknowledgement that makes a mutation ready
SetLogged(mu) == /\ logged' = logged \cup {mu}
                 /\ UNCHANGED <<cache, last_committed_decree, ready>>

\* mutant: an acknowledged mutation is ready although it is not logged
SetReadyUnlogged(mu) == /\ ready' = ready \cup {mu}
                        /\ UNCHANGED <<cache, last_committed_decree, logged>>

SetReady(mu) == /\ mu \in logged
                /\ ready' = ready \cup {mu}
                /\ UNCHANGED <<cache, last_committed_decree, logged>>

(***************************************************************************)
(* truncate(d): pop all up to d.  Every caller passes the application's    *)
(* committed decree, which is not behind the list's.                       *)
(***************************************************************************)
\* mutant: the emptied list is not moved to the new commit point
TruncatedNoReset(c, d) ==
    LET stops == {p \in 0 .. Count(c) : MinDecree(Pops(c)[p]) > d \/ p = Count(c)}
    IN  Pops(c)[Min(stops)]

Truncated(c, d) ==
    LET stops == {p \in 0 .. Count(c) : MinDecree(Pops(c)[p]) > d \/ p = Count(c)}
        last  == Min(stops)
    IN  IF last = Count(c) THEN ResetTo(d) ELSE Pops(c)[last]

Truncate(d) == /\ d >= last_committed_decree
               /\ Become(Truncated(cache, d), d)

PLReset(d) == Become(ResetTo(d), d)

PLNext ==
    \/ \E mu \in Mutation, all \in BOOLEAN :
          \/ PreparePrimary(mu, all)
          \/ \E mlcd \in Decree : PrepareSecondary(mu, mlcd, all)
    \/ \E mu \in Mutation, mlcd \in Decree : PrepareInactive(mu, mlcd)
    \/ \E d \in Decree : Commit_Hard(d) \/ Commit_Soft(d) \/ Commit_AllReady(d)
    \/ \E mu \in Held(cache) : SetLogged(mu) \/ SetReady(mu)
    \/ \E d \in Decree : Truncate(d) \/ PLReset(d)

PLSpec == PLInit /\ [][PLNext]_plvars
-------------------------------------------------------------------------------
\* The list is a well-formed mutation_cache, its flags are about mutations that
\* it holds, and only a logged mutation is ever ready for commit.
PLTypeOK == /\ cache \in Cache
            /\ last_committed_decree \in Nat
            /\ logged \subseteq Held(cache)
            /\ ready \subseteq logged

\* The decrees that the primary may have sent prepares for.
Preparable == last_committed_decree + 1 .. last_committed_decree + Staleness

(***************************************************************************)
(* Making room always ends: prepare's loop tests the commit point against  *)
(* min_decree(), which stops moving once the list is empty, so a commit    *)
(* point beyond an empty list would make it spin forever.                  *)
(***************************************************************************)
PopLoopEnds ==
    \A d \in Preparable, all \in BOOLEAN :
        PopCommitted(cache, last_committed_decree, d, all) # Null

(***************************************************************************)
(* A mutation within the staleness bound always fits: popping committed    *)
(* mutations makes enough room for it, so that a secondary, which aborts   *)
(* when put is refused, can prepare whatever its primary sends.            *)
(***************************************************************************)
PrepareNeverRefused ==
    \A d \in Preparable :
        HasRoom(PopCommitted(cache, last_committed_decree, d, FALSE), d)

(***************************************************************************)
(* Whatever is called, a prepared mutation above the commit point stays in *)
(* the list, or gives way to one of a ballot that is not smaller: no       *)
(* prepare, commit or truncate drops it.  Only reset forgets.              *)
(***************************************************************************)
UncommittedKept ==
    [][\/ \E d \in Decree : PLReset(d)
       \/ \A d \in last_committed_decree' + 1 .. MaxDecree(cache) :
            LET old == GetMutationByDecree(cache, d)
                new == GetMutationByDecree(cache', d)
            IN  old # Null => new # Null /\ new.ballot >= old.ballot]_plvars
===============================================================================
