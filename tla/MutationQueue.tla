---------------------------- MODULE MutationQueue ----------------------------
(***************************************************************************)
(* The write queue of a primary (class mutation_queue): batching of client *)
(* writes, the limit on mutations in two-phase commit, and the row locks   *)
(* that keep an atomic write waiting until earlier writes of its row are   *)
(* applied.  An atomic write is translated, when it is taken, to the       *)
(* idempotent write that its row's present value calls for                 *)
(* (make_idempotent); it must not read a value that is about to change.    *)
(*                                                                         *)
(* decrees[d] is the mutation prepared at decree d; decrees up to          *)
(* last_applied are in the storage engine.  role is "primary", "short" (a  *)
(* primary with too few members to take writes) or "other".                *)
(***************************************************************************)
EXTENDS Integers, Sequences, FiniteSetsExt

CONSTANTS Row,                \* partition hashes
          Null,
          MaxConcurrentOp,    \* staleness_for_commit
          MaxBatch,           \* requests that fill a mutation
          MaxRequests,        \* bound: client writes
          Budgets             \* instances: row_lock_map_capacity, which may be changed
                              \* at run time, and bounds on atomic writes that
                              \* make_idempotent refuses, times the replica stops being
                              \* primary, mutations prepared by another primary, and
                              \* empty writes of the group check

ASSUME QueueAssumption == MaxConcurrentOp \in Nat \ {0} /\ MaxBatch \in Nat \ {0}

VARIABLES pending_mutation, queue, blocking_mutations, current_op_count,
          row_locks,   \* the rows with a lock
          lru_rows,    \* list of [row, decree]; a lock is its row's first entry
          decrees, last_applied, role,
          dirty,       \* history: the kinds of mutations in two-phase commit whose row
                       \* an atomic write has read
          requests, refusals, changes, foreign, empties,
          budget

work == <<pending_mutation, queue, blocking_mutations, current_op_count>>
rowVars == <<row_locks, lru_rows>>
vars == <<work, rowVars, decrees, last_applied, role, dirty,
          requests, refusals, changes, foreign, empties, budget>>

\* Writes that may be batched, writes that may not, and atomic writes.
Kind == {"put", "multi_put", "atomic"}

\* A mutation: its requests, is_blocking_candidate, and whether it still has
\* the messages of its clients (one that read_from decoded has none).
Mutation(reqs, candidate, local) ==
    [reqs |-> reqs, candidate |-> candidate, local |-> local]

Mutations == [reqs : UNION {[1..n -> [row : Row, kind : Kind]] : n \in 0..MaxBatch},
              candidate : BOOLEAN, local : BOOLEAN]

ASSUME NullAssumption == Null \notin Mutations

Rows(mu) == {mu.reqs[i].row : i \in DOMAIN mu.reqs}

-------------------------------------------------------------------------------
(***************************************************************************)
(* The queue is a record w of its members and of mu, the mutation that an  *)
(* operation hands out, or Null; applied is the last applied decree.       *)
(***************************************************************************)

Contents == [pending |-> pending_mutation, queue |-> queue, blocking |-> blocking_mutations,
             ops |-> current_op_count, locks |-> row_locks, lru |-> lru_rows, mu |-> Null]

SetContents(w) == /\ pending_mutation' = w.pending
                  /\ queue' = w.queue
                  /\ blocking_mutations' = w.blocking
                  /\ current_op_count' = w.ops
                  /\ row_locks' = w.locks
                  /\ lru_rows' = w.lru

\* s without its i-th element
Without(s, i) == SubSeq(s, 1, i - 1) \o SubSeq(s, i + 1, Len(s))

Entry(w, row) == Min({i \in DOMAIN w.lru : w.lru[i].row = row})

\* mutant: a lock is over when one more decree is applied
RowLockedOneLess(w, mu, applied) ==
    \E row \in Rows(mu) : /\ row \in w.locks
                          /\ w.lru[Entry(w, row)].decree > applied + 1

row_locked(w, mu, applied) ==
    \E row \in Rows(mu) : /\ row \in w.locks
                          /\ w.lru[Entry(w, row)].decree > applied

\* The row's entry moves to the head of the list, or is made there.
LockRow(w, row, d) ==
    IF row \in w.locks
    THEN LET i == Entry(w, row)
             e == [row |-> row, decree |-> Max({d, w.lru[i].decree})]
         IN  [w EXCEPT !.lru = <<e>> \o Without(@, i)]
    ELSE [w EXCEPT !.locks = @ \cup {row},
                   !.lru = <<[row |-> row, decree |-> d]>> \o @]

\* The first k entries are left, and the rows of the others are not locked.
Left(w, k) == [w EXCEPT !.locks = @ \ {w.lru[i].row : i \in k + 1 .. Len(w.lru)},
                        !.lru = SubSeq(@, 1, k)]

Fits(w) == Cardinality(w.locks) <= budget.capacity

\* mutant: an entry goes whether it is applied or not
EvictAny(w, applied) == Left(w, Max({k \in 0 .. Len(w.lru) : k = 0 \/ Fits(Left(w, k))}))

\* While there are too many locks the last entry goes, if it is applied.
Evict(w, applied) ==
    Left(w, Max({k \in 0 .. Len(w.lru) :
                    k = 0 \/ Fits(Left(w, k)) \/ w.lru[k].decree > applied}))

\* w after the locks of the first i requests
LockRows(w, reqs, d) ==
    LET f[i \in 0 .. Len(reqs)] == IF i = 0 THEN w ELSE LockRow(f[i - 1], reqs[i].row, d) IN f

\* A mutation without the messages of its clients locks nothing.
enter_2pc(w, mu, d, applied) ==
    LET reqs == IF mu.local THEN mu.reqs ELSE <<>>
    IN  Evict(LockRows(w, reqs, d)[Len(reqs)], applied)

promote_pending(w) == [w EXCEPT !.queue = Append(@, w.pending), !.pending = Null]

try_promote_pending(w, kind) ==
    IF kind = "put" /\ Len(w.pending.reqs) < MaxBatch THEN w ELSE promote_pending(w)

try_unblock(w, applied) ==
    LET free == {i \in DOMAIN w.blocking : ~row_locked(w, w.blocking[i], applied)}
    IN  IF free = {} THEN w
        ELSE [w EXCEPT !.mu = w.blocking[Min(free)], !.ops = @ + 1,
                       !.blocking = Without(@, Min(free))]

try_block(w, mu, applied) == mu.candidate /\ row_locked(w, mu, applied)

\* Hands out the first mutation of q that try_block lets pass; the ones before
\* it block.
Passing(w, q, applied) == {i \in DOMAIN q : ~try_block(w, q[i], applied)}

PopOrBlock(w, q, applied) ==
    LET n == Min(Passing(w, q, applied))
    IN  IF Passing(w, q, applied) = {} THEN [w EXCEPT !.blocking = @ \o q]
        ELSE [w EXCEPT !.blocking = @ \o SubSeq(q, 1, n - 1), !.mu = q[n], !.ops = @ + 1]

pop_or_block_queue(w, applied) ==
    LET n == Min(Passing(w, w.queue, applied))
    IN  [PopOrBlock(w, w.queue, applied) EXCEPT
             !.queue = IF Passing(w, w.queue, applied) = {} THEN <<>>
                       ELSE SubSeq(@, n + 1, Len(@))]

pop_or_block_pending(w, applied) ==
    [PopOrBlock(w, <<w.pending>>, applied) EXCEPT !.pending = Null]

\* mutant: a request that may not be batched joins the pending mutation
FilledAnyBatch(w, row, kind) ==
    LET r == [row |-> row, kind |-> kind]
    IN  IF w.pending = Null
        THEN [w EXCEPT !.pending = Mutation(<<r>>, kind = "atomic", TRUE)]
        ELSE [w EXCEPT !.pending.reqs = Append(@, r)]

\* add_work up to its first return: the request is in the pending mutation.
Filled(w, row, kind) ==
    LET p == IF w.pending # Null /\ kind # "put" THEN promote_pending(w) ELSE w
        r == [row |-> row, kind |-> kind]
    IN  IF p.pending = Null
        THEN [p EXCEPT !.pending = Mutation(<<r>>, kind = "atomic", TRUE)]
        ELSE [p EXCEPT !.pending.reqs = Append(@, r)]

add_work(w, row, kind) ==
    LET f == Filled(w, row, kind)
        u == try_unblock(f, last_applied)
    IN  IF f.ops >= MaxConcurrentOp THEN try_promote_pending(f, kind)
        ELSE IF u.mu # Null THEN try_promote_pending(u, kind)
        ELSE IF f.queue = <<>> THEN pop_or_block_pending(f, last_applied)
        ELSE pop_or_block_queue(try_promote_pending(f, kind), last_applied)

\* mutant: blocked mutations are looked at only when a request arrives
NextWorkNoUnblock(w, running, applied) ==
    LET r == [w EXCEPT !.ops = running]
    IN  IF running >= MaxConcurrentOp THEN r
        ELSE IF r.queue # <<>> THEN pop_or_block_queue(r, applied)
        ELSE IF r.pending # Null THEN pop_or_block_pending(r, applied)
        ELSE r

next_work(w, running, applied) ==
    LET r == [w EXCEPT !.ops = running]
        u == try_unblock(r, applied)
    IN  IF running >= MaxConcurrentOp THEN r
        ELSE IF u.mu # Null THEN u
        ELSE IF r.queue # <<>> THEN pop_or_block_queue(r, applied)
        ELSE IF r.pending # Null THEN pop_or_block_pending(r, applied)
        ELSE r

\* mutant: the list is emptied instead of the table
ClearListOnly(w) == [w EXCEPT !.pending = Null, !.queue = <<>>, !.blocking = <<>>, !.lru = <<>>]

\* _lru_rows is left as it is.
clear(w) == [w EXCEPT !.pending = Null, !.queue = <<>>, !.blocking = <<>>, !.locks = {}]

-------------------------------------------------------------------------------
(* The callers. *)

\* make_idempotent reads the row of an atomic write.  Mutations of that row that
\* are in two-phase commit are recorded, as "own" or "foreign" ones.
make_idempotent(mu, applied) ==
    dirty' = dirty \cup
        IF ~mu.candidate THEN {}
        ELSE {IF decrees[d].local THEN "own" ELSE "foreign" :
                 d \in {e \in (applied + 1)..Len(decrees) : Rows(decrees[e]) \cap Rows(mu) # {}}}

(***************************************************************************)
(* init_prepare of the mutation handed out, if there is one.  It is        *)
(* refused by make_idempotent, or because too many decrees are in          *)
(* two-phase commit or too few members are left, or it gets the next       *)
(* decree.  One that is refused is answered and gone.                      *)
(***************************************************************************)
init_prepare(w, applied, short) ==
    \/ /\ w.mu = Null
       /\ SetContents(w)
       /\ UNCHANGED <<decrees, dirty, refusals>>
    \/ /\ w.mu # Null /\ w.mu.candidate
       /\ refusals < budget.refusals
       /\ refusals' = refusals + 1
       /\ make_idempotent(w.mu, applied)
       /\ SetContents(w)
       /\ UNCHANGED decrees
    \/ /\ w.mu # Null
       /\ make_idempotent(w.mu, applied)
       /\ LET d == Len(decrees) + 1
          IN  IF d > applied + MaxConcurrentOp \/ short
              THEN SetContents(w) /\ UNCHANGED decrees
              ELSE /\ decrees' = Append(decrees, w.mu)
                   /\ \E x \in {enter_2pc(w, w.mu, d, applied)} : SetContents(x)
       /\ UNCHANGED refusals

on_client_write(row, kind) ==
    /\ role = "primary"
    /\ requests < MaxRequests
    /\ requests' = requests + 1
    /\ init_prepare(add_work(Contents, row, kind), last_applied, FALSE)
    /\ UNCHANGED <<last_applied, role, changes, foreign, empties, budget>>

\* The group check prepares an empty mutation, past the queue.
broadcast_group_check ==
    /\ role = "primary"
    /\ empties < budget.empties
    /\ empties' = empties + 1
    /\ init_prepare([Contents EXCEPT !.mu = Mutation(<<>>, FALSE, TRUE)], last_applied, FALSE)
    /\ UNCHANGED <<last_applied, role, requests, changes, foreign, budget>>

\* The next decree is committed and applied; a primary goes on with the queue.
Applied == last_applied < Len(decrees) /\ last_applied' = last_applied + 1

execute_mutation ==
    /\ Applied
    /\ \/ /\ role = "other"
          /\ UNCHANGED <<work, rowVars, decrees, dirty, refusals>>
       \/ /\ role # "other"
          /\ \E w \in {next_work(Contents, Len(decrees) - last_applied - 1, last_applied + 1)} :
                 init_prepare(w, last_applied + 1, role = "short")
    /\ UNCHANGED <<role, requests, changes, foreign, empties, budget>>

\* The replica stops being primary; the queue survives when the ballot stays.
LeavePrimary(cleaned) ==
    /\ role \in {"primary", "short"}
    /\ changes < budget.changes
    /\ changes' = changes + 1
    /\ role' = "other"
    /\ SetContents(IF cleaned THEN clear(Contents) ELSE Contents)
    /\ UNCHANGED <<decrees, last_applied, dirty, requests, refusals, foreign, empties,
                   budget>>

\* Another primary's mutation takes decree d, a new one or one not yet applied.
on_prepare(d, row) ==
    /\ role = "other"
    /\ foreign < budget.foreign
    /\ foreign' = foreign + 1
    /\ d <= last_applied + MaxConcurrentOp
    /\ LET mu == Mutation(<<[row |-> row, kind |-> "put"]>>, FALSE, FALSE)
       IN  decrees' = IF d > Len(decrees) THEN Append(decrees, mu) ELSE [decrees EXCEPT ![d] = mu]
    /\ UNCHANGED <<work, rowVars, last_applied, role, dirty, requests, refusals, changes,
                   empties, budget>>

\* w after the first i decrees that are not applied
Replayed(w) ==
    LET f[i \in 0 .. Len(decrees) - last_applied] ==
            IF i = 0 THEN w
            ELSE enter_2pc(f[i - 1], decrees[last_applied + i], last_applied + i, last_applied)
    IN  f

replay_prepare_list(w) == Replayed(w)[Len(decrees) - last_applied]

(***************************************************************************)
(* The replica becomes primary: the decrees not applied are prepared again *)
(* and the queue goes on.  A primary with too few members prepares nothing *)
(* new, and then refuses what is queued.                                   *)
(***************************************************************************)
BecomePrimary(short) ==
    /\ role = "other"
    /\ role' = IF short THEN "short" ELSE "primary"
    /\ LET w == next_work(replay_prepare_list(Contents), Len(decrees) - last_applied, last_applied)
       IN  IF short THEN /\ SetContents(clear(w))
                         /\ UNCHANGED <<decrees, dirty, refusals>>
           ELSE init_prepare(w, last_applied, FALSE)
    /\ UNCHANGED <<last_applied, requests, changes, foreign, empties, budget>>

Init ==
    /\ pending_mutation = Null
    /\ queue = <<>> /\ blocking_mutations = <<>>
    /\ current_op_count = 0
    /\ row_locks = {} /\ lru_rows = <<>>
    /\ decrees = <<>> /\ last_applied = 0
    /\ role = "primary"
    /\ dirty = {}
    /\ requests = 0 /\ refusals = 0 /\ changes = 0 /\ foreign = 0 /\ empties = 0
    /\ budget \in Budgets

Next ==
    \/ \E row \in Row, kind \in Kind : on_client_write(row, kind)
    \/ broadcast_group_check
    \/ execute_mutation
    \/ \E cleaned \in BOOLEAN : LeavePrimary(cleaned)
    \/ \E d \in (last_applied + 1)..(Len(decrees) + 1), row \in Row : on_prepare(d, row)
    \/ \E short \in BOOLEAN : BecomePrimary(short)

\* What is prepared is committed in the end, by this primary or the next; only
\* execute_mutation applies a decree.
Spec == Init /\ [][Next]_vars /\ WF_last_applied(Applied)

-------------------------------------------------------------------------------
\* The members of mutation_queue keep their types; a mutation never has more
\* requests than fill it, and a locked row has an entry in the list.
TypeOK ==
    /\ pending_mutation \in Mutations \cup {Null}
    /\ Range(queue) \cup Range(blocking_mutations) \cup Range(decrees) \subseteq Mutations
    /\ current_op_count \in 0..MaxConcurrentOp
    /\ row_locks \subseteq {lru_rows[i].row : i \in DOMAIN lru_rows}
    /\ last_applied \in 0..Len(decrees)
    /\ role \in {"primary", "short", "other"}

\* Until the replica first loses its role, an atomic write is translated from a
\* value of its row that no mutation in two-phase commit is about to change:
\* row_locked holds it back until then, and enter_2pc evicts no lock it needs.
AtomicReadsApplied == changes = 0 => dirty = {}

\* Across losses of the role the same holds for the mutations that this replica
\* made from its own clients' requests, while the lock table evicts nothing.
AtomicReadsOwnWrites == Cardinality(Row) <= budget.capacity => "own" \notin dirty

\* make_idempotent's CHECK: an atomic write is never batched with another
\* request, and its mutation is a blocking candidate.
AtomicAlone ==
    \A mu \in Range(queue) \cup Range(blocking_mutations) \cup Range(decrees)
                \cup ({pending_mutation} \ {Null}) :
        (\E i \in DOMAIN mu.reqs : mu.reqs[i].kind = "atomic")
            => Len(mu.reqs) = 1 /\ mu.candidate

\* _current_op_count counts mutations in two-phase commit: a primary throttles
\* its clients only for mutations that will be applied and call next_work.
OpCountIsRunning ==
    role = "primary" => current_op_count <= Len(decrees) - last_applied

\* While the replica is primary, every request that waits in the queue is taken
\* or refused in the end, without another request coming in: each applied
\* mutation hands out the next one.  One that make_idempotent refused is not
\* applied and hands out none: the property is about queues that met none.
QueueDrains ==
    []<>(role = "primary" /\ refusals = 0 =>
             pending_mutation = Null /\ queue = <<>> /\ blocking_mutations = <<>>)
=============================================================================
