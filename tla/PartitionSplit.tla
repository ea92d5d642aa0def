---------------------------- MODULE PartitionSplit ----------------------------
(***************************************************************************)
(* One parent group that is split (replica_split_manager), against the     *)
(* meta server of MetaSplit.  Every member makes a child on its own        *)
(* server, the children copy and then follow their parents, and the        *)
(* primary registers them as a group when they hold everything.            *)
(*                                                                         *)
(* Parent and child are on different threads; what one asks of the other   *)
(* is a task of low priority, run in order, and q[n] has the tasks of the  *)
(* child of n.  The error handlers have a higher priority and are part of  *)
(* the step that calls them.  All writes are of the half of the hash range *)
(* that moves to the child.  Learners, and the steps of a reconfiguration, *)
(* are the subject of Learning and Replication.                            *)
(*                                                                         *)
(* Some guards say that a message is not slower than a whole series of     *)
(* others, or a timer later than several periods of another one.  Each has *)
(* a flag of budget that lifts it.                                         *)
(***************************************************************************)
EXTENDS MetaSplit, Sequences, SequencesExt, Functions

CONSTANTS Budgets     \* the behaviours to look at: see Spend

\* Every budget says whether the table has other partitions.
ASSUME BudgetsAssumption ==
    \A b \in Budgets : "others" \in DOMAIN b /\ b.others \in BOOLEAN

VARIABLES parent,       \* the parent replica of each node
          kid,          \* its child
          q,            \* LPC_PARTITION_SPLIT tasks of the child
          prep,         \* prepare messages on their way to each node
          gcheck,       \* the newest group check on its way to each node
          sync,         \* a config sync answer on its way to each node
          acked,        \* history: the writes that were answered
          checkFailed   \* history: which CHECKs of the code were violated

replicaVars == <<parent, kid, q, prep, gcheck, sync, acked>>
vars == <<metaVars, replicaVars, checkFailed, budget>>

max_replica_count == Cardinality(Node)

NoChild == [st |-> "none", b |-> 0, primary |-> Null, count |-> 1, copied |-> FALSE,
            learning |-> FALSE, caught |-> FALSE, notify |-> FALSE, list |-> {}, committed |-> 0,
            logging |-> {}]

Init ==
    /\ budget \in Budgets
    /\ MetaInit
    /\ \E p \in {CHOOSE n \in Node : TRUE} :   \* the nodes are alike
          /\ pc = [b |-> 1, primary |-> p, members |-> Node]
          /\ parent = [n \in Node |->
                 [st |-> IF n = p THEN "PRIMARY" ELSE "SECONDARY", b |-> 1, count |-> 1, ver |-> 1,
                  init |-> 0, create |-> Null, mss |-> "NOT_SPLIT", sync |-> FALSE, caught |-> {},
                  stopped |-> {}, reg |-> FALSE, query |-> FALSE, checks |-> {}, round |-> {},
                  list |-> <<>>, committed |-> 0]]
    /\ kid = [n \in Node |-> NoChild]
    /\ q = [n \in Node |-> <<>>]
    /\ prep = [n \in Node |-> <<>>]
    /\ gcheck = [n \in Node |-> Null]
    /\ sync = [n \in Node |-> Null]
    /\ acked = {}
    /\ checkFailed = {}

Splitting(p) == p.init # 0
Present(k) == k.st \notin {"none", "ERROR"}   \* get_replica finds it
PrimaryNow(n) == parent[n].st = "PRIMARY"

\* LPC_CREATE_CHILD is queued on the parent's thread: before it come only the writes
\* and the log completions that are in the queue already.
Creating(n) == parent[n].create # Null
OtherMembers(n) == pc.members \ {n}

parent_cleanup_split_context(p) == [p EXCEPT !.init = 0]

cleanup_split_states(p) ==
    [p EXCEPT !.reg = FALSE, !.query = FALSE, !.caught = {}, !.sync = FALSE, !.stopped = {}]

\* An error or a stop ends a child; a running async-learn keeps its parent_gpid.
child_handle_split_error(k) ==
    IF Present(k)
    THEN [NoChild EXCEPT !.st = "ERROR", !.learning = k.learning]
    ELSE k

\* The child that parent_handle_split_error reaches: the one of _child_gpid.
ChildStopped(n) ==
    IF Splitting(parent[n]) THEN child_handle_split_error(kid[n]) ELSE kid[n]

parent_handle_split_error(p, clear) ==
    parent_cleanup_split_context([p EXCEPT !.sync = ~clear /\ @])

(***************************************************************************)
(* Two-phase commit of the parent group, as far as the children meet it.   *)
(* A step of n works on w: the parent, the tasks of its child and the      *)
(* prepares it sends.                                                      *)
(***************************************************************************)
Work(n) == [p |-> parent[n], q |-> q[n], out |-> <<>>]

\* Mutant: a secondary copies to its child only what is synchronous.
CopiedOnPrimary(n, w, m) ==
    IF ~Splitting(w.p) \/ (w.p.st # "PRIMARY" /\ ~m.sync) THEN w
    ELSE IF Present(kid[n])
         THEN [w EXCEPT !.q = Append(@, m)]
         ELSE [w EXCEPT !.p = parent_cleanup_split_context(@)]

copy_mutation(n, w, m) ==
    IF ~Splitting(w.p) THEN w
    ELSE IF Present(kid[n])
         THEN [w EXCEPT !.q = Append(@, m)]
         ELSE [w EXCEPT !.p = parent_cleanup_split_context(@)]

PutAt(list, d, mu) == IF d > Len(list) THEN Append(list, mu) ELSE [list EXCEPT ![d] = mu]

init_prepare(n, w, d, v, client) ==
    LET mu == [b |-> w.p.b, v |-> v, client |-> client, logged |-> FALSE,
               wait |-> Splitting(w.p) /\ w.p.sync, left |-> OtherMembers(n)]
        m  == [t |-> "copy", b |-> w.p.b, d |-> d, v |-> v, sync |-> w.p.sync, committed |-> w.p.committed]
    IN copy_mutation(n, [w EXCEPT !.p.list = PutAt(@, d, mu), !.out = Append(@, m)], m)

replay_prepare_list(n, w) ==
    FoldLeft(LAMBDA acc, d : init_prepare(n, acc, d, acc.p.list[d].v, acc.p.list[d].client),
             w, [i \in 1 .. (Len(w.p.list) - w.p.committed) |-> w.p.committed + i])

Ready(mu) == mu.logged /\ ~mu.wait /\ mu.left = {}

\* COMMIT_ALL_READY
do_possible_commit_on_primary(p) ==
    [p EXCEPT !.committed = CHOOSE c \in p.committed .. Len(p.list) :
        /\ \A d \in (p.committed + 1) .. c : Ready(p.list[d])
        /\ c < Len(p.list) => ~Ready(p.list[c + 1])]

\* What the commit of p answers.
Answered(p, q0) == {q0.list[d].v : d \in {i \in (p.committed + 1) .. q0.committed :
                                              q0.list[i].client /\ q0.list[i].v # 0}}

Sent(n, out) ==
    [m \in Node |-> IF m \in OtherMembers(n) THEN prep[m] \o out ELSE prep[m]]

(***************************************************************************)
(* update_local_configuration of the parent                                *)
(***************************************************************************)
update_local_configuration(n, w, b, st) ==
    LET p == w.p
        adopted == [p EXCEPT !.b = b, !.st = st, !.init = IF b > p.b THEN 0 ELSE @]
        cleaned == IF p.st = "PRIMARY" /\ st # "PRIMARY" THEN cleanup_split_states(adopted) ELSE adopted
    IN IF p.st = st /\ p.b = b THEN w
       ELSE IF st = "PRIMARY" THEN replay_prepare_list(n, [w EXCEPT !.p = cleaned])
       ELSE [w EXCEPT !.p = cleaned]

RoleOf(n, config) == IF config.primary = n THEN "PRIMARY" ELSE "SECONDARY"

update_configuration(n, w, config) ==
    update_local_configuration(n, w, config.b, RoleOf(n, config))

\* n did w; nothing else of the group changed.
Did(n, w) ==
    /\ parent' = [parent EXCEPT ![n] = w.p]
    /\ q' = [q EXCEPT ![n] = w.q]
    /\ prep' = Sent(n, w.out)

\* Mutant: the status of the meta server is sent only during a split.
GroupCheckOfSplit(p) ==
    [b |-> p.b, count |-> p.count, committed |-> p.committed,
     mss |-> IF Splitting(p) THEN p.mss ELSE "NOT_SPLIT", child |-> Splitting(p) /\ p.mss # "NOT_SPLIT"]

GroupCheck(p) ==
    [b |-> p.b, count |-> p.count, committed |-> p.committed, mss |-> p.mss,
     child |-> Splitting(p) /\ p.mss # "NOT_SPLIT"]

broadcast_group_check(n, p) ==
    gcheck' = [m \in Node |-> IF m \in OtherMembers(n) THEN GroupCheck(p) ELSE gcheck[m]]

on_client_write(n) ==
    /\ PrimaryNow(n) /\ parent[n].ver = 1
    /\ Spend("writes")
    /\ Did(n, init_prepare(n, Work(n), Len(parent[n].list) + 1, budget.writes, TRUE))
    /\ UNCHANGED <<metaVars, kid, gcheck, sync, acked, checkFailed>>

\* m acknowledged decree d of ballot b to the primary at that ballot.
AckedBy(m, d, b, ps) ==
    [n \in Node |->
        IF ps[n].st = "PRIMARY" /\ ps[n].b = b /\ ps[n].committed < d /\ d <= Len(ps[n].list)
        THEN do_possible_commit_on_primary([ps[n] EXCEPT !.list[d].left = @ \ {m}])
        ELSE ps[n]]

Answers(ps) == acked \cup UNION {Answered(parent[n], ps[n]) : n \in {m \in Node : ps[m].st = "PRIMARY"}}

\* The whole of on_prepare: the message is dropped, answered, or prepared.
on_prepare(n) ==
    /\ prep[n] # <<>>
    /\ \E m \in {Head(prep[n])} :
       \E w \in {update_local_configuration(n, Work(n), m.b, "SECONDARY")} :
       LET d    == m.d
           mine == w.p
           dup  == d <= Len(mine.list) /\ mine.list[d].b = m.b
           mu   == [b |-> m.b, v |-> m.v, client |-> FALSE, logged |-> FALSE,
                    wait |-> m.sync /\ Splitting(mine), left |-> {}]
           put  == [w EXCEPT !.p.list = PutAt(@, d, mu),
                             !.p.committed = IF m.committed > @ THEN m.committed ELSE @]
           out  == copy_mutation(n, put, m)
       IN IF m.b < parent[n].b THEN UNCHANGED <<parent, q, acked>>
          ELSE IF d <= mine.committed \/ (dup /\ mine.list[d].logged)
          THEN /\ parent' = AckedBy(n, d, m.b, [parent EXCEPT ![n] = mine])
               /\ acked' = Answers(parent')
               /\ UNCHANGED q
          ELSE IF dup THEN parent' = [parent EXCEPT ![n] = mine] /\ UNCHANGED <<q, acked>>
          ELSE /\ parent' = [parent EXCEPT ![n] = out.p]
               /\ q' = [q EXCEPT ![n] = out.q]
               /\ UNCHANGED acked
    /\ prep' = [prep EXCEPT ![n] = Tail(@)]
    /\ UNCHANGED <<metaVars, kid, gcheck, sync, checkFailed, budget>>

\* Where a mutation of n that is logged, or copied, is heard of.
Progress(n, d, ps) ==
    LET mu == ps[n].list[d]
    IN IF mu.b < ps[n].b THEN ps
       ELSE CASE ps[n].st = "PRIMARY" -> [ps EXCEPT ![n] = do_possible_commit_on_primary(@)]
              [] ps[n].st = "SECONDARY" /\ ~mu.wait -> AckedBy(n, d, mu.b, ps)
              [] OTHER -> ps

on_append_log_completed(n) ==
    /\ \E d \in DOMAIN parent[n].list :
          /\ parent[n].st # "DOWN"
          /\ ~parent[n].list[d].logged
          /\ parent' = Progress(n, d, [parent EXCEPT ![n].list[d].logged = TRUE])
          /\ acked' = Answers(parent')
    /\ UNCHANGED <<metaVars, kid, q, prep, gcheck, sync, checkFailed, budget>>

\* A mutation of another ballot, or one that is gone, is skipped.
on_copy_mutation_reply(n, b, d, ps) ==
    IF d <= Len(ps[n].list) /\ ps[n].list[d].b = b
    THEN Progress(n, d, [ps EXCEPT ![n].list[d].wait = FALSE])
    ELSE ps

(***************************************************************************)
(* Starting and stopping a split on a parent                               *)
(***************************************************************************)
parent_start_split(p, b) ==
    IF p.b = b /\ p.st # "DOWN" /\ ~Splitting(p) /\ p.count = 1
    THEN LET clean == IF p.st = "PRIMARY" THEN cleanup_split_states(p) ELSE p
         IN [clean EXCEPT !.ver = p.count, !.init = p.b,
                             !.create = [t |-> "init", b |-> p.b, primary |-> pc.primary]]
    ELSE p

parent_stop_split(p) ==
    [parent_handle_split_error(p, p.st = "PRIMARY") EXCEPT !.ver = p.count]

\* Mutant: the partition version is not restored.
CountWithoutVersion(p, count) == [p EXCEPT !.count = count]

update_local_partition_count(p, count) == [p EXCEPT !.count = count, !.ver = count]

\* LPC_CREATE_CHILD: a child that is being closed is not found and not made.
create_child_replica(n) ==
    /\ Creating(n)
    /\ IF kid[n].st = "ERROR"
       THEN /\ parent' = [parent EXCEPT ![n] = parent_cleanup_split_context([@ EXCEPT !.create = Null])]
            /\ UNCHANGED <<kid, q>>
       ELSE /\ parent' = [parent EXCEPT ![n].create = Null]
            /\ kid' = [kid EXCEPT ![n] = IF @.st = "none" THEN [NoChild EXCEPT !.st = "INACTIVE"] ELSE @]
            /\ q' = [q EXCEPT ![n] = Append(@, parent[n].create)]
    /\ UNCHANGED <<metaVars, prep, gcheck, sync, acked, checkFailed, budget>>

\* trigger_primary_parent_split: what the primary does with the status of the meta server.
trigger_primary_parent_split(n, status) ==
    LET p == [parent[n] EXCEPT !.mss = status]
    IN \/ /\ status = "SPLITTING"
          /\ IF Cardinality(pc.members) < max_replica_count
             THEN parent' = [parent EXCEPT ![n] = p] /\ UNCHANGED gcheck
             ELSE /\ parent' = [parent EXCEPT ![n] = parent_start_split(p, p.b)]
                  /\ broadcast_group_check(n, parent'[n])
          /\ UNCHANGED kid
       \/ /\ status \in {"PAUSING", "CANCELING"}
          /\ parent' = [parent EXCEPT ![n] = parent_stop_split(p)]
          /\ kid' = [kid EXCEPT ![n] = ChildStopped(n)]
          /\ broadcast_group_check(n, parent'[n])
       \/ /\ status = "PAUSED"
          /\ parent' = [parent EXCEPT ![n] = p]
          /\ UNCHANGED <<kid, gcheck>>
       \/ /\ status = "NOT_SPLIT"
          /\ parent' = [parent EXCEPT ![n] = [p EXCEPT !.query = TRUE]]
          /\ UNCHANGED <<kid, gcheck>>

\* on_config_sync of the meta server: refused while the child is being written.  Two of
\* them are far longer apart than a register request is on its way, unless budget.late.
ConfigSyncAnswered(n) ==
    /\ parent[n].st # "DOWN" /\ sync[n] = Null
    /\ pending = Null /\ n \in pc.members
    /\ \/ pc.b # parent[n].b \/ parent[n].st = "INACTIVE"
       \/ /\ PrimaryNow(n) /\ app.count # parent[n].count
          /\ app.status # parent[n].mss \/ ~Splitting(parent[n])
          /\ budget.late \/ (call # Null => call.stage # "request")
    /\ sync' = [sync EXCEPT ![n] = [pc |-> pc, count |-> app.count, status |-> app.status]]
    /\ UNCHANGED <<metaVars, parent, kid, q, prep, gcheck, acked, checkFailed, budget>>

\* The CHECK is violated if fails holds.
Failed(what, fails) == checkFailed' = checkFailed \cup IF fails THEN {what} ELSE {}

\* Unless budget.late says so, no call of a split is still on its way when the next one
\* begins.
on_config_sync(n) ==
    /\ sync[n] # Null /\ ~Creating(n)
    /\ budget.late \/ Splitting(parent[n]) \/ sync[n].status # "SPLITTING" \/ parent[n].round = {}
    /\ \E s \in {sync[n]} :
          \/ /\ s.pc.b < parent[n].b \/ (PrimaryNow(n) /\ s.count = parent[n].count)
             /\ UNCHANGED <<parent, kid, q, prep, gcheck, checkFailed>>
          \/ /\ s.pc.b >= parent[n].b /\ PrimaryNow(n) /\ s.count # parent[n].count
             /\ IF parent[n].count * 2 = s.count
                THEN trigger_primary_parent_split(n, s.status) /\ UNCHANGED checkFailed
                ELSE Failed("count", TRUE) /\ UNCHANGED <<parent, kid, gcheck>>
             /\ UNCHANGED <<q, prep>>
          \/ /\ s.pc.b >= parent[n].b /\ ~PrimaryNow(n)
             /\ Did(n, update_configuration(n, Work(n), s.pc))
             /\ UNCHANGED <<kid, gcheck, checkFailed>>
    /\ sync' = [sync EXCEPT ![n] = Null]
    /\ UNCHANGED <<metaVars, acked, budget>>

\* The timer of init_group_check.
GroupCheckTimer(n) ==
    /\ PrimaryNow(n)
    /\ \E m \in OtherMembers(n) :
          /\ gcheck[m] = Null
          /\ \/ parent[m].b # parent[n].b \/ parent[m].count # parent[n].count
             \/ parent[n].mss = "SPLITTING" /\ Splitting(parent[n]) /\ ~Splitting(parent[m])
             \/ parent[n].mss \in {"PAUSING", "CANCELING"} /\ app.status = parent[n].mss /\ stops = {}
    /\ broadcast_group_check(n, parent[n])
    /\ UNCHANGED <<metaVars, parent, kid, q, prep, sync, acked, checkFailed, budget>>

\* What a secondary makes of the split context of a group check.
trigger_secondary_parent_split(p, g) ==
    IF g.count = p.count * 2 THEN parent_cleanup_split_context(update_local_partition_count(p, g.count))
    ELSE IF g.mss = "SPLITTING" /\ g.child THEN parent_start_split(p, g.b)
    ELSE IF g.mss \in {"PAUSING", "CANCELING"} THEN parent_stop_split(p)
    ELSE p

\* The secondaries have stopped: primary_parent_handle_stop_split and the request to the meta server.
primary_parent_handle_stop_split(p, m) ==
    LET all == p.stopped \cup {m}
    IN IF Cardinality(all) = max_replica_count - 1 THEN cleanup_split_states(p) ELSE [p EXCEPT !.stopped = all]

\* A former primary has run its check of the sync point, which is due every second, and
\* has the answers of its calls, unless budget.late says otherwise.
on_group_check(n) ==
    /\ gcheck[n] # Null /\ ~Creating(n)
    /\ budget.late \/ PrimaryNow(n) \/ parent[n].checks \cup parent[n].round = {}
    /\ \E g \in {gcheck[n]} :
       \E p \in {update_local_configuration(n, Work(n), g.b, "SECONDARY").p} :
       \E m \in {pc.primary} :
       LET synced  == [p EXCEPT !.committed =
                          IF g.committed > @ /\ g.committed <= Len(p.list) THEN g.committed ELSE @]
           doubled == g.count = p.count * 2
           stop    == ~doubled /\ g.mss \in {"PAUSING", "CANCELING"}
           heard   == stop /\ m # Null /\ PrimaryNow(m) /\ parent[m].b = g.b
       IN IF g.b < parent[n].b THEN UNCHANGED <<parent, kid, stops>>
          ELSE /\ parent' = [k \in Node |->
                       IF k = n THEN trigger_secondary_parent_split(synced, g)
                       ELSE IF k = m /\ heard THEN primary_parent_handle_stop_split(parent[m], n)
                       ELSE parent[k]]
               /\ kid' = [kid EXCEPT ![n] = IF stop /\ Splitting(p) THEN child_handle_split_error(@) ELSE @]
               /\ stops' = IF heard /\ Cardinality(parent[m].stopped \cup {n}) = max_replica_count - 1
                           THEN stops \cup {g.mss} ELSE stops
    /\ gcheck' = [gcheck EXCEPT ![n] = Null]
    /\ UNCHANGED <<app, pc, child, pending, writing, store, call, q, prep, sync, acked, checkFailed, budget>>

(***************************************************************************)
(* The tasks of a child                                                    *)
(***************************************************************************)
\* A child that was stopped while it learns still knows its parent.
KnowsParent(k) == k.st \in {"INACTIVE", "SPLIT"} \/ k.learning

parent_check_states(p) ==
    Splitting(p) /\ p.init = p.b /\ p.st \in {"PRIMARY", "SECONDARY", "INACTIVE"}

\* Mutant: mutations whose log write is not done are left out.
LearnedLogged(list) == {[d |-> d, v |-> list[d].v] : d \in {i \in DOMAIN list : list[i].logged}}

Learned(list) == {[d |-> d, v |-> list[d].v] : d \in DOMAIN list}

\* With parent_prepare_states, which puts the list behind the copies that were sent before.
child_init_replica(n, t) ==
    IF kid[n].st # "INACTIVE"
    THEN /\ parent' = [parent EXCEPT ![n] = parent_cleanup_split_context(@)]
         /\ kid' = [kid EXCEPT ![n] = child_handle_split_error(@)]
         /\ q' = [q EXCEPT ![n] = Tail(@)]
         /\ UNCHANGED acked
    ELSE /\ kid' = [kid EXCEPT ![n].st = "SPLIT", ![n].b = t.b, ![n].primary = t.primary]
         /\ q' = [q EXCEPT ![n] =
                    IF parent_check_states(parent[n])
                    THEN Append(Tail(@), [t |-> "list", list |-> Learned(parent[n].list),
                                           committed |-> parent[n].committed])
                    ELSE Tail(@)]
         /\ UNCHANGED <<parent, acked>>

child_copy_prepare_list(n, t) ==
    /\ kid' = [kid EXCEPT ![n] = IF @.st = "SPLIT"
                                 THEN [@ EXCEPT !.list = t.list, !.committed = t.committed,
                                                !.learning = TRUE, !.copied = TRUE]
                                 ELSE @]
    /\ q' = [q EXCEPT ![n] = Tail(@)]
    /\ UNCHANGED <<parent, acked>>

\* The parent drops the split, and takes the mutation as acknowledged.
CopyRefused(n, t) ==
    /\ parent' = IF KnowsParent(kid[n])
                 THEN on_copy_mutation_reply(n, t.b, t.d, [parent EXCEPT ![n] = parent_cleanup_split_context(@)])
                 ELSE parent
    /\ acked' = Answers(parent')

on_copy_mutation(n, t) ==
    /\ q' = [q EXCEPT ![n] = Tail(@)]
    /\ \/ kid[n].st # "SPLIT" /\ CopyRefused(n, t) /\ UNCHANGED kid
       \/ kid[n].st = "SPLIT" /\ ~kid[n].copied /\ UNCHANGED <<parent, kid, acked>>
       \/ /\ kid[n].st = "SPLIT" /\ kid[n].copied /\ t.b > kid[n].b
          /\ CopyRefused(n, t)
          /\ kid' = [kid EXCEPT ![n] = child_handle_split_error(@)]
       \/ /\ kid[n].st = "SPLIT" /\ kid[n].copied /\ t.b <= kid[n].b
          /\ kid' = [kid EXCEPT ![n].list = {e \in @ : e.d # t.d} \cup {[d |-> t.d, v |-> t.v]},
                                ![n].committed = IF t.committed > @ THEN t.committed ELSE @,
                                ![n].logging = IF t.sync THEN @ \cup {[d |-> t.d, b |-> t.b]} ELSE @]
          /\ UNCHANGED <<parent, acked>>

\* Mutant: every child starts as a secondary.
ActivatedAsSecondary(n, config) ==
    [kid[n] EXCEPT !.st = "SECONDARY", !.b = config.b, !.copied = FALSE, !.caught = FALSE,
                   !.notify = FALSE, !.learning = FALSE]

\* A child that registered goes by the configuration of its own partition.
Activated(n, config) ==
    [kid[n] EXCEPT !.st = RoleOf(n, config), !.b = config.b, !.copied = FALSE, !.caught = FALSE,
                   !.notify = FALSE, !.learning = FALSE]

child_partition_active(n, t) ==
    /\ kid' = [kid EXCEPT ![n] = IF @.st = "SPLIT" THEN Activated(n, t.config) ELSE @]
    /\ q' = [q EXCEPT ![n] = Tail(@)]
    /\ UNCHANGED <<parent, acked>>

ChildTask(n) ==
    /\ q[n] # <<>> /\ ~Creating(n)
    /\ \E t \in {Head(q[n])} :
          \/ t.t = "init" /\ child_init_replica(n, t)
          \/ t.t = "list" /\ child_copy_prepare_list(n, t)
          \/ t.t = "copy" /\ on_copy_mutation(n, t)
          \/ t.t = "active" /\ child_partition_active(n, t)
    /\ UNCHANGED <<metaVars, prep, gcheck, sync, checkFailed, budget>>

\* on_append_log_completed of the child and ack_parent; a child that has another
\* status, or another ballot, does not answer.  The write succeeds: after a
\* failed one handle_log_failure aborts the process.
ack_parent(n) ==
    /\ \E mu \in kid[n].logging :
          /\ kid' = [kid EXCEPT ![n].logging = @ \ {mu}]
          /\ parent' = IF kid[n].st = "SPLIT" /\ mu.b >= kid[n].b
                       THEN on_copy_mutation_reply(n, mu.b, mu.d, parent) ELSE parent
          /\ acked' = Answers(parent')
    /\ UNCHANGED <<metaVars, q, prep, gcheck, sync, checkFailed, budget>>

\* child_learn_states on the long-running pool, then child_catch_up_states.
child_learn_states(n) ==
    /\ kid[n].learning
    /\ \/ /\ kid[n].st = "SPLIT"
          /\ kid' = [kid EXCEPT ![n].learning = FALSE, ![n].caught = TRUE, ![n].notify = TRUE]
          /\ UNCHANGED <<parent, budget>>
       \/ /\ kid[n].st = "ERROR" \/ budget.learnErrors > 0
          /\ kid' = [kid EXCEPT ![n] = [child_handle_split_error(@) EXCEPT !.learning = FALSE]]
          /\ parent' = [parent EXCEPT ![n] = parent_cleanup_split_context(@)]
          /\ IF kid[n].st = "ERROR" THEN UNCHANGED budget ELSE Spend("learnErrors")
    /\ UNCHANGED <<metaVars, q, prep, gcheck, sync, acked, checkFailed>>

\* close_replica cancels the tasks of the child.
close_replica(n) ==
    /\ kid[n].st = "ERROR" /\ ~kid[n].learning
    /\ kid' = [kid EXCEPT ![n] = NoChild]
    /\ q' = [q EXCEPT ![n] = <<>>]
    /\ UNCHANGED <<metaVars, parent, prep, gcheck, sync, acked, checkFailed, budget>>

\* A config sync has the child's configuration once it is registered.
ChildConfigSync(n) ==
    /\ child # Null /\ n \in child.members
    /\ kid[n].st = "SPLIT" /\ child.b >= kid[n].b
    /\ budget.slowCopy \/ q[n] = <<>>
    /\ kid' = [kid EXCEPT ![n] = Activated(n, child)]
    /\ UNCHANGED <<metaVars, parent, q, prep, gcheck, sync, acked, checkFailed, budget>>

(***************************************************************************)
(* From the children that caught up to the child that is registered        *)
(***************************************************************************)
CatchUpAccepted(m, k) ==
    PrimaryNow(m) /\ Splitting(parent[m]) /\ k.b = parent[m].b

\* The last child to catch up starts the synchronous copies with an empty write.
parent_handle_child_catch_up(m, n) ==
    LET caught == parent[m].caught \cup {n}
        point  == Len(parent[m].list) + 1
        synced == [Work(m) EXCEPT !.p.caught = {}, !.p.sync = TRUE, !.p.checks = @ \cup {point}]
    IN IF pc.members \subseteq caught
       THEN Did(m, init_prepare(m, synced, point, 0, FALSE))
       ELSE parent' = [parent EXCEPT ![m].caught = caught] /\ UNCHANGED <<q, prep>>

\* A call whose answer is lost is made again, before the group is registered unless
\* budget.slowNotify says otherwise.
child_notify_catch_up(n) ==
    /\ kid[n].st = "SPLIT" /\ kid[n].notify
    /\ budget.slowNotify \/ parent[kid[n].primary].st # "INACTIVE"
    /\ IF CatchUpAccepted(kid[n].primary, kid[n])
       THEN /\ parent_handle_child_catch_up(kid[n].primary, n)
            /\ \/ kid' = [kid EXCEPT ![n].notify = FALSE] /\ UNCHANGED budget
               \/ Spend("lost") /\ UNCHANGED kid
       ELSE /\ parent' = [parent EXCEPT ![n] = parent_cleanup_split_context(@)]
            /\ kid' = [kid EXCEPT ![n] = child_handle_split_error(@)]
            /\ UNCHANGED <<q, prep, budget>>
    /\ UNCHANGED <<metaVars, gcheck, sync, acked, checkFailed>>

\* The split of n failed, as p has it.
SplitFailed(n, p, clear) ==
    /\ parent' = [parent EXCEPT ![n] = parent_handle_split_error(p, clear)]
    /\ kid' = [kid EXCEPT ![n] = ChildStopped(n)]

\* The delayed task, with update_child_group_partition_count when the point is committed.
parent_check_sync_point_commit(n) ==
    /\ \E point \in parent[n].checks :
       \E p \in {[parent[n] EXCEPT !.checks = @ \ {point}]} :
          \/ p.st # "PRIMARY" /\ SplitFailed(n, p, FALSE)
          \/ /\ p.st = "PRIMARY" /\ p.committed >= point
             /\ IF Splitting(p) /\ Cardinality(pc.members) = max_replica_count
                THEN /\ parent' = [parent EXCEPT ![n] =
                            [p EXCEPT !.round = @ \cup {[b |-> p.b, due |-> pc.members, left |-> pc.members,
                                                     count |-> p.count * 2]}]]
                     /\ UNCHANGED kid
                ELSE SplitFailed(n, p, TRUE)
    /\ parent[n].st # "DOWN"
    /\ UNCHANGED <<metaVars, q, prep, gcheck, sync, acked, checkFailed, budget>>

\* on_update_child_group_partition_count of child m
CountUpdated(m, r) == kid[m].st # "ERROR" /\ kid[m].b = r.b /\ kid[m].caught

\* Mutant: the partition version stays valid.
RegisterStillServing(n, p) ==
    /\ budget.late \/ ((call # Null => call.stage # "request") /\ (sync[n] # Null => sync[n].count # p.count))
    /\ call' = [from |-> n, b |-> p.b, stage |-> "request", err |-> "none", pc |-> Null,
                child |-> [b |-> p.b + 1, primary |-> n, members |-> pc.members]]
    /\ \E w \in {update_local_configuration(n, [Work(n) EXCEPT !.p = p], p.b, "INACTIVE")} :
          parent' = [parent EXCEPT ![n] = [w.p EXCEPT !.reg = TRUE]]

register_child_on_meta_request(n, p) ==
    /\ budget.late \/ ((call # Null => call.stage # "request") /\ (sync[n] # Null => sync[n].count # p.count))
    /\ call' = [from |-> n, b |-> p.b, stage |-> "request", err |-> "none", pc |-> Null,
                child |-> [b |-> p.b + 1, primary |-> n, members |-> pc.members]]
    /\ \E w \in {update_local_configuration(n, [Work(n) EXCEPT !.p = p], p.b, "INACTIVE")} :
          parent' = [parent EXCEPT ![n] = [w.p EXCEPT !.ver = 0, !.reg = TRUE]]

\* One member's child is asked, and the primary has its answer.  After an error the answers
\* that are due still come, but the group is not registered.
on_update_child_group_partition_count_reply(n) ==
    /\ parent[n].st # "DOWN"
    /\ \E r \in parent[n].round : \E m \in r.due :
       \E ok \in {PrimaryNow(n) /\ Splitting(parent[n]) /\ r.b = parent[n].b /\ CountUpdated(m, r)} :
       \E rest \in {[r EXCEPT !.due = @ \ {m}, !.left = IF ok THEN @ \ {m} ELSE @]} :
       \E p \in {[parent[n] EXCEPT !.round = (@ \ {r}) \cup IF rest.due = {} THEN {} ELSE {rest}]} :
          /\ Failed("count", CountUpdated(m, r) /\ kid[m].count \notin {r.count, r.count \div 2})
          /\ \E kids \in {[kid EXCEPT ![m].count = IF CountUpdated(m, r) THEN r.count ELSE @]} :
             \/ /\ ok /\ kid' = kids
                /\ IF rest.left = {}
                   THEN register_child_on_meta_request(n, p)
                   ELSE parent' = [parent EXCEPT ![n] = p] /\ UNCHANGED call
             \/ /\ ~ok
                /\ parent' = [parent EXCEPT ![n] = parent_handle_split_error(p, TRUE)]
                /\ kid' = [kids EXCEPT ![n] = IF Splitting(p) THEN child_handle_split_error(@) ELSE @]
                /\ UNCHANGED call
    /\ UNCHANGED <<app, pc, child, pending, writing, store, stops, q, prep, gcheck, sync, acked, budget>>

(***************************************************************************)
(* on_register_child_on_meta_reply, a disjunct for each way it ends        *)
(***************************************************************************)
Refused == {"INVALID_STATE", "INVALID_VERSION", "CHILD_REGISTERED"}

RegisterRefusedReply(n) ==
    /\ call.err \in Refused
    /\ \E w \in {[Work(n) EXCEPT !.p = parent_cleanup_split_context([@ EXCEPT !.reg = FALSE, !.sync = FALSE])]} :
          Did(n, IF call.pc # Null /\ call.pc.b >= w.p.b THEN update_configuration(n, w, call.pc) ELSE w)
    /\ kid' = [kid EXCEPT ![n] = IF call.err = "CHILD_REGISTERED" THEN @ ELSE child_handle_split_error(@)]
    /\ call' = Null
    /\ UNCHANGED <<gcheck, checkFailed>>

RegisterRetried(n) ==
    /\ \/ call.err \notin Refused \cup {"OK"}
       \/ call.err = "OK" /\ call.pc.b < parent[n].b
    /\ call' = [call EXCEPT !.stage = "retry"]
    /\ UNCHANGED <<parent, kid, q, prep, gcheck, checkFailed>>

RegisterDone(n) ==
    /\ call.err = "OK" /\ call.pc.b >= parent[n].b
    /\ Failed("registered", parent[n].count * 2 # app.count \/ call.pc.primary # n)
    /\ \E active \in {IF Present(kid[n]) THEN Append(q[n], [t |-> "active", config |-> call.child]) ELSE q[n]} :
       \E w \in {update_configuration(n, [Work(n) EXCEPT !.q = active], call.pc)} :
       \E done \in {update_local_partition_count([w.p EXCEPT !.reg = FALSE, !.sync = FALSE, !.mss = "NOT_SPLIT"],
                                                 w.p.count * 2)} :
          /\ Did(n, [w EXCEPT !.p = parent_cleanup_split_context(done)])
          /\ broadcast_group_check(n, done)
    /\ call' = Null
    /\ UNCHANGED kid

on_register_child_on_meta_reply ==
    /\ call # Null /\ call.stage = "reply"
    /\ \E n \in {call.from} :
          IF ~parent[n].reg \/ parent[n].st # "INACTIVE"
          THEN /\ call' = Null
               /\ parent' = [parent EXCEPT ![n].reg = FALSE]
               /\ UNCHANGED <<kid, q, prep, gcheck, checkFailed>>
          ELSE RegisterRefusedReply(n) \/ RegisterRetried(n) \/ RegisterDone(n)
    /\ UNCHANGED <<app, pc, child, pending, writing, store, stops, sync, acked, budget>>

\* The call times out; what it asked for may still be done.  A config sync that began
\* before it has timed out as well, unless budget.late.
RegisterTimeout ==
    /\ call # Null /\ call.stage \in {"request", "writing", "reply", "lost"}
    /\ budget.late \/ sync[call.from] = Null
    /\ IF call.stage = "lost" THEN UNCHANGED budget ELSE Spend("lost")
    /\ \E n \in {call.from} :
          /\ call' = IF parent[n].reg /\ parent[n].st = "INACTIVE" THEN [call EXCEPT !.stage = "retry"] ELSE Null
          /\ parent' = [parent EXCEPT ![n].reg = @ /\ parent[n].st = "INACTIVE"]
    /\ UNCHANGED <<app, pc, child, pending, writing, store, stops, kid, q, prep, gcheck, sync, acked, checkFailed>>

\* Nothing is left of the process of n.
Crashed(n) ==
    /\ call' = IF call # Null /\ call.from = n THEN Null ELSE call
    /\ parent' = [parent EXCEPT ![n].st = "DOWN", ![n].create = Null, ![n].query = FALSE, ![n].reg = FALSE]
    /\ kid' = [kid EXCEPT ![n] = NoChild]
    /\ q' = [q EXCEPT ![n] = <<>>]
    /\ prep' = [prep EXCEPT ![n] = <<>>]
    /\ gcheck' = [gcheck EXCEPT ![n] = Null]
    /\ sync' = [sync EXCEPT ![n] = Null]

\* The retry, a second later.  Its CHECK stops a process whose parent is not INACTIVE.
parent_send_register_request ==
    /\ call # Null /\ call.stage = "retry"
    /\ \E n \in {call.from} :
          \/ /\ parent[n].reg /\ parent[n].st # "INACTIVE"
             /\ Failed("retry", TRUE)
             /\ Crashed(n)
          \/ /\ ~(parent[n].reg /\ parent[n].st # "INACTIVE")
             /\ call' = IF parent[n].reg THEN [call EXCEPT !.stage = "request"] ELSE Null
             /\ UNCHANGED <<parent, kid, q, prep, gcheck, sync, checkFailed>>
    /\ UNCHANGED <<app, pc, child, pending, writing, store, stops, acked, budget>>

\* query_child_state of the meta server, and on_query_child_state_reply.
query_child_state(n) ==
    /\ parent[n].query
    /\ IF app.count = parent[n].count \/ child = Null
       THEN /\ parent' = [parent EXCEPT ![n].query = FALSE]
            /\ UNCHANGED <<q, gcheck, checkFailed>>
       ELSE \E p \in {parent_cleanup_split_context(cleanup_split_states(
                          update_local_partition_count(parent[n], app.count)))} :
            /\ Failed("count", app.count # parent[n].count * 2)
            /\ parent' = [parent EXCEPT ![n] = p]
            /\ q' = [q EXCEPT ![n] = IF Present(kid[n]) THEN Append(@, [t |-> "active", config |-> child]) ELSE @]
            /\ broadcast_group_check(n, p)
    /\ UNCHANGED <<metaVars, kid, prep, sync, acked, budget>>

(***************************************************************************)
(* Changes of the parent group                                             *)
(***************************************************************************)
Alive == {n \in Node : parent[n].st # "DOWN"}

\* The primary moves to another member, or removes a dead secondary.
Reconfigure(n) ==
    /\ PrimaryNow(n) /\ parent[n].b = pc.b /\ pending = Null
    /\ budget.afterwards \/ child = Null
    /\ IF pc.members \subseteq Alive THEN Spend("reconfigs") ELSE UNCHANGED budget
    /\ \E m \in pc.members \cap Alive :
          /\ m = n => ~(pc.members \subseteq Alive)
          /\ pc' = [b |-> pc.b + 1, primary |-> m, members |-> pc.members \cap Alive]
    /\ \E w \in {update_local_configuration(n, Work(n), pc.b, "INACTIVE")} :
          Did(n, update_configuration(n, w, pc'))
    /\ UNCHANGED <<app, child, pending, writing, store, call, stops, kid, gcheck, sync, acked, checkFailed>>

\* config is without n, which is dead.
Without(config, n) ==
    [b |-> config.b + 1, members |-> config.members \ {n},
     primary |-> IF config.primary = n THEN CHOOSE m \in config.members \ {n} : TRUE ELSE config.primary]

\* on_partition_node_dead.  A dead primary is replaced by the meta server, which
\* looks into pending_sync_request if a write of the partition is pending.  The group is
\* left alone once its child is being written, unless budget.afterwards.
NodeDead(n) ==
    /\ Spend("deaths") /\ n \in Alive /\ Alive # {n}
    /\ budget.afterwards \/ (child = Null /\ pending = Null)
    /\ Failed("pending", pc.primary = n /\ pending # Null)
    /\ pc' = IF pc.primary = n THEN Without(pc, n) ELSE pc
    /\ child' = IF child # Null /\ n \in child.members THEN Without(child, n) ELSE child
    /\ store' = [store EXCEPT !.child = IF child # Null THEN child' ELSE @]
    /\ Crashed(n)
    /\ UNCHANGED <<app, pending, writing, stops, acked>>

\* Nothing of the split that was paused is left.
Settled ==
    /\ call = Null
    /\ \A n \in Node :
          /\ parent[n].st # "INACTIVE" /\ kid[n].st = "none"
          /\ prep[n] = <<>> /\ gcheck[n] = Null /\ sync[n] = Null
          /\ \A d \in DOMAIN parent[n].list : parent[n].list[d].logged

\* An operator starts a paused split again after the group has settled, unless
\* budget.eager says otherwise.
Meta ==
    /\ MetaStep
    /\ budget'.restarts < budget.restarts => budget.eager \/ Settled
    /\ UNCHANGED <<replicaVars, checkFailed>>

Next ==
    \/ Meta
    \/ on_register_child_on_meta_reply
    \/ RegisterTimeout
    \/ parent_send_register_request
    \/ \E n \in Node :
          \/ on_client_write(n)
          \/ on_prepare(n)
          \/ on_append_log_completed(n)
          \/ create_child_replica(n)
          \/ ConfigSyncAnswered(n)
          \/ on_config_sync(n)
          \/ GroupCheckTimer(n)
          \/ on_group_check(n)
          \/ ChildTask(n)
          \/ ack_parent(n)
          \/ child_learn_states(n)
          \/ close_replica(n)
          \/ ChildConfigSync(n)
          \/ child_notify_catch_up(n)
          \/ parent_check_sync_point_commit(n)
          \/ on_update_child_group_partition_count_reply(n)
          \/ query_child_state(n)
          \/ Reconfigure(n)
          \/ NodeDead(n)

Spec == Init /\ [][Next]_vars

\* The tasks and messages of node n that are due.
Due(n) ==
    \/ on_prepare(n) \/ on_append_log_completed(n) \/ create_child_replica(n)
    \/ ChildTask(n) \/ ack_parent(n) \/ child_learn_states(n)
    \/ child_notify_catch_up(n) \/ parent_check_sync_point_commit(n)
    \/ on_update_child_group_partition_count_reply(n) \/ query_child_state(n)

\* The servers run and their messages arrive, in the behaviours whose budget says so.
Fairness ==
    /\ WF_vars(budget.fair /\ MetaDue /\ UNCHANGED <<replicaVars, checkFailed>>)
    /\ WF_vars(budget.fair /\ (on_register_child_on_meta_reply \/ RegisterTimeout \/ parent_send_register_request))
    /\ \A n \in Node :
          /\ WF_vars(budget.fair /\ Due(n)) /\ WF_vars(budget.fair /\ close_replica(n))
          /\ WF_vars(budget.fair /\ ConfigSyncAnswered(n)) /\ WF_vars(budget.fair /\ on_config_sync(n))
          /\ WF_vars(budget.fair /\ GroupCheckTimer(n)) /\ WF_vars(budget.fair /\ on_group_check(n))
          /\ WF_vars(budget.fair /\ ChildConfigSync(n))

FairSpec == Spec /\ Fairness

Parts == {"none", "INACTIVE", "SPLIT", "ERROR", "PRIMARY", "SECONDARY"}

\* Partition counts are those of before or after one split, the meta server never counts
\* fewer partitions as splitting than there are, and no parent commits what it has not
\* prepared.
TypeOK ==
    /\ app.status \in Statuses /\ app.other \in Statuses
    /\ app.count \in 1 .. 2 /\ app.splitting \in 0 .. (1 + Others)
    /\ \A n \in Node : kid[n].st \in Parts /\ kid[n].count \in 1 .. 2
    /\ \A n \in Node : parent[n].count \in 1 .. 2 /\ parent[n].ver \in 0 .. 2
    /\ \A n \in Node : parent[n].committed <= Len(parent[n].list)

\* A child that is registered, or being written, is a partition of the table, in memory and
\* on remote storage: cancel_partition_split refuses once a child is there, and
\* partition_count is halved when nothing but cancelled partitions are left, whatever
\* pauses, restarts, late stops and new leaders come in between.
ChildCounted ==
    child # Null \/ pending # Null => app.count = 2 /\ store.count = 2

\* A child partition that serves has every write that was ever acknowledged to a client of
\* its half of the hash range: parent_prepare_states, copy_mutation, the sync point and the
\* replay of the prepare list on a registration lose nothing between them.
ChildComplete ==
    \A n \in Node : kid[n].st = "PRIMARY" => acked \subseteq {e.v : e \in kid[n].list}

\* The children form a proper group when they are activated: what the child primary knows
\* as committed is held by every child secondary, although each was copied from its own
\* parent and followed that one only.
ChildGroupWhole ==
    \A n, m \in Node : kid[n].st = "PRIMARY" /\ kid[m].st = "SECONDARY" =>
        1 .. kid[n].committed \subseteq {e.d : e \in kid[m].list}

\* While a child primary serves, no parent primary still serves the whole hash range: the
\* partition_version that parent_send_register_request makes invalid stays so until the
\* parent has its new partition_count.
ServedOnce ==
    \A n, m \in Node : ~(PrimaryNow(n) /\ parent[n].ver = 1 /\ kid[m].st = "PRIMARY")

\* A split that was started, paused or cancelled comes to an end: the child is registered,
\* or the group stops and the meta server hears of it (notify_stop_split).
SplitEnds ==
    budget.fair /\ app.status \in {"SPLITTING", "PAUSING", "CANCELING"} ~> app.status \in {"NOT_SPLIT", "PAUSED"}

\* The parent partition never stops to serve for good: the primary that became inactive to
\* register its child is primary again, with a valid partition_version.
ParentServes == []<>(budget.fair => \E n \in Node : PrimaryNow(n) /\ parent[n].ver # 0)

\* A child that is registered has a primary before long, from child_partition_active or
\* from the config sync of its server.
ChildServes == budget.fair /\ child # Null ~> (\E n \in Node : kid[n].st = "PRIMARY")

\* A mutation of primary n lacks only the acknowledgement of its child, and n is not
\* during a split.
WaitsForChild(n) ==
    /\ PrimaryNow(n) /\ ~Splitting(parent[n])
    /\ \E d \in DOMAIN parent[n].list :
          /\ d > parent[n].committed
          /\ Ready([parent[n].list[d] EXCEPT !.wait = FALSE])
          /\ parent[n].list[d].wait

\* A parent waits for its child only "during partition split" (replica_context.h): a
\* mutation that was copied synchronously is committed after the split has stopped, too.
WaitEnds == \A n \in Node : WaitsForChild(n) ~> ~WaitsForChild(n)

\* No CHECK of the split fails but the one of RetryFindsInactive, as long as no member dies
\* once the child is being written: partition_count is exactly doubled by every one who
\* changes it, a request to register a second time finds the child, one to stop finds the
\* count it was sent for, and the primary is primary when its registration is done.
NoCheckFails == checkFailed \subseteq {"retry"} /\ ~RegisterCheckFails /\ ~StopCheckFails

\* parent_send_register_request's CHECK: when a register call is made again the parent is
\* still INACTIVE, as it was when the call was first made.
RetryFindsInactive == "retry" \notin checkFailed
=============================================================================
