----------------------------- MODULE Replication -----------------------------
(***************************************************************************)
(* One partition, replicated on a Group of nodes under the meta server of  *)
(* MetaPartition: two-phase commit over the prepare list, reconfiguration, *)
(* the loss and return of the meta server's beacons, crashes and restarts. *)
(*                                                                         *)
(* rep[n] is the replica on node n.  Every handler of a replica runs in    *)
(* that replica's own single-threaded queue, so each handler is one        *)
(* action; what happens between two handlers (a log write, a message, a    *)
(* crash) is an action of its own.                                         *)
(*                                                                         *)
(* An INACTIVE replica is one with _inactive_is_transient set: the other   *)
(* kind exists only for replicas being created or learning, which are not  *)
(* modelled here.  A removed member therefore never returns.               *)
(***************************************************************************)
EXTENDS MetaPartition, Sequences, FiniteSetsExt

CONSTANTS Null,     \* no mutation at a decree, no answer
          Budgets   \* bounds of one behaviour: its nodes, the decrees of client writes,
                    \* how many writes, crashes, disconnects (lost leases), syncs of
                    \* connected nodes, moves and failovers (of the meta server), and
                    \* min2pc: mutation_2pc_min_replica_count, slow: may a task wait in
                    \* its queue for longer than the failure detector's grace period

ASSUME NullAssumption ==
    Null \notin [ballot : Nat, val : Nat, lcd : Nat, logged : BOOLEAN, left : SUBSET Node]

ASSUME BudgetAssumption ==
    \A b \in Budgets :
        /\ IsFiniteSet(b.nodes)
        /\ b \in [nodes : SUBSET Node, decree : Nat, writes : Nat, crashes : Nat, disconnects : Nat,
                 syncs : Nat, moves : Nat, failovers : Nat, min2pc : Nat, slow : BOOLEAN]

VARIABLES rep,         \* the replica of each node
          calls,       \* prepare rpcs
          committed    \* history: the values committed by primaries, by decree

vars == <<metaVars, rep, calls, committed, budget>>

Decree == 1..budget.decree
Group == budget.nodes

IsPrefix(s, t) == Len(s) <= Len(t) /\ s = SubSeq(t, 1, Len(s))

EmptyWrite == 0  \* the value of a mutation that fills a hole

-------------------------------------------------------------------------------
(***************************************************************************)
(* The prepare list and the app of one replica r.                          *)
(***************************************************************************)
last_committed_decree(r) == Len(r.app)

\* prepare_list::max_decree
max_decree(r) == Max({last_committed_decree(r)} \cup {d \in Decree : r.plist[d] # Null})

\* commit(d): the mutations up to d go to the app, and stay in no list.
Commit(r, d) ==
    LET first == last_committed_decree(r) + 1
    IN  [r EXCEPT !.app = @ \o [i \in 1..(d + 1 - first) |-> r.plist[first + i - 1].val],
                  !.plist = [e \in Decree |-> IF e <= d THEN Null ELSE @[e]]]

BallotsAscend(r, first, last) ==
    \A d \in first..(last - 1) : r.plist[d].ballot <= r.plist[d + 1].ballot

\* commit(d, COMMIT_TO_DECREE_HARD): the CHECKs on the way must not fail.
commit_hard(r, d) ==
    LET first == last_committed_decree(r) + 1
    IN  IF d < first THEN r
        ELSE IF /\ \A e \in first..d : r.plist[e] # Null /\ r.plist[e].logged
                /\ BallotsAscend(r, first, d)
        THEN Commit(r, d)
        ELSE [r EXCEPT !.failed = TRUE]

\* mutation::is_ready_for_commit
is_ready_for_commit(r, d) == r.plist[d] # Null /\ r.plist[d].logged /\ r.plist[d].left = {}

\* commit(d, COMMIT_ALL_READY): the longest ready run after the last commit.
commit_all_ready(r) ==
    LET first == last_committed_decree(r) + 1
        ready == {d \in Decree : /\ d >= first
                                 /\ \A e \in first..d : is_ready_for_commit(r, e)
                                 /\ BallotsAscend(r, first, d)}
    IN  IF ready = {} THEN r ELSE Commit(r, Max(ready))

\* prepare_list::put of a mutation, whose log write is then pending.
PutAndAppend(r, d, b, v, lcd, left) ==
    [r EXCEPT !.plist[d] = [ballot |-> b, val |-> v, lcd |-> lcd, logged |-> FALSE, left |-> left],
              !.queue = Append(@, [ballot |-> b, decree |-> d, val |-> v, lcd |-> lcd])]

\* send_prepare_message to every secondary of r
PrepareCalls(n, r, d) ==
    {[from |-> n, to |-> s, ballot |-> r.ballot, decree |-> d, val |-> r.plist[d].val,
      lcd |-> r.plist[d].lcd, stage |-> "sent", live |-> TRUE] : s \in r.secondaries}

\* mutant: the header claims that all earlier decrees are committed
InitPrepareClaimingCommit(r, d, v) == PutAndAppend(r, d, r.ballot, v, d - 1, r.secondaries)

init_prepare(r, d, v) ==
    PutAndAppend(r, d, r.ballot, v, last_committed_decree(r), r.secondaries)

\* replay_prepare_list: prepare again, at the new ballot, all that is not
\* committed, and an empty mutation wherever the list has a hole.
replay_prepare_list(r) ==
    LET lcd == last_committed_decree(r)
        last == max_decree(r)
        Val(d) == IF r.plist[d] = Null THEN EmptyWrite ELSE r.plist[d].val
    IN  [r EXCEPT !.plist = [d \in Decree |->
                      IF d \in lcd + 1 .. last
                      THEN [ballot |-> r.ballot, val |-> Val(d), lcd |-> lcd,
                            logged |-> FALSE, left |-> r.secondaries]
                      ELSE @[d]],
                  !.queue = @ \o [i \in 1 .. last - lcd |->
                      [ballot |-> r.ballot, decree |-> lcd + i, val |-> Val(lcd + i), lcd |-> lcd]]]

ReplayCalls(n, r) ==
    UNION {PrepareCalls(n, r, d) : d \in {e \in Decree : r.plist[e] # Null}}

-------------------------------------------------------------------------------
(***************************************************************************)
(* Local configuration.  An update yields a record: the replica, the       *)
(* prepare calls it sends, whether its own calls are cancelled, and the    *)
(* value the function returns.                                             *)
(***************************************************************************)
Same(r) == [r |-> r, send |-> {}, cancel |-> FALSE, ok |-> TRUE]
Refused(r) == [Same(r) EXCEPT !.ok = FALSE]

\* Cancelled calls get no answer; a message already sent may still arrive (and
\* is not kept when its receiver would drop it for its ballot).
Cancelled(cs, n) ==
    {c \in cs : c.from # n} \cup
    {[c EXCEPT !.live = FALSE] :
        c \in {x \in cs : x.from = n /\ x.stage = "sent" /\ x.ballot >= rep[x.to].ballot}}

AfterUpdate(cs, n, u) == (IF u.cancel THEN Cancelled(cs, n) ELSE cs) \cup u.send

\* The status of r becomes s and its ballot, durably, b >= r.ballot.  The refusal
\* of a secondary whose checkpoint is being taken is left out: it asks again.
update_local_configuration(n, r, b, s) ==
    LET q == [r EXCEPT !.ballot = b, !.status = s]
    IN  IF r.status = s /\ r.ballot = b
        THEN Same(r)
        ELSE IF s = "INACTIVE" /\ r.status # s /\ b > r.ballot
        THEN [r |-> [q EXCEPT !.status = "CLOSED"], send |-> {}, cancel |-> TRUE, ok |-> FALSE]
        ELSE IF s = "PRIMARY"
        THEN LET p == replay_prepare_list(q)
             IN  [r |-> p, send |-> ReplayCalls(n, p), cancel |-> r.status = "PRIMARY", ok |-> TRUE]
        ELSE [r |-> q, send |-> {}, cancel |-> r.status = "PRIMARY", ok |-> TRUE]

\* replica_helper::get_replica_config
ConfigStatus(c, n) == IF c.primary = n THEN "PRIMARY"
                      ELSE IF n \in c.secondaries THEN "SECONDARY" ELSE "INACTIVE"

is_same_ballot_status_change_allowed(old, new) == old = new \/ old = "INACTIVE"

\* update_configuration, for c.ballot >= r.ballot
update_configuration(n, r, c) ==
    LET s == ConfigStatus(c, n)
        q == IF s = "PRIMARY" /\ (c.ballot > r.ballot \/ r.status # "PRIMARY")
             THEN [r EXCEPT !.secondaries = c.secondaries]
             ELSE r
    IN  IF c.ballot > r.ballot \/ is_same_ballot_status_change_allowed(r.status, s)
        THEN update_local_configuration(n, q, c.ballot, s)
        ELSE Refused(q)

-------------------------------------------------------------------------------
(***************************************************************************)
(* Bookkeeping shared by the handlers of node n: the replica and the calls *)
(* after update u.  A replica that leaves PRIMARY cancels its              *)
(* reconfiguration_task as well as its prepare calls.                      *)
(***************************************************************************)
NoConfigCall == UNCHANGED <<pc, cc, alive, proposals, lb, stored>>

NewCommitted(r) == IF r.status = "PRIMARY" /\ IsPrefix(committed, r.app) THEN r.app ELSE committed

Apply(n, u) ==
    /\ rep' = [rep EXCEPT ![n] = u.r]
    /\ calls' = AfterUpdate(calls, n, u)
    /\ tasks' = IF u.cancel THEN [tasks EXCEPT ![n] = NoReq] ELSE tasks

(***************************************************************************)
(* update_configuration_on_meta_server: the replica stops serving, at its  *)
(* own ballot, and asks the meta server for configuration c at the next.   *)
(***************************************************************************)
update_configuration_on_meta_server(n, r, cs, type, node, c) ==
    LET u == update_local_configuration(n, r, r.ballot, "INACTIVE")
        req == [type |-> type, node |-> node, from |-> n,
                config |-> [c EXCEPT !.ballot = @ + 1, !.lcd = last_committed_decree(r)]]
    IN  /\ rep' = [rep EXCEPT ![n] = u.r]
        /\ calls' = AfterUpdate(cs, n, u)
        /\ tasks' = [tasks EXCEPT ![n] = [req |-> req, resp |-> NoReq]]
        /\ updates' = updates \cup {req}

\* _primary_states.pc of a primary
OwnConfig(n, r) == [ballot |-> r.ballot, primary |-> n, secondaries |-> r.secondaries, lcd |-> 0]

\* remove_replica_on_meta_server: sent once, nobody waits for the answer.
RemovalOf(n, c) ==
    IF n \notin Members(c) THEN {}
    ELSE {[type |-> "DOWNGRADE_TO_INACTIVE", node |-> n, from |-> NoNode,
           config |-> [c EXCEPT !.ballot = @ + 1, !.secondaries = @ \ {n},
                                !.primary = IF @ = n THEN NoNode ELSE @]]}

-------------------------------------------------------------------------------
(***************************************************************************)
(* Two-phase commit.                                                       *)
(***************************************************************************)
on_client_write(n) ==
    LET r == rep[n]
        d == max_decree(r) + 1
        p == init_prepare(r, d, budget.writes)
    IN  /\ r.status = "PRIMARY"
        /\ Cardinality(r.secondaries) + 1 >= budget.min2pc
        /\ Spend("writes")
        /\ d \in Decree
        /\ rep' = [rep EXCEPT ![n] = p]
        /\ calls' = calls \cup PrepareCalls(n, p, d)
        /\ UNCHANGED <<metaVars, committed>>

\* A reply goes to a live call, and nowhere otherwise.
Answered(cs, c, stage) ==
    (cs \ {c}) \cup (IF c.live THEN {[c EXCEPT !.stage = stage]} ELSE {})

\* on_prepare goes on with a prepare of the replica's own ballot
InBallot(r, c) == c.ballot = r.ballot

\* mutant: a prepare is acknowledged before it is logged
PreparedAckEarly(r, c) ==
    IF c.decree <= last_committed_decree(r) \/ r.plist[c.decree] # Null
    THEN <<r, "ok">>
    ELSE <<PutAndAppend(commit_hard(r, c.lcd), c.decree, c.ballot, c.val, c.lcd, {}), "ok">>

\* The part of on_prepare that follows the checks of ballot and status.
Prepared(r, c) ==
    LET q == commit_hard(r, c.lcd)
        known == r.plist[c.decree] # Null /\ r.plist[c.decree].ballot = c.ballot
    IN  IF c.decree <= last_committed_decree(r) \/ (known /\ r.plist[c.decree].logged)
        THEN <<r, "ok">>
        ELSE IF known THEN <<r, "queued">>
        ELSE <<PutAndAppend(q, c.decree, c.ballot, c.val, c.lcd, {}), "queued">>

on_prepare(c) ==
    LET n == c.to
        u == IF c.ballot > rep[n].ballot
             THEN update_local_configuration(n, rep[n], c.ballot, "SECONDARY")
             ELSE Same(rep[n])
        r == u.r
        cs == AfterUpdate(calls, n, u)
    IN  /\ c \in calls
        /\ c.stage = "sent"
        /\ rep[n].status # "DOWN"
        /\ IF rep[n].status = "CLOSED"
           THEN calls' = Answered(calls, c, "error") /\ UNCHANGED <<rep, tasks>>
           ELSE IF ~InBallot(r, c)
           THEN calls' = Answered(calls, c, "lost") /\ UNCHANGED <<rep, tasks>>
           ELSE /\ tasks' = IF u.cancel THEN [tasks EXCEPT ![n] = NoReq] ELSE tasks
                /\ IF r.status = "INACTIVE"
                   THEN rep' = [rep EXCEPT ![n] = r] /\ calls' = Answered(cs, c, "inactive")
                   ELSE IF r.status = "PRIMARY"
                   THEN rep' = [rep EXCEPT ![n].failed = TRUE] /\ calls' = calls
                   ELSE /\ rep' = [rep EXCEPT ![n] = Prepared(r, c)[1]]
                        /\ calls' = Answered(cs, c, Prepared(r, c)[2])
        /\ UNCHANGED <<pc, cc, alive, updates, proposals, lb, stored, committed, budget>>

\* mutant: a secondary commits what it has just logged
OwnDecree(h) == h.decree

\* A secondary commits what the primary had committed when it sent h.
CommitPoint(h) == h.lcd

\* The log write of the oldest queued mutation completes.  Its flag is set on
\* the mutation that was queued, not on a later one with the same identity.
Logged(r) ==
    LET h == Head(r.queue)
        mine == /\ r.plist[h.decree] # Null /\ r.plist[h.decree].ballot = h.ballot
                /\ \A i \in 2..Len(r.queue) :
                       r.queue[i].decree # h.decree \/ r.queue[i].ballot # h.ballot
    IN  [r EXCEPT !.queue = Tail(@), !.log = Append(@, h),
                  !.plist[h.decree] = IF mine THEN [@ EXCEPT !.logged = TRUE] ELSE @]

\* The write succeeds: after a failed one handle_log_failure aborts the process,
\* which is a Crash before this write.
on_append_log_completed(n) ==
    LET h == Head(rep[n].queue)
        q == Logged(rep[n])
        own == h.ballot >= rep[n].ballot
        acked == {c \in calls : /\ c.to = n /\ c.stage = "queued"
                                /\ c.ballot = h.ballot /\ c.decree = h.decree}
        r == IF own /\ q.status = "PRIMARY" THEN commit_all_ready(q)
             ELSE IF own /\ q.status = "SECONDARY" THEN commit_hard(q, CommitPoint(h))
             ELSE q
    IN  /\ rep[n].status # "DOWN"
        /\ rep[n].queue # <<>>
        /\ rep' = [rep EXCEPT ![n] = r]
        /\ committed' = NewCommitted(r)
        /\ calls' = IF own /\ q.status = "SECONDARY"
                    THEN (calls \ acked) \cup {[c EXCEPT !.stage = "ok"] : c \in acked}
                    ELSE calls
        /\ UNCHANGED <<metaVars, budget>>

\* An acknowledgement reaches the primary.
on_prepare_ok(c) ==
    LET n == c.from
        r == rep[n]
        here == /\ r.status = "PRIMARY" /\ c.ballot = r.ballot
                /\ c.decree > last_committed_decree(r)
        q == IF c.to \in r.secondaries /\ c.to \in r.plist[c.decree].left
             THEN commit_all_ready([r EXCEPT !.plist[c.decree].left = @ \ {c.to}])
             ELSE [r EXCEPT !.failed = TRUE]
    IN  /\ c \in calls /\ c.live /\ c.stage = "ok"
        /\ rep' = IF here THEN [rep EXCEPT ![n] = q] ELSE rep
        /\ committed' = IF here THEN NewCommitted(q) ELSE committed
        /\ calls' = calls \ {c}
        /\ UNCHANGED <<metaVars, budget>>

\* ERR_INACTIVE_STATE: the same mutation is sent again while time is left.
on_prepare_retry(c) ==
    /\ c \in calls /\ c.live /\ c.stage = "inactive"
    /\ calls' = (calls \ {c}) \cup {[c EXCEPT !.stage = "sent"]}
    /\ UNCHANGED <<metaVars, rep, committed, budget>>

\* An error answer, or the timeout of a call whose request or answer is late or
\* lost, in any stage: the primary asks for a configuration without the secondary.
handle_remote_failure(c) ==
    LET n == c.from
        r == rep[n]
    IN  /\ c \in calls /\ c.live
        /\ IF r.status = "PRIMARY" /\ c.ballot = r.ballot /\ c.decree > last_committed_decree(r)
           THEN update_configuration_on_meta_server(n, r, calls, "DOWNGRADE_TO_INACTIVE", c.to,
                    [OwnConfig(n, r) EXCEPT !.secondaries = @ \ {c.to}])
           ELSE calls' = calls \ {c} /\ UNCHANGED <<rep, tasks, updates>>
        /\ NoConfigCall /\ UNCHANGED <<committed, budget>>

-------------------------------------------------------------------------------
(***************************************************************************)
(* Reconfiguration.                                                        *)
(***************************************************************************)
Checked(r, ok) == [r EXCEPT !.failed = @ \/ ~ok]

\* mutant: the new primary stays in the list of secondaries
AssignKeepsSecondary(n, r, cs, p) ==
    /\ p.type = "UPGRADE_TO_PRIMARY" /\ r.status = "SECONDARY"
    /\ update_configuration_on_meta_server(n, r, cs, p.type, n, [p.config EXCEPT !.primary = n])

assign_primary(n, r, cs, p) ==
    /\ p.type = "UPGRADE_TO_PRIMARY" /\ r.status = "SECONDARY"
    /\ update_configuration_on_meta_server(n, r, cs, p.type, n,
           [p.config EXCEPT !.primary = n, !.secondaries = @ \ {n}])

IsOwnConfig(n, r, c) == c.primary = n /\ c.secondaries = r.secondaries

downgrade_to_secondary_on_primary(n, r, cs, p) ==
    /\ p.type = "DOWNGRADE_TO_SECONDARY" /\ r.status = "PRIMARY" /\ p.config.ballot = r.ballot
    /\ update_configuration_on_meta_server(n, Checked(r, IsOwnConfig(n, r, p.config)), cs, p.type, n,
           [p.config EXCEPT !.primary = NoNode, !.secondaries = @ \cup {n}])

downgrade_to_inactive_on_primary(n, r, cs, p) ==
    /\ p.type = "DOWNGRADE_TO_INACTIVE" /\ r.status = "PRIMARY" /\ p.config.ballot = r.ballot
    /\ update_configuration_on_meta_server(n, Checked(r, IsOwnConfig(n, r, p.config)), cs, p.type, p.node,
           [p.config EXCEPT !.secondaries = @ \ {p.node}])

\* A proposal reaches a connected node.  A newer ballot is adopted first.
on_config_proposal(p) ==
    LET n == p.target
        u == IF p.config.ballot > rep[n].ballot
             THEN update_configuration(n, rep[n], p.config)
             ELSE Same(rep[n])
        r == u.r
        cs == AfterUpdate(calls, n, u)
        takes == /\ u.ok
                 /\ IF p.type = "UPGRADE_TO_PRIMARY" THEN r.status = "SECONDARY"
                    ELSE r.status = "PRIMARY" /\ p.config.ballot = r.ballot
    IN  /\ p \in proposals
        /\ rep[n].conn = "Connected"
        /\ rep[n].status \notin {"DOWN", "CLOSED"}
        /\ p.config.ballot >= rep[n].ballot
        /\ tasks[n] = NoReq
        /\ IF ~takes THEN Apply(n, u) /\ UNCHANGED updates
           ELSE \/ assign_primary(n, r, cs, p)
                \/ downgrade_to_secondary_on_primary(n, r, cs, p)
                \/ downgrade_to_inactive_on_primary(n, r, cs, p)
        /\ NoConfigCall /\ UNCHANGED <<committed, budget>>

\* The stub has no replica (any more): it declines to become primary.
on_config_proposal_no_replica(p) ==
    /\ p \in proposals
    /\ p.type = "UPGRADE_TO_PRIMARY"
    /\ rep[p.target].conn = "Connected"
    /\ rep[p.target].status = "CLOSED"
    /\ updates' = updates \cup RemovalOf(p.target, p.config)
    /\ NoConfigCall /\ UNCHANGED <<tasks, rep, calls, committed, budget>>

\* The answer to an update is used by an inactive, connected replica only.
ReplyUsable(n) ==
    /\ tasks[n].resp # NoReq
    /\ rep[n].status = "INACTIVE" /\ rep[n].conn = "Connected"
    /\ tasks[n].resp.config.ballot >= rep[n].ballot

\* The answer, or the timeout of a call that is given up.
on_update_configuration_on_meta_server_reply(n) ==
    LET t == tasks[n]
        r == rep[n]
        q == IF t.resp.err # "OK" THEN r
             ELSE [r EXCEPT !.npd = IF t.req.type = "UPGRADE_TO_PRIMARY" THEN max_decree(r) ELSE @,
                            !.initializing = @ /\ t.req.type # "PRIMARY_FORCE_UPDATE_BALLOT",
                            !.failed = @ \/ /\ t.req.type = "PRIMARY_FORCE_UPDATE_BALLOT"
                                            /\ ~r.initializing]
        u == update_configuration(n, q, t.resp.config)
    IN  /\ t # NoReq
        /\ \/ t.resp # NoReq
           \/ r.status # "INACTIVE" \/ r.conn # "Connected"
        /\ IF ReplyUsable(n)
           THEN rep' = [rep EXCEPT ![n] = u.r] /\ calls' = AfterUpdate(calls, n, u)
           ELSE UNCHANGED <<rep, calls>>
        /\ tasks' = [tasks EXCEPT ![n] = NoReq]
        /\ NoConfigCall /\ UNCHANGED <<updates, committed, budget>>

-------------------------------------------------------------------------------
(***************************************************************************)
(* Configuration sync.  The query and the meta server's answer are one     *)
(* step; the answer then waits for its delivery.                           *)
(***************************************************************************)
query_configuration_by_node(n) ==
    /\ rep[n].status # "DOWN"
    /\ rep[n].conn # "Disconnected"
    /\ rep[n].sync = Null
    /\ IF rep[n].conn = "Connected" THEN Spend("syncs") ELSE UNCHANGED budget
    /\ rep' = [rep EXCEPT ![n].sync = SyncAnswer(n)]
    /\ UNCHANGED <<metaVars, calls, committed>>

\* replica::on_config_sync
on_config_sync(n, r, c) ==
    IF c.ballot < r.ballot \/ r.status = "PRIMARY"
    THEN rep' = [rep EXCEPT ![n] = r] /\ UNCHANGED <<calls, tasks, updates>>
    ELSE IF r.initializing /\ c.primary = n /\ r.status = "INACTIVE"
    THEN update_configuration_on_meta_server(n, r, calls, "PRIMARY_FORCE_UPDATE_BALLOT", n, c)
    ELSE Apply(n, update_configuration(n, [r EXCEPT !.initializing = FALSE], c)) /\ UNCHANGED updates

\* on_node_query_reply, with the task it posts to the replica (scatter), in one
\* step: the answer is compared with the ballot the replica has when it arrives.
on_node_query_reply(n) ==
    LET a == rep[n].sync
        r == [rep[n] EXCEPT !.sync = Null,
                            !.conn = IF @ = "Connecting" THEN "Connected" ELSE @]
        Keep == rep' = [rep EXCEPT ![n] = r] /\ UNCHANGED <<calls, tasks, updates>>
    IN  /\ a # Null
        /\ IF r.conn = "Disconnected" \/ a.kind = "busy" \/ (a.kind = "absent" /\ r.status = "CLOSED")
           THEN Keep
           ELSE IF a.kind = "absent"
           THEN \/ r.status = "INACTIVE" /\ Keep  \* created a short while ago
                \/ Apply(n, [r |-> [r EXCEPT !.status = "CLOSED"], send |-> {}, cancel |-> TRUE])
                   /\ UNCHANGED updates
           ELSE IF r.status = "CLOSED"
           THEN /\ rep' = [rep EXCEPT ![n] = r]
                /\ updates' = IF a.config.primary = n THEN updates \cup RemovalOf(n, a.config) ELSE updates
                /\ UNCHANGED <<calls, tasks>>
           ELSE on_config_sync(n, r, a.config)
        /\ NoConfigCall /\ UNCHANGED <<committed, budget>>

-------------------------------------------------------------------------------
(***************************************************************************)
(* The lease with the meta server, crashes and restarts.                   *)
(***************************************************************************)
\* The lease expires on the node; scatter is the task that tells the replica.
on_meta_server_disconnected(n) ==
    /\ rep[n].status # "DOWN"
    /\ rep[n].conn # "Disconnected"
    /\ Spend("disconnects")
    /\ rep' = [rep EXCEPT ![n].conn = "Disconnected", ![n].scatter = TRUE]
    /\ UNCHANGED <<metaVars, calls, committed>>

\* mutant: the replica is not told that the lease is over
ScatterKeepsStatus(n) ==
    /\ rep[n].scatter
    /\ rep' = [rep EXCEPT ![n].scatter = FALSE]
    /\ UNCHANGED <<metaVars, calls, committed, budget>>

on_meta_server_disconnected_scatter(n) ==
    LET r == [rep[n] EXCEPT !.scatter = FALSE]
        u == IF r.conn = "Disconnected" /\ r.status \in {"PRIMARY", "SECONDARY"}
             THEN update_local_configuration(n, r, r.ballot, "INACTIVE")
             ELSE Same(r)
    IN  /\ rep[n].scatter
        /\ rep' = [rep EXCEPT ![n] = u.r]
        /\ calls' = AfterUpdate(calls, n, u)
        /\ UNCHANGED <<metaVars, committed, budget>>

\* A beacon is acknowledged again: the meta server has the node as alive.
on_meta_server_connected(n) ==
    /\ rep[n].status # "DOWN"
    /\ rep[n].conn = "Disconnected"
    /\ rep' = [rep EXCEPT ![n].conn = "Connecting"]
    /\ alive' = alive \cup {n}
    /\ UNCHANGED <<pc, cc, updates, tasks, proposals, lb, stored, calls, committed, budget>>

\* The failure detector is perfect (module FailureDetector): only a node whose
\* own lease has expired is declared dead.  By then its calls to the meta server
\* have timed out, and the tasks queued when the lease expired have run, unless
\* budget.slow.
NodeDead(n) ==
    /\ rep[n].conn = "Disconnected" /\ (rep[n].scatter => budget.slow)
    /\ on_node_dead(n)
    /\ rep' = [rep EXCEPT ![n].sync = Null]
    /\ tasks' = [tasks EXCEPT ![n] = NoReq]
    /\ UNCHANGED <<calls, committed, budget>>

\* What a crash leaves: some of the queued log writes, and the app at its last
\* durable decree or after it.
CrashImage(r, logged, applied) ==
    [r EXCEPT !.status = "DOWN", !.conn = "Disconnected", !.sync = Null, !.scatter = FALSE,
              !.log = @ \o SubSeq(r.queue, 1, logged), !.queue = <<>>,
              !.app = SubSeq(@, 1, applied), !.plist = [d \in Decree |-> Null],
              !.secondaries = {}, !.npd = 0, !.initializing = FALSE]

Crash(n) ==
    LET r == rep[n]
    IN  /\ r.status # "DOWN"
        /\ Spend("crashes")
        /\ \E logged \in 0..Len(r.queue), applied \in r.durable..Len(r.app) :
               rep' = [rep EXCEPT ![n] = [CrashImage(r, logged, applied) EXCEPT !.durable = applied]]
        /\ calls' = {c \in Cancelled(calls, n) : c.to # n \/ c.stage # "queued"} \cup
                    {[c EXCEPT !.stage = "lost"] :
                        c \in {x \in calls : x.from # n /\ x.to = n /\ x.stage = "queued"}}
        /\ tasks' = [tasks EXCEPT ![n] = NoReq]
        /\ NoConfigCall /\ UNCHANGED <<updates, committed>>

\* replay_mutation, with the commit of prepare_list::prepare for PS_INACTIVE.  A
\* commit point beyond the list makes the code start the list again there, with
\* an app that lacks the decrees between: here it counts as a failed CHECK, so
\* that NoCheckFails says it never happens (PrepareList has the reset).
replay_mutation(r, e) ==
    IF \/ e.decree <= last_committed_decree(r)
       \/ r.plist[e.decree] # Null /\ r.plist[e.decree].ballot >= e.ballot
    THEN r
    ELSE IF e.lcd > max_decree(r) THEN [r EXCEPT !.failed = TRUE]
    ELSE [commit_hard(r, e.lcd) EXCEPT
             !.plist[e.decree] = [ballot |-> e.ballot, val |-> e.val, lcd |-> e.lcd,
                                  logged |-> TRUE, left |-> {}]]

\* r after the first i mutations of its log
Replayed(r) ==
    LET f[i \in 0 .. Len(r.log)] == IF i = 0 THEN r ELSE replay_mutation(f[i - 1], r.log[i]) IN f

\* initialize_on_load: the replica is INACTIVE (transient) and initializing.
Loaded(r) == [Replayed(r)[Len(r.log)] EXCEPT !.status = "INACTIVE", !.initializing = TRUE]

Restart(n) ==
    /\ rep[n].status = "DOWN"
    /\ rep' = [rep EXCEPT ![n] = Loaded(rep[n])]
    /\ UNCHANGED <<metaVars, calls, committed, budget>>

-------------------------------------------------------------------------------
(***************************************************************************)
(* The group is formed: a primary, all others secondaries, all connected.  *)
(***************************************************************************)
Formed(n, p) ==
    [status |-> IF n = p THEN "PRIMARY" ELSE "SECONDARY", ballot |-> Cardinality(Group),
     initializing |-> FALSE, secondaries |-> IF n = p THEN Group \ {p} ELSE {}, npd |-> 0,
     plist |-> [d \in Decree |-> Null], app |-> <<>>, durable |-> 0, queue |-> <<>>, log |-> <<>>,
     conn |-> "Connected", sync |-> Null, scatter |-> FALSE, failed |-> FALSE]

Init ==
    /\ budget \in Budgets
    /\ \E p \in Group :
           /\ pc = [ballot |-> Cardinality(Group), primary |-> p, secondaries |-> Group \ {p}, lcd |-> 0]
           /\ rep = [n \in Group |-> Formed(n, p)]
    /\ stored = pc
    /\ cc = NoReq
    /\ alive = Group
    /\ updates = {}
    /\ tasks = [n \in Group |-> NoReq]
    /\ proposals = {}
    /\ lb = NoReq
    /\ calls = {}
    /\ committed = <<>>

replicaVars == <<rep, calls, committed>>

Meta == /\ \/ check_all_partitions
           \/ BalancerMove
           \/ \E req \in updates : on_update_configuration(req)
           \/ on_update_configuration_on_remote_reply
           \/ RemoteWritten \/ MetaFailover
        /\ UNCHANGED replicaVars

TwoPhaseCommit ==
    \/ \E n \in Group : on_client_write(n) \/ on_append_log_completed(n)
    \/ \E c \in calls : on_prepare(c) \/ on_prepare_ok(c) \/ on_prepare_retry(c)
                        \/ handle_remote_failure(c)

Reconfiguration ==
    \/ \E p \in proposals : on_config_proposal(p) \/ on_config_proposal_no_replica(p)
    \/ \E n \in Group : \/ on_update_configuration_on_meta_server_reply(n)
                       \/ query_configuration_by_node(n)
                       \/ on_node_query_reply(n)

Faults ==
    \E n \in Group : \/ on_meta_server_disconnected(n) \/ on_meta_server_disconnected_scatter(n)
                     \/ on_meta_server_connected(n)
                    \/ NodeDead(n) \/ Crash(n) \/ Restart(n)

Next == Meta \/ TwoPhaseCommit \/ Reconfiguration \/ Faults

Spec == Init /\ [][Next]_vars

-------------------------------------------------------------------------------
Config == [ballot : Nat, primary : Node \cup {NoNode}, secondaries : SUBSET Node, lcd : Nat]

\* The shape of the state.
TypeOK ==
    /\ pc \in Config /\ pc.primary \notin pc.secondaries
    /\ alive \subseteq Node
    /\ \A req \in updates : req.config \in Config /\ req.config.primary \notin req.config.secondaries
    /\ \A n \in Group :
           /\ rep[n].status \in {"PRIMARY", "SECONDARY", "INACTIVE", "CLOSED", "DOWN"}
           /\ rep[n].conn \in {"Connected", "Connecting", "Disconnected"}
           /\ rep[n].durable \in 0..Len(rep[n].app)

\* Replicas never diverge: whatever any replica has applied to its storage
\* engine is what some primary committed at that decree (prepare_list::commit,
\* execute_mutation), in spite of failovers, replays and crashes.
AppsAgree == \A n \in Group : IsPrefix(rep[n].app, committed)

HasValue(r, d, v) == \/ d <= Len(r.app) /\ r.app[d] = v
                     \/ r.plist[d] # Null /\ r.plist[d].val = v

\* A committed write is never lost: every member of the configuration, and of
\* the one being written, has it in its app or prepare list, and would have it
\* again if it crashed now with nothing flushed beyond its durable decree
\* (ack only after on_append_log_completed; replay of the private log).
CommittedSurvives ==
    \A d \in DOMAIN committed, n \in Members(pc) \cup Members(stored) \cup (IF cc = NoReq THEN {} ELSE Members(cc.config)) :
        /\ rep[n].status # "DOWN" => HasValue(rep[n], d, committed[d])
        /\ HasValue(Loaded(CrashImage(rep[n], 0, rep[n].durable)), d, committed[d])

\* At most one replica is in PS_PRIMARY.
OnePrimary == \A m, n \in Group : rep[m].status = "PRIMARY" /\ rep[n].status = "PRIMARY" => m = n

\* No CHECK of the code fails: a mutation missing or unlogged at a hard commit
\* (prepare_list.cpp:163), a prepare for another status (replica_2pc.cpp:621),
\* an unexpected acknowledgement, a proposal at the replica's ballot that names
\* other members, a ballot update of a replica that is not initializing; and
\* every request the meta server may accept passes its request_check.
NoCheckFails ==
    /\ \A n \in Group : ~rep[n].failed
    /\ \A req \in updates : Acceptable(req) => request_check(req)

\* A primary that answers reads (past check at replica.cpp:425) has applied
\* every committed write.
ReadFresh == \A n \in Group :
    rep[n].status = "PRIMARY" /\ last_committed_decree(rep[n]) >= rep[n].npd
        => IsPrefix(committed, rep[n].app)

\* Ballots only grow, on the meta server across its failovers and on each node
\* across its restarts: on_update_configuration_on_remote_reply answers, and
\* update_local_configuration changes the status, after the ballot is stored.
Monotonic == [][/\ pc'.ballot >= pc.ballot
                /\ \A n \in Group : rep'[n].ballot >= rep[n].ballot]_vars
===============================================================================
