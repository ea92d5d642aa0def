---------------------------- MODULE MetaPartition ----------------------------
(***************************************************************************)
(* The meta server's view of one partition: its configuration pc, the      *)
(* update of it that is being written to remote storage (config_context),  *)
(* and which replica servers the failure detector reports alive.  From     *)
(* class server_state, with the part of partition_guardian that elects a   *)
(* primary.  All of these run in one single-threaded pool, so each handler *)
(* is one action.  The module also holds the messages between the meta     *)
(* server and the replica servers, and is completed by Replication.        *)
(***************************************************************************)
EXTENDS Integers, FiniteSets

CONSTANTS Node,     \* replica servers
          NoNode,   \* an empty host_port
          NoReq     \* no request, no call, no response

ASSUME NodeAssumption == NoNode \notin Node

VARIABLES pc,          \* app_state::pcs[pidx]
          cc,          \* config_context::pending_sync_request
          alive,       \* nodes with node_state::alive()
          updates,     \* update requests sent; a request may arrive late and again
          tasks,       \* reconfiguration_task of each node, with its response
          proposals,   \* proposals sent; may arrive late and again
          lb,          \* config_context::lb_actions, the choice of a new primary
          stored,      \* the configuration on remote storage
          budget       \* what may still happen in this behaviour

metaVars == <<pc, cc, alive, updates, tasks, proposals, lb, stored>>

Spend(what) == budget[what] > 0 /\ budget' = [budget EXCEPT ![what] = @ - 1]

Members(c) == ({c.primary} \cup c.secondaries) \ {NoNode}

Reply(req, err, config) ==
    IF req.from # NoNode /\ tasks[req.from] # NoReq /\ tasks[req.from].req = req
    THEN [tasks EXCEPT ![req.from].resp = [err |-> err, config |-> config]]
    ELSE tasks

(***************************************************************************)
(* on_missing_primary, reached from cure: ask a living secondary to take   *)
(* over.  The choice stands (lb_actions) as long as the chosen node lives. *)
(***************************************************************************)
Upgrade(c, s) == [type |-> "UPGRADE_TO_PRIMARY", node |-> s, target |-> s, config |-> c]

Candidates(c) ==
    IF c.primary # NoNode \/ lb \in {Upgrade(c, s) : s \in alive}
    THEN {}
    ELSE c.secondaries \cap alive

cure(c) == IF Candidates(c) = {}
           THEN UNCHANGED <<proposals, lb>>
           ELSE \E s \in Candidates(c) : /\ proposals' = proposals \cup {Upgrade(c, s)}
                                         /\ lb' = Upgrade(c, s)

\* check_all_partitions, run periodically: cures a partition with no update pending.
check_all_partitions ==
    /\ cc = NoReq
    /\ Candidates(pc) # {}
    /\ cure(pc)
    /\ UNCHANGED <<pc, cc, alive, updates, tasks, stored, budget>>

\* The balancer moves the primary away: the first of its two actions.
BalancerMove ==
    /\ Spend("moves")
    /\ cc = NoReq
    /\ pc.primary \in alive
    /\ pc.secondaries \cap alive # {}
    /\ proposals' = proposals \cup
           {[type |-> "DOWNGRADE_TO_SECONDARY", node |-> pc.primary, target |-> pc.primary,
             config |-> pc]}
    /\ UNCHANGED <<pc, cc, alive, updates, tasks, lb, stored>>

(***************************************************************************)
(* A replica server asks for a change of the configuration.                *)
(***************************************************************************)
Acceptable(req) == req.config # pc /\ req.config.ballot = pc.ballot + 1 /\ cc = NoReq

\* The CHECKs an accepted request has to pass.
request_check(req) ==
    \/ req.type = "UPGRADE_TO_PRIMARY" /\ req.node \in pc.secondaries
    \/ req.type = "DOWNGRADE_TO_SECONDARY" /\ req.node = pc.primary
    \/ req.type = "DOWNGRADE_TO_INACTIVE" /\ req.node \in Members(pc)
    \/ /\ req.type = "PRIMARY_FORCE_UPDATE_BALLOT"
       /\ req.config.primary = pc.primary /\ req.config.secondaries = pc.secondaries

on_update_configuration(req) ==
    /\ req \in updates
    /\ IF req.config = pc
       THEN tasks' = Reply(req, "OK", pc) /\ UNCHANGED cc
       ELSE IF pc.ballot + 1 # req.config.ballot
       THEN tasks' = Reply(req, "INVALID_VERSION", pc) /\ UNCHANGED cc
       ELSE cc = NoReq /\ cc' = req /\ UNCHANGED tasks
    /\ UNCHANGED <<pc, alive, updates, proposals, lb, stored, budget>>

\* mutant: the update is answered while its remote write is under way
AnsweredUnstored ==
    /\ cc # NoReq
    /\ pc' = cc.config
    /\ cc' = NoReq
    /\ tasks' = Reply(cc, "OK", cc.config)
    /\ cure(cc.config)
    /\ UNCHANGED <<alive, updates, stored, budget>>

\* The update is on remote storage: it takes effect, is answered, and the
\* guardian looks at the new configuration.
on_update_configuration_on_remote_reply ==
    /\ cc # NoReq
    /\ pc' = cc.config
    /\ stored' = cc.config
    /\ cc' = NoReq
    /\ tasks' = Reply(cc, "OK", cc.config)
    /\ cure(cc.config)
    /\ UNCHANGED <<alive, updates, budget>>

(***************************************************************************)
(* Failover of the meta server.  A write may be on remote storage before   *)
(* its answer is handled, or its task cancelled; it matters only to a      *)
(* server that takes over.                                                 *)
(***************************************************************************)
RemoteWritten ==
    /\ budget.failovers > 0
    /\ cc # NoReq /\ stored # cc.config
    /\ stored' = cc.config
    /\ UNCHANGED <<pc, cc, alive, updates, tasks, proposals, lb, budget>>

\* initialize_data_structure: all that is not on remote storage is forgotten, and
\* every node is alive until the failure detector says otherwise.
MetaFailover ==
    /\ Spend("failovers")
    /\ pc' = stored
    /\ cc' = NoReq /\ lb' = NoReq
    /\ alive' = DOMAIN tasks
    /\ UNCHANGED <<updates, tasks, proposals, stored>>

(***************************************************************************)
(* The failure detector declares a node dead.  A dead primary is replaced  *)
(* at once, in place of whatever update is pending; the removal of a dead  *)
(* secondary is left to the primary.                                       *)
(***************************************************************************)
downgrade_primary_to_inactive(n) ==
    /\ cc' = [type |-> "DOWNGRADE_TO_INACTIVE", node |-> n, from |-> NoNode,
              config |-> [pc EXCEPT !.ballot = @ + 1, !.primary = NoNode]]
    /\ UNCHANGED proposals

downgrade_secondary_to_inactive(n) ==
    /\ UNCHANGED cc
    /\ IF cc # NoReq
       THEN UNCHANGED proposals
       ELSE proposals' = proposals \cup
                {[type |-> "DOWNGRADE_TO_INACTIVE", node |-> n, target |-> pc.primary,
                  config |-> pc]}

on_partition_node_dead(n) ==
    IF n = pc.primary THEN downgrade_primary_to_inactive(n)
    ELSE IF n \in pc.secondaries /\ pc.primary # NoNode
    THEN downgrade_secondary_to_inactive(n)
    ELSE UNCHANGED <<cc, proposals>>

on_node_dead(n) ==
    /\ n \in alive
    /\ alive' = alive \ {n}
    /\ on_partition_node_dead(n)
    /\ UNCHANGED <<pc, updates, lb, stored>>

\* What on_config_sync answers to node n.
SyncAnswer(n) == IF n \notin Members(pc) THEN [kind |-> "absent", config |-> NoReq]
                 ELSE IF cc # NoReq /\ cc.node = n THEN [kind |-> "busy", config |-> NoReq]
                 ELSE [kind |-> "config", config |-> pc]
===============================================================================
