# A TLA+ model of Apache Pegasus

Pegasus is a distributed key-value store. A table is split into partitions;
every partition is replicated by a small group of replica servers that run a
PacificA-style primary/backup protocol, and a meta server owns the
configuration (ballot, primary, secondaries) of every partition. This directory
models the replication protocol and the parts of the servers it rests on,
checks the models with TLC on small instances, and proves with TLAPS what holds
for instances of every size.

Paths below are relative to the repository; `replica/` and `meta/` stand for
`src/replica/` and `src/meta/` of its C++ tree.

## The system and its parts

| Part | Code | State | Operations | What makes it hard |
|---|---|---|---|---|
| mutation cache | `replica/mutation_cache.*` | ring `_array`, `_interval`, start/end index and decree | put, pop_min, reset, get_mutation_by_decree | wrap-around, gaps, redundant fields kept in step by hand |
| prepare list | `replica/prepare_list.*` | a mutation cache and `_last_committed_decree` | prepare (by status), commit (hard, soft, all ready), truncate, reset | an uncommitted mutation must never be popped; order of commits; pops loop until a condition that must come true |
| two-phase commit | `replica/replica_2pc.cpp` | prepare list, per-mutation ack counts, private log, application | on_client_write, init_prepare, on_prepare, on_append_log_completed, on_prepare_reply | lost, late and repeated prepares; log callbacks that complete after the configuration changed |
| reconfiguration | `replica/replica_config.cpp`, `replica_failover.cpp` | `_config` (status, ballot), `_inactive_is_transient`, reconfiguration task, membership | on_config_proposal, update_configuration_on_meta_server and its reply, update_local_configuration, on_config_sync, replay_prepare_list | old primaries, retried requests, replies that arrive after a newer configuration |
| start-up | `replica/replica_init.cpp`, `mutation_log_replay.cpp` | `_is_initializing`, ballot in the init file, private log | initialize_on_load, replay_mutation | crash between the log write and the acknowledgement |
| learning | `replica/replica_learn.cpp` | learner status, signature, prepare_start_decree | init_learn, on_learn, on_learn_reply, apply_learned_state, completion | a learner joins while writes continue |
| group check | `replica/replica_check.cpp` | pending replies | broadcast_group_check, on_group_check, replies | replays configuration and commit point to secondaries |
| private log | `replica/mutation_log*.cpp`, `log_file.cpp`, `log_block.cpp` | files, pending block, max decree, valid start offset | append, flush, replay, garbage_collection, reset_from | one writer, two buffers, callbacks; files removed while still needed |
| write queue | `mutation_queue` in `replica/mutation.*` | pending mutation, blocking mutation, queue, row locks | add_work, next_work, enter_2pc, clear | row locks are evicted by an LRU list that outlives a clear |
| checkpointing | `replica/replica_chkpt.cpp`, `replication_app_base.cpp` | durable decree, checkpoint tasks | on_checkpoint_timer, background_*_checkpoint, catch_up_with_private_logs | secondary copies a checkpoint while prepares continue |
| replica server | `replica/replica_stub.cpp` | node state, replicas, opening, closing and closed replicas | connected, disconnected, config sync, open and close replica | the lists are changed by several thread pools |
| partition split | `replica/split/`, `meta/meta_split_service.cpp` | split status on parent, child and meta | copy prepare list and mutations, register child | child must not miss a write of its parent |
| bulk load | `replica/bulk_load/`, `meta/meta_bulk_load_service.cpp` | bulk load status per partition | download, ingest, pause, cancel | ingestion runs as a write that must reach every replica |
| duplication | `replica/duplication/`, `meta/duplication/` | confirmed decree per remote | load, ship, confirm, sync | log files are kept until confirmed |
| cold backup, restore | `replica/backup/`, `replica_backup.cpp`, `replica_restore.cpp`, `meta/meta_backup_service.cpp`, `meta/backup_engine.cpp` | backup status per policy and partition | start, check, upload, complete | long-running uploads restarted after failover |
| disk migration | `replica/replica_disk_migrator.cpp`, `disk_cleaner.cpp` | migration status | migrate, close, update directory | two directories claim one replica |
| meta: partition state | `meta/server_state.cpp` | partition configurations, pending sync to remote storage | on_update_configuration, replies of the remote storage, on_change_node_state | the remote write of one update races the death of a node |
| meta: guardian, balancer | `meta/partition_guardian.cpp`, `meta/*balance*` | dropped replicas, cure proposals | cure, reconfig, on_missing_primary, on_missing_secondary | choosing a primary after every replica died |
| meta: tables | `meta/server_state.cpp`, `meta/meta_service.cpp`, `meta/meta_data.*` | app states, meta function level | create, drop, recall, rename, set envs | restart in the middle of creating or dropping |
| meta: leadership, storage | `meta/meta_state_service_*`, `meta/distributed_lock_service_simple.cpp`, `zookeeper/` | lock owner, stored nodes | lock, unlock, create, set, delete | two leaders, lost sessions |
| failure detector | `failure_detector/`, `meta/meta_server_failure_detector.cpp`, `replica/` use in `replica_stub.cpp` | per-peer beacon times, liveness | send_beacon, on_ping, end_ping, check_all_records | the worker must give up before the master gives it up |
| storage engine | `server/` | RocksDB, manual compaction, TTL, hotkeys | put, get, scan, checkpoint | delegated to RocksDB |
| runtime | `rpc/`, `task/`, `runtime/`, `aio/`, `nfs/`, `utils/` | task queues, sessions | calls, timers, file copy | library level |
| clients and tools | `client/`, `client_lib/`, `shell/`, `go-client/`, `java-client/`, `admin-cli/`, `collector/` | routing caches | query configuration, retry | stale routing |
| security | `security/`, `ranger/` | negotiation, ACLs | | outside the model |

## Modules

| Module | Models | Extends / uses |
|---|---|---|
| `DecreeWindow` | what a mutation cache promises: a bounded window of consecutive decrees | |
| `MutationCache` | `replica/mutation_cache.*` field by field | implements `DecreeWindow` |
| `MutationCacheProofs` | proofs about `MutationCache` | `MutationCache` |
| `PrepareList` | `replica/prepare_list.*` | the operators of `MutationCache` |
| `PrepareListProofs` | proofs about `PrepareList` | `PrepareList`, `MutationCacheProofs` |
| `FailureDetector` | beacons, leases and elections between a replica server and the meta servers | |
| `FailureDetectorProofs` | proofs about `FailureDetector` | `FailureDetector` |
| `MetaPartition` | one partition's configuration on the meta server | |
| `Replication` | the replicas of that partition, composed with the meta server | `MetaPartition` |
| `MutationQueue` | the primary's write queue and row locks | |
| `MutationQueueProofs` | proofs about `MutationQueue` | `MutationQueue` |
| `Learning` | a learner, its primary and its way into the group | |
| `PrivateLog` | the files of a replica's log, their collection and replay | |
| `MetaSplit` | partition split on the meta server | |
| `PartitionSplit` | the group that is split, composed with the meta server | `MetaSplit` |
| `MetaSplitProofs`, `PartitionSplitProofs` | proofs about the two | `MetaSplit`, `PartitionSplit` |
| `ProofLemmas` | facts on natural numbers that several proofs use | |
| `MC*` | symmetry, budgets and small sets for TLC | the module after `MC` |

Definitions keep the names of the functions they model. An operator whose
comment says "mutant" is a plausible slip in the definition that follows it; it
is used by no specification, and serves to show that a property notices the
slip.

### MutationCache and DecreeWindow

`cache` is a record with the members of the class: `_array`, `_interval`,
`_start_idx`, `_end_idx`, `_start_decree`, `_end_decree`. `Put`, `PopMin` and
`Reset` are the member functions; `PutRefused` is a `put` that answers
`ERR_CAPACITY_EXCEEDED`. The operators (`PutIn`, `PopMinOf`, `ResetTo`,
`GetMutationByDecree`) take the record as a parameter, so that `PrepareList`
composes them inside one step. A mutation is its decree and ballot. A `put`
into an empty cache at a smaller decree, and one with a smaller ballot than the
mutation it replaces, fail a `CHECK` in the code and are not taken. What has to
be right: the six fields are redundant and must agree; the slot computed by one
expression for three cases is that of the decree; no popped mutation shows up
again in a gap. `Window` maps the record to the abstract window: start,
interval, and what a lookup answers for each decree in between.

### PrepareList

Adds `_last_committed_decree`, and the mutations' flags `is_logged` and
`is_ready_for_commit`, which the prepare list reads and others set. `prepare` is
one action for each status it distinguishes, including its loop of pops; `commit`
one for each `commit_type`; `truncate` and `reset` one each. What has to be
right: the loops end; a mutation within the staleness bound finds room; nothing
that is prepared and not committed is popped, except by reset, by truncation,
or by a mutation of the same decree. `prepare` can also be told not to commit on a
secondary (`secondary_commit = false`); no caller does.

### FailureDetector

One worker, a set of meta servers of which one leads, and a clock. Each handler
is an action: `send_beacon`, `on_ping` at the meta server, three ends of a ping
(acknowledged, refused by a server that does not lead, timed out), the two
`check_all_records`, an election, the start of service, a restart of the worker.
A beacon may be lost, late, or arrive after its call has timed out. What has to
be right: the meta server gives up a worker only after the worker has given up
itself, although it looks at its lease only now and then.

### MetaPartition and Replication

`MetaPartition` holds the configuration `pc` (`partition_configuration`), the
update being written to remote storage `cc` (`config_context::pending_sync_request`),
what is on remote storage (`stored`), the live nodes, the update requests on the
way, each replica's reconfiguration task, the proposals sent and the guardian's
choice of a primary (`lb_actions`). `on_update_configuration`,
`on_update_configuration_on_remote_reply`, `on_node_dead`, the guardian's `cure`
and the balancer's move of a primary are its actions. The remote write is a step
of its own, so that a cancelled one may still have happened, and the meta server
may fail over: the new leader reads `stored` and knows nothing else. It has no
specification of its own: the requests come from the replicas.

`Replication` adds `rep[n]`, the replica of node `n`: status, ballot, prepare
list, private log with the queue of writes not yet on disk, the app as the
sequence of values applied and how much of it is durable, the secondaries it
knows as primary, the state of its connection, a config sync answer on its way.
The replica's thread runs one handler at a time, so a handler is an action.
`on_node_query_reply` and the task it posts to the replica are one step, and a
secondary never refuses a new configuration because its checkpoint is running. A
log write succeeds or is lost in a crash: after an error
`replica_stub::handle_log_failure` aborts the process. A replayed mutation whose
commit point lies beyond the prepare list, for which the code starts the list
again, counts as a failed `CHECK`.
Between two handlers anything else may happen: a log write completes, a call is
lost, delayed, answered late or sent again, the lease is lost and the task that
takes the replica out of PRIMARY (`on_meta_server_disconnected_scatter`) waits in
its queue, a node crashes with any part of its log queue written and any part of
its app flushed, and restarts by replaying the log. The history variable
`committed` has the value committed by a primary at each decree, which is what
clients may have been told.

Three facts about the surroundings are taken from elsewhere. That the meta server
declares a node dead (`NodeDead`) only when the node has stopped being primary
is `PerfectFD`, proved for `FailureDetector`. That a call to the meta server
does not outlive the lease of its sender (`on_meta_server_disconnected`) is an
assumption about time limits: in the default configuration a lease lasts twenty
seconds without an acknowledged beacon, several times a call's timeout. That the
scatter task runs before the grace period is over is another; the flag `slow` of
a budget lifts it.

What has to be right: replicas do not diverge; a committed write is on every
member of the configuration, even one that crashes now; there is one primary; no
`CHECK` fails; ballots only grow, across restarts and meta servers too.

### Learning

How a replica becomes a secondary (`replica_learn.cpp`), while the primary goes
on writing. `prim` is the primary with its prepare list and what it knows of the
learner (signature, `prepare_start_decree`); `learner` is the replica with its
learner status, app, log and the tasks of its current round; `calls`, `adds`,
`check` and `late` are the messages. The actions are the handlers of a round
(`on_add_learner`, `on_learn`, `on_learn_reply`, `on_copy_remote_state_completed`,
`catch_up_with_private_logs`, `on_learn_remote_state_completed`, the completion
notification and its reply), the prepares that a learner gets from its
`prepare_start_decree` on, the group check, the upgrade through the meta server,
and the troubles: a failed copy, a call that times out and arrives later, a learner
that gives up, a failed prepare, a primary that is lost to another member. The
three kinds of learning (checkpoint, log, cache) follow from what the primary
still has in its list and log. A task that copies files or catches up is cancelled
with its learning until it runs (`TaskRuns`); what it changes, on a thread of its
own, changes when it ends. A group check that is not answered when the timer fires
again is given up for a new one. The requests of one sender arrive in the order
they were sent, as on one connection; the other members are taken together.

What has to be right: a learner that the meta server counts as a member has
everything its primary has committed; answers of an abandoned learning change
nothing; no uncommitted mutation of a copied log is applied; learning comes to an
end.

### PrivateLog

The private log of one replica below the level `Replication` needs: files with
the header that records the max decree of the files before them, the pending
buffer, the one write that is issued, `valid_start_offset`, and the replica's use
of it: append, commit, checkpoint, `hint_switch_file`, the collection of files on
another thread with decrees read earlier (`on_checkpoint_timer`,
`garbage_collection`, one removal a step), `get_learn_state` in its two parts,
the two resets of a learner's log (`ResetNewer` when its state is newer than the
primary's and is discarded, `ResetForCache` before it takes the primary's cached
mutations), and a crash followed by `open` and replay. A header
is written by its own task, so it may be on disk before or after the writes of
the file before it.

A crash is one of the process: what was written survives in the page cache, and
a torn write counts as absent. A table that is duplicated is not reset
(`reset_from`, which duplicated tables use, is not modelled).

What has to be right: what was acknowledged is in the checkpoint or is replayed
after a crash. `open` fails as a whole when a file does not start where the one
before it ends, and the replica is learnt again then, so `AckedRecoverable` looks
at every state of the files that a crash may leave now: an `open` that succeeds
replays everything acknowledged, and one that fails does so because the header of
a new file overtook a write to an earlier one. Further, a learner is given everything from its start decree on;
a collection leaves what a duplication has not confirmed.

### MetaSplit and PartitionSplit

Partition split doubles the partitions of a table. `MetaSplit` is the meta
server: the table's `partition_count` and split states, the configurations of a
parent and of its child, the write of either to remote storage, the register
call, and the operations start, pause, restart, cancel (`control_partition_split`),
`register_child_on_meta`, `notify_stop_split`, and the reading of the table by a
new leader. The other partitions of the table are one that obeys at once.

`PartitionSplit` completes it with the group: for each node its parent replica,
its child and the tasks posted to the child (`q[n]`), the prepares between the
parents, the group checks and the config syncs. The child copies the parent's
prepare list and checkpoint, learns, catches up and notifies the primary; the
primary makes copies synchronous from a sync point on, gives up its role,
registers the group, and takes its role back with the new partition count. All
writes are of the half that moves to the child. The prepare list of a parent and
the log flags of its mutations are kept, the app is the commit point.

A behaviour has one budget: a client's write, a pause and restart, a pause of
all partitions, a cancel, a failover of the meta server, a reconfiguration of the
group, a death, a lost register call or notification, or a learning that fails.
Some guards say that one message is not slower than a whole series of others.
Each has a flag of the budget that lifts it, FALSE in the runs:

| Flag | Without it |
|---|---|
| `late` | a register call, a sync point check or a count update of an earlier attempt does not outlive the stop of the group; a config sync is not answered, and a group does not stop or register again, while a register request is on its way; a config sync answer is not slower than the timeout of a register call sent after it |
| `slowCopy` | a config sync does not activate a child that still has tasks of its parent in its queue |
| `slowNotify` | a repeated notification is not later than the registration it leads to |
| `eager` | a restart is asked for when the group has come to rest |
| `afterwards` | the parent group is left alone from the write of its registration on |

Further simplifications: an operator starts one split at a time; the answer to a
group check reaches the primary in the step of the secondary; a reconfiguration
is one step, so that the meta server's `IO_PENDING` is met by registrations only;
the call that updates the count of a child is answered or refused, not timed out
and sent again; the child's periodic look at its parent (`child_check_split_context`)
has nothing to find in these states.

What has to be right: a child that serves has every acknowledged write of its
half, and is counted as a partition of its table; the children form a group without
holes; parent and child never both serve
the half that moved; a split that is started or stopped comes to an end and
leaves both partitions served.

### MutationQueue

The queue in front of two-phase commit: the pending mutation that batches
requests, the queue, the mutations blocked on a row, the lock table with its LRU
list, and `_current_op_count`. `on_client_write`, `execute_mutation`,
`broadcast_group_check` (with its empty write) and the changes of role are the
actions; `init_prepare` and the `next_work` that follows run inside them, as in
the code. The rest of two-phase commit is abstracted: what was prepared is
applied in decree order. What has to be right: an atomic write that is
translated to a plain one (`make_idempotent`) reads its row after everything
before it was applied; no request is left waiting with nothing to wake it.

## Runs

Each run is a `.cfg` checked with `tlc -config X.cfg M`. A bound is a constant
named `Max...`, or a field of the budget that a behaviour draws from the set
`Budgets` in its initial state and spends in the guard of the action it limits.
A run with several budgets looks at each kind of trouble in turn.

| Run | Module, config | Instance | Checks | Distinct states |
|---|---|---|---|---|
| mutation_cache | `MCMutationCache`, `MutationCache.cfg` | capacity 3, decrees to 7, two ballots | `TypeOK` `SlotInv`, implements `DecreeWindow` (`WindowSpec`) | 468 |
| prepare_list | `MCPrepareList`, `PrepareList.cfg` | capacity 3, staleness 2, decrees to 5, two ballots | `PLTypeOK` `PopLoopEnds` `PrepareNeverRefused` `UncommittedKept` | 2,838 |
| failure_detector | `MCFailureDetector`, `FailureDetector.cfg` | two meta servers, check 2, timeout 1, lease 4, grace 5, time to 11 | `PerfectFD` `LeaseHonoured` `FDInv` | 194,790 |
| replication | `MCReplication`, `Replication.cfg` | three nodes and two writes with a lost lease or a move of the primary; three nodes, one write and a meta failover; two nodes, three writes, two decrees and a crash | `TypeOK` `AppsAgree` `CommittedSurvives` `OnePrimary` `NoCheckFails` `Monotonic` | 361,304 |
| mutation_queue | `MCMutationQueue`, `MutationQueue.cfg` | two rows, four requests, three at a time; a lock table of one entry and one empty write, or one of two entries with a refused write, a loss of the role and a mutation of another primary | `TypeOK` `AtomicAlone` `AtomicReadsOwnWrites` `AtomicReadsApplied` `QueueDrains` | 760,640 |
| learning | `MCLearning`, `Learning.cfg` | one learner, one failure at any point, late requests; with a third ballot or with a second write | `TypeOK` `AppsAgree` `NoCheckFails` `MemberComplete` `LearningEnds` | 155,804 |
| private_log | `MCPrivateLog`, `PrivateLog.cfg` | four decrees of a duplicated table with two collections; three with a crash and a new ballot, a crash and a reset, a learner and a reset | `TypeOK` `AckedRecoverable` `LearnStateComplete` `UnconfirmedKept` | 303,672 |
| partition_split | `MCPartitionSplit`, `PartitionSplit.cfg` | two nodes, ten budgets | `TypeOK` `ChildCounted` `ChildComplete` `ChildGroupWhole` `ServedOnce` `NoCheckFails`, and with a pause or a cancel `SplitEnds` `ParentServes` `ChildServes` | 413,165 |
| sync_under_move | `MCReplication`, `SyncUnderMove.cfg` | two nodes, one move, one periodic config sync | `OnePrimary` is violated | |
| op_count | `MCMutationQueue`, `OpCount.cfg` | one term as primary, one refused write | `OpCountIsRunning` is violated | |
| split_retry | `MCPartitionSplit`, `SplitRetry.cfg` | two nodes, one failover of the meta server | `RetryFindsInactive` is violated | |
| split_wait | `MCPartitionSplit`, `SplitWait.cfg` | two nodes, one pause | `WaitEnds` is violated | |

Why the bounds are enough for what they are meant to show. A ring of three slots
and seven decrees wraps twice and holds gaps on both sides; a list of three with
staleness two fills up. The clock runs for two graces, so that a worker is
declared dead, comes back and is declared dead again, under either leader. Three
nodes let a primary be lost while a second node takes over and the third has
heard only one of them; the second write takes the decree of a first that was
not committed, which is what makes replicas able to disagree. Two decrees are
needed with crashes, for a commit point to travel with the next prepare. A lock
table smaller than the number of rows evicts; three concurrent mutations leave
one locked row behind two others. A learner starts with any part of what is
committed and the primary with any part of it in its list, which gives the three
kinds of learning, and one failure leads to a second learning that meets the
answers of the first. Three decrees fill a log file and open the next; with the
fourth there are two files to collect below the one being written. Two members
are a child primary and a child secondary that was copied from another parent.

The nodes of `Replication` and the meta servers of `FailureDetector` are symmetric: the specifications never choose among them by identity. Liveness
properties are checked without symmetry.

Larger instances of the same questions found no violation: `Learning` with two
decrees and three ballots in one budget and `faults = 2` (`MemberComplete`,
4,344,627 states); `PartitionSplit` with an early restart
(`MCPartitionSplit!Eager`, 747,622 states) and with a failed learning and a write
(200,422).

Deadlock is checked for the mutation cache, the prepare list and the failure
detector. The others rightly come to rest when their budget is spent and nothing
is in flight.

Fairness is assumed in three places, always of what the code does by itself and
never of clients, operators or trouble.

- `QueueDrains`: weak fairness of `Applied`, the application of the next mutation
  (`execute_mutation`). A mutation that is
  prepared is eventually applied, which two-phase commit does as long as the
  replica stays primary (a secondary that does not answer is removed). What waits
  must be taken up by the commits alone.
- `LearningEnds`: weak fairness of each kind of step of a learning round, of the
  group check (a timer), of reconfiguration, of prepares, their answers and the
  log writes. Calls are answered or time out, posted tasks run, timers fire.
- `SplitEnds`, `ParentServes`, `ChildServes`, `WaitEnds`: weak fairness of the
  meta server's own tasks (`MetaDue`: callbacks and answers, not requests), of the
  register call's reply, timeout and retry, of each node's due tasks and
  messages, and of the periodic config sync and group check. It is assumed in the
  budgets with `fair`, and the properties are about those.

## What the runs disagree with

Four runs end in a counterexample to something the repository says. Each is
recorded with its source line in `PROJECT.json`.

- **sync_under_move.** `on_config_sync` skips a replica whose reconfiguration is
  under way, but tests this only in status PRIMARY; during a downgrade the
  replica is INACTIVE. A config sync answered before the downgrade makes it
  PRIMARY again, it ignores the answer to its own request, and a second primary
  is elected.
- **op_count.** `_current_op_count` is said to be "the current count of the
  mutations being processed concurrently in 2PC phase". An atomic write that
  `make_idempotent` refuses, because the condition of a `check_and_set` fails, takes
  no decree and is never applied, but stays counted until another mutation is
  applied.
- **split_retry.** A failed register call is sent again after a second, and
  `parent_send_register_request` has a `CHECK` that the parent is still INACTIVE. A
  periodic config sync answered in between makes it PRIMARY. The call is lost to a
  failover of the meta server in the run. `NoCheckFails` is about the other `CHECK`s.
- **split_wait.** A parent waits for its child "during partition split". When a
  split is paused or cancelled while a synchronous copy is under way, the child's
  tasks are cancelled and nothing clears `wait_child` of the mutation: the primary
  commits nothing more until its group changes.

More cases appear when a bound, a budget or a timing flag is changed, or when a
stronger property that the modules keep is checked. Most are
hazards with a note in `PROJECT.json`.

| Change | What TLC finds |
|---|---|
| `PrepareList.cfg`, `Staleness = 3` | a list exactly as large as the staleness bound, which the flag validator accepts, refuses a mutation within the bound |
| `Replication!ReadFresh`, `CrashOnly` | a primary that restarts before it is declared dead becomes primary by `PRIMARY_FORCE_UPDATE_BALLOT`, which does not set the decree that guards reads; it answers from an app that lacks acknowledged writes |
| `Replication`, `slow = TRUE` | a node that is connected again before its scatter task runs stays PRIMARY beside the new one |
| `Replication`, a crash and a move in one budget | a prepare carries a commit point over a mutation whose log write is pending on a former primary, where a `CHECK` fails |
| `MutationQueue`, `dirty = {}` with a lock table of one entry and a change of role | `_lru_rows` outlives `clear()`, and an old entry evicts a new lock |
| the same with `MCMutationQueue!TwoTerms` | mutations decoded from a message have no client requests; replayed by a new primary they lock no row, and an atomic write is translated from an older value |
| `Learning!MemberDurable` | a learner that failed and started again has acknowledged mutations that lie before its log's valid start |
| `Learning!MemberComplete`, `adds = 2` and `faults = 2` in one budget | a group check's late "LearningSucceeded" upgrades a learner that has started again |
| `PrivateLog!Reopens`, `CrashOnly` | a header on disk before the last write of the file before it makes `open` fail after a crash |
| `PrivateLog!UnconfirmedKept`, `DupCrash` | after a restart the max decree of the log is that of the replayed files, and a collection removes what is not confirmed |
| `PrivateLog!AckedRecoverable`, `ResetCrash` | the log ends before `valid_start_offset` after a crash, and what is appended then is not replayed |
| `PrivateLog!AckedRecoverable`, `slow = TRUE` | a collection started before a learner's state was discarded removes files of the new log |
| `PartitionSplit` with a flag | `late`, with a pause and a restart: a group is registered before its secondary has copied, and with a write the child lacks an acknowledged one. `afterwards`: parent and child serve one half, the new primary of the child lacks a write, or a primary that dies while its registration is written makes a `CHECK` of the meta server fail (`server_state.cpp:2149`) |
| `PartitionSplit.cfg`, `fair` with a lost call, a failover, a death | the parent stays without a valid `partition_version` (`ParentServes`) |
| `PartitionSplit.cfg`, `fair` with a failed learning, or a write before the child exists | the split waits for children that notify once only (`SplitEnds`) |

## Proofs

`tlapm M.tla` checks the proofs of a module `M` whose name ends in `Proofs`;
`ProofLemmas` has the facts on natural numbers that several of them use.

**MutationCache**, for every capacity `MaxCount > 0`, every set of mutations with
natural decrees and ballots, and every set of decrees:

- `RingInvariant`, `TypeCorrect`, `SlotsHoldWindow`. The inductive invariant is
  `TypeOK /\ RingInv /\ SlotInv`. `RingInv` says that interval, indices and
  decrees agree; `SlotInv` that each slot of the window holds nothing or the
  mutation of its own decree, and each slot outside it nothing. Neither is
  inductive alone: where a `put` lands follows from `RingInv`, and that a gap
  reads as empty from the part of `SlotInv` about slots outside the window. The
  arithmetic is in lemmas on `%` that split a sum by how often it wraps.
- `LookupByDecree`: a lookup answers a mutation of the decree asked for or none.
- `ImplementsWindow`: `Spec => Window!Spec`. One lemma for each operation shows
  that it is the same operation of the window under the mapping; `PutRefused`
  and a pop of an empty cache stutter.

**PrepareList**, for every capacity, staleness bound and set of mutations:

- `PrepareListInvariant`: `PLInv`. The commit point is not beyond the list, an
  empty list stands at the commit point, and the list ends within the staleness
  bound after it. The flags alone (`PLTypeOK`) are not inductive: that a commit
  sets flags of mutations in the list only, and that the loop of pops ends, both
  rest on where the list is. The loop is a recursive function of the number of
  pops; what it leaves (`PopsState`) is proved by induction on that number.
- `PrepareListTypeCorrect`, `MakingRoomEnds`: `PLTypeOK` and `PopLoopEnds`.
- `PrepareFits`: `PrepareNeverRefused`, under `Staleness < MaxCount`. The flags'
  defaults are 20 and 110; the validator also accepts equal values, for which the
  statement is false (see the table above).
- `UncommittedStays`: the action property `UncommittedKept`.

**MutationQueue**, for every set of rows, capacity of the lock table, batch size
and limit of concurrent mutations:

- `QueueInvariant`: `QInv`. Besides types it says that the prepared mutations that
  are not applied are within the limit, which bounds the count that throttles, and
  that in the first term as primary each row with a mutation in two-phase commit
  has its lock, the row's first entry in the LRU list, at the largest such decree.
  Eviction stops at the first entry that is needed, whatever the capacity.
- `QueueTypeCorrect`, `AtomicStaysAlone`: `TypeOK`, `AtomicAlone`.
- `FirstTermReadsApplied`: `AtomicReadsApplied`, which is about the time before
  the first change of role. After one it does not hold (see the table above).

**FailureDetector**, for every set of meta servers and all periods with lease <
grace (a `CHECK` in `replica_stub.cpp`) and beacon timeout + check interval <=
lease (2 + 2 <= 20 seconds by default):

- `Invariance`: `TypeOK /\ FDInv`. `FDInv` orders the times: an outstanding ping
  is younger than its timeout, an acknowledged beacon was received by the leader
  no earlier than it was sent (`PingInv`, `LeaseInv`), the next check of a
  connected worker comes before its lease runs out (`LeaseInv`), and a worker
  declared dead has been silent for a grace (`GraceInv`).
- `Perfect`: `PerfectFD`, from these and lease < grace. It is what `Replication`
  relies on when it lets only disconnected nodes be declared dead.
- `LeaseNeverExpires`: `LeaseHonoured`, between two checks too.

**PartitionSplit**, for every group of servers and all budgets, the timing flags
included; the one assumption is that a budget says whether the table has other
partitions:

- `MetaInvariant`: `MetaTypes /\ CountInv /\ FreeInv`. `ChildCounted` is not
  inductive: `partition_count` is halved by the callback of a remote write that
  the last stopping partition began, so one has to know that there was no child
  when that write began and that none can come since. `CountInv` ties
  `splitting_count`, `partition_count`, the write under way and remote storage
  together; `FreeInv` says that a partition still in the split has no child, and
  that in a table being cancelled no partition has one. A cancel is accepted when
  all partitions are in the split, which by `FreeInv` is when there is no child
  at all. `MetaSplitProofs` has one lemma for each kind of step of the meta
  server, among them a new leader that reads remote storage.
- `ChildAlwaysCounted`: `ChildCounted`. The steps of the group leave the counts
  alone; a group check only adds a stop to be told, and a death changes a child's
  configuration and makes none.

Model-checked only: everything about `MetaPartition`, `Replication`, `Learning`
and `PrivateLog`, `AtomicReadsOwnWrites` of `MutationQueue`, and the other
properties of `PartitionSplit`. The liveness properties (`QueueDrains`,
`LearningEnds`, `SplitEnds`, `ParentServes`, `ChildServes`) are out of the
prover's reach, as is `ENABLED`.

## Not modelled

The models cover the replication protocol and what it rests on, which is a few
per cent of the lines of the repository; most of the rest is the storage engine,
the runtime, tools and clients.

- Opening and closing of replicas by several thread pools (`replica_stub.cpp`):
  the connection, config sync and the scatter task are in `Replication`.
- Bulk load, the duplication pipeline, backup and restore, disk migration: status
  machines of the meta server against reports of the replicas. Of duplication,
  the confirmed decree that holds back log collection is in `PrivateLog`.
- Creation, drop and recall of tables. The start and cancel of a split, and how a
  new leader reads a table that is split, are in `MetaSplit`.
- `reset_from` of the log, used by learners of duplicated tables, and what a
  write to a file handle does that a collection has closed.
- The balancer's computation; it appears as a move that may happen.
- In `Learning` and `PartitionSplit`, two-phase commit among the members that do
  not take part, and in `PartitionSplit` crashes that lose a log write: these are
  the subject of `Replication`. The modules are not composed with one another.
- A node that dies while its `UPGRADE_TO_PRIMARY` is being written becomes a dead
  primary until it restarts (`server_state.cpp:2355`); to say that it ends would
  need fairness of restarts, which nothing guarantees.
- What RocksDB, ZooKeeper and the rpc runtime do. They appear as the sequence of
  applied mutations, as a write that completes later, and as messages that may
  be lost or late.
- Clients, tools, security: no state that replication depends on.

## Plan

1. `ReplicaStub`: opening, closing, connecting and the tasks posted to replicas.
2. Tables: creation, drop and recall with a crash between two remote writes.
3. `BulkLoad` and `Duplication`, each as the status machine of the meta server
   against the reports of the replicas.
4. `Learning` inside `Replication`, so that members return.
5. Liveness of `Replication`: a partition with enough live nodes gets a primary
   and commits, under fairness of delivery, retries and restarts; an abstract
   specification of a partition (a log of committed values) for it to implement.
6. Proofs of the ballot and membership invariants of `MetaPartition`, and of the
   agreement of the replicas in `Replication` without crashes.
