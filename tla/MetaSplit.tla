------------------------------ MODULE MetaSplit ------------------------------
(***************************************************************************)
(* Partition split on the meta server (meta_split_service): the split      *)
(* states of a table, the configuration of one parent partition and of its *)
(* child, and the copy of them on remote storage.  The other partitions of *)
(* the table are one that obeys at once; partition_count is counted in     *)
(* parts of what the table had before.  The module is completed by         *)
(* PartitionSplit, which has the group that is split.                      *)
(***************************************************************************)
EXTENDS Integers, FiniteSets

CONSTANTS Node,    \* the replica servers of the group
          Null     \* no call, no configuration

VARIABLES app,      \* app_state: partition_count and split_states
          pc,       \* pcs[parent]: ballot, primary and members
          child,    \* pcs[child], Null while its ballot is invalid
          pending,  \* the child's configuration that is being written
          writing,  \* a write of app_info: "no", "start" or "cancel"
          store,    \* remote storage: the count, and which children are there
          call,     \* the register call of the primary parent
          stops,    \* notify_stop_split requests that were sent
          budget    \* what may still happen in this behaviour

metaVars == <<app, pc, child, pending, writing, store, call, stops>>

Statuses == {"NOT_SPLIT", "SPLITTING", "PAUSING", "PAUSED", "CANCELING"}

Spend(what) == budget[what] > 0 /\ budget' = [budget EXCEPT ![what] = @ - 1]

\* Partitions of the table beside the modelled one.
Others == IF budget.others THEN 1 ELSE 0

MetaInit ==
    /\ app = [count |-> 1, status |-> "NOT_SPLIT", other |-> "NOT_SPLIT", splitting |-> 0]
    /\ child = Null /\ pending = Null /\ call = Null /\ stops = {}
    /\ writing = "no"
    /\ store = [count |-> 1, child |-> Null, other |-> FALSE]

(***************************************************************************)
(* start_partition_split: app_info is written with twice the partitions,   *)
(* and the split states are set when the write is done.  One request at a  *)
(* time: the states that refuse a second one are set by the callback.      *)
(***************************************************************************)
start_partition_split ==
    /\ writing = "no" /\ app.count = 1 /\ app.splitting = 0
    /\ Spend("starts")
    /\ writing' = "start"
    /\ store' = [store EXCEPT !.count = 2]
    /\ UNCHANGED <<app, pc, child, pending, call, stops>>

do_start_partition_split ==
    /\ writing = "start"
    /\ writing' = "no"
    /\ app' = [count |-> app.count * 2, status |-> "SPLITTING", splitting |-> 1 + Others,
               other |-> IF budget.others THEN "SPLITTING" ELSE "NOT_SPLIT"]
    /\ child' = Null
    /\ UNCHANGED <<pc, pending, store, call, stops, budget>>

Answer(err, known) ==
    call' = [call EXCEPT !.stage = "reply", !.err = err,
                         !.pc = IF known THEN pc ELSE Null]

\* The checks of register_child_on_meta, in their order, with the answer of each.  A change
\* of the parent's configuration is one step here: only a registration is ever pending.
RegisterRefused(err, known) ==
    \/ call.b # pc.b /\ err = "INVALID_VERSION" /\ known
    \/ call.b = pc.b /\ pending # Null /\ err = "IO_PENDING" /\ ~known
    \/ /\ call.b = pc.b /\ pending = Null
       /\ \/ app.count = 1 /\ err = "INVALID_STATE" /\ known
          \/ app.count > 1 /\ app.status = "NOT_SPLIT" /\ err = "CHILD_REGISTERED" /\ known
          \/ /\ app.count > 1 /\ app.status \notin {"NOT_SPLIT", "SPLITTING"}
             /\ err = "INVALID_STATE" /\ ~known

\* A duplicated request must find the child registered, or the server stops.
RegisterCheckFails ==
    /\ call # Null /\ call.stage = "request" /\ call.b = pc.b /\ pending = Null
    /\ app.count > 1 /\ app.status = "NOT_SPLIT" /\ child = Null

\* A request to stop finds the count that it was sent for doubled.
StopCheckFails == "CANCELING" \in stops /\ app.status = "CANCELING" /\ app.count # 2

register_child_on_meta ==
    /\ call # Null /\ call.stage = "request"
    /\ \/ \E err \in {"INVALID_VERSION", "IO_PENDING", "INVALID_STATE", "CHILD_REGISTERED"},
             known \in BOOLEAN :
             /\ RegisterRefused(err, known)
             /\ Answer(err, known)
             /\ UNCHANGED <<app, pending, store>>
       \/ /\ call.b = pc.b /\ pending = Null
          /\ app.status = "SPLITTING"
          /\ app' = [app EXCEPT !.status = "NOT_SPLIT", !.splitting = @ - 1]
          /\ pending' = call.child
          /\ store' = [store EXCEPT !.child = call.child]
          /\ call' = [call EXCEPT !.stage = "writing"]
    /\ UNCHANGED <<pc, child, writing, stops, budget>>

\* Retried until the write is done; the answer goes to the call that is waiting.
on_add_child_on_remote_storage_reply ==
    /\ pending # Null
    /\ child' = pending
    /\ pending' = Null
    /\ IF call # Null /\ call.stage = "writing" THEN Answer("OK", TRUE) ELSE UNCHANGED call
    /\ UNCHANGED <<app, pc, writing, store, stops, budget>>

(***************************************************************************)
(* control_partition_split.  Pause and restart take one partition or all,  *)
(* cancel takes all and only before the first child is registered.         *)
(***************************************************************************)
do_control_single(old, new) ==
    /\ app.splitting > 0
    /\ app.status = old
    /\ app' = [app EXCEPT !.status = new]

do_control_all(old, new) ==
    /\ app.splitting > 0
    /\ old \in {app.status, app.other}
    /\ app' = [app EXCEPT !.status = IF @ = old THEN new ELSE @,
                          !.other = IF @ = old THEN new ELSE @]

\* Mutant: a cancel is accepted after a child is registered.
CancelSome ==
    /\ app.splitting > 0
    /\ app' = [app EXCEPT !.status = IF @ # "NOT_SPLIT" THEN "CANCELING" ELSE @,
                          !.other = IF @ # "NOT_SPLIT" THEN "CANCELING" ELSE @]

Cancel ==
    /\ app.splitting = 1 + Others
    /\ app' = [app EXCEPT !.status = "CANCELING",
                          !.other = IF @ # "NOT_SPLIT" THEN "CANCELING" ELSE @]

control_partition_split ==
    /\ \/ /\ Spend("pauses")
          /\ \/ do_control_single("SPLITTING", "PAUSING")
             \/ do_control_all("SPLITTING", "PAUSING")
       \/ /\ Spend("restarts")
          /\ \/ do_control_single("PAUSED", "SPLITTING")
             \/ do_control_all("PAUSED", "SPLITTING")
       \/ Spend("cancels") /\ Cancel
    /\ UNCHANGED <<pc, child, pending, writing, store, call, stops>>

\* Mutant: partition_count is halved for every partition that stops.
StoppedHalving(status, count) ==
    IF status = "PAUSING"
    THEN /\ app' = [app EXCEPT !.status = "PAUSED"]
         /\ UNCHANGED <<writing, store>>
    ELSE /\ app' = [app EXCEPT !.status = "NOT_SPLIT", !.splitting = @ - 1]
         /\ writing' = "cancel" /\ store' = [store EXCEPT !.count = count]

\* The last partition that stops halves partition_count, when that is written.
Stopped(status, count) ==
    IF status = "PAUSING"
    THEN /\ app' = [app EXCEPT !.status = "PAUSED"]
         /\ UNCHANGED <<writing, store>>
    ELSE /\ app' = [app EXCEPT !.status = "NOT_SPLIT", !.splitting = @ - 1]
         /\ IF app.splitting = 1
            THEN writing' = "cancel" /\ store' = [store EXCEPT !.count = count]
            ELSE UNCHANGED <<writing, store>>

\* A register request does not stay on its way while the group is stopped,
\* which takes two config syncs and a group check, unless budget.late says so.
notify_stop_split ==
    /\ budget.late \/ (call # Null => call.stage # "request")
    /\ \E status \in stops :
          /\ stops' = stops \ {status}
          /\ IF app.status = status
             THEN Stopped(status, 1)
             ELSE UNCHANGED <<app, writing, store>>
    /\ UNCHANGED <<pc, child, pending, call, budget>>

do_cancel_partition_split ==
    /\ writing = "cancel"
    /\ writing' = "no"
    /\ app' = [app EXCEPT !.count = @ \div 2]
    /\ UNCHANGED <<pc, child, pending, store, call, stops, budget>>

\* Another partition registers its child, or stops as it was told to.
OtherPartition ==
    /\ \/ /\ app.other = "SPLITTING"
          /\ app' = [app EXCEPT !.other = "NOT_SPLIT", !.splitting = @ - 1]
          /\ store' = [store EXCEPT !.other = TRUE]
          /\ UNCHANGED writing
       \/ /\ app.other = "PAUSING"
          /\ app' = [app EXCEPT !.other = "PAUSED"]
          /\ UNCHANGED <<writing, store>>
       \/ /\ app.other = "CANCELING"
          /\ app' = [app EXCEPT !.other = "NOT_SPLIT", !.splitting = @ - 1]
          /\ IF app.splitting = 1
             THEN writing' = "cancel" /\ store' = [store EXCEPT !.count = 1]
             ELSE UNCHANGED <<writing, store>>
    /\ UNCHANGED <<pc, child, pending, call, stops, budget>>

\* Mutant: every partition of the new count is taken for one that is split.
HalfDone(present) == "NOT_SPLIT"

(***************************************************************************)
(* A new leader reads the table: sync_apps_from_remote_storage.  Split     *)
(* states are not stored; a partition whose child is not on remote storage *)
(* is SPLITTING again, whatever an operator had asked for.                 *)
(***************************************************************************)
Half(present) == IF store.count = 2 /\ ~present THEN "SPLITTING" ELSE "NOT_SPLIT"

SyncedApp ==
    LET own   == Half(store.child # Null)
        other == IF budget.others THEN Half(store.other) ELSE "NOT_SPLIT"
    IN [count |-> store.count, status |-> own, other |-> other,
        splitting |-> Cardinality({p \in {<<1, own>>, <<2, other>>} : p[2] = "SPLITTING"})]

sync_apps_from_remote_storage ==
    /\ Spend("failovers")
    /\ app' = SyncedApp
    /\ child' = store.child
    /\ pending' = Null
    /\ writing' = "no"
    /\ call' = IF call # Null /\ call.stage # "reply" THEN [call EXCEPT !.stage = "lost"] ELSE call
    /\ UNCHANGED <<pc, store, stops>>

\* What the meta server does by itself: no requests of operators and no failover.
MetaDue ==
    \/ do_start_partition_split
    \/ register_child_on_meta
    \/ on_add_child_on_remote_storage_reply
    \/ notify_stop_split
    \/ do_cancel_partition_split
    \/ OtherPartition

MetaStep ==
    \/ MetaDue
    \/ start_partition_split
    \/ control_partition_split
    \/ sync_apps_from_remote_storage
=============================================================================
