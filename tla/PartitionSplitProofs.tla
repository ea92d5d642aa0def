------------------------ MODULE PartitionSplitProofs ------------------------
(***************************************************************************)
(* Proof that a registered child is always counted as a partition of its   *)
(* table (ChildCounted), for every group of servers and any number of      *)
(* pauses, restarts, cancels, deaths and failovers of the meta server.     *)
(***************************************************************************)
EXTENDS PartitionSplit, MetaSplitProofs

\* The steps that leave the meta server and the budget alone.
LEMMA QuietKeeps ==
  ASSUME IInv, NEW n,
         \/ on_prepare(n) \/ on_append_log_completed(n) \/ create_child_replica(n)
         \/ ConfigSyncAnswered(n) \/ on_config_sync(n) \/ GroupCheckTimer(n)
         \/ ChildTask(n) \/ ack_parent(n) \/ close_replica(n) \/ ChildConfigSync(n)
         \/ parent_check_sync_point_commit(n) \/ query_child_state(n)
         \/ on_update_child_group_partition_count_reply(n)
         \/ on_register_child_on_meta_reply \/ parent_send_register_request
  PROVE  IInv'
<1>1. UNCHANGED <<app, child, pending, writing, store, stops, budget>>
  <2>1. CASE on_prepare(n) BY <2>1 DEF on_prepare, metaVars
  <2>2. CASE on_append_log_completed(n) BY <2>2 DEF on_append_log_completed, metaVars
  <2>3. CASE create_child_replica(n) BY <2>3 DEF create_child_replica, metaVars
  <2>4. CASE ConfigSyncAnswered(n) BY <2>4 DEF ConfigSyncAnswered, metaVars
  <2>5. CASE on_config_sync(n) BY <2>5 DEF on_config_sync, metaVars
  <2>6. CASE GroupCheckTimer(n) BY <2>6 DEF GroupCheckTimer, metaVars
  <2>7. CASE ChildTask(n) BY <2>7 DEF ChildTask, metaVars
  <2>8. CASE ack_parent(n) BY <2>8 DEF ack_parent, metaVars
  <2>9. CASE close_replica(n) BY <2>9 DEF close_replica, metaVars
  <2>10. CASE ChildConfigSync(n) BY <2>10 DEF ChildConfigSync, metaVars
  <2>11. CASE parent_check_sync_point_commit(n) BY <2>11 DEF parent_check_sync_point_commit, metaVars
  <2>12. CASE query_child_state(n) BY <2>12 DEF query_child_state, metaVars
  <2>13. CASE on_update_child_group_partition_count_reply(n)
    BY <2>13 DEF on_update_child_group_partition_count_reply
  <2>14. CASE on_register_child_on_meta_reply BY <2>14 DEF on_register_child_on_meta_reply
  <2>15. CASE parent_send_register_request BY <2>15 DEF parent_send_register_request
  <2> QED BY <2>1, <2>2, <2>3, <2>4, <2>5, <2>6, <2>7, <2>8, <2>9, <2>10, <2>11, <2>12, <2>13,
             <2>14, <2>15
<1> QED BY <1>1, SameBudget, GroupKeeps DEF IInv

\* The steps that may spend from the budget.
LEMMA SpendingKeeps ==
  ASSUME IInv, NEW n,
         \/ on_client_write(n) \/ child_learn_states(n) \/ child_notify_catch_up(n)
         \/ Reconfigure(n) \/ RegisterTimeout
  PROVE  IInv'
<1>1. UNCHANGED <<app, child, pending, writing, store, stops>>
  BY DEF on_client_write, child_learn_states, child_notify_catch_up, Reconfigure, RegisterTimeout, metaVars
<1>2. UNCHANGED budget \/ \E what \in {"writes", "learnErrors", "lost", "reconfigs"} : Spend(what)
  <2>1. CASE on_client_write(n) BY <2>1 DEF on_client_write
  <2>2. CASE child_learn_states(n) BY <2>2 DEF child_learn_states
  <2>3. CASE child_notify_catch_up(n) BY <2>3 DEF child_notify_catch_up
  <2>4. CASE Reconfigure(n) BY <2>4 DEF Reconfigure
  <2>5. CASE RegisterTimeout BY <2>5 DEF RegisterTimeout
  <2> QED BY <2>1, <2>2, <2>3, <2>4, <2>5
<1>3. BudgetKept BY <1>2, SameBudget, SpendKeeps DEF IInv
<1> QED BY <1>1, <1>3, GroupKeeps

\* A group check tells the meta server of a stop only (trigger_secondary_parent_split).
LEMMA GroupCheckKeeps ==
  ASSUME IInv, NEW n, on_group_check(n)
  PROVE  IInv'
<1>1. UNCHANGED <<app, child, pending, writing, store, budget>> BY DEF on_group_check
<1>2. stops' \subseteq {"PAUSING", "CANCELING"}
  BY DEF on_group_check, IInv, MetaTypes
<1>3. BudgetKept BY <1>1, SameBudget DEF IInv
<1> QED BY <1>1, <1>2, <1>3 DEF IInv, MetaTypes, CountInv, FreeInv, Free, BudgetKept

\* A death changes the configuration of a child that is there, and makes none.
LEMMA DeathKeeps ==
  ASSUME IInv, NEW n, NodeDead(n)
  PROVE  IInv'
<1>1. /\ UNCHANGED <<app, pending, writing, stops>>
      /\ child = Null => child' = Null
      /\ store' = [store EXCEPT !.child = IF child # Null THEN child' ELSE @]
  BY DEF NodeDead
<1>2. BudgetKept BY SpendKeeps DEF NodeDead, IInv
<1>3. store' = [count |-> store.count, other |-> store.other,
                child |-> IF child # Null THEN child' ELSE store.child]
  BY <1>1 DEF IInv, MetaTypes
<1>4. MetaTypes' BY <1>1, <1>2, <1>3 DEF IInv, MetaTypes, BudgetKept
<1>5. CountInv' BY <1>1, <1>2, <1>3 DEF IInv, CountInv, BudgetKept
<1>6. FreeInv' BY <1>1, <1>3 DEF IInv, FreeInv, Free
<1> QED BY <1>4, <1>5, <1>6 DEF IInv

----------------------------------------------------------------------------
\* A table that is not being split.
LEMMA InitOK == Init => IInv
<1> SUFFICES ASSUME Init PROVE IInv OBVIOUS
<1>1. "others" \in DOMAIN budget /\ budget.others \in BOOLEAN
  BY BudgetsAssumption DEF Init
<1>2. /\ app = [count |-> 1, status |-> "NOT_SPLIT", other |-> "NOT_SPLIT", splitting |-> 0]
      /\ child = Null /\ pending = Null /\ stops = {} /\ writing = "no"
      /\ store = [count |-> 1, child |-> Null, other |-> FALSE]
  BY DEF Init, MetaInit
<1> QED BY <1>1, <1>2 DEF IInv, MetaTypes, AppType, CountInv, FreeInv, Free, InSplit, Statuses

\* Every step of the group and of the meta server preserves the invariant.
LEMMA StepOK == IInv /\ [Next]_vars => IInv'
<1> SUFFICES ASSUME IInv, [Next]_vars PROVE IInv' OBVIOUS
<1>1. CASE UNCHANGED vars
  BY <1>1, SameBudget, GroupKeeps DEF vars, metaVars, IInv
<1>2. CASE Meta BY <1>2, MetaStepKeeps DEF Meta
<1>3. CASE on_register_child_on_meta_reply \/ parent_send_register_request BY <1>3, QuietKeeps
<1>4. CASE RegisterTimeout BY <1>4, SpendingKeeps
<1>5. ASSUME NEW n \in Node, on_group_check(n) PROVE IInv' BY <1>5, GroupCheckKeeps
<1>6. ASSUME NEW n \in Node, NodeDead(n) PROVE IInv' BY <1>6, DeathKeeps
<1>7. ASSUME NEW n \in Node,
             \/ on_client_write(n) \/ child_learn_states(n) \/ child_notify_catch_up(n)
             \/ Reconfigure(n)
      PROVE  IInv'
  BY <1>7, SpendingKeeps
<1>8. ASSUME NEW n \in Node,
             \/ on_prepare(n) \/ on_append_log_completed(n) \/ create_child_replica(n)
             \/ ConfigSyncAnswered(n) \/ on_config_sync(n) \/ GroupCheckTimer(n)
             \/ ChildTask(n) \/ ack_parent(n) \/ close_replica(n) \/ ChildConfigSync(n)
             \/ parent_check_sync_point_commit(n) \/ query_child_state(n)
             \/ on_update_child_group_partition_count_reply(n)
      PROVE  IInv'
  BY <1>8, QuietKeeps
<1> QED BY <1>1, <1>2, <1>3, <1>4, <1>5, <1>6, <1>7, <1>8 DEF Next

\* The counts of the meta server agree with one another and with remote storage,
\* and a table that is being cancelled has no child (meta_split_service).
THEOREM MetaInvariant == Spec => []IInv
  BY InitOK, StepOK, PTL DEF Spec

\* A child that is registered, or being written, is counted as a partition of
\* its table, in memory and on remote storage: no cancel, late stop or new leader
\* halves partition_count under it.
THEOREM ChildAlwaysCounted == Spec => []ChildCounted
<1>1. IInv => ChildCounted
  BY DEF IInv, MetaTypes, AppType, FreeInv, Free, ChildCounted
<1> QED BY <1>1, MetaInvariant, PTL
=============================================================================
