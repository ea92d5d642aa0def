-------------------------- MODULE MetaSplitProofs --------------------------
(***************************************************************************)
(* What the steps of the meta server (MetaSplit) preserve, whatever the    *)
(* group that is split does: the counts of partitions agree with one       *)
(* another and with remote storage, and no partition of a table that is    *)
(* being cancelled has a child.  PartitionSplitProofs adds the group.      *)
(***************************************************************************)
EXTENDS MetaSplit, FiniteSetTheorems, TLAPS

InSplit(status) == IF status = "NOT_SPLIT" THEN 0 ELSE 1

\* No child of the table exists, or is being made.
Free == child = Null /\ pending = Null /\ store.child = Null /\ store.other = FALSE

AppType == [count : {1, 2}, status : Statuses, other : Statuses, splitting : {0, 1, 2}]

MetaTypes ==
    /\ app \in AppType
    /\ store = [count |-> store.count, child |-> store.child, other |-> store.other]
    /\ store.count \in {1, 2} /\ store.other \in BOOLEAN
    /\ writing \in {"no", "start", "cancel"}
    /\ stops \subseteq {"PAUSING", "CANCELING"}
    /\ "others" \in DOMAIN budget /\ budget.others \in BOOLEAN

\* splitting_count, partition_count and remote storage agree.
CountInv ==
    /\ app.splitting = InSplit(app.status) + InSplit(app.other)
    /\ ~budget.others => app.other = "NOT_SPLIT" /\ store.other = FALSE
    /\ app.count = 1 => app.splitting = 0
    /\ writing = "no" => store.count = app.count
    /\ writing = "start" => app.count = 1 /\ store.count = 2
    /\ writing = "cancel" => app.count = 2 /\ store.count = 1 /\ app.splitting = 0

\* Where there can be no child.
FreeInv ==
    /\ app.count = 1 \/ store.count = 1 => Free
    /\ app.status # "NOT_SPLIT" => child = Null /\ pending = Null /\ store.child = Null
    /\ app.other # "NOT_SPLIT" => store.other = FALSE
    /\ "CANCELING" \in {app.status, app.other} =>
          Free /\ {app.status, app.other} \subseteq {"CANCELING", "NOT_SPLIT"}

IInv == MetaTypes /\ CountInv /\ FreeInv

BudgetKept == "others" \in DOMAIN budget' /\ budget'.others = budget.others

----------------------------------------------------------------------------
\* Spending from a budget leaves alone whether the table has other partitions.
LEMMA SpendKeeps ==
  ASSUME MetaTypes, NEW what, what # "others", Spend(what)
  PROVE  BudgetKept
  BY DEF Spend, BudgetKept, MetaTypes

\* As does a step that leaves the budget alone.
LEMMA SameBudget ==
  ASSUME MetaTypes, UNCHANGED budget
  PROVE  BudgetKept
  BY DEF BudgetKept, MetaTypes

\* An update of one partition's state and of the count.
LEMMA StatusSet ==
  ASSUME app \in AppType, NEW s \in Statuses, NEW k \in {0, 1, 2}
  PROVE  /\ [app EXCEPT !.status = s, !.splitting = k] \in AppType
         /\ [app EXCEPT !.other = s, !.splitting = k] \in AppType
  BY DEF AppType

\* A step of the group that changes nothing the invariant speaks of preserves it.
LEMMA GroupKeeps ==
  ASSUME IInv, BudgetKept, UNCHANGED <<app, child, pending, writing, store, stops>>
  PROVE  IInv'
  BY DEF IInv, MetaTypes, CountInv, FreeInv, Free, BudgetKept

\* Two elements are two.
LEMMA PairCount ==
  ASSUME NEW a, NEW b, a # b
  PROVE  Cardinality({a, b}) = 2
<1>1. IsFiniteSet({a}) /\ Cardinality({a}) = 1 BY FS_Singleton
<1>2. {a, b} = {a} \cup {b} OBVIOUS
<1>3. b \notin {a} OBVIOUS
<1>4. Cardinality({a} \cup {b}) = Cardinality({a}) + 1 BY <1>1, <1>3, FS_AddElement
<1> QED BY <1>1, <1>2, <1>4

\* What sync_apps_from_remote_storage reads: as many partitions are counted as
\* splitting as have no child on remote storage.
LEMMA SyncedCount ==
  ASSUME MetaTypes
  PROVE  /\ SyncedApp \in AppType
         /\ SyncedApp.splitting = InSplit(SyncedApp.status) + InSplit(SyncedApp.other)
<1> DEFINE own   == Half(store.child # Null)
           other == IF budget.others THEN Half(store.other) ELSE "NOT_SPLIT"
           S     == {p \in {<<1, own>>, <<2, other>>} : p[2] = "SPLITTING"}
<1>1. own \in {"SPLITTING", "NOT_SPLIT"} /\ other \in {"SPLITTING", "NOT_SPLIT"}
  BY DEF Half
<1>2. SyncedApp = [count |-> store.count, status |-> own, other |-> other,
                   splitting |-> Cardinality(S)]
  BY DEF SyncedApp
<1>3. Cardinality(S) = InSplit(own) + InSplit(other)
  <2> HIDE DEF own, other
  <2>1. CASE own = "SPLITTING" /\ other = "SPLITTING"
    <3>1. S = {<<1, own>>, <<2, other>>} BY <2>1
    <3>2. <<1, own>> # <<2, other>> OBVIOUS
    <3> HIDE DEF S
    <3>3. Cardinality(S) = 2 BY <3>1, <3>2, PairCount
    <3> QED BY <2>1, <3>3 DEF InSplit
  <2>2. CASE own = "SPLITTING" /\ other = "NOT_SPLIT"
    <3>1. S = {<<1, own>>} BY <2>2
    <3> HIDE DEF S
    <3>2. Cardinality(S) = 1 BY <3>1, FS_Singleton
    <3> QED BY <2>2, <3>2 DEF InSplit
  <2>3. CASE own = "NOT_SPLIT" /\ other = "SPLITTING"
    <3>1. S = {<<2, other>>} BY <2>3
    <3> HIDE DEF S
    <3>2. Cardinality(S) = 1 BY <3>1, FS_Singleton
    <3> QED BY <2>3, <3>2 DEF InSplit
  <2>4. CASE own = "NOT_SPLIT" /\ other = "NOT_SPLIT"
    <3>1. S = {} BY <2>4
    <3> HIDE DEF S
    <3>2. Cardinality(S) = 0 BY <3>1, FS_EmptySet
    <3> QED BY <2>4, <3>2 DEF InSplit
  <2> QED BY <1>1, <2>1, <2>2, <2>3, <2>4
<1>4. Cardinality(S) \in {0, 1, 2} BY <1>3 DEF InSplit
<1> HIDE DEF own, other, S
<1> QED BY <1>1, <1>2, <1>3, <1>4 DEF MetaTypes, AppType, Statuses

----------------------------------------------------------------------------
(* The steps of the meta server.                                           *)

\* A split starts in a table that has no child.
LEMMA StartKeeps ==
  ASSUME IInv, start_partition_split \/ do_start_partition_split
  PROVE  IInv'
<1>1. CASE start_partition_split
  <2>1. BudgetKept BY <1>1, SpendKeeps DEF start_partition_split, IInv
  <2>2. UNCHANGED <<app, child, pending, stops>> /\ writing = "no" /\ writing' = "start"
        /\ store' = [store EXCEPT !.count = 2] /\ app.count = 1
    BY <1>1 DEF start_partition_split
  <2> QED BY <2>1, <2>2 DEF IInv, MetaTypes, AppType, CountInv, FreeInv, Free, InSplit, BudgetKept, Statuses
<1>2. CASE do_start_partition_split
  <2>1. BudgetKept BY <1>2, SameBudget DEF do_start_partition_split, IInv
  <2>2. MetaTypes'
    BY <1>2, <2>1 DEF do_start_partition_split, IInv, MetaTypes, AppType, CountInv, BudgetKept, Statuses, Others
  <2>3. CountInv'
    BY <1>2, <2>1 DEF do_start_partition_split, IInv, MetaTypes, AppType, CountInv, FreeInv, Free, BudgetKept,
                      InSplit, Others
  <2>4. FreeInv'
    BY <1>2, <2>1 DEF do_start_partition_split, IInv, MetaTypes, AppType, CountInv, FreeInv, Free
  <2> QED BY <2>2, <2>3, <2>4 DEF IInv
<1> QED BY <1>1, <1>2

\* A child is registered only for a partition that is SPLITTING, and so not
\* in a table that is being cancelled.
LEMMA RegisterKeeps ==
  ASSUME IInv, register_child_on_meta \/ on_add_child_on_remote_storage_reply
  PROVE  IInv'
<1>1. BudgetKept
  BY SameBudget DEF register_child_on_meta, on_add_child_on_remote_storage_reply, IInv
<1>2. CASE register_child_on_meta
  <2>1. CASE UNCHANGED <<app, pending, store>>
    BY <1>1, <1>2, <2>1, GroupKeeps DEF register_child_on_meta
  <2>2. CASE /\ app.status = "SPLITTING"
             /\ app' = [app EXCEPT !.status = "NOT_SPLIT", !.splitting = @ - 1]
             /\ pending' = call.child
             /\ store' = [store EXCEPT !.child = call.child]
    <3>1. UNCHANGED <<child, writing, stops>> BY <1>2 DEF register_child_on_meta
    <3>2. MetaTypes'
      <4>1. app.splitting \in {1, 2} BY <2>2 DEF IInv, MetaTypes, AppType, CountInv, InSplit, Statuses
      <4>2. app' \in AppType
        <5>1. app.splitting - 1 \in {0, 1, 2} BY <4>1
        <5> QED BY <2>2, <5>1, StatusSet DEF IInv, MetaTypes, Statuses
      <4>3. store' = [count |-> store.count, child |-> call.child, other |-> store.other]
        BY <2>2 DEF IInv, MetaTypes, AppType
      <4> QED BY <1>1, <3>1, <4>2, <4>3 DEF IInv, MetaTypes, BudgetKept
    <3>3. CountInv'
      BY <1>1, <2>2, <3>1 DEF IInv, MetaTypes, AppType, CountInv, InSplit, BudgetKept
    <3>4. FreeInv'
      BY <2>2, <3>1 DEF IInv, MetaTypes, AppType, CountInv, FreeInv, Free, InSplit
    <3> QED BY <3>2, <3>3, <3>4 DEF IInv
  <2> QED BY <1>2, <2>1, <2>2 DEF register_child_on_meta
<1>3. CASE on_add_child_on_remote_storage_reply
  <2>1. /\ pending # Null /\ child' = pending /\ pending' = Null
        /\ UNCHANGED <<app, writing, store, stops>>
    BY <1>3 DEF on_add_child_on_remote_storage_reply
  <2> QED BY <1>1, <2>1 DEF IInv, MetaTypes, CountInv, FreeInv, Free, BudgetKept
<1> QED BY <1>2, <1>3

\* Pauses and restarts change no partition that is cancelled, and a cancel is
\* refused unless every partition is still splitting.
LEMMA ControlKeeps ==
  ASSUME IInv, control_partition_split
  PROVE  IInv'
<1>1. BudgetKept BY SpendKeeps DEF control_partition_split, IInv
<1>2. UNCHANGED <<child, pending, writing, store, stops>> BY DEF control_partition_split
<1>3. ASSUME NEW old \in {"SPLITTING", "PAUSED"}, NEW new \in {"PAUSING", "SPLITTING"},
             do_control_single(old, new) \/ do_control_all(old, new)
      PROVE  IInv'
  <2>1. MetaTypes'
    BY <1>1, <1>2, <1>3 DEF do_control_single, do_control_all, IInv, MetaTypes, AppType, BudgetKept, Statuses
  <2>2. CountInv'
    BY <1>1, <1>2, <1>3 DEF do_control_single, do_control_all, IInv, MetaTypes, AppType, CountInv, InSplit, BudgetKept
  <2>3. FreeInv'
    BY <1>2, <1>3 DEF do_control_single, do_control_all, IInv, MetaTypes, AppType, FreeInv, Free
  <2> QED BY <2>1, <2>2, <2>3 DEF IInv
<1>4. CASE Cancel
  <2>1. MetaTypes'
    BY <1>1, <1>2, <1>4 DEF Cancel, IInv, MetaTypes, AppType, BudgetKept, Statuses
  <2>2. CountInv'
    BY <1>1, <1>2, <1>4 DEF Cancel, IInv, MetaTypes, AppType, CountInv, InSplit, BudgetKept, Others
  <2>3. app.status # "NOT_SPLIT" /\ (budget.others => app.other # "NOT_SPLIT")
    BY <1>4 DEF Cancel, IInv, MetaTypes, AppType, CountInv, InSplit, Others
  <2>4. Free
    BY <2>3 DEF IInv, MetaTypes, AppType, CountInv, FreeInv, Free
  <2>5. FreeInv'
    BY <1>2, <1>4, <2>4 DEF Cancel, IInv, MetaTypes, AppType, FreeInv, Free
  <2> QED BY <2>1, <2>2, <2>5 DEF IInv
<1> QED BY <1>3, <1>4 DEF control_partition_split

\* The last partition that stops is the one that has partition_count halved; it
\* was CANCELING, so no partition of the table has a child.
LEMMA StoppedKeeps ==
  ASSUME IInv, BudgetKept, UNCHANGED <<child, pending>>, stops' \subseteq stops,
         NEW own \in BOOLEAN,
         IF own THEN app.status = "CANCELING" ELSE app.other = "CANCELING",
         app' = IF own THEN [app EXCEPT !.status = "NOT_SPLIT", !.splitting = @ - 1]
                       ELSE [app EXCEPT !.other = "NOT_SPLIT", !.splitting = @ - 1],
         IF app.splitting = 1
         THEN writing' = "cancel" /\ store' = [store EXCEPT !.count = 1]
         ELSE UNCHANGED <<writing, store>>
  PROVE  IInv'
<1>1. app.splitting \in {1, 2} BY DEF IInv, MetaTypes, AppType, CountInv, InSplit, Statuses
<1>2. Free /\ {app.status, app.other} \subseteq {"CANCELING", "NOT_SPLIT"}
  BY DEF IInv, FreeInv
<1>3. app.count = 2 BY <1>1 DEF IInv, MetaTypes, AppType, CountInv
<1>4. app' \in AppType
  <2>1. app.splitting - 1 \in {0, 1, 2} BY <1>1
  <2> QED BY <2>1, StatusSet DEF IInv, MetaTypes, Statuses
<1>5. store' \in {store, [count |-> 1, child |-> store.child, other |-> store.other]}
  BY DEF IInv, MetaTypes
<1>6. /\ app'.count = 2 /\ app'.splitting = app.splitting - 1
      /\ app'.status = IF own THEN "NOT_SPLIT" ELSE app.status
      /\ app'.other = IF own THEN app.other ELSE "NOT_SPLIT"
  BY <1>3 DEF IInv, MetaTypes, AppType
<1>7. MetaTypes'
  BY <1>4, <1>5 DEF IInv, MetaTypes, BudgetKept
<1>8. CountInv'
  <2>1. app'.splitting = InSplit(app'.status) + InSplit(app'.other)
    BY <1>1, <1>6 DEF IInv, MetaTypes, AppType, CountInv, InSplit
  <2>2. ~budget'.others => app'.other = "NOT_SPLIT" /\ store'.other = FALSE
    BY <1>2, <1>5, <1>6 DEF IInv, CountInv, BudgetKept, Free
  <2>3. writing = "no" BY <1>1, <1>3 DEF IInv, MetaTypes, AppType, CountInv
  <2>4. /\ writing' = "no" => store'.count = app'.count
        /\ writing' = "start" => app'.count = 1 /\ store'.count = 2
        /\ writing' = "cancel" => app'.count = 2 /\ store'.count = 1 /\ app'.splitting = 0
    BY <1>1, <1>3, <1>6, <2>3 DEF IInv, MetaTypes, AppType, CountInv
  <2> QED BY <1>6, <2>1, <2>2, <2>4 DEF CountInv
<1>9. FreeInv'
  <2>1. Free' BY <1>2, <1>5 DEF Free
  <2> QED BY <1>2, <1>6, <2>1 DEF FreeInv, Free
<1> QED BY <1>7, <1>8, <1>9 DEF IInv

\* What notify_stop_split and the end of a cancel leave.
LEMMA StopKeeps ==
  ASSUME IInv, notify_stop_split \/ do_cancel_partition_split
  PROVE  IInv'
<1>1. BudgetKept
  BY SameBudget DEF notify_stop_split, do_cancel_partition_split, IInv
<1>2. CASE notify_stop_split
  <2>1. PICK status \in stops :
           /\ stops' = stops \ {status}
           /\ IF app.status = status THEN Stopped(status, 1) ELSE UNCHANGED <<app, writing, store>>
    BY <1>2 DEF notify_stop_split
  <2>2. UNCHANGED <<child, pending>> BY <1>2 DEF notify_stop_split
  <2>3. status \in {"PAUSING", "CANCELING"} BY DEF IInv, MetaTypes
  <2>4. CASE app.status # status
    BY <1>1, <2>1, <2>2, <2>4 DEF IInv, MetaTypes, CountInv, FreeInv, Free, BudgetKept
  <2>5. CASE app.status = status /\ status = "PAUSING"
    <3>1. app' = [app EXCEPT !.status = "PAUSED"] /\ UNCHANGED <<writing, store>>
      BY <2>1, <2>5 DEF Stopped
    <3>2. MetaTypes' BY <1>1, <2>1, <3>1 DEF IInv, MetaTypes, AppType, BudgetKept, Statuses
    <3>3. CountInv' BY <1>1, <2>5, <3>1 DEF IInv, MetaTypes, AppType, CountInv, InSplit, BudgetKept
    <3>4. FreeInv' BY <2>2, <2>5, <3>1 DEF IInv, MetaTypes, AppType, FreeInv, Free
    <3> QED BY <3>2, <3>3, <3>4 DEF IInv
  <2>6. CASE app.status = status /\ status = "CANCELING"
    <3>1. /\ app' = [app EXCEPT !.status = "NOT_SPLIT", !.splitting = @ - 1]
          /\ IF app.splitting = 1 THEN writing' = "cancel" /\ store' = [store EXCEPT !.count = 1]
                                  ELSE UNCHANGED <<writing, store>>
      BY <2>1, <2>6 DEF Stopped
    <3>2. stops' \subseteq stops BY <2>1
    <3> QED BY <1>1, <2>2, <2>6, <3>1, <3>2, StoppedKeeps
  <2> QED BY <2>3, <2>4, <2>5, <2>6
<1>3. CASE do_cancel_partition_split
  <2>1. /\ writing = "cancel" /\ writing' = "no"
        /\ app' = [app EXCEPT !.count = @ \div 2]
        /\ UNCHANGED <<child, pending, store, stops>>
    BY <1>3 DEF do_cancel_partition_split
  <2>2. app.count = 2 /\ app.count \div 2 = 1 /\ store.count = 1 /\ app.splitting = 0
    BY <2>1 DEF IInv, CountInv
  <2>3. app' = [app EXCEPT !.count = 1] BY <2>1, <2>2
  <2>4. MetaTypes' BY <1>1, <2>1, <2>3 DEF IInv, MetaTypes, AppType, BudgetKept
  <2>5. CountInv' BY <1>1, <2>1, <2>2, <2>3 DEF IInv, MetaTypes, AppType, CountInv, BudgetKept
  <2>6. FreeInv' BY <2>1, <2>2, <2>3 DEF IInv, MetaTypes, AppType, FreeInv, Free
  <2> QED BY <2>4, <2>5, <2>6 DEF IInv
<1> QED BY <1>2, <1>3

\* The other partitions register, pause or stop.
LEMMA OtherKeeps ==
  ASSUME IInv, OtherPartition
  PROVE  IInv'
<1>1. BudgetKept BY SameBudget DEF OtherPartition, IInv
<1>2. UNCHANGED <<child, pending, stops>> BY DEF OtherPartition
<1>3. CASE /\ app.other = "SPLITTING"
           /\ app' = [app EXCEPT !.other = "NOT_SPLIT", !.splitting = @ - 1]
           /\ store' = [store EXCEPT !.other = TRUE]
           /\ UNCHANGED writing
  <2>1. app.splitting \in {1, 2} BY <1>3 DEF IInv, MetaTypes, AppType, CountInv, InSplit, Statuses
  <2>2. app' \in AppType
    <3>1. app.splitting - 1 \in {0, 1, 2} BY <2>1
    <3> QED BY <1>3, <3>1, StatusSet DEF IInv, MetaTypes, Statuses
  <2>3. store' = [count |-> store.count, child |-> store.child, other |-> TRUE]
    BY <1>3 DEF IInv, MetaTypes
  <2>4. budget.others BY <1>3 DEF IInv, CountInv
  <2>5. MetaTypes' BY <1>1, <1>2, <1>3, <2>2, <2>3 DEF IInv, MetaTypes, BudgetKept
  <2>6. CountInv'
    BY <1>1, <1>3, <2>1, <2>3, <2>4 DEF IInv, MetaTypes, AppType, CountInv, InSplit, BudgetKept
  <2>7. app.count = 2 /\ writing = "no" /\ store.count = 2
    BY <2>1 DEF IInv, MetaTypes, AppType, CountInv
  <2>8. app.status # "CANCELING" BY <1>3 DEF IInv, FreeInv
  <2>9. FreeInv'
    BY <1>2, <1>3, <2>3, <2>7, <2>8 DEF IInv, MetaTypes, AppType, FreeInv, Free
  <2> QED BY <2>5, <2>6, <2>9 DEF IInv
<1>4. CASE /\ app.other = "PAUSING"
           /\ app' = [app EXCEPT !.other = "PAUSED"]
           /\ UNCHANGED <<writing, store>>
  <2>1. MetaTypes' BY <1>1, <1>2, <1>4 DEF IInv, MetaTypes, AppType, BudgetKept, Statuses
  <2>2. CountInv' BY <1>1, <1>4 DEF IInv, MetaTypes, AppType, CountInv, InSplit, BudgetKept
  <2>3. FreeInv' BY <1>2, <1>4 DEF IInv, MetaTypes, AppType, FreeInv, Free
  <2> QED BY <2>1, <2>2, <2>3 DEF IInv
<1>5. CASE /\ app.other = "CANCELING"
           /\ app' = [app EXCEPT !.other = "NOT_SPLIT", !.splitting = @ - 1]
           /\ IF app.splitting = 1 THEN writing' = "cancel" /\ store' = [store EXCEPT !.count = 1]
                                   ELSE UNCHANGED <<writing, store>>
  BY <1>1, <1>2, <1>5, StoppedKeeps
<1> QED BY <1>3, <1>4, <1>5 DEF OtherPartition

\* A new leader has the counts of remote storage, and no partition of it is
\* being cancelled.
LEMMA FailoverKeeps ==
  ASSUME IInv, sync_apps_from_remote_storage
  PROVE  IInv'
<1>1. BudgetKept BY SpendKeeps DEF sync_apps_from_remote_storage, IInv
<1>2. /\ app' = SyncedApp /\ child' = store.child /\ pending' = Null /\ writing' = "no"
      /\ UNCHANGED <<store, stops>>
  BY DEF sync_apps_from_remote_storage
<1>3. SyncedApp \in AppType /\ SyncedApp.splitting = InSplit(SyncedApp.status) + InSplit(SyncedApp.other)
  BY SyncedCount DEF IInv
<1>4. /\ SyncedApp.count = store.count
      /\ SyncedApp.status = IF store.count = 2 /\ store.child = Null THEN "SPLITTING" ELSE "NOT_SPLIT"
      /\ SyncedApp.other = IF budget.others /\ store.count = 2 /\ ~store.other
                           THEN "SPLITTING" ELSE "NOT_SPLIT"
  BY DEF SyncedApp, Half, IInv, MetaTypes
<1>5. MetaTypes' BY <1>1, <1>2, <1>3 DEF IInv, MetaTypes, BudgetKept
<1>6. CountInv'
  BY <1>1, <1>2, <1>3, <1>4 DEF IInv, MetaTypes, CountInv, InSplit, BudgetKept
<1>7. FreeInv'
  BY <1>2, <1>4 DEF IInv, MetaTypes, FreeInv, Free
<1> QED BY <1>5, <1>6, <1>7 DEF IInv

\* No step of the meta server breaks the invariant.
LEMMA MetaStepKeeps ==
  ASSUME IInv, MetaStep
  PROVE  IInv'
  BY StartKeeps, RegisterKeeps, ControlKeeps, StopKeeps, OtherKeeps, FailoverKeeps
     DEF MetaStep, MetaDue
=============================================================================
