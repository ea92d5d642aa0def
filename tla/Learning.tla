------------------------------ MODULE Learning ------------------------------
(***************************************************************************)
(* How a new replica, the learner, is brought up to date and becomes a     *)
(* secondary: replica_learn.cpp, with the parts of the two-phase commit    *)
(* (replica_2pc.cpp), of the group check (replica_check.cpp) and of the    *)
(* reconfiguration (replica_config.cpp) that it runs together with.        *)
(*                                                                         *)
(* There is one learner.  The primary is one of Nodes, the other full      *)
(* members are not modelled one by one: they acknowledge a prepare         *)
(* (SecondariesAck) and one of them can take over (Failover).              *)
(***************************************************************************)
EXTENDS Integers, Sequences, FiniteSets, SequencesExt, FiniteSetsExt

CONSTANTS Nodes,          \* the full members that can be primary
          Null,           \* no mutation, no task, no learner entry
          MaxDecree,      \* decrees are 1..MaxDecree
          MaxBallot,      \* ballots are 1..MaxBallot
          Capacity,       \* max_mutation_count_in_prepare_list
          InitCommitted,  \* decrees committed before the learner is added
          Budgets         \* what the environment may do in one behaviour: adds
                          \* (ADD_SECONDARY proposals), faults (timeouts, failures),
                          \* decree and ballot (the largest ones), late (whether a
                          \* request whose caller gave up may still arrive)

VARIABLES prim,       \* the replica that is primary
          learner,    \* the replica that learns
          pc,         \* the meta server's configuration: ballot, is it a member
          leader,     \* leader[b]: the primary of ballot b
          calls,      \* prepare messages to the learner, and their answers
          adds,       \* RPC_LEARN_ADD_LEARNER messages, one way
          check,      \* the pending group check of the learner
          late,       \* learn and notify requests their caller gave up
          committed,  \* every decree committed so far (history)
          budget      \* what is left of the chosen budget

vars == <<prim, learner, pc, leader, calls, adds, check, late, committed, budget>>

Decree == 1..MaxDecree
Ballot == 1..MaxBallot

\* A new decree carries the ballot that first proposed it as its value, which
\* tells apart what two primaries put at one decree.
Empty == [d \in Decree |-> Null]

\* F(x) with x evaluated once, also where TLC evaluates ENABLED.
With(x, F(_)) == CHOOSE r \in {F(y) : y \in {x}} : TRUE

Present(list) == {d \in Decree : list[d] # Null}

----------------------------------------------------------------------------
(* The prepare list of the primary.  p.lo is the lowest decree it caches:  *)
(* Len(p.app) + 1 when no committed mutation is left in it.                *)

Entry(p) == p.entry[p.node]

last_prepared_decree(p) ==
    Max({Len(p.app)} \cup
        {d \in Decree : \A e \in Len(p.app) + 1 .. d : p.list[e] # Null /\ p.list[e].logged})

max_decree(p) == Max({Len(p.app)} \cup Present(p.list))

\* A commit stops at a mutation of a smaller ballot than the one before it.
Ascends(list, lcd, e) == e = lcd + 1 \/ list[e - 1].ballot <= list[e].ballot

is_ready_for_commit(mu) == mu # Null /\ mu.logged /\ mu.acked /\ ~mu.left

\* The end of the run of ready mutations that starts after the committed ones.
ReadyEnd(p) ==
    Max({Len(p.app)} \cup
        {d \in Decree : \A e \in Len(p.app) + 1 .. d :
                           is_ready_for_commit(p.list[e]) /\ Ascends(p.list, Len(p.app), e)})

CommitTo(p, d) ==
    [p EXCEPT !.app = @ \o [i \in 1..(d - Len(@)) |-> p.list[Len(p.app) + i].val]]

do_possible_commit_on_primary(p, d) ==
    IF d = Len(p.app) + 1 THEN CommitTo(p, ReadyEnd(p)) ELSE p

SentToLearner(p, d) ==
    \/ p.secondary
    \/ Entry(p) # Null /\ Entry(p).psd # 0 /\ d >= Entry(p).psd

init_prepare(p, d, v) ==
    LET lo == Max({p.lo, Min({d - Capacity + 1, Len(p.app)})})
        mu == [val |-> v, ballot |-> p.ballot, lcd |-> Len(p.app),
               logged |-> FALSE, acked |-> FALSE, left |-> SentToLearner(p, d)]
    IN  [p EXCEPT !.lo = lo,
                  !.list = [e \in Decree |-> IF e = d THEN mu
                                             ELSE IF e < lo THEN Null ELSE @[e]]]

\* Every mutation that is not committed is prepared again under p.ballot.
replay_prepare_list(p) ==
    [p EXCEPT !.list = [d \in Decree |->
        IF d > Len(p.app) /\ p.list[d] # Null
        THEN [val |-> p.list[d].val, ballot |-> p.ballot, lcd |-> Len(p.app),
              logged |-> FALSE, acked |-> FALSE, left |-> SentToLearner(p, d)]
        ELSE @[d]]]

send_prepare_message(p, d) ==
    [decree |-> d, val |-> p.list[d].val, ballot |-> p.ballot, lcd |-> p.list[d].lcd,
     st |-> IF p.secondary THEN "SECONDARY" ELSE "PS",
     sig |-> IF p.secondary \/ Entry(p) = Null THEN 0 ELSE Entry(p).sig,
     stage |-> "sent", live |-> TRUE]

Replayed(p) ==
    {send_prepare_message(p, d) :
        d \in {e \in Len(p.app) + 1 .. max_decree(p) : p.list[e] # Null /\ p.list[e].left}}

\* The callbacks of calls are cancelled; one still on its way may arrive.
Cancelled(cs) ==
    {[c EXCEPT !.live = FALSE] : c \in {x \in cs : x.stage = "sent" /\ budget.late}}

----------------------------------------------------------------------------
(* The learner: its prepare list, its app and its private log.             *)

Truncate(l, d) ==
    [l EXCEPT !.lcd = d, !.list = [e \in Decree |-> IF e <= d THEN Null ELSE @[e]]]

AppliesToApp(l) == l.status = "SECONDARY" \/ l.lst \in {"Succeeded", "Transient"}

\* prepare_list::commit with COMMIT_TO_DECREE_HARD and execute_mutation: the
\* CHECKs fail when a mutation is missing or not logged.
HardCommit(l, d) ==
    LET new == l.lcd + 1 .. d
        held == \A e \in new : l.list[e] # Null /\ l.list[e].logged
    IN  IF d <= l.lcd THEN l
        ELSE IF \/ ~held
                \/ \E e \in new \ {d} : l.list[e].ballot > l.list[e + 1].ballot
                \/ AppliesToApp(l) /\ Len(l.app) # l.lcd
        THEN [l EXCEPT !.failed = TRUE]
        ELSE [l EXCEPT !.lcd = d,
                       !.app = IF AppliesToApp(l)
                               THEN @ \o [i \in 1..(d - l.lcd) |-> l.list[l.lcd + i].val]
                               ELSE @]

\* prepare_list::prepare as a secondary: commit what the mutation says is
\* committed, make room, put it.
Put(a, mu, logged) ==
    LET kept == [e \in Decree |-> IF e < a.lcd /\ e <= mu.decree - Capacity
                                  THEN Null ELSE a.list[e]]
        ds == Present(kept) \cup {mu.decree}
    IN  IF \/ mu.decree <= a.lcd
           \/ Max(ds) - Min(ds) >= Capacity
           \/ kept[mu.decree] # Null /\ kept[mu.decree].ballot > mu.ballot
        THEN [a EXCEPT !.failed = TRUE]
        ELSE [a EXCEPT !.list = [kept EXCEPT ![mu.decree] =
                 [val |-> mu.val, ballot |-> mu.ballot, lcd |-> mu.lcd, logged |-> logged]]]

Prepare(l, mu, logged) ==
    With(HardCommit(l, mu.lcd), LAMBDA a : Put(a, mu, logged))

\* apply_learned_state_from_private_log: the mutations of a log go through a
\* temporary prepare list into the app; to is to_decree_included.
ReplayMutation(t, mu) ==
    IF mu.decree <= t.lcd \/ (t.list[mu.decree] # Null /\ t.list[mu.decree].ballot >= mu.ballot)
    THEN t ELSE Prepare(t, mu, TRUE)

\* Mutant: whatever the log holds is committed.
SoftCommitAll(t, to) ==
    HardCommit(t, Max({t.lcd} \cup {d \in t.lcd + 1 .. MaxDecree :
                                       \A e \in t.lcd + 1 .. d : t.list[e] # Null}))

SoftCommit(t, to) ==
    HardCommit(t, Max({t.lcd} \cup {d \in t.lcd + 1 .. to :
                                       \A e \in t.lcd + 1 .. d :
                                           t.list[e] # Null /\ Ascends(t.list, t.lcd, e)}))

ReplayInto(l, log, to) ==
    LET step(t, mu) == With(t, LAMBDA x : ReplayMutation(x, mu))
        tmp == FoldLeft(step, [l EXCEPT !.status = "SECONDARY", !.list = Empty,
                                        !.lcd = Len(l.app)], log)
        end(t) == IF to > l.lcd THEN SoftCommit(t, to) ELSE t
    IN  With(With(tmp, end), LAMBDA t : [l EXCEPT !.app = t.app, !.failed = t.failed])

\* potential_secondary_context::cleanup: a task that has not started is cancelled.
\* It gives up while the copied files or the private log are being applied, but
\* has cancelled the other tasks by then.
CanClean(l) == ~l.running
CancelTasks(l) ==
    [l EXCEPT !.learn = Null, !.notify = Null, !.done = Null, !.delay = 0]
cleanup(l) ==
    [CancelTasks(l) EXCEPT !.ver = 0, !.round = FALSE, !.psd = 0, !.lst = "Invalid",
                           !.copy = Null, !.catchup = FALSE, !.running = FALSE]

\* The result has status s and ballot b unless the change is refused.
update_local_configuration(l, b, s) ==
    LET n == [l EXCEPT !.status = s, !.ballot = b,
                       !.initd = IF b > l.ballot THEN l.durable ELSE @]
    IN  CASE l.status = s /\ l.ballot = b -> l
          [] l.status = "ERROR" -> l
          [] l.status = "INACTIVE" /\ s = "SECONDARY" -> l
          [] l.status = "PS" /\ s = "INACTIVE" /\ ~CanClean(l) -> CancelTasks(l)
          [] l.status = "PS" /\ s = "INACTIVE" /\ CanClean(l) -> cleanup(n)
          [] l.status = "PS" /\ s = "SECONDARY" -> cleanup(Truncate(n, Len(l.app)))
          [] l.status = "PS" /\ s = "ERROR" -> cleanup([n EXCEPT !.list = Empty,
                                                                 !.lcd = Len(l.app)])
          [] l.status = "SECONDARY" /\ s = "PS" -> [n EXCEPT !.lst = "WithoutPrepare"]
          [] OTHER -> n

handle_learning_error(l, local) ==
    update_local_configuration(l, l.ballot, IF local THEN "ERROR" ELSE "INACTIVE")

notify_learn_completion(l) ==
    [l EXCEPT !.lst = "Succeeded", !.notify =
                  [to |-> leader[l.ballot], sig |-> l.ver, stage |-> "sent", err |-> "OK"]]

\* busy: too many replicas of this server copy a checkpoint already; one with an
\* empty app waits for the next group check.
StartRound(l, busy) ==
    IF busy /\ l.app = <<>> THEN l ELSE
    [l EXCEPT !.round = TRUE,
              !.learn = [to |-> leader[l.ballot], sig |-> l.ver, app |-> Len(l.app),
                         stage |-> "sent", resp |-> Null]]

\* The missed commits are applied from the prepare list when it still has them.
CoveredByList(l) ==
    Present(l.list) # {} /\ Len(l.app) + 1 >= Min(Present(l.list))

init_learn(l, sig, busy) ==
    CASE l.status # "PS" \/ sig = 0 \/ l.round \/ sig < l.ver -> l
      [] l.status = "PS" /\ sig > l.ver /\ ~l.round /\ ~CanClean(l) -> CancelTasks(l)
      [] l.status = "PS" /\ sig > l.ver /\ ~l.round /\ CanClean(l) ->
             StartRound([Truncate(cleanup(l), Len(l.app)) EXCEPT
                            !.ver = sig, !.lst = "WithoutPrepare"], busy)
      [] OTHER ->
             CASE l.lst = "WithoutPrepare" -> StartRound(l, busy)
               [] l.lst = "Succeeded" -> notify_learn_completion(l)
               [] l.lst = "WithPrepare" /\ l.durable + 1 < l.psd -> [l EXCEPT !.failed = TRUE]
               [] l.lst = "WithPrepare" /\ l.durable + 1 >= l.psd ->
                      IF l.lcd <= Len(l.app) THEN notify_learn_completion(l)
                      ELSE IF CoveredByList(l)
                      THEN notify_learn_completion([l EXCEPT !.app =
                               @ \o [i \in 1..(l.lcd - Len(@)) |-> l.list[Len(l.app) + i].val]])
                      ELSE [l EXCEPT !.round = TRUE, !.catchup = TRUE]
               [] OTHER -> [l EXCEPT !.failed = TRUE]

----------------------------------------------------------------------------
(* The primary's side of the 2PC and of the reconfiguration.               *)

SetPrim(new) ==
    \E p \in {new} :
        /\ prim' = p
        /\ committed' = IF Len(p.app) > Len(committed) THEN p.app ELSE committed

\* The requests a change of the learner's tasks leaves behind.
Abandoned(l, m) ==
    {[type |-> "learn", to |-> l.learn.to, sig |-> l.learn.sig, app |-> l.learn.app] :
        x \in {y \in {1} : l.learn # Null /\ l.learn # m.learn /\ l.learn.stage = "sent"}}
    \cup
    {[type |-> "notify", to |-> l.notify.to, sig |-> l.notify.sig, app |-> 0] :
        x \in {y \in {1} : l.notify # Null /\ l.notify # m.notify /\ l.notify.stage = "sent"}}

SetLearner(new) ==
    \E l \in {new} :
        /\ learner' = l
        /\ late' = IF budget.late THEN late \cup Abandoned(learner, l) ELSE late

Fault == budget.faults > 0 /\ budget' = [budget EXCEPT !.faults = @ - 1]
FaultIf(b) == IF b THEN Fault ELSE UNCHANGED budget

on_client_write ==
    LET d == max_decree(prim) + 1
        p == init_prepare(prim, d, prim.ballot)
    IN  /\ prim.status = "PRIMARY"
        /\ d <= budget.decree
        /\ prim' = p
        /\ calls' = calls \cup {send_prepare_message(p, e) : e \in {x \in {d} : p.list[x].left}}
        /\ UNCHANGED <<learner, pc, leader, adds, check, late, committed, budget>>

\* on_append_log_completed on the primary.
PrimaryLogged(d) ==
    /\ prim.status = "PRIMARY"
    /\ d > Len(prim.app) /\ prim.list[d] # Null /\ ~prim.list[d].logged
    /\ SetPrim(do_possible_commit_on_primary([prim EXCEPT !.list[d].logged = TRUE], d))
    /\ UNCHANGED <<learner, pc, leader, calls, adds, check, late, budget>>

\* The last of the full secondaries acknowledges decree d.  An acknowledgement
\* before the local write ends shows only when the write has ended.
SecondariesAck(d) ==
    /\ prim.status = "PRIMARY"
    /\ d > Len(prim.app) /\ prim.list[d] # Null /\ prim.list[d].logged /\ ~prim.list[d].acked
    /\ SetPrim(do_possible_commit_on_primary([prim EXCEPT !.list[d].acked = TRUE], d))
    /\ UNCHANGED <<learner, pc, leader, calls, adds, check, late, budget>>

\* update_configuration_on_meta_server: no 2PC until the meta server answers.
update_configuration_on_meta_server(p, member) ==
    [p EXCEPT !.status = "INACTIVE",
              !.task = [ballot |-> p.ballot + 1, member |-> member, done |-> FALSE]]

StopsPreparing(p) ==
    /\ calls' = IF p.status = "INACTIVE" THEN Cancelled(calls) ELSE calls
    /\ check' = IF p.status = "INACTIVE" THEN Null ELSE check

NodeStatus(p) ==
    IF p.secondary THEN "SECONDARY" ELSE IF Entry(p) # Null THEN "PS" ELSE "INACTIVE"

\* Mutant: a learner that fails a prepare is kept.
KeepsFailedLearner(p, st) ==
    IF st = "SECONDARY" THEN update_configuration_on_meta_server(p, FALSE) ELSE p

handle_remote_failure(p, st) ==
    CASE st = "SECONDARY" -> update_configuration_on_meta_server(p, FALSE)
      [] st = "PS" -> [p EXCEPT !.entry[p.node] = Null]
      [] OTHER -> p

handle_learning_succeeded_on_primary(p, sig) ==
    IF Entry(p) # Null /\ Entry(p).sig = sig
    THEN update_configuration_on_meta_server(p, TRUE) ELSE p

add_potential_secondary ==
    LET p == IF Entry(prim) # Null THEN prim
             ELSE [prim EXCEPT !.next = @ + 1,
                               !.entry[prim.node] = [sig |-> prim.next + 1, psd |-> 0]]
    IN  /\ prim.status = "PRIMARY" /\ ~prim.secondary
        /\ pc.ballot = prim.ballot
        /\ budget.adds > 0
        /\ budget' = [budget EXCEPT !.adds = @ - 1]
        /\ prim' = p
        /\ adds' = adds \cup {[ballot |-> p.ballot, sig |-> Entry(p).sig]}
        /\ UNCHANGED <<learner, pc, leader, calls, check, late, committed>>

MetaAccepts ==
    /\ prim.task # Null /\ ~prim.task.done
    /\ prim.task.ballot = pc.ballot + 1 /\ prim.task.ballot <= budget.ballot
    /\ pc' = [ballot |-> prim.task.ballot, member |-> prim.task.member]
    /\ leader' = [leader EXCEPT ![prim.task.ballot] = prim.node]
    /\ prim' = [prim EXCEPT !.task.done = TRUE]
    /\ UNCHANGED <<learner, calls, adds, check, late, committed, budget>>

\* update_configuration with reset_membership: the learners are kept.
reset_membership(p, b, member) ==
    [p EXCEPT !.ballot = b, !.status = "PRIMARY", !.secondary = member, !.task = Null,
              !.next = b * 10 + 1,
              !.entry[p.node] = IF member THEN Null ELSE @]

on_update_configuration_on_meta_server_reply ==
    /\ prim.task # Null /\ prim.task.done
    /\ \E p \in {replay_prepare_list(
                     reset_membership(prim, prim.task.ballot, prim.task.member))} :
          prim' = p /\ calls' = calls \cup Replayed(p)
    /\ UNCHANGED <<learner, pc, leader, adds, check, late, committed, budget>>

\* The primary removes another secondary: only the ballot matters here.
RemoveOther ==
    LET p == update_configuration_on_meta_server(prim, prim.secondary)
    IN  /\ prim.status = "PRIMARY" /\ prim.ballot < budget.ballot
        /\ Fault
        /\ prim' = p
        /\ StopsPreparing(p)
        /\ UNCHANGED <<learner, pc, leader, adds, late, committed>>

\* Another full member becomes primary.  It holds what is committed and maybe
\* more of what was being prepared, and may know less of it to be committed.
Failover(n) ==
    \E known \in Max({0, Len(committed) - 1})..Len(committed) :
    \E end \in Len(committed)..max_decree(prim), full \in BOOLEAN :
    LET b == pc.ballot + 1
        val(d) == IF d <= Len(committed) THEN committed[d] ELSE prim.list[d].val
        bal(d) == IF prim.list[d] # Null THEN prim.list[d].ballot ELSE val(d)
        lo == IF full THEN 1 ELSE known + 1
        p == replay_prepare_list(reset_membership(
               [prim EXCEPT !.node = n, !.app = SubSeq(committed, 1, known), !.lo = lo,
                   !.ballot = b,
                   !.durable = Min({@, known}),
                   !.list = [d \in Decree |-> IF d < lo \/ d > end THEN Null
                       ELSE [val |-> val(d), ballot |-> bal(d), lcd |-> d - 1,
                             logged |-> TRUE, acked |-> FALSE, left |-> FALSE]]],
               b, pc.member))
    IN  /\ n # prim.node /\ b <= budget.ballot
        /\ Fault
        /\ \A d \in Len(committed) + 1 .. end : prim.list[d] # Null
        /\ pc' = [pc EXCEPT !.ballot = b]
        /\ leader' = [leader EXCEPT ![b] = n]
        /\ prim' = p
        /\ calls' = Cancelled(calls) \cup Replayed(p)
        /\ check' = Null
        /\ UNCHANGED <<learner, adds, late, committed>>

----------------------------------------------------------------------------
(* A prepare message, from the learner's handler to the primary's reply.   *)

Answer(c, stage) ==
    calls' = (calls \ {c}) \cup {[x EXCEPT !.stage = stage] : x \in {y \in {c} : y.live}}

\* mu becomes the mutation of its decree: one of the same decree that is still
\* being written is no longer the one in the list.
Enqueued(q, mu) ==
    Append([i \in DOMAIN q |-> IF q[i].decree = mu.decree THEN [q[i] EXCEPT !.listed = FALSE]
                               ELSE q[i]],
           [decree |-> mu.decree, val |-> mu.val, ballot |-> mu.ballot, lcd |-> mu.lcd,
            valid |-> TRUE, listed |-> TRUE])

on_prepare(c) ==
    \E l \in {IF c.ballot > learner.ballot
              THEN update_local_configuration(learner, c.ballot, c.st) ELSE learner} :
    LET old == l.list[c.decree]
    IN  /\ c.stage = "sent"
        /\ \A x \in calls : ~x.live /\ c.live => leader[x.ballot] # leader[c.ballot]
        /\ CASE c.ballot < learner.ballot ->
                   SetLearner(learner) /\ calls' = calls \ {c}
             [] l.ballot < c.ballot \/ (l.ballot = c.ballot /\ l.status \in {"INACTIVE", "ERROR"}) ->
                   SetLearner(l) /\ Answer(c, "error")
             [] l.ballot = c.ballot /\ l.status = "PS" /\ c.sig # l.ver ->
                   SetLearner(handle_learning_error(l, FALSE)) /\ Answer(c, "error")
             [] l.ballot = c.ballot /\ l.status = "PS" /\ c.sig = l.ver
                  /\ l.lst \notin {"WithPrepare", "Succeeded"} ->
                   SetLearner(l)
                   /\ Answer(c, IF l.lst = "WithoutPrepare" THEN "again" ELSE "error")
             [] OTHER ->
                   CASE l.status # c.st -> SetLearner([l EXCEPT !.failed = TRUE]) /\ Answer(c, "error")
                     [] l.status = c.st /\ c.decree <= l.lcd -> SetLearner(l) /\ Answer(c, "ok")
                     [] l.status = c.st /\ c.decree > l.lcd /\ old # Null /\ old.ballot = c.ballot ->
                           SetLearner(l) /\ Answer(c, IF old.logged THEN "ok" ELSE "queued")
                     [] OTHER ->
                           SetLearner([Prepare(l, c, FALSE) EXCEPT !.queue = Enqueued(@, c)])
                           /\ Answer(c, "queued")
        /\ UNCHANGED <<prim, pc, leader, adds, check, committed, budget>>

\* on_append_log_completed on the learner.
LearnerLogged ==
    learner.queue # <<>> /\
    LET mu == Head(learner.queue)
        e == learner.list[mu.decree]
        written == [learner EXCEPT
            !.queue = Tail(@),
            !.log = IF mu.valid THEN Append(@, [decree |-> mu.decree, val |-> mu.val,
                                                ballot |-> mu.ballot, lcd |-> mu.lcd]) ELSE @,
            !.list[mu.decree] = IF mu.listed /\ e # Null THEN [e EXCEPT !.logged = TRUE] ELSE e]
        current == mu.ballot >= learner.ballot /\ learner.status \in {"PS", "SECONDARY"}
    IN  /\ \E w \in {written} : SetLearner(IF current THEN HardCommit(w, mu.lcd) ELSE w)
        /\ calls' = {IF current /\ c.stage = "queued" /\ c.decree = mu.decree
                        /\ c.ballot = mu.ballot
                     THEN [c EXCEPT !.stage = "ok"] ELSE c : c \in calls}
        /\ UNCHANGED <<prim, pc, leader, adds, check, committed, budget>>

\* An error answer or a timeout of a prepare call: on_prepare_reply.
PrepareFailed(c) ==
    \E p \in {handle_remote_failure(prim, NodeStatus(prim))} :
    \E q \in {IF c.st = "PS" THEN [p EXCEPT !.list[c.decree].left = FALSE] ELSE p} :
        /\ SetPrim(IF q.status = "PRIMARY" THEN do_possible_commit_on_primary(q, c.decree) ELSE q)
        /\ calls' = IF q.status = "INACTIVE" THEN Cancelled(calls \ {c}) ELSE calls \ {c}
        /\ check' = IF q.status = "INACTIVE" THEN Null ELSE check

on_prepare_reply(c) ==
    /\ c.live
    /\ \/ /\ c.stage = "ok"
          /\ SetPrim(do_possible_commit_on_primary(
                       [prim EXCEPT !.list[c.decree].left = FALSE], c.decree))
          /\ calls' = calls \ {c}
          /\ UNCHANGED <<check, budget>>
       \/ /\ c.stage = "again"
          /\ calls' = (calls \ {c}) \cup
                {[c EXCEPT !.stage = "sent",
                           !.sig = IF Entry(prim) # Null THEN Entry(prim).sig ELSE 0]}
          /\ UNCHANGED <<prim, committed, check, budget>>
       \/ c.stage = "error" /\ PrepareFailed(c) /\ UNCHANGED budget
       \/ c.stage \in {"sent", "queued", "again"} /\ Fault /\ PrepareFailed(c)
    /\ UNCHANGED <<learner, pc, leader, adds, late>>

----------------------------------------------------------------------------
(* on_learn: what the primary answers, and prepare_cached_learn_state.     *)

\* The primary's private log from decree d on, pending writes included.
get_learn_state(p, d) ==
    [i \in 1..(max_decree(p) - d + 1) |->
        LET e == d + i - 1
        IN  IF p.list[e] # Null
            THEN [decree |-> e, val |-> p.list[e].val, ballot |-> p.list[e].ballot,
                  lcd |-> p.list[e].lcd]
            ELSE [decree |-> e, val |-> p.app[e], ballot |-> p.app[e], lcd |-> e - 1]]

\* Mutant: the last committed mutation is not sent.
CachedButLast(p, d, psd) ==
    [i \in 1..(psd - 1 - d) |->
        [decree |-> d + i - 1, val |-> p.list[d + i - 1].val,
         ballot |-> p.list[d + i - 1].ballot, lcd |-> p.list[d + i - 1].lcd]]

\* The mutations [d, psd) of the prepare list.
CachedMutations(p, d, psd) ==
    [i \in 1..(psd - d) |->
        [decree |-> d + i - 1, val |-> p.list[d + i - 1].val,
         ballot |-> p.list[d + i - 1].ballot, lcd |-> p.list[d + i - 1].lcd]]

Refusal(err) ==
    [err |-> err, ballot |-> 0, lcd |-> 0, type |-> "NONE", psd |-> 0, to |-> 0, data |-> <<>>]

\* What on_learn does for request m at the primary: the response, and the
\* primary after it.  fromLog: the log files still hold the
\* decrees asked for, so that get_learn_state returns true.
on_learn_result(m, fromLog) ==
    LET scratch == m.app > last_prepared_decree(prim)
        p == IF ~scratch /\ m.app > Len(prim.app)
             THEN CommitTo(prim, Min({m.app, ReadyEnd(prim)})) ELSE prim
        start == IF scratch THEN 1 ELSE m.app + 1
        first == Entry(p).psd = 0
        psd == IF first THEN Len(p.app) + 1 ELSE Entry(p).psd
        ok(type, s, to, data) ==
            [err |-> "OK", ballot |-> p.ballot, lcd |-> Len(p.app), type |-> type,
             psd |-> s, to |-> to, data |-> data]
        withPsd(s) == [p EXCEPT !.entry[p.node].psd = s]
    IN  CASE prim.status # "PRIMARY" ->
               [p |-> prim, resp |-> Refusal("INACTIVE_STATE"), replay |-> FALSE]
          [] prim.status = "PRIMARY" /\ (Entry(prim) = Null \/ Entry(prim).sig # m.sig) ->
               [p |-> prim, resp |-> Refusal("INVALID_STATE"), replay |-> FALSE]
          [] OTHER ->
               CASE start > Len(p.app) + 1 ->
                      [p |-> p, resp |-> Refusal("INCONSISTENT_STATE"), replay |-> FALSE]
                 [] start <= Len(p.app) + 1 /\ start >= p.lo ->
                      [p |-> IF first THEN replay_prepare_list(withPsd(psd)) ELSE p,
                       resp |-> ok("CACHE", psd, 0, CachedMutations(p, start, psd)),
                       replay |-> first]
                 [] OTHER ->
                      [p |-> withPsd(0), replay |-> FALSE,
                       resp |-> IF start > p.durable \/ fromLog
                                THEN ok("LOG", 0, Len(p.app), get_learn_state(p, start))
                                ELSE ok("APP", 0, p.durable, SubSeq(p.app, 1, p.durable))]

\* live: the learner still waits for the answer.
on_learn(m, live) ==
    \E fromLog \in BOOLEAN :
    \E r \in {IF m.to = prim.node THEN on_learn_result(m, fromLog)
              ELSE [p |-> prim, resp |-> Refusal("INVALID_STATE"), replay |-> FALSE]} :
        /\ SetPrim(r.p)
        /\ learner' = IF live THEN [learner EXCEPT !.learn.stage = "replied", !.learn.resp = r.resp]
                      ELSE learner
        /\ calls' = IF r.replay THEN Cancelled(calls) \cup Replayed(r.p) ELSE calls
        /\ UNCHANGED <<pc, leader, adds, check, budget>>

on_learn_completion_notification(n, live) ==
    \E p \in {IF n.to = prim.node /\ prim.status = "PRIMARY"
              THEN handle_learning_succeeded_on_primary(prim, n.sig) ELSE prim} :
    LET err == CASE n.to # prim.node -> "INVALID_STATE"
                 [] n.to = prim.node /\ prim.status # "PRIMARY" -> "INACTIVE_STATE"
                 [] OTHER -> IF p = prim THEN "INVALID_STATE" ELSE "OK"
    IN  /\ prim' = p
        /\ StopsPreparing(p)
        /\ learner' = IF live THEN [learner EXCEPT !.notify.stage = "replied", !.notify.err = err]
                      ELSE learner
        /\ UNCHANGED <<pc, leader, adds, committed, budget>>

----------------------------------------------------------------------------
(* The learner's handlers.                                                 *)

on_add_learner(m, busy) ==
    \E l \in {IF \/ m.ballot > learner.ballot
                 \/ m.ballot = learner.ballot /\ learner.status \in {"INACTIVE", "PS"}
              THEN update_local_configuration(learner, m.ballot, "PS") ELSE learner} :
        /\ SetLearner(IF m.ballot < learner.ballot \/ l.status # "PS" THEN l
                      ELSE init_learn(l, m.sig, busy))
        /\ adds' = adds \ {m}
        /\ FaultIf(busy)
        /\ UNCHANGED <<prim, pc, leader, calls, check, committed>>

\* on_partition_reset: what is in the private log is no longer valid, and neither
\* are the first k mutations of the queue, whose write was issued; what is pending
\* is written after the new valid_start_offset.
on_partition_reset(l, k) ==
    [l EXCEPT !.log = <<>>,
              !.queue = [i \in DOMAIN @ |-> [@[i] EXCEPT !.valid = @ /\ i > k]]]

Issued(l) == IF l.queue = <<>> THEN {0} ELSE 1..Len(l.queue)

\* One mutation of a LT_CACHE answer: logged without a callback, and put in the
\* prepare list unless that holds one of a larger ballot.
ApplyCached(l, mu) ==
    LET a == [l EXCEPT !.log = Append(@, mu)]
    IN  IF mu.decree <= l.lcd THEN l
        ELSE IF l.list[mu.decree] # Null /\ l.list[mu.decree].ballot > mu.ballot THEN a
        ELSE [Prepare(a, mu, TRUE) EXCEPT !.queue = SubSeq(Enqueued(@, mu), 1, Len(@))]

LearnCached(l, r, k) ==
    LET step(t, mu) == With(t, LAMBDA x : ApplyCached(x, mu))
        cached == FoldLeft(step, [Truncate(on_partition_reset(l, k), Len(l.app)) EXCEPT
                                     !.lst = "Transient", !.psd = r.psd, !.initd = Len(l.app)],
                           r.data)
        end(b) ==
            [b EXCEPT !.lst = "WithPrepare",
                      !.copy = [type |-> "CACHE", psd |-> r.psd, lcd |-> r.lcd, to |-> 0, data |-> <<>>],
                      !.failed = \/ @ \/ l.lst # "WithoutPrepare"
                                 \/ b.lcd # Len(b.app) \/ Len(b.app) + 1 < r.psd]
    IN  With(With(cached, LAMBDA t : HardCommit(t, r.psd - 1)), end)

\* Mutant: the new app keeps the durable decree of the old one.
ResetKeepsDurable(l, k) ==
    [on_partition_reset(l, k) EXCEPT !.app = <<>>, !.initd = 0, !.list = Empty, !.lcd = 0]

\* The learner is ahead of its primary: it starts again from nothing.
ResetApp(l, k) ==
    [on_partition_reset(l, k) EXCEPT !.app = <<>>, !.durable = 0, !.initd = 0,
                                     !.list = Empty, !.lcd = 0]

\* busy: too many replicas of this server copy a checkpoint already.
on_learn_reply(busy) ==
    /\ learner.learn # Null /\ learner.learn.stage = "replied"
    /\ LET r == learner.learn.resp
           l == [learner EXCEPT !.learn = Null,
                                !.failed = @ \/ ~(learner.status = "PS" /\ learner.learn.sig = learner.ver)]
       IN
        \E k \in Issued(l) :
        \E a \in {IF r.ballot > l.ballot THEN update_local_configuration(l, r.ballot, "PS") ELSE l} :
        \E b \in {IF r.lcd < Len(a.app) THEN ResetApp(a, k) ELSE a} :
        /\ busy => r.type = "APP"
        /\ FaultIf(busy)
        /\ SetLearner(
             CASE r.err \in {"INACTIVE_STATE", "INCONSISTENT_STATE"} ->
                    [l EXCEPT !.round = FALSE, !.delay = learner.learn.sig]
               [] r.err = "INVALID_STATE" -> handle_learning_error(l, FALSE)
               [] r.err = "OK" /\ busy -> [b EXCEPT !.round = FALSE]
               [] r.err = "OK" /\ ~busy /\ r.type = "CACHE" -> LearnCached(b, r, k)
               [] OTHER -> [b EXCEPT !.copy = [type |-> r.type, psd |-> 0, lcd |-> r.lcd,
                                               to |-> r.to, data |-> r.data]])
        /\ UNCHANGED <<prim, pc, leader, calls, adds, check, committed>>

\* The task that applies the copied files, or the private log, starts to run.
TaskRuns ==
    /\ learner.copy # Null \/ learner.catchup
    /\ ~learner.running
    /\ SetLearner([learner EXCEPT !.running = TRUE])
    /\ UNCHANGED <<prim, pc, leader, calls, adds, check, committed, budget>>

\* ok = FALSE: the files could not be copied or applied.
on_copy_remote_state_completed(ok) ==
    /\ learner.copy # Null
    /\ LET c == learner.copy
           l == [learner EXCEPT !.copy = Null, !.running = FALSE,
                                !.done = IF ok THEN "OK" ELSE "ERR"]
       IN
        \E applied \in {CASE ~ok \/ c.type = "CACHE" -> l
                        [] ok /\ c.type = "APP" -> [l EXCEPT !.app = c.data, !.durable = Len(c.data)]
                        [] OTHER -> ReplayInto(l, c.data, c.to)} :
        LET a == IF ~ok \/ c.type = "CACHE" THEN applied
                 ELSE [applied EXCEPT !.list = Empty, !.lcd = Len(applied.app)]
            flush == ok /\ c.psd # 0 /\ Len(a.app) + 1 >= a.psd /\ Len(a.app) > a.durable
        IN  /\ FaultIf(~ok)
            /\ SetLearner(IF flush THEN [a EXCEPT !.durable = Len(a.app)] ELSE a)
            /\ UNCHANGED <<prim, pc, leader, calls, adds, check, committed>>

catch_up_with_private_logs ==
    LET pending == [i \in DOMAIN learner.queue |->
                       [decree |-> learner.queue[i].decree, val |-> learner.queue[i].val,
                        ballot |-> learner.queue[i].ballot, lcd |-> learner.queue[i].lcd]]
    IN  /\ learner.catchup
        /\ SetLearner([ReplayInto(learner, learner.log \o pending, 0) EXCEPT
                          !.catchup = FALSE, !.running = FALSE, !.done = "OK"])
        /\ UNCHANGED <<prim, pc, leader, calls, adds, check, committed, budget>>

\* Mutant: the round is not ended.
RoundStaysOpen(busy) ==
    LET l == [learner EXCEPT !.done = Null]
    IN  /\ learner.done # Null
        /\ SetLearner(IF learner.done = "OK" THEN init_learn(l, l.ver, busy)
                      ELSE handle_learning_error(l, TRUE))
        /\ FaultIf(busy)
        /\ UNCHANGED <<prim, pc, leader, calls, adds, check, committed>>

on_learn_remote_state_completed(busy) ==
    LET l == [learner EXCEPT !.round = FALSE, !.done = Null]
    IN  /\ learner.done # Null
        /\ SetLearner(IF learner.done = "OK" THEN init_learn(l, l.ver, busy)
                      ELSE handle_learning_error(l, TRUE))
        /\ FaultIf(busy)
        /\ UNCHANGED <<prim, pc, leader, calls, adds, check, committed>>

DelayedInitLearn(busy) ==
    /\ learner.delay # 0
    /\ SetLearner(init_learn([learner EXCEPT !.delay = 0], learner.delay, busy))
    /\ FaultIf(busy)
    /\ UNCHANGED <<prim, pc, leader, calls, adds, check, committed>>

on_learn_completion_notification_reply ==
    LET n == learner.notify
        l == [learner EXCEPT !.notify = Null,
                             !.failed = \/ @ \/ learner.status # "PS" \/ learner.lst # "Succeeded"
                                        \/ n.sig # learner.ver]
        err == n.err
    IN  /\ learner.notify # Null /\ learner.notify.stage = "replied"
        /\ SetLearner(CASE err = "OK" -> l
                        [] err = "INACTIVE_STATE" ->
                              [l EXCEPT !.round = FALSE, !.delay = n.sig]
                        [] OTHER -> handle_learning_error(l, FALSE))
        /\ UNCHANGED <<prim, pc, leader, calls, adds, check, committed, budget>>

\* A learn or notify request times out, or the learner loses its lease.
LearnerGivesUp ==
    /\ learner.status = "PS" /\ Fault
    /\ SetLearner(handle_learning_error(learner, FALSE))
    /\ UNCHANGED <<prim, pc, leader, calls, adds, check, committed>>

----------------------------------------------------------------------------
(* The group check.                                                        *)

\* idle: no prepare was sent for a while, an empty one is sent.  A check whose
\* answer has not come when the timer fires again is given up for a new one.
broadcast_group_check(idle) ==
    LET d == max_decree(prim) + 1
        p == IF idle THEN init_prepare(prim, d, prim.ballot) ELSE prim
    IN  /\ prim.status = "PRIMARY" /\ NodeStatus(prim) # "INACTIVE"
        /\ FaultIf(check # Null)
        /\ idle => d <= budget.decree
        /\ check' = [ballot |-> prim.ballot, st |-> NodeStatus(prim),
                     lcd |-> IF prim.secondary THEN Len(prim.app) ELSE 0,
                     sig |-> IF Entry(prim) # Null THEN Entry(prim).sig ELSE 0,
                     stage |-> "sent", err |-> "OK", lst |-> "Invalid"]
        /\ prim' = p
        /\ calls' = calls \cup {send_prepare_message(p, e) :
                                   e \in {x \in {d} : idle /\ p.list[x].left}}
        /\ UNCHANGED <<learner, pc, leader, adds, late, committed>>

on_group_check(busy) ==
    /\ check # Null /\ check.stage = "sent"
    /\ LET
        m == check
        allowed == \/ m.ballot > learner.ballot
                   \/ /\ m.ballot = learner.ballot
                      /\ <<learner.status, m.st>> \in {<<"INACTIVE", "PS">>, <<"PS", "SECONDARY">>}
       IN
        \E l \in {IF allowed THEN update_local_configuration(learner, m.ballot, m.st) ELSE learner} :
        \E a \in {CASE l.status = "SECONDARY" -> HardCommit(l, Max({l.lcd, m.lcd}))
                   [] l.status = "PS" -> init_learn(l, m.sig, busy)
                   [] OTHER -> l} :
        LET err == CASE m.ballot < learner.ballot -> "VERSION_OUTDATED"
                     [] m.ballot >= learner.ballot /\ (l.ballot < m.ballot \/ l.status = "ERROR") ->
                          "INVALID_STATE"
                     [] OTHER -> "OK"
        IN
        /\ SetLearner(IF m.ballot < learner.ballot \/ l.ballot < m.ballot THEN l ELSE a)
        /\ check' = [check EXCEPT !.stage = "replied", !.err = err, !.lst = a.lst, !.sig = a.ver]
        /\ FaultIf(busy)
        /\ UNCHANGED <<prim, pc, leader, calls, adds, committed>>

on_group_check_reply(lost) ==
    LET p == CASE lost \/ check.err # "OK" -> handle_remote_failure(prim, check.st)
               [] ~lost /\ check.err = "OK" /\ check.lst = "Succeeded" /\ check.st = "PS" ->
                     handle_learning_succeeded_on_primary(prim, check.sig)
               [] OTHER -> prim
    IN  /\ check # Null
        /\ IF lost THEN Fault ELSE check.stage = "replied" /\ UNCHANGED budget
        /\ prim' = p
        /\ check' = Null
        /\ calls' = IF p.status = "INACTIVE" THEN Cancelled(calls) ELSE calls
        /\ UNCHANGED <<learner, pc, leader, adds, late, committed>>

----------------------------------------------------------------------------
LogEntry(d) == [decree |-> d, val |-> 1, ballot |-> 1, lcd |-> d - 1]

\* A primary with some committed decrees, of which its prepare list caches the
\* ones from lo on and its checkpoint all; and an inactive replica that holds a
\* prefix.
Init ==
    /\ \E lo \in 1..InitCommitted + 1 :
         prim = [node |-> CHOOSE n \in Nodes : TRUE, ballot |-> 1, status |-> "PRIMARY",
                 secondary |-> FALSE, app |-> [i \in 1..InitCommitted |-> 1],
                 list |-> [d \in Decree |-> IF d \in lo..InitCommitted
                     THEN [val |-> 1, ballot |-> 1, lcd |-> d - 1,
                           logged |-> TRUE, acked |-> TRUE, left |-> FALSE]
                     ELSE Null],
                 lo |-> lo, durable |-> InitCommitted,
                 entry |-> [n \in Nodes |-> Null], next |-> 11, task |-> Null]
    /\ \E k \in 0..InitCommitted : \E dur \in 0..k :
         learner = [status |-> "INACTIVE", ballot |-> 0, app |-> [i \in 1..k |-> 1],
                    durable |-> dur, initd |-> dur,
                    log |-> [i \in 1..(k - dur) |-> LogEntry(dur + i)], queue |-> <<>>,
                    list |-> Empty, lcd |-> k, ver |-> 0, lst |-> "Invalid", round |-> FALSE,
                    psd |-> 0, learn |-> Null, notify |-> Null, copy |-> Null, done |-> Null,
                    delay |-> 0, catchup |-> FALSE, running |-> FALSE, failed |-> FALSE]
    /\ pc = [ballot |-> 1, member |-> FALSE]
    /\ leader = [b \in Ballot |-> prim.node]
    /\ calls = {} /\ adds = {} /\ check = Null /\ late = {}
    /\ committed = prim.app
    /\ budget \in Budgets

Learn ==
    \/ /\ learner.learn # Null /\ learner.learn.stage = "sent"
       /\ \A m \in late : m.to # learner.learn.to
       /\ on_learn(learner.learn, TRUE) /\ UNCHANGED late
    \/ \E m \in late : m.type = "learn" /\ on_learn(m, FALSE) /\ late' = late \ {m}

Notification ==
    \/ /\ learner.notify # Null /\ learner.notify.stage = "sent"
       /\ \A m \in late : m.to # learner.notify.to
       /\ on_learn_completion_notification(learner.notify, TRUE) /\ UNCHANGED late
    \/ \E m \in late : /\ m.type = "notify" /\ on_learn_completion_notification(m, FALSE)
                        /\ late' = late \ {m}

\* The tasks of a round of learning follow one another.
LearnRound ==
    \/ \E m \in adds : on_add_learner(m, FALSE)
    \/ Learn \/ on_learn_reply(FALSE)
    \/ on_copy_remote_state_completed(TRUE) \/ catch_up_with_private_logs
    \/ on_learn_remote_state_completed(FALSE) \/ DelayedInitLearn(FALSE)
    \/ Notification \/ on_learn_completion_notification_reply

GroupCheck == broadcast_group_check(FALSE) \/ on_group_check(FALSE) \/ on_group_check_reply(FALSE)

Reconfigure == MetaAccepts \/ on_update_configuration_on_meta_server_reply

\* Other replicas of the learner's server copy their checkpoints.
LearnerBusy ==
    \/ \E m \in adds : on_add_learner(m, TRUE)
    \/ on_learn_reply(TRUE) \/ on_learn_remote_state_completed(TRUE)
    \/ DelayedInitLearn(TRUE) \/ on_group_check(TRUE)

\* A replica that failed a CHECK is gone.
Next ==
    /\ ~learner.failed
    /\ \/ LearnRound \/ GroupCheck \/ Reconfigure
       \/ \E d \in Decree : PrimaryLogged(d) \/ SecondariesAck(d)
       \/ \E c \in calls : on_prepare(c) \/ on_prepare_reply(c)
       \/ LearnerLogged
       \/ on_client_write \/ add_potential_secondary \/ broadcast_group_check(TRUE)
       \/ LearnerBusy \/ TaskRuns \/ on_copy_remote_state_completed(FALSE)
       \/ on_group_check_reply(TRUE) \/ LearnerGivesUp \/ RemoveOther
       \/ \E n \in Nodes : Failover(n)

Spec == Init /\ [][Next]_vars

\* Messages are delivered and answered, and tasks and timers run.
Fairness ==
    /\ WF_vars(LearnRound) /\ WF_vars(GroupCheck) /\ WF_vars(Reconfigure)
    /\ WF_vars(\E d \in Decree : PrimaryLogged(d) \/ SecondariesAck(d))
    /\ WF_vars(\E c \in calls : on_prepare(c))
    /\ WF_vars(\E c \in calls : on_prepare_reply(c))
    /\ WF_vars(LearnerLogged)

FairSpec == Spec /\ Fairness

----------------------------------------------------------------------------
TypeOK ==
    /\ prim.node \in Nodes /\ prim.ballot \in Ballot /\ prim.status \in {"PRIMARY", "INACTIVE"}
    /\ Len(prim.app) <= MaxDecree /\ Present(prim.list) \subseteq prim.lo..MaxDecree
    /\ learner.status \in {"INACTIVE", "PS", "SECONDARY", "ERROR"}
    /\ learner.lst \in {"Invalid", "WithoutPrepare", "Transient", "WithPrepare", "Succeeded"}
    /\ learner.ballot \in Ballot \cup {0} /\ learner.psd \in 0..MaxDecree + 1
    /\ learner.lcd \in 0..MaxDecree /\ learner.durable \in 0..Len(learner.app)
    /\ pc.ballot \in Ballot /\ pc.member \in BOOLEAN
    /\ \A c \in calls : /\ c.decree \in Decree /\ c.ballot \in Ballot
                         /\ c.stage \in {"sent", "queued", "ok", "again", "error"}

\* The learner's app never holds a mutation other than the committed one.
AppsAgree == IsPrefix(learner.app, committed)

\* No CHECK of the learning code fails.
NoCheckFails == ~learner.failed

Holds(l, d) ==
    \/ d <= Len(l.app)
    \/ l.list[d] # Null /\ l.list[d].val = committed[d]

\* As soon as the meta server counts the learner as a secondary, it holds in its
\* app or in its prepare list every mutation the primary that upgraded it has
\* committed (upgrade_to_secondary_on_primary).
MemberComplete ==
    pc.member => \A d \in 1..Len(prim.app) : Holds(learner, d)

\* And it would after a restart: in its checkpoint or in the valid part of its log.
MemberDurable ==
    pc.member => \A d \in 1..Len(committed) :
        \/ d <= learner.durable
        \/ \E i \in DOMAIN learner.log : /\ learner.log[i].decree = d
                                         /\ learner.log[i].val = committed[d]

\* A learner the primary has taken on is handed to the meta server as a
\* secondary, or the primary drops it: no round of learning waits for ever.
LearningEnds ==
    Entry(prim) # Null ~> (Entry(prim) = Null \/ prim.task # Null)
============================================================================
