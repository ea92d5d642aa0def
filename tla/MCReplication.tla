---------------------------- MODULE MCReplication ----------------------------
(* Replication on small groups, for TLC. *)
EXTENDS Replication, TLC

Nodes == Permutations(Node)

Quiet == [decree |-> 1, writes |-> 2, crashes |-> 0, disconnects |-> 0, syncs |-> 0,
          moves |-> 0, failovers |-> 0, min2pc |-> 2, slow |-> FALSE]
On(k, b) == {[nodes |-> ns] @@ b : ns \in kSubset(k, Node)}

\* A lost lease.
LostLease == On(3, [Quiet EXCEPT !.disconnects = 1])
\* The balancer moves the primary.
Moved == On(3, [Quiet EXCEPT !.moves = 1])
\* A crash with any part of the queued log writes done.
Crashed == On(2, [Quiet EXCEPT !.crashes = 1, !.decree = 2, !.writes = 3, !.min2pc = 1])
\* The meta server fails over, alone, while a lease is lost, or around a crash.
MetaFails == On(3, [Quiet EXCEPT !.failovers = 1, !.writes = 1])
             \cup On(2, [Quiet EXCEPT !.failovers = 1, !.disconnects = 1, !.writes = 1, !.min2pc = 1])
             \cup On(2, [Quiet EXCEPT !.failovers = 1, !.crashes = 1, !.writes = 1, !.min2pc = 1])

MCBudgets == LostLease \cup Moved \cup Crashed \cup MetaFails

\* A config sync races with a move of the primary.
SyncAndMove == On(2, [Quiet EXCEPT !.syncs = 1, !.moves = 1, !.writes = 0, !.min2pc = 1])
\* One write; the primary crashes and restarts.
CrashOnly == On(2, [Quiet EXCEPT !.crashes = 1, !.writes = 1, !.min2pc = 1])
===============================================================================
