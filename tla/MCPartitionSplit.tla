--------------------------- MODULE MCPartitionSplit ---------------------------
(***************************************************************************)
(* Two servers and one split.  A behaviour has one of the budgets: a write *)
(* of a client, or one kind of trouble.                                    *)
(***************************************************************************)
EXTENDS PartitionSplit, TLC

None == [writes |-> 0, starts |-> 1, pauses |-> 0, restarts |-> 0, cancels |-> 0, failovers |-> 0,
         reconfigs |-> 0, deaths |-> 0, lost |-> 0, learnErrors |-> 0, others |-> FALSE,
         fair |-> FALSE, late |-> FALSE, slowCopy |-> FALSE, slowNotify |-> FALSE, eager |-> FALSE, afterwards |-> FALSE]

Write      == [None EXCEPT !.writes = 1]
PauseOnly  == [None EXCEPT !.pauses = 1, !.fair = TRUE]
PauseAll   == [None EXCEPT !.pauses = 1, !.others = TRUE]
Pause      == [None EXCEPT !.pauses = 1, !.restarts = 1]
CancelAll  == [None EXCEPT !.cancels = 1, !.others = TRUE, !.fair = TRUE]
Failover   == [None EXCEPT !.failovers = 1]
Move       == [None EXCEPT !.reconfigs = 1]
Death      == [None EXCEPT !.deaths = 1]
Loss       == [None EXCEPT !.lost = 2]
LearnError == [None EXCEPT !.learnErrors = 1]

Eager      == [Pause EXCEPT !.eager = TRUE]   \* 700,000 states

MCBudgets    == {Write, PauseOnly, Pause, PauseAll, CancelAll, Failover, Move, Death, Loss, LearnError}
WaitBudgets  == {PauseOnly}
RetryBudgets == {Failover}
=============================================================================
