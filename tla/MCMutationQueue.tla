-------------------------- MODULE MCMutationQueue --------------------------
(* Instances of MutationQueue for TLC. *)
EXTENDS MutationQueue

\* The role is lost and regained, and another primary prepares; no lock is evicted.
TwoTerms == [capacity |-> 2, refusals |-> 1, changes |-> 1, foreign |-> 1, empties |-> 0]

\* One term as primary, with a lock table smaller than the number of rows.
OneTerm == [capacity |-> 1, refusals |-> 0, changes |-> 0, foreign |-> 0, empties |-> 1]

MCBudgets == {TwoTerms, OneTerm}

\* One term, in which an atomic write is refused.
RefusedBudgets == {[OneTerm EXCEPT !.refusals = 1]}
=============================================================================
