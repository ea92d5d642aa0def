---------------------------- MODULE MCPrivateLog ----------------------------
(* Bounds for PrivateLog: collection of a table that is duplicated, crashes *)
(* with a change of ballot, crashes with a reset, and learning.             *)
EXTENDS PrivateLog

Bound(decree, ballots, crashes, resets, learns, gcs, hints, faults, dup, slow) ==
    [decree |-> decree, ballot |-> ballots, crashes |-> crashes, resets |-> resets,
     learns |-> learns, gcs |-> gcs, hints |-> hints, faults |-> faults, dup |-> dup, slow |-> slow]

MCBudgets == {Bound(4, 1, 0, 0, 0, 2, 1, 1, TRUE, FALSE),
              Bound(3, 2, 1, 0, 0, 1, 0, 0, FALSE, FALSE),
              Bound(3, 1, 1, 1, 0, 0, 0, 0, FALSE, FALSE),
              Bound(3, 1, 0, 1, 1, 1, 0, 0, FALSE, FALSE)}

\* One crash, and nothing else.
CrashOnly == {Bound(3, 1, 1, 0, 0, 0, 0, 0, FALSE, FALSE)}

\* A crash of a table that is duplicated, and a collection after it.
DupCrash == {Bound(2, 1, 1, 0, 0, 1, 1, 0, TRUE, FALSE)}

\* A learner's reset, a collection and a crash.
ResetCrash == {Bound(3, 1, 1, 1, 0, 1, 0, 0, FALSE, FALSE)}
============================================================================
