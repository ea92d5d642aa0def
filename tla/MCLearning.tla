----------------------------- MODULE MCLearning -----------------------------
EXTENDS Learning

\* One failure at any point, requests that arrive late: a primary that takes over
\* and upgrades the learner, or a write while the learner learns.
MCBudgets ==
    {[adds |-> 1, faults |-> 1, decree |-> 1, ballot |-> 3, late |-> TRUE],
     [adds |-> 1, faults |-> 1, decree |-> 2, ballot |-> 2, late |-> TRUE]}
============================================================================
