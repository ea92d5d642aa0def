-------------------------- MODULE MCFailureDetector --------------------------
(* A small instance of FailureDetector. *)
EXTENDS FailureDetector, TLC

MCSymmetry == Permutations(Meta)
===============================================================================
