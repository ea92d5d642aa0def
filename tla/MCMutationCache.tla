--------------------------- MODULE MCMutationCache ---------------------------
(***************************************************************************)
(* A small mutation_cache for TLC: with MCMaxDecree at least twice the     *)
(* capacity the indices wrap around the array more than once, and gaps     *)
(* wider than the capacity are possible.                                   *)
(***************************************************************************)
EXTENDS MutationCache

CONSTANTS MCMaxDecree, MCMaxBallot

MCDecree   == 0 .. MCMaxDecree
MCMutation == [decree : MCDecree, ballot : 1 .. MCMaxBallot]
===============================================================================
