---------------------------- MODULE MCPrepareList ----------------------------
(***************************************************************************)
(* A small prepare list for TLC.  MCMaxDecree bounds the decrees; it is    *)
(* larger than the capacity, so that prepare has to pop.                   *)
(***************************************************************************)
EXTENDS PrepareList

CONSTANTS MCMaxDecree, MCMaxBallot

MCDecree   == 0 .. MCMaxDecree
MCMutation == [decree : 1 .. MCMaxDecree, ballot : 1 .. MCMaxBallot]
===============================================================================
