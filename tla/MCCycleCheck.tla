---------------------------- MODULE MCCycleCheck ----------------------------
(***************************************************************************)
(* Every graph of Nodes bindings that refer to at most MaxRefs others.     *)
(***************************************************************************)
EXTENDS CycleCheck, FiniteSets

CONSTANTS Nodes, MaxRefs

MCNode == 1..Nodes
MCGraphs == [MCNode -> {S \in SUBSET MCNode : Cardinality(S) <= MaxRefs}]
=============================================================================
