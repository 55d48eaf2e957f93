------------------------------ MODULE MCRules ------------------------------
(***************************************************************************)
(* Rules for TLC. Nodes are interchangeable.                               *)
(***************************************************************************)
EXTENDS Rules, TLC

NodeSymmetry == Permutations(Nodes)
=============================================================================
