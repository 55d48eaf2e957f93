--------------------------- MODULE MCDeployCards ---------------------------
(* DeployCards for TLC; the tabs are interchangeable. *)
EXTENDS DeployCards, TLC

TabSymmetry == Permutations(Tabs)
=============================================================================
