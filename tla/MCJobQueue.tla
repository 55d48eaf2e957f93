----------------------------- MODULE MCJobQueue -----------------------------
(***************************************************************************)
(* JobQueue for TLC. Worker ids are interchangeable.                  *)
(***************************************************************************)
EXTENDS JobQueue, TLC

Roles == Permutations(Workers)
=============================================================================
