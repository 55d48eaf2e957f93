------------------------------ MODULE MCAiRuns ------------------------------
(* AiRuns for TLC. *)
EXTENDS AiRuns
=============================================================================
