------------------------------ MODULE MCAiChat ------------------------------
(* AiChat for TLC. *)
EXTENDS AiChat
=============================================================================
