--------------------------- MODULE MCSharedTaskLog ---------------------------
(* SharedTaskLog for TLC. *)
EXTENDS SharedTaskLog
=============================================================================
