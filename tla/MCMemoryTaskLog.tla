--------------------------- MODULE MCMemoryTaskLog ---------------------------
(* MemoryTaskLog for TLC. *)
EXTENDS MemoryTaskLog
=============================================================================
