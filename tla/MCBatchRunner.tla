--------------------------- MODULE MCBatchRunner ---------------------------
(* Small instances of BatchRunner for TLC. *)
EXTENDS BatchRunner
=============================================================================
