---------------------------- MODULE MCBatchRunner ----------------------------
(* Two jobs for one permit; one flush that waits and one with a timeout. *)
EXTENDS BatchRunner

CONSTANTS j1, j2, f1, f2
=============================================================================
