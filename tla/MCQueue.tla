------------------------------ MODULE MCQueue ------------------------------
(* An instance of PtsCompletionQueue for TLC.                              *)
EXTENDS PtsCompletionQueue

CONSTANTS r0, r1
=============================================================================
