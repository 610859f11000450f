-------------------------- MODULE MCValidatorTasks --------------------------
(* ValidatorTasks for TLC.                                                 *)
EXTENDS ValidatorTasks

CONSTANTS v1, v2, v3, o1, o2
=============================================================================
