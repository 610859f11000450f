-------------------------- MODULE MCTaskScheduler --------------------------
(***************************************************************************)
(* TaskScheduler for TLC: two tasks of one type that may not run in        *)
(* parallel, one with a start and an end, one that runs at once, with or   *)
(* without an end.                                                         *)
(***************************************************************************)
EXTENDS TaskScheduler, TLC

CONSTANTS t1, t2

MCName == [t \in Tasks |-> "snapshot"]

MCWindows == (t1 :> {<<1, 2>>}) @@ (t2 :> {<<0, 0>>, <<0, 1>>})
=============================================================================
