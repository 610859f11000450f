---------------------------- MODULE MCTxWatcher ----------------------------
(* TxWatcher for TLC: one transaction of a task and its replacements.      *)
EXTENDS TxWatcher

CONSTANTS t1, r1, r2, s1
=============================================================================
