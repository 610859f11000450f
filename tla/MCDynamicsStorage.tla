-------------------------- MODULE MCDynamicsStorage --------------------------
(* DynamicsStorage for TLC: every parameter starts at the value 0.         *)
EXTENDS DynamicsStorage

MCStandard == [f \in Fields |-> 0]
=============================================================================
