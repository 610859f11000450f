---------------------------- MODULE MCConsensus ----------------------------
(* Instances of Consensus for TLC: four validators, of which v1 and v2     *)
(* propose in turn.  Validators that propose alike are interchangeable in  *)
(* the safety runs: v3 and v4 always, and v2 too when the only round with a*)
(* proposal is the first.                                                  *)
EXTENDS Consensus, TLC

CONSTANTS v1, v2, v3, v4

MCProposer == [r \in Rounds |-> IF r % 2 = 1 THEN v1 ELSE v2]

Symm  == Permutations({v3, v4})
Symm3 == Permutations({v2, v3, v4})
=============================================================================
