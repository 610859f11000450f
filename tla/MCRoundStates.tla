---------------------------- MODULE MCRoundStates ----------------------------
(* Instances of RoundStates for TLC: two or three validators in a fixed    *)
(* order, from which GetProposerIdx picks the proposer of each round.      *)
EXTENDS RoundStates, TLC

CONSTANTS v1, v2, v3

MCOrder ==
  [v \in Validators |-> CASE v = v1 -> 0 [] v = v2 -> 1 [] OTHER -> 2]
=============================================================================
