------------------------------ MODULE Finality ------------------------------
(***************************************************************************)
(* What the consensus of a height promises: the validators commit one      *)
(* block.  The first one to commit chooses it, the others follow, and      *)
(* nobody commits twice.                                                   *)
(***************************************************************************)
CONSTANTS Validators, Values, None

VARIABLE committed   \* committed[i]: the block of i's committed header, or None

Init == committed = [i \in Validators |-> None]

Commit(i) ==
  /\ committed[i] = None
  /\ \E v \in Values :
       /\ \A j \in Validators : committed[j] \in {None, v}
       /\ committed' = [committed EXCEPT ![i] = v]

Next == \E i \in Validators : Commit(i)

Spec == Init /\ [][Next]_committed
=============================================================================
