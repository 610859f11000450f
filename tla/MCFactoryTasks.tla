--------------------------- MODULE MCFactoryTasks ---------------------------
(***************************************************************************)
(* FactoryTasks for TLC.  The contracts stand for the kinds in the         *)
(* repository: ETHDKG (initialize with arguments, last of its group, looks *)
(* its phases up), ETHDKGPhases, PublicStaking (initialize() without       *)
(* arguments), Distribution (constructor arguments) and the factory.       *)
(***************************************************************************)
EXTENDS FactoryTasks

CONSTANTS ETHDKG, ETHDKGPhases, PublicStaking, Distribution, AliceNetFactoryC, o1, o2

MCInitArity == [c \in Contracts |-> CASE c = ETHDKG -> 2 [] c = PublicStaking -> 0 [] OTHER -> None]
MCConArity  == [c \in Contracts |-> IF c \in {Distribution, FactoryName} THEN 1 ELSE 0]
MCRequires  == [c \in Contracts |-> IF c = ETHDKG THEN {ETHDKGPhases} ELSE {}]
MCTags ==
  [c \in Contracts |->
    CASE c = ETHDKG       -> [type |-> Upgradeable, group |-> "ethdkg", index |-> 1]
      [] c = ETHDKGPhases -> [type |-> Upgradeable, group |-> "ethdkg", index |-> 0]
      [] c = FactoryName  -> [type |-> None, group |-> None, index |-> None]
      [] OTHER            -> [type |-> Upgradeable, group |-> None, index |-> None]]

(* The group is listed against its indexes.                                *)
MCListings  == {<<AliceNetFactoryC>> \o SetToSeq(Contracts \ {AliceNetFactoryC, ETHDKG, ETHDKGPhases})
                \o <<ETHDKG, ETHDKGPhases>>}
MCSymmetry  == Permutations(Operators)
MCNameLists == {<<ETHDKG, ETHDKGPhases>>, <<ETHDKG>>}
=============================================================================
