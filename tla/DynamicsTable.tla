---------------------------- MODULE DynamicsTable ----------------------------
(***************************************************************************)
(* What the dynamic storage promises: a table with the value of every      *)
(* parameter in every epoch.  An update changes one parameter from one     *)
(* epoch on; the parameters in use are a copy of one row of the table.     *)
(***************************************************************************)
EXTENDS Naturals

CONSTANTS Fields, Values, MaxEpoch, standardParameters

Epochs == 1 .. MaxEpoch

VARIABLES table, rawStorage

tvars == <<table, rawStorage>>

TableInit ==
  /\ table = [e \in Epochs |-> standardParameters]
  /\ rawStorage = standardParameters

Update(e, f, v) ==
  /\ table' = [x \in Epochs |->
                 IF x >= e THEN [table[x] EXCEPT ![f] = v] ELSE table[x]]
  /\ UNCHANGED rawStorage

Load(e) == rawStorage' = table[e] /\ UNCHANGED table

Restart == rawStorage' = standardParameters /\ UNCHANGED table

TableNext ==
  \/ \E e \in Epochs, f \in Fields, v \in Values : Update(e, f, v)
  \/ \E e \in Epochs : Load(e)
  \/ Restart

TableSpec == TableInit /\ [][TableNext]_tvars
=============================================================================
