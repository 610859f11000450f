--------------------------- MODULE DynamicsStorage ---------------------------
(***************************************************************************)
(* The parameters that change with the epoch (dynamics/storage.go, node.go,*)
(* linkedlist.go, rawstorage.go).  The database holds a doubly linked list *)
(* of nodes, one for each epoch at which a parameter changes, and the epoch*)
(* of its head.  A lookup walks back from the head.                        *)
(*                                                                         *)
(* Every operation holds the lock of Storage and runs in one database      *)
(* transaction, so it is one action.  An update that checkUpdate refuses   *)
(* (epoch 0, an unknown field, a value that does not parse) and a lookup of*)
(* epoch 0 end in an error and change nothing; they are left out.          *)
(***************************************************************************)
EXTENDS Integers, FiniteSetsExt, Functions

CONSTANTS
  Fields, Values,        \* the parameters and what they may be set to
  standardParameters,
  MaxEpoch               \* bound

ASSUME DynamicsAssumption ==
  /\ MaxEpoch \in Nat \ {0}
  /\ standardParameters \in [Fields -> Values]

Epochs == 1 .. MaxEpoch

VARIABLES
  nodes,              \* the nodes in the database, by epoch
  epochLastUpdated,   \* the epoch of the head; 0 when there is no list yet
  rawStorage,         \* the parameters in use
  inOrder             \* history: no update so far was for an epoch before the head

vars == <<nodes, epochLastUpdated, rawStorage, inOrder>>

RawStorage == [Fields -> Values]

Node == [prevEpoch : Epochs, nextEpoch : Epochs, rawStorage : RawStorage]

TypeOK ==
  /\ DOMAIN nodes \subseteq Epochs
  /\ nodes \in [DOMAIN nodes -> Node]
  /\ epochLastUpdated \in DOMAIN nodes \cup {0}
  /\ epochLastUpdated = 0 => DOMAIN nodes = {}
  /\ rawStorage \in RawStorage
  /\ inOrder \in BOOLEAN

Init ==
  /\ nodes = [e \in {} |-> e]
  /\ epochLastUpdated = 0
  /\ rawStorage = standardParameters
  /\ inOrder = TRUE

-----------------------------------------------------------------------------
IsHead(list, e) == list[e].nextEpoch = e

(* The nodes that the links of one kind lead to from a node, and itself:   *)
(* the smallest set that contains it and where every link leads.           *)
From(list, start, link) ==
  LET closed == {S \in SUBSET DOMAIN list :
                   start \in S /\ \A n \in S : list[n][link] \in S}
  IN {e \in DOMAIN list : \A S \in closed : e \in S}

(* The first node of the backward walk that is not after epoch, where the  *)
(* walk stops; the one before it in the walk, which is after epoch.        *)
Walked(list, head) == From(list, head, "prevEpoch")
AtOrBefore(list, head, epoch) == Max({e \in Walked(list, head) : e <= epoch})
After(list, head, epoch)      == Min({e \in Walked(list, head) : e > epoch})

UpdateValue(rs, f, v) == [rs EXCEPT ![f] = v]

(* Node.SetEpochs and the calls of SetNode in addNodeHead and addNodeSplit.*)
addNodeHeadAlone(list, e, rs, head) ==   \* mutant: the old head is not stored
  [n \in DOMAIN list \cup {e} |->
     IF n = e THEN [prevEpoch |-> head, nextEpoch |-> e, rawStorage |-> rs] ELSE list[n]]

addNodeHeadSkips(list, e, rs, head) ==   \* mutant: linked to the node before the old head
  [n \in DOMAIN list \cup {e} |->
     CASE n = e    -> [prevEpoch |-> list[head].prevEpoch, nextEpoch |-> e, rawStorage |-> rs]
       [] n = head -> [list[n] EXCEPT !.nextEpoch = e]
       [] OTHER    -> list[n]]

addNodeHead(list, e, rs, head) ==
  [n \in DOMAIN list \cup {e} |->
     CASE n = e    -> [prevEpoch |-> head, nextEpoch |-> e, rawStorage |-> rs]
       [] n = head -> [list[n] EXCEPT !.nextEpoch = e]
       [] OTHER    -> list[n]]

addNodeSplit(list, e, rs, prev, next) ==
  [n \in DOMAIN list \cup {e} |->
     CASE n = e    -> [prevEpoch |-> prev, nextEpoch |-> next, rawStorage |-> rs]
       [] n = prev -> [list[n] EXCEPT !.nextEpoch = e]
       [] n = next -> [list[n] EXCEPT !.prevEpoch = e]
       [] OTHER    -> list[n]]

(* The loop forward from a node.  That node was read before the list was   *)
(* changed, and is written as it was read.                                 *)
UpdateFirst(list, first, read, f, v) ==   \* mutant: no loop
  [list EXCEPT ![first] = [read EXCEPT !.rawStorage = UpdateValue(@, f, v)]]

UpdateForward(list, first, read, f, v) ==
  LET written == [list EXCEPT ![first] = read]
      forward == From(written, first, "nextEpoch")
  IN [n \in DOMAIN list |->
        IF n \in forward
        THEN [written[n] EXCEPT !.rawStorage = UpdateValue(@, f, v)]
        ELSE written[n]]

FirstIsDuplicate(list, iterNode) == iterNode   \* mutant: the loop starts too early

(* Where the loop starts when the update is between two nodes.             *)
firstNode(list, iterNode) == list[iterNode].nextEpoch

(* updateStorageValue on a list with the given head: the list and the head *)
(* it leaves.                                                              *)
updateStorageValue(list, head, e, f, v) ==
  LET iterNode == AtOrBefore(list, head, e)
      rs       == UpdateValue(list[iterNode].rawStorage, f, v)
      first    == firstNode(list, iterNode)
      split    == addNodeSplit(list, e, rs, iterNode, After(list, head, e))
  IN CASE e = iterNode ->
            [list |-> UpdateForward(list, e, list[e], f, v), head |-> head]
       [] e # iterNode /\ IsHead(list, iterNode) ->
            [list |-> addNodeHead(list, e, rs, iterNode), head |-> e]
       [] OTHER ->
            [list |-> UpdateForward(split, first, list[first], f, v), head |-> head]

CreateLinkedList ==
  [n \in {1} |-> [prevEpoch |-> 1, nextEpoch |-> 1, rawStorage |-> standardParameters]]

UpdateStorage(e, f, v) ==
  /\ UNCHANGED rawStorage
  /\ inOrder' = (inOrder /\ e >= epochLastUpdated)
  /\ LET created == epochLastUpdated = 0
         updated == updateStorageValue(IF created THEN CreateLinkedList ELSE nodes,
                                       IF created THEN 1 ELSE epochLastUpdated,
                                       e, f, v)
     IN /\ nodes' = updated.list
        /\ epochLastUpdated' = updated.head

loadStorage(e) ==
  IF epochLastUpdated = 0 THEN standardParameters
  ELSE nodes[AtOrBefore(nodes, epochLastUpdated, e)].rawStorage

LoadStorage(e) ==
  /\ rawStorage' = loadStorage(e)
  /\ UNCHANGED <<nodes, epochLastUpdated, inOrder>>

(* The node restarts: the database is kept.                                *)
Start ==
  /\ rawStorage' = standardParameters
  /\ UNCHANGED <<nodes, epochLastUpdated, inOrder>>

Next ==
  \/ \E e \in Epochs, f \in Fields, v \in Values : UpdateStorage(e, f, v)
  \/ \E e \in Epochs : LoadStorage(e)
  \/ Start

Spec == Init /\ [][Next]_vars

-----------------------------------------------------------------------------
(* While the updates come in the order of their epochs the links agree:    *)
(* the node after a node points back to it, as the comments of SetEpochs   *)
(* demand, no node lies between the two, and only the head has none after. *)
LinksAgree ==
  TypeOK /\ (inOrder => \A e \in DOMAIN nodes : LET n == nodes[e].nextEpoch IN
    /\ n \in DOMAIN nodes
    /\ IF n = e THEN e = epochLastUpdated ELSE nodes[n].prevEpoch = e
    /\ \A x \in DOMAIN nodes : ~(e < x /\ x < n))

(* What an epoch loads changes only by an update at that epoch or before,  *)
(* in whatever order the updates come: blocks of the past are validated    *)
(* with the parameters they were made with.                                *)
PastKept ==
  [][\A x \in Epochs : loadStorage(x)' # loadStorage(x) =>
       \E e \in 1 .. x, f \in Fields, v \in Values : UpdateStorage(e, f, v)]_vars

(* Every update reaches the head and all epochs after it, through links    *)
(* that need not agree.                                                    *)
HeadUpdated ==
  [][nodes' # nodes => \E e \in Epochs, f \in Fields, v \in Values :
       /\ UpdateStorage(e, f, v)
       /\ \A x \in epochLastUpdated' .. MaxEpoch :
            loadStorage(x)' = UpdateValue(loadStorage(x), f, v)]_vars

(* While the updates come in order, the list implements the table of       *)
(* parameters by epoch: each one is seen by every lookup from its epoch on.*)
Table == INSTANCE DynamicsTable WITH table <- [e \in Epochs |-> loadStorage(e)]
ImplementsTable ==
  Table!TableInit /\ [][inOrder' => Table!TableNext \/ UNCHANGED Table!tvars]_vars
=============================================================================
