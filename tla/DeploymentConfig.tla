-------------------------- MODULE DeploymentConfig --------------------------
(***************************************************************************)
(* What the deployment tasks compute from the compiled contracts and keep  *)
(* in two files (deploymentListUtil.ts, deployArgUtil.ts, deploymentUtil.ts):*)
(* the deployment list, ordered by the NatSpec tags of the contracts, and  *)
(* the template of their constructor and initializer arguments.            *)
(***************************************************************************)
EXTENDS AliceNetFactory

CONSTANTS
  Tags,      \* contract -> its NatSpec tags: type, group and index; None if absent
  ConArity   \* contract -> number of constructor arguments

ASSUME ConfigAssumption ==
  /\ \A c \in Contracts : ConArity[c] \in Nat /\ InitArity[c] \in Nat \cup {None}
  /\ Requires \in [Contracts -> SUBSET Contracts]

Upgradeable == "deployUpgradeable"
OnlyProxy   == "onlyProxy"

getDeployType(c)  == Tags[c].type
getDeployGroup(c) == IF Tags[c].group = None THEN "general" ELSE Tags[c].group

Deployable == {c \in Contracts : getDeployType(c) # None}

(* A tag for the group without one for the index.                          *)
MissingIndex(contracts) ==
  \E c \in Range(contracts) : Tags[c].group # None /\ Tags[c].index = None

SortByIndexNot(s) == s   \* mutant: the group stays as it was met

(* Array.sort is stable.                                                   *)
SortByIndex(s) ==
  LET before(i, j) == \/ Tags[s[i]].index < Tags[s[j]].index
                      \/ Tags[s[i]].index = Tags[s[j]].index /\ i < j
      order        == SetToSortSeq(DOMAIN s, before)
  IN [k \in DOMAIN s |-> s[order[k]]]

(* The tagged contracts by group, the groups in the order they are met.    *)
getSortedDeployList(contracts) ==
  LET kept     == SelectSeq(contracts, LAMBDA c : getDeployType(c) # None)
      met(g)   == SelectInSeq(kept, LAMBDA c : getDeployGroup(c) = g)
      groups   == SetToSortSeq({getDeployGroup(c) : c \in Range(kept)},
                               LAMBDA g, h : met(g) < met(h))
      of(g)    == SelectSeq(kept, LAMBDA c : getDeployGroup(c) = g)
  IN [i \in DOMAIN groups |->
        IF groups[i] = "general" THEN of(groups[i]) ELSE SortByIndex(of(groups[i]))]

transformDeploymentList(groups) == FlattenSeq(groups)

-----------------------------------------------------------------------------
(* The arguments in a template: for a method of some arity, all of them    *)
(* still UNDEFINED, or given.                                              *)
Undefined == "UNDEFINED"
Given     == "given"

generateDeployArgTemplate(list) ==
  [constructor |-> [c \in {x \in Range(list) : ConArity[x] > 0} |-> Undefined],
   initializer |-> [c \in {x \in Range(list) : InitArity[x] \notin {None, 0}} |-> Undefined]]

AllGiven(args) == [m \in DOMAIN args |-> [c \in DOMAIN args[m] |-> Given]]

(* A file that does not exist reads as one without arguments.              *)
readDeploymentArgs(file) ==
  IF file = None THEN [constructor |-> <<>>, initializer |-> <<>>] ELSE file

(* Encoding the call needs every argument, and UNDEFINED is neither a      *)
(* number nor an address.                                                  *)
hasConstructorArgs(c) == ConArity[c] > 0
isInitializable(c)    == InitArity[c] # None

ConstructorEncodes(args, c) ==
  hasConstructorArgs(c) =>
    c \in DOMAIN args.constructor /\ args.constructor[c] = Given

InitializerEncodes(args, c) ==
  InitArity[c] \notin {None, 0} =>
    c \in DOMAIN args.initializer /\ args.initializer[c] = Given
=============================================================================
