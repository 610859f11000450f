----------------------------- MODULE RoundState -----------------------------
(***************************************************************************)
(* The record a node keeps about ONE validator: its round certificate and  *)
(* the votes it has cast in that round (consensus/objs/rs.go), with the    *)
(* comparison of heights and rounds of consensus/objs/util.go.             *)
(*                                                                         *)
(* The module has no variables: it defines the setters as operators from   *)
(* a record and an object to [rs, ok, err].  RoundStates.tla runs them on  *)
(* a node's whole table of validators.                                     *)
(*                                                                         *)
(* Signatures and encodings are abstracted: an object is its type, its     *)
(* height and round, the previous block its round certificate names, the   *)
(* block it votes for (None for the nil votes).                            *)
(***************************************************************************)
EXTENDS Integers

CONSTANTS
  DEADBLOCKROUND,   \* the last round of a height: only the empty block is voted
  Blocks,           \* identities of the blocks that carry transactions
  EmptyBlock,       \* the block without transactions (TxHshLst is empty)
  None              \* a nil pointer

ASSUME RoundAssumption == DEADBLOCKROUND \in Nat /\ DEADBLOCKROUND >= 2
ASSUME NoneAssumption == None \notin Blocks \cup {EmptyBlock}

DEADBLOCKROUNDNR == DEADBLOCKROUND - 1

BClaimTypes == {"Proposal", "PreVote", "PreCommit", "NextHeight"}
NilTypes    == {"PreVoteNil", "PreCommitNil", "NextRound"}
VoteTypes   == BClaimTypes \cup NilTypes
ObjTypes    == VoteTypes \cup {"RCert"}

(* RelateH and RelateHR: -1 when a is before b, 0 when level, 1 when after.*)
Compare(x, y) == IF x < y THEN -1 ELSE IF x = y THEN 0 ELSE 1

RelateH(a, b) == Compare(a.height, b.height)

RelateHR(a, b) ==
  IF a.height = b.height THEN Compare(a.round, b.round) ELSE RelateH(a, b)

IsDeadBlockRound(a) == a.round = DEADBLOCKROUND

(* The hash of BClaims covers the height, the previous block and the       *)
(* transactions, but not the round.                                        *)
BClaimsEqual(a, b) ==
  a.height = b.height /\ a.prev = b.prev /\ a.block = b.block

PrevBlockEqual(a, b) == a.prev = b.prev

ExtractRCert(a) ==
  [type |-> "RCert", height |-> a.height, round |-> a.round, prev |-> a.prev,
   block |-> None]

-----------------------------------------------------------------------------
(* set[t] is the object of type t recorded for the validator (None when the*)
(* pointer is nil); conflicting[t] is the Conflicting... field of type t.  *)

NewRoundState(rcert) ==
  [set         |-> [t \in ObjTypes |-> IF t = "RCert" THEN rcert ELSE None],
   conflicting |-> [t \in ObjTypes |-> None],
   ImplicitPVN |-> FALSE,
   ImplicitPCN |-> FALSE]

setType(b, a) == [b EXCEPT !.set[a.type] = a]

(* Reset clears the record but leaves both NextHeight fields alone.        *)
Reset(b) ==
  [set |-> [t \in ObjTypes |-> IF t = "NextHeight" THEN b.set[t] ELSE None],
   conflicting |->
     [t \in ObjTypes |-> IF t = "NextHeight" THEN b.conflicting[t] ELSE None],
   ImplicitPVN |-> FALSE,
   ImplicitPCN |-> FALSE]

DropNextHeight(b) ==
  [b EXCEPT !.set["NextHeight"] = None, !.conflicting["NextHeight"] = None]

(* The round at which an object makes the record forget its NextHeight.    *)
ForgetRound(a) ==
  IF a.type = "NextRound" THEN DEADBLOCKROUNDNR ELSE DEADBLOCKROUND

setReset(b, a) ==
  LET forget == a.round = ForgetRound(a) \/ RelateH(b.set["RCert"], a) = -1
      c      == IF forget THEN DropNextHeight(b) ELSE b
  IN setType(setType(Reset(c), ExtractRCert(a)), a)

(* An object of the dead block round discards a NextHeight of any other    *)
(* round.                                                                  *)
resetNHForDBR(b, a) ==
  LET keep(o) == IF o # None /\ ~IsDeadBlockRound(o) THEN None ELSE o
  IN IF IsDeadBlockRound(a)
     THEN [b EXCEPT !.set["NextHeight"] = keep(@),
                    !.conflicting["NextHeight"] = keep(@)]
     ELSE b

(* The votes whose presence makes an object of type t invalid.             *)
Excludes(t) ==
  CASE t = "PreVote"      -> {"PreVoteNil"}
    [] t = "PreVoteNil"   -> {"PreVote"}
    [] t = "PreCommit"    -> {"PreVoteNil", "PreCommitNil"}
    [] t = "PreCommitNil" -> {"PreCommit"}
    [] OTHER              -> {}

checkSameTypeConflictOnly(b, a) ==   \* mutant: opposite votes are not looked at
  b.ImplicitPVN \/ b.ImplicitPCN \/ b.conflicting[a.type] # None

checkSameTypeConflictExplicit(b, a) ==   \* mutant: the implicit nil is not looked at
  b.conflicting[a.type] # None \/ \E t \in Excludes(a.type) : b.set[t] # None

checkSameTypeConflict(b, a) ==
  \/ b.ImplicitPVN
  \/ b.ImplicitPCN
  \/ b.conflicting["RCert"] # None
  \/ b.conflicting[a.type] # None
  \/ \E t \in Excludes(a.type) : b.set[t] # None

checkConflict(b, a) ==
  \/ ~PrevBlockEqual(b.set["RCert"], a)
  \/ /\ a.type \in BClaimTypes
     /\ \E t \in BClaimTypes : b.set[t] # None /\ ~BClaimsEqual(a, b.set[t])
  \/ \E t \in NilTypes : b.set[t] # None /\ ~PrevBlockEqual(a, b.set[t])

(* A conflicting nil vote is recorded by its round certificate.            *)
setTypeConflict(b, a, internal) ==
  LET c == [b EXCEPT !.ImplicitPVN = TRUE, !.ImplicitPCN = TRUE]
  IN IF ~internal THEN c
     ELSE IF a.type \in NilTypes
          THEN [c EXCEPT !.conflicting["RCert"] = ExtractRCert(a)]
          ELSE [c EXCEPT !.conflicting[a.type] = a]

-----------------------------------------------------------------------------
(* The setters.  err is "nil", "stale" or "invalid"; rs is the record as   *)
(* the call leaves it, whatever the error: the caller decides if the       *)
(* database transaction is kept.                                           *)

Result(b, ok, err) == [rs |-> b, ok |-> ok, err |-> err]

checkStaleAndConflict(b0, a) ==
  LET b == resetNHForDBR(b0, a)
  IN IF checkSameTypeConflict(b, a) THEN Result(b, FALSE, "invalid")
     ELSE IF checkConflict(b, a)
          THEN Result(setTypeConflict(b, a, TRUE), FALSE, "nil")
     ELSE IF b.set[a.type] # None THEN Result(b, FALSE, "stale")
     ELSE Result(b, TRUE, "nil")

setCurrent(b, a) ==
  LET res == checkStaleAndConflict(b, a)
  IN IF res.ok THEN Result(setType(res.rs, a), TRUE, "nil") ELSE res

genericSetAnyRound(b, a) ==   \* mutant: an earlier round is not stale
  CASE RelateH(b.set["RCert"], a) = 1  -> Result(b, FALSE, "stale")
    [] RelateHR(b.set["RCert"], a) = 0 -> setCurrent(b, a)
    [] OTHER                           -> Result(setReset(b, a), TRUE, "nil")

genericSet(b, a) ==
  CASE RelateHR(b.set["RCert"], a) = 1  -> Result(b, FALSE, "stale")
    [] RelateHR(b.set["RCert"], a) = -1 -> Result(setReset(b, a), TRUE, "nil")
    [] OTHER                            -> setCurrent(b, a)

(* A vote for a block with transactions, and any nil vote, is refused in   *)
(* the dead block round.                                                   *)
BadInDBR(a) == IsDeadBlockRound(a) /\ a.block # EmptyBlock

(* In the dead block round a conflict is an error, elsewhere it is not.    *)
Set(b, a) ==
  IF BadInDBR(a) THEN Result(b, FALSE, "invalid")
  ELSE LET res == genericSet(b, a)
       IN IF res.err = "nil" /\ ~res.ok /\ IsDeadBlockRound(a)
          THEN Result(res.rs, FALSE, "invalid")
          ELSE res

(* A NextHeight is compared by height only: it may come from any round.    *)
SetNextHeight(b, a) ==
  IF BadInDBR(a) THEN Result(b, FALSE, "invalid")
  ELSE CASE RelateH(b.set["RCert"], a) = 1  -> Result(b, FALSE, "stale")
         [] RelateH(b.set["RCert"], a) = -1 -> Result(setReset(b, a), TRUE, "nil")
         [] OTHER                           -> setCurrent(b, a)

SetRCert(b, rc) == setReset(b, rc)

(* The node's own locked or valid value is held against the record: a vote *)
(* that disagrees with it makes the validator implicitly nil.              *)
TrackExternalConflicts(b, v) ==
  IF RelateHR(b.set["RCert"], v) = 0 /\ checkConflict(b, v)
  THEN setTypeConflict(b, v, FALSE)
  ELSE b

-----------------------------------------------------------------------------
(* Which recorded votes count for a node whose certificate is rc.          *)

Current(b, t, rc) == b.set[t] # None /\ RelateHR(rc, b.set[t]) = 0

NHCurrentByHeight(b, rc) ==   \* mutant: the dead block round is not looked at
  b.set["NextHeight"] # None /\ RelateH(rc, b.set["NextHeight"]) = 0

NHCurrent(b, rc) ==
  /\ b.set["NextHeight"] # None
  /\ IF IsDeadBlockRound(rc) \/ IsDeadBlockRound(b.set["RCert"])
     THEN RelateHR(rc, b.set["NextHeight"]) = 0
     ELSE RelateH(rc, b.set["NextHeight"]) = 0
=============================================================================
