----------------------------- MODULE RoundStates -----------------------------
(***************************************************************************)
(* One node's table of validators: a RoundState record per validator       *)
(* (lstate/rstate.go, lstate/sstore.go), written by two actors.  The       *)
(* gossip handlers record the messages of the other validators (Store).    *)
(* The consensus engine, under the same lock, moves the node's own record  *)
(* forward, casts the node's own votes and sets its locked and valid value.*)
(*                                                                         *)
(* A message is validated before the lock is taken, against a state of the *)
(* node that may be older than the one it is stored in.  The node's round  *)
(* never goes back, so every message of the model passes PreValidate in    *)
(* the initial state and may be stored at any time after it.               *)
(*                                                                         *)
(* Signatures are valid, and nothing else is assumed of the messages: a    *)
(* validator may vote twice, and messages are lost, repeated and reordered.*)
(***************************************************************************)
EXTENDS RoundState, FiniteSets

CONSTANTS
  Validators,      \* the validator set
  Order,           \* Order[v]: the index of v in ValidatorSet.Validators
  Me,              \* OwnState.VAddr
  Heights,         \* heights the model covers
  PrevBlocks,      \* previous blocks that round certificates may name
  Peers            \* bound: the validators whose messages arrive

ASSUME MeAssumption == Me \in Validators /\ Peers \subseteq Validators \ {Me}
ASSUME HeightsAssumption == Heights \subseteq Nat \ {0} /\ Heights # {}
ASSUME OrderAssumption ==
  /\ Order \in [Validators -> Nat]
  /\ \A v, w \in Validators : Order[v] = Order[w] => v = w

VARIABLES
  peers,     \* PeerStateMap
  locked,    \* OwnValidatingState.LockedValue
  valid      \* OwnValidatingState.ValidValue

vars == <<peers, locked, valid>>

Rounds == 1 .. DEADBLOCKROUND

Objects ==
  [type : BClaimTypes, height : Heights, round : Rounds, prev : PrevBlocks,
   block : Blocks \cup {EmptyBlock}]
  \cup
  [type : NilTypes \cup {"RCert"}, height : Heights, round : Rounds,
   prev : PrevBlocks, block : {None}]

(* GetProposerIdx: the proposer of a round before the dead block round.    *)
IsProposer(v, h, r) == Order[v] = (h + r - 1) % Cardinality(Validators)

ProposalValidation(v, o) == IsDeadBlockRound(o) \/ IsProposer(v, o.height, o.round)

(* A signed message: the object, its voter, the proposer of the proposal it*)
(* carries, and the signers of the prevotes a PreCommit is made of.  A     *)
(* proposal is its proposer's own vote.                                    *)
Messages ==
  { m \in [obj : {o \in Objects : o.type # "RCert"}, voter : Peers,
           proposer : Validators, signers : SUBSET Validators] :
      /\ m.obj.type \in BClaimTypes => ProposalValidation(m.proposer, m.obj)
      /\ m.obj.type \in NilTypes \cup {"Proposal"} => m.proposer = m.voter
      /\ m.obj.type # "PreCommit" => m.signers = {} }

As(o, t) == [o EXCEPT !.type = t]

RCertOf(v) == peers[v].set["RCert"]

OwnVote(t) == peers[Me].set[t]

TypeOK ==
  /\ peers \in [Validators ->
       [set : [ObjTypes -> Objects \cup {None}],
        conflicting : [ObjTypes -> Objects \cup {None}],
        ImplicitPVN : BOOLEAN, ImplicitPCN : BOOLEAN]]
  /\ {locked, valid} \subseteq {o \in Objects : o.type = "Proposal"} \cup {None}

-----------------------------------------------------------------------------
(* The setters of RoundStates: from a table and a message to [tbl, err].   *)

Written(tbl, v, res) == [tbl |-> [tbl EXCEPT ![v] = res.rs], err |-> res.err]

SetVote(tbl, m) == Written(tbl, m.voter, Set(tbl[m.voter], m.obj))

(* The proposal inside a vote is recorded for its proposer.                *)
SetProposal(tbl, m) ==
  Written(tbl, m.proposer, Set(tbl[m.proposer], As(m.obj, "Proposal")))

SetPreVote(tbl, m) ==
  LET p == SetProposal(tbl, m)
  IN IF p.err = "invalid" THEN p ELSE SetVote(p.tbl, m)

StoreNextHeight(tbl, m) ==
  LET p == SetProposal(tbl, m)
  IN IF p.err = "invalid" THEN p
     ELSE Written(p.tbl, m.voter, SetNextHeight(p.tbl[m.voter], m.obj))

(* A PreCommit also records the prevotes it is made of, in the order of    *)
(* its signers, and gives up at the first one that is refused: its voter   *)
(* then counts as having precommitted nil.                                 *)
SetPreCommit(tbl, m) ==
  LET p       == SetProposal(tbl, m)
      impl(v) == Set(p.tbl[v], As(m.obj, "PreVote"))
      refused == {v \in m.signers : impl(v).err = "invalid"}
      reached == {v \in m.signers : \A w \in refused : Order[v] <= Order[w]}
      voted   == [v \in Validators |->
                    IF v \in reached THEN impl(v).rs ELSE p.tbl[v]]
  IN CASE p.err = "invalid" -> p
       [] p.err # "invalid" /\ refused # {} ->
            [tbl |-> [voted EXCEPT ![m.voter].ImplicitPCN = TRUE], err |-> "nil"]
       [] OTHER -> SetVote(voted, m)

SetMessage(tbl, m) ==
  CASE m.obj.type = "PreVote"    -> SetPreVote(tbl, m)
    [] m.obj.type = "PreCommit"  -> SetPreCommit(tbl, m)
    [] m.obj.type = "NextHeight" -> StoreNextHeight(tbl, m)
    [] OTHER                     -> SetVote(tbl, m)

ValueCurrent(tbl, v) == v # None /\ RelateH(tbl[Me].set["RCert"], v) = 0

(* WriteState holds the locked value, or else the valid value, against     *)
(* every record.                                                           *)
WriteState(tbl, lv, vv) ==
  LET against(v) == [k \in Validators |-> TrackExternalConflicts(tbl[k], v)]
  IN CASE ValueCurrent(tbl, lv) -> against(lv)
       [] ~ValueCurrent(tbl, lv) /\ ValueCurrent(tbl, vv) -> against(vv)
       [] OTHER -> tbl

-----------------------------------------------------------------------------
Init ==
  /\ \E h \in Heights, p \in PrevBlocks :
       LET rc == [type |-> "RCert", height |-> h, round |-> 1, prev |-> p,
                  block |-> None]
       IN peers = [v \in Validators |-> NewRoundState(rc)]
  /\ locked = None
  /\ valid = None

(* What this node has signed: what it has cast, in the dead block round    *)
(* the proposal inside its prevote too, which it does not record as cast,  *)
(* and what is of an earlier round and so stale in its own record.         *)
OwnSignature(t, o) ==
  \/ OwnVote(t) = As(o, t)
  \/ t = "Proposal" /\ IsDeadBlockRound(o) /\ OwnVote("PreVote") = As(o, "PreVote")
  \/ RelateHR(RCertOf(Me), o) = 1

(* Store: one database transaction; an error leaves the table as it was.   *)
Store(m) ==
  /\ m.obj.type \in BClaimTypes /\ m.proposer = Me => OwnSignature("Proposal", m.obj)
  /\ Me \in m.signers => OwnSignature("PreVote", m.obj)
  /\ LET res == SetMessage(peers, m)
     IN peers' = IF res.err = "nil" THEN WriteState(res.tbl, locked, valid) ELSE peers
  /\ UNCHANGED <<locked, valid>>

(* setMostRecentRCert: the engine moves this node to a later round, or to  *)
(* the next height with the block it has committed.                        *)
SetMostRecentRCert(rc) ==
  /\ RelateHR(RCertOf(Me), rc) = -1
  /\ peers' = WriteState([peers EXCEPT ![Me] = SetRCert(@, rc)], locked, valid)
  /\ UNCHANGED <<locked, valid>>

(* The votes after which the engine no longer casts a vote of type t.      *)
Done(t) ==
  CASE t \in {"Proposal", "PreVote", "PreVoteNil"} -> VoteTypes \ {"Proposal"}
    [] t \in {"PreCommit", "PreCommitNil"} ->
         {"PreCommit", "PreCommitNil", "NextRound", "NextHeight"}
    [] OTHER -> {"NextHeight"}

OnRecord(o, t) == \E k \in Validators : peers[k].set[t] = As(o, t)

(* The value a proposal repeats and a prevote must equal.                  *)
Lock == CASE ValueCurrent(peers, locked) -> locked
          [] ~ValueCurrent(peers, locked) /\ ValueCurrent(peers, valid) -> valid
          [] OTHER -> None

AgreesWithLock(o) == Lock # None => BClaimsEqual(Lock, o)

(* What a vote is cast on: the vote of the step before it, and what the    *)
(* other validators are known to have voted.                               *)
CastOn(o) ==
  CASE o.type = "Proposal"     -> /\ ~IsDeadBlockRound(o)
                                  /\ IsProposer(Me, o.height, o.round)
                                  /\ AgreesWithLock(o)
    [] o.type = "PreVote"      -> \/ IsDeadBlockRound(o)
                                  \/ OnRecord(o, "Proposal") /\ AgreesWithLock(o)
    [] o.type = "PreVoteNil"   -> TRUE
    [] o.type = "PreCommit"    -> OwnVote("PreVote") # None /\ OnRecord(o, "PreVote")
    [] o.type = "PreCommitNil" -> OwnVote("PreVote") # None \/ OwnVote("PreVoteNil") # None
    [] o.type = "NextRound"    -> OwnVote("PreCommit") # None \/ OwnVote("PreCommitNil") # None
    [] o.type = "NextHeight"   -> \/ o.round = RCertOf(Me).round /\ OnRecord(o, "PreCommit")
                                  \/ \E k \in Validators :
                                       /\ peers[k].set["NextHeight"] = o
                                       /\ NHCurrent(peers[k], RCertOf(Me))

(* setMostRecentProposal ... setMostRecentNextHeight: cast an own vote.    *)
(* Any error aborts the engine's transaction.  A proposal that repeats the *)
(* locked or valid value leaves it as it was.                              *)
SetMostRecent(o) ==
  /\ \A t \in Done(o.type) : OwnVote(t) = None
  /\ CastOn(o)
  /\ RelateH(RCertOf(Me), o) = 0
  /\ o.type # "NextHeight" => o.round = RCertOf(Me).round
  /\ LET res == IF o.type = "NextHeight" THEN SetNextHeight(peers[Me], o)
                                         ELSE Set(peers[Me], o)
     IN /\ res.ok
        /\ locked' = CASE o.type \in {"PreCommit", "NextHeight"} -> As(o, "Proposal")
                       [] o.type = "PreVote" /\ IsDeadBlockRound(o) -> None
                       [] OTHER -> locked
        /\ valid' = IF o.type \in BClaimTypes /\ (o.type = "Proposal" => Lock = None)
                    THEN As(o, "Proposal") ELSE valid
        /\ peers' = WriteState([peers EXCEPT ![Me] = res.rs], locked', valid')

(* updateValidValue: the engine adopts a proposal of its round.            *)
SetMostRecentValidValue(v) ==
  /\ \E k \in Validators : peers[k].set["Proposal"] = v
  /\ RelateHR(RCertOf(Me), v) = 0
  /\ valid' = v
  /\ peers' = WriteState(peers, locked, v)
  /\ UNCHANGED locked

Engine ==
  \/ \E rc \in {o \in Objects : o.type = "RCert"} : SetMostRecentRCert(rc)
  \/ \E o \in {o \in Objects : o.type # "RCert"} : SetMostRecent(o)
  \/ \E v \in {o \in Objects : o.type = "Proposal"} : SetMostRecentValidValue(v)

Next == Engine \/ \E m \in Messages : Store(m)

Spec == Init /\ [][Next]_vars

-----------------------------------------------------------------------------
(* Properties.                                                             *)

Flagged(b) == b.ImplicitPVN \/ b.ImplicitPCN

(* What a record counts belongs together, however its validator has voted  *)
(* and in whatever order the votes arrived: the votes are of the round of  *)
(* the certificate and continue its block, they are for one block, and none*)
(* is both for and against.  A NextHeight may be of an earlier round.      *)
RecordsCoherent ==
  TypeOK /\ \A k \in Validators :
    LET b == peers[k]
    IN /\ \A t \in VoteTypes \ {"NextHeight"} : b.set[t] # None =>
            RelateHR(b.set["RCert"], b.set[t]) = 0 /\ PrevBlockEqual(b.set["RCert"], b.set[t])
       /\ \A s, t \in BClaimTypes \ {"NextHeight"} :
            b.set[s] # None /\ b.set[t] # None => BClaimsEqual(b.set[s], b.set[t])
       /\ b.set["PreVote"] = None \/ b.set["PreVoteNil"] = None
       /\ b.set["PreCommit"] = None \/ b.set["PreCommitNil"] = None

(* In the dead block round every vote that counts is for the empty block:  *)
(* a NextHeight of an earlier round, which records keep, is not counted.   *)
DeadBlockRoundEmpty ==
  \A k \in Validators : IsDeadBlockRound(RCertOf(Me)) =>
    /\ \A t \in NilTypes : ~Current(peers[k], t, RCertOf(Me))
    /\ \A t \in {"Proposal", "PreVote", "PreCommit"} :
         Current(peers[k], t, RCertOf(Me)) => peers[k].set[t].block = EmptyBlock
    /\ NHCurrent(peers[k], RCertOf(Me)) => peers[k].set["NextHeight"].block = EmptyBlock

(* A message of the dead block round has reached the record.               *)
InDeadBlockRound(b) ==
  \E o \in {b.set["RCert"], b.set["NextHeight"], b.conflicting["NextHeight"]} :
    o # None /\ IsDeadBlockRound(o)

(* A record never goes back to an earlier round, and while it stays in a   *)
(* round no vote in it is replaced or lost, save that a message of the     *)
(* dead block round discards a NextHeight of another round.  A threshold   *)
(* once reached for a round stays reached.                                 *)
VotesStand ==
  [][\A k \in Validators :
       /\ RelateHR(RCertOf(k), RCertOf(k)') # 1
       /\ RelateHR(RCertOf(k), RCertOf(k)') = 0 =>
            \A t \in VoteTypes :
              LET o == peers[k].set[t]
              IN /\ o # None
                 /\ t = "NextHeight" => IsDeadBlockRound(o) \/ ~InDeadBlockRound(peers'[k])
                 => peers'[k].set[t] = o]_vars

(* A validator that has contradicted itself, or the node's own value, gets *)
(* no further vote counted in that round.                                  *)
NoVoteAfterConflict ==
  [][\A k \in Validators :
       Flagged(peers[k]) /\ RelateHR(RCertOf(k), RCertOf(k)') = 0 =>
         \A t \in VoteTypes : peers'[k].set[t] \in {None, peers[k].set[t]}]_vars

(* The proposal inside the node's own prevote of the dead block round,     *)
(* which is recorded once another validator's vote carries it.             *)
OwnEmptyProposal == As(OwnVote("PreVote"), "Proposal")

(* Proposals and prevotes inside the votes of other validators are recorded*)
(* for whoever signed them, this node included.  Yet no vote of theirs     *)
(* replaces or takes away a vote of the node's own record, and the only one*)
(* it can add is the proposal that the node itself signed inside its own   *)
(* prevote of the dead block round.                                        *)
OwnVotesStand ==
  [][\/ \A t \in ObjTypes :
          \/ peers'[Me].set[t] = OwnVote(t)
          \/ /\ t = "Proposal" /\ OwnVote("Proposal") = None /\ OwnVote("PreVote") # None
             /\ IsDeadBlockRound(RCertOf(Me))
             /\ peers'[Me].set[t] = OwnEmptyProposal
     \/ Engine]_vars
=============================================================================
