--------------------------- MODULE ConsensusProofs ---------------------------
(***************************************************************************)
(* Proofs about the consensus engine, for any number of validators, any    *)
(* number of rounds, any blocks and any bounds.                            *)
(***************************************************************************)
EXTENDS Consensus, FiniteSetTheorems, TLAPS

-----------------------------------------------------------------------------
(* Thresholds and quorums.                                                 *)

(* CalcThreshold(n) + 1 is more than two thirds of n.                      *)
LEMMA ThresholdIsTwoThirds ==
  ASSUME NEW n \in Nat
  PROVE  /\ CalcThreshold(n) \in Nat
         /\ 3 * (CalcThreshold(n) + 1) > 2 * n
  BY DEF CalcThreshold

(* The threshold is a natural number.                                      *)
LEMMA ThresholdType ==
  /\ Cardinality(Validators) \in Nat
  /\ GetCurrentThreshold \in Nat \ {0}
  /\ 3 * GetCurrentThreshold > 2 * Cardinality(Validators)
<1>1. Cardinality(Validators) \in Nat
  BY Zenon, FS_CardinalityType, ConsensusAssumption
<1> QED
  BY <1>1, ThresholdIsTwoThirds DEF GetCurrentThreshold

(* More voters are still enough.                                           *)
LEMMA EnoughMonotone ==
  ASSUME NEW A \in SUBSET Validators, NEW B \in SUBSET A, Enough(B)
  PROVE  Enough(A)
<1>1. IsFiniteSet(A) /\ Cardinality(A) \in Nat
  BY Zenon, FS_Subset, FS_CardinalityType, ConsensusAssumption
<1>2. Cardinality(B) <= Cardinality(A) /\ Cardinality(B) \in Nat
  BY Zenon, <1>1, FS_Subset, FS_CardinalityType
<1> QED
  BY <1>1, <1>2, ThresholdType DEF Enough

(* Enough validators are more than two thirds of them.                     *)
LEMMA EnoughIsTwoThirds ==
  ASSUME NEW A \in SUBSET Validators, Enough(A)
  PROVE  TwoThirds(A)
<1>1. Cardinality(A) \in Nat
  BY Zenon, FS_Subset, FS_CardinalityType, ConsensusAssumption
<1> QED
  BY <1>1, ThresholdType DEF Enough, TwoThirds

(* Two sets of enough validators have a member in common.                  *)
LEMMA QuorumsMeet ==
  ASSUME NEW A \in SUBSET Validators, NEW B \in SUBSET Validators,
         Enough(A), Enough(B)
  PROVE  \E k \in Validators : k \in A /\ k \in B
<1>1. IsFiniteSet(A) /\ IsFiniteSet(B) /\ IsFiniteSet(A \cap B)
  BY Zenon, FS_Subset, ConsensusAssumption
<1>2. /\ Cardinality(A) \in Nat /\ Cardinality(B) \in Nat
      /\ Cardinality(A \cap B) \in Nat
  BY Zenon, <1>1, FS_CardinalityType
<1>3. Cardinality(A \cup B) = Cardinality(A) + Cardinality(B) - Cardinality(A \cap B)
  BY Zenon, <1>1, FS_Union
<1>4. A \cup B \in SUBSET Validators
  OBVIOUS
<1>5. Cardinality(A \cup B) <= Cardinality(Validators)
  BY Zenon, <1>4, FS_Subset, ConsensusAssumption
<1>6. Cardinality(A \cap B) > 0
  BY <1>2, <1>3, <1>5, ThresholdType DEF Enough
<1>7. A \cap B # {}
  BY <1>6, FS_EmptySet
<1> QED
  BY Zenon, <1>7

(* Enough validators are at least one.                                     *)
LEMMA EnoughNotEmpty ==
  ASSUME NEW A \in SUBSET Validators, Enough(A)
  PROVE  \E k \in Validators : k \in A
  BY Zenon, QuorumsMeet

(* What a node sees on record has been cast.                               *)
LEMMA SeenIsCast ==
  ASSUME NEW i \in Validators, NEW S \in SUBSET Validators, EnoughSeen(i, S)
  PROVE  Enough(S)
<1>1. PICK Q \in Views(i) : Enough(Q \cap S)
  BY Zenon DEF EnoughSeen
<1> QED
  BY Zenon, <1>1, EnoughMonotone

-----------------------------------------------------------------------------
(* Types.                                                                  *)

(* The blocks of a list of votes are blocks.                               *)
LEMMA VotesAreValues ==
  ASSUME NEW vote, NEW r \in Rounds, NEW v \in GetProposal(vote, Voted(vote, r), r)
  PROVE  v \in Values /\ \E j \in Validators : vote[j][r] = v
<1>1. PICK j \in Voted(vote, r) : v = vote[j][r]
  BY Zenon DEF GetProposal
<1> QED
  BY Zenon, <1>1 DEF Voted

(* The votes and values that the cast operators write.                     *)
LEMMA PreVoteType ==
  ASSUME TypeOK, NEW i \in Validators, NEW v \in Values \cup {Nil},
         pv' = [pv EXCEPT ![i][round[i]] = v]
  PROVE  pv' \in [Validators -> [Rounds -> Values \cup {None, Nil}]]
  BY Zenon DEF TypeOK

(* The precommits stay well-typed.                                         *)
LEMMA PreCommitType ==
  ASSUME TypeOK, NEW i \in Validators, NEW v \in Values \cup {Nil},
         pc' = [pc EXCEPT ![i][round[i]] = v]
  PROVE  pc' \in [Validators -> [Rounds -> Values \cup {None, Nil}]]
  BY Zenon DEF TypeOK

(* The NextRounds stay well-typed.                                         *)
LEMMA NextRoundType ==
  ASSUME TypeOK, NEW i \in Validators, castNextRound(i)
  PROVE  nr' \in [Validators -> [Rounds -> BOOLEAN]]
  BY Zenon DEF TypeOK, castNextRound

(* The NextHeights stay well-typed.                                        *)
LEMMA NextHeightType ==
  ASSUME TypeOK, NEW i \in Validators, NEW s \in Rounds, NEW v \in Values,
         castNextHeight(i, s, v)
  PROVE  /\ nh' \in [Validators -> [Rounds -> Values \cup {None}]]
         /\ locked' \in [Validators -> Values \cup {None}]
         /\ valid' \in [Validators -> Values \cup {None}]
         /\ down' \in [Validators -> BOOLEAN]
<1>1. locked' \in [Validators -> Values \cup {None}]
  BY ZenonT(60) DEF TypeOK, castNextHeight
<1>2. valid' \in [Validators -> Values \cup {None}]
  BY ZenonT(60) DEF TypeOK, castNextHeight
<1>3. down' \in [Validators -> BOOLEAN]
  BY ZenonT(60) DEF TypeOK, castNextHeight
<1>4. nh' \in {nh, [nh EXCEPT ![i][s] = v]}
  BY Zenon DEF castNextHeight
<1>5. nh \in [Validators -> [Rounds -> Values \cup {None}]]
  BY Zenon DEF TypeOK
<1>6. nh' \in [Validators -> [Rounds -> Values \cup {None}]]
  BY <1>4, <1>5
<1> QED
  BY Zenon, <1>1, <1>2, <1>3, <1>6

(* The variables always have the shape of the database records, under any  *)
(* interleaving of the handlers.                                           *)
THEOREM TypeCorrect == Spec => []TypeOK
<1>1. Init => TypeOK
  BY ConsensusAssumption DEF Init, TypeOK, Rounds
<1>2. ASSUME TypeOK, [Next]_vars PROVE TypeOK'
  <2>1. CASE UNCHANGED vars
    BY Zenon, <1>2, <2>1 DEF TypeOK, vars
  <2>2. CASE Next
    <3>1. PICK i \in Validators : UpdateLocalState(i) \/ Sync(i) \/ Crash(i)
      BY Zenon, <2>2 DEF Next
    <3> USE <1>2
    <3>2. CASE doPendingProposalStep(i)
      <4>1. \E v \in Values : prop' = [prop EXCEPT ![round[i]] = v]
        BY Zenon, <3>2 DEF doPendingProposalStep, TypeOK
      <4>2. prop' \in [Rounds -> Values \cup {None}]
        BY Zenon, <4>1 DEF TypeOK
      <4>3. valid' \in [Validators -> Values \cup {None}]
        BY ZenonT(60), <3>2 DEF doPendingProposalStep, TypeOK
      <4> QED
        BY Zenon, <3>2, <4>2, <4>3 DEF doPendingProposalStep, TypeOK
    <3>3. CASE doPendingPreVoteStep(i)
      <4>1. \E v \in Values \cup {Nil} : pv' = [pv EXCEPT ![i][round[i]] = v]
        BY ZenonT(60), <3>3 DEF doPendingPreVoteStep, castPreVote, castPreVoteNil, Values, TypeOK
      <4>2. pv' \in [Validators -> [Rounds -> Values \cup {None, Nil}]]
        BY ZenonT(60), <4>1, PreVoteType
      <4>3. /\ locked' \in [Validators -> Values \cup {None}]
            /\ valid' \in [Validators -> Values \cup {None}]
        BY ZenonT(60), <3>3 DEF doPendingPreVoteStep, castPreVote, castPreVoteNil, Values, TypeOK
      <4> QED
        BY Zenon, <3>3, <4>2, <4>3 DEF doPendingPreVoteStep, TypeOK
    <3>4. CASE doPreVoteStep(i)
      <4>1. PICK v \in Values : castPreCommit(i, v)
        BY Zenon, <3>4, VotesAreValues DEF doPreVoteStep, TypeOK
      <4> QED
        BY Zenon, <3>4, <4>1, PreCommitType DEF doPreVoteStep, castPreCommit, TypeOK
    <3>5. CASE doPreVoteNilStep(i)
      <4>1. \/ UNCHANGED pc
            \/ pc' = [pc EXCEPT ![i][round[i]] = Nil]
        BY Zenon, <3>5 DEF doPreVoteNilStep, castPreCommitNil
      <4>2. pc' \in [Validators -> [Rounds -> Values \cup {None, Nil}]]
        BY ZenonT(60), <4>1, PreCommitType DEF TypeOK
      <4>3. \/ UNCHANGED valid
            \/ \E v \in Values : valid' = [valid EXCEPT ![i] = v]
        BY Zenon, <3>5, VotesAreValues DEF doPreVoteNilStep, TypeOK
      <4>4. UNCHANGED locked
        BY Zenon, <3>5 DEF doPreVoteNilStep, castPreCommitNil
      <4>5. valid' \in [Validators -> Values \cup {None}]
        BY ZenonT(60), <4>3 DEF TypeOK
      <4> QED
        BY Zenon, <3>5, <4>2, <4>4, <4>5 DEF doPreVoteNilStep, TypeOK
    <3>6. CASE doPendingPreCommit(i)
      <4>1. CASE \E v \in Values : castPreCommit(i, v)
        BY <3>6, <4>1, PreCommitType DEF doPendingPreCommit, castPreCommit, TypeOK
      <4>2. CASE castPreCommitNil(i) /\ \/ UNCHANGED valid
                                        \/ \E v \in Values : valid' = [valid EXCEPT ![i] = v]
        <5>1. valid' \in [Validators -> Values \cup {None}]
          BY ZenonT(60), <4>2 DEF TypeOK
        <5> QED
          BY ZenonT(60), <3>6, <4>2, <5>1, PreCommitType
          DEF doPendingPreCommit, castPreCommitNil, TypeOK
      <4> QED
        BY Zenon, <3>6, <4>1, <4>2, VotesAreValues DEF doPendingPreCommit, TypeOK
    <3>7. CASE doPreCommitStep(i)
      <4>1. PICK v \in Values : castNextHeight(i, round[i], v)
        BY Zenon, <3>7, VotesAreValues DEF doPreCommitStep, TypeOK
      <4> QED
        BY Zenon, <3>7, <4>1, NextHeightType DEF doPreCommitStep, TypeOK
    <3>8. CASE doPreCommitNilStep(i)
      <4>1. CASE (\E v \in Values : castNextHeight(i, round[i], v)) /\ UNCHANGED nr
        BY Zenon, <3>8, <4>1, NextHeightType DEF doPreCommitNilStep, TypeOK
      <4>2. CASE castNextRound(i) /\ UNCHANGED <<nh, locked, valid, down>>
        BY Zenon, <3>8, <4>2, NextRoundType DEF doPreCommitNilStep, TypeOK
      <4> QED
        BY Zenon, <3>8, <4>1, <4>2, VotesAreValues DEF doPreCommitNilStep, TypeOK
    <3>9. CASE doPendingNext(i)
      <4>1. CASE (\E v \in Values : castNextHeight(i, round[i], v)) /\ UNCHANGED nr
        BY Zenon, <3>9, <4>1, NextHeightType DEF doPendingNext, TypeOK
      <4>2. CASE castNextRound(i) /\ UNCHANGED <<nh, locked, valid, down>>
        BY Zenon, <3>9, <4>2, NextRoundType DEF doPendingNext, TypeOK
      <4> QED
        BY Zenon, <3>9, <4>1, <4>2, VotesAreValues DEF doPendingNext, TypeOK
    <3>10. CASE doNextRoundStep(i)
      <4>1. CASE (\E v \in Values : castNextHeight(i, round[i], v)) /\ UNCHANGED round
        BY Zenon, <3>10, <4>1, NextHeightType DEF doNextRoundStep, TypeOK
      <4>2. CASE /\ castNextRoundRCert(i) /\ UNCHANGED <<nh, locked, valid, down>>
                 /\ round[i] < MaxRound
        <5>1. round[i] + 1 \in Rounds
          BY SMT, <4>2, ConsensusAssumption DEF Rounds, TypeOK
        <5> QED
          BY Zenon, <3>10, <4>2, <5>1 DEF doNextRoundStep, castNextRoundRCert, TypeOK
      <4> QED
        BY Zenon, <3>10, <4>1, <4>2, VotesAreValues DEF doNextRoundStep, TypeOK
    <3>11. CASE doRoundJump(i)
      <4>1. PICK j \in Validators, s \in Rounds :
              /\ round' = [round EXCEPT ![i] = s]
              /\ \E v \in {valid[i]} \cup JumpValues(i, j) :
                   valid' = [valid EXCEPT ![i] = v]
        BY ZenonT(60), <3>11 DEF doRoundJump
      <4>2. JumpValues(i, j) \subseteq Values
        BY Zenon, VotesAreValues DEF JumpValues, TypeOK
      <4> QED
        BY <3>11, <4>1, <4>2 DEF doRoundJump, TypeOK
    <3>12. CASE castNextHeightFromNextHeight(i)
      BY <3>12, NextHeightType
      DEF castNextHeightFromNextHeight, NHRounds, TypeOK
    <3>13. CASE doNextHeightStep(i)
      BY ZenonT(60), <3>13 DEF doNextHeightStep, TypeOK
    <3>14. CASE doHeightJumpStep(i)
      BY Zenon, <3>14 DEF doHeightJumpStep, TypeOK
    <3>15. CASE Sync(i)
      BY Zenon, <3>15 DEF Sync, TypeOK
    <3>16. CASE Crash(i)
      BY Zenon, <3>16 DEF Crash, TypeOK
    <3> QED
      BY Zenon, <3>1, <3>2, <3>3, <3>4, <3>5, <3>6, <3>7, <3>8, <3>9, <3>10, <3>11,
         <3>12, <3>13, <3>14, <3>15, <3>16 DEF UpdateLocalState
  <2> QED
    BY Zenon, <1>2, <2>1, <2>2
<1> QED
  BY <1>1, <1>2, PTL DEF Spec

-----------------------------------------------------------------------------
(* What the handlers come to when ValidValue, which no safety property     *)
(* depends on, is left out: seven kinds of step.  Every handler takes one  *)
(* of them, or changes nothing but ValidValue or down.                     *)

Proposes(i) ==
  /\ round[i] # DEADBLOCKROUND /\ Proposer[round[i]] = i /\ prop[round[i]] = None
  /\ \E v \in Values : prop' = [prop EXCEPT ![round[i]] = v]
  /\ UNCHANGED <<round, pv, pc, nr, nh, locked, committed, down>>

PreVotes(i) ==
  /\ AtProposal(i)
  /\ \/ /\ round[i] = DEADBLOCKROUND
        /\ pv' = [pv EXCEPT ![i][round[i]] = EmptyBlock]
        /\ locked' = [locked EXCEPT ![i] = None]
     \/ /\ round[i] # DEADBLOCKROUND /\ prop[round[i]] # None
        /\ locked[i] \in {None, prop[round[i]]}
        /\ pv' = [pv EXCEPT ![i][round[i]] = prop[round[i]]]
        /\ UNCHANGED locked
     \/ /\ round[i] # DEADBLOCKROUND
        /\ pv' = [pv EXCEPT ![i][round[i]] = Nil]
        /\ UNCHANGED locked
  /\ UNCHANGED <<round, prop, pc, nr, nh, committed, down>>

PreCommits(i) ==
  /\ AtPreVote(i)
  /\ \/ /\ pv[i][round[i]] # Nil /\ Enough(Voted(pv, round[i]))
        /\ \E v \in GetProposal(pv, Voted(pv, round[i]), round[i]) :
             /\ pc' = [pc EXCEPT ![i][round[i]] = v]
             /\ locked' = [locked EXCEPT ![i] = v]
     \/ /\ pc' = [pc EXCEPT ![i][round[i]] = Nil]
        /\ UNCHANGED locked
  /\ UNCHANGED <<round, prop, pv, nr, nh, committed, down>>

VotesNextRound(i) ==
  /\ AtPreCommit(i)
  /\ round[i] = DEADBLOCKROUNDNR /\ DBRNRWait /\ TxsAvailable =>
       /\ ~Enough(Voted(pc, DEADBLOCKROUNDNR))
       /\ \A j \in Validators : pc[j][DEADBLOCKROUNDNR] # None \/ down[j]
  /\ nr' = [nr EXCEPT ![i][round[i]] = TRUE]
  /\ UNCHANGED <<round, prop, pv, pc, nh, locked, committed, down>>

VotesNextHeight(i, s, v) ==
  /\ Running(i)
  /\ \/ /\ s = round[i] /\ Enough(Voted(pc, s))
        /\ v \in GetProposal(pc, Voted(pc, s), s)
     \/ /\ ~(round[i] = DEADBLOCKROUNDNR /\ nr[i][round[i]])
        /\ s \in NHRounds(round[i]) /\ v # None
        /\ \E j \in Validators : nh[j][s] = v
  /\ \A q \in NHRounds(round[i]) : nh[i][q] = None
  /\ nh' = [nh EXCEPT ![i][s] = v]
  /\ locked' = [locked EXCEPT ![i] = v]
  /\ UNCHANGED <<round, prop, pv, pc, nr, committed, down>>

EntersRound(i, s) ==
  /\ s > round[i]
  /\ \/ s = round[i] + 1 /\ Enough(NextRounds(round[i]))
     \/ \E j \in Validators : Announced(j, s)
  /\ round' = [round EXCEPT ![i] = s]
  /\ UNCHANGED <<prop, pv, pc, nr, nh, locked, committed, down>>

(* The validators that have voted for v in one of the rounds of S.         *)
VotedIn(vote, S, v) == {j \in Validators : \E s \in S : vote[j][s] = v}

Commits(i, v) ==
  /\ Running(i)
  /\ \/ Enough(VotedIn(nh, NHRounds(round[i]), v))
     \/ \E j \in Validators : committed[j] = v
  /\ committed' = [committed EXCEPT ![i] = v]
  /\ UNCHANGED <<round, prop, pv, pc, nr, nh, locked, down>>

Other(i) ==
  /\ down' \in {down, [down EXCEPT ![i] = TRUE]}
  /\ UNCHANGED <<round, prop, pv, pc, nr, nh, locked, committed>>

Kinds(i) ==
  \/ Proposes(i)
  \/ PreVotes(i)
  \/ PreCommits(i)
  \/ VotesNextRound(i)
  \/ \E s \in Rounds, v \in Values : VotesNextHeight(i, s, v)
  \/ \E s \in Rounds : EntersRound(i, s)
  \/ \E v \in Values : Commits(i, v)
  \/ Other(i)

(* A NextHeight of a round counts in it; the dead block round is a round.  *)
LEMMA RoundCounts ==
  /\ \A r \in Rounds : r \in NHRounds(r) /\ NHRounds(r) \subseteq Rounds
  /\ DEADBLOCKROUND \in Rounds /\ DEADBLOCKROUNDNR \in Rounds
  /\ DEADBLOCKROUNDNR # DEADBLOCKROUND
  BY SMT, ConsensusAssumption DEF NHRounds, Rounds, DEADBLOCKROUNDNR

(* A NextHeight that is cast is a node's first, one that is refused stops  *)
(* the node.                                                               *)
LEMMA NextHeightKind ==
  ASSUME TypeOK, NEW i \in Validators, NEW s \in Rounds, NEW v \in Values,
         castNextHeight(i, s, v), Running(i),
         \/ /\ s = round[i] /\ Enough(Voted(pc, s))
            /\ v \in GetProposal(pc, Voted(pc, s), s)
         \/ /\ ~(round[i] = DEADBLOCKROUNDNR /\ nr[i][round[i]])
            /\ s \in NHRounds(round[i]) /\ v # None
            /\ \E j \in Validators : nh[j][s] = v,
         UNCHANGED <<round, prop, pv, pc, nr, committed>>
  PROVE  VotesNextHeight(i, s, v) \/ Other(i)
<1>1. CASE NextHeightRefused(i, v)
  BY Zenon, <1>1 DEF castNextHeight, Other
<1>2. CASE ~NextHeightRefused(i, v)
  <2>1. \A q \in NHRounds(round[i]) : nh[i][q] = None
    BY Zenon, <1>2 DEF NextHeightRefused, OwnNH
  <2> QED
    BY Zenon, <1>2, <2>1 DEF castNextHeight, VotesNextHeight
<1> QED
  BY Zenon, <1>1, <1>2

(* The same when the NextHeight is formed from the precommits of the round.*)
LEMMA PreCommitsKind ==
  ASSUME TypeOK, NEW i \in Validators, Running(i),
         EnoughSeen(i, Voted(pc, round[i])),
         \E v \in GetProposal(pc, Voted(pc, round[i]), round[i]) :
           castNextHeight(i, round[i], v),
         UNCHANGED <<round, prop, pv, pc, nr, committed>>
  PROVE  Kinds(i)
<1>1. round[i] \in Rounds
  BY Zenon DEF TypeOK
<1>2. Enough(Voted(pc, round[i]))
  BY Zenon, SeenIsCast DEF Voted
<1>3. PICK v \in GetProposal(pc, Voted(pc, round[i]), round[i]) :
        castNextHeight(i, round[i], v)
  OBVIOUS
<1>4. v \in Values
  BY Zenon, <1>1, <1>3, VotesAreValues
<1>5. VotesNextHeight(i, round[i], v) \/ Other(i)
  BY Zenon, <1>1, <1>2, <1>3, <1>4, NextHeightKind
<1> QED
  BY Zenon, <1>1, <1>4, <1>5 DEF Kinds

(* Every step of every handler is of one of the kinds.                     *)
LEMMA StepKinds ==
  ASSUME TypeOK, NEW i \in Validators,
         UpdateLocalState(i) \/ Sync(i) \/ Crash(i)
  PROVE  Kinds(i)
<1> round[i] \in Rounds
  BY Zenon DEF TypeOK
<1>1. CASE doPendingProposalStep(i)
  BY Zenon, <1>1 DEF doPendingProposalStep, Kinds, Proposes, TypeOK
<1>2. CASE doPendingPreVoteStep(i)
  BY Zenon, <1>2 DEF doPendingPreVoteStep, castPreVote, castPreVoteNil, LockOf, Kinds, PreVotes
<1>3. CASE doPreVoteStep(i)
  <2>1. Enough(Voted(pv, round[i]))
    BY Zenon, <1>3, SeenIsCast DEF doPreVoteStep, Voted
  <2> QED
    BY ZenonT(60), <1>3, <2>1 DEF doPreVoteStep, castPreCommit, Kinds, PreCommits
<1>4. CASE doPreVoteNilStep(i)
  <2>1. CASE castPreCommitNil(i)
    BY Zenon, <1>4, <2>1 DEF doPreVoteNilStep, castPreCommitNil, Kinds, PreCommits
  <2>2. CASE UNCHANGED <<pc, locked>>
    BY Zenon, <1>4, <2>2 DEF doPreVoteNilStep, Kinds, Other
  <2> QED
    BY Zenon, <1>4, <2>1, <2>2 DEF doPreVoteNilStep
<1>5. CASE doPendingPreCommit(i)
  <2>1. CASE castPreCommitNil(i)
    BY Zenon, <1>5, <2>1 DEF doPendingPreCommit, castPreCommitNil, Kinds, PreCommits
  <2>2. CASE /\ EnoughSeen(i, Voted(pv, round[i])) /\ pv[i][round[i]] # Nil
             /\ \E v \in GetProposal(pv, Voted(pv, round[i]), round[i]) :
                  castPreCommit(i, v)
    <3>1. Enough(Voted(pv, round[i]))
      BY Zenon, <2>2, SeenIsCast DEF Voted
    <3> QED
      BY ZenonT(60), <1>5, <2>2, <3>1 DEF doPendingPreCommit, castPreCommit, Kinds, PreCommits
  <2> QED
    BY Zenon, <1>5, <2>1, <2>2 DEF doPendingPreCommit
<1>6. CASE doPreCommitStep(i)
  BY Zenon, <1>6, PreCommitsKind
  DEF doPreCommitStep, AtPreCommit, InRound, NoNextHeight, NoDBRNextRound,
      NoDBRJump, NoHeightJump
<1>7. CASE doPreCommitNilStep(i)
  <2>1. CASE round[i] # DEADBLOCKROUNDNR /\ castNextRound(i)
             /\ UNCHANGED <<nh, locked, valid, down>>
    BY Zenon, <1>7, <2>1 DEF doPreCommitNilStep, castNextRound, Kinds, VotesNextRound
  <2>2. CASE /\ EnoughSeen(i, Voted(pc, round[i])) /\ UNCHANGED nr
             /\ \E v \in GetProposal(pc, Voted(pc, round[i]), round[i]) :
                  castNextHeight(i, round[i], v)
    BY Zenon, <1>7, <2>2, PreCommitsKind
    DEF doPreCommitNilStep, AtPreCommit, InRound, NoNextHeight, NoDBRNextRound,
        NoDBRJump, NoHeightJump
  <2> QED
    BY Zenon, <1>7, <2>1, <2>2 DEF doPreCommitNilStep
<1>8. CASE doPendingNext(i)
  <2>1. CASE Undecided(i, Voted(pc, round[i]), VotedNil(pc, round[i]))
             /\ castNextRound(i) /\ UNCHANGED <<nh, locked, valid, down>>
    <3>1. ASSUME round[i] = DEADBLOCKROUNDNR, DBRNRWait, TxsAvailable
          PROVE  /\ ~Enough(Voted(pc, DEADBLOCKROUNDNR))
                 /\ \A j \in Validators : pc[j][DEADBLOCKROUNDNR] # None \/ down[j]
      <4>1. PICK Q \in Views(i) :
              /\ ~Enough(Q \cap Voted(pc, round[i]))
              /\ DBRNRExpired(Q)
        BY ZenonT(60), <2>1, <3>1 DEF Undecided
      <4>2. Q \cap Voted(pc, round[i]) = Voted(pc, DEADBLOCKROUNDNR)
        BY Zenon, <3>1, <4>1 DEF DBRNRExpired, Voted
      <4> QED
        BY Zenon, <3>1, <4>1, <4>2 DEF DBRNRExpired
    <3> QED
      BY Zenon, <1>8, <2>1, <3>1 DEF doPendingNext, castNextRound, Kinds, VotesNextRound
  <2>2. CASE /\ EnoughSeen(i, Voted(pc, round[i])) /\ UNCHANGED nr
             /\ \E v \in GetProposal(pc, Voted(pc, round[i]), round[i]) :
                  castNextHeight(i, round[i], v)
    BY Zenon, <1>8, <2>2, PreCommitsKind
    DEF doPendingNext, AtPreCommit, InRound, NoNextHeight, NoDBRNextRound,
        NoDBRJump, NoHeightJump
  <2> QED
    BY Zenon, <1>8, <2>1, <2>2 DEF doPendingNext
<1>9. CASE doNextRoundStep(i)
  <2>1. CASE /\ EnoughSeen(i, NextRounds(round[i])) /\ round[i] < MaxRound
             /\ castNextRoundRCert(i) /\ UNCHANGED <<nh, locked, valid, down>>
    <3>1. Enough(NextRounds(round[i]))
      BY Zenon, <2>1, SeenIsCast DEF NextRounds
    <3>2. round[i] + 1 \in Rounds /\ round[i] + 1 > round[i]
      BY SMT, <2>1, ConsensusAssumption DEF Rounds
    <3>3. EntersRound(i, round[i] + 1)
      BY Zenon, <1>9, <2>1, <3>1, <3>2 DEF doNextRoundStep, castNextRoundRCert, EntersRound
    <3> QED
      BY Zenon, <3>2, <3>3 DEF Kinds
  <2>2. CASE /\ EnoughSeen(i, Voted(pc, round[i])) /\ UNCHANGED round
             /\ \E v \in GetProposal(pc, Voted(pc, round[i]), round[i]) :
                  castNextHeight(i, round[i], v)
    BY Zenon, <1>9, <2>2, PreCommitsKind
    DEF doNextRoundStep, InRound, NoNextHeight, NoDBRNextRound, NoDBRJump, NoHeightJump
  <2> QED
    BY Zenon, <1>9, <2>1, <2>2 DEF doNextRoundStep
<1>10. CASE doRoundJump(i)
  BY ZenonT(60), <1>10 DEF doRoundJump, Kinds, EntersRound
<1>11. CASE castNextHeightFromNextHeight(i)
  <2>1. PICK j \in Validators, s \in NHRounds(round[i]) :
          nh[j][s] # None /\ castNextHeight(i, s, nh[j][s])
    BY Zenon, <1>11 DEF castNextHeightFromNextHeight
  <2>2. s \in Rounds /\ nh[j][s] \in Values
    BY <2>1, RoundCounts DEF TypeOK
  <2>3. VotesNextHeight(i, s, nh[j][s]) \/ Other(i)
    BY Zenon, <1>11, <2>1, <2>2, NextHeightKind
    DEF castNextHeightFromNextHeight, NoDBRNextRound, NoDBRJump, NoHeightJump
  <2> QED
    BY Zenon, <2>2, <2>3 DEF Kinds
<1>12. CASE doNextHeightStep(i)
  <2>1. PICK v \in Values :
          /\ \A j \in NextHeights(round[i]), s \in NHRounds(round[i]) : nh[j][s] \in {None, v}
          /\ committed' = [committed EXCEPT ![i] = v]
    BY ZenonT(60), <1>12 DEF doNextHeightStep
  <2>2. Enough(NextHeights(round[i]))
    BY Zenon, <1>12, SeenIsCast DEF doNextHeightStep, NextHeights
  <2>3. NextHeights(round[i]) = VotedIn(nh, NHRounds(round[i]), v)
    BY Zenon, <2>1, ConsensusAssumption DEF NextHeights, VotedIn
  <2>4. Commits(i, v)
    BY ZenonT(60), <1>12, <2>1, <2>2, <2>3
    DEF doNextHeightStep, Commits, NoDBRNextRound, NoDBRJump, NoHeightJump
  <2> QED
    BY Zenon, <2>4 DEF Kinds
<1>13. CASE doHeightJumpStep(i)
  BY ZenonT(60), <1>13 DEF doHeightJumpStep, Kinds, Commits, TypeOK
<1>14. CASE Sync(i)
  BY ZenonT(60), <1>14 DEF Sync, Kinds, Commits, TypeOK
<1>15. CASE Crash(i)
  BY Zenon, <1>15 DEF Crash, Kinds, Other
<1> QED
  BY Zenon, <1>1, <1>2, <1>3, <1>4, <1>5, <1>6, <1>7, <1>8, <1>9, <1>10, <1>11, <1>12,
     <1>13, <1>14, <1>15 DEF UpdateLocalState

-----------------------------------------------------------------------------
(* The inductive invariant.                                                *)

Early == Rounds \ {DEADBLOCKROUND}

(* The only block that round r can be about.                               *)
RoundValue(r) == IF r = DEADBLOCKROUND THEN EmptyBlock ELSE prop[r]

VotesForProposal ==
  \A i \in Validators, r \in Rounds :
    /\ pv[i][r] \in Values => pv[i][r] = RoundValue(r)
    /\ pc[i][r] \in Values => /\ pc[i][r] = RoundValue(r)
                              /\ pv[i][r] \in Values /\ Enough(Voted(pv, r))
    /\ nh[i][r] # None => nh[i][r] = RoundValue(r) /\ Enough(Voted(pc, r))

NoVoteAhead ==
  \A i \in Validators, r \in Rounds : r > round[i] =>
    pv[i][r] = None /\ pc[i][r] = None /\ ~nr[i][r]

LockIsPreCommit ==
  \A i \in Validators, r \in Early :
    /\ round[i] \in Early
    /\ \A s \in Early : nh[i][s] = None
    /\ pc[i][r] \in Values
    => locked[i] = pc[i][r]

PreVotesHoldLock ==
  \A i \in Validators : \A r, s \in Early :
    r < s /\ pc[i][r] \in Values /\ pv[i][s] \in Values => pv[i][s] = pc[i][r]

RoundsJustified ==
  \A i \in Validators, r \in Rounds :
    r > 1 /\ (round[i] = r \/ Announced(i, r)) => Enough(NextRounds(r - 1))

CommitsJustified ==
  \A i \in Validators : committed[i] # None =>
    \E S \in {{DEADBLOCKROUND}, Early} :
      Enough(VotedIn(nh, S, committed[i]))

(* Once somebody votes for the dead block round, the precommits of the     *)
(* round before it are all in, and too few.                                *)
DeadBlockRoundWaits ==
  DBRNRWait /\ TxsAvailable =>
    \A k \in Validators : nr[k][DEADBLOCKROUNDNR] =>
      /\ ~Enough(Voted(pc, DEADBLOCKROUNDNR))
      /\ \A j \in Validators : pc[j][DEADBLOCKROUNDNR] # None \/ down[j]
      /\ \A s \in Early : nh[k][s] = None

Inv ==
  /\ TypeOK
  /\ VotesForProposal
  /\ NoVoteAhead
  /\ LockIsPreCommit
  /\ PreVotesHoldLock
  /\ RoundsJustified
  /\ CommitsJustified
  /\ DeadBlockRoundWaits

-----------------------------------------------------------------------------
(* Votes are never withdrawn, so what there was enough of there still is.  *)

(* No step takes back a vote, a proposal or a round.                       *)
LEMMA VotesStay ==
  ASSUME TypeOK, NEW i \in Validators, Kinds(i)
  PROVE  /\ \A r \in Rounds : prop[r] # None => prop'[r] = prop[r]
         /\ \A j \in Validators, r \in Rounds :
              /\ pv[j][r] # None => pv'[j][r] = pv[j][r]
              /\ pc[j][r] # None => pc'[j][r] = pc[j][r]
              /\ nh[j][r] # None => nh'[j][r] = nh[j][r]
              /\ nr[j][r] => nr'[j][r]
         /\ \A j \in Validators :
              /\ round'[j] >= round[j]
              /\ committed[j] # None => committed'[j] = committed[j]
              /\ down[j] => down'[j]
<1> \A j \in Validators : round[j] \in Nat /\ round[j] >= round[j]
  BY SMT DEF TypeOK, Rounds
<1>1. CASE Proposes(i)
  BY Zenon, <1>1 DEF Proposes, TypeOK
<1>2. CASE PreVotes(i)
  <2>1. pv[i][round[i]] = None /\ \E v : pv' = [pv EXCEPT ![i][round[i]] = v]
    BY Zenon, <1>2 DEF PreVotes, AtProposal
  <2> QED
    BY <1>2, <2>1 DEF PreVotes, TypeOK
<1>3. CASE PreCommits(i)
  <2>1. pc[i][round[i]] = None /\ \E v : pc' = [pc EXCEPT ![i][round[i]] = v]
    BY Zenon, <1>3 DEF PreCommits, AtPreVote
  <2> QED
    BY <1>3, <2>1 DEF PreCommits, TypeOK
<1>4. CASE VotesNextRound(i)
  BY Zenon, <1>4 DEF VotesNextRound, TypeOK
<1>5. ASSUME NEW s \in Rounds, NEW v \in Values, VotesNextHeight(i, s, v)
      PROVE  nh[i][s] = None /\ nh' = [nh EXCEPT ![i][s] = v]
             /\ UNCHANGED <<round, prop, pv, pc, nr, committed, down>>
  BY Zenon, <1>5, RoundCounts DEF VotesNextHeight, TypeOK
<1>6. CASE \E s \in Rounds, v \in Values : VotesNextHeight(i, s, v)
  <2>1. PICK s \in Rounds, v \in Values :
          nh[i][s] = None /\ nh' = [nh EXCEPT ![i][s] = v]
          /\ UNCHANGED <<round, prop, pv, pc, nr, committed, down>>
    BY Zenon, <1>5, <1>6
  <2> QED
    BY Zenon, <2>1 DEF TypeOK
<1>7. CASE \E s \in Rounds : EntersRound(i, s)
  BY SMT, <1>7 DEF EntersRound, TypeOK, Rounds
<1>8. CASE \E v \in Values : Commits(i, v)
  BY Zenon, <1>8 DEF Commits, Running, TypeOK
<1>9. CASE Other(i)
  <2>1. \A j \in Validators : down[j] => down'[j]
    BY ZenonT(60), <1>9 DEF Other, TypeOK
  <2> QED
    BY Zenon, <1>9, <2>1 DEF Other
<1> QED
  BY ZenonT(60), <1>1, <1>2, <1>3, <1>4, <1>6, <1>7, <1>8, <1>9 DEF Kinds

(* What enough validators have voted stays voted by enough.                *)
LEMMA EnoughStays ==
  ASSUME TypeOK, NEW i \in Validators, Kinds(i)
  PROVE  /\ \A r \in Rounds :
              /\ Enough(Voted(pv, r)) => Enough(Voted(pv', r))
              /\ Enough(Voted(pc, r)) => Enough(Voted(pc', r))
              /\ Enough(NextRounds(r)) => Enough(NextRounds(r)')
         /\ \A S \in SUBSET Rounds, v \in Values :
              Enough(VotedIn(nh, S, v)) => Enough(VotedIn(nh', S, v))
<1>1. ASSUME NEW r \in Rounds
      PROVE  /\ Voted(pv, r) \subseteq Voted(pv', r)
             /\ Voted(pc, r) \subseteq Voted(pc', r)
             /\ NextRounds(r) \subseteq NextRounds(r)'
             /\ Voted(pv', r) \subseteq Validators
             /\ Voted(pc', r) \subseteq Validators
             /\ NextRounds(r)' \subseteq Validators
  BY Zenon, VotesStay, ConsensusAssumption DEF Voted, NextRounds
<1>2. ASSUME NEW S \in SUBSET Rounds, NEW v \in Values
      PROVE  /\ VotedIn(nh, S, v) \subseteq VotedIn(nh', S, v)
             /\ VotedIn(nh', S, v) \subseteq Validators
  BY ZenonT(60), VotesStay, ConsensusAssumption DEF VotedIn
<1>3. ASSUME NEW S \in SUBSET Rounds, NEW v \in Values
      PROVE  Enough(VotedIn(nh, S, v)) => Enough(VotedIn(nh', S, v))
  BY Zenon, <1>2, EnoughMonotone
<1>4. ASSUME NEW r \in Rounds
      PROVE  /\ Enough(Voted(pv, r)) => Enough(Voted(pv', r))
             /\ Enough(Voted(pc, r)) => Enough(Voted(pc', r))
             /\ Enough(NextRounds(r)) => Enough(NextRounds(r)')
  BY Zenon, <1>1, EnoughMonotone
<1> QED
  BY Zenon, <1>3, <1>4

(* Rounds are about the block proposed in them.                            *)
LEMMA VotesForProposalStep ==
  ASSUME TypeOK, VotesForProposal, NEW i \in Validators, Kinds(i)
  PROVE  VotesForProposal'
<1>1. \A r \in Rounds : RoundValue(r) \in Values => RoundValue(r)' = RoundValue(r)
  BY Zenon, VotesStay, ConsensusAssumption DEF RoundValue
<1>2. ASSUME NEW j \in Validators, NEW r \in Rounds, pv'[j][r] \in Values
      PROVE  pv'[j][r] = RoundValue(r)'
  <2>1. CASE pv'[j][r] = pv[j][r]
    BY Zenon, <1>1, <1>2, <2>1 DEF VotesForProposal
  <2>2. CASE pv'[j][r] # pv[j][r]
    <3>1. PreVotes(i)
      BY Zenon, <2>2 DEF Kinds, Proposes, PreCommits, VotesNextRound, VotesNextHeight,
                  EntersRound, Commits, Other
    <3>2. j = i /\ r = round[i]
      BY SMT, <2>2, <3>1 DEF PreVotes, TypeOK
    <3> QED
      BY SMT, <1>2, <3>1, <3>2, ConsensusAssumption DEF PreVotes, RoundValue, TypeOK
  <2> QED
    BY Zenon, <2>1, <2>2
<1>3. ASSUME NEW j \in Validators, NEW r \in Rounds, pc'[j][r] \in Values
      PROVE  pc'[j][r] = RoundValue(r)' /\ pv'[j][r] \in Values /\ Enough(Voted(pv', r))
  <2>1. CASE pc'[j][r] = pc[j][r]
    BY SMT, <1>1, <1>3, <2>1, EnoughStays, VotesStay, ConsensusAssumption DEF VotesForProposal
  <2>2. CASE pc'[j][r] # pc[j][r]
    <3>1. PreCommits(i)
      BY Zenon, <2>2 DEF Kinds, Proposes, PreVotes, VotesNextRound, VotesNextHeight,
                  EntersRound, Commits, Other
    <3>2. j = i /\ r = round[i]
      BY SMT, <2>2, <3>1 DEF PreCommits, TypeOK
    <3>3. /\ Enough(Voted(pv, r))
          /\ pc'[j][r] \in GetProposal(pv, Voted(pv, r), r)
      BY SMT, <1>3, <3>1, <3>2, ConsensusAssumption DEF PreCommits, TypeOK
    <3>4. PICK k \in Validators : pc'[j][r] = pv[k][r]
      BY ZenonT(60), <3>3, VotesAreValues
    <3>5. pv[j][r] \in Values /\ pv'[j][r] = pv[j][r]
      BY SMT, <1>3, <3>1, <3>2, ConsensusAssumption DEF PreCommits, AtPreVote, TypeOK
    <3> QED
      BY Zenon, <1>1, <1>3, <3>3, <3>4, <3>5, EnoughStays DEF VotesForProposal
  <2> QED
    BY Zenon, <2>1, <2>2
<1>4. ASSUME NEW j \in Validators, NEW r \in Rounds, nh'[j][r] # None
      PROVE  nh'[j][r] = RoundValue(r)' /\ Enough(Voted(pc', r))
  <2>1. CASE nh'[j][r] = nh[j][r]
    <3>1. nh[j][r] \in Values
      BY SMT, <1>4, <2>1 DEF TypeOK
    <3> QED
      BY Zenon, <1>1, <1>4, <2>1, <3>1, EnoughStays DEF VotesForProposal
  <2>2. CASE nh'[j][r] # nh[j][r]
    <3>1. PICK s \in Rounds, v \in Values : VotesNextHeight(i, s, v)
      BY Zenon, <2>2 DEF Kinds, Proposes, PreVotes, PreCommits, VotesNextRound,
                  EntersRound, Commits, Other
    <3>2. j = i /\ r = s /\ nh'[j][r] = v
      BY Zenon, <2>2, <3>1 DEF VotesNextHeight, TypeOK
    <3>3. CASE Enough(Voted(pc, s)) /\ v \in GetProposal(pc, Voted(pc, s), s)
      <4>1. PICK k \in Validators : v = pc[k][s]
        BY Zenon, <3>3, VotesAreValues
      <4> QED
        BY Zenon, <1>1, <3>2, <3>3, <4>1, EnoughStays DEF VotesForProposal
    <3>4. CASE \E k \in Validators : nh[k][s] = v
      BY ZenonT(60), <1>1, <3>2, <3>4, EnoughStays, ConsensusAssumption DEF VotesForProposal
    <3> QED
      BY Zenon, <3>1, <3>3, <3>4 DEF VotesNextHeight
  <2> QED
    BY Zenon, <2>1, <2>2
<1> QED
  BY Zenon, <1>2, <1>3, <1>4 DEF VotesForProposal

(* A node votes in the round it is in.                                     *)
LEMMA NewVotes ==
  ASSUME TypeOK, NEW i \in Validators, Kinds(i), NEW j \in Validators, NEW r \in Rounds
  PROVE  /\ pv'[j][r] # pv[j][r] => j = i /\ r = round[i] /\ PreVotes(i)
         /\ pc'[j][r] # pc[j][r] => j = i /\ r = round[i] /\ PreCommits(i)
         /\ nr'[j][r] /\ ~nr[j][r] => j = i /\ r = round[i] /\ VotesNextRound(i)
         /\ prop'[r] # prop[r] => Proposer[r] = i /\ r = round[i] /\ Proposes(i)
         /\ round'[j] # round[j] =>
              j = i /\ round'[j] \in Rounds /\ EntersRound(i, round'[j])
<1>1. CASE Proposes(i)
  BY ZenonT(60), <1>1 DEF Proposes, TypeOK
<1>2. CASE PreVotes(i)
  <2>1. \E v : pv' = [pv EXCEPT ![i][round[i]] = v]
    BY Zenon, <1>2 DEF PreVotes
  <2> QED
    BY <1>2, <2>1 DEF PreVotes, TypeOK
<1>3. CASE PreCommits(i)
  <2>1. \E v : pc' = [pc EXCEPT ![i][round[i]] = v]
    BY Zenon, <1>3 DEF PreCommits
  <2>2. UNCHANGED <<round, prop, pv, nr>>
    BY Zenon, <1>3 DEF PreCommits
  <2> QED
    BY <1>3, <2>1, <2>2 DEF TypeOK
<1>4. CASE VotesNextRound(i)
  BY ZenonT(60), <1>4 DEF VotesNextRound, TypeOK
<1>5. CASE \E s \in Rounds, v \in Values : VotesNextHeight(i, s, v)
  BY Zenon, <1>5 DEF VotesNextHeight
<1>6. CASE \E s \in Rounds : EntersRound(i, s)
  BY ZenonT(60), <1>6 DEF EntersRound, TypeOK
<1>7. CASE \E v \in Values : Commits(i, v)
  BY ZenonT(60), <1>7 DEF Commits
<1>8. CASE Other(i)
  BY Zenon, <1>8 DEF Other
<1> QED
  BY ZenonT(60), <1>1, <1>2, <1>3, <1>4, <1>5, <1>6, <1>7, <1>8 DEF Kinds

(* No node votes in a round it has not entered.                            *)
LEMMA NoVoteAheadStep ==
  ASSUME TypeOK, NoVoteAhead, NEW i \in Validators, Kinds(i)
  PROVE  NoVoteAhead'
<1> SUFFICES ASSUME NEW j \in Validators, NEW r \in Rounds, r > round'[j]
             PROVE  pv'[j][r] = None /\ pc'[j][r] = None /\ ~nr'[j][r]
  BY Zenon DEF NoVoteAhead
<1>1. round[j] \in Nat /\ round'[j] >= round[j]
  BY VotesStay DEF TypeOK, Rounds
<1>2. r > round[j]
  <2>1. CASE round'[j] = round[j]
    BY Zenon, <2>1
  <2>2. CASE round'[j] # round[j]
    BY <1>1, <2>2, NewVotes DEF Rounds
  <2> QED
    BY Zenon, <2>1, <2>2
<1>3. pv[j][r] = None /\ pc[j][r] = None /\ ~nr[j][r]
  BY Zenon, <1>2 DEF NoVoteAhead
<1>4. r # round[j]
  BY SMT, <1>1, <1>2
<1> QED
  BY SMT, <1>3, <1>4, NewVotes

(* Before the dead block round, a node without a NextHeight is locked on   *)
(* the block it has precommitted.                                          *)
LEMMA LockIsPreCommitStep ==
  ASSUME TypeOK, VotesForProposal, LockIsPreCommit, PreVotesHoldLock, NoVoteAhead,
         NEW i \in Validators, Kinds(i)
  PROVE  LockIsPreCommit'
<1> SUFFICES ASSUME NEW j \in Validators, NEW r \in Early,
                    round'[j] \in Early, \A s \in Early : nh'[j][s] = None,
                    pc'[j][r] \in Values
             PROVE  locked'[j] = pc'[j][r]
  BY Zenon DEF LockIsPreCommit, Early, Rounds
<1>1. r \in Rounds /\ round[j] \in Rounds /\ round'[j] \in Rounds
  BY Zenon DEF Early, TypeOK
<1>2. round[j] \in Early
  BY SMT, <1>1, VotesStay, ConsensusAssumption DEF Early, Rounds
<1>3. \A s \in Early : nh[j][s] = None
  BY Zenon, VotesStay DEF Early
<1>4. CASE pc'[j][r] = pc[j][r]
  <2>1. locked[j] = pc[j][r]
    BY Zenon, <1>2, <1>3, <1>4 DEF LockIsPreCommit
  <2>2. CASE locked'[j] = locked[j]
    BY Zenon, <1>4, <2>1, <2>2
  <2>3. CASE PreVotes(i)
    BY Zenon, <1>2, <1>4, <2>1, <2>3 DEF PreVotes, Early, TypeOK
  <2>4. CASE PreCommits(i) /\ j = i /\ locked'[j] # locked[j]
    <3>1. /\ pv[j][round[j]] \in Values
          /\ locked'[j] \in GetProposal(pv, Voted(pv, round[j]), round[j])
      BY SMT, <2>4 DEF PreCommits, AtPreVote, TypeOK
    <3>2. locked'[j] \in Values /\ locked'[j] = pv[j][round[j]]
      BY SMT, <1>1, <3>1, VotesAreValues DEF VotesForProposal
    <3>3. r <= round[j] /\ r # round[j]
      <4>1. pc[j][r] # None
        BY Zenon, <1>4, ConsensusAssumption
      <4>2. r # round[j]
        BY Zenon, <2>4, <4>1 DEF PreCommits, AtPreVote
      <4> QED
        BY SMT, <1>1, <4>1, <4>2 DEF NoVoteAhead, Rounds
    <3>4. r < round[j]
      BY <1>1, <3>3 DEF Rounds
    <3> QED
      BY ZenonT(60), <1>2, <1>4, <3>1, <3>2, <3>4 DEF PreVotesHoldLock
  <2>5. CASE \E s \in Rounds, v \in Values : VotesNextHeight(i, s, v)
    <3>1. PICK s \in Rounds, v \in Values : VotesNextHeight(i, s, v)
      BY Zenon, <2>5
    <3>2. CASE j = i
      <4>1. s \in NHRounds(round[j])
        BY Zenon, <1>1, <3>1, <3>2, RoundCounts DEF VotesNextHeight
      <4>2. s \in Early
        BY Zenon, <1>2, <4>1 DEF NHRounds, Early
      <4>3. nh'[j][s] = v
        BY Zenon, <3>1, <3>2 DEF VotesNextHeight, TypeOK
      <4> QED
        BY Zenon, <4>2, <4>3, ConsensusAssumption
    <3>3. CASE j # i
      BY Zenon, <1>4, <2>1, <3>1, <3>3 DEF VotesNextHeight, TypeOK
    <3> QED
      BY Zenon, <3>2, <3>3
  <2>6. CASE PreCommits(i) /\ j # i
    BY Zenon, <1>4, <2>1, <2>6 DEF PreCommits, TypeOK
  <2> QED
    BY Zenon, <2>2, <2>3, <2>4, <2>5, <2>6
    DEF Kinds, Proposes, VotesNextRound, EntersRound, Commits, Other
<1>5. CASE pc'[j][r] # pc[j][r]
  <2>1. j = i /\ r = round[i] /\ PreCommits(i)
    BY SMT, <1>1, <1>5, NewVotes
  <2> QED
    BY SMT, <1>5, <2>1, ConsensusAssumption DEF PreCommits, TypeOK
<1> QED
  BY Zenon, <1>4, <1>5

(* A prevote after a precommit is for the same block.                      *)
LEMMA PreVotesHoldLockStep ==
  ASSUME TypeOK, LockIsPreCommit, PreVotesHoldLock, NoVoteAhead,
         NEW i \in Validators, Kinds(i)
  PROVE  PreVotesHoldLock'
<1> SUFFICES ASSUME NEW j \in Validators, NEW r \in Early, NEW s \in Early, r < s,
                    pc'[j][r] \in Values, pv'[j][s] \in Values
             PROVE  pv'[j][s] = pc'[j][r]
  BY ZenonT(60) DEF PreVotesHoldLock, Early, Rounds
<1>1. r \in Rounds /\ s \in Rounds /\ r \in Nat /\ s \in Nat
  BY SMT DEF Early, Rounds
<1>2. CASE pv'[j][s] = pv[j][s] /\ pc'[j][r] = pc[j][r]
  BY Zenon, <1>2 DEF PreVotesHoldLock
<1>3. CASE pc'[j][r] # pc[j][r]
  <2>1. j = i /\ r = round[j] /\ PreCommits(i)
    BY SMT, <1>1, <1>3, NewVotes
  <2>2. pv[j][s] = None
    BY Zenon, <1>1, <2>1 DEF NoVoteAhead
  <2> QED
    BY Zenon, <2>1, <2>2, ConsensusAssumption DEF PreCommits
<1>4. CASE pv'[j][s] # pv[j][s]
  <2>1. j = i /\ s = round[j] /\ PreVotes(i)
    BY <1>1, <1>4, NewVotes
  <2>2. \A q \in Early : nh[j][q] = None
    BY Zenon, <2>1 DEF PreVotes, AtProposal, InRound, NoNextHeight, OwnNH, NHRounds, Early
  <2>3. pc[j][r] = pc'[j][r]
    BY Zenon, <2>1 DEF PreVotes
  <2>4. locked[j] = pc[j][r]
    BY Zenon, <2>1, <2>2, <2>3 DEF LockIsPreCommit
  <2>5. pv'[j][s] = prop[s] /\ locked[j] \in {None, prop[s]}
    BY <2>1, ConsensusAssumption DEF PreVotes, TypeOK, Early
  <2> QED
    BY Zenon, <2>3, <2>4, <2>5, ConsensusAssumption
<1> QED
  BY Zenon, <1>2, <1>3, <1>4

(* A round is entered, and anything sent in it, after enough NextRounds of *)
(* the one before.                                                         *)
LEMMA RoundsJustifiedStep ==
  ASSUME TypeOK, RoundsJustified, NEW i \in Validators, Kinds(i)
  PROVE  RoundsJustified'
<1> SUFFICES ASSUME NEW j \in Validators, NEW r \in Rounds, r > 1,
                    round'[j] = r \/ Announced(j, r)'
             PROVE  Enough(NextRounds(r - 1)')
  BY Zenon DEF RoundsJustified
<1>1. r - 1 \in Rounds
  BY SMT, ConsensusAssumption DEF Rounds
<1> SUFFICES Enough(NextRounds(r - 1))
  BY Zenon, <1>1, EnoughStays
<1>2. CASE round'[j] = r
  <2>1. CASE round[j] = r
    BY Zenon, <2>1 DEF RoundsJustified
  <2>2. CASE round[j] # r
    <3>1. EntersRound(i, r) /\ round[i] \in Rounds
      BY ZenonT(60), <1>2, <2>2, NewVotes DEF TypeOK
    <3>2. CASE r = round[i] + 1 /\ Enough(NextRounds(round[i]))
      <4>1. round[i] = r - 1
        BY <3>1, <3>2 DEF Rounds
      <4> QED
        BY Zenon, <3>2, <4>1
    <3>3. CASE \E k \in Validators : Announced(k, r)
      BY Zenon, <3>3 DEF RoundsJustified
    <3> QED
      BY Zenon, <3>1, <3>2, <3>3 DEF EntersRound
  <2> QED
    BY Zenon, <2>1, <2>2
<1>3. CASE Announced(j, r)'
  <2>1. CASE Announced(j, r)
    BY Zenon, <2>1 DEF RoundsJustified
  <2>2. CASE ~Announced(j, r)
    <3>1. pv'[j][r] # pv[j][r] \/ (prop'[r] # prop[r] /\ Proposer[r] = j)
      BY Zenon, <1>3, <2>2 DEF Announced
    <3>2. j = i /\ r = round[i]
      BY ZenonT(60), <3>1, NewVotes
    <3> QED
      BY Zenon, <3>2 DEF RoundsJustified
  <2> QED
    BY Zenon, <2>1, <2>2
<1> QED
  BY Zenon, <1>2, <1>3

(* A committed block has enough NextHeights, of one side of the dead block round.*)
LEMMA CommitsJustifiedStep ==
  ASSUME TypeOK, CommitsJustified, NEW i \in Validators, Kinds(i)
  PROVE  CommitsJustified'
<1> SUFFICES ASSUME NEW j \in Validators, committed'[j] # None
             PROVE  \E S \in {{DEADBLOCKROUND}, Early} :
                      Enough(VotedIn(nh', S, committed'[j]))
  BY Zenon DEF CommitsJustified, Early, Rounds
<1> DEFINE Justified(v) == \E S \in {{DEADBLOCKROUND}, Early} : Enough(VotedIn(nh, S, v))
<1>1. ASSUME NEW v \in Values, Justified(v)
      PROVE  \E S \in {{DEADBLOCKROUND}, Early} : Enough(VotedIn(nh', S, v))
  <2>1. {DEADBLOCKROUND} \in SUBSET Rounds /\ Early \in SUBSET Rounds
    BY Zenon, RoundCounts DEF Early
  <2> QED
    BY Zenon, <1>1, <2>1, EnoughStays
<1>2. \A k \in Validators : committed[k] # None =>
        committed[k] \in Values /\ Justified(committed[k])
  BY ZenonT(60) DEF CommitsJustified, TypeOK
<1>3. CASE committed'[j] = committed[j]
  BY ZenonT(60), <1>1, <1>2, <1>3
<1>4. CASE committed'[j] # committed[j]
  <2>1. PICK v \in Values : Commits(i, v)
    BY Zenon, <1>4 DEF Kinds, Proposes, PreVotes, PreCommits, VotesNextRound,
                VotesNextHeight, EntersRound, Other
  <2>2. committed'[j] = v
    BY Zenon, <1>4, <2>1 DEF Commits, TypeOK
  <2>3. NHRounds(round[i]) \in {{DEADBLOCKROUND}, Early}
    BY Zenon DEF NHRounds, Early
  <2>4. Justified(v)
    BY Zenon, <1>2, <2>1, <2>3, ConsensusAssumption DEF Commits
  <2> QED
    BY Zenon, <1>1, <2>2, <2>4
<1> QED
  BY Zenon, <1>3, <1>4

(* When the timeout before the dead block round outlasts the precommits,   *)
(* no node has both a NextHeight and a vote for the dead block round.      *)
LEMMA DeadBlockRoundWaitsStep ==
  ASSUME TypeOK, NoVoteAhead, DeadBlockRoundWaits, NEW i \in Validators, Kinds(i)
  PROVE  DeadBlockRoundWaits'
<1> DEFINE R == DEADBLOCKROUNDNR
<1> SUFFICES ASSUME DBRNRWait, TxsAvailable, NEW k \in Validators, nr'[k][R]
             PROVE  /\ ~Enough(Voted(pc', R))
                    /\ \A j \in Validators : pc'[j][R] # None \/ down'[j]
                    /\ \A s \in Early : nh'[k][s] = None
  BY Zenon DEF DeadBlockRoundWaits, Early, Rounds, DEADBLOCKROUNDNR
<1>1. R \in Rounds /\ R \in Early /\ round[k] \in Rounds
  BY Zenon, RoundCounts DEF Early, TypeOK
<1>2. CASE ~nr[k][R]
  <2>1. k = i /\ R = round[i] /\ VotesNextRound(i)
    BY Zenon, <1>1, <1>2, NewVotes
  <2>2. \A s \in Early : nh[k][s] = None
    BY Zenon, <1>1, <2>1 DEF VotesNextRound, AtPreCommit, InRound, NoNextHeight, OwnNH,
                      NHRounds, Early
  <2> QED
    BY Zenon, <2>1, <2>2 DEF VotesNextRound
<1>3. CASE nr[k][R]
  <2>1. /\ ~Enough(Voted(pc, R))
        /\ \A j \in Validators : pc[j][R] # None \/ down[j]
        /\ \A s \in Early : nh[k][s] = None
    BY Zenon, <1>3 DEF DeadBlockRoundWaits
  <2>2. \A j \in Validators : pc'[j][R] = pc[j][R]
    <3>1. SUFFICES ASSUME NEW j \in Validators, pc'[j][R] # pc[j][R] PROVE FALSE
      BY Zenon
    <3>2. j = i /\ R = round[i] /\ PreCommits(i)
      BY SMT, <1>1, <3>1, NewVotes
    <3>3. pc[j][R] = None /\ ~down[j]
      BY Zenon, <3>2 DEF PreCommits, AtPreVote, InRound, NoNextHeight, NoDBRNextRound,
                  NoDBRJump, NoHeightJump, Running
    <3> QED
      BY Zenon, <2>1, <3>3
  <2>3. ~Enough(Voted(pc', R))
    <3>1. Voted(pc', R) = Voted(pc, R)
      BY ZenonT(60), <2>2 DEF Voted
    <3> QED
      BY Zenon, <2>1, <3>1
  <2>4. \A j \in Validators : pc'[j][R] # None \/ down'[j]
    BY SMT, <2>1, <2>2, VotesStay
  <2>5. \A s \in Early : nh'[k][s] = None
    <3>1. SUFFICES ASSUME NEW s \in Early, nh'[k][s] # nh[k][s] PROVE FALSE
      BY Zenon, <2>1
    <3>2. PICK q \in Rounds, v \in Values : VotesNextHeight(i, q, v)
      BY Zenon, <3>1 DEF Kinds, Proposes, PreVotes, PreCommits, VotesNextRound,
                  EntersRound, Commits, Other
    <3>3. k = i /\ q = s
      BY Zenon, <3>1, <3>2 DEF VotesNextHeight, TypeOK, Early
    <3>4. R <= round[k]
      BY SMT, <1>1, <1>3 DEF NoVoteAhead, Rounds
    <3>5. q \in NHRounds(round[k])
      BY Zenon, <1>1, <3>2, <3>3, RoundCounts DEF VotesNextHeight
    <3>6. round[k] # DEADBLOCKROUND
      BY Zenon, <3>3, <3>5 DEF NHRounds, Early
    <3>7. round[k] = R
      BY <1>1, <3>4, <3>6, ConsensusAssumption DEF Rounds, DEADBLOCKROUNDNR
    <3> QED
      BY Zenon, <1>3, <2>1, <3>2, <3>3, <3>7 DEF VotesNextHeight
  <2> QED
    BY ZenonT(60), <2>3, <2>4, <2>5
<1> QED
  BY Zenon, <1>2, <1>3

-----------------------------------------------------------------------------
(* The theorems.                                                           *)

(* The inductive invariant holds at the start of a height.                 *)
LEMMA InvInit == Init => Inv
<1> SUFFICES ASSUME Init PROVE Inv
  BY Zenon
<1>1. TypeOK
  BY SMT, ConsensusAssumption DEF Init, TypeOK, Rounds
<1>2. VotesForProposal /\ NoVoteAhead /\ LockIsPreCommit /\ PreVotesHoldLock
  BY Zenon, ConsensusAssumption
  DEF Init, VotesForProposal, NoVoteAhead, LockIsPreCommit, PreVotesHoldLock, Early
<1>3. RoundsJustified
  BY DEF Init, RoundsJustified, Announced
<1>4. CommitsJustified
  BY Zenon DEF Init, CommitsJustified
<1>5. DeadBlockRoundWaits
  BY Zenon, RoundCounts DEF Init, DeadBlockRoundWaits
<1> QED
  BY Zenon, <1>1, <1>2, <1>3, <1>4, <1>5 DEF Inv

(* Every step of the engine preserves the inductive invariant.             *)
LEMMA InvStep == Inv /\ TypeOK' /\ [Next]_vars => Inv'
<1> SUFFICES ASSUME Inv, TypeOK', [Next]_vars PROVE Inv'
  OBVIOUS
<1>1. PICK i \in Validators : Kinds(i)
  <2>1. CASE Next
    BY Zenon, <2>1, StepKinds DEF Next, Inv
  <2>2. CASE UNCHANGED vars
    <3>1. Proposer[DEADBLOCKROUND] \in Validators
      BY Zenon, RoundCounts, ConsensusAssumption
    <3>2. Other(Proposer[DEADBLOCKROUND])
      BY Zenon, <2>2 DEF vars, Other
    <3> QED
      BY Zenon, <3>1, <3>2 DEF Kinds
  <2> QED
    BY Zenon, <2>1, <2>2
<1> QED
  BY Zenon, <1>1, VotesForProposalStep, NoVoteAheadStep, LockIsPreCommitStep,
     PreVotesHoldLockStep, RoundsJustifiedStep, CommitsJustifiedStep,
     DeadBlockRoundWaitsStep DEF Inv

(* The inductive invariant holds in every run of the engine.               *)
THEOREM InvHolds == Spec => []Inv
  BY TypeCorrect, InvInit, InvStep, PTL DEF Spec

(* Before the dead block round, a block with enough precommits is the only *)
(* one with enough prevotes in any later round.                            *)
LEMMA PreCommitsDecide ==
  ASSUME Inv, NEW r \in Early, NEW s \in Early, r < s,
         Enough(Voted(pc, r)), Enough(Voted(pv, s))
  PROVE  RoundValue(r) = RoundValue(s)
<1>1. r \in Rounds /\ s \in Rounds
  BY Zenon DEF Early
<1>2. PICK k \in Validators : k \in Voted(pc, r) /\ k \in Voted(pv, s)
  BY Zenon, QuorumsMeet DEF Voted
<1>3. pc[k][r] \in Values /\ pv[k][s] \in Values
  BY Zenon, <1>2 DEF Voted
<1>4. pv[k][s] = pc[k][r]
  BY Zenon, <1>3 DEF Inv, PreVotesHoldLock
<1> QED
  BY Zenon, <1>1, <1>3, <1>4 DEF Inv, VotesForProposal

(* The inductive invariant makes the NextHeights agree,                    *)
LEMMA NextHeightsAgreeInv == Inv => NextHeightAgreement
<1> SUFFICES ASSUME Inv PROVE NextHeightAgreement
  BY Zenon
<1>1. ASSUME NEW i \in Validators, NEW r \in Early, nh[i][r] # None
      PROVE  /\ nh[i][r] = RoundValue(r) /\ r \in Rounds /\ r \in Nat
             /\ Enough(Voted(pc, r)) /\ Enough(Voted(pv, r))
  <2>1. r \in Rounds /\ r \in Nat
    BY SMT DEF Early, Rounds
  <2>2. nh[i][r] = RoundValue(r) /\ Enough(Voted(pc, r))
    BY Zenon, <1>1, <2>1 DEF Inv, VotesForProposal
  <2>3. PICK k \in Validators : k \in Voted(pc, r)
    BY Zenon, <2>2, EnoughNotEmpty DEF Voted
  <2> QED
    BY Zenon, <2>1, <2>2, <2>3 DEF Inv, VotesForProposal, Voted
<1>2. ASSUME NEW i \in Validators, NEW j \in Validators, NEW r \in Early, NEW s \in Early,
             nh[i][r] # None, nh[j][s] # None
      PROVE  nh[i][r] = nh[j][s]
  <2>1. CASE r = s
    BY Zenon, <1>1, <1>2, <2>1
  <2>2. CASE r < s
    BY ZenonT(60), <1>1, <1>2, <2>2, PreCommitsDecide
  <2>3. CASE s < r
    BY ZenonT(60), <1>1, <1>2, <2>3, PreCommitsDecide
  <2> QED
    BY SMT, <1>1, <1>2, <2>1, <2>2, <2>3
<1> QED
  BY <1>2 DEF NextHeightAgreement, Early

(* NextHeights of any two rounds before the dead block round name the same *)
(* block, however votes are delayed: a node may follow the first one it    *)
(* sees.                                                                   *)
THEOREM NextHeightsAgree == Spec => []NextHeightAgreement
  BY InvHolds, NextHeightsAgreeInv, PTL

(* makes the locks hold,                                                   *)
LEMMA LocksHoldInv == Inv => LockHolds
<1> SUFFICES ASSUME Inv, NEW i \in Validators, NEW r \in Early, NEW s \in Early, r < s,
                    pc[i][r] \in Values
             PROVE  /\ pv[i][s] \in {None, Nil, pc[i][r]}
                    /\ pc[i][s] \in {None, Nil, pc[i][r]}
  BY ZenonT(60) DEF LockHolds, Early
<1>1. s \in Rounds
  BY ZenonT(60) DEF Early
<1>2. pv[i][s] \in Values => pv[i][s] = pc[i][r]
  BY Zenon DEF Inv, PreVotesHoldLock
<1>3. pc[i][s] \in Values => pc[i][s] = pc[i][r]
  BY Zenon, <1>1, <1>2 DEF Inv, VotesForProposal
<1> QED
  BY SMT, <1>1, <1>2, <1>3 DEF Inv, TypeOK

(* Until the dead block round, a node votes only for the block it has      *)
(* precommitted.                                                           *)
THEOREM LocksHold == Spec => []LockHolds
  BY InvHolds, LocksHoldInv, PTL

(* and justifies every vote.                                               *)
LEMMA VotesJustifiedInv == Inv => VotesJustified
<1> SUFFICES ASSUME Inv PROVE VotesJustified
  OBVIOUS
<1>1. ASSUME NEW i \in Validators, NEW r \in Rounds, NEW v \in Values, pc[i][r] = v
      PROVE  TwoThirds(For(pv, v, r))
  <2>1. Voted(pv, r) \subseteq For(pv, v, r) /\ For(pv, v, r) \subseteq Validators
    BY ZenonT(60), <1>1 DEF Inv, VotesForProposal, Voted, For
  <2>2. Enough(Voted(pv, r))
    BY Zenon, <1>1 DEF Inv, VotesForProposal
  <2> QED
    BY Zenon, <2>1, <2>2, EnoughMonotone, EnoughIsTwoThirds
<1>2. ASSUME NEW i \in Validators, NEW r \in Rounds, NEW v \in Values, nh[i][r] = v
      PROVE  TwoThirds(For(pc, v, r))
  <2>1. nh[i][r] # None
    BY Zenon, <1>2, ConsensusAssumption
  <2>2. Voted(pc, r) \subseteq For(pc, v, r) /\ For(pc, v, r) \subseteq Validators
    BY ZenonT(60), <1>2, <2>1 DEF Inv, VotesForProposal, Voted, For
  <2>3. Enough(Voted(pc, r))
    BY Zenon, <1>2, <2>1 DEF Inv, VotesForProposal
  <2> QED
    BY Zenon, <2>2, <2>3, EnoughMonotone, EnoughIsTwoThirds
<1>3. ASSUME NEW i \in Validators, round[i] > 1
      PROVE  TwoThirds(NextRounds(round[i] - 1))
  <2>1. Enough(NextRounds(round[i] - 1))
    BY Zenon, <1>3 DEF Inv, TypeOK, RoundsJustified
  <2> QED
    BY Zenon, <2>1, EnoughIsTwoThirds DEF NextRounds
<1>4. ASSUME NEW i \in Validators, committed[i] # None
      PROVE  \E S \in {{DEADBLOCKROUND}, Rounds \ {DEADBLOCKROUND}} :
               TwoThirds({j \in Validators : \E s \in S : nh[j][s] = committed[i]})
  <2>1. PICK S \in {{DEADBLOCKROUND}, Early} : Enough(VotedIn(nh, S, committed[i]))
    BY Zenon, <1>4 DEF Inv, CommitsJustified
  <2>2. TwoThirds(VotedIn(nh, S, committed[i]))
    BY Zenon, <2>1, EnoughIsTwoThirds DEF VotedIn
  <2> QED
    BY ZenonT(60), <2>1, <2>2 DEF VotedIn, Early
<1> QED
  BY ZenonT(60), <1>1, <1>2, <1>3, <1>4 DEF VotesJustified

(* Every precommit, NextHeight, round and commit rests on more than two    *)
(* thirds of the validators, for any number of them.                       *)
THEOREM AllVotesJustified == Spec => []VotesJustified
  BY InvHolds, VotesJustifiedInv, PTL

(* NextHeights of the dead block round exist only when enough nodes have   *)
(* left the round before it.                                               *)
LEMMA DeadBlockRoundEntered ==
  ASSUME Inv, NEW i \in Validators, nh[i][DEADBLOCKROUND] # None
  PROVE  Enough(NextRounds(DEADBLOCKROUNDNR)) /\ nh[i][DEADBLOCKROUND] = EmptyBlock
<1> DEFINE D == DEADBLOCKROUND
<1>1. D \in Rounds /\ D > 1
  BY SMT, RoundCounts, ConsensusAssumption
<1>2. nh[i][D] = RoundValue(D) /\ Enough(Voted(pc, D))
  BY ZenonT(60), <1>1 DEF Inv, VotesForProposal
<1>3. PICK j \in Validators : j \in Voted(pc, D)
  BY Zenon, <1>2, EnoughNotEmpty DEF Voted
<1>4. pv[j][D] \in Values
  BY ZenonT(60), <1>1, <1>3 DEF Inv, VotesForProposal, Voted
<1>5. Announced(j, D)
  BY Zenon, <1>4, ConsensusAssumption DEF Announced
<1> QED
  BY Zenon, <1>1, <1>2, <1>5 DEF Inv, RoundsJustified, RoundValue, DEADBLOCKROUNDNR

(* With the wait before the dead block round it makes the commits agree.   *)
LEMMA AgreementInv ==
  ASSUME DBRNRWait, TxsAvailable, Inv
  PROVE  Agreement
<1> DEFINE D == {DEADBLOCKROUND}
<1>1. ASSUME NEW i \in Validators, committed[i] # None, Enough(VotedIn(nh, D, committed[i]))
      PROVE  committed[i] = EmptyBlock /\ Enough(NextRounds(DEADBLOCKROUNDNR))
  <2>1. PICK k \in Validators : k \in VotedIn(nh, D, committed[i])
    BY Zenon, <1>1, EnoughNotEmpty DEF VotedIn
  <2> QED
    BY Zenon, <1>1, <2>1, DeadBlockRoundEntered DEF VotedIn
<1>2. ASSUME NEW i \in Validators, committed[i] # None, Enough(VotedIn(nh, Early, committed[i]))
      PROVE  ~Enough(NextRounds(DEADBLOCKROUNDNR))
  <2>1. SUFFICES ASSUME Enough(NextRounds(DEADBLOCKROUNDNR)) PROVE FALSE
    OBVIOUS
  <2>2. PICK k \in Validators : /\ k \in NextRounds(DEADBLOCKROUNDNR)
                                /\ k \in VotedIn(nh, Early, committed[i])
    BY Zenon, <1>2, <2>1, QuorumsMeet DEF NextRounds, VotedIn
  <2> QED
    BY Zenon, <1>2, <2>2 DEF Inv, DeadBlockRoundWaits, NextRounds, VotedIn
<1>3. ASSUME NEW i \in Validators, committed[i] # None, Enough(VotedIn(nh, Early, committed[i]))
      PROVE  \E k \in Validators, s \in Early : nh[k][s] = committed[i]
  <2>1. PICK k \in Validators : k \in VotedIn(nh, Early, committed[i])
    BY Zenon, <1>3, EnoughNotEmpty DEF VotedIn
  <2> QED
    BY Zenon, <2>1 DEF VotedIn
<1>4. \A i \in Validators : committed[i] # None =>
        Enough(VotedIn(nh, D, committed[i])) \/ Enough(VotedIn(nh, Early, committed[i]))
  BY Zenon DEF Inv, CommitsJustified
<1>5. NextHeightAgreement
  BY Zenon, NextHeightsAgreeInv
<1> HIDE DEF D
<1>6. ASSUME NEW i \in Validators, NEW j \in Validators,
             committed[i] # None, committed[j] # None
      PROVE  committed[i] = committed[j]
  <2>1. CASE Enough(VotedIn(nh, D, committed[i]))
    BY Zenon, <1>1, <1>2, <1>4, <1>6, <2>1
  <2>2. CASE Enough(VotedIn(nh, Early, committed[i]))
    BY SMT, <1>1, <1>2, <1>3, <1>4, <1>5, <1>6, <2>2 DEF NextHeightAgreement, Early
  <2> QED
    BY Zenon, <1>4, <1>6, <2>1, <2>2
<1> QED
  BY Zenon, <1>6 DEF Agreement

(* When the timeout before the dead block round outlasts the precommits of *)
(* the validators that run, no two validators commit different blocks.     *)
THEOREM OneBlockPerHeight ==
  ASSUME DBRNRWait, TxsAvailable
  PROVE  Spec => []Agreement
<1>1. Inv => Agreement
  BY Zenon, AgreementInv
<1> QED
  BY <1>1, InvHolds, PTL

(* The engine then implements the abstract consensus of a height.          *)
THEOREM ImplementsFinality ==
  ASSUME DBRNRWait, TxsAvailable
  PROVE  Spec => HeightFinality
<1>1. Init => Height!Init
  BY Zenon DEF Init, Height!Init
<1>2. Inv /\ Agreement' /\ [Next]_vars => [Height!Next]_committed
  <2> SUFFICES ASSUME Inv, Agreement', Next, committed' # committed
               PROVE  Height!Next
    BY Zenon DEF vars
  <2>1. PICK i \in Validators : Kinds(i)
    BY Zenon, StepKinds DEF Next, Inv
  <2>2. PICK v \in Values : Commits(i, v)
    BY Zenon, <2>1 DEF Kinds, Proposes, PreVotes, PreCommits, VotesNextRound,
                VotesNextHeight, EntersRound, Other
  <2>3. committed[i] = None /\ committed' = [committed EXCEPT ![i] = v]
    BY ZenonT(60), <2>2 DEF Commits, Running
  <2>4. committed'[i] = v /\ \A j \in Validators : j # i => committed'[j] = committed[j]
    BY Zenon, <2>3 DEF Inv, TypeOK
  <2>5. v # None
    BY Zenon, <2>2, ConsensusAssumption
  <2>6. \A j \in Validators : committed[j] \in {None, v}
    BY Zenon, <2>3, <2>4, <2>5 DEF Agreement
  <2> QED
    BY ZenonT(60), <2>3, <2>6 DEF Height!Next, Height!Commit
<1> QED
  BY <1>1, <1>2, InvHolds, OneBlockPerHeight, PTL DEF Spec, HeightFinality, Height!Spec

-----------------------------------------------------------------------------
(* Stuck until consensus.                                                  *)

(* Only a node that is in the dead block round has a NextHeight of it.     *)
DeadBlockNextHeightInside ==
  \A i \in Validators : nh[i][DEADBLOCKROUND] # None => round[i] = DEADBLOCKROUND

(* A node follows no NextHeight into or out of the dead block round, and   *)
(* does not leave it.                                                      *)
LEMMA DeadBlockNextHeightInsideStep ==
  ASSUME TypeOK, DeadBlockNextHeightInside, NEW i \in Validators, Kinds(i)
  PROVE  DeadBlockNextHeightInside'
<1> SUFFICES ASSUME NEW j \in Validators, nh'[j][DEADBLOCKROUND] # None
             PROVE  round'[j] = DEADBLOCKROUND
  BY Zenon DEF DeadBlockNextHeightInside
<1>1. CASE nh'[j][DEADBLOCKROUND] = nh[j][DEADBLOCKROUND]
  <2>1. round[j] = DEADBLOCKROUND
    BY Zenon, <1>1 DEF DeadBlockNextHeightInside
  <2>2. round'[j] >= DEADBLOCKROUND
    BY Zenon, <2>1, VotesStay
  <2>3. round'[j] = round[j] \/ round'[j] \in Rounds
    BY Zenon, NewVotes, RoundCounts
  <2> QED
    BY SMT, <2>1, <2>2, <2>3, ConsensusAssumption DEF Rounds
<1>2. CASE nh'[j][DEADBLOCKROUND] # nh[j][DEADBLOCKROUND]
  <2>1. nh' # nh
    BY Zenon, <1>2
  <2>2. PICK s \in Rounds, v \in Values : VotesNextHeight(i, s, v)
    BY Zenon, <2>1 DEF Kinds, Proposes, PreVotes, PreCommits, VotesNextRound,
                EntersRound, Commits, Other
  <2>3. s \in NHRounds(round[i]) /\ round' = round /\ nh' = [nh EXCEPT ![i][s] = v]
    BY Zenon, <2>2, RoundCounts DEF VotesNextHeight, TypeOK
  <2>4. j = i /\ s = DEADBLOCKROUND
    BY <1>2, <2>3, RoundCounts DEF TypeOK
  <2> QED
    BY Zenon, <2>3, <2>4 DEF NHRounds
<1> QED
  BY Zenon, <1>1, <1>2

(* The step of another node leaves a node's votes and round alone.         *)
LEMMA OthersKeepVotes ==
  ASSUME TypeOK, NEW k \in Validators, Kinds(k), NEW i \in Validators, i # k
  PROVE  UNCHANGED <<pv[i], pc[i], nr[i], nh[i], round[i]>>
<1>1. CASE Proposes(k)
  BY Zenon, <1>1 DEF Proposes
<1>2. CASE PreVotes(k)
  BY Zenon, <1>2 DEF PreVotes, TypeOK
<1>3. CASE PreCommits(k)
  BY Zenon, <1>3 DEF PreCommits, TypeOK
<1>4. CASE VotesNextRound(k)
  BY Zenon, <1>4 DEF VotesNextRound, TypeOK
<1>5. CASE \E s \in Rounds, v \in Values : VotesNextHeight(k, s, v)
  BY Zenon, <1>5 DEF VotesNextHeight, TypeOK
<1>6. CASE \E s \in Rounds : EntersRound(k, s)
  BY Zenon, <1>6 DEF EntersRound, TypeOK
<1>7. CASE \E v \in Values : Commits(k, v)
  BY Zenon, <1>7 DEF Commits
<1>8. CASE Other(k)
  BY Zenon, <1>8 DEF Other
<1> QED
  BY Zenon, <1>1, <1>2, <1>3, <1>4, <1>5, <1>6, <1>7, <1>8 DEF Kinds

(* A NextHeight cast on top of another is refused.                         *)
LEMMA SecondNextHeightRefused ==
  ASSUME NEW i \in Validators, OwnNH(i), NEW s, NEW v, castNextHeight(i, s, v)
  PROVE  UNCHANGED nh
  BY Zenon DEF castNextHeight, NextHeightRefused

(* Before the dead block round, a node with a NextHeight only moves to the *)
(* dead block round, commits or stops.                                     *)
LEMMA StuckStep ==
  ASSUME TypeOK, NEW i \in Validators, OwnNH(i), round[i] # DEADBLOCKROUND,
         UpdateLocalState(i) \/ Sync(i) \/ Crash(i)
  PROVE  /\ UNCHANGED <<pv, pc, nr, nh>>
         /\ round'[i] \in {round[i], DEADBLOCKROUND}
<1>1. ~NoNextHeight(i) /\ ~InRound(i) /\ ~AtProposal(i) /\ ~AtPreVote(i) /\ ~AtPreCommit(i)
  BY Zenon DEF NoNextHeight, InRound, AtProposal, AtPreVote, AtPreCommit
<1>2. CASE doNextRoundStep(i)
  <2>1. round[i] = DEADBLOCKROUNDNR
    BY Zenon, <1>1, <1>2 DEF doNextRoundStep
  <2>2. UNCHANGED nh
    BY Zenon, <1>2, SecondNextHeightRefused DEF doNextRoundStep
  <2>3. round'[i] \in {round[i], round[i] + 1}
    BY <1>2 DEF doNextRoundStep, castNextRoundRCert, TypeOK
  <2>4. round[i] + 1 = DEADBLOCKROUND
    BY SMT, <2>1, ConsensusAssumption DEF DEADBLOCKROUNDNR
  <2> QED
    BY Zenon, <1>2, <2>2, <2>3, <2>4 DEF doNextRoundStep
<1>3. CASE doRoundJump(i)
  BY Zenon, <1>1, <1>3 DEF doRoundJump, TypeOK
<1>4. CASE doNextHeightStep(i) \/ doHeightJumpStep(i) \/ Sync(i) \/ Crash(i)
  BY Zenon, <1>4 DEF doNextHeightStep, doHeightJumpStep, Sync, Crash
<1> QED
  BY Zenon, <1>1, <1>2, <1>3, <1>4
  DEF UpdateLocalState, doPendingProposalStep, doPendingPreVoteStep, doPreVoteStep,
      doPreVoteNilStep, doPendingPreCommit, doPreCommitStep, doPreCommitNilStep,
      doPendingNext, castNextHeightFromNextHeight

(* "We are stuck here until consensus": doNextHeightStep's comment holds   *)
(* for any delivery of votes, with missing transactions and crashes.       *)
THEOREM NextHeightIsLast == Spec => StuckUntilConsensus
<1>1. Init => DeadBlockNextHeightInside
  <2> SUFFICES ASSUME Init, NEW i \in Validators
               PROVE  nh[i][DEADBLOCKROUND] = None
    BY Zenon DEF DeadBlockNextHeightInside
  <2>1. nh[i] = [r \in Rounds |-> None]
    BY Zenon DEF Init
  <2> QED
    BY Zenon, <2>1, RoundCounts
<1>2. TypeOK /\ DeadBlockNextHeightInside /\ [Next]_vars => DeadBlockNextHeightInside'
  <2> SUFFICES ASSUME TypeOK, DeadBlockNextHeightInside, [Next]_vars
               PROVE  DeadBlockNextHeightInside'
    OBVIOUS
  <2>1. CASE UNCHANGED vars
    BY Zenon, <2>1 DEF vars, DeadBlockNextHeightInside
  <2>2. CASE Next
    BY Zenon, <2>2, StepKinds, DeadBlockNextHeightInsideStep DEF Next
  <2> QED
    BY Zenon, <2>1, <2>2
<1>3. TypeOK /\ DeadBlockNextHeightInside /\ [Next]_vars =>
        [\A i \in Validators :
           /\ round[i] # DEADBLOCKROUND
           /\ \E s \in Rounds : nh[i][s] # None
           => /\ UNCHANGED <<pv[i], pc[i], nr[i], nh[i]>>
              /\ round'[i] \in {round[i], DEADBLOCKROUND}]_vars
  <2> SUFFICES ASSUME TypeOK, DeadBlockNextHeightInside, Next, NEW i \in Validators,
                      round[i] # DEADBLOCKROUND, NEW s \in Rounds, nh[i][s] # None
               PROVE  /\ UNCHANGED <<pv[i], pc[i], nr[i], nh[i]>>
                      /\ round'[i] \in {round[i], DEADBLOCKROUND}
    BY Zenon
  <2>1. PICK k \in Validators : UpdateLocalState(k) \/ Sync(k) \/ Crash(k)
    BY Zenon DEF Next
  <2>2. CASE k # i
    BY Zenon, <2>1, <2>2, StepKinds, OthersKeepVotes
  <2>3. CASE k = i
    <3>1. OwnNH(i)
      BY Zenon DEF OwnNH, NHRounds, DeadBlockNextHeightInside
    <3> QED
      BY Zenon, <2>1, <2>3, <3>1, StuckStep
  <2> QED
    BY Zenon, <2>2, <2>3
<1> QED
  BY <1>1, <1>2, <1>3, TypeCorrect, PTL DEF Spec, StuckUntilConsensus
=============================================================================
