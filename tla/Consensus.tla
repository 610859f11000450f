------------------------------ MODULE Consensus ------------------------------
(***************************************************************************)
(* The consensus engine of every validator for ONE height: the dispatch of *)
(* Engine.updateLocalStateInternal (lstate/engine.go), its step handlers   *)
(* (lstate/statechnglocal.go), the votes they cast                         *)
(* (lstate/statecastlocal.go) and the values they set                      *)
(* (lstate/localstate.go).                                                 *)
(*                                                                         *)
(* A round runs proposal, prevote, precommit and then either next height   *)
(* (three of four precommits for the block) or next round.  The last round *)
(* is the dead block round: locks are dropped and everyone votes for the   *)
(* empty block.                                                            *)
(*                                                                         *)
(* Validators are honest.  Messages are never altered, but they are lost,  *)
(* delayed, repeated and reordered: a step sees the votes of ANY set of    *)
(* validators (its view) that includes the node's own.  A step is one      *)
(* database transaction, and votes are gossiped from the database, so a    *)
(* crash neither loses nor undoes a step: a crashed node is a stopped one. *)
(***************************************************************************)
EXTENDS Integers, FiniteSets

CONSTANTS
  Validators,       \* ValidatorSet.Validators
  Proposer,         \* Proposer[r]: the proposer of round r of this height
  DEADBLOCKROUND,   \* the last round
  Blocks,           \* blocks with transactions
  EmptyBlock,       \* the block without transactions
  None, Nil,        \* no vote, a nil vote
  Informed,         \* validators whose records hold every vote cast so far
  DBRNRWait,        \* TRUE: the dead block round timeout outlasts every
                    \*   precommit of a running validator
  TxsAvailable,     \* TRUE: no transaction is ever missing
  MayCrash,         \* bound: validators that may crash
  MaxRound,         \* bound: the last round the model enters
  MaxNilVotes       \* bound: nil votes cast in a run

Rounds == 1 .. DEADBLOCKROUND
DEADBLOCKROUNDNR == DEADBLOCKROUND - 1
Values == Blocks \cup {EmptyBlock}

ASSUME ConsensusAssumption ==
  /\ IsFiniteSet(Validators)
  /\ DEADBLOCKROUND \in Nat /\ DEADBLOCKROUND >= 2
  /\ Proposer \in [Rounds -> Validators]
  /\ None \notin Values /\ Nil \notin Values /\ None # Nil
  /\ Informed \subseteq Validators /\ DBRNRWait \in BOOLEAN /\ TxsAvailable \in BOOLEAN
  /\ MayCrash \subseteq Validators /\ MaxRound \in Rounds /\ MaxNilVotes \in Nat

VARIABLES
  round,       \* round[i]: the round of i's own round certificate
  prop,        \* prop[r]: the proposal of round r, None if there is none
  pv, pc,      \* pv[i][r], pc[i][r]: None, Nil or the block voted for
  nr,          \* nr[i][r]: i has cast NextRound in round r
  nh,          \* nh[i][r]: the block of i's NextHeight of round r, or None
  locked,      \* OwnValidatingState.LockedValue
  valid,       \* OwnValidatingState.ValidValue
  committed,   \* the block header i has committed, None while undecided
  down         \* i has crashed, or has been shut down by an error

vars == <<round, prop, pv, pc, nr, nh, locked, valid, committed, down>>

TypeOK ==
  /\ round \in [Validators -> Rounds]
  /\ prop \in [Rounds -> Values \cup {None}]
  /\ pv \in [Validators -> [Rounds -> Values \cup {None, Nil}]]
  /\ pc \in [Validators -> [Rounds -> Values \cup {None, Nil}]]
  /\ nr \in [Validators -> [Rounds -> BOOLEAN]]
  /\ nh \in [Validators -> [Rounds -> Values \cup {None}]]
  /\ locked \in [Validators -> Values \cup {None}]
  /\ valid \in [Validators -> Values \cup {None}]
  /\ committed \in [Validators -> Values \cup {None}]
  /\ down \in [Validators -> BOOLEAN]

Init ==
  /\ round = [i \in Validators |-> 1]
  /\ prop = [r \in Rounds |-> None]
  /\ pv = [i \in Validators |-> [r \in Rounds |-> None]]
  /\ pc = [i \in Validators |-> [r \in Rounds |-> None]]
  /\ nr = [i \in Validators |-> [r \in Rounds |-> FALSE]]
  /\ nh = [i \in Validators |-> [r \in Rounds |-> None]]
  /\ locked = [i \in Validators |-> None]
  /\ valid = [i \in Validators |-> None]
  /\ committed = [i \in Validators |-> None]
  /\ down = [i \in Validators |-> FALSE]

-----------------------------------------------------------------------------
(* CalcThreshold: the largest t with t <= 2/3 n; t + 1 votes decide.       *)
CalcThreshold(n) ==
  LET k == n \div 3
  IN IF n - 3 * k = 2 THEN 2 * k + 1 ELSE 2 * k

GetCurrentThresholdLow == CalcThreshold(Cardinality(Validators))   \* mutant

GetCurrentThreshold == CalcThreshold(Cardinality(Validators)) + 1

Enough(S) == Cardinality(S) >= GetCurrentThreshold

(* The validators whose votes of one kind node i has on record.            *)
Views(i) == IF i \in Informed THEN {Validators} ELSE {Q \in SUBSET Validators : i \in Q}

(* Of the voters S, node i may have enough on record, or may not.          *)
EnoughSeen(i, S) == {Q \in Views(i) : Enough(Q \cap S)} # {}
TooFewSeen(i, S) == {Q \in Views(i) : ~Enough(Q \cap S)} # {}

(* It may have enough of S and not enough of W.                            *)
SeenWithout(i, S, W) ==
  {Q \in Views(i) : Enough(Q \cap S) /\ ~Enough(Q \cap W)} # {}

(* The votes of round r, as sets of voters: what GetCurrentPreVotes,       *)
(* GetCurrentPreCommits and GetCurrentNext collect from the records.       *)
Voted(vote, r)    == {j \in Validators : vote[j][r] \in Values}
VotedNil(vote, r) == {j \in Validators : vote[j][r] = Nil}
NextRounds(r)     == {j \in Validators : nr[j][r]}

(* NHCurrent: in the dead block round only its own NextHeights count,      *)
(* before it those of any earlier round.                                   *)
NHRounds(r) == IF r = DEADBLOCKROUND THEN {r} ELSE Rounds \ {DEADBLOCKROUND}

NextHeights(r) == {j \in Validators : \E s \in NHRounds(r) : nh[j][s] # None}

OwnNH(i) == \E s \in NHRounds(round[i]) : nh[i][s] # None

(* j has broadcast a proposal or a vote that carries the certificate of r. *)
Announced(j, r) == pv[j][r] # None \/ (prop[r] # None /\ Proposer[r] = j)

(* The proposals of a round are those of its votes.                        *)
GetProposal(vote, S, r) == {vote[j][r] : j \in S}

-----------------------------------------------------------------------------
(* The order of updateLocalStateInternal.  A later step is taken only when *)
(* nothing on record calls for an earlier one: the node always knows its   *)
(* own votes, and an informed one everyone's.                               *)

Running(i) == ~down[i] /\ committed[i] = None

(* No peer at a later height, no peer in the dead block round.             *)
NoHeightJump(i) ==
  /\ Running(i)
  /\ i \in Informed => \A j \in Validators : committed[j] = None

NoDBRJump(i) ==
  /\ NoHeightJump(i)
  /\ i \in Informed /\ round[i] # DEADBLOCKROUND =>
       \A j \in Validators : ~Announced(j, DEADBLOCKROUND)

(* The node has not voted to enter the dead block round.                   *)
NoDBRNextRound(i) ==
  NoDBRJump(i) /\ ~(round[i] = DEADBLOCKROUNDNR /\ nr[i][round[i]])

NoNextHeightOfPeers(i) ==   \* mutant: the node's own NextHeight is not looked at
  NoDBRNextRound(i) /\ (i \in Informed => NextHeights(round[i]) = {})

NoNextHeight(i) ==
  /\ NoDBRNextRound(i)
  /\ ~OwnNH(i)
  /\ i \in Informed => NextHeights(round[i]) = {}

InRound(i) ==
  /\ NoNextHeight(i)
  /\ i \in Informed =>
       \A j \in Validators, s \in Rounds : s > round[i] => ~Announced(j, s)

(* The step of the round the node is in, by its own latest vote.           *)
AtProposal(i)  == InRound(i) /\ pv[i][round[i]] = None /\ pc[i][round[i]] = None
                             /\ ~nr[i][round[i]]
AtPreVote(i)   == InRound(i) /\ pv[i][round[i]] # None /\ pc[i][round[i]] = None
                             /\ ~nr[i][round[i]]
AtPreCommit(i) == InRound(i) /\ pc[i][round[i]] # None /\ ~nr[i][round[i]]

-----------------------------------------------------------------------------
(* The votes (statecastlocal.go) with the values they set (localstate.go). *)

castPreVote(i, v) ==
  /\ pv' = [pv EXCEPT ![i][round[i]] = v]
  /\ valid' = [valid EXCEPT ![i] = v]

NilVotes ==
  Cardinality({x \in Validators \X Rounds : pv[x[1]][x[2]] = Nil})
  + Cardinality({x \in Validators \X Rounds : pc[x[1]][x[2]] = Nil})

castPreVoteNil(i) ==
  /\ NilVotes < MaxNilVotes
  /\ pv' = [pv EXCEPT ![i][round[i]] = Nil]
  /\ UNCHANGED valid

castPreCommit(i, v) ==
  /\ pc' = [pc EXCEPT ![i][round[i]] = v]
  /\ locked' = [locked EXCEPT ![i] = v]
  /\ valid' = [valid EXCEPT ![i] = v]

castPreCommitNil(i) ==
  /\ NilVotes < MaxNilVotes
  /\ pc' = [pc EXCEPT ![i][round[i]] = Nil]
  /\ UNCHANGED locked

castNextRound(i) == nr' = [nr EXCEPT ![i][round[i]] = TRUE]

castNextRoundRCertSkips(i) == round' = [round EXCEPT ![i] = @ + 2]   \* mutant

castNextRoundRCert(i) == round' = [round EXCEPT ![i] = @ + 1]

(* setMostRecentNextHeight: RoundState.SetNextHeight refuses a NextHeight  *)
(* when one is on record (ErrStale) or when the proposal, prevote or       *)
(* precommit of the record is for another block (ErrCorrupt).              *)
NextHeightRefused(i, v) ==
  \/ OwnNH(i)
  \/ prop[round[i]] \in Values \ {v} /\ Proposer[round[i]] = i
  \/ pv[i][round[i]] \in Values \ {v}
  \/ pc[i][round[i]] \in Values \ {v}

(* An error other than ErrInvalid or ErrMissingTransactions aborts the     *)
(* transaction, and the Synchronizer shuts the node down.                  *)
castNextHeight(i, s, v) ==
  IF NextHeightRefused(i, v)
  THEN /\ down' = [down EXCEPT ![i] = TRUE]
       /\ UNCHANGED <<nh, locked, valid>>
  ELSE /\ nh' = [nh EXCEPT ![i][s] = v]
       /\ locked' = [locked EXCEPT ![i] = v]
       /\ valid' = [valid EXCEPT ![i] = v]
       /\ UNCHANGED down

-----------------------------------------------------------------------------
(* The step handlers (statechnglocal.go).                                  *)

doPendingProposalStep(i) ==
  LET r == round[i]
  IN /\ AtProposal(i)
     /\ r # DEADBLOCKROUND
     /\ Proposer[r] = i /\ prop[r] = None
     /\ \/ /\ locked[i] = None /\ valid[i] = None
           /\ \E v \in Values : /\ prop' = [prop EXCEPT ![r] = v]
                                /\ valid' = [valid EXCEPT ![i] = v]
        \/ /\ locked[i] = None /\ valid[i] # None
           /\ prop' = [prop EXCEPT ![r] = valid[i]]
           /\ UNCHANGED valid
        \/ /\ locked[i] # None
           /\ prop' = [prop EXCEPT ![r] = locked[i]]
           /\ UNCHANGED valid
     /\ UNCHANGED <<round, pv, pc, nr, nh, locked, committed, down>>

LockOfNobody(i) == None   \* mutant: the lock is not compared with the proposal

(* The value a prevote must equal: the locked value, else the valid value. *)
LockOf(i) == IF locked[i] # None THEN locked[i] ELSE valid[i]

(* The proposal timeout has expired.  Whether the proposal has arrived by  *)
(* then, and whether its transactions have, depends on the network.        *)
doPendingPreVoteStep(i) ==
  LET r    == round[i]
      p    == prop[r]
      lock == LockOf(i)
  IN /\ AtProposal(i)
     /\ \/ /\ r = DEADBLOCKROUND
           /\ castPreVote(i, EmptyBlock)
           /\ locked' = [locked EXCEPT ![i] = None]
        \/ /\ r # DEADBLOCKROUND
           /\ p # None
           /\ lock \in {None, p}
           /\ castPreVote(i, p)
           /\ UNCHANGED locked
        \/ /\ r # DEADBLOCKROUND
           /\ i \in Informed \/ Proposer[r] = i =>
                \/ p = None
                \/ lock \notin {None, p}
                \/ lock = None /\ ~TxsAvailable
           /\ castPreVoteNil(i)
           /\ UNCHANGED locked
     /\ UNCHANGED <<round, prop, pc, nr, nh, committed, down>>

doPreVoteStep(i) ==
  LET r   == round[i]
      pvl == Voted(pv, r)
  IN /\ AtPreVote(i)
     /\ pv[i][r] # Nil
     /\ EnoughSeen(i, pvl)
     /\ \E v \in GetProposal(pv, pvl, r) : castPreCommit(i, v)
     /\ UNCHANGED <<round, prop, pv, nr, nh, committed, down>>

(* There cannot be enough prevotes and enough nil prevotes.  When          *)
(* transactions are missing updateValidValue fails, and so does the step.  *)
doPreVoteNilStep(i) ==
  LET r    == round[i]
      pvl  == Voted(pv, r)
      pvnl == VotedNil(pv, r)
  IN /\ AtPreVote(i)
     /\ pv[i][r] = Nil
     /\ \/ /\ SeenWithout(i, pvl, pvnl)
           /\ \E v \in GetProposal(pv, pvl, r) : valid' = [valid EXCEPT ![i] = v]
           /\ UNCHANGED <<pc, locked>>
        \/ /\ SeenWithout(i, pvnl, pvl)
           /\ castPreCommitNil(i)
           /\ UNCHANGED valid
     /\ UNCHANGED <<round, prop, pv, nr, nh, committed, down>>

(* The prevote timeout has expired: precommit nil, unless the node has     *)
(* prevoted for the block that has enough prevotes.  The dead block round  *)
(* has no nil votes.                                                       *)
doPendingPreCommit(i) ==
  LET r   == round[i]
      pvl == Voted(pv, r)
  IN /\ AtPreVote(i)
     /\ \/ /\ EnoughSeen(i, pvl) /\ pv[i][r] # Nil
           /\ \E v \in GetProposal(pv, pvl, r) : castPreCommit(i, v)
        \/ /\ EnoughSeen(i, pvl) /\ pv[i][r] = Nil
           /\ r # DEADBLOCKROUND
           /\ castPreCommitNil(i)
           /\ \/ \E v \in GetProposal(pv, pvl, r) : valid' = [valid EXCEPT ![i] = v]
              \/ ~TxsAvailable /\ UNCHANGED valid
        \/ /\ TooFewSeen(i, pvl)
           /\ r # DEADBLOCKROUND
           /\ castPreCommitNil(i)
           /\ UNCHANGED valid
     /\ UNCHANGED <<round, prop, pv, nr, nh, committed, down>>

doPreCommitStep(i) ==
  LET r   == round[i]
      pcl == Voted(pc, r)
  IN /\ AtPreCommit(i)
     /\ pc[i][r] # Nil
     /\ EnoughSeen(i, pcl)
     /\ \E v \in GetProposal(pc, pcl, r) : castNextHeight(i, r, v)
     /\ UNCHANGED <<round, prop, pv, pc, nr, committed>>

(* A node that has precommitted nil does not leave the round before the    *)
(* dead block round on nil precommits alone.                               *)
doPreCommitNilStep(i) ==
  LET r    == round[i]
      pcl  == Voted(pc, r)
      pcnl == VotedNil(pc, r)
  IN /\ AtPreCommit(i)
     /\ pc[i][r] = Nil
     /\ \/ /\ EnoughSeen(i, pcl)
           /\ \E v \in GetProposal(pc, pcl, r) : castNextHeight(i, r, v)
           /\ UNCHANGED nr
        \/ /\ SeenWithout(i, pcnl, pcl)
           /\ r # DEADBLOCKROUNDNR
           /\ castNextRound(i)
           /\ UNCHANGED <<nh, locked, valid, down>>
     /\ UNCHANGED <<round, prop, pv, pc, committed>>

DBRNRExpiredAtOnce(Q) == TRUE   \* mutant: the timeout is not waited for

(* GetDeadBlockRoundNextRoundTimeout.  With DBRNRWait the timeout is longer*)
(* than it takes every running validator to precommit and everyone's       *)
(* precommits to arrive.                                                   *)
DBRNRExpired(Q) ==
  DBRNRWait => /\ Q = Validators
               /\ \A j \in Validators :
                    pc[j][DEADBLOCKROUNDNR] # None \/ down[j]

UndecidedByNil(i, pcl, pcnl) ==   \* mutant: the precommits are not counted in
  {Q \in Views(i) :
     /\ Enough(Q \cap pcnl)
     /\ Enough(Q \cap pcl) => ~TxsAvailable
     /\ round[i] = DEADBLOCKROUNDNR => DBRNRExpired(Q)} # {}

(* Enough votes for and against the block together, but not for it.        *)
Undecided(i, pcl, pcnl) ==
  {Q \in Views(i) :
     /\ Enough(Q \cap (pcl \cup pcnl))
     /\ Enough(Q \cap pcl) => ~TxsAvailable
     /\ round[i] = DEADBLOCKROUNDNR => DBRNRExpired(Q)} # {}

(* The precommit timeout has expired.                                      *)
doPendingNext(i) ==
  LET r    == round[i]
      pcl  == Voted(pc, r)
      pcnl == VotedNil(pc, r)
  IN /\ AtPreCommit(i)
     /\ \/ /\ EnoughSeen(i, pcl)
           /\ \E v \in GetProposal(pc, pcl, r) : castNextHeight(i, r, v)
           /\ UNCHANGED nr
        \/ /\ Undecided(i, pcl, pcnl)
           /\ r # DEADBLOCKROUND
           /\ castNextRound(i)
           /\ UNCHANGED <<nh, locked, valid, down>>
     /\ UNCHANGED <<round, prop, pv, pc, committed>>

(* The node has cast NextRound: late precommits still win, otherwise       *)
(* enough NextRounds make the certificate of the next round.  In the round *)
(* before the dead block round this step comes before the NextHeights.     *)
doNextRoundStep(i) ==
  LET r   == round[i]
      pcl == Voted(pc, r)
  IN /\ nr[i][r]
     /\ IF r = DEADBLOCKROUNDNR THEN NoDBRJump(i) ELSE InRound(i)
     /\ \/ /\ EnoughSeen(i, pcl)
           /\ \E v \in GetProposal(pc, pcl, r) : castNextHeight(i, r, v)
           /\ UNCHANGED round
        \/ /\ TxsAvailable => TooFewSeen(i, pcl)
           /\ EnoughSeen(i, NextRounds(r))
           /\ r < MaxRound
           /\ castNextRoundRCert(i)
           /\ UNCHANGED <<nh, locked, valid, down>>
     /\ UNCHANGED <<prop, pv, pc, nr, committed>>

(* The precommits of the round the node leaves for that of j update the    *)
(* valid value when there are MORE than the threshold; j, which has moved  *)
(* on, has none on record.                                                 *)
JumpValues(i, j) ==
  LET pcl == Voted(pc, round[i])
  IN IF {Q \in Views(i) : Cardinality((Q \cap pcl) \ {j}) > GetCurrentThreshold} # {}
     THEN GetProposal(pc, pcl, round[i])
     ELSE {}

(* Follow a peer's certificate of a later round: of the dead block round   *)
(* whatever the node has voted, of another round when no NextHeight is     *)
(* known, and then the latest one.                                         *)
doRoundJump(i) ==
  \E j \in Validators, s \in Rounds :
       /\ s > round[i]
       /\ Announced(j, s)
       /\ \/ s = DEADBLOCKROUND /\ NoHeightJump(i)
          \/ /\ s # DEADBLOCKROUND /\ NoNextHeight(i)
             /\ i \in Informed => \A k \in Validators, t \in Rounds :
                                 Announced(k, t) => t <= s
       /\ round' = [round EXCEPT ![i] = s]
       /\ \E v \in {valid[i]} \cup JumpValues(i, j) :
            valid' = [valid EXCEPT ![i] = v]
       /\ UNCHANGED <<prop, pv, pc, nr, nh, locked, committed, down>>

(* Follow a NextHeight of any round of this height, except across the dead *)
(* block round: castNextHeightFromNextHeight.                              *)
castNextHeightFromNextHeight(i) ==
  /\ NoDBRNextRound(i)
  /\ ~OwnNH(i)
  /\ \E j \in Validators \ {i}, s \in NHRounds(round[i]) :
       nh[j][s] # None /\ castNextHeight(i, s, nh[j][s])
  /\ UNCHANGED <<round, prop, pv, pc, nr, committed>>

(* castNewCommittedBlockHeader: the group signature is made from the shares*)
(* of the NextHeights, and is valid when they all sign the same block.     *)
doNextHeightStep(i) ==
  LET r == round[i]
  IN /\ NoDBRNextRound(i)
     /\ OwnNH(i)
     /\ EnoughSeen(i, NextHeights(r))
     /\ \E v \in Values :
          /\ \A j \in NextHeights(r), s \in NHRounds(r) : nh[j][s] \in {None, v}
          /\ committed' = [committed EXCEPT ![i] = v]
     /\ UNCHANGED <<round, prop, pv, pc, nr, nh, locked, valid, down>>

(* A peer is at the next height: its certificate names the block it has    *)
(* committed, which the node commits if it is its valid value or the empty *)
(* block.                                                                  *)
doHeightJumpStep(i) ==
  /\ Running(i)
  /\ \E j \in Validators :
       /\ committed[j] # None
       /\ committed[j] \in {valid[i], EmptyBlock}
       /\ committed' = [committed EXCEPT ![i] = committed[j]]
  /\ UNCHANGED <<round, prop, pv, pc, nr, nh, locked, valid, down>>

(* Otherwise the node downloads the signed block header of a peer.         *)
Sync(i) ==
  /\ Running(i)
  /\ \E j \in Validators :
       /\ committed[j] # None
       /\ committed' = [committed EXCEPT ![i] = committed[j]]
  /\ UNCHANGED <<round, prop, pv, pc, nr, nh, locked, valid, down>>

Crash(i) ==
  /\ Running(i)
  /\ i \in MayCrash
  /\ down' = [down EXCEPT ![i] = TRUE]
  /\ UNCHANGED <<round, prop, pv, pc, nr, nh, locked, valid, committed>>

UpdateLocalState(i) ==
  \/ doPendingProposalStep(i)
  \/ doPendingPreVoteStep(i)
  \/ doPreVoteStep(i)
  \/ doPreVoteNilStep(i)
  \/ doPendingPreCommit(i)
  \/ doPreCommitStep(i)
  \/ doPreCommitNilStep(i)
  \/ doPendingNext(i)
  \/ doNextRoundStep(i)
  \/ doRoundJump(i)
  \/ castNextHeightFromNextHeight(i)
  \/ doNextHeightStep(i)
  \/ doHeightJumpStep(i)

Next == \E i \in Validators : UpdateLocalState(i) \/ Sync(i) \/ Crash(i)

Spec == Init /\ [][Next]_vars

(* As long as some running node can update its state (it tries five times  *)
(* a second, and its timeouts expire) or download the block headers it     *)
(* lacks, some node does.                                                  *)
FairSpec ==
  Spec /\ WF_vars(\E i \in Validators : UpdateLocalState(i) \/ Sync(i))

-----------------------------------------------------------------------------
(* Properties.                                                             *)

TwoThirds(S) == 3 * Cardinality(S) > 2 * Cardinality(Validators)

For(vote, v, r) == {j \in Validators : vote[j][r] = v}

(* Every vote rests on more than two thirds of the votes before it: a      *)
(* precommit on prevotes and a NextHeight on precommits for its block, a   *)
(* round on NextRounds of the one before, a committed block on NextHeights *)
(* for it, none of them from both sides of the dead block round.  The      *)
(* handlers count votes in lists without comparing their blocks.           *)
VotesJustified ==
  /\ \A i \in Validators, r \in Rounds, v \in Values :
       /\ pc[i][r] = v => TwoThirds(For(pv, v, r))
       /\ nh[i][r] = v => TwoThirds(For(pc, v, r))
  /\ \A i \in Validators : round[i] > 1 => TwoThirds(NextRounds(round[i] - 1))
  /\ \A i \in Validators : committed[i] # None =>
       \E S \in {{DEADBLOCKROUND}, Rounds \ {DEADBLOCKROUND}} :
         TwoThirds({j \in Validators : \E s \in S : nh[j][s] = committed[i]})

(* Before the dead block round all NextHeights of a height are for the same*)
(* block, whatever rounds they come from: engine.go follows a NextHeight   *)
(* of any round.                                                           *)
NextHeightAgreement ==
  \A i, j \in Validators : \A r, s \in Rounds \ {DEADBLOCKROUND} :
    nh[i][r] # None /\ nh[j][s] # None => nh[i][r] = nh[j][s]

(* A node that has precommitted a block votes for no other block in the    *)
(* later rounds before the dead block round, although LockedValue and      *)
(* ValidValue are overwritten by several handlers.                         *)
LockHolds ==
  \A i \in Validators : \A r, s \in Rounds \ {DEADBLOCKROUND} :
    r < s /\ pc[i][r] \in Values =>
      /\ pv[i][s] \in {None, Nil, pc[i][r]}
      /\ pc[i][s] \in {None, Nil, pc[i][r]}

(* No two validators commit different blocks at one height.                *)
Agreement ==
  \A i, j \in Validators :
    committed[i] # None /\ committed[j] # None => committed[i] = committed[j]

(* The detailed handlers implement the abstract consensus of a height.     *)
Height == INSTANCE Finality
HeightFinality == Height!Spec

(* "We cast a next height, we are stuck here until consensus": before the  *)
(* dead block round a node with a NextHeight casts no other vote and moves *)
(* to no round but the dead block round.                                   *)
StuckUntilConsensus ==
  [][\A i \in Validators :
       /\ round[i] # DEADBLOCKROUND
       /\ \E s \in Rounds : nh[i][s] # None
       => /\ UNCHANGED <<pv[i], pc[i], nr[i], nh[i]>>
          /\ round'[i] \in {round[i], DEADBLOCKROUND}]_vars

(* Every validator that keeps running commits a block: rounds that fail    *)
(* end in the dead block round, where the empty block needs no proposal.   *)
Termination == <>(\A i \in Validators : committed[i] # None \/ down[i])

(* A node that has cast a NextHeight keeps running until it commits.       *)
NextHeightSurvives ==
  [][\A i \in Validators : OwnNH(i) /\ ~down[i] => ~down'[i]]_vars
=============================================================================
