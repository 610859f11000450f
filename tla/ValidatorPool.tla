--------------------------- MODULE ValidatorPool ---------------------------
(***************************************************************************)
(* The contracts that hold the validator set (ValidatorPool.sol), take the *)
(* snapshots (Snapshots.sol) and keep the public staking positions, with   *)
(* the operations that the factory, a validator or ETHDKG calls.  The      *)
(* ceremony itself is in ETHDKG.                                           *)
(*                                                                         *)
(* Blocks and epochs are kept as distances, which is all that the contracts*)
(* compare: the age of the phase of the ceremony, the blocks since the last*)
(* snapshot, and for a validator that leaves the snapshots until it may    *)
(* claim its position.  A distance stops where nothing tells it from a     *)
(* greater one.  Left out: the profits paid with a position, locations,    *)
(* who is elected to take a snapshot, the block claims and signatures.     *)
(***************************************************************************)
EXTENDS Integers, FiniteSetsExt

CONSTANTS
  Accounts,
  None,
  MaxNumValidators,
  ClaimPeriod,          \* CLAIM_PERIOD, in epochs
  Intervals,            \* values of maxIntervalWithoutSnapshots
  MinimumInterval,      \* minimumIntervalBetweenSnapshots of initialize
  Minimums,             \* the values the factory sets it to
  Stakes                \* bound: the positions the factory's AToken is enough for

ASSUME PoolAssumption ==
  /\ IsFiniteSet(Accounts)
  /\ MaxNumValidators \in Nat /\ ClaimPeriod \in Nat /\ Stakes \in Nat
  /\ Intervals \subseteq Nat \ {0} /\ Intervals # {} /\ IsFiniteSet(Intervals)
  /\ Minimums \subseteq Nat /\ IsFiniteSet(Minimums) /\ MinimumInterval \in Nat

VARIABLES
  pool,        \* ValidatorPool
  ethdkg,      \* ETHDKG
  snapshots,   \* Snapshots
  staking,     \* the positions of PublicStaking the factory owns
  roster,      \* history: whom the last ceremony was opened for
  early        \* history: validators the last ceremony passed over

contracts == <<pool, ethdkg, snapshots, staking, roster, early>>

Phases == {"RegistrationOpen", "ShareDistribution", "DisputeShareDistribution",
           "KeyShareSubmission", "MPKSubmission", "GPKJSubmission",
           "DisputeGPKJSubmission", "Completion"}

Long == Max(Intervals \cup Minimums \cup {MinimumInterval}) + 1

PoolInit ==
  /\ pool = [validators |-> {}, exiting |-> [v \in Accounts |-> None],
             isConsensusRunning |-> FALSE, isMaintenanceScheduled |-> FALSE,
             maxInterval |-> Max(Intervals)]
  /\ snapshots = [first |-> TRUE, since |-> Long, minimum |-> MinimumInterval]
  /\ staking = [positions |-> {}, minted |-> 0]
  /\ roster = {} /\ early = {}

-----------------------------------------------------------------------------
isInExitingQueue(p, v) == p.exiting[v] # None

isAccusableIfIn(p, v) == v \in p.validators   \* mutant: forgets the queue

isAccusable(p, v) == v \in p.validators \/ isInExitingQueue(p, v)

(* The pool after the positions of vs are swapped for public ones: they    *)
(* leave the set and wait until CLAIM_PERIOD epochs have passed.           *)
moveToExitingQueue(p, vs) ==
  [p EXCEPT !.validators = @ \ vs,
            !.exiting = [v \in Accounts |-> IF v \in vs THEN ClaimPeriod + 1 ELSE @[v]]]

(* majorSlash deposits the stake for the other validators; minorSlash moves*)
(* what the disputer's reward leaves of it to the queue, or nothing.       *)
majorSlash(p, v) ==
  [p EXCEPT !.validators = @ \ {v}, !.exiting[v] = IF v \in p.validators THEN @ ELSE None]
minorSlash(p, v, left) ==
  IF left THEN moveToExitingQueue(p, {v}) ELSE majorSlash(p, v)

completeETHDKG(p) == [p EXCEPT !.isMaintenanceScheduled = FALSE, !.isConsensusRunning = TRUE]

(* registerValidators: each of vs for one of the positions ids, which the  *)
(* factory must own.                                                       *)
MayRegister(p, vs, ids) ==
  /\ Cardinality(vs) + Cardinality(p.validators) <= MaxNumValidators
  /\ Cardinality(vs) = Cardinality(ids)
  /\ ids \subseteq staking.positions
  /\ \A v \in vs : ~isAccusable(p, v)

-----------------------------------------------------------------------------
(* The calls of the factory that need no ceremony.                         *)
scheduleMaintenance ==
  /\ pool' = [pool EXCEPT !.isMaintenanceScheduled = TRUE]
  /\ UNCHANGED <<ethdkg, snapshots, staking, roster, early>>

setMaxIntervalWithoutSnapshots(n) ==
  /\ n # 0
  /\ pool' = [pool EXCEPT !.maxInterval = n]
  /\ UNCHANGED <<ethdkg, snapshots, staking, roster, early>>

setMinimumIntervalBetweenSnapshots(n) ==
  /\ snapshots' = [snapshots EXCEPT !.minimum = n]
  /\ UNCHANGED <<pool, ethdkg, staking, roster, early>>

(* It also sets the height at which the next set starts.                   *)
pauseConsensusOnArbitraryHeight ==
  /\ snapshots.since > pool.maxInterval
  /\ pool' = [pool EXCEPT !.isConsensusRunning = FALSE]
  /\ ethdkg' = [ethdkg EXCEPT !.custom = TRUE]
  /\ UNCHANGED <<snapshots, staking, roster, early>>

-----------------------------------------------------------------------------
(* Validators and blocks.                                                  *)
snapshotKeepsFlag(v) ==   \* mutant: does not pause
  /\ v \in pool.validators /\ pool.isConsensusRunning
  /\ ethdkg.participants[v] # None
  /\ snapshots.since >= snapshots.minimum
  /\ pool' = [pool EXCEPT !.exiting = [u \in Accounts |-> IF @[u] \in {None, 0} THEN @[u] ELSE @[u] - 1]]
  /\ snapshots' = [snapshots EXCEPT !.first = FALSE, !.since = 0]
  /\ UNCHANGED <<ethdkg, staking, roster, early>>

(* Only who took part in the last ceremony may be elected.                 *)
snapshot(v) ==
  /\ v \in pool.validators /\ pool.isConsensusRunning
  /\ ethdkg.participants[v] # None
  /\ snapshots.since >= snapshots.minimum
  /\ pool' = [pool EXCEPT
       !.isConsensusRunning = ~pool.isMaintenanceScheduled,
       !.exiting = [u \in Accounts |-> IF @[u] \in {None, 0} THEN @[u] ELSE @[u] - 1]]
  /\ snapshots' = [snapshots EXCEPT !.first = FALSE, !.since = 0]
  /\ UNCHANGED <<ethdkg, staking, roster, early>>

claimExitingNFTPosition(v) ==
  /\ pool.exiting[v] = 0
  /\ pool' = [pool EXCEPT !.exiting[v] = None]
  /\ UNCHANGED <<ethdkg, snapshots, staking, roster, early>>
=============================================================================
