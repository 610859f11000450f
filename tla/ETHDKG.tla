------------------------------- MODULE ETHDKG -------------------------------
(***************************************************************************)
(* The ceremony in which the validators make their keys (ETHDKG.sol,       *)
(* ETHDKGPhases.sol, ETHDKGAccusations.sol), on the pool of ValidatorPool. *)
(*                                                                         *)
(* ethdkg.age is block.number - _phaseStartBlock, up to the end of the     *)
(* accusations.  participants[v] is the phase on record for v, or None when*)
(* its nonce is not that of the ceremony.  Keys, shares and proofs are     *)
(* left out: one that the contract would refuse is a transaction that      *)
(* changes nothing, and whether a disputed share or key is bad is a choice.*)
(***************************************************************************)
EXTENDS ValidatorPool

CONSTANTS
  MinValidators,        \* _MIN_VALIDATORS
  PhaseLength, ConfirmationLength

ASSUME CeremonyAssumption ==
  /\ None \notin Phases
  /\ MinValidators \in Nat \ {0}
  /\ PhaseLength \in Nat \ {0} /\ ConfirmationLength \in Nat

End == 2 * PhaseLength

(* nonce is 0 until the first ceremony or the migration; before any        *)
(* ceremony _phaseStartBlock is 0, and phase is None.                      *)
ETHDKGInit ==
  ethdkg = [phase |-> None, age |-> End, num |-> 0, bad |-> 0, custom |-> FALSE,
            nonceIsZero |-> TRUE, participants |-> [v \in Accounts |-> None]]

OnTime == ethdkg.age \in 0 .. PhaseLength - 1
Late   == ethdkg.age \in PhaseLength .. End - 1
In(phase) == ethdkg.phase = phase

isETHDKGHaltedInDispute ==   \* mutant: the end of the accusations does not halt it
  /\ In("DisputeShareDistribution") \/ In("DisputeGPKJSubmission")
  /\ ethdkg.age >= PhaseLength /\ ethdkg.bad # 0

isETHDKGHalted ==
  \/ ethdkg.age >= End
  \/ /\ In("DisputeShareDistribution") \/ In("DisputeGPKJSubmission")
     /\ ethdkg.age >= PhaseLength /\ ethdkg.bad # 0

isETHDKGRunning == ~In(None) /\ ~In("Completion") /\ ~isETHDKGHalted

mayChangeSetAnyTime == ~pool.isConsensusRunning   \* mutant: without assertNotETHDKGRunning

(* assertNotETHDKGRunning, assertNotConsensusRunning.                      *)
mayChangeSet == ~isETHDKGRunning /\ ~pool.isConsensusRunning

initializeETHDKG ==
  /\ mayChangeSet
  /\ Cardinality(pool.validators) >= MinValidators
  /\ ethdkg' = [ethdkg EXCEPT !.phase = "RegistrationOpen", !.age = 0, !.num = 0, !.bad = 0,
                              !.nonceIsZero = FALSE,
                              !.participants = [v \in Accounts |-> None]]
  /\ roster' = pool.validators /\ early' = {}
  /\ UNCHANGED <<pool, snapshots, staking>>

-----------------------------------------------------------------------------
(* The phases.                                                             *)
setPhase(e, phase) == [e EXCEPT !.phase = phase, !.age = 0, !.num = 0]

(* One more has taken part; with all of the pool the next phase starts     *)
(* after the confirmations.                                                *)
moveToNextPhase(e, phase) ==
  IF e.num + 1 = Cardinality(pool.validators)
  THEN [setPhase(e, phase) EXCEPT !.age = -ConfirmationLength]
  ELSE [e EXCEPT !.num = @ + 1]

(* v takes part in a phase, having taken part in the one before.           *)
Participate(v, e, before, phase, next) ==
  /\ v \in pool.validators /\ e.participants[v] = before
  /\ ethdkg' = moveToNextPhase([e EXCEPT !.participants[v] = phase], next)
  /\ UNCHANGED <<pool, snapshots, staking, roster, early>>

register(v) ==
  /\ In("RegistrationOpen") /\ OnTime
  /\ Participate(v, ethdkg, None, "RegistrationOpen", "ShareDistribution")

distributeShares(v) ==
  /\ In("ShareDistribution") /\ OnTime
  /\ Participate(v, ethdkg, "RegistrationOpen", "ShareDistribution", "DisputeShareDistribution")

(* The first one ends the dispute phase.                                   *)
submitKeyShare(v) ==
  /\ \/ In("KeyShareSubmission") /\ OnTime
     \/ In("DisputeShareDistribution") /\ Late /\ ethdkg.bad = 0
  /\ Participate(v, IF In("KeyShareSubmission") THEN ethdkg
                    ELSE setPhase(ethdkg, "KeyShareSubmission"),
                 "ShareDistribution", "KeyShareSubmission", "MPKSubmission")

(* Anyone may send it.                                                     *)
submitMasterPublicKey ==
  /\ In("MPKSubmission") /\ OnTime
  /\ ethdkg' = setPhase(ethdkg, "GPKJSubmission")
  /\ UNCHANGED <<pool, snapshots, staking, roster, early>>

submitGPKJ(v) ==
  /\ In("GPKJSubmission") /\ OnTime
  /\ Participate(v, ethdkg, "KeyShareSubmission", "GPKJSubmission", "DisputeGPKJSubmission")

completeAfterDispute(v) ==   \* mutant: does not look at the bad participants
  /\ v \in pool.validators
  /\ In("DisputeGPKJSubmission") /\ Late
  /\ ethdkg' = [setPhase(ethdkg, "Completion") EXCEPT !.custom = FALSE]
  /\ pool' = completeETHDKG(pool)
  /\ UNCHANGED <<snapshots, staking, roster, early>>

complete(v) ==
  /\ v \in pool.validators
  /\ In("DisputeGPKJSubmission") /\ Late /\ ethdkg.bad = 0
  /\ ethdkg' = [setPhase(ethdkg, "Completion") EXCEPT !.custom = FALSE]
  /\ pool' = completeETHDKG(pool)
  /\ UNCHANGED <<snapshots, staking, roster, early>>

-----------------------------------------------------------------------------
(* The accusations.  The contract takes a list of those who did nothing;   *)
(* one after the other in the same block does the same.                    *)
AccuseMissing(v, phase) ==
  /\ In(phase) /\ Late
  /\ v \in pool.validators /\ ethdkg.participants[v] # phase
  /\ \E left \in BOOLEAN : pool' = minorSlash(pool, v, left)
  /\ ethdkg' = [ethdkg EXCEPT !.bad = @ + 1]
  /\ UNCHANGED <<snapshots, staking, roster, early>>

accuseParticipantNotRegistered(v) ==
  ethdkg.participants[v] = None /\ AccuseMissing(v, "RegistrationOpen")
accuseParticipantDidNotDistributeShares(v) ==
  ethdkg.participants[v] # None /\ AccuseMissing(v, "ShareDistribution")
accuseParticipantDidNotSubmitKeyShares(v) ==
  ethdkg.participants[v] # None /\ AccuseMissing(v, "KeyShareSubmission")
accuseParticipantDidNotSubmitGPKJ(v) ==
  ethdkg.participants[v] # None /\ AccuseMissing(v, "GPKJSubmission")

(* The accused is slashed, or the one who accused without reason.  Both    *)
(* have taken part in the phase, which may be open to dispute or late.     *)
AccuseBad(disputer, v, phase, dispute) ==
  /\ (In(dispute) /\ OnTime) \/ (In(phase) /\ Late)
  /\ {disputer, v} \subseteq pool.validators
  /\ ethdkg.participants[disputer] = phase /\ ethdkg.participants[v] = phase
  /\ \E bad \in {disputer, v} : pool' = majorSlash(pool, bad)
  /\ ethdkg' = [ethdkg EXCEPT !.bad = @ + 1]
  /\ UNCHANGED <<snapshots, staking, roster, early>>

accuseParticipantDistributedBadShares(disputer, v) ==
  AccuseBad(disputer, v, "ShareDistribution", "DisputeShareDistribution")

(* The commitments of as many as started have to be shown.                 *)
accuseParticipantSubmittedBadGPKJ(disputer, v) ==
  /\ Cardinality({u \in Accounts : ethdkg.participants[u] \notin {None, "RegistrationOpen"}})
       >= Cardinality(pool.validators) + ethdkg.bad
  /\ AccuseBad(disputer, v, "GPKJSubmission", "DisputeGPKJSubmission")

-----------------------------------------------------------------------------
(* migrateValidators: the keys of an earlier network, once.  The phase and *)
(* the custom height stay as they are.                                     *)
migrateValidators(e, vs) ==
  [e EXCEPT !.nonceIsZero = FALSE,
            !.participants = [v \in Accounts |-> IF v \in vs THEN "Completion" ELSE None]]

(* A block of Ethereum; a completed ceremony has no age.                   *)
NewBlock ==
  /\ ethdkg' = [ethdkg EXCEPT !.age = IF @ < End /\ ~In("Completion") THEN @ + 1 ELSE @]
  /\ snapshots' = [snapshots EXCEPT !.since = IF @ < Long THEN @ + 1 ELSE @]
  /\ UNCHANGED <<pool, staking, roster, early>>

Ceremony ==
  \/ \E v \in Accounts : register(v)
  \/ \E v \in Accounts : distributeShares(v)
  \/ \E v \in Accounts : submitKeyShare(v)
  \/ submitMasterPublicKey
  \/ \E v \in Accounts : submitGPKJ(v)
  \/ \E v \in Accounts : complete(v)
  \/ \E v \in Accounts : accuseParticipantNotRegistered(v)
  \/ \E v \in Accounts : accuseParticipantDidNotDistributeShares(v)
  \/ \E v \in Accounts : accuseParticipantDidNotSubmitKeyShares(v)
  \/ \E v \in Accounts : accuseParticipantDidNotSubmitGPKJ(v)
  \/ \E v, w \in Accounts : accuseParticipantDistributedBadShares(v, w)
  \/ \E v, w \in Accounts : accuseParticipantSubmittedBadGPKJ(v, w)
=============================================================================
