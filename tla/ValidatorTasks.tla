--------------------------- MODULE ValidatorTasks ---------------------------
(***************************************************************************)
(* The tasks with which operators manage the validator set                 *)
(* (alicenetTasks.ts), composed with the contracts they call through the   *)
(* factory and with the validators, who run the ceremony and take the      *)
(* snapshots.                                                              *)
(*                                                                         *)
(* Most tasks are one transaction; when it reverts the task throws and     *)
(* nothing has changed.  registerValidators and                            *)
(* deployStateMigrationContract are two: the factory stakes, the task reads*)
(* the positions from the events of that transaction and waits for blocks, *)
(* and a second transaction uses them.  Anything may happen in between,    *)
(* the end of the task included.                                           *)
(***************************************************************************)
EXTENDS ETHDKG

CONSTANTS
  Operators,
  Migrated          \* validatorAccounts of deployStateMigrationContract

ASSUME TasksAssumption == Migrated \subseteq Accounts /\ Migrated # {}

VARIABLE proc       \* what each operator's task is about to send

vars == <<pool, ethdkg, snapshots, staking, roster, early, proc>>

Idle    == [task |-> None, addresses |-> {}, tokenIds |-> {}]
Busy(o) == proc[o] # Idle

TypeOK ==
  /\ pool.validators \subseteq Accounts
  /\ pool.exiting \in [Accounts -> {None} \cup 0 .. ClaimPeriod + 1]
  /\ pool.maxInterval \in Intervals
  /\ ethdkg.phase \in Phases \cup {None}
  /\ ethdkg.age \in -ConfirmationLength .. End
  /\ ethdkg.num \in 0 .. Cardinality(Accounts) /\ ethdkg.bad \in 0 .. Cardinality(Accounts)
  /\ ethdkg.participants \in [Accounts -> Phases \cup {None}]
  /\ snapshots.since \in 0 .. Long /\ snapshots.minimum \in Minimums \cup {MinimumInterval}
  /\ staking.positions \subseteq 1 .. staking.minted /\ staking.minted \in 0 .. Stakes
  /\ \A o \in Operators : /\ proc[o].task \in {None, "registerValidators", "migrate"}
                          /\ proc[o].addresses \subseteq Accounts
                          /\ proc[o].tokenIds \subseteq 1 .. staking.minted

Init == PoolInit /\ ETHDKGInit /\ proc = [o \in Operators |-> Idle]

-----------------------------------------------------------------------------
stakeValidatorsSameIds(o, task, vs) ==   \* mutant: the counter of the ids stays
  /\ ~Busy(o) /\ staking.minted + Cardinality(vs) <= Stakes
  /\ LET ids == staking.minted + 1 .. staking.minted + Cardinality(vs)
     IN /\ staking' = [staking EXCEPT !.positions = @ \cup ids]
        /\ proc' = [proc EXCEPT ![o] = [task |-> task, addresses |-> vs, tokenIds |-> ids]]
  /\ UNCHANGED <<pool, ethdkg, snapshots, roster, early>>

stakeValidatorsAll(o, task, vs) ==   \* mutant: takes all positions of the factory
  /\ ~Busy(o) /\ staking.minted + Cardinality(vs) <= Stakes
  /\ LET ids == staking.minted + 1 .. staking.minted + Cardinality(vs)
     IN /\ staking' = [positions |-> staking.positions \cup ids,
                       minted |-> staking.minted + Cardinality(vs)]
        /\ proc' = [proc EXCEPT ![o] = [task |-> task, addresses |-> vs,
                                       tokenIds |-> staking'.positions]]
  /\ UNCHANGED <<pool, ethdkg, snapshots, roster, early>>

(* stakeValidators, the first transaction of two tasks: the factory mints  *)
(* the positions, and their ids are in its events.                         *)
stakeValidators(o, task, vs) ==
  /\ ~Busy(o) /\ staking.minted + Cardinality(vs) <= Stakes
  /\ LET ids == staking.minted + 1 .. staking.minted + Cardinality(vs)
     IN /\ staking' = [positions |-> staking.positions \cup ids,
                       minted |-> staking.minted + Cardinality(vs)]
        /\ proc' = [proc EXCEPT ![o] = [task |-> task, addresses |-> vs, tokenIds |-> ids]]
  /\ UNCHANGED <<pool, ethdkg, snapshots, roster, early>>

Throw(o) == proc' = [proc EXCEPT ![o] = Idle] /\ UNCHANGED contracts

registerValidators(o) ==
  LET vs == proc[o].addresses  ids == proc[o].tokenIds
  IN /\ proc[o].task = "registerValidators"
     /\ IF mayChangeSet /\ MayRegister(pool, vs, ids)
        THEN /\ pool' = [pool EXCEPT !.validators = @ \cup vs]
             /\ staking' = [staking EXCEPT !.positions = @ \ ids]
             /\ proc' = [proc EXCEPT ![o] = Idle]
             /\ UNCHANGED <<ethdkg, snapshots, roster, early>>
        ELSE Throw(o)

(* With skipFirstTransaction the task comes here without positions.        *)
skipFirstTransaction(o) ==
  /\ ~Busy(o)
  /\ proc' = [proc EXCEPT ![o] = [task |-> "migrate", addresses |-> Migrated, tokenIds |-> {}]]
  /\ UNCHANGED contracts

(* One multiCall: registerValidators, migrateValidators, migrateSnapshots. *)
(* The epochs it skips are more than CLAIM_PERIOD.                         *)
migrateSnapshotsAndValidators(o) ==
  LET vs == proc[o].addresses  ids == proc[o].tokenIds
  IN /\ proc[o].task = "migrate"
     /\ IF mayChangeSet /\ MayRegister(pool, vs, ids) /\ ethdkg.nonceIsZero /\ snapshots.first
        THEN /\ pool' = completeETHDKG([pool EXCEPT !.validators = @ \cup vs,
                   !.exiting = [v \in Accounts |-> IF @[v] = None THEN None ELSE 0]])
             /\ staking' = [staking EXCEPT !.positions = @ \ ids]
             /\ ethdkg' = migrateValidators(ethdkg, vs)
             /\ snapshots' = [snapshots EXCEPT !.first = FALSE, !.since = 0]
             /\ roster' = vs /\ early' = pool.validators
             /\ proc' = [proc EXCEPT ![o] = Idle]
        ELSE Throw(o)

Kill(o) == Busy(o) /\ Throw(o)

(* The tasks of one transaction.                                           *)
unregisterValidators(vs) ==
  /\ mayChangeSet
  /\ vs \subseteq pool.validators
  /\ pool' = moveToExitingQueue(pool, vs)
  /\ UNCHANGED <<ethdkg, snapshots, staking, roster, early, proc>>

unregisterAllValidators == unregisterValidators(pool.validators)

initializeEthdkg             == initializeETHDKG /\ UNCHANGED proc
scheduleMaintenanceTask      == scheduleMaintenance /\ UNCHANGED proc
pauseEthdkgArbitraryHeight   == pauseConsensusOnArbitraryHeight /\ UNCHANGED proc
changeIntervalToEvict(n)     == setMaxIntervalWithoutSnapshots(n) /\ UNCHANGED proc

(* The task itself refuses a number below 0.                               *)
setMinEthereumBlocksPerSnapshot(n) ==
  n >= 0 /\ setMinimumIntervalBetweenSnapshots(n) /\ UNCHANGED proc

Tasks ==
  \/ \E o \in Operators, vs \in (SUBSET Accounts) \ {{}} : stakeValidators(o, "registerValidators", vs)
  \/ \E o \in Operators : stakeValidators(o, "migrate", Migrated)
  \/ \E o \in Operators : skipFirstTransaction(o)
  \/ \E o \in Operators : registerValidators(o)
  \/ \E o \in Operators : migrateSnapshotsAndValidators(o)
  \/ \E o \in Operators : Kill(o)
  \/ \E vs \in (SUBSET Accounts) \ {{}} : unregisterValidators(vs)
  \/ unregisterAllValidators
  \/ initializeEthdkg
  \/ scheduleMaintenanceTask
  \/ pauseEthdkgArbitraryHeight
  \/ \E n \in Intervals : changeIntervalToEvict(n)
  \/ \E n \in Minimums : setMinEthereumBlocksPerSnapshot(n)

Snapshot == \E v \in Accounts : snapshot(v) /\ UNCHANGED proc
Block    == NewBlock /\ UNCHANGED proc

Next ==
  \/ Tasks
  \/ Ceremony /\ UNCHANGED proc
  \/ Snapshot
  \/ \E v \in Accounts : claimExitingNFTPosition(v) /\ UNCHANGED proc
  \/ Block

(* Ethereum makes blocks, and while consensus runs the validators take     *)
(* their snapshots.                                                        *)
Spec == Init /\ [][Next]_vars /\ WF_vars(Block) /\ WF_vars(Snapshot)

-----------------------------------------------------------------------------
(* Consensus is run by exactly the validators that the last ceremony was   *)
(* opened for, each of them with its key on record: nobody came, left or   *)
(* was accused in between, however tasks, accusations and blocks           *)
(* interleave.  And the height that pauseConsensusOnArbitraryHeight was    *)
(* given is used up.  The migration alone leaves such a height, and        *)
(* validators that were registered before it without a key.                *)
RosterRuns ==
  pool.isConsensusRunning =>
    /\ pool.validators = roster \cup early
    /\ \A v \in roster : ethdkg.participants[v] \in {"GPKJSubmission", "Completion"}
    /\ In("Completion") => early = {} /\ ~ethdkg.custom

(* While consensus or a ceremony runs the set changes only by accusations, *)
(* which take away one validator of the ceremony.                          *)
SetFrozen ==
  [][pool.isConsensusRunning \/ isETHDKGRunning =>
       \/ pool'.validators = pool.validators
       \/ /\ ethdkg'.bad = ethdkg.bad + 1 /\ ~pool.isConsensusRunning
          /\ \E v \in roster : pool'.validators = pool.validators \ {v}]_vars

(* A validator that left has to claim its position before it may come back.*)
OutUntilClaimed == \A v \in pool.validators : pool.exiting[v] = None

(* The second transaction of a task finds the positions that its first one *)
(* minted, whatever other operators registered in between.                 *)
PositionsKept ==
  \A o \in Operators :
    /\ proc[o].tokenIds \subseteq staking.positions
    /\ \A q \in Operators \ {o} : proc[o].tokenIds \cap proc[q].tokenIds = {}

(* A ceremony ends, completed or halted, whoever stops taking part.        *)
CeremonyEnds == isETHDKGRunning ~> ~isETHDKGRunning

(* Maintenance that is scheduled while consensus runs stops it.            *)
MaintenanceStops ==
  pool.isMaintenanceScheduled /\ pool.isConsensusRunning ~> ~pool.isConsensusRunning
=============================================================================
