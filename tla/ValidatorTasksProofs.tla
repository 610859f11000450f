------------------------ MODULE ValidatorTasksProofs ------------------------
(***************************************************************************)
(* Proofs about the validator set, for any accounts, operators, numbers of *)
(* validators and lengths of the phases.                                   *)
(***************************************************************************)
EXTENDS ValidatorTasks, FiniteSetTheorems, TLAPS

Pool ==
  [validators : SUBSET Accounts, exiting : [Accounts -> Nat \cup {None}],
   isConsensusRunning : BOOLEAN, isMaintenanceScheduled : BOOLEAN,
   maxInterval : Intervals \cup {Max(Intervals)}]

EthDkg ==
  [phase : Phases \cup {None}, age : Int, num : Nat, bad : Nat, custom : BOOLEAN,
   nonceIsZero : BOOLEAN, participants : [Accounts -> Phases \cup {None}]]

Proc == [task : {None, "registerValidators", "migrate"}, addresses : SUBSET Accounts,
         tokenIds : SUBSET Nat]

Staking == [positions : SUBSET Nat, minted : Nat]

(* The types the proofs need; TypeOK adds the bounds of the counters.      *)
Typed ==
  /\ pool \in Pool /\ ethdkg \in EthDkg /\ staking \in Staking
  /\ proc \in [Operators -> Proc]
  /\ roster \subseteq Accounts /\ early \subseteq Accounts

-----------------------------------------------------------------------------
(* The inductive invariant.                                                *)

(* Every position was minted, and the tasks keep theirs.                   *)
Positions == staking.positions \subseteq 1 .. staking.minted /\ PositionsKept

(* Consensus runs only after a ceremony was completed, or without one.     *)
Stage ==
  /\ ethdkg.nonceIsZero => In(None)
  /\ pool.isConsensusRunning => In(None) \/ In("Completion")

(* While a ceremony runs, the pool is its roster without the accused.      *)
Frozen ==
  isETHDKGRunning => /\ early = {} /\ pool.validators \subseteq roster
                     /\ ethdkg.bad = 0 => pool.validators = roster

Early == Phases \ {"GPKJSubmission", "DisputeGPKJSubmission", "Completion"}

HasKey == {v \in Accounts : ethdkg.participants[v] = "GPKJSubmission"}

(* The contract counts the keys of the roster.                             *)
Keys ==
  /\ ethdkg.phase \in Early => HasKey = {}
  /\ In("GPKJSubmission") => HasKey \subseteq roster /\ ethdkg.num = Cardinality(HasKey)
  /\ In("DisputeGPKJSubmission") /\ ethdkg.bad = 0 => roster \subseteq HasKey

SetInv == OutUntilClaimed /\ Stage /\ Frozen /\ Keys /\ RosterRuns

Inv == Typed /\ Positions /\ SetInv

-----------------------------------------------------------------------------
(* Facts about the data.                                                   *)

(* A set of accounts is finite.                                            *)
LEMMA Finite ==
  ASSUME NEW S \in SUBSET Accounts
  PROVE  IsFiniteSet(S) /\ Cardinality(S) \in Nat
BY Zenon, FS_Subset, FS_CardinalityType, PoolAssumption

(* Where setPhase and moveToNextPhase lead.                                *)
LEMMA Moved ==
  ASSUME NEW STATE e, e \in EthDkg, NEW phase \in Phases
  PROVE  /\ setPhase(e, phase) = [phase |-> phase, age |-> 0, num |-> 0, bad |-> e.bad,
               custom |-> e.custom, nonceIsZero |-> e.nonceIsZero,
               participants |-> e.participants]
         /\ setPhase(e, phase) \in EthDkg
         /\ moveToNextPhase(e, phase) \in EthDkg
         /\ LET m == moveToNextPhase(e, phase)
            IN /\ m.bad = e.bad /\ m.participants = e.participants
               /\ m.nonceIsZero = e.nonceIsZero /\ m.custom = e.custom
               /\ \/ /\ m.phase = phase
                     /\ e.num + 1 = Cardinality(pool.validators)
                  \/ m.phase = e.phase /\ m.num = e.num + 1 /\ m.age = e.age
<1>1. /\ setPhase(e, phase) = [phase |-> phase, age |-> 0, num |-> 0, bad |-> e.bad,
               custom |-> e.custom, nonceIsZero |-> e.nonceIsZero,
               participants |-> e.participants]
      /\ setPhase(e, phase) \in EthDkg
  <2>1. setPhase(e, phase) = [phase |-> phase, age |-> 0, num |-> 0, bad |-> e.bad,
               custom |-> e.custom, nonceIsZero |-> e.nonceIsZero,
               participants |-> e.participants]
    <3>1. e = [phase |-> e.phase, age |-> e.age, num |-> e.num, bad |-> e.bad,
               custom |-> e.custom, nonceIsZero |-> e.nonceIsZero,
               participants |-> e.participants]
      BY DEF EthDkg
    <3> DEFINE a == [e EXCEPT !.phase = phase]
               b == [a EXCEPT !.age = 0]
    <3>2. a = [phase |-> phase, age |-> e.age, num |-> e.num, bad |-> e.bad,
               custom |-> e.custom, nonceIsZero |-> e.nonceIsZero,
               participants |-> e.participants]
      BY <3>1
    <3>3. setPhase(e, phase) = [b EXCEPT !.num = 0]
      BY DEF setPhase
    <3> HIDE DEF a
    <3>4. b = [phase |-> phase, age |-> 0, num |-> e.num, bad |-> e.bad,
               custom |-> e.custom, nonceIsZero |-> e.nonceIsZero,
               participants |-> e.participants]
      BY <3>2
    <3> HIDE DEF b
    <3> QED
      BY <3>3, <3>4
  <2> QED
    BY <2>1 DEF EthDkg
<1>2. CASE e.num + 1 = Cardinality(pool.validators)
  <2>1. moveToNextPhase(e, phase) = [setPhase(e, phase) EXCEPT !.age = -ConfirmationLength]
    BY <1>2 DEF moveToNextPhase
  <2>2. moveToNextPhase(e, phase) = [phase |-> phase, age |-> -ConfirmationLength, num |-> 0,
               bad |-> e.bad, custom |-> e.custom, nonceIsZero |-> e.nonceIsZero,
               participants |-> e.participants]
    BY <1>1, <2>1
  <2> QED
    BY <1>1, <1>2, <2>2, CeremonyAssumption DEF EthDkg
<1>3. CASE e.num + 1 # Cardinality(pool.validators)
  <2>1. moveToNextPhase(e, phase) = [phase |-> e.phase, age |-> e.age, num |-> e.num + 1,
               bad |-> e.bad, custom |-> e.custom, nonceIsZero |-> e.nonceIsZero,
               participants |-> e.participants]
    BY <1>3 DEF moveToNextPhase, EthDkg
  <2> QED
    BY <1>1, <2>1 DEF EthDkg
<1> QED
  BY <1>2, <1>3

(* A slashed validator leaves the set, and nobody else comes or goes.      *)
LEMMA Slashed ==
  ASSUME pool \in Pool, NEW v \in Accounts,
         pool' = majorSlash(pool, v) \/ pool' = moveToExitingQueue(pool, {v})
  PROVE  /\ pool' \in Pool
         /\ pool'.validators = pool.validators \ {v}
         /\ \A u \in Accounts \ {v} : pool'.exiting[u] = pool.exiting[u]
         /\ pool'.isConsensusRunning = pool.isConsensusRunning
<1>1. CASE pool' = majorSlash(pool, v)
  <2> DEFINE x == [pool.exiting EXCEPT ![v] = IF v \in pool.validators THEN @ ELSE None]
  <2>1. x \in [Accounts -> Nat \cup {None}] /\ \A u \in Accounts \ {v} : x[u] = pool.exiting[u]
    BY DEF Pool
  <2>2. pool' = [validators |-> pool.validators \ {v}, exiting |-> x,
                 isConsensusRunning |-> pool.isConsensusRunning,
                 isMaintenanceScheduled |-> pool.isMaintenanceScheduled,
                 maxInterval |-> pool.maxInterval]
    BY <1>1 DEF majorSlash, Pool
  <2> QED
    BY <2>1, <2>2 DEF Pool
<1>2. CASE pool' = moveToExitingQueue(pool, {v})
  <2> DEFINE x == [u \in Accounts |-> IF u \in {v} THEN ClaimPeriod + 1 ELSE pool.exiting[u]]
  <2>1. x \in [Accounts -> Nat \cup {None}] /\ \A u \in Accounts \ {v} : x[u] = pool.exiting[u]
    BY PoolAssumption DEF Pool
  <2>2. pool' = [validators |-> pool.validators \ {v}, exiting |-> x,
                 isConsensusRunning |-> pool.isConsensusRunning,
                 isMaintenanceScheduled |-> pool.isMaintenanceScheduled,
                 maxInterval |-> pool.maxInterval]
    BY <1>2 DEF moveToExitingQueue, Pool
  <2> QED
    BY <2>1, <2>2 DEF Pool
<1> QED
  BY <1>1, <1>2

-----------------------------------------------------------------------------
(* The ceremony.                                                           *)

(* A step of the ceremony is taken in time, while the ceremony runs.       *)
LEMMA Running ==
  ASSUME Typed, NEW p \in Phases \ {"Completion"}, In(p),
         \/ OnTime
         \/ Late /\ ethdkg.bad = 0
         \/ Late /\ p \notin {"DisputeShareDistribution", "DisputeGPKJSubmission"}
  PROVE  isETHDKGRunning
<1>1. ethdkg.age \in Int /\ ethdkg.bad \in Nat
  BY DEF Typed, EthDkg
<1>2. ethdkg.age < End
  BY <1>1, CeremonyAssumption DEF OnTime, Late, End
<1>3. ethdkg.age < PhaseLength \/ ethdkg.bad = 0
        \/ p \notin {"DisputeShareDistribution", "DisputeGPKJSubmission"}
  BY <1>1, CeremonyAssumption DEF OnTime, Late, End
<1>4. ~isETHDKGHalted
  BY <1>1, <1>2, <1>3, CeremonyAssumption DEF isETHDKGHalted, In, End
<1> QED
  BY <1>4, CeremonyAssumption DEF isETHDKGRunning, In

(* While it runs consensus does not, and it has a nonce.                   *)
LEMMA Apart ==
  ASSUME Inv, isETHDKGRunning
  PROVE  ~pool.isConsensusRunning /\ ~ethdkg.nonceIsZero
BY DEF Inv, SetInv, Stage, isETHDKGRunning, In

(* A step that leaves the pool alone has to keep only the count of keys.   *)
LEMMA TakenPart ==
  ASSUME Inv, isETHDKGRunning, UNCHANGED <<pool, roster, early>>,
         ethdkg'.bad = ethdkg.bad, ethdkg'.nonceIsZero = ethdkg.nonceIsZero, Keys'
  PROVE  SetInv'
<1>1. OutUntilClaimed'
  BY DEF Inv, SetInv, OutUntilClaimed
<1>2. ~pool'.isConsensusRunning /\ ~ethdkg'.nonceIsZero
  BY Apart
<1>3. Frozen'
  BY DEF Inv, SetInv, Frozen
<1> QED
  BY <1>1, <1>2, <1>3 DEF SetInv, Stage, RosterRuns

(* v takes part, in a phase before the one of the keys.                    *)
LEMMA TakePart ==
  ASSUME Typed, NEW v \in Accounts, NEW STATE e, e \in EthDkg,
         NEW before, NEW phase \in Phases, NEW next \in Phases,
         Participate(v, e, before, phase, next)
  PROVE  /\ ethdkg' \in EthDkg
         /\ UNCHANGED <<pool, staking, roster, early>> /\ v \in pool.validators
         /\ ethdkg'.bad = e.bad /\ ethdkg'.nonceIsZero = e.nonceIsZero
         /\ e.participants[v] = before
         /\ ethdkg'.participants = [e.participants EXCEPT ![v] = phase]
         /\ \/ /\ ethdkg'.phase = next
               /\ e.num + 1 = Cardinality(pool.validators)
            \/ ethdkg'.phase = e.phase /\ ethdkg'.num = e.num + 1
<1> DEFINE f == [e EXCEPT !.participants[v] = phase]
<1>1. f = [phase |-> e.phase, age |-> e.age, num |-> e.num, bad |-> e.bad,
           custom |-> e.custom, nonceIsZero |-> e.nonceIsZero,
           participants |-> [e.participants EXCEPT ![v] = phase]]
  BY DEF EthDkg
<1>2. ethdkg' = moveToNextPhase(f, next)
  BY DEF Participate
<1>3. UNCHANGED <<pool, staking, roster, early>> /\ v \in pool.validators
        /\ e.participants[v] = before
  BY DEF Participate
<1> HIDE DEF f
<1>4. f \in EthDkg
  BY <1>1 DEF EthDkg
<1>5. /\ ethdkg' \in EthDkg /\ ethdkg'.bad = f.bad /\ ethdkg'.participants = f.participants
      /\ ethdkg'.nonceIsZero = f.nonceIsZero
      /\ \/ ethdkg'.phase = next /\ f.num + 1 = Cardinality(pool.validators)
         \/ ethdkg'.phase = f.phase /\ ethdkg'.num = f.num + 1
  BY <1>2, <1>4, Moved
<1>6. /\ f.bad = e.bad /\ f.nonceIsZero = e.nonceIsZero /\ f.num = e.num
      /\ f.phase = e.phase /\ f.participants = [e.participants EXCEPT ![v] = phase]
  BY <1>1
<1> QED
  BY <1>3, <1>5, <1>6

(* Before the phase of the keys nobody has one.                            *)
LEMMA TakePartEarly ==
  ASSUME Inv, isETHDKGRunning, NEW v \in Accounts, NEW STATE e, e \in EthDkg,
         NEW before, NEW phase \in Early, NEW next \in Early,
         ethdkg.phase \in Early, e.phase \in Early, e.bad = ethdkg.bad,
         e.nonceIsZero = ethdkg.nonceIsZero, e.participants = ethdkg.participants,
         Participate(v, e, before, phase, next)
  PROVE  ethdkg' \in EthDkg /\ SetInv' /\ UNCHANGED <<pool, staking, roster, early>>
<1> phase \in Phases /\ next \in Phases /\ Typed
  BY DEF Early, Inv
<1>1. /\ ethdkg' \in EthDkg
      /\ UNCHANGED <<pool, staking, roster, early>>
      /\ ethdkg'.bad = ethdkg.bad /\ ethdkg'.nonceIsZero = ethdkg.nonceIsZero
      /\ ethdkg'.participants = [ethdkg.participants EXCEPT ![v] = phase]
      /\ ethdkg'.phase \in Early
  BY TakePart
<1>2. HasKey = {}
  BY DEF Inv, SetInv, Keys
<1>3. HasKey' = {}
  BY <1>1, <1>2 DEF HasKey, Typed, EthDkg, Early
<1>4. Keys'
  BY <1>1, <1>3 DEF Keys, Early, In
<1> QED
  BY <1>1, <1>4, TakenPart

(* The last key is that of the last of the roster.                         *)
LEMMA TakePartKey ==
  ASSUME Inv, isETHDKGRunning, NEW v \in Accounts, In("GPKJSubmission"),
         Participate(v, ethdkg, "KeyShareSubmission", "GPKJSubmission", "DisputeGPKJSubmission")
  PROVE  ethdkg' \in EthDkg /\ SetInv' /\ UNCHANGED <<pool, staking, roster, early>>
<1> Typed /\ ethdkg \in EthDkg
  BY DEF Inv, Typed
<1>1. /\ ethdkg' \in EthDkg
      /\ UNCHANGED <<pool, staking, roster, early>> /\ v \in pool.validators
      /\ ethdkg'.bad = ethdkg.bad /\ ethdkg'.nonceIsZero = ethdkg.nonceIsZero
      /\ ethdkg.participants[v] = "KeyShareSubmission"
      /\ ethdkg'.participants = [ethdkg.participants EXCEPT ![v] = "GPKJSubmission"]
      /\ \/ /\ ethdkg'.phase = "DisputeGPKJSubmission"
            /\ ethdkg.num + 1 = Cardinality(pool.validators)
         \/ ethdkg'.phase = ethdkg.phase /\ ethdkg'.num = ethdkg.num + 1
  BY TakePart DEF Phases
<1>2. HasKey' = HasKey \cup {v} /\ v \notin HasKey
  BY <1>1 DEF HasKey, EthDkg
<1>3. /\ HasKey \subseteq roster /\ ethdkg.num = Cardinality(HasKey)
      /\ pool.validators \subseteq roster
      /\ ethdkg.bad = 0 => pool.validators = roster
  BY DEF Inv, SetInv, Keys, Frozen
<1>4. /\ IsFiniteSet(HasKey) /\ Cardinality(HasKey) \in Nat
      /\ IsFiniteSet(roster) /\ roster \subseteq Accounts
  BY Finite DEF Inv, Typed, HasKey
<1>5. Cardinality(HasKey \cup {v}) = ethdkg.num + 1
  BY <1>2, <1>3, <1>4, FS_AddElement
<1>6. HasKey \cup {v} \subseteq roster
  BY <1>1, <1>3
<1>7. CASE ethdkg'.phase = "DisputeGPKJSubmission"
             /\ ethdkg.num + 1 = Cardinality(pool.validators)
  <2>1. ethdkg.bad = 0 => HasKey \cup {v} = roster
    BY <1>3, <1>4, <1>5, <1>6, <1>7, FS_Subset
  <2> QED
    BY <1>1, <1>2, <1>7, <2>1, TakenPart DEF Keys, Early, In
<1>8. CASE ethdkg'.phase = ethdkg.phase /\ ethdkg'.num = ethdkg.num + 1
  <2>1. Keys'
    BY <1>1, <1>2, <1>5, <1>6, <1>8 DEF Keys, Early, In
  <2> QED
    BY <1>1, <2>1, TakenPart
<1> QED
  BY <1>1, <1>7, <1>8

(* An accusation takes a validator out of the ceremony, for good.          *)
LEMMA Accused ==
  ASSUME Inv, isETHDKGRunning, NEW v \in pool.validators,
         pool' = majorSlash(pool, v) \/ pool' = moveToExitingQueue(pool, {v}),
         ethdkg' = [ethdkg EXCEPT !.bad = @ + 1], UNCHANGED <<roster, early>>
  PROVE  /\ pool' \in Pool /\ ethdkg' \in EthDkg /\ SetInv'
         /\ v \in roster /\ pool'.validators = pool.validators \ {v}
         /\ ethdkg'.bad = ethdkg.bad + 1
<1> Typed /\ v \in Accounts /\ pool \in Pool
  BY DEF Inv, Typed, Pool
<1>1. /\ pool' \in Pool /\ pool'.validators = pool.validators \ {v}
      /\ \A u \in Accounts \ {v} : pool'.exiting[u] = pool.exiting[u]
      /\ pool'.isConsensusRunning = pool.isConsensusRunning
  BY Slashed
<1>2. /\ ethdkg' \in EthDkg /\ ethdkg'.bad = ethdkg.bad + 1 /\ ethdkg'.bad # 0
      /\ ethdkg'.phase = ethdkg.phase /\ ethdkg'.num = ethdkg.num
      /\ ethdkg'.nonceIsZero = ethdkg.nonceIsZero
      /\ ethdkg'.participants = ethdkg.participants
  BY DEF Typed, EthDkg
<1>3. early = {} /\ pool.validators \subseteq roster
  BY DEF Inv, SetInv, Frozen
<1>4. Frozen'
  BY <1>1, <1>2, <1>3 DEF Frozen
<1>5. OutUntilClaimed'
  BY <1>1 DEF Inv, SetInv, OutUntilClaimed, Pool
<1>6. Stage' /\ RosterRuns'
  BY <1>1, <1>2, Apart DEF Stage, RosterRuns
<1>7. Keys'
  BY <1>2 DEF Inv, SetInv, Keys, HasKey, In
<1> QED
  BY <1>1, <1>2, <1>3, <1>4, <1>5, <1>6, <1>7 DEF SetInv

(* What SetFrozen says of a step.                                          *)
StepFrozen ==
  pool.isConsensusRunning \/ isETHDKGRunning =>
    \/ pool'.validators = pool.validators
    \/ /\ ethdkg'.bad = ethdkg.bad + 1 /\ ~pool.isConsensusRunning
       /\ \E v \in roster : pool'.validators = pool.validators \ {v}

(* Without a step of the factory the positions stay with their tasks.      *)
LEMMA PositionsStay ==
  ASSUME Positions, UNCHANGED <<staking, proc>>
  PROVE  Positions'
BY DEF Positions, PositionsKept

(* The master public key opens the phase of the keys.                      *)
LEMMA MasterPublicKey ==
  ASSUME Inv, submitMasterPublicKey
  PROVE  ethdkg' \in EthDkg /\ SetInv' /\ UNCHANGED <<pool, staking, roster, early>>
<1> Typed /\ ethdkg \in EthDkg
  BY DEF Inv, Typed
<1>1. isETHDKGRunning
  BY Running DEF submitMasterPublicKey, Phases
<1>2. /\ UNCHANGED <<pool, staking, roster, early>> /\ In("MPKSubmission")
      /\ ethdkg' = setPhase(ethdkg, "GPKJSubmission")
  BY DEF submitMasterPublicKey
<1>3. /\ ethdkg' = [phase |-> "GPKJSubmission", age |-> 0, num |-> 0, bad |-> ethdkg.bad,
               custom |-> ethdkg.custom, nonceIsZero |-> ethdkg.nonceIsZero,
               participants |-> ethdkg.participants]
      /\ ethdkg' \in EthDkg
  BY <1>2, Moved DEF Phases
<1>4. HasKey = {}
  BY <1>2 DEF Inv, SetInv, Keys, In, Early, Phases
<1>5. HasKey' = {}
  BY <1>3, <1>4 DEF HasKey
<1>6. Keys'
  BY <1>3, <1>5, FS_EmptySet DEF Keys, In, Early
<1> QED
  BY <1>1, <1>2, <1>3, <1>6, TakenPart

(* A ceremony is completed with the keys of all of its roster.             *)
LEMMA Completed ==
  ASSUME Inv, NEW v \in Accounts, complete(v)
  PROVE  /\ pool' \in Pool /\ ethdkg' \in EthDkg /\ SetInv'
         /\ pool'.validators = pool.validators /\ UNCHANGED <<staking, roster, early>>
<1> Typed /\ ethdkg \in EthDkg /\ pool \in Pool
  BY DEF Inv, Typed
<1>1. isETHDKGRunning
  BY Running DEF complete, Phases
<1>2. /\ UNCHANGED <<staking, roster, early>> /\ In("DisputeGPKJSubmission") /\ ethdkg.bad = 0
      /\ ethdkg' = [setPhase(ethdkg, "Completion") EXCEPT !.custom = FALSE]
      /\ pool' = completeETHDKG(pool)
  BY DEF complete
<1>3. setPhase(ethdkg, "Completion")
        = [phase |-> "Completion", age |-> 0, num |-> 0, bad |-> ethdkg.bad,
           custom |-> ethdkg.custom, nonceIsZero |-> ethdkg.nonceIsZero,
           participants |-> ethdkg.participants]
  BY Moved DEF Phases
<1>4. ethdkg' = [phase |-> "Completion", age |-> 0, num |-> 0, bad |-> ethdkg.bad,
           custom |-> FALSE, nonceIsZero |-> ethdkg.nonceIsZero,
           participants |-> ethdkg.participants]
  <2> DEFINE m == setPhase(ethdkg, "Completion")
  <2>1. ethdkg' = [m EXCEPT !.custom = FALSE]
    BY <1>2
  <2>2. m = [phase |-> "Completion", age |-> 0, num |-> 0, bad |-> ethdkg.bad,
             custom |-> ethdkg.custom, nonceIsZero |-> ethdkg.nonceIsZero,
             participants |-> ethdkg.participants]
    BY <1>3
  <2> HIDE DEF m
  <2> QED
    BY <2>1, <2>2
<1>5. ethdkg' \in EthDkg
  BY <1>4 DEF EthDkg, Phases
<1>6. pool' = [validators |-> pool.validators, exiting |-> pool.exiting,
               isConsensusRunning |-> TRUE, isMaintenanceScheduled |-> FALSE,
               maxInterval |-> pool.maxInterval]
  BY <1>2 DEF completeETHDKG, Pool
<1>7. pool' \in Pool /\ pool'.validators = pool.validators
  BY <1>6 DEF Pool
<1>8. early = {} /\ pool.validators = roster /\ roster \subseteq HasKey
  BY <1>1, <1>2 DEF Inv, SetInv, Frozen, Keys
<1>9. OutUntilClaimed'
  BY <1>6 DEF Inv, SetInv, OutUntilClaimed
<1>10. Stage' /\ Frozen' /\ Keys'
  BY <1>1, <1>4, Apart DEF Stage, Frozen, Keys, isETHDKGRunning, In, Early
<1>11. RosterRuns'
  BY <1>2, <1>4, <1>6, <1>8 DEF RosterRuns, HasKey, In
<1> QED
  BY <1>2, <1>5, <1>7, <1>9, <1>10, <1>11 DEF SetInv

(* An accusation of one who did not take part.                             *)
LEMMA Missing ==
  ASSUME Inv, NEW v \in Accounts,
         NEW phase \in {"RegistrationOpen", "ShareDistribution", "KeyShareSubmission",
                        "GPKJSubmission"},
         AccuseMissing(v, phase)
  PROVE  /\ pool' \in Pool /\ ethdkg' \in EthDkg /\ SetInv' /\ StepFrozen
         /\ UNCHANGED <<staking, roster, early>>
<1>1. isETHDKGRunning
  BY Running DEF Inv, AccuseMissing, Phases
<1>2. /\ v \in pool.validators /\ ethdkg' = [ethdkg EXCEPT !.bad = @ + 1]
      /\ pool' = majorSlash(pool, v) \/ pool' = moveToExitingQueue(pool, {v})
      /\ UNCHANGED <<staking, roster, early>>
  BY DEF AccuseMissing, minorSlash
<1> QED
  BY <1>1, <1>2, Accused, Apart DEF StepFrozen

(* An accusation of one who sent a bad share or key.                       *)
LEMMA Bad ==
  ASSUME Inv, NEW v \in Accounts, NEW w \in Accounts,
         NEW phase \in {"ShareDistribution", "GPKJSubmission"},
         NEW dispute \in {"DisputeShareDistribution", "DisputeGPKJSubmission"},
         AccuseBad(v, w, phase, dispute)
  PROVE  /\ pool' \in Pool /\ ethdkg' \in EthDkg /\ SetInv' /\ StepFrozen
         /\ UNCHANGED <<staking, roster, early>>
<1>1. isETHDKGRunning
  BY Running DEF Inv, AccuseBad, Phases
<1>2. PICK b \in {v, w} : pool' = majorSlash(pool, b)
  BY DEF AccuseBad
<1>3. /\ b \in pool.validators /\ ethdkg' = [ethdkg EXCEPT !.bad = @ + 1]
      /\ UNCHANGED <<staking, roster, early>>
  BY <1>2 DEF AccuseBad
<1> QED
  BY <1>1, <1>2, <1>3, Accused, Apart DEF StepFrozen

(* A step of the ceremony keeps the invariant.                             *)
LEMMA CeremonyStep ==
  ASSUME Inv, Ceremony, UNCHANGED proc
  PROVE  Inv' /\ StepFrozen
<1> DEFINE Kept == /\ pool' \in Pool /\ ethdkg' \in EthDkg /\ SetInv' /\ StepFrozen
                   /\ UNCHANGED <<staking, roster, early>>
<1> Typed /\ ethdkg \in EthDkg /\ pool \in Pool
  BY DEF Inv, Typed
<1>1. ASSUME NEW v \in Accounts, register(v) PROVE Kept
  <2>1. isETHDKGRunning /\ In("RegistrationOpen")
    BY <1>1, Running DEF register, Phases
  <2>2. Participate(v, ethdkg, None, "RegistrationOpen", "ShareDistribution")
    BY <1>1 DEF register
  <2>3. ethdkg' \in EthDkg /\ SetInv' /\ UNCHANGED <<pool, staking, roster, early>>
    BY <2>1, <2>2, TakePartEarly DEF In, Early, Phases
  <2> QED
    BY <2>3 DEF StepFrozen
<1>2. ASSUME NEW v \in Accounts, distributeShares(v) PROVE Kept
  <2>1. isETHDKGRunning /\ In("ShareDistribution")
    BY <1>2, Running DEF distributeShares, Phases
  <2>2. Participate(v, ethdkg, "RegistrationOpen", "ShareDistribution",
                    "DisputeShareDistribution")
    BY <1>2 DEF distributeShares
  <2>3. ethdkg' \in EthDkg /\ SetInv' /\ UNCHANGED <<pool, staking, roster, early>>
    BY <2>1, <2>2, TakePartEarly DEF In, Early, Phases
  <2> QED
    BY <2>3 DEF StepFrozen
<1>3. ASSUME NEW v \in Accounts, submitKeyShare(v) PROVE Kept
  <2>1. isETHDKGRunning /\ ethdkg.phase \in Early
    BY <1>3, Running DEF submitKeyShare, In, Phases, Early
  <2> DEFINE e == IF In("KeyShareSubmission") THEN ethdkg
                  ELSE setPhase(ethdkg, "KeyShareSubmission")
  <2>2. Participate(v, e, "ShareDistribution", "KeyShareSubmission", "MPKSubmission")
    BY <1>3 DEF submitKeyShare
  <2>3. /\ e \in EthDkg /\ e.phase = "KeyShareSubmission" /\ e.bad = ethdkg.bad
        /\ e.nonceIsZero = ethdkg.nonceIsZero /\ e.participants = ethdkg.participants
    <3>1. CASE In("KeyShareSubmission")
      BY <3>1 DEF In
    <3>2. CASE ~In("KeyShareSubmission")
      <4>1. e = setPhase(ethdkg, "KeyShareSubmission")
        BY <3>2
      <4>2. "KeyShareSubmission" \in Phases
        BY DEF Phases
      <4> HIDE DEF e
      <4>3. /\ e = [phase |-> "KeyShareSubmission", age |-> 0, num |-> 0, bad |-> ethdkg.bad,
                    custom |-> ethdkg.custom, nonceIsZero |-> ethdkg.nonceIsZero,
                    participants |-> ethdkg.participants]
            /\ e \in EthDkg
        BY <4>1, <4>2, Moved
      <4> QED
        BY <4>3
    <3> QED
      BY <3>1, <3>2
  <2> HIDE DEF e
  <2>4. ethdkg' \in EthDkg /\ SetInv' /\ UNCHANGED <<pool, staking, roster, early>>
    BY <2>1, <2>2, <2>3, TakePartEarly DEF Early, Phases
  <2> QED
    BY <2>4 DEF StepFrozen
<1>4. ASSUME submitMasterPublicKey PROVE Kept
  BY <1>4, MasterPublicKey DEF StepFrozen
<1>5. ASSUME NEW v \in Accounts, submitGPKJ(v) PROVE Kept
  <2>1. isETHDKGRunning /\ In("GPKJSubmission")
    BY <1>5, Running DEF submitGPKJ, Phases
  <2> QED
    BY <1>5, <2>1, TakePartKey DEF submitGPKJ, StepFrozen
<1>6. ASSUME NEW v \in Accounts, complete(v) PROVE Kept
  BY <1>6, Completed DEF StepFrozen
<1>7. ASSUME NEW v \in Accounts,
             NEW phase \in {"RegistrationOpen", "ShareDistribution", "KeyShareSubmission",
                            "GPKJSubmission"}, AccuseMissing(v, phase)
      PROVE  Kept
  BY <1>7, Missing
<1>8. ASSUME NEW v \in Accounts, NEW w \in Accounts,
             NEW phase \in {"ShareDistribution", "GPKJSubmission"},
             NEW dispute \in {"DisputeShareDistribution", "DisputeGPKJSubmission"},
             AccuseBad(v, w, phase, dispute)
      PROVE  Kept
  BY <1>8, Bad
<1>9. Kept
  <2> HIDE DEF Kept
  <2> QED
    BY Zenon, <1>1, <1>2, <1>3, <1>4, <1>5, <1>6, <1>7, <1>8
    DEF Ceremony, accuseParticipantNotRegistered, accuseParticipantDidNotDistributeShares,
        accuseParticipantDidNotSubmitKeyShares, accuseParticipantDidNotSubmitGPKJ,
        accuseParticipantDistributedBadShares, accuseParticipantSubmittedBadGPKJ
<1>10. Positions'
  BY <1>9, PositionsStay DEF Inv
<1> QED
  BY <1>9, <1>10 DEF Inv, Typed

-----------------------------------------------------------------------------
(* The steps outside of the ceremony.                                      *)

(* A step that changes neither the set nor the ceremony, which may end.    *)
LEMMA Elsewhere ==
  ASSUME SetInv, UNCHANGED <<roster, early>>, OutUntilClaimed',
         pool'.validators = pool.validators,
         pool'.isConsensusRunning => pool.isConsensusRunning /\ ethdkg'.custom = ethdkg.custom,
         isETHDKGRunning' => isETHDKGRunning,
         ethdkg'.phase = ethdkg.phase, ethdkg'.num = ethdkg.num, ethdkg'.bad = ethdkg.bad,
         ethdkg'.nonceIsZero = ethdkg.nonceIsZero, ethdkg'.participants = ethdkg.participants
  PROVE  SetInv' /\ StepFrozen
<1>1. Stage' /\ Frozen'
  BY DEF SetInv, Stage, Frozen, In
<1>2. Keys' /\ RosterRuns'
  BY DEF SetInv, Keys, RosterRuns, HasKey, In
<1> QED
  BY <1>1, <1>2 DEF SetInv, StepFrozen

(* The same, when the contracts are as before.                             *)
LEMMA NothingElse ==
  ASSUME SetInv, UNCHANGED <<pool, ethdkg, roster, early>>
  PROVE  SetInv' /\ StepFrozen
<1>1. OutUntilClaimed' /\ (isETHDKGRunning' => isETHDKGRunning)
  BY DEF SetInv, OutUntilClaimed, isETHDKGRunning, isETHDKGHalted, In
<1> QED
  BY <1>1, Elsewhere

(* The set changes while neither consensus nor a ceremony runs.            *)
LEMMA SetChanged ==
  ASSUME SetInv, mayChangeSet, UNCHANGED <<ethdkg, roster, early>>, OutUntilClaimed',
         ~pool'.isConsensusRunning
  PROVE  SetInv' /\ StepFrozen
<1>1. ~isETHDKGRunning'
  BY DEF mayChangeSet, isETHDKGRunning, isETHDKGHalted, In
<1>2. Stage' /\ Keys'
  BY DEF SetInv, Stage, Keys, HasKey, In
<1> QED
  BY <1>1, <1>2 DEF SetInv, Frozen, RosterRuns, StepFrozen, mayChangeSet

(* A new task has positions that no other task has.                        *)
LEMMA Staked ==
  ASSUME Typed, Positions, NEW o \in Operators, NEW vs \in SUBSET Accounts,
         NEW task \in {"registerValidators", "migrate"}, stakeValidators(o, task, vs)
  PROVE  staking' \in Staking /\ proc' \in [Operators -> Proc] /\ Positions'
<1> DEFINE ids == staking.minted + 1 .. staking.minted + Cardinality(vs)
           p == [task |-> task, addresses |-> vs, tokenIds |-> ids]
<1>1. Cardinality(vs) \in Nat /\ staking.minted \in Nat /\ proc \in [Operators -> Proc]
        /\ staking.positions \subseteq 1 .. staking.minted
  BY Finite DEF Typed, Staking, Positions
<1>2. /\ staking' = [positions |-> staking.positions \cup ids,
                      minted |-> staking.minted + Cardinality(vs)]
      /\ proc' = [proc EXCEPT ![o] = p]
  BY DEF stakeValidators
<1>3. ids \subseteq 1 .. staking.minted + Cardinality(vs) /\ ids \cap (1 .. staking.minted) = {}
  BY <1>1
<1>4. staking'.positions = staking.positions \cup ids
      /\ staking'.minted = staking.minted + Cardinality(vs)
  BY <1>2
<1>5. staking'.positions \subseteq 1 .. staking'.minted
  BY <1>1, <1>3, <1>4
<1>6. staking' \in Staking
  BY <1>1, <1>2 DEF Staking, Typed
<1> p \in Proc /\ p.tokenIds = ids
  BY <1>1 DEF Proc
<1> HIDE DEF p, ids
<1>7. proc' \in [Operators -> Proc] /\ proc'[o] = p
        /\ \A q \in Operators \ {o} : proc'[q] = proc[q]
  BY <1>1, <1>2
<1>8. \A q \in Operators : proc[q].tokenIds \subseteq staking.positions
  BY DEF Positions, PositionsKept
<1>9. \A q \in Operators : proc[q].tokenIds \cap ids = {}
  BY <1>1, <1>3, <1>8
<1>10. PositionsKept'
  BY <1>4, <1>7, <1>9 DEF Positions, PositionsKept
<1> QED
  BY <1>5, <1>6, <1>7, <1>10 DEF Positions

(* A task that ends gives up its positions or has used them.               *)
LEMMA Ended ==
  ASSUME Typed, Positions, NEW o \in Operators, proc' = [proc EXCEPT ![o] = Idle],
         \/ staking' = staking
         \/ staking' = [staking EXCEPT !.positions = @ \ proc[o].tokenIds]
  PROVE  staking' \in Staking /\ proc' \in [Operators -> Proc] /\ Positions'
<1>1. Idle \in Proc /\ Idle.tokenIds = {}
  BY DEF Idle, Proc
<1>2. proc' \in [Operators -> Proc] /\ proc'[o] = Idle
        /\ \A q \in Operators \ {o} : proc'[q] = proc[q]
  BY <1>1 DEF Typed
<1>3. /\ staking' \in Staking /\ staking'.minted = staking.minted
      /\ staking.positions \ proc[o].tokenIds \subseteq staking'.positions
      /\ staking'.positions \subseteq staking.positions
  BY DEF Typed, Staking
<1>4. PositionsKept'
  BY <1>1, <1>2, <1>3 DEF Positions, PositionsKept
<1> QED
  BY <1>2, <1>3, <1>4 DEF Positions

(* Registered validators have nothing left to claim.                       *)
LEMMA Registered ==
  ASSUME Inv, NEW o \in Operators, registerValidators(o)
  PROVE  Inv' /\ StepFrozen
<1> Typed /\ Positions /\ SetInv /\ pool \in Pool /\ proc[o] \in Proc
  BY DEF Inv, Typed
<1>1. CASE mayChangeSet /\ MayRegister(pool, proc[o].addresses, proc[o].tokenIds)
  <2>1. /\ pool' = [pool EXCEPT !.validators = @ \cup proc[o].addresses]
        /\ staking' = [staking EXCEPT !.positions = @ \ proc[o].tokenIds]
        /\ proc' = [proc EXCEPT ![o] = Idle] /\ UNCHANGED <<ethdkg, roster, early>>
    BY <1>1 DEF registerValidators
  <2>2. /\ pool' \in Pool /\ pool'.validators = pool.validators \cup proc[o].addresses
        /\ pool'.exiting = pool.exiting
        /\ pool'.isConsensusRunning = pool.isConsensusRunning
    BY <2>1 DEF Pool, Proc
  <2>3. OutUntilClaimed'
    BY <1>1, <2>2 DEF SetInv, OutUntilClaimed, MayRegister, isAccusable, isInExitingQueue
  <2>4. SetInv' /\ StepFrozen
    BY <1>1, <2>1, <2>2, <2>3, SetChanged DEF mayChangeSet
  <2>5. staking' \in Staking /\ proc' \in [Operators -> Proc] /\ Positions'
    BY <2>1, Ended
  <2> QED
    BY <2>1, <2>2, <2>4, <2>5 DEF Inv, Typed
<1>2. CASE ~(mayChangeSet /\ MayRegister(pool, proc[o].addresses, proc[o].tokenIds))
  <2>1. proc' = [proc EXCEPT ![o] = Idle] /\ UNCHANGED contracts
    BY <1>2 DEF registerValidators, Throw
  <2>2. SetInv' /\ StepFrozen
    BY <2>1, NothingElse DEF contracts
  <2>3. staking' \in Staking /\ proc' \in [Operators -> Proc] /\ Positions'
    BY <2>1, Ended DEF contracts
  <2> QED
    BY <2>1, <2>2, <2>3 DEF Inv, Typed, contracts
<1> QED
  BY <1>1, <1>2

(* The pool with another set and queue.                                    *)
LEMMA Joined ==
  ASSUME pool \in Pool, NEW STATE s, NEW STATE x
  PROVE  [pool EXCEPT !.validators = s, !.exiting = x]
           = [validators |-> s, exiting |-> x,
              isConsensusRunning |-> pool.isConsensusRunning,
              isMaintenanceScheduled |-> pool.isMaintenanceScheduled,
              maxInterval |-> pool.maxInterval]
<1> DEFINE r == [pool EXCEPT !.validators = s]
<1>1. r = [validators |-> s, exiting |-> pool.exiting,
           isConsensusRunning |-> pool.isConsensusRunning,
           isMaintenanceScheduled |-> pool.isMaintenanceScheduled,
           maxInterval |-> pool.maxInterval]
  BY DEF Pool
<1>2. [pool EXCEPT !.validators = s, !.exiting = x] = [r EXCEPT !.exiting = x]
  OBVIOUS
<1> HIDE DEF r
<1> QED
  BY <1>1, <1>2

(* The migration starts consensus with its own validators and those that   *)
(* were there.                                                             *)
LEMMA MigratedSet ==
  ASSUME Inv, NEW o \in Operators, migrateSnapshotsAndValidators(o)
  PROVE  Inv' /\ StepFrozen
<1> Typed /\ Positions /\ SetInv /\ pool \in Pool /\ proc[o] \in Proc /\ ethdkg \in EthDkg
  BY DEF Inv, Typed
<1> DEFINE vs == proc[o].addresses
           May == /\ mayChangeSet /\ MayRegister(pool, vs, proc[o].tokenIds)
                  /\ ethdkg.nonceIsZero /\ snapshots.first
<1>1. CASE May
  <2> DEFINE x == [v \in Accounts |-> IF pool.exiting[v] = None THEN None ELSE 0]
             q == [pool EXCEPT !.validators = @ \cup vs, !.exiting = x]
             ps == [v \in Accounts |-> IF v \in vs THEN "Completion" ELSE None]
  <2>1. /\ pool' = completeETHDKG(q) /\ ethdkg' = migrateValidators(ethdkg, vs)
        /\ staking' = [staking EXCEPT !.positions = @ \ proc[o].tokenIds]
        /\ proc' = [proc EXCEPT ![o] = Idle] /\ roster' = vs /\ early' = pool.validators
    BY <1>1 DEF migrateSnapshotsAndValidators
  <2>2. x \in [Accounts -> Nat \cup {None}] /\ ps \in [Accounts -> Phases \cup {None}]
          /\ vs \subseteq Accounts
    BY DEF Phases, Proc
  <2>3. /\ ethdkg' = [phase |-> ethdkg.phase, age |-> ethdkg.age, num |-> ethdkg.num,
                       bad |-> ethdkg.bad, custom |-> ethdkg.custom, nonceIsZero |-> FALSE,
                       participants |-> ps]
    BY <2>1 DEF migrateValidators, EthDkg
  <2> \A v \in Accounts : pool.exiting[v] = None => x[v] = None
    OBVIOUS
  <2> \A v \in vs : v \in Accounts => ps[v] = "Completion"
    OBVIOUS
  <2> HIDE DEF x, ps
  <2>4. q = [validators |-> pool.validators \cup vs, exiting |-> x,
             isConsensusRunning |-> pool.isConsensusRunning,
             isMaintenanceScheduled |-> pool.isMaintenanceScheduled,
             maxInterval |-> pool.maxInterval]
    BY Joined
  <2> HIDE DEF q
  <2>5. pool' = [validators |-> pool.validators \cup vs, exiting |-> x,
                 isConsensusRunning |-> TRUE, isMaintenanceScheduled |-> FALSE,
                 maxInterval |-> pool.maxInterval]
    BY <2>1, <2>4 DEF completeETHDKG
  <2>6. pool' \in Pool
    BY <2>2, <2>5 DEF Pool
  <2>7. ethdkg' \in EthDkg
    BY <2>2, <2>3 DEF EthDkg
  <2>8. In(None) /\ ethdkg'.phase = None
    BY <1>1, <2>3 DEF SetInv, Stage, In
  <2>9. OutUntilClaimed'
    BY <1>1, <2>5 DEF SetInv, OutUntilClaimed, MayRegister, isAccusable, isInExitingQueue, Pool,
                      Proc
  <2>10. Stage' /\ Frozen' /\ Keys'
    BY <2>3, <2>8, CeremonyAssumption DEF Stage, Frozen, Keys, isETHDKGRunning, In, Early, Phases
  <2>11. RosterRuns'
    BY <2>1, <2>2, <2>3, <2>5, <2>8, CeremonyAssumption DEF RosterRuns, In, Phases
  <2>12. SetInv'
    BY <2>9, <2>10, <2>11 DEF SetInv
  <2>13. StepFrozen
    BY <1>1 DEF StepFrozen, mayChangeSet
  <2>14. staking' \in Staking /\ proc' \in [Operators -> Proc] /\ Positions'
    BY <2>1, Ended
  <2> QED
    BY <2>1, <2>2, <2>6, <2>7, <2>12, <2>13, <2>14 DEF Inv, Typed, Pool
<1>2. CASE ~May
  <2>1. proc' = [proc EXCEPT ![o] = Idle] /\ UNCHANGED contracts
    BY <1>2 DEF migrateSnapshotsAndValidators, Throw
  <2>2. SetInv' /\ StepFrozen
    BY <2>1, NothingElse DEF contracts
  <2>3. staking' \in Staking /\ proc' \in [Operators -> Proc] /\ Positions'
    BY <2>1, Ended DEF contracts
  <2> QED
    BY <2>1, <2>2, <2>3 DEF Inv, Typed, contracts
<1> QED
  BY <1>1, <1>2

(* Validators that are unregistered wait in the queue.                     *)
LEMMA Unregistered ==
  ASSUME Inv, NEW vs \in SUBSET Accounts, unregisterValidators(vs)
  PROVE  Inv' /\ StepFrozen
<1> Typed /\ Positions /\ SetInv /\ pool \in Pool
  BY DEF Inv, Typed
<1> DEFINE x == [v \in Accounts |-> IF v \in vs THEN ClaimPeriod + 1 ELSE pool.exiting[v]]
<1>1. x \in [Accounts -> Nat \cup {None}] /\ \A v \in Accounts \ vs : x[v] = pool.exiting[v]
  BY PoolAssumption DEF Pool
<1>2. /\ pool' = [pool EXCEPT !.validators = pool.validators \ vs, !.exiting = x]
      /\ mayChangeSet /\ UNCHANGED <<ethdkg, staking, roster, early, proc>>
  BY DEF unregisterValidators, moveToExitingQueue
<1> HIDE DEF x
<1>3. pool' = [validators |-> pool.validators \ vs, exiting |-> x,
               isConsensusRunning |-> pool.isConsensusRunning,
               isMaintenanceScheduled |-> pool.isMaintenanceScheduled,
               maxInterval |-> pool.maxInterval]
  BY <1>2, Joined
<1>4. pool' \in Pool
  BY <1>1, <1>3 DEF Pool
<1>5. OutUntilClaimed'
  BY <1>1, <1>3 DEF SetInv, OutUntilClaimed, Pool
<1>6. SetInv' /\ StepFrozen
  BY <1>2, <1>3, <1>5, SetChanged DEF mayChangeSet
<1>7. Positions'
  BY <1>2, PositionsStay
<1> QED
  BY <1>2, <1>4, <1>6, <1>7 DEF Inv, Typed

(* What initializeETHDKG resets.                                           *)
LEMMA Reset ==
  ASSUME ethdkg \in EthDkg, NEW STATE ps, NEW STATE z
  PROVE  [ethdkg EXCEPT !.phase = "RegistrationOpen", !.age = 0, !.num = 0, !.bad = 0,
                        !.nonceIsZero = z, !.participants = ps]
           = [phase |-> "RegistrationOpen", age |-> 0, num |-> 0, bad |-> 0,
              custom |-> ethdkg.custom, nonceIsZero |-> z, participants |-> ps]
<1> DEFINE a == setPhase(ethdkg, "RegistrationOpen")
           b == [a EXCEPT !.bad = 0]
           c == [b EXCEPT !.nonceIsZero = z]
           d == [c EXCEPT !.participants = ps]
<1>1. [ethdkg EXCEPT !.phase = "RegistrationOpen", !.age = 0, !.num = 0, !.bad = 0,
                     !.nonceIsZero = z, !.participants = ps] = d
  BY DEF setPhase
<1>2. a = [phase |-> "RegistrationOpen", age |-> 0, num |-> 0, bad |-> ethdkg.bad,
           custom |-> ethdkg.custom, nonceIsZero |-> ethdkg.nonceIsZero,
           participants |-> ethdkg.participants]
  BY Moved DEF Phases
<1> HIDE DEF a
<1>3. b = [phase |-> "RegistrationOpen", age |-> 0, num |-> 0, bad |-> 0,
           custom |-> ethdkg.custom, nonceIsZero |-> ethdkg.nonceIsZero,
           participants |-> ethdkg.participants]
  BY <1>2
<1> HIDE DEF b
<1>4. c = [phase |-> "RegistrationOpen", age |-> 0, num |-> 0, bad |-> 0,
           custom |-> ethdkg.custom, nonceIsZero |-> z,
           participants |-> ethdkg.participants]
  BY <1>3
<1> HIDE DEF c
<1>5. d = [phase |-> "RegistrationOpen", age |-> 0, num |-> 0, bad |-> 0,
           custom |-> ethdkg.custom, nonceIsZero |-> z, participants |-> ps]
  BY <1>4
<1> HIDE DEF d
<1> QED
  BY <1>1, <1>5

(* A ceremony is opened for the set as it is.                              *)
LEMMA Opened ==
  ASSUME Inv, initializeEthdkg
  PROVE  Inv' /\ StepFrozen
<1> Typed /\ Positions /\ SetInv /\ pool \in Pool /\ ethdkg \in EthDkg
  BY DEF Inv, Typed
<1> DEFINE ps == [v \in Accounts |-> None]
<1>1. /\ ethdkg' = [ethdkg EXCEPT !.phase = "RegistrationOpen", !.age = 0, !.num = 0, !.bad = 0,
                                   !.nonceIsZero = FALSE, !.participants = ps]
      /\ mayChangeSet /\ UNCHANGED <<pool, staking, proc>>
      /\ roster' = pool.validators /\ early' = {}
  BY DEF initializeEthdkg, initializeETHDKG
<1>2. ps \in [Accounts -> Phases \cup {None}] /\ \A v \in Accounts : ps[v] = None
  OBVIOUS
<1> HIDE DEF ps
<1>3. /\ ethdkg' \in EthDkg /\ ethdkg'.phase = "RegistrationOpen" /\ ethdkg'.participants = ps
      /\ ethdkg'.nonceIsZero = FALSE
  <2>1. ethdkg' = [phase |-> "RegistrationOpen", age |-> 0, num |-> 0, bad |-> 0,
                   custom |-> ethdkg.custom, nonceIsZero |-> FALSE, participants |-> ps]
    BY <1>1, Reset
  <2> QED
    BY <1>2, <2>1 DEF EthDkg, Phases
<1>4. HasKey' = {}
  BY <1>2, <1>3, CeremonyAssumption DEF HasKey, Phases
<1>5. Keys'
  BY <1>3, <1>4 DEF Keys, In
<1>6. Stage' /\ Frozen' /\ RosterRuns' /\ StepFrozen
  BY <1>1, <1>3 DEF Stage, Frozen, RosterRuns, StepFrozen, mayChangeSet
<1>7. OutUntilClaimed'
  BY <1>1 DEF SetInv, OutUntilClaimed
<1>8. Positions'
  BY <1>1, PositionsStay
<1>9. roster' \subseteq Accounts /\ early' \subseteq Accounts
  BY <1>1 DEF Pool
<1> QED
  BY <1>1, <1>3, <1>5, <1>6, <1>7, <1>8, <1>9 DEF Inv, Typed, SetInv

(* The calls that set a flag or an interval.                               *)
LEMMA FlagSet ==
  ASSUME Inv, \/ scheduleMaintenanceTask
              \/ \E n \in Intervals : changeIntervalToEvict(n)
              \/ pauseEthdkgArbitraryHeight
  PROVE  Inv' /\ StepFrozen
<1> Typed /\ Positions /\ SetInv /\ pool \in Pool /\ ethdkg \in EthDkg
  BY DEF Inv, Typed
<1>1. UNCHANGED <<staking, roster, early, proc>>
  BY DEF scheduleMaintenanceTask, scheduleMaintenance, changeIntervalToEvict,
         setMaxIntervalWithoutSnapshots, pauseEthdkgArbitraryHeight,
         pauseConsensusOnArbitraryHeight
<1>2. /\ pool' \in Pool /\ pool'.validators = pool.validators /\ pool'.exiting = pool.exiting
      /\ pool'.isConsensusRunning => pool.isConsensusRunning /\ ethdkg' = ethdkg
      /\ ethdkg' = ethdkg \/ ethdkg' = [ethdkg EXCEPT !.custom = TRUE]
  <2>1. CASE scheduleMaintenanceTask
    BY <2>1 DEF scheduleMaintenanceTask, scheduleMaintenance, Pool
  <2>2. CASE \E n \in Intervals : changeIntervalToEvict(n)
    BY <2>2 DEF changeIntervalToEvict, setMaxIntervalWithoutSnapshots, Pool
  <2>3. CASE pauseEthdkgArbitraryHeight
    BY <2>3 DEF pauseEthdkgArbitraryHeight, pauseConsensusOnArbitraryHeight, Pool
  <2> QED
    BY <2>1, <2>2, <2>3
<1>3. /\ ethdkg' \in EthDkg /\ ethdkg'.phase = ethdkg.phase /\ ethdkg'.num = ethdkg.num
      /\ ethdkg'.bad = ethdkg.bad /\ ethdkg'.age = ethdkg.age
      /\ ethdkg'.nonceIsZero = ethdkg.nonceIsZero
      /\ ethdkg'.participants = ethdkg.participants
  BY <1>2 DEF EthDkg
<1>4. isETHDKGRunning' => isETHDKGRunning
  BY <1>3 DEF isETHDKGRunning, isETHDKGHalted, In
<1>5. OutUntilClaimed'
  BY <1>2 DEF SetInv, OutUntilClaimed
<1>6. SetInv' /\ StepFrozen
  BY <1>1, <1>2, <1>3, <1>4, <1>5, Elsewhere
<1>7. Positions'
  BY <1>1, PositionsStay
<1> QED
  BY <1>1, <1>2, <1>3, <1>6, <1>7 DEF Inv, Typed

(* The least interval between snapshots is of no concern to the set.       *)
LEMMA MinimumSet ==
  ASSUME Inv, NEW n \in Minimums, setMinEthereumBlocksPerSnapshot(n)
  PROVE  Inv' /\ StepFrozen
<1>1. UNCHANGED <<pool, ethdkg, staking, roster, early, proc>>
  BY DEF setMinEthereumBlocksPerSnapshot, setMinimumIntervalBetweenSnapshots
<1>2. SetInv' /\ StepFrozen
  BY <1>1, NothingElse DEF Inv
<1>3. Positions'
  BY <1>1, PositionsStay DEF Inv
<1> QED
  BY <1>1, <1>2, <1>3 DEF Inv, Typed

(* Snapshots and claims change the queue, and of nobody in the set.        *)
LEMMA QueueMoved ==
  ASSUME Inv, NEW v \in Accounts, snapshot(v) \/ claimExitingNFTPosition(v), UNCHANGED proc
  PROVE  Inv' /\ StepFrozen
<1> Typed /\ Positions /\ SetInv /\ pool \in Pool
  BY DEF Inv, Typed
<1>1. UNCHANGED <<ethdkg, staking, roster, early>>
  BY DEF snapshot, claimExitingNFTPosition
<1>2. /\ pool' \in Pool /\ pool'.validators = pool.validators
      /\ pool'.isConsensusRunning => pool.isConsensusRunning
      /\ \A u \in Accounts : pool.exiting[u] = None => pool'.exiting[u] = None
  <2>1. CASE snapshot(v)
    <3> DEFINE x == [u \in Accounts |-> IF pool.exiting[u] \in {None, 0} THEN pool.exiting[u]
                                        ELSE pool.exiting[u] - 1]
    <3>1. x \in [Accounts -> Nat \cup {None}]
            /\ \A u \in Accounts : pool.exiting[u] = None => x[u] = None
      BY DEF Pool
    <3>2. /\ pool' = [pool EXCEPT !.isConsensusRunning = ~pool.isMaintenanceScheduled,
                                  !.exiting = x]
          /\ pool.isConsensusRunning
      BY <2>1 DEF snapshot
    <3> HIDE DEF x
    <3>3. pool' \in Pool /\ pool'.validators = pool.validators /\ pool'.exiting = x
      BY <3>1, <3>2 DEF Pool
    <3> QED
      BY <3>1, <3>2, <3>3
  <2>2. CASE claimExitingNFTPosition(v)
    <3> DEFINE x == [pool.exiting EXCEPT ![v] = None]
    <3>1. x \in [Accounts -> Nat \cup {None}]
            /\ \A u \in Accounts : pool.exiting[u] = None => x[u] = None
      BY DEF Pool
    <3>2. pool' = [pool EXCEPT !.exiting = x]
      BY <2>2 DEF claimExitingNFTPosition
    <3> HIDE DEF x
    <3>3. pool' \in Pool /\ pool'.validators = pool.validators /\ pool'.exiting = x
            /\ pool'.isConsensusRunning = pool.isConsensusRunning
      BY <3>1, <3>2 DEF Pool
    <3> QED
      BY <3>1, <3>3
  <2> QED
    BY <2>1, <2>2
<1>3. OutUntilClaimed'
  BY <1>2 DEF SetInv, OutUntilClaimed, Pool
<1>4. isETHDKGRunning' => isETHDKGRunning
  BY <1>1 DEF isETHDKGRunning, isETHDKGHalted, In
<1>5. SetInv' /\ StepFrozen
  BY <1>1, <1>2, <1>3, <1>4, Elsewhere
<1>6. Positions'
  BY <1>1, PositionsStay
<1> QED
  BY <1>1, <1>2, <1>5, <1>6 DEF Inv, Typed

(* A block can end a ceremony and start nothing.                           *)
LEMMA BlockPassed ==
  ASSUME Inv, Block
  PROVE  Inv' /\ StepFrozen
<1> Typed /\ Positions /\ SetInv /\ ethdkg \in EthDkg
  BY DEF Inv, Typed
<1> DEFINE a == IF ethdkg.age < End /\ ~In("Completion") THEN ethdkg.age + 1 ELSE ethdkg.age
<1>1. UNCHANGED <<pool, staking, roster, early, proc>> /\ ethdkg' = [ethdkg EXCEPT !.age = a]
  BY DEF Block, NewBlock
<1>2. a \in Int /\ ethdkg.age \in Int /\ a >= ethdkg.age
  BY DEF EthDkg
<1> HIDE DEF a
<1>3. /\ ethdkg' \in EthDkg /\ ethdkg'.phase = ethdkg.phase /\ ethdkg'.num = ethdkg.num
      /\ ethdkg'.bad = ethdkg.bad /\ ethdkg'.age = a /\ ethdkg'.custom = ethdkg.custom
      /\ ethdkg'.nonceIsZero = ethdkg.nonceIsZero
      /\ ethdkg'.participants = ethdkg.participants
  BY <1>1, <1>2 DEF EthDkg
<1>4. isETHDKGHalted => isETHDKGHalted'
  BY <1>2, <1>3, CeremonyAssumption DEF isETHDKGHalted, In, End
<1>5. isETHDKGRunning' => isETHDKGRunning
  BY <1>3, <1>4 DEF isETHDKGRunning, In
<1>6. OutUntilClaimed'
  BY <1>1 DEF SetInv, OutUntilClaimed
<1>7. SetInv' /\ StepFrozen
  BY <1>1, <1>3, <1>5, <1>6, Elsewhere
<1>8. Positions'
  BY <1>1, PositionsStay
<1> QED
  BY <1>1, <1>3, <1>7, <1>8 DEF Inv, Typed

(* The first steps of a task of two transactions, and its end.             *)
LEMMA TaskMoved ==
  ASSUME Inv, NEW o \in Operators,
         \/ \E vs \in SUBSET Accounts : stakeValidators(o, "registerValidators", vs)
         \/ stakeValidators(o, "migrate", Migrated)
         \/ skipFirstTransaction(o)
         \/ Kill(o)
  PROVE  Inv' /\ StepFrozen
<1> Typed /\ Positions /\ SetInv
  BY DEF Inv
<1>1. UNCHANGED <<pool, ethdkg, roster, early>>
  BY DEF stakeValidators, skipFirstTransaction, Kill, Throw, contracts
<1>2. staking' \in Staking /\ proc' \in [Operators -> Proc] /\ Positions'
  <2>1. CASE \E vs \in SUBSET Accounts : stakeValidators(o, "registerValidators", vs)
    BY <2>1, Staked
  <2>2. CASE stakeValidators(o, "migrate", Migrated)
    BY <2>2, Staked, TasksAssumption
  <2>3. CASE skipFirstTransaction(o)
    <3> DEFINE p == [task |-> "migrate", addresses |-> Migrated, tokenIds |-> {}]
    <3>1. p \in Proc /\ p.tokenIds = {}
      BY TasksAssumption DEF Proc
    <3>2. proc' = [proc EXCEPT ![o] = p] /\ UNCHANGED staking
      BY <2>3 DEF skipFirstTransaction, contracts
    <3> HIDE DEF p
    <3>3. proc' \in [Operators -> Proc] /\ proc'[o] = p
            /\ \A q \in Operators \ {o} : proc'[q] = proc[q]
      BY <3>1, <3>2 DEF Typed
    <3>4. Positions'
      BY <3>1, <3>2, <3>3 DEF Positions, PositionsKept
    <3> QED
      BY <3>2, <3>3, <3>4 DEF Typed
  <2>4. CASE Kill(o)
    BY <2>4, Ended DEF Kill, Throw, contracts
  <2> QED
    BY <2>1, <2>2, <2>3, <2>4
<1>3. SetInv' /\ StepFrozen
  BY <1>1, NothingElse
<1> QED
  BY <1>1, <1>2, <1>3 DEF Inv, Typed

-----------------------------------------------------------------------------
(* The theorems.                                                           *)

(* The contracts start with an empty set and without a ceremony.           *)
LEMMA InvInit == Init => Inv
<1> SUFFICES ASSUME Init PROVE Inv
  OBVIOUS
<1>1. pool \in Pool /\ pool.validators = {} /\ ~pool.isConsensusRunning
  BY DEF Init, PoolInit, Pool
<1>2. ethdkg \in EthDkg /\ ethdkg.phase = None
  <2>1. End \in Int
    BY CeremonyAssumption DEF End
  <2> QED
    BY <2>1 DEF Init, ETHDKGInit, EthDkg
<1>3. staking \in Staking /\ proc \in [Operators -> Proc]
  BY DEF Init, PoolInit, Staking, Proc, Idle
<1>4. Positions
  BY DEF Init, PoolInit, Positions, PositionsKept, Idle
<1> USE DEF Init, PoolInit, ETHDKGInit
<1>5. SetInv
  BY <1>1, <1>2, CeremonyAssumption
  DEF SetInv, OutUntilClaimed, Stage, Frozen, Keys, RosterRuns, isETHDKGRunning, In, Early, Phases
<1> QED
  BY <1>1, <1>2, <1>3, <1>4, <1>5 DEF Inv, Typed

(* Every step keeps the invariant, and the set while it is in use.         *)
LEMMA InvNext == Inv /\ [Next]_vars => Inv' /\ (StepFrozen \/ UNCHANGED vars)
<1> SUFFICES ASSUME Inv, [Next]_vars PROVE Inv' /\ (StepFrozen \/ UNCHANGED vars)
  OBVIOUS
<1>1. CASE Tasks
  <2>1. CASE unregisterAllValidators
    BY <2>1, Unregistered DEF unregisterAllValidators, Inv, Typed, Pool
  <2>2. CASE scheduleMaintenanceTask \/ pauseEthdkgArbitraryHeight
               \/ \E n \in Intervals : changeIntervalToEvict(n)
    BY Zenon, <2>2, FlagSet
  <2>3. CASE \E n \in Minimums : setMinEthereumBlocksPerSnapshot(n)
    BY Zenon, <2>3, MinimumSet
  <2>4. CASE \E o \in Operators, vs \in (SUBSET Accounts) \ {{}} :
               stakeValidators(o, "registerValidators", vs)
    BY Zenon, <2>4, TaskMoved
  <2>5. CASE \E o \in Operators : stakeValidators(o, "migrate", Migrated)
    BY Zenon, <2>5, TaskMoved
  <2>6. CASE \E o \in Operators : skipFirstTransaction(o)
    BY Zenon, <2>6, TaskMoved
  <2>7. CASE \E o \in Operators : Kill(o)
    BY Zenon, <2>7, TaskMoved
  <2>8. CASE \E o \in Operators : registerValidators(o)
    BY Zenon, <2>8, Registered
  <2>9. CASE \E o \in Operators : migrateSnapshotsAndValidators(o)
    BY Zenon, <2>9, MigratedSet
  <2>10. CASE \E vs \in (SUBSET Accounts) \ {{}} : unregisterValidators(vs)
    BY Zenon, <2>10, Unregistered
  <2>11. CASE initializeEthdkg
    BY Zenon, <2>11, Opened
  <2> QED
    BY ONLY <1>1, <2>1, <2>2, <2>3, <2>4, <2>5, <2>6, <2>7, <2>8, <2>9, <2>10, <2>11 DEF Tasks
<1>2. CASE Ceremony /\ UNCHANGED proc
  BY <1>2, CeremonyStep
<1>3. CASE Snapshot
  BY <1>3, QueueMoved DEF Snapshot
<1>4. CASE \E v \in Accounts : claimExitingNFTPosition(v) /\ UNCHANGED proc
  BY <1>4, QueueMoved
<1>5. CASE Block
  BY <1>5, BlockPassed
<1>6. CASE UNCHANGED vars
  <2>1. SetInv'
    BY <1>6, NothingElse DEF Inv, vars
  <2>2. Positions'
    BY <1>6, PositionsStay DEF Inv, vars
  <2> QED
    BY <1>6, <2>1, <2>2 DEF Inv, Typed, vars
<1> QED
  BY <1>1, <1>2, <1>3, <1>4, <1>5, <1>6 DEF Next

(* The invariant holds in every behaviour.                                 *)
THEOREM Invariance == Spec => []Inv
BY InvInit, InvNext, PTL DEF Spec

(* Whenever consensus runs, the validators are those the last ceremony was *)
(* opened for and the ones it passed over; the former have keys.  The      *)
(* latter are there only after a migration, which keeps the validators that*)
(* were registered before it and gives them no key.                        *)
THEOREM ConsensusRunByRoster == Spec => []RosterRuns
<1>1. Inv => RosterRuns
  BY DEF Inv, SetInv
<1> QED
  BY <1>1, Invariance, PTL

(* When consensus runs after a ceremony that was completed, and not after  *)
(* a migration, every validator has a key.                                 *)
THEOREM ValidatorsHaveKeys ==
  Spec => [](pool.isConsensusRunning /\ In("Completion") =>
               \A v \in pool.validators :
                 ethdkg.participants[v] \in {"GPKJSubmission", "Completion"})
<1>1. RosterRuns => (pool.isConsensusRunning /\ In("Completion") =>
                       \A v \in pool.validators :
                         ethdkg.participants[v] \in {"GPKJSubmission", "Completion"})
  BY DEF RosterRuns
<1> QED
  BY <1>1, ConsensusRunByRoster, PTL

(* Nobody who left comes back without having claimed its position.         *)
THEOREM LeaversClaimFirst == Spec => []OutUntilClaimed
<1>1. Inv => OutUntilClaimed
  BY DEF Inv, SetInv
<1> QED
  BY <1>1, Invariance, PTL

(* A task finds the positions it staked, for any number of operators.      *)
THEOREM TasksKeepPositions == Spec => []PositionsKept
<1>1. Inv => PositionsKept
  BY DEF Inv, Positions
<1> QED
  BY <1>1, Invariance, PTL

(* While consensus or a ceremony runs only accusations change the set.     *)
THEOREM OnlyAccusationsWhileRunning == Spec => SetFrozen
<1>1. Inv /\ [Next]_vars => [StepFrozen]_vars
  BY InvNext
<1>2. Spec => [][StepFrozen]_vars
  BY <1>1, Invariance, PTL DEF Spec
<1> QED
  BY <1>2 DEF SetFrozen, StepFrozen
=============================================================================
