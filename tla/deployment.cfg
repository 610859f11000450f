SPECIFICATION Spec
CONSTANTS
  ETHDKG = ETHDKG
  ETHDKGPhases = ETHDKGPhases
  PublicStaking = PublicStaking
  Distribution = Distribution
  AliceNetFactoryC = AliceNetFactoryC
  o1 = o1
  o2 = o2
  None = None
  Reverted = Reverted
  Contracts = {ETHDKG, ETHDKGPhases, PublicStaking, Distribution, AliceNetFactoryC}
  InitArity <- MCInitArity
  ConArity <- MCConArity
  Requires <- MCRequires
  Tags <- MCTags
  Operators = {o1, o2}
  FactoryName = AliceNetFactoryC
  Large = {Distribution}
  Listings <- MCListings
  Folders = {"base", "custom"}
  Base = "base"
  NameLists <- MCNameLists
  MaxCommands = 3
  MaxFactories = 1
  MaxOverlapping = 2
INVARIANT ProxyRunsItsLogic
INVARIANT RecordsTrue
PROPERTY EntriesKept
PROPERTY DeployedAll
PROPERTY FreshDeploySucceeds
 
SYMMETRY MCSymmetry
CHECK_DEADLOCK FALSE
