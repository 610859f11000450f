SPECIFICATION Spec
CONSTANTS
  v1 = v1
  v2 = v2
  v3 = v3
  o1 = o1
  o2 = o2
  None = None
  Accounts = {v1, v2, v3}
  MaxNumValidators = 3
  ClaimPeriod = 1
  Intervals = {2}
  MinimumInterval = 1
  Minimums = {2}
  Stakes = 3
  MinValidators = 2
  PhaseLength = 1
  ConfirmationLength = 1
  Operators = {o1, o2}
  Migrated = {v1, v2}
INVARIANT TypeOK
INVARIANT RosterRuns
INVARIANT OutUntilClaimed
INVARIANT PositionsKept
PROPERTY SetFrozen
PROPERTY CeremonyEnds
PROPERTY MaintenanceStops
