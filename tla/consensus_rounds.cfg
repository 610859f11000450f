CONSTANTS
  v1 = v1
  v2 = v2
  v3 = v3
  v4 = v4
  Validators = {v1, v2, v3, v4}
  Proposer <- MCProposer
  DEADBLOCKROUND = 3
  Blocks = {b1}
  EmptyBlock = EmptyBlock
  None = None
  Nil = Nil
  Informed = {}
  DBRNRWait = FALSE
  TxsAvailable = FALSE
  MayCrash = {}
  MaxRound = 2
  MaxNilVotes = 1
SPECIFICATION Spec
SYMMETRY Symm
INVARIANTS NextHeightAgreement LockHolds
PROPERTIES StuckUntilConsensus
CHECK_DEADLOCK FALSE
