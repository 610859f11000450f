CONSTANTS
  v1 = v1
  v2 = v2
  v3 = v3
  v4 = v4
  Validators = {v1, v2, v3, v4}
  Proposer <- MCProposer
  DEADBLOCKROUND = 2
  Blocks = {b1}
  EmptyBlock = EmptyBlock
  None = None
  Nil = Nil
  Informed = {}
  DBRNRWait = FALSE
  TxsAvailable = TRUE
  MayCrash = {}
  MaxRound = 2
  MaxNilVotes = 16
SPECIFICATION Spec
SYMMETRY Symm3
INVARIANTS Agreement
CHECK_DEADLOCK FALSE
