CONSTANTS
  v1 = v1
  v2 = v2
  v3 = v3
  Validators = {v1, v2}
  Order <- MCOrder
  Me = v1
  Peers = {v2}
  Heights = {1}
  PrevBlocks = {p1, p2}
  Blocks = {b1}
  EmptyBlock = empty
  None = None
  DEADBLOCKROUND = 2
SPECIFICATION Spec
INVARIANTS DeadBlockRoundEmpty RecordsCoherent
PROPERTIES VotesStand OwnVotesStand NoVoteAfterConflict
CHECK_DEADLOCK FALSE
