SPECIFICATION FairSpec
CONSTANTS
  NumPbuf = 3
  NumMsg = 2
  MaxChain = 3
  QueueLength = 1
  AfterOverlap = FALSE
INVARIANTS TypeOK HandedOutOnce FreedByOwner NothingLost FrameWhole
PROPERTIES PoolRecovers
