SPECIFICATION FairSpec
CONSTANTS
  ETH_RXBUFNB = 3
  MaxFrames = 6
  LongFrames = TRUE
  MayLackPbuf = TRUE
  MayRefuse = TRUE
INVARIANTS TypeOK RingWindow ReceptionGoesOn
PROPERTIES InputInOrder FramesReachStack
CHECK_DEADLOCK FALSE
