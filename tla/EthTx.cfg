SPECIFICATION FairSpec
CONSTANTS
  Sender <- MCSender
  prio <- MCprio
  NoSemaphore = 0
  ETH_TXBUFNB = 2
  MaxFrames = 4
CHECK_DEADLOCK FALSE
INVARIANTS TypeOK OneSender QueueInRing TransmissionGoesOn
PROPERTIES FramesLeave
