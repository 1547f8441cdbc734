SPECIFICATION Spec
CONSTANTS
  NumPbuf = 3
  NumMsg = 2
  MaxChain = 2
  QueueLength = 1
  AfterOverlap = TRUE
INVARIANTS NeverHandedOutTwice
