SPECIFICATION FairSpec
CONSTANTS
  MULTI = 3
  Ops = {"read1", "readN", "write1", "writeN"}
  Kinds = {"V1", "V2", "HC"}
  MayFail = {"CMD16", "CMD17", "CMD18", "CMD55", "CMD23", "CMD25"}
  MayUnderrun = FALSE
  Habits = {TRUE, FALSE}
INVARIANTS TypeOK OkMeansMoved BufferReleased TransferClosed AddressUnit
PROPERTIES OperationsEnd
