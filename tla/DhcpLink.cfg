CONSTANTS
  Phys = {"none", "full100"}
  Garbage = {"other"}
  Leases = {30, 300, 600}
  RequestTries = 5
  MayLack = {"heap", "pcb", "pbuf"}
  MaxRefusals = 2
SPECIFICATION FairSpec
INVARIANTS PcbCounted AddressTimed
PROPERTY LinkGetsAddress
