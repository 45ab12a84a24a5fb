CONSTANTS
  p1 = p1
  p2 = p2
  Procs <- TwoProcs
  NumHosts = 4
  Gateway = 2
  MaxTries = 2
  Faults = {"crash", "ioerror"}
SPECIFICATION FairSpec
INVARIANTS TypeOK UniqueAddresses Bookkeeping MutualExclusion
PROPERTIES ImplementsAddressPool ExhaustedOnlyWhenFull CallsReturn
