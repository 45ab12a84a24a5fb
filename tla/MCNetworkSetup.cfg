CONSTANTS
  p1 = p1
  p2 = p2
  c1 = c1
  c2 = c2
  c3 = c3
  a1 = a1
  a2 = a2
  a3 = a3
  Procs <- TwoProcs
  Containers <- ThreeContainers
  Addresses <- ThreeAddresses
  Names <- TwoNames
  Short <- Truncated
  None = None
SPECIFICATION Spec
SYMMETRY Interchangeable
CONSTRAINT StillClear
INVARIANTS TypeOK UniqueAddresses AddressesAccounted EndpointIsTrue OutboundOnceSettled
