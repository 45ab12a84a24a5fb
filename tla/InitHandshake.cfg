SPECIFICATION FairSpec
CONSTANTS
  ParentExits = TRUE
  Faults = {"crash", "raise"}
INVARIANTS TypeOK HandshakeInOrder ExitCodePropagates ExecEntersUserFirst EachWaitEnds
PROPERTIES LaunchAsPromised HandshakeEnds
CHECK_DEADLOCK FALSE
