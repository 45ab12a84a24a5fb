SPECIFICATION Spec
CONSTANTS
  Clients = {c1}
  MaxForks = 1
  Commands <- CliDetached
  OneShot = TRUE
  Serialised = TRUE
  TermHandled = FALSE
  CrashesAllowed = FALSE
INVARIANTS StoppedMeansExited
CHECK_DEADLOCK FALSE
