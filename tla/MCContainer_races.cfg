SPECIFICATION Spec
CONSTANTS
  Clients = {c1, c2}
  MaxForks = 1
  Commands <- Cli
  OneShot = TRUE
  Serialised = FALSE
  TermHandled = FALSE
  CrashesAllowed = TRUE
SYMMETRY Interchangeable
INVARIANTS TypeOK PublishedPidsStarted PublishedIsComplete StoppedIsOver
PROPERTIES RemovedStaysRemoved LaunchesAsPromised
CHECK_DEADLOCK FALSE
