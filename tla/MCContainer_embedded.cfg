SPECIFICATION FairSpec
CONSTANTS
  Clients = {c1}
  MaxForks = 3
  Commands <- SingleMethods
  OneShot = FALSE
  Serialised = TRUE
  TermHandled = TRUE
  CrashesAllowed = FALSE
PROPERTIES KeepsPromise StopReturns
CHECK_DEADLOCK FALSE
