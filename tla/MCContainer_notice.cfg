SPECIFICATION FairSpec
CONSTANTS
  Clients = {c1, c2}
  MaxForks = 1
  Commands <- CliDaemon
  OneShot = TRUE
  Serialised = FALSE
  TermHandled = FALSE
  CrashesAllowed = FALSE
PROPERTIES DeadIsNoticed
CHECK_DEADLOCK FALSE
