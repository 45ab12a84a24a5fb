CONSTANTS
  p1 = p1 p2 = p2 t1 = t1 t2 = t2 d1 = d1 d2 = d2
  e = e c = c d = d r = r y = y
  None = None Torn = Torn
  MaxBlobs = 2
  Procs <- MCProcs Tags <- MCTags Blobs <- MCBlobs Images <- MCImages
  Digests <- MCDigests Dirs <- MCDirs
  Steps <- MCSteps Kind <- MCKind Recipes <- MCRecipes
  Workloads <- MCWorkloads
SPECIFICATION Spec
INVARIANT SnapshotIsThere
CHECK_DEADLOCK FALSE
