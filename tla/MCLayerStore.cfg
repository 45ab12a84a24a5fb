CONSTANTS
  p1 = p1
  p2 = p2
  base = base
  top = top
  conf = conf
  Pullers = {p1, p2}
  Digests = {base, top, conf}
  Manifest <- TwoLayers
  Config = conf
  Chunks = 1
  Width = 1
SYMMETRY Symmetry
SPECIFICATION Spec
INVARIANTS TypeOK CachedBlobsAreVerified MarkedLayersAreWhole ManifestComesLast PullsGoOn
PROPERTIES CompleteStaysUntouched
