CONSTANTS
  p1 = p1
  p2 = p2
  base = base
  top = top
  conf = conf
  Pullers = {p1}
  Digests = {base, top, conf}
  Manifest <- SameLayerTwice
  Config = conf
  Chunks = 2
  Width = 2
SPECIFICATION Spec
INVARIANT EveryCachedBlobIsVerified
