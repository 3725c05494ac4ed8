SPECIFICATION Spec
CONSTANTS
  i1 = i1
  i2 = i2
  i3 = i3
  d1 = d1
  d2 = d2
  c1 = c1
  c2 = c2
  c3 = c3
  Ingests <- TwoCalls
  Docs <- TwoDocs
  Contents <- AllContents
  Anchored <- AnchoredIn
  Dims <- OneDim
  Faults <- NoFault
  Overlap = "documents"
CHECK_DEADLOCK FALSE
PROPERTY NoEviction
