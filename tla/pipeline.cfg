SPECIFICATION RunSpec
CONSTANTS
  d1 = d1
  d2 = d2
  d3 = d3
  d4 = d4
  d5 = d5
  c1 = c1
  c2 = c2
  c3 = c3
  r1 = r1
  r2 = r2
  Ingests <- Calls
  Docs <- AllDocs
  Contents <- AllContents
  Anchored <- AnchoredIn
  Dims <- OneDim
  Faults <- NoFault
  Overlap = "any"
  Runs <- BothRuns
  Manifest <- Manifests
  Obtained <- HaveFiles
  Findings <- FindingsOnly
  MaxDocs = 2
CHECK_DEADLOCK FALSE
INVARIANTS RunTypeOK GraphSound AcknowledgedKept
PROPERTIES UsesSerially EveryRunEnds
