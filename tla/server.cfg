SPECIFICATION FairSpec
CONSTANTS
  j1 = j1
  j2 = j2
  s1 = s1
  p1 = p1
  Jobs <- TwoJobs
  Streams <- OneStream
  Pages <- OnePage
  Faults <- CrashAndInsert
CHECK_DEADLOCK FALSE
INVARIANTS TypeOK Chronicle StreamFaithful
PROPERTIES PageSettles StreamEnds KeepsPromise
