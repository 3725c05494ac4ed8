SPECIFICATION Spec
CONSTANTS
  N = 2
  Limit = 2
  HasDoi <- FirstDoi
  OnArxiv <- NoArxiv
  MaxRuns = 2
  Faults <- NoFault
CHECK_DEADLOCK FALSE
INVARIANT UploadHonoured
