SPECIFICATION Spec
CONSTANTS
  N = 3
  Limit = 2
  HasDoi <- SecondNoDoi
  OnArxiv <- FirstArxiv
  MaxRuns = 3
  Faults <- PutFault
CHECK_DEADLOCK FALSE
INVARIANTS NoDoubleWork Complete PointersResolve UploadHonouredByDoi
