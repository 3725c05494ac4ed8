SPECIFICATION DiscoverySpec
CONSTANTS
  s1 = s1
  s2 = s2
  openalex = openalex
  s2graph = s2graph
  crossref = crossref
  x = x
  y = y
  z = z
  Searches <- TwoSearches
  Threshold = 2
  Cooldown = 2
  Timeout = 2
  Run = s1
  Providers <- Adapters
  Ours = openalex
  Papers <- ThreePapers
  Returns <- Finds
  Scores = {1, 2, 3}
  RelevanceFloor = 2
  MaxCandidates = 3
  TopCount = 2
  MinAbstract = 1
INVARIANTS DiscoveryTypeOK OpenMeansOutage DoiOnce Represented
PROPERTIES Recovers Settles
