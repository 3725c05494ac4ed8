SPECIFICATION PaperSpec
CONSTANTS
  d1 = d1
  d2 = d2
  w1 = w1
  w2 = w2
  w3 = w3
  p1 = p1
  p2 = p2
  a1 = a1
  v1 = v1
  g1 = g1
  g2 = g2
  Views <- OneView
  Posts <- TwoPosts
  TableProject = p1
  Docs <- TwoDocs
  Project <- ProjectOf
  Writes <- AllWrites
  WriteDoc <- DocOf
  Before <- Earlier
  MaxPassages = 2
  Asks <- OneAsk
  AskProject <- AboutFirst
  TopK = 2
  CandidateK = 3
  MaxRelevant = 2
  CragEnabled = TRUE
  Faults <- SomeFaults
CHECK_DEADLOCK FALSE
INVARIANT NeverGuesses
