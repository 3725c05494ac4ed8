SPECIFICATION SynthesisSpec
CONSTANTS
  a = a
  b = b
  c = c
  x = x
  Claims <- ThreeClaims
  Invented <- OneInvented
  MaxSentences = 2
  MaxTags = 2
  MaxSummary = 1
SYMMETRY AnyOrder
CHECK_DEADLOCK FALSE
INVARIANTS SynthesisTypeOK Sourced ReferencesKept FirstAppearance NothingFabricated
