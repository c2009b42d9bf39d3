SPECIFICATION Spec
CONSTANTS
  s1 = s1
  s2 = s2
  SLOs <- TwoSLOs
  Tiers <- OneTier
  Routes <- MCRoutes
  AckTTL = 1
  Lengths = {0, 1}
  Workers = {w1, w2}
  MaxRequests = 2
  Horizon = 2
SYMMETRY Symmetric
CHECK_DEADLOCK FALSE
INVARIANTS
  ToldTwiceOnlyByOverlap
  NeverOvercounts
PROPERTIES
  QuietIsNotPaged
