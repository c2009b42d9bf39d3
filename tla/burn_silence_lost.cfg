SPECIFICATION Spec
CONSTANTS
  s1 = s1
  s2 = s2
  SLOs <- OneSLO
  Tiers <- OneTier
  Routes <- MCRoutes
  AckTTL = 1
  Lengths = {0}
  Workers = {w1, w2}
  MaxRequests = 3
  Horizon = 1
SYMMETRY Symmetric
CHECK_DEADLOCK FALSE
PROPERTIES
  OnlyExpiredIsPruned
