SPECIFICATION AuditSpec
CONSTANTS
  Writers = {v1, v2}
  Salts = 2
  PageLimit = 1
  ScanLimit = 3
  AuditHorizon = 2
  MaxEntries = 4
INVARIANTS
  NoGaps
CHECK_DEADLOCK FALSE
