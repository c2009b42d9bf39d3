SPECIFICATION WSpec
CONSTANTS
  N = 2
  Replicas = {r1, r2}
  Limit = 2
  MaxTrouble = 0
  h1 = h1
  Hooks = {h1}
  Wants <- MCWants
  MaxAttempts = 2
INVARIANTS
  DeliveredAtLeastOnce
CHECK_DEADLOCK FALSE
