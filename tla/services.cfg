SPECIFICATION ServicesSpec
CONSTANTS
  N = 2
  Replicas = {r1}
  Limit = 2
  MaxTrouble = 1
  h1 = h1
  Hooks = {h1, h2}
  Wants <- MCWants
  MaxAttempts = 2
  m1 = m1
  Actions = {m1, l1, l2}
  Risk <- MCRisk
  Ranks <- MCRanks
  Workers = {w1, w2}
  MaxDecisions = 3
  availability = availability
  stream = stream
  latency = latency
  tickets = tickets
  app = app
  Shapes = {availability, stream, latency, tickets, app}
  Shape <- MCShape
  Budgeted <- MCBudgeted
  MaxPerSlo = 100
  HotSpells <- MCHotSpells
  Waits = {2, 30, 120}
  MaxSteps = 5
INVARIANTS
  DeadLetteredAfterFailures
  DeliveredInOrder
  OneLaunchPerApproval
  StatusIsTheLastWord
  
PROPERTIES
  EveryoneIsServed
  StartedAsDecided
CHECK_DEADLOCK FALSE
