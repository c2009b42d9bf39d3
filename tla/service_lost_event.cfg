SPECIFICATION Spec
CONSTANTS
  i1 = i1
  i2 = i2
  NoOne = NoOne
  NoDoc = NoDoc
  Assignees = {}
  Remediations = {}
  Incidents = {i1}
  Workers = {w1}
  Policies <- DefaultPolicies
  OnCall <- DefaultOnCall
  Severity <- MCSeverity
  ExpectedVersions <- NeverVersioned
  CanCrash = TRUE
  MaxPages = 2
  MaxRequests = 3
  TimeStep = 5
  Horizon = 0
CHECK_DEADLOCK FALSE
INVARIANTS
  NoLostEvents
