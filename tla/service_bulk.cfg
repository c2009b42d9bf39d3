SPECIFICATION FairSpec
CONSTANTS
  i1 = i1
  i2 = i2
  NoOne = NoOne
  NoDoc = NoDoc
  Assignees = {}
  Remediations = {}
  Incidents = {i1, i2}
  Workers = {w1, w2}
  Policies <- DefaultPolicies
  OnCall <- DefaultOnCall
  Severity <- MCSeverity
  ExpectedVersions <- NeverVersioned
  CanCrash = FALSE
  MaxPages = 2
  MaxRequests = 4
  TimeStep = 5
  Horizon = 0
CHECK_DEADLOCK FALSE
PROPERTIES
  EveryRequestEnds
