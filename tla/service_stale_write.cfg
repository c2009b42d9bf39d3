SPECIFICATION Spec
CONSTANTS
  i1 = i1
  i2 = i2
  NoOne = NoOne
  NoDoc = NoDoc
  Assignees = {a1}
  Remediations = {}
  Incidents = {i1}
  Workers = {w1, w2}
  Policies <- DefaultPolicies
  OnCall <- DefaultOnCall
  Severity <- MCSeverity
  ExpectedVersions <- AlwaysVersioned
  CanCrash = FALSE
  MaxPages = 2
  MaxRequests = 4
  TimeStep = 5
  Horizon = 0
CHECK_DEADLOCK FALSE
PROPERTIES
  AppliedToExpectedVersion
