SPECIFICATION Spec
CONSTANTS
  i1 = i1
  i2 = i2
  NoOne = NoOne
  NoDoc = NoDoc
  Assignees = {a1}
  Remediations = {}
  Incidents = {i1, i2}
  Workers = {w1}
  Policies <- DefaultPolicies
  OnCall <- DefaultOnCall
  Severity <- MCSeverity
  ExpectedVersions <- AnyVersion
  CanCrash = TRUE
  MaxPages = 2
  MaxRequests = 4
  TimeStep = 5
  Horizon = 15
CHECK_DEADLOCK FALSE
INVARIANTS
  PagedOncePerTier
PROPERTIES
  ImplementsLifecycle
