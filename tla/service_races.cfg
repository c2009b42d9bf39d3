SPECIFICATION Spec
CONSTANTS
  i1 = i1
  i2 = i2
  NoOne = NoOne
  NoDoc = NoDoc
  Assignees = {a1}
  Remediations = {r1}
  Incidents = {i1}
  Workers = {w1, w2}
  Policies <- DefaultPolicies
  OnCall <- DefaultOnCall
  Severity <- MCSeverity
  ExpectedVersions <- NeverVersioned
  CanCrash = TRUE
  MaxPages = 2
  MaxRequests = 4
  TimeStep = 5
  Horizon = 15
CHECK_DEADLOCK FALSE
INVARIANTS
  DocumentsCoherent
  EventsFollowCommits
  EventsAreLegalCommits
SYMMETRY WorkerSymmetry
