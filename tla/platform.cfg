SPECIFICATION PlatformSpec
CONSTANTS
  i1 = i1
  i2 = i2
  NoOne = NoOne
  NoDoc = NoDoc
  Assignees = {a1}
  Remediations = {r1}
  Incidents = {i1}
  Policies <- DefaultPolicies
  OnCall <- DefaultOnCall
  Severity <- MCSeverity
  MaxChanges = 6
  MaxLog = 2
  TimeStep = 5
  Horizon = 15
  Tokens = {1, 2, 3}
  NoToken = 0
  SessionWorkers <- Actors
  Lifetime = 0
  MaxLogins = 1
  SessionHorizon = 1
  Clients = {c1}
  Checkers <- Actors
  PerMinute = 2
  Minute = 3
  Second = 1
  MaxCalls = 3
  RateHorizon = 5
  Servers <- Actors
  IdemKeys = {k1, k2, k3}
  Posts <- Actors
  IdemCapacity = 2
  MaxUses = 4
  MaxMade = 4
  Replicas <- Actors
  Saves <- Actors
  WidthDocs = {rb, seed, ex, fb}
  Runbooks = {rb, seed}
  Seeds = {seed}
  Executions = {ex}
  Live = {fb}
  MaxEdits = 2
  Writers <- Actors
  Salts = 2
  PageLimit = 1
  ScanLimit = 3
  AuditHorizon = 2
  MaxEntries = 4
  Day = 6
  DigestAt = 2
  Interval = 2
  Venues = {u1, u2}
  u1 = u1
  u2 = u2
  VenueOrder <- MCVenueOrder
  Askers = {b1}
  Resends = {n1}
  MuteHorizon = 1
  m1 = m1
  m2 = m2
  sc1 = sc1
  sc2 = sc2
  oa = oa
  ob = ob
  oc = oc
  Scenarios = {sc1, sc2}
  DefaultScenario = sc1
  ScenarioSLOs <- MCScenarioSLOs
  Viewers <- Actors
  MaxSwitches = 1
  MaxShifts = 1
SYMMETRY ActorSymmetry
INVARIANTS
  PlatformTypeOK
  OutboxTellsTheTimeline
  OneTokenPerSession
  EndedStaysEnded
  RotatedIsAnswered
  BucketIsFair
  WindowIsBounded
  CountersExpire
  OneIncidentPerKey
  RecentKeysAreKnown
  ShownIsStored
  AnsweredIsKept
  PagesMissOnlyLateRows
  MuteHolds
  DigestStatusIsTrue
  CachesFollowTheScenario
  AnswersAreCurrent
PROPERTIES
  PassedByWasPending
  DigestsOnTime
CHECK_DEADLOCK FALSE
