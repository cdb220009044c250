SPECIFICATION Spec
CONSTANTS
  alice = alice
  bob = bob
  shared = shared
  r0 = r0
  r1 = r1
  Profiles <- MCProfiles
  Global <- shared
  Routes <- MCRoutes
  BaseRoute <- r0
  Requests <- MoveRequests
  Missing <- MCMissing
  MaxOps = 2
  MaxCrashes = 1
PROPERTIES
  CommittedSurvives
CHECK_DEADLOCK FALSE
