SPECIFICATION FairSpec
CONSTANTS
  alice = alice
  bob = bob
  shared = shared
  r0 = r0
  r1 = r1
  Profiles <- MCProfiles
  Global <- shared
  Routes <- MCRoutes
  BaseRoute <- r0
  Requests <- GlobalRequests
  Missing <- MCMissing
  MaxOps = 2
  MaxCrashes = 1
INVARIANTS
  RecoveryIsSafe
  NoTornRest
PROPERTIES
  CommittedSurvives
  EveryRequestAnswered
  ImplementsAtomicConfig
CHECK_DEADLOCK FALSE
