SPECIFICATION Spec
CONSTANTS
  alice = alice
  bob = bob
  shared = shared
  r0 = r0
  r1 = r1
  Profiles <- MCProfiles
  Global <- shared
  Routes <- MCRoutes
  BaseRoute <- r0
  Requests <- SaveRequests
  Missing <- MCMissing
  MaxOps = 2
  MaxCrashes = 1
SYMMETRY Symmetry
INVARIANTS
  OneIncompletePerProfile
  LocalRecoveryIsSafe
  NoStaleOverwrite
PROPERTIES
  AtomicOutcome
CHECK_DEADLOCK FALSE
