SPECIFICATION FairSpec
CONSTANTS
  catalog = catalog
  one = one
  two = two
  both = both
  Nobody = Nobody
  Calls <- MCCalls
  Profiles = {1, 2}
  ScopeProfiles <- MCScopeProfiles
  ScopeGlobal <- MCScopeGlobal
INVARIANTS
  MutualExclusion
PROPERTIES
  NoForeignWrites
  ImplementsPermitQueue
CHECK_DEADLOCK FALSE
