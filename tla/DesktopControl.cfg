SPECIFICATION Spec
CONSTANTS
  alice = alice
  bob = bob
  c1 = c1
  c2 = c2
  Principals = {alice, bob}
  Nobody = Nobody
  Commands = {c1, c2}
  NoCommand = NoCommand
  Owner <- MCOwner
  MaxFailures = 1
  MaxCrashes = 1
INVARIANTS AtMostOnce FinishedIsKept
PROPERTY HeartbeatsResume
