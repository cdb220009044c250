SPECIFICATION Spec
CONSTANTS
  MaxSessions = 2
  Budgets <- Quiet
INVARIANT NewLoginKept
