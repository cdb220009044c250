SPECIFICATION Spec
CONSTANTS
  alice = alice
  bob = bob
  None = None
  Accounts <- MCAccounts
  Capacity = 2
  Budgets <- MCBudgets
SYMMETRY Symmetry
INVARIANTS
  RefusedOnlyIfWithdrawn
  OutboxIsCurrent
CHECK_DEADLOCK FALSE
