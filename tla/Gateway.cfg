SPECIFICATION Spec
CONSTANTS
  Value <- Entries
  Empty <- NoEntry
  Pids = {p1, p2}
  NoPid = NoPid
  MaxLaunches = 2
  Budgets <- MCBudgets
SYMMETRY Symmetry
INVARIANTS OnlyOwnSignalled BackupNeverDecides
PROPERTIES ListenerStaysOwned WrapperStaysOwned ImplementsDurableRegister
CHECK_DEADLOCK FALSE
