SPECIFICATION LiveSpec
CONSTANTS
  MaxSessions = 2
  Budgets <- Everything
INVARIANTS NoResurrection OneAccountInMemory IntentsAreDelivered
PROPERTIES RenewalContinues GateIsNeverStuck
