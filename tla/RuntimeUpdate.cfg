SPECIFICATION Spec
CONSTANTS
  MaxDirs = 3
  MaxCrashes = 1
  MaxDamage = 1
  MaxFaults = 1
INVARIANTS OnlyReviewedRuntimes PromotionCanBeUndone NoUnaskedRetry RejectedIsShown
PROPERTIES  ReferencedVersionsKept
