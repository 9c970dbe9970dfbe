SPECIFICATION Spec
CONSTANTS
  Tests = {"named", "other", "azure"}
  Outcomes <- MCOutcomes
  Required <- MCRequired
  Allowed <- MCAllowed
  Minimum <- MCMinimum
  MaxAttempts = 2
  MaxSignals = 2
  None = None
INVARIANTS
  SignsOnlyGated
  ResultIsTrue
  NoSpuriousFailure
CHECK_DEADLOCK FALSE
