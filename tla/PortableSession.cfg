SPECIFICATION SessionFairSpec
CONSTANTS
  Actions <- SessionActions
  Reentrant = FALSE
  MaxEvents = 4
INVARIANTS
  ReadsStateAtItsTurn
  AppliedOnceInOrder
PROPERTIES
  NothingAfterDisposal
  EventsAreApplied
CHECK_DEADLOCK FALSE
