SPECIFICATION SessionSpec
CONSTANTS
  Actions <- SessionActions
  Reentrant = TRUE
  MaxEvents = 3
INVARIANTS
  ReadsStateAtItsTurn
CHECK_DEADLOCK FALSE
