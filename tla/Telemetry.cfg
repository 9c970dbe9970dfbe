SPECIFICATION FairSpec
CONSTANTS
  Releases = {r1}
  Embedded = {e1, e2}
  None = None
  QueueMax = 2
  BatchMax = 2
  Times = {1,2}
  MaxReports = 2
  MaxDirectives = 1
  MaxEnrolled = 2
  MaxFaults = 1
INVARIANTS
  ActiveIsNewest
  RollbackSurvivesOnce
PROPERTIES
  RemovedIsCounted
  QueueDrains
CHECK_DEADLOCK FALSE
