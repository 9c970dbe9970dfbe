SPECIFICATION FairSpec
CONSTANTS
  Releases = {r1, r2}
  Environments = {e1}
  Operations = {k1, k2, k3}
  Workers = {w1, w2}
  Clients = {c1}
  Percentages = {100}
  Genuine = {TRUE, FALSE}
  LostCommits = FALSE
  None = None
  MaxVersion = 4
  MaxSealed = 2
  MaxFaults = 1
INVARIANTS
  OneOpenOperation
  DistributingIsPolicy
  PolicyIsReceipted
  MatchingVersionIsCurrent
  NoBlindDuplicate
PROPERTIES
  ConclusionsStand
  ImplementsPolicy
  OperationsSucceed
CHECK_DEADLOCK FALSE
