SPECIFICATION FairDeliverySpec
CONSTANTS
  Releases = {r1, r2}
  Environments = {e1}
  Operations = {k1, k2}
  Workers = {w1}
  Clients = {c1}
  Percentages = {50, 100}
  Genuine = {TRUE}
  LostCommits = FALSE
  None = None
  MaxVersion = 4
  MaxSealed = 1
  MaxFaults = 0
  Devices = {d1}
  Home <- HomeOf
  Bucket <- BucketOf
  MaxBroken = 1
INVARIANTS
  NoReturn
PROPERTIES
  OffersAreCurrent
  PolicyReaches
  DownloadsFinish
CHECK_DEADLOCK FALSE
