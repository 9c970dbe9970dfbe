SPECIFICATION Spec
CONSTANTS
  Releases = {r1}
  Environments = {e1}
  Operations = {k1, k2}
  Workers = {w1, w2}
  Clients = {c1}
  Percentages = {100}
  Genuine = {TRUE}
  LostCommits = TRUE
  None = None
  MaxVersion = 4
  MaxSealed = 2
  MaxFaults = 1
PROPERTIES
  TerminalIsForever
CHECK_DEADLOCK FALSE
