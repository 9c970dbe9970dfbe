SPECIFICATION Spec
CONSTANTS
  Commands = {c1, c2, c3}
  Apps = {a1}
  Identities = {i1, i2}
  Keys = {k1, k2}
  Items = {p1}
  Overlapping = FALSE
  None = None
SYMMETRY Symmetry
INVARIANTS
  KeysInUseAreLive
  BackupIsOneCut
  RestoredIsWhole
PROPERTIES
  IdentityPreserved
