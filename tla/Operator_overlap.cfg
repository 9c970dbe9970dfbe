SPECIFICATION Spec
CONSTANTS
  Commands = {c1, c2}
  Apps = {a1}
  Identities = {i1, i2}
  Keys = {k1}
  Items = {p1}
  Overlapping = TRUE
  None = None
PROPERTIES
  IdentityPreserved
