SPECIFICATION Spec
CONSTANTS
  Owned = {"runtime"}
  Rehosted = {"expo", "core"}
  Leaking = {"leak"}
  Builds <- MCBuilds
  Publications <- MCPublications
  Inventory <- MCInventory
  Developers = {dev1}
  Stages = {d1, d2}
  Exports = {x1, x2}
  None = None
SYMMETRY Symmetry
INVARIANTS
  BundlesAgree
  SignedWasConsumed
  InternalPinsBytes
  JitPackIsClosed
CHECK_DEADLOCK FALSE
