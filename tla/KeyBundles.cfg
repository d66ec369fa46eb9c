CONSTANTS
  Requests = {first, r1, r2, r3}
  First = first
  KeyIds = {0, 1}
  MaxFaults = 1
  None = None
SPECIFICATION Spec
SYMMETRY Symmetry
INVARIANTS OneTimeKeyOnce OneIdentity IdentityStays BundleIsCurrent
CHECK_DEADLOCK FALSE
