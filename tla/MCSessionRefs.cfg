SPECIFICATION Spec
CONSTANTS
  Stub = {s1, s2, s3}
  MaxExports = 1
  Cap = 2
SYMMETRY StubSymmetry
INVARIANT ImportNeedsHolder
INVARIANT ReleaseAccounting
PROPERTY ExportNeverReborn
CHECK_DEADLOCK FALSE
