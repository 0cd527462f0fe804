SPECIFICATION Spec
CONSTANTS
  Stub = {s1, s2, s3}
  MaxExports = 2
  Cap = 2
SYMMETRY StubSymmetry
INVARIANT LiveStubHasExport
CHECK_DEADLOCK FALSE
