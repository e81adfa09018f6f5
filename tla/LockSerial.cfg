SPECIFICATION Spec
CONSTANTS
  A = A
  B = B
  Tx = {1, 2, 3}
  Object = {A, B}
  Schemes = {"wound-wait"}
  CCM_RETRY_MAX = 1
  AtomicCalls = TRUE
SYMMETRY ObjectSymmetry
INVARIANTS TypeOK GrantsCompatible GrantsHeld EndedHoldNothing WaitsForSmallerId
PROPERTIES OldestWriteNeverRefused ImplementsTwoPhaseLocking
