SPECIFICATION Spec
CONSTANTS
  A = A
  B = B
  Tx = {1, 2}
  Object = {A}
  Schemes = {"wound-wait"}
  CCM_RETRY_MAX = 1
  AtomicCalls = FALSE
INVARIANT GrantsCompatible
