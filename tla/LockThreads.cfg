SPECIFICATION FairSpec
CONSTANTS
  A = A
  B = B
  Tx = {1, 2}
  Object = {A, B}
  Schemes = {"wound-wait", "wait-die", "timeout"}
  CCM_RETRY_MAX = 1
  AtomicCalls = FALSE
INVARIANTS NoDeadlockCycle WaitsForSmallerId
PROPERTIES OutcomeIsFinal EveryCallReturns
