CONSTANTS
  Clients = {1, 2}
  Queries <- MCQueries
  Cascades <- MCCascades
  Mechanisms = {"validation-based", "multi-version"}
  Hash <- MCHash
  MaxTx = 2
  RetryMax = 1
  MaxSerial = 3
  MaxConcurrent = 2

SPECIFICATION Spec

INVARIANT CommitsArePermanent
