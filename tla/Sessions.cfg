CONSTANTS
  Clients = {1, 2}
  Queries <- MCQueries
  Cascades <- MCCascades
  Mechanisms = {"validation-based", "multi-version"}
  Hash <- MCHash
  MaxTx = 2
  RetryMax = 1
  MaxSerial = 5
  MaxConcurrent = 3

SPECIFICATION Spec

INVARIANTS TypeOK TransactionsOwned RunsAsOwner Serializable RefreshesOwn
PROPERTIES FailedNeverCommits EveryStatementAnswered
