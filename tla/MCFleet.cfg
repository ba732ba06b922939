\* Every tool on up to three hosts, with batches, playbooks and retries of two.
CONSTANTS
  Hosts = {h1, h2}
  None = None
  HistoryLimit = 2
  MaxHosts = 3
  MaxSteps = 2
SPECIFICATION FairSpec
INVARIANTS
  TypeOK
  AuditTellsResults
  RunsExactlyUntilStopped
  HistoryIsTail
  HistoryIsNewest
PROPERTIES
  NothingRunsAfterAnswer
  KeepsPromise
  CallAnswered
CHECK_DEADLOCK FALSE
