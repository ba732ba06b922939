\* Two commands, one close and one call of set_env.
CONSTANTS
  None = None
  Execs = {e1, e2}
  Closers = {k1}
  BufferLines = 1
  MaxOut <- MCOne
  MaxEnv = 1
SPECIFICATION Spec
INVARIANTS
  SentinelMeansComplete
CHECK_DEADLOCK FALSE
