\* Three closes, a command and a call of set_env in a session whose bash prints two pieces of text.
CONSTANTS
  None = None
  Execs = {e1}
  Closers = {k1, k2, k3}
  BufferLines = 1
  MaxOut <- MCStart
  MaxEnv = 1
SPECIFICATION FairSpec
INVARIANTS
  TypeOK
  OneCloseWins
  RemovedIsEnding
  BufferIsTail
PROPERTIES
  CloseTakesEffect
CHECK_DEADLOCK FALSE
