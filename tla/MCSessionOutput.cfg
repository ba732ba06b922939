\* Two commands in one session, of which one prints two pieces of text.
CONSTANTS
  None = None
  Execs = {e1, e2}
  Closers = {}
  BufferLines = 1
  MaxOut <- MCOutput
  MaxEnv = 0
SPECIFICATION Spec
INVARIANTS
  ExactWhenUndisturbed
CHECK_DEADLOCK FALSE
