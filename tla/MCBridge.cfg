\* Three calls, two hosts of which one is in hosts.yaml, two crashes.
CONSTANTS
  Calls = {c1, c2, c3}
  Hosts = {h1, h2}
  Yaml = {h1}
  MaxProbes = 2
  MaxCrashes = 2
SPECIFICATION Spec
SYMMETRY Symmetry
INVARIANTS
  TypeOK
  SentOnce
  AnswersHold
CHECK_DEADLOCK FALSE
