\* One host, two tasks, connections of two uses.
CONSTANTS
  h1 = h1
  h2 = h2
  g1 = g1
  g2 = g2
  None = None
  Hosts = {h1}
  Targets = {g1}
  Tasks = {t1, t2}
  HostsYaml <- MCHostsYaml
  PoolSize = 2
  MaxConns = 2
SPECIFICATION Spec
INVARIANTS
  IdleMeansUnused
