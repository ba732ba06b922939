\* One host, three tasks, so that two can wait for the lock of a third.
CONSTANTS
  h1 = h1
  h2 = h2
  g1 = g1
  g2 = g2
  None = None
  Hosts = {h1}
  Targets = {g1}
  Tasks = {t1, t2, t3}
  HostsYaml <- MCHostsYaml
  PoolSize = 1
  MaxConns = 2
SPECIFICATION FairSpec
PROPERTIES
  ServedOrRefused
