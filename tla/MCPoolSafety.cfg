\* Two hosts, three tasks on connections of two uses.
CONSTANTS
  h1 = h1
  h2 = h2
  g1 = g1
  g2 = g2
  None = None
  Hosts = {h1, h2}
  Targets = {g1}
  Tasks = {t1, t2, t3}
  HostsYaml <- MCHostsYaml
  PoolSize = 2
  MaxConns = 3
SPECIFICATION Spec
SYMMETRY TaskSymmetry
INVARIANTS
  TypeOK
  Accounting
  Capacity
  OneConnectPerHost
  NoLiveConnectionForgotten
  PoolGrowthJustified
PROPERTIES
  LoadKeepsRegistrations
  ImplementsLease
