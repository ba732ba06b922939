\* 1.5 calls a second, a second of two ticks, parallel calls on two hosts.
CONSTANTS
  h1 = h1
  h2 = h2
  h3 = h3
  ls = ls
  rm = rm
  df = df
  None = None
  Hosts = {h1, h2, h3}
  Commands = {ls, rm, df}
  HostAllowlist <- MCHostAllowlist
  CommandBlocklist <- MCCommandBlocklist
  CommandAllowlist <- MCCommandAllowlist
  RateTenths = 15
  Window = 2
  MaxTime = 3
  MaxParallel = 2
SPECIFICATION Spec
INVARIANTS
  TypeOK
  RateWindow
  RefusalJustified
  GatedRunsPermitted
