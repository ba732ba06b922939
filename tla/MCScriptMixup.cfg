\* Two scripts and nothing else.
CONSTANTS
  Opens = {}
  Closes = {}
  Ports = {p1, p2}
  HostPorts = {p2}
  NoPort = NoPort
  Scripts = {s1, s2}
  NoFile = NoFile
  NoPath = NoPath
  Unread = Unread
  MaxSecond = 0
  Tasks <- MCTasks
  Conns = {1, 2}
  NoConn = NoConn
  PoolSize = 2
SPECIFICATION HostSpec
INVARIANT RunsItsOwnText
CHECK_DEADLOCK FALSE
