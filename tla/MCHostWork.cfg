\* A tunnel of either side, two closes and two scripts over two connections of two uses.
CONSTANTS
  Opens = {o1}
  Closes = {k1, k2}
  Ports = {p1, p2}
  HostPorts = {p2}
  NoPort = NoPort
  Scripts = {s1, s2}
  NoFile = NoFile
  NoPath = NoPath
  Unread = Unread
  MaxSecond = 1
  Tasks <- MCTasks
  Conns = {1, 2}
  NoConn = NoConn
  PoolSize = 2
SPECIFICATION HostSpec
SYMMETRY Symmetry
INVARIANTS
  TypeOK
  ListenersAreListed
  ApartScriptsRunOwn
  LeftoversAreUnremoved
  UsesAreHeld
CHECK_DEADLOCK FALSE
