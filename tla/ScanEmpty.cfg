\* The scanner and the threads that have taken every connection.
SPECIFICATION Spec
CONSTANTS
  Consumers = {t1, t2, t3}
  Connections = {k1, k2, k3}
  InitSize = 1
  MaxSize = 3
  MaxIdleTime = 1
  MaxTime = 3
  NoConn = NoConn
SYMMETRY Symmetry
INVARIANT ScansIdleOnly
CHECK_DEADLOCK FALSE
