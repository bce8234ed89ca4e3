\* Three threads, a pool that starts with one connection and may grow to
\* three; a connection may be deleted one tick after its last use.
SPECIFICATION Spec
CONSTANTS
  Consumers = {t1, t2, t3}
  Connections = {k1, k2, k3}
  InitSize = 1
  MaxSize = 3
  MaxIdleTime = 1
  MaxTime = 3
  NoConn = NoConn
SYMMETRY Symmetry
INVARIANTS TypeOK Accounted OldestFirst
PROPERTIES ImplementsPool OnlyScanStrandsProducer
CHECK_DEADLOCK FALSE
