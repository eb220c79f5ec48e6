SPECIFICATION FairSpec
CONSTANTS
  KeepAlive = keepalive
  NoConn = NoConn
  Callers = {p1, p2}
  Conns = {c1, c2, c3}
INVARIANTS
  TypeOK
  ExclusiveUse
  PooledIdle
  BoundedConns
  SleepDefined
PROPERTIES
  LeaseSpec
  HeldCallReturns
  BrokenPurged
