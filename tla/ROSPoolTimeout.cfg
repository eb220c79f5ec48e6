SPECIFICATION Spec
CONSTANTS
  KeepAlive = keepalive
  NoConn = NoConn
  Callers = {p1}
  Conns = {c1, c2}
PROPERTY TimeoutMeansNoAnswer
