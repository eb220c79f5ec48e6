SPECIFICATION Spec
CONSTANTS
  e1 = e1
  e2 = e2
  NoSock = NoSock
  proxy = FALSE
  intIfs = {i1}
  extIfs <- One
INVARIANT NoCrash
