SPECIFICATION FairSpec
CONSTANTS
  e1 = e1
  e2 = e2
  NoSock = NoSock
  proxy = TRUE
  intIfs = {i1}
  extIfs <- Two
INVARIANTS
  TypeOK
  DeafIsNoticed
PROPERTIES
  ServesAgain
  RestartHeals
