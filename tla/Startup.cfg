SPECIFICATION Spec
CONSTANTS
  Timeouts = {0, 10, 5001}
  MaxIfs = 2
  NoClient = NoClient
INVARIANTS
  TypeOK
  CrashesAreKnown
  NothingDangling
CHECK_DEADLOCK FALSE
