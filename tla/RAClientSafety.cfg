\* A worker whose socket's interface was removed waits for ever and nothing else goes on.
CHECK_DEADLOCK FALSE
SPECIFICATION Spec
CONSTANTS
  Prefixes = {p1}
  NoPrefix = NoPrefix
  g1 = g1
  Gateways = {g1, g2}
  Plan <- FullPlan
  Foreigners <- SomeForeigners
  NoInfo = NoInfo
  Junk = Junk
  MaxQueue = 1
INVARIANTS
  TypeOK
  OneOwnEntry
  AppliedOrWarned
PROPERTIES
  ForeignUntouched
  SourceSpec
