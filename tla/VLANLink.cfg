SPECIFICATION FairSpec
CONSTANTS
  Callers = {ra, nd}
  FirstOnly = {ra}
  Names <- TaggedThenPlain
  Parents = {p1, p2}
  NoLink = NoLink
  Others = Others
INVARIANTS
  TypeOK
  CollidesWithOthersOnly
  CreatedIsUp
PROPERTIES
  CalmCallsSucceed
