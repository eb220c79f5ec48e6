SPECIFICATION FairSpec
CONSTANTS
  Prefixes = {p1}
  NoPrefix = NoPrefix
  g1 = g1
  Gateways = {g1, g2}
  Plan <- ShortPlan
  Foreigners = {}
  NoInfo = NoInfo
  Junk = Junk
  MaxQueue = 2
PROPERTY DeviceConfigured
