SPECIFICATION FairSpec
CONSTANTS
  Workers = {w1, w2}
  Targets = {t1, r1}
  Remote = {r1}
  Nobody = Nobody
INVARIANTS
  TypeOK
  StrictMeansDirect
PROPERTIES
  GoneIsForgotten
  PresentIsAnswered
