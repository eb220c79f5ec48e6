SPECIFICATION FairSpec
CONSTANTS
  Workers = {w1, w2}
  Targets = {t1, t2}
  Nobody = Nobody
  Ifs = {i1}
  MaxQueue = 2
INVARIANTS
  TypeOK
  FreshEvidence
PROPERTIES
  AnswerNotMissed
  SolicitEnds
