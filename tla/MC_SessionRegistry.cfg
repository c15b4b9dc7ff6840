SPECIFICATION FairSpec
CONSTANTS
  Conns = {c1, c2}
  Sessions = {s1, s2}
  None = None
INVARIANTS
  AttachedSessionSurvives
  RegInv
PROPERTIES
  DetachedSessionsEnd
