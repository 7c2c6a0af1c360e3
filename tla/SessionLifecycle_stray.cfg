SPECIFICATION Spec
CONSTANTS
  s1 = s1
  s2 = s2
  NoSession = NoSession
  Session <- OneSession
INVARIANTS
  NoStraySource
CHECK_DEADLOCK FALSE
