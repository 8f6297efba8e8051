SPECIFICATION StartupSpec
CONSTANTS
  a = a
  b = b
  c = c
  d = d
  l = l
  Val = {a, b, c, d, l}
  Type <- MCType
  File = {f}
  Thread = {t1, t2}
  NoVal = NoVal
  InitialRegistry <- MCInitialRegistry
  MaxChanges = 1
  MaxSessions = 1
INVARIANTS
  NothingLost
PROPERTIES
  ThreadEnds
CHECK_DEADLOCK FALSE
