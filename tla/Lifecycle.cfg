SPECIFICATION FairSpec
CONSTANTS
  Proc = {p1, p2}
  NoProc = NoProc
  MaxSends = 2
  MaxDepth = 2
  MaxExits = 1
INVARIANTS
  MutualExclusion
  HotkeyIsServed
  RefusalHasWinner
  SenderTracked
PROPERTIES
  SessionSpec
  SenderReturns
  ShutdownCompletes
