SPECIFICATION LiveSpec
CONSTANTS
  Handler = {f, g}
  NoHandler = NoHandler
  MaxAdds = 2
  MaxDepth = 2
INVARIANTS
  RecursionEnds
PROPERTIES
  NoticeReachesUser
  NoticesEnd
