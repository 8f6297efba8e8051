SPECIFICATION Spec
CONSTANTS
  s1 = s1
  s2 = s2
  s3 = s3
  s4 = s4
  Id = {s1, s2, s3}
  NoId = NoId
  group_name <- MCGroupName
  procedure <- MCProcedure
  AUTO_UNSUBSCRIBING_TIME = 2
  AUTO_UNSUBSCRIBING_COUNT = 3
  MaxTime = 4
  MaxDepth = 2
  MaxErrors <- MCMaxErrors
PROPERTY
  UnsubscribeRemovesAll
