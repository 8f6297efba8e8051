SPECIFICATION UISpec
CONSTANTS
  k1 = k1
  k2 = k2
  k3 = k3
  w1 = w1
  w2 = w2
  h = h
  callback = callback
  Key = {k1, k2, k3}
  NoKey = NoKey
  owner <- MCOwner
  Nid <- MCNid
  HIcon = {h}
  NULL = NULL
  Message = {callback}
  Text = {"a"}
  WM_NULL = callback
  Empty = "a"
  Subscribers = 2
  MaxDepth = 2
  UISubscriber = 1
  MaxUpdates = 3
INVARIANTS
  IndexIsAccurate
  CursorInRange
PROPERTIES
  NothingLost
  ClickHitsIcon
