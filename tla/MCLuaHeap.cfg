CONSTANTS
  Tables = {"G", "t1", "t2", "wk", "wv", "wkv"}
  Closures = {"c1", "c2"}
  Upvalues = {"u1", "u2"}
  Strings = {"s1", "s2"}
  Userdata = {"d1", "d2", "d3"}
  Coroutines = {"co"}
  Main = "main"
  Globals = "G"
  Field = "x"
  Nil = "nil"
  Mode <- MCMode
  HasGC = {"d1", "d2"}
  StrSize = 2
  Bucket <- MCBucket
  SweepMax = 1
  Casts <- MCCasts
SPECIFICATION Spec
INVARIANTS NothingReachableFreed TriColour FinalizedOnce AssertionsHold
PROPERTIES CollectsAllGarbage WeakValuesCleared
