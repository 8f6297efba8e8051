CONSTANTS
  MaxIndexRK = 3
  FieldsPerFlush = 2
  MaxCCalls = 8
  MaxCalls = 8
  MaxTagLoop = 4
  MaxCaptures = 4
  MaxRegisters = 20
  MaxStack = 20
  MaxLevels = 40
  MaxVars = 12
  MaxUpvalues = 6
  DepthLimit = 12
  Cases <- MCCases
  Compiled <- MCCompiled
  Means <- MCMeans
  PatternOf <- MCPatternOf
  Characters <- MCCharacters
  Hash <- MCHash
  CFunction <- MCCFunction
  Collation <- MCCollation
SPECIFICATION Spec
INVARIANTS MeaningPreserved CodeIsValid DumpRoundTrip AssertionsHold
