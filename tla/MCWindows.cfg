SPECIFICATION Spec
CONSTANTS
  h1 = h1
  h2 = h2
  mark = mark
  nil = nil
  unknown = unknown
  Hwnd = {h1, h2}
  Key <- MCKey
  ScriptKey = {mark}
  Layouts <- MCLayouts
  Placements <- MCPlacements
  Moves <- MCMoves
  Movable = {h1}
  Cost <- MCCost
  MaxCalls = 4
  MaxChanges = 2
INVARIANTS
  PropertiesKept
  RestoreIsExact
  MovesArrive
CHECK_DEADLOCK FALSE
