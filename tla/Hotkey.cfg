SPECIFICATION Spec
CONSTANTS
  Combo = {r, a, b}
  Action = {reload_config, x}
  ReloadCombo = r
  reload_config = reload_config
  HOTKEY_ID_MAX = 1
  MaxQueue = 2
  MaxDepth = 2
INVARIANTS
  NumbersAreInUse
  ReloadKeyWorks
PROPERTIES
  BindingsSpec
  PressRunsAction
