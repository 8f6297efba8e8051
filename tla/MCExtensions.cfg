SPECIFICATION Spec
CONSTANTS
  tray = tray
  uitray = uitray
  lib = lib
  app = app
  Mod = {tray, uitray, lib, app}
  Needs <- MCNeeds
  ModuleCall <- MCModuleCall
  Chatty = {lib}
  MaxDepth = 3
INVARIANTS
  CompleteModulesWork
  HookIsOurs
  OrderIsHarmless
