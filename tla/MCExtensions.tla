---------------------------- MODULE MCExtensions ----------------------------
(* shell.tray, ui.tray, and two modules of a user: lib shows a message box  *)
(* while it is loaded and never calls module(), app requires it.            *)
EXTENDS Extensions, TLC

CONSTANTS lib, app

MCNeeds == (tray :> <<>>) @@ (uitray :> <<tray>>) @@ (lib :> <<>>) @@ (app :> <<lib>>)
MCModuleCall == (tray :> "late") @@ (uitray :> "first") @@ (lib :> "never") @@ (app :> "first")

=============================================================================
