--------------------------- MODULE MCSubscribers ---------------------------
(* Four subscriptions: the first two share a group, the first and the third *)
(* a procedure.  The first fails, as often as four times.                   *)
EXTENDS Subscribers, TLC

CONSTANTS s1, s2, s3, s4

MCGroupName == (s1 :> "user") @@ (s2 :> "user") @@ (s3 :> "ui.tray") @@ (s4 :> "ui.tray")
MCProcedure == (s1 :> "sort") @@ (s2 :> "show") @@ (s3 :> "sort") @@ (s4 :> "paint")
MCMaxErrors == (s1 :> 4) @@ (s2 :> 0) @@ (s3 :> 0) @@ (s4 :> 0)

=============================================================================
