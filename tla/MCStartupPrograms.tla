------------------------- MODULE MCStartupPrograms -------------------------
(* a and b are programs, d is a number, l is too long a string.            *)
EXTENDS StartupPrograms, TLC

CONSTANTS a, b, c, d, l

MCType == (a :> "REG_SZ") @@ (b :> "REG_EXPAND_SZ") @@ (c :> "REG_SZ")
          @@ (d :> "REG_DWORD") @@ (l :> "long")

Registry(machineOnce, run, userOnce) ==
  [key \in Key |-> CASE key = "LM_RunOnce" -> machineOnce
                     [] key = "CU_RunOnce" -> userOnce
                     [] key = "LM_Run" -> run
                     [] OTHER -> <<>>]

MCInitialRegistry ==
  {Registry(<<a, b>>, <<c>>, <<>>), Registry(<<a, l, b>>, <<>>, <<>>),
   Registry(<<>>, <<d, c>>, <<b, a>>), Registry(<<a>>, <<>>, <<d, b>>)}

=============================================================================
