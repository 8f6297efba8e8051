------------------------------ MODULE TrayHook ------------------------------
(* shell.tray on another shell: tray-hook.dll hooks the thread of Explorer's *)
(* tray window and forwards its messages (lib/shell/tray-hook.c,             *)
(* lib/shell/tray.c:449-527).  The handle of the hook is in a section that   *)
(* all processes share that have the DLL mapped: cereja, and Explorer since  *)
(* the first message after the hook.                                         *)
EXTENDS Naturals, FiniteSets

VARIABLES
  explorer,     \* Explorer runs and has a tray window
  mapped,       \* the processes that have the DLL mapped
  g_HHook,      \* g_HHook # NULL
  hooked,       \* the hook exists
  refusals,     \* history: StartHook failures in a row because of g_HHook
  same          \* history: Explorer has not ended since the hook was set

hookVars == <<explorer, mapped, g_HHook, hooked, refusals, same>>

HookTypeOK ==
  /\ explorer \in BOOLEAN
  /\ mapped \in SUBSET {"cereja", "explorer"}
  /\ g_HHook \in BOOLEAN
  /\ hooked \in BOOLEAN
  /\ refusals \in Nat
  /\ same \in BOOLEAN

HookInit ==
  /\ explorer \in BOOLEAN
  /\ mapped = {}
  /\ g_HHook = FALSE
  /\ hooked = FALSE
  /\ refusals = 0
  /\ same = FALSE

-----------------------------------------------------------------------------
(* DllMain                                                                 *)

\* The process is killed, so nothing is called.  The hook goes with it, and the
\* section with the last process that has it.
Vanish(p) ==
  /\ mapped' = mapped \ {p}
  /\ g_HHook' = (g_HHook /\ mapped' # {})
  /\ hooked' = FALSE

\* The DLL leaves the process: DLL_PROCESS_DETACH calls EndHook, whoever has
\* set the hook.
Detach(p) ==
  /\ mapped' = mapped \ {p}
  /\ g_HHook' = FALSE
  /\ hooked' = FALSE

-----------------------------------------------------------------------------
(* Hook_Start and Hook_End, in cereja                                      *)

\* Mutant: the handle is not kept.
Hook_StartForgotten ==
  /\ explorer
  /\ ~g_HHook
  /\ mapped' = mapped \cup {"cereja"}
  /\ hooked' = TRUE
  /\ refusals' = 0
  /\ same' = TRUE
  /\ UNCHANGED <<explorer, g_HHook>>

Hook_Start ==
  /\ explorer
  /\ ~g_HHook
  /\ mapped' = mapped \cup {"cereja"}
  /\ g_HHook' = TRUE
  /\ hooked' = TRUE
  /\ refusals' = 0
  /\ same' = TRUE
  /\ UNCHANGED explorer

\* StartHook finds the handle of a hook that another cereja has left behind;
\* unloading the DLL again detaches it from this process.
Hook_StartRefused ==
  /\ explorer
  /\ g_HHook
  /\ Detach("cereja")
  /\ refusals' = refusals + 1
  /\ UNCHANGED <<explorer, same>>

\* There is no tray window, no DLL, or Windows refuses the hook; in the last
\* case the DLL is unloaded again, which leaves the handle NULL, as it was.
Hook_StartFails == UNCHANGED hookVars

\* UnhookWindowsHookEx fails if the hook is gone.
UnhookFails == ~(g_HHook /\ hooked)

Hook_End ==
  /\ Detach("cereja")
  /\ UNCHANGED <<explorer, refusals, same>>

-----------------------------------------------------------------------------
(* Explorer's process                                                      *)

ExplorerMaps ==
  /\ explorer
  /\ hooked
  /\ "explorer" \notin mapped
  /\ mapped' = mapped \cup {"explorer"}
  /\ UNCHANGED <<explorer, g_HHook, hooked, refusals, same>>

\* Some time after the hook is gone.
ExplorerUnmaps ==
  /\ ~hooked
  /\ "explorer" \in mapped
  /\ Detach("explorer")
  /\ UNCHANGED <<explorer, refusals, same>>

ExplorerExits ==
  /\ explorer
  /\ explorer' = FALSE
  /\ IF "explorer" \in mapped
       THEN Detach("explorer")
       ELSE hooked' = FALSE /\ UNCHANGED <<mapped, g_HHook>>
  /\ same' = FALSE
  /\ UNCHANGED refusals

ExplorerCrashes ==
  /\ explorer
  /\ explorer' = FALSE
  /\ Vanish("explorer")
  /\ same' = FALSE
  /\ UNCHANGED refusals

ExplorerStarts ==
  /\ ~explorer
  /\ explorer' = TRUE
  /\ UNCHANGED <<mapped, g_HHook, hooked, refusals, same>>

ExplorerStep ==
  ExplorerMaps \/ ExplorerUnmaps \/ ExplorerExits \/ ExplorerCrashes \/ ExplorerStarts

=============================================================================
