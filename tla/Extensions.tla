----------------------------- MODULE Extensions -----------------------------
(* Loading and unloading of modules and their extensions: require and its   *)
(* wrapper, cereja.load_extension, Crj_ExtMain of shell.tray and ui.tray,    *)
(* unload_all_extensions, while cereja is started, ended and killed and      *)
(* Explorer comes and goes.                                                  *)
EXTENDS TrayHook, Sequences, FiniteSetsExt

CONSTANTS
  Mod,          \* modules; each loads one extension, of its own name
  Needs,        \* Needs[m]: the modules m requires before that, in order
  ModuleCall,   \* ModuleCall[m]: m calls module() "first", "late", after it has
                \* required what it needs, or "never"
  Chatty,       \* the modules of users that show a message box while loading
  tray, uitray, \* shell.tray and ui.tray
  MaxDepth      \* bound on modules and extensions being loaded

ASSUME ModAssumption ==
  /\ tray \in Mod /\ uitray \in Mod \ {tray}
  /\ Needs \in [Mod -> Seq(Mod)]
  /\ ModuleCall \in [Mod -> {"first", "late", "never"}]
  /\ Chatty \subseteq Mod

VARIABLES
  state,              \* what the process of cereja does
  package_loaded,     \* package.loaded
  loaded_extensions,  \* cereja._loaded_extensions
  stack,              \* the modules and extensions being loaded
  up,                 \* extensions whose windows and data exist
  another,            \* s_AnotherShellRunP
  pending,            \* unload_all_extensions: what lua_next has still to give
  box,                \* the message box of a failed unloading is open
  memory              \* "corrupt" once data of shell.tray is used after its end

loadVars == <<package_loaded, loaded_extensions, stack>>
vars == <<state, loadVars, up, another, pending, box, memory, hookVars>>

Place == {"needs", "box", "own", "loading", "hook", "com", "rest"}

TypeOK ==
  /\ HookTypeOK
  /\ state \in {"off", "running", "unloading"}
  /\ package_loaded \in [Mod -> {"nil", "sentinel", "module"}]
  /\ loaded_extensions \in [Mod -> {"nil", "true", "hmodule"}]
  /\ stack \in Seq([mod : Mod, chunk : BOOLEAN, i : Nat, at : Place])
  /\ up \subseteq Mod
  /\ another \in BOOLEAN
  /\ pending \subseteq Mod
  /\ box \in BOOLEAN
  /\ memory \in {"ok", "corrupt"}

Init ==
  /\ HookInit
  /\ state = "off"
  /\ package_loaded = [m \in Mod |-> "nil"]
  /\ loaded_extensions = [m \in Mod |-> "nil"]
  /\ stack = <<>>
  /\ up = {}
  /\ another = FALSE
  /\ pending = {}
  /\ box = FALSE
  /\ memory = "ok"

-----------------------------------------------------------------------------
(* Who runs                                                                *)

Top == stack[Len(stack)]

At(place) == state = "running" /\ stack # <<>> /\ Top.at = place

\* A message box, or COM while it loads the objects of the shell
\* (tray.c:119-183), lets messages in.
Pumping(frame) == frame.at \in {"box", "com"}

ScriptsRun == state = "running" /\ (stack # <<>> => Pumping(Top))

Goto(place) == [stack EXCEPT ![Len(stack)].at = place]

\* An error ends everything that is being loaded by the same script.  The
\* wrapper of require forgets the modules, load_extension the extension.
Kept == Max({0} \cup {k \in 1..Len(stack) - 1 : Pumping(stack[k])})
Ended == {stack[k] : k \in Kept + 1..Len(stack)}

\* Mutant: the original require, which does not forget the module.
UnwindOriginal ==
  /\ stack' = SubSeq(stack, 1, Kept)
  /\ package_loaded' = package_loaded
  /\ loaded_extensions' = [m \in Mod |->
       IF \E f \in Ended : f.at \in {"loading", "hook"} /\ f.mod = m
       THEN "nil" ELSE loaded_extensions[m]]

Unwind ==
  /\ stack' = SubSeq(stack, 1, Kept)
  /\ package_loaded' = [m \in Mod |-> IF \E f \in Ended : f.chunk /\ f.mod = m
                                      THEN "nil" ELSE package_loaded[m]]
  /\ loaded_extensions' = [m \in Mod |->
       IF \E f \in Ended : f.at \in {"loading", "hook"} /\ f.mod = m
       THEN "nil" ELSE loaded_extensions[m]]

-----------------------------------------------------------------------------
(* require                                                                 *)

\* The chunk of a module that is not loaded begins.
Enter(m) ==
  /\ package_loaded[m] = "nil"
  /\ Len(stack) < MaxDepth
  /\ stack' = Append(stack, [mod |-> m, chunk |-> TRUE, i |-> 0, at |-> "needs"])
  /\ package_loaded' = [package_loaded EXCEPT
                          ![m] = IF ModuleCall[m] = "first" THEN "module" ELSE "sentinel"]
  /\ UNCHANGED loaded_extensions

NextNeed == Needs[Top.mod][Top.i + 1]
Needing == At("needs") /\ Top.i < Len(Needs[Top.mod])

ScriptRequires(m) == ScriptsRun /\ Enter(m)
ModuleRequires == Needing /\ Enter(NextNeed)

Required ==
  /\ Needing
  /\ package_loaded[NextNeed] = "module"
  /\ stack' = [stack EXCEPT ![Len(stack)].i = @ + 1]
  /\ UNCHANGED <<package_loaded, loaded_extensions>>

\* The module is being loaded and has not called module() yet: an error, and the
\* wrapper forgets the module while it is still being loaded.
ScriptLoops(m) ==
  /\ ScriptsRun
  /\ package_loaded[m] = "sentinel"
  /\ package_loaded' = [package_loaded EXCEPT ![m] = "nil"]
  /\ UNCHANGED <<stack, loaded_extensions>>

ModuleLoops ==
  /\ Needing
  /\ package_loaded[NextNeed] = "sentinel"
  /\ stack' = SubSeq(stack, 1, Kept)
  /\ package_loaded' = [m \in Mod |->
       IF m = NextNeed \/ \E f \in Ended : f.chunk /\ f.mod = m
       THEN "nil" ELSE package_loaded[m]]
  /\ UNCHANGED loaded_extensions

\* The dependencies are there.
HasNeeds ==
  /\ At("needs")
  /\ Top.i = Len(Needs[Top.mod])
  /\ stack' = Goto(IF Top.mod \in Chatty THEN "box" ELSE "own")
  /\ UNCHANGED <<package_loaded, loaded_extensions>>

DismissBox ==
  /\ At("box")
  /\ stack' = Goto("own")
  /\ UNCHANGED <<package_loaded, loaded_extensions>>

ChunkFails ==
  /\ At("own") \/ At("rest")
  /\ Unwind

\* ll_require stores a value unless the chunk has, or somebody has forgotten it.
ChunkEnds ==
  /\ At("rest")
  /\ stack' = SubSeq(stack, 1, Len(stack) - 1)
  /\ package_loaded' = [package_loaded EXCEPT
                          ![Top.mod] = IF @ = "sentinel" THEN "module" ELSE @]
  /\ UNCHANGED loaded_extensions

-----------------------------------------------------------------------------
(* cereja.load_extension and Crj_ExtMain                                   *)

ModuleCalled(m) ==
  IF ModuleCall[m] = "late" THEN [package_loaded EXCEPT ![m] = "module"]
  ELSE package_loaded

Placed(m) == [loaded_extensions EXCEPT ![m] = "true"]

\* Loaded already, or being loaded.
AlreadyLoaded ==
  /\ At("own")
  /\ loaded_extensions[Top.mod] # "nil"
  /\ stack' = Goto("rest")
  /\ package_loaded' = ModuleCalled(Top.mod)
  /\ UNCHANGED loaded_extensions

load_extension ==
  /\ At("own")
  /\ loaded_extensions[Top.mod] = "nil"
  /\ stack' = Goto("loading")
  /\ package_loaded' = ModuleCalled(Top.mod)
  /\ loaded_extensions' = Placed(Top.mod)

\* A script may call it, too.
ScriptLoads(m) ==
  /\ ScriptsRun
  /\ loaded_extensions[m] = "nil"
  /\ Len(stack) < MaxDepth
  /\ stack' = Append(stack, [mod |-> m, chunk |-> FALSE, i |-> 0, at |-> "loading"])
  /\ loaded_extensions' = Placed(m)
  /\ UNCHANGED package_loaded

Loaded ==
  /\ stack' = IF Top.chunk THEN Goto("rest") ELSE SubSeq(stack, 1, Len(stack) - 1)
  /\ loaded_extensions' = [loaded_extensions EXCEPT ![Top.mod] = "hmodule"]
  /\ UNCHANGED package_loaded

\* create_ui_window looks for shell.tray.data; other windows depend on nothing.
Creatable(m) == m = uitray => tray \in up

Create ==
  /\ At("loading")
  /\ Top.mod # tray
  /\ Creatable(Top.mod)
  /\ up' = up \cup {Top.mod}
  /\ Loaded
  /\ UNCHANGED <<another, hookVars>>

\* LoadLibrary, RegisterClass or CreateWindowEx may fail, too.
CreateFails ==
  /\ At("loading")
  /\ Unwind
  /\ UNCHANGED <<up, another, hookVars>>

\* Crj_ExtMain of shell.tray asks once whether there is another shell.
AskForShell ==
  /\ At("loading")
  /\ Top.mod = tray
  /\ another' = explorer
  /\ IF explorer
       THEN stack' = Goto("hook") /\ UNCHANGED up
       ELSE stack' = Goto("com") /\ up' = up \cup {tray}
  /\ UNCHANGED <<package_loaded, loaded_extensions, hookVars>>

CreateHooked ==
  /\ At("hook")
  /\ Hook_Start
  /\ up' = up \cup {tray}
  /\ Loaded
  /\ UNCHANGED another

\* create_tray_window takes back what it has done.
CreateHookedFails ==
  /\ At("hook")
  /\ Hook_StartRefused \/ Hook_StartFails
  /\ Unwind
  /\ UNCHANGED <<up, another>>

ComEnds ==
  /\ At("com")
  /\ Loaded
  /\ UNCHANGED <<up, another, hookVars>>

-----------------------------------------------------------------------------
(* Start, end and unload_all_extensions                                    *)

Start ==
  /\ state = "off"
  /\ state' = "running"
  /\ UNCHANGED <<loadVars, up, another, pending, box, memory, hookVars>>

\* After the main loop, or in WM_ENDSESSION, which may come to any message loop.
BeginUnload ==
  /\ ScriptsRun
  /\ state' = "unloading"
  /\ pending' = {m \in Mod : loaded_extensions[m] # "nil"}
  /\ UNCHANGED <<loadVars, up, another, box, memory, hookVars>>

Unloading == state = "unloading" /\ ~box

\* Mutant: the hook is left to the end of the process.
UnloadHooked(m) ==
  /\ Unloading
  /\ m \in pending
  /\ loaded_extensions[m] = "hmodule"
  /\ pending' = pending \ {m}
  /\ up' = up \ {m}
  /\ UNCHANGED <<hookVars, box, state, loadVars, another, memory>>

\* Crj_ExtMain(Crj_EXT_UNLOADING), for each in the order of lua_next.  An error
\* is noticed in a message box.  That of shell.tray begins with ComSaves.
Unload(m) ==
  /\ Unloading
  /\ m \in pending
  /\ loaded_extensions[m] = "hmodule"
  /\ pending' = pending \ {m}
  /\ up' = up \ {m}
  /\ IF m = tray /\ another
       THEN Hook_End /\ box' = UnhookFails
       ELSE UNCHANGED <<hookVars, box>>
  /\ UNCHANGED <<state, loadVars, another, memory>>

\* Without another shell, shell.tray has the objects of the shell save and ends
\* COM (tray.c:186-208), which lets messages in, and then destroys its window.
ComSaves ==
  /\ Unloading
  /\ tray \in pending
  /\ loaded_extensions[tray] = "hmodule"
  /\ ~another

\* The window of ui.tray is painted from the data of shell.tray.
Paint ==
  /\ state = "unloading"
  /\ box \/ ComSaves
  /\ uitray \in up
  /\ memory' = IF tray \in up THEN memory ELSE "corrupt"
  /\ UNCHANGED <<state, loadVars, up, another, pending, box, hookVars>>

DismissUnload ==
  /\ state = "unloading" /\ box
  /\ box' = FALSE
  /\ UNCHANGED <<state, loadVars, up, another, pending, memory, hookVars>>

Reset ==
  /\ state' = "off"
  /\ package_loaded' = [m \in Mod |-> "nil"]
  /\ loaded_extensions' = [m \in Mod |-> "nil"]
  /\ stack' = <<>>
  /\ up' = {}
  /\ another' = FALSE
  /\ pending' = {}
  /\ box' = FALSE
  /\ memory' = "ok"

\* All are unloaded and the process ends.
Exit ==
  /\ Unloading
  /\ pending = {}
  /\ Reset
  /\ UNCHANGED hookVars

\* lua_touserdata of the placeholder is NULL, and a function that is not there
\* is called.
UnloadPlaceholder(m) ==
  /\ Unloading
  /\ m \in pending
  /\ loaded_extensions[m] = "true"
  /\ Reset
  /\ Vanish("cereja")
  /\ refusals' = 0
  /\ UNCHANGED <<explorer, same>>

Killed ==
  /\ state # "off"
  /\ Reset
  /\ Vanish("cereja")
  /\ refusals' = 0
  /\ UNCHANGED <<explorer, same>>

-----------------------------------------------------------------------------
Require ==
  /\ \/ \E m \in Mod : ScriptRequires(m) \/ ScriptLoops(m) \/ ScriptLoads(m)
     \/ ModuleRequires \/ Required \/ ModuleLoops \/ HasNeeds \/ DismissBox
     \/ ChunkFails \/ ChunkEnds \/ AlreadyLoaded \/ load_extension
  /\ UNCHANGED <<state, up, another, pending, box, memory, hookVars>>

Load ==
  /\ Create \/ CreateFails \/ AskForShell \/ CreateHooked \/ CreateHookedFails \/ ComEnds
  /\ UNCHANGED <<state, pending, box, memory>>

Next ==
  \/ Require
  \/ Load
  \/ Start \/ BeginUnload \/ Paint \/ DismissUnload \/ Exit \/ Killed
  \/ \E m \in Mod : Unload(m) \/ UnloadPlaceholder(m)
  \/ ExplorerStep /\ UNCHANGED <<state, loadVars, up, another, pending, box, memory>>

Spec == Init /\ [][Next]_vars

-----------------------------------------------------------------------------
(* Properties                                                              *)

Frames(m, places) == {k \in DOMAIN stack : stack[k].mod = m /\ stack[k].at \in places}

\* The extension of a module that require has returned without an error, and those
\* of the modules it needs, are there.
ModulesWork ==
  state = "running" =>
    \A m \in Mod :
      package_loaded[m] = "module" /\ Frames(m, Place) = {}
        => /\ m \in up
           /\ \A k \in DOMAIN Needs[m] : Needs[m][k] \in up

\* The placeholder of an extension is there exactly while it is being loaded, by
\* one call.
PlaceholderIsLoading ==
  state = "running" =>
    \A m \in Mod :
      LET loading == Frames(m, {"loading", "hook", "com"})
      IN  IF loaded_extensions[m] = "true" THEN Cardinality(loading) = 1
          ELSE loading = {}

\* What require returns without an error works, whatever failed before and whatever
\* scripts required meanwhile; nothing is loaded twice, and what failed can be
\* loaded again (libcereja.lua:29-50, 160-172).
CompleteModulesWork == PlaceholderIsLoading /\ ModulesWork

\* While shell.tray runs besides Explorer, it gets Explorer's messages until
\* Explorer ends; and no hook outlives shell.tray (tray-hook.c:47-76,
\* tray.c:508-527, 606-689).  What a killed cereja leaves in the shared section is
\* in the way once at most: the failure to start the hook clears it.
HookIsOurs ==
  /\ tray \in up /\ another => hooked = same
  /\ hooked => tray \in up /\ another /\ explorer
  /\ refusals <= 1

\* Extensions are unloaded in the order of a hash table (builtins.c:328).  The
\* window of ui.tray, which may outlive the data of shell.tray then, is not
\* painted meanwhile unless Explorer has ended besides cereja.
OrderIsHarmless == memory = "corrupt" => another /\ ~same

=============================================================================
