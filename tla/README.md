# A specification of cereja

cereja is an alternative shell for Windows: a process that replaces Explorer,
embeds Lua 5.1.1 (its sources are in the repository and are built into the
executable) and runs the user's `login.lua`, `config.lua` and `logout.lua`.
This directory holds TLA+ modules that model it, TLC configurations that check
them on small instances and proofs that TLAPS checks.  Everything is translated
from the C and Lua sources; paths below are relative to the repository.

## 1. The system

| Component | Source | State | Operations |
|---|---|---|---|
| core process | `src/main.c` | main window, exit hot key, nested window procedures, exit status | command-line options, start, `WM_CREATE`, `WM_CLOSE`, `WM_HOTKEY`, `WM_COPYDATA`/`Crj_WM_EXEC`, `WM_ENDSESSION`, main loop, clean-up |
| C API | `src/api.c`, `src/cereja.h` | none | `Crj_ParseArgs`, `Crj_ParseTable`, `Crj_BuildValues`, `Crj_Notice`, `Crj_PCall`, directories |
| built-ins, extension loader | `src/builtins.c`, `libcereja.lua` | `cereja._loaded_extensions` | `load_extension`, `_load_extension`, `unload_all_extensions`, `exit` |
| notice service | `libcereja.lua`, `src/api.c` | list of notice handlers | add, remove, call the handlers, default message box |
| Lua additions | `libcereja.lua`, `src/utf8api.c` | `package.loaded` | `require` wrapper, `split`, `range`, `mapx`, `sortx`; UTF-8 versions of the ANSI API |
| shell | `lib/shell/__init__.*` | registry Run/RunOnce keys, startup folders | `run_startup_programs` (a thread), shutdown, reboot, suspend ... |
| shell.tray | `lib/shell/tray.*` | the tray: an array of icons; the subscribers | `Shell_NotifyIcon` messages, publish, subscribe, move, sort, clean, reset |
| tray hook | `lib/shell/tray-hook.c` | one system-wide hook, in shared data | `StartHook`, `EndHook`, detach |
| shell.window | `lib/shell/window.*` | a hidden window; the subscribers | shell hook and power messages, publish, subscribe |
| ui.tray | `lib/ui/tray.*` | the cursor in the tray window, its visibility | key commands, `UIM_TRAY_UPDATE` |
| ui.hotkey | `lib/ui/hotkey.*` | `s_HotkeyCount`, the action table, the hot keys the system has | register, reset, `WM_HOTKEY` |
| ui.window, ui.monitor | `lib/ui/window.*`, `lib/ui/monitor.*` | per-window properties (restore rectangles) | move, maximize, move to monitor |
| ui.key, ui.ime, ui.sound, ui.system | `lib/ui/*` | none of their own, or the system's | one call into the system each |
| app.snarl | `lib/app/snarl.*` | none | one message to Snarl |
| Lua compiler | `lua/src/lparser.c`, `lcode.c`, `lopcodes.*`, `ldebug.c`, `ldump.c`, `lundump.c` | the functions being compiled, their registers, jumps and blocks | compile a chunk, check, dump and load its code |
| Lua machine | `lua/src/lvm.c`, `ldo.c`, `lfunc.c`, `lbaselib.c` | threads with their stacks and calls, upvalues | every instruction, calls, errors, coroutines |
| Lua tables and library | `lua/src/ltable.c`, `ltm.c`, `lbaselib.c`, `ltablib.c`, `lstrlib.c` | array and hash parts, metatables | get, set, next, length, rehash; the functions of the libraries |
| Lua collector | `lua/src/lgc.c`, `lfunc.c`, `lstring.c`, `lstate.c` | colours, gray lists, lists to sweep, finalizers to run | one step, a full collection, barriers, close |

How they interact: everything but the startup thread runs on one thread.  What
makes the program hard is that this thread is re-entrant.  `MessageBox`, with
which the default notice handler shows an uncaught error, pumps messages, and
`SendMessage` from another process enters the window procedures whenever a
message is awaited.  So a script of another process runs inside a notice that a
subscriber caused inside a `Shell_NotifyIcon` message; subscribers change the
tray or the list of subscribers that is being walked; `ui.tray` learns of a
change of the tray by a posted message, when the tray may have changed again;
posted `WM_HOTKEY` messages outlive the registration they came from.

Hard behaviours, by component:

- **core process**: any number of processes race to become the shell; the
  requests to exit, to run a script and to end the session arrive within each
  other; a process may be killed between any two steps.
- **notice service**: failing handlers cause notices within notices; handlers
  change the list that is being walked.
- **subscribers**: the same, plus errors that are counted by the minute while a
  message box stays open as long as the user likes.
- **tray**: three functions publish, each from a different state of the table;
  subscribers and message boxes change the table under them.
- **ui.tray**: a cached index that is corrected later than it may be used.
- **ui.hotkey**: a numbering that Windows, the C module and the Lua table must
  agree on, and that is given up and rebuilt while messages carry old numbers.
- **extension loader, tray hook**: loads within loads, failures that must leave
  no half of a module behind, and an unloading order nobody chose; a hook handle
  shared by processes, one of which may have been killed.
- **startup threads**: a loop over registry values that waits for them to
  disappear, in a thread that ends with the process wherever it is, while other
  threads and programs are at the same key.
- **ui.window**: windows belong to other processes, which obey later; a list of
  properties that is cleaned while it is walked; arithmetic from both edges of
  monitors whose coordinates may be negative.
- **C API**: two interpreters that walk a format string and a `va_list` in step,
  with tables within tables; nothing notices when they get out of step.
- **Lua compiler and machine**: one pass writes code while it parses and changes it
  afterwards, through jump lists threaded through the code; frames of Lua and of C
  alternate, and an error or a yield leaves any number of them at once.
- **Lua tables**: chains of nodes within one array, moved and rehashed.
- **Lua strings**: a matcher that backtracks through captures it has to undo; C
  functions that call back into Lua in the middle of their loops (`gsub`, `foreach`)
  and lose their place to an error.
- **Lua collector**: the program changes the heap between any two of its steps.

What makes each component correct is listed with the runs in section 4; the
hazards they are aimed at, each with its line, are in `PROJECT.json`.

## 2. The modules

| Module | Models | Extends / refines |
|---|---|---|
| `Lifecycle` | `src/main.c`, `cereja.exit`, `cereja.notice` | implements `ShellSession` |
| `ShellSession` | what the executable promises: one shell, each script run at most once | abstract |
| `LifecycleProofs` | theorems about `Lifecycle`, and that it implements `ShellSession` | extends it |
| `Subscribers` | `lib/shell/tray.lua` (and the same code in `window.lua`) | |
| `Tray` | `lib/shell/tray.c`: the icons and the publishes in progress | |
| `UITray` | `lib/ui/tray.c`: cursor, visibility, posted updates | extends `Tray` |
| `UITrayProofs` | theorems about `Tray` and `UITray` | extends `UITray` |
| `Hotkey` | `lib/ui/hotkey.c`, `hotkey.lua`, `reload_config` of the examples | implements `HotkeyBindings` |
| `HotkeyBindings` | what `ui.hotkey` promises: a key is bound once, until a reset | abstract |
| `HotkeyProofs` | theorems about `Hotkey`, and that it implements `HotkeyBindings` | extends it |
| `Notice` | the notice service of `libcereja.lua` and `Crj_Notice` | |
| `NoticeProofs` | theorems about `Notice` | extends it |
| `TrayHook` | `lib/shell/tray-hook.c`: the hook in Explorer and its shared handle | |
| `Extensions` | `require`, `load_extension`, `unload_all_extensions`, start and end of `shell.tray` and `ui.tray` | extends `TrayHook` |
| `ExtensionsProofs` | theorems about `TrayHook` and `Extensions` | extends `Extensions` |
| `StartupPrograms` | the threads of `shell.run_startup_programs` | |
| `ShellProofs` | theorems about `Subscribers` and `StartupPrograms` | extends both |
| `WindowProperties` | the properties `ui.window` keeps | |
| `Windows` | move, snap, maximize, restore, move between monitors | extends `WindowProperties` |
| `WindowsProofs` | theorems about `WindowProperties` and `Windows` | extends `Windows` |
| `Formats` | what `cereja.h` says that format strings mean | reference definition |
| `Arguments` | `Crj_ParseArgs`, `Crj_ParseTable`, `Crj_BuildValues` | extends `Formats`, is compared with it |
| `LuaOpcodes` | `lopcodes.h`, `lobject.h`: instructions and values | |
| `LuaCode` | `lcode.c`: the code generator | extends `LuaOpcodes` |
| `LuaParser` | `lparser.c`: the one-pass compiler | extends `LuaCode` |
| `LuaVerifier` | `luaG_checkcode` of `ldebug.c`; `ldump.c`, `lundump.c` | extends `LuaOpcodes` |
| `LuaTable` | `ltable.c` | extends `LuaOpcodes` |
| `LuaLibrary` | functions of `lbaselib.c` and `ltablib.c` on values and tables | extends `LuaTable` |
| `LuaPatterns` | the pattern matcher of `lstrlib.c` | extends `LuaOpcodes` |
| `LuaStrings` | the string library of `lstrlib.c`; `foreach` and `foreachi` of `ltablib.c` | extends `LuaLibrary`, `LuaPatterns` |
| `LuaMachine` | `ldo.c`, the upvalues of `lfunc.c`, metamethods, coroutines | extends `LuaStrings` |
| `LuaExecute` | `luaV_execute` of `lvm.c` | extends `LuaMachine` |
| `LuaMatching` | what the reference manual says that a pattern matches | abstract semantics |
| `LuaMeaning` | what the reference manual says that a program does | abstract semantics, extends `LuaMatching` |
| `LuaPrograms` | chunks that are compiled, dumped, loaded and run | composes all of the above |
| `LuaHeap` | `lgc.c` with the programs that use the heap | |
| `LuaHeapProofs` | theorems about `LuaHeap` | extends it |
| `MC...` | values of the constants for TLC | extend the module they name |

Definitions whose names end in a variation of another's (`OnCreateUnchecked`,
`UnloadHooked`) and are commented "Mutant" are plausible bugs.  No
specification uses them; each shows that a property notices when it replaces the
definition it varies.

### Lifecycle

A process is a value of `Proc`; `pc` is where its `inner_main` is: serving the
options (`options`, `send`, `sent`), asking `FindWindow` (`find`), creating the
window (`startup`, `create`), in a link of the `&&` chain of `main.c:460-470`
(`pre`, `login`, `loop`, `logout`), cleaning up (`closing`, `unload`) or gone
(`zombie`: `WM_ENDSESSION` has cleaned up and Windows has not ended the process
yet; `exited`).  `frames` is the stack of nested window procedures and dialogs on
top of that: `exec` is a script another process sent, `confirm` the question of
`WM_CLOSE`, `logout` the script of `WM_ENDSESSION`, `notice` a message box; a
frame ending in `Done` has run its script and has only to return.  `inbox` holds
the senders whose `WM_COPYDATA` Windows has not delivered, `exits` the posted
exit requests.  A Lua script is its outcome: it notices, asks for an exit, ends or
fails.  `FindWindow`, `RegisterHotKey`, `SendMessage` and the end of a process are
what the code relies on: sent messages come before posted ones, `WM_QUIT` last,
and `SendMessage` returns when the receiver is gone.  A process can be killed at
every place, also while it waits in `SendMessage` (`Killed`, `SenderKilled`).  Its
message stays in the queue of the shell, with `NoProc` for its sender, until Windows
drops it or it is handled (`OnCopyData` allows both); a handler that runs for it runs
on and answers nobody.

### Subscribers

`subscribers` is `_subscribers`.  A publish in progress has the locals `i` and `v`
and stands before the loop test, in the call, in the message box of an error, or
in that of the automatic unsubscription (`tray.lua:47-69`).  In all but the first,
other code runs: it subscribes, unsubscribes and publishes.  The clock advances
while a message box is open.

### Tray

`icons` is the first `count` pointers of `s_TrayData`, as what they point to;
`memory` becomes `corrupt` when `reset_icons` frees an icon that is in the table.
`calls` is the stack of publishes; `turn` is the subscriber called last.  A
message is a record of what a `CrjNOTIFYICONDATA` says.  `szInfoTitle` stands for
the title, the flags and the timeout of a balloon, which are treated alike.

### UITray

The tray with `ui.tray`'s window: `cursor` is `s_Cursor` with its value for none,
`updates` the posted `UIM_TRAY_UPDATE` messages.  The window is commanded by its
keys, so a command comes when a visible window retrieves a key stroke, after the
posted messages.  `UISubscriber` is the place of `ui.tray` among the subscribers.
It is 1, because `login.lua` requires `ui.tray` before `config.lua` subscribes
anything.  With another subscriber before it, a key pressed in a message box of
that subscriber uses the cursor before it is corrected, and TLC finds
`ClickHitsIcon` violated (`UISubscriber = 2`); `SEND_..._CLICK` does not compare
the cursor with the count (`lib/ui/tray.c:607-619`).

### Hotkey

`registered` and `others` are what Windows knows, `s_HotkeyCount` and
`action_table` what the module does, `queue` the posted `WM_HOTKEY`.  Actions nest
when they open message boxes.  `reload_config` resets and first registers its own
key (`examples/config.lua:4-6`); other actions register keys and do not reset.  A
message that is retrieved after a reset runs the action its number has been given
since, as the code has it; `PressRunsAction` is therefore about messages with no
reset between.

### Notice

A notice in progress is at the loop of `call_notice_handlers`, in a handler, in
the notice of a handler's failure, in the default message box, or at its end.
`HandlerFailsOddly` is a handler that raises a value `string.format("%s")` does
not accept: the error leaves `Crj_Notice` for any `pcall` around it or for the
main loop, and the notice is dropped without the user being told, although the
manual says that the default handler is called at last.

### TrayHook and Extensions

When cereja runs beside Explorer, `shell.tray` sets a hook in Explorer's tray
thread.  The handle `g_HHook` is in a section of `tray-hook.dll` that all
processes share which have the DLL mapped (`mapped`), so it survives a killed
cereja as long as Explorer has it mapped.  `Detach` is `DllMain` of a process the
DLL leaves, `Vanish` the end of a process that calls nothing.

`Extensions` puts the life of cereja around it.  `package_loaded` and
`loaded_extensions` are the two Lua tables, with their placeholders; `stack` holds
the modules and extensions that are being loaded, each at one of the places of
`Place`.  A script can run whenever the innermost frame pumps messages: a module
that shows a message box, or `shell.tray` while COM loads the objects of the
shell.  An error ends all frames up to the last one that pumps (`Unwind`).
Unloading takes the extensions in any order, as `lua_next` does.  Messages are let
in twice meanwhile: in the message box of an unloading that failed, when the data of
`shell.tray` is gone, and while `shell.tray`, without another shell, has the objects
of the shell save and ends COM (`ComSaves`), when its data is still there.  `Paint` is
possible in both; the main window is destroyed by then, so neither `WM_COPYDATA` nor
`WM_ENDSESSION` comes.  Left out: what tray messages and commands have subscribers do
in those two places, and `WM_ENDSESSION` while something is loaded, when the
placeholder is taken for a module handle.

### StartupPrograms

A thread walks `Plan`: the registry keys and folders of
`_shell_run_startup_programs` with their flags.  In a key it enumerates values by
index (`i`), waits for a program if the key says so, then, if the key is to be
emptied, asks for the first value and deletes it by name until there is none.
Other programs put values anywhere into a `RunOnce` key and remove them; the
threads end with the process.  `executed` and `lost` are history: which values
have been executed since they were put, and which were deleted without.

### WindowProperties and Windows

`hwnd_table` is the list of properties; a search removes the entries of dead
windows it passes.  `given` is history: the property a window was given last.

A call of `ui.window` is a series of steps, since each `get_placement` reads, and
each `SetWindowPos` asks for, something of another process.  `requests` holds what
a window has been asked for and has not done (`SWP_ASYNCWINDOWPOS`); `before` and
`goal` are history for the properties: where the window was before it was
maximized, and where it was last moved to; the user moving the window, or a call
that finds earlier requests not processed, resets them.

### Formats and Arguments

`Formats` is the documentation in `cereja.h` as definitions: how a format is
written, which C arguments go with it, and which values the variables have after
a successful call.  `Arguments` is the code: `text` is the format, `pos` and `va`
are the two positions that must keep in step, `frames` the nested calls of
`parse_table` or `build_a_value`.  The caller passes what the documentation asks
for; taking something else from the `va_list`, or going beyond its end, is
undefined, and so is `assert(FALSE)`.  A call in mode `build` builds values and
then parses them again with the same format.  The number items are one item `i`,
full and light userdata one item `u`.

### The Lua compiler: LuaOpcodes, LuaCode, LuaParser, LuaVerifier

An instruction is a record of its operation and operands; a value is a tuple whose
first member is its type.  `LuaCode` and `LuaParser` have an operator for each
function of the sources, under its name, from the state of the compiler to the
next: `fs` is the `FuncState`, `e` the `expdesc`.  Jump lists are threaded through
the offsets of the jumps, as in the code, and instructions are patched, joined and
taken back as there.  The parser reads tokens; the scanner, line numbers and the
names of debug information are left out.  The limits of the code (`MAXSTACK`,
`LUAI_MAXVARS`, `LUAI_MAXUPVALUES`, `MAXINDEXRK`, `LFIELDS_PER_FLUSH`) are constants.

`luaG_checkcode` is symbolic execution of the code in `ldebug.c`, which the compiler
asserts for every function; `luaU_dump` and `luaU_undump` write a function as a
sequence and read it back.

### The Lua machine: LuaTable, LuaLibrary, LuaPatterns, LuaStrings, LuaMachine, LuaExecute

`m` is the whole machine: threads, tables, closures and upvalues.  A thread has its
stack, its `CallInfo` chain, its open upvalues and `cf`, what the code keeps on the
C stack: an `execute` for each `luaV_execute` under way, and for each `luaD_call`
made by C code what its caller does with the results.  There is an action for each
instruction and one for each such continuation, so that an error (`Catch`) or a
yield may leave any number of frames of either kind.  `lua_assert`s are recorded in
`asserts`.

`LuaTable` is the array part and the hash part with its chains, Brent's variation
and `rehash`; the hash is a constant, and the runs choose one that collides.
`LuaLibrary` has the functions of the libraries that work on values and tables.

`LuaPatterns` is `match` and its helpers: a position is an index into the subject or
the pattern, the capture array is threaded through, and what a failed attempt leaves
in it is undone where the code undoes it.  `LuaStrings` has the functions over it.  A
C function that calls back into Lua returns the call to make with what it needs to go
on (`Asks`); the machine keeps both in a frame of its C stack, and `FinishLibrary`
takes it up with the result.

### LuaMeaning and LuaPrograms

`LuaMeaning` is written from the manual (`lua/doc/manual.html`, sections 2.4 to 2.8,
2.11, 5.1, 5.4 and 5.5) and knows of no registers, jumps, frames, array parts or nodes: a
program is a syntax tree, a local variable a cell, a table a function, evaluation
one recursion.  A pattern is a tree too (`LuaMatching`): each item has a list of
outcomes in the order the manual prefers them, and a match is the first outcome of
the whole; nothing is undone, as nothing is assigned.  The run writes the trees down
as patterns and gives `LuaMeaning` the tree of each.  `LuaPrograms` writes a tree down as tokens, with no more parentheses
than the precedences of the manual ask for, compiles them, runs the code, and
compares what the program showed to the host (`out`) and how it ended with what
`LuaMeaning` says.

### LuaHeap

`g` is the `global_State`: the objects in memory and their colours, the gray lists,
the lists that are swept, the userdata that wait for their finalizers.  `singlestep`
and `luaC_fullgc` are the collector; between any two of its steps the program creates
objects, stores them in tables, upvalues, environments and registers, through the
barriers of `lapi.c` and `lvm.c`, drops them, closes upvalues, finds interned strings
and open upvalues again that are dead already, and switches between threads.  A
finalizer may put its userdata where the program finds it again.

Lists whose order nothing depends on are sets.  Gray objects may be visited, and
`rootgc` may be swept, in any order, of which the code's is one; `udata` and `tmudata`
are sequences, as finalizers run in their order.  What is linked after the colours
flip has the new white, so that the sweep passes it by or does not change it; `unswept`
has what was there before.  `propagateall`, the loop until no object is gray, is what
it comes to: `Spread`, the least set of white objects that is closed under the
references of the gray ones, is marked and traversed.  `luaF_close` closes the
upvalues of a stack at once, and `sweeplist` those of the threads it frees.  How much
the collector does between two steps of the program is open, so its pace
(`GCthreshold`, `gcstepmul`) is covered by any.  A metatable is what it says: the
weak kinds of a table (`Mode`), and whether a userdata has a finalizer (`HasGC`).
`made`, `fins` and `late` are history: which userdata are older than which, how often
each was finalized, and which still waited when others joined them.

## 3. Fairness

- `Lifecycle!FairSpec`: weak fairness of the program's own steps (a runnable
  thread runs); strong fairness of the ends of scripts, which a script may delay
  by any number of notices, and of the answers to a dialog, which another message
  box may cover for a while.  That scripts end and the user answers is an
  assumption; without it nothing of this holds.  `ShutdownCompletes` also assumes
  that exit requests cease, as each one retrieved asks the user again.
- `Notice!LiveSpec`: weak fairness of the loop over the handlers, of handlers
  (they return or fail) and of the message box.  `NoticesEnd` assumes that no
  further notices are sent.  `MaxAdds` matters: a handler that adds itself each
  time it is called is called for ever.
- `StartupPrograms!StartupSpec`: weak fairness of each thread's steps (a runnable thread
  runs) and of the ends of programs.  The second is an assumption about programs in
  the machine's `RunOnce` key, for which the thread waits without a timeout.
- The other specifications state no fairness; their properties are safety.  That
  the programs of `LuaPrograms` end follows from their being sequential: TLC explores
  each to its end and checks deadlock.

## 4. What is checked

Every property is stated in a comment above its definition.  Each has a mutant, a
variation of one definition that TLC shows to break it under the same
configuration.

| Run | What it shows |
|---|---|
| `lifecycle` | At most one process is the shell and the exit hot key is its (`MutualExclusion`, `HotkeyIsServed`); a process that gives up does so because another has served, is about to, or was killed (`RefusalHasWinner`); whoever waits in `SendMessage` is in one place of a live process (`SenderTracked`); a blocked sender returns, even if the shell is killed (`SenderReturns`); a confirmed exit ends the process (`ShutdownCompletes`); all of it implements `ShellSession` (`SessionSpec`). |
| `subscribers` | No `publish` calls a subscriber twice, and the index of each nested one separates those called from those to call, whatever subscribers and message boxes do, but for two causes that the property names (`NobodySkipped`); a subscriber is dropped only for three errors within a minute, and certainly for four (`DropsAreJustified`). |
| `ui_tray` | Subscribers get the index where the icon was when the change was published, and no icon is in the tray twice (`IndexIsAccurate`); moves, sorts and cleaning lose no icon of a window that exists (`NothingLost`); the cursor of the tray window is never used beyond the tray, although it is corrected by a posted message (`CursorInRange`, `ClickHitsIcon`). |
| `hotkey` | The numbers Windows knows are those below `s_HotkeyCount` (`NumbersAreInUse`); a failing `config.lua` leaves the key that reloads it (`ReloadKeyWorks`); a key press runs the action registered for it, unless there was a reset before it is handled (`PressRunsAction`); all of it implements `HotkeyBindings` (`BindingsSpec`). |
| `notice` | Failing handlers do not notice for ever (`RecursionEnds`); a notice of which no handler said that it was shown reaches the user (`NoticeReachesUser`); each notice ends (`NoticesEnd`). |
| `extensions` | What `require` returns works, whatever failed before; nothing is loaded twice, and what failed can be loaded again (`CompleteModulesWork`); the hook is there while `shell.tray` is and no longer, and what a killed cereja left refuses the next one once at most (`HookIsOurs`); the order of unloading is harmless while Explorer lives (`OrderIsHarmless`). |
| `startup_programs` | No value of a `RunOnce` key is deleted before it was executed, unless other programs change the key or a value is too long to be read (`NothingLost`); each thread ends, unless a value that is no string blocks it (`ThreadEnds`). |
| `arguments` | `Crj_ParseArgs` and `Crj_ParseTable` accept, reject and assign as documented, but for two kinds of values that they should reject and take, and for tables that are left out (`ParsedAsDocumented`); what `Crj_BuildValues` builds is as documented, and parsed again gives the same C values (`RoundTrip`). |
| `windows` | Properties stay with their windows while entries are removed (`PropertiesKept`); a window that is maximized in both directions and restored in any order is where it was (`RestoreIsExact`); a window moved to another monitor is inside of it, and 0, -1 and the centre are the edges and the middle (`MovesArrive`); the last two for windows that nobody else moves and that have done what they were asked, within a virtual screen that begins at 0, 0. |
| `lua_programs` | What the manual says of a program is what its compiled code does, with tables, metamethods, errors, coroutines and patterns of strings (`MeaningPreserved`); the code passes the checker, and is the same after it was dumped and loaded, while a dump cut short is refused (`CodeIsValid`, `DumpRoundTrip`); no assertion of compiler and machine fails, open upvalues are sorted, the calls through C are counted, no chain of a hash part is broken and no metatable takes itself for one without an event that it has (`AssertionsHold`). |
| `lua_heap` | Nothing the program can reach is freed (`NothingReachableFreed`), and nothing black refers to something white while the collector marks (`TriColour`); finalizers run once and in the reverse order of creation (`FinalizedOnce`); a full collection, in whatever phase it is asked for, leaves no garbage (`CollectsAllGarbage`); weak tables do not show what awaits its finalizer (`WeakValuesCleared`); no `lua_assert` fails but `lgc.c:665` for a userdata that awaits its finalizer (see "Seen while modelling"), and each object is in one list that is swept and at most one gray list (`AssertionsHold`). |

Of the type invariants, those of `Lifecycle`, `Hotkey`, `Extensions` and `Windows`
are theorems of their own, those of `Subscribers`, `Tray`, `UITray`, `Notice`,
`StartupPrograms` and `LuaHeap` are parts of the invariants that are proved; the others were checked
while the modules were written and take no part in the runs.

Bounds, and why they are enough:

- `lifecycle`: two processes, of which one serves while the other starts or sends;
  two scripts sent, two nested procedures and one exit request.  Two nested
  procedures let a script arrive in the question of `WM_CLOSE` and the end of the
  session in that script.  No symmetry, as there is liveness; the theorems have any
  number of processes.
- `subscribers`: four subscriptions of two groups, two of them with the same procedure,
  so that the index can have some before and some behind it, and a drop takes one or two;
  two nested publishes; one subscriber that fails up to four times, with the limit of
  three errors and two units of time instead of 60 seconds, on a clock of three values,
  so that errors fall into one minute, into two, and across the end of one.
- `ui_tray`: three icons of two windows, so that a window owns neighbours, an icon
  moves over another and the cursor has a first, a middle and a last; two
  subscribers, of which `ui.tray` is the first, two nested publishes and three
  posted updates.
- `hotkey`: three keys and room for two numbers, so that numbers run out; two nested
  actions and two messages.
- `notice`: two handlers that are added up to twice, two nested notices.

- `extensions`: four modules, `shell.tray`, `ui.tray` and two of a user, so that one
  can be required by another while it shows a message box; three of them in
  progress at once; Explorer comes and goes without a bound.
- `startup_programs`: two threads; five values, of the types the code tells apart;
  one change by another program, one end of the session.
- `arguments`: all pairs of simple items, with `|` before, between or absent; tables
  of up to two entries and of up to three levels, alone and followed by other items;
  no, a space, or a missing last bracket; for each item a value that fits, one that
  does not and nil; for `z` and `Q` the two booleans and a number as well.
- `windows`: one window that is moved and one whose properties scripts set; two
  monitors, with the second on either side of the first; calls of a total cost of
  four, which is four toggles; two acts of the user.

- `lua_programs`: families of programs around each construct: logic and
  comparison, arithmetic and its operands, assignments to several targets, loops
  with `break` and captured variables, functions with variable arguments and tail
  calls, constructors, metamethods, errors and `pcall`, coroutines and generators,
  globals and upvalues, keys of all kinds, metatables changed while they are in use,
  and the libraries.  Patterns are every repetition of seven classes with three
  ends, and groups, positions, back references and balanced text, anchored or not, on
  five subjects, with `find` and `match` from the front and from the back, `gmatch`,
  and `gsub` with a string, a table and a function, which may fail; five captures are
  one too many; ill-formed patterns are refused.  The limits of the code are set low, so that programs reach them
  without being long: four constants fit into operands, a constructor flushes after
  two fields, eight nested C calls and eight nested calls are one too many, metamethods
  chain to four.  Hashes collide: a string's is its length, a reference's its number.
- `lua_heap`: ten casts of two or three objects each beside the main thread and the
  table of globals, which bring together what the collector treats in its own way: two
  tables, a closure with its upvalue, open and closed, two closures that share one, a
  coroutine with both, a string, weak tables of each kind with a userdata or a
  string, userdata with and without finalizer; one or two registers for each thread;
  two lists of strings; one element of the list is swept in a step.  Objects may be
  created again after they were freed.  There are 558,000 states.  What larger heaps
  do follows from the theorems, which have any number of objects.

### A disagreement

`subscribers_reload` ends in a violation: `unsubscribe` removes from the list
`ipairs` is walking.  Of two adjacent subscribers of a group one stays; the sample
`config.lua` subscribes two adjacent ones and unsubscribes them to reload, so each
reload leaves one more (`UnsubscribeRemovesAll`).

### Seen while modelling

These are part of the models, or the reason for a condition in a property, and not
the subject of a run.

Lifecycle and hot keys:

- `send_script` succeeds although the shell that takes the message is closing and
  drops the script (`main.c:183`, `324-342`); `ShellSession` therefore promises
  at most once.
- A failing `login.lua` ends the shell without `logout.lua` (`main.c:468-472`).
- A `WM_HOTKEY` that was posted before `reset` runs the action its number has got
  since.

Tray and subscribers:

- A `publish` skips a subscriber in two cases, which `NobodySkipped` excepts
  (`disturbed` and `doubled`).  A subscriber or a message box unsubscribes one that it
  has called already.  Or it drops a procedure itself that was also subscribed earlier
  in the list: with the procedure of C also at A in A, B, C, D, the drop of C removes
  A and C, the index goes back by one, and D is not called (`tray.lua:57-60`).
- Errors are counted in minutes that begin with an error, not in the last minute: of
  errors at the seconds 0, 59, 60 and 61 the first two are counted together and the
  other two, so the three within two seconds drop nobody (`tray.lua:54-65`).  With four
  within a minute the subscriber is gone; `DropsAreJustified` says that much.
- A subscriber that raises a table makes `string.format` fail in the report of the
  error, outside of `pcall` (`tray.lua:53`); the error ends the main loop, although
  `tray.h:88` says that errors are caught.
- The tray changes while subscribers are called, although `tray.h:15` and `84` say
  that it does not.  `reset_icons` publishes first and frees the slots it saw
  afterwards; an icon that was announced meanwhile may be in one of them
  (`tray.c:811`, `memory` in `Tray`).
- `TrayIcon_Update` compares `szInfo` twice and `szInfoTitle` never (`tray.c:240`).
- `_reorder_icons` publishes the index 1 for an empty tray, too.

Windows:

- `move('A', 'A', x, y)` counts from the origin of the virtual screen, and negative
  numbers from its right edge (`manual.xml:681-700`), yet restoring and moving to a
  monitor pass absolute coordinates: they go wrong with a monitor to the left of the
  primary one.  `RestoreIsExact` and `MovesArrive` are about the other layouts.
- A window that has the handle of an earlier one inherits its properties, as a
  comment says (`window.lua:233`); if it takes itself for maximized without a kept
  placement, `unpack` raises an error (`window.lua:94`).
- `set_workarea` computes the right edge as `CXVIRTUALSCREEN - left`
  (`monitor.c:156`); it is not modelled.

Formats:

- `skip_item` does not take the C arguments of a table that is left out, so the
  following ones are taken for what they are not (`api.c:230`, against
  `cereja.h:273-277`); `ParsedAsDocumented` excepts it.
- `Crj_BuildValues` loses the character behind a table's `}` (`api.c:560`), so
  `{{i}}` fails; `RoundTrip` is about formats that have a space there.
- An error in a nested table meets `assert(FALSE)` (`api.c:523`).
- `Q` takes a value of any type for its truth, and `z` takes a number for a string
  (`api.c:110`, `128`), where `cereja.h:217` and `222` have a boolean, and a string, nil
  or false.  `Fits` is what is documented; `Taken`, which `ParsedAsDocumented` applies
  first, is these two exceptions and no other.
- `|` in `Crj_ParseTable` dereferences `NULL` (`api.c:187`).

Lua (5.1.1; these are not avoided by changes, but by the choice of programs and
objects):

- A literal `true` or `false` as the right operand of an inner `and` or `or` that is
  itself a left operand is jumped over as if its value were not needed: `((x and nil)
  or false) and true` gives `nil`.
- A minus sign before the literal `nil`, `true` or `false` becomes `OP_UNM` with a
  constant as its operand, which `luaG_checkcode` does not accept.
- Resuming a dead coroutine overwrites a local variable that an open upvalue refers
  to.
- A table with weak keys loses entries whose value is a userdata that was finalized
  and can be reached again; section 2.10.2 of the manual keeps entries whose key and
  value can be reached.
- Userdata that finalizers create during `lua_close` are not finalized.
- A userdata that awaits its finalizer is not swept and stays black.  When the finalizer
  of another, whose environment leads to it, sets its environment (`debug.setfenv`),
  `luaC_barrierf` is called in state `GCSfinalize`, and its `lua_assert` (`lgc.c:665`)
  fails in a build that has assertions; otherwise the userdata becomes white, which
  does no harm.  The model notes it as "awaiting", and `AssertionsHold` allows this one
  name.  None of the casts of `lua_heap` comes so far: a table and two userdata with
  finalizers and two registers do, after twelve steps, but they have too many states
  to be a cast.  What holds there is proved (section 5).  `lua_close` replaces the state
  of the collector in the model, so what the barriers assert of it is not judged in
  finalizers that run then.
- `string.byte` with an end in front of the string returns all of it: `("abc"):byte(1,
  -10)` gives three numbers, as the end is compared as a `size_t` (`str_byte` in
  `lstrlib.c`, modelled), where the manual has `s[i]` to `s[j]`.
- `gsub` with a replacement that names no capture does not notice that one was left
  open, so `("a"):gsub("(a", "b")` succeeds, where `find` raises an error.
- C functions that recurse through `coroutine.resume` are not counted in `nCcalls`
  of the thread that resumes.

Lua additions (not modelled, see section 7):

- `range(4)` is `{0, 1, 2, 3}` (`libcereja.lua:199-211`), while its documentation gives
  `{1, 2, 3}` (`doc/manual.xml:286`).

Startup programs:

- A value that is put into a `RunOnce` key while a thread is at it is deleted without
  being executed; a value that is too long ends the enumeration and not the deletion;
  a value that is no string keeps the deletion from ending (`__init__.c:113-158`).

## 5. What is proved

TLAPS proves these for every value of the constants that satisfies the assumptions
named.  Each theorem about a property is drawn from an inductive invariant that is
longer than the property; what had to be added is said with it.

`LifecycleProofs`, for any set of processes that does not contain `NoProc`
(`NoProcAssumption`) and any bounds: `TypeCorrect`, `OneShell`
(`[]MutualExclusion`), `HotkeyBelongsToShell` (`[]HotkeyIsServed`) and
`SendersAreTracked` (`[]SenderTracked`).  Their inductive invariant `IInv` is
`TypeOK /\ HotkeyIsServed /\ WindowsKnown /\ SenderTracked`.
`MutualExclusion` follows from `HotkeyIsServed`, and cannot be proved without it:
that a second process cannot become the shell is due to its failing
`RegisterHotKey`, so the proof has to know that the hot key is held exactly while
somebody serves.  `SenderTracked` is inductive only with `WindowsKnown`, which
says that the main windows are those of the processes between `CreateWindowEx` and
clean-up: only their queues hold senders.

The same module proves that `Lifecycle` implements `ShellSession`
(`ImplementsSession`, `Spec => SessionSpec`), step by step: what each action does to
the hot key and to the scripts, as the refinement mapping has them.  `SessionInv`
(`SessionInvariance`) is what this needs: a process is blocked exactly while its script
is undecided, queued scripts have not begun and those with a frame run
(`OutcomeIsKnown`), and only a shell, or what is left of one, has window procedures on
its stack (`FramesAreServed`).  `RefusedHaveAWinner` (`[]RefusalHasWinner`) needs the
history, too: that who serves has been counted (`ServedIsHistory`), and that who was
killed stays exited (`KilledIsFinal`).  It says that a refused process had a cause: one
that has served, or is creating its window and about to ask for the hot key, or was
killed; not that the shell it saw is still there.

`HotkeyProofs`, for any set of keys with the key of `reload_config` in it
(`ReloadAssumption`) and any limit of the numbers (`LimitAssumption`):
`TypeCorrect`, `NumbersMatch` (`[]NumbersAreInUse`) and `ReloadSurvives`
(`[]ReloadKeyWorks`).  The inductive invariant adds `TableCovers` (every number in
use has an action), `OthersWait` (an action that is registering keys is the
innermost, all others are in message boxes) and `EndedIsIdle` (nothing runs once
`login.lua` has failed).  `ReloadKeyWorks` is inductive only with `OthersWait`:
were a `config.lua` that has reset the keys left waiting under another action, that
action could end with the key missing.

`Hotkey` implements `HotkeyBindings` (`ImplementsBindings`), and a press that is
handled with no reset since it was posted runs the action that was bound to it when it
was pressed (`PressIsHonoured`, which is `PressRunsAction`).  Both rest on `BindingInv` (`BindingInvariant`): no two numbers
have the same keys, who has ended owns none, and a message in the queue has a number
in use and the action of the table, unless there was a reset since.

`ExtensionsProofs`, for any modules, needs between them and scripts
(`ModAssumption`): `TypeCorrect`, `HookBelongsToTray` (`[]HookIsOurs`) and
`OrderDoesNotMatter` (`[]OrderIsHarmless`), from `ExtensionsInv`
(`ExtensionsInvariance`).  It says for each state of the process what the two tables,
the stack and the hook have to do with each other: a placeholder in
`loaded_extensions` stands for one frame that loads, what is up is in the table, and
all that is up when unloading begins is pending.  The case that is hard is a cereja
that is killed: the handle it leaves in the shared section refuses the next hook, and
clears itself by that, so `HookInv` counts the refusals.

`ModulesThatReturnWork` (`[]CompleteModulesWork`) has a hypothesis, `NeedsAreSimple`:
a module that others need and that calls `module()` first of all needs nothing
itself and shows no message box while it is loaded.  The modules of the
repository satisfy it: `ui.tray` calls `module()` first and needs `shell.tray`, but no
other module needs `ui.tray`.  A user's module may, and then the property is false, as
TLC shows when `app` of the run requires `uitray`: a script that runs while
`shell.tray` has COM load its objects, for `ui.tray`, requires `app`, which is given
the table of `ui.tray` before there is a window.  The invariant (`Works`) says
how far each chunk on the stack has come, and which modules in `package.loaded` can be
relied on meanwhile.

`ShellProofs`, for any subscribers, limits and times (`IdAssumption`,
`SpecifierAssumption`, `TimeAssumption`): `PublishSkipsNobody` (`[]NobodySkipped`) and
`DropsHaveCause` (`[]DropsAreJustified`), from `SubscribersInv`
(`SubscribersInvariance`).  Its `Called` says of every publish in progress, not of the
innermost alone, that those it has called are not behind its index, that at the index
there can only be the one it is calling, and, without the two causes, that those before
the index were called.  A drop removes every other one of adjacent entries with the
procedure, so that if the one at the index stays, the one before it goes
(`NeighbourIsDropped`), and the index fits again.  `Counted` says that the last errors
of a subscriber, as many as are counted, fell into the minute that began with the first
of them; `Spread`, that of those before it so few are near that not even with the counted
ones twice the limit less two fall within a minute, as long as the subscriber is in the
list and no other has its procedure: of two that have it and are neighbours `unsubscribe` leaves one
(`UnsubscribeRemovesAll`).

`UITrayProofs`, for any icons, messages and subscribers (`NidAssumption`,
`NullAssumption`, `CountAssumption`, `RoomAssumption`): `IndexStaysAccurate`
(`[]IndexIsAccurate`) and `IconsAreKept` (`NothingLost`), from `TrayInv`
(`TrayInvariance`): no icon is there twice, and a publish under which the tray has not
changed knows the index of its icon.  With `ui.tray` the first subscriber,
`UISubscriber = 1`, which section 2 justifies: `CursorStaysInRange` (`[]CursorInRange`)
and `ClicksHit` (`ClickHitsIcon`).  The cursor is in range or an update is posted or
about to be; a click comes when none is posted, and when every publish in progress is
past its first subscriber, so none is about to be.

`NoticeProofs`, for any handlers and bounds (`BoundAssumption`): `FailuresAreBounded`
(`[]RecursionEnds`) and `NoNoticeIsLost` (`NoticeReachesUser`), from `NoticeInv`
(`NoticeInvariance`).  A handler is taken from the list before its failure is a notice
again, so that a handler does not fail more often, one failure within the other, than
it was added; to prove it one has to say (`MayFail`) that whoever runs has fewer
failures around it than it was added times, although it may meanwhile have been
removed by somebody else, or added again.

The same module, for any keys, values, plans and numbers of threads (`ValAssumption`,
`BoundAssumption`): `NothingIsLost` (`[]NothingLost`), from `StartupInv`
(`StartupInvariance`).  Whoever enumerates has seen the values before its index
executed, and whoever deletes all of them, whether it was the thread itself or
another one that deleted values under it (`Relies`).

`WindowsProofs`, for any monitors, windows, arguments and costs (`KeyAssumption`,
`LayoutAssumption`, which has no work area begin left of or above its monitor,
`WindowAssumption`, `NilAssumption`, `BoundAssumption`): `TypeCorrect`,
`PropertiesStay` (`[]PropertiesKept`), `RestoreStaysExact` (`[]RestoreIsExact`) and
`MovesDoArrive` (`[]MovesArrive`).  That properties stay is about a loop that removes
entries of dead windows from the list it walks; the lemmas about `find_entry` show
that the entry of a living window survives a search for any other.  `RestoreInv` takes
the axes one by one: while the flag of an axis is set, the kept placement has
position and size from before on that axis, whatever the other axis did since; when it
is not, then the window has them, or is about to be asked for them by the call that
runs or has been asked.  `GoalInv` says that a window that was moved has been asked for
one position since or none, and that it is at its goal, or will be when it has done
as asked.  `MovesArrive` is therefore about windows that have (`Still`) and that nobody
else has moved since; that a window is inside of the monitor it was moved to needs a
virtual screen that begins at 0, 0, too.

`LuaHeapProofs`, for any objects of each kind, weak tables, finalizers, string lists and
steps of the sweep (`HeapConstants`: the kinds are disjoint and the numbers positive),
proves all six properties of `LuaHeap`.  Its inductive invariant is `HeapInv`
(`HeapIsSound`), in these parts: the heap is well formed (`Typed`); what is not dead
refers to nothing that is dead or gone (`NoDangling`); each object is in the one list of
its kind (`Lists`); what awaits its finalizer is kept, and what dies has none to
await (`Awaiting`); what may change without a barrier (a stack, an open upvalue, a weak
table) is never black (`Marks`); and what each state of the collector promises (`Phase`):
while it marks, whatever is black leads to nothing white, and whatever is gray will be
visited (`Marking`); while it sweeps, whatever has not the new white will still be
passed (`Sweeping`).

- `TriColourHolds` (`[]TriColour`) is one conjunct of this.  It is not inductive without
  the others: that a barrier which turns a table gray again is enough depends on the table
  being in a list that is visited, and that a store into a stack needs none on stacks
  never being black.
- `NothingReachableIsFreed` (`[]NothingReachableFreed`) follows from `NoDangling`, since the
  roots are not dead.  The step that establishes it is `atomic`, which makes all that is
  white dead at once: one must know that nothing that was marked leads to what was not.
  `Trail` says so of each of its four rounds of `propagateall`, but for what that round
  has still to visit, and `Ending` what holds throughout.  The weak tables are the
  exception, whose references to white objects `cleartable` removes.  After it, an object
  that is brought back from the dead (a string, an open upvalue) must lead to nothing
  that is dead, and what is freed must be referred to by dead objects only.
- `AssertionsAlwaysHold` (`[]AssertionsHold`): none of the `lua_assert`s that are
  modelled fails, but for `lgc.c:665` where the environment is set of a userdata that
  awaits its finalizer: what is black while the collector neither marks nor sweeps is in
  `tmudata` (`BlackPhase`).  No object is chained twice through its one `gclist`.
- `FinalizersRunOnce` (`[]FinalizedOnce`) needs, beside `HeapInv`, the history
  (`Finalizing`): what has a finalizer and its bit set has been finalized or waits for it, and `udata` is in
  the reverse order of creation but for those that come back from `tmudata`, which go to
  its front and have the bit.  Most steps keep both (`Kept`, `Quiet`).
- `WeakValuesAreCleared` (`WeakValuesCleared`): the flip ends `atomic`, after
  `cleartable`, and in a table that survives it `cleartable` has left no value that has
  its bit.
- `AllGarbageIsCollected` (`CollectsAllGarbage`).  Let a set contain the roots and
  what waits for a finalizer afterwards, and be closed under the references that are
  followed and those to strings.  Then nothing outside of it is marked in the
  cycle (`Within`), what is white when it ends is freed, and the sweep that may precede it
  changes no reference (`Remains`).  So what is left is in every such set, which is to
  say it was reachable.  In particular no object stays because of what was marked in a
  cycle that `luaC_fullgc` gave up.

## 6. What is only model-checked

- Liveness: `SenderReturns`, `ShutdownCompletes`, `NoticesEnd`, `ThreadEnds`.  Fairness is out of TLAPS's reach.
- What recursive operators compute, and so all modules that are written over them:
  `ParsedAsDocumented` and `RoundTrip` of `Arguments`; `MeaningPreserved`,
  `CodeIsValid`, `DumpRoundTrip` and `AssertionsHold` of `LuaPrograms`.
- `UnsubscribeRemovesAll`, which the code does not satisfy.

## 7. What is not modelled

Of cereja:

- Errors that leave nested dialogs and window procedures by `longjmp`, beyond what
  `LoopFails` and `HandlerFailsOddly` say.
- Messages that `SetForegroundWindow` and `SendMessage` to other programs let in.
- Painting, layout and the key table of `ui.tray`; AppBar messages of the tray
  window, which keep no state; `ui.ime`, `ui.key`, `ui.sound`, `app.snarl` and
  the rest of `shell` and `ui.window`, which are one call into Windows per function;
  the list helpers of `libcereja.lua` and the UTF-8 wrappers, which convert and
  keep nothing.
- `ui.system.call` runs a Lua function in another thread of the operating system, in
  the same Lua state and without a lock (`system.c:18-44`), on a Lua thread that the
  collector may free.  What that does is undefined, and nothing is promised of it.
- The messages of `lib/shell/window.c`: planned.
- Allocation failures.

Four hazards have no property, each with its reason in `PROJECT.json`: the clean-up
of the Lua state under frames that use it (`main.c:176`), the report of an error that
is no string (`tray.lua:53`), `reset_icons` (`tray.c:811`) and window handles that
are used again (`window.lua:233`).

Of Lua:

- The scanner, line numbers and other debug information, hooks.
- Numbers that are not integers, numbers that overflow, the conversion of strings to
  numbers in arithmetic.
- `sort` with a function or with elements of different types; keys that are added
  during a traversal; `coroutine.status` and `running` are modelled and not exercised.
- `string.format`, which is a conversion by the C library, and `string.dump`, whose
  work is in `LuaVerifier`; characters above 126 and `\0` within strings; a
  replacement that ends in `%`; a replacement table with a metatable.  The functions
  of `string` and `table` are globals of the programs, under their own names.
- Metatables of values that are not tables, so the method syntax of strings; environments other than the global one,
  which are in `LuaHeap` only.
- In `LuaHeap`: function prototypes; metatables that are collected themselves or change
  while they are in use; steps of the collector during `lua_close`, whose finalizers
  (`GCTM`) raise the threshold first.
- I/O, the functions that call the system, `loadlib.c`, the debug library, `lunit`.

## 8. Plan

Done, in this order: `Lifecycle` with `ShellSession`; `Subscribers`, `Tray` and
`UITray`; `Hotkey` with `HotkeyBindings`; `Notice`; the proofs about `Lifecycle` and
`Hotkey`; `TrayHook` and `Extensions`; `StartupPrograms`; `WindowProperties` and
`Windows`; `Formats` and `Arguments`; the compiler, the machine, the tables, the
libraries and the collector of Lua; the two refinements; the proofs about
`Extensions`, `UITray`, `Notice`, `Subscribers`, `StartupPrograms` and `Windows`; the
collector without recursive operators, and the proofs about it.

To be modelled: `lib/shell/window.c`, with the subscribers of `window.lua`; the list
helpers of `libcereja.lua` (`split`, `range`, `mapx`, `sortx`), as programs of
`LuaPrograms`; the scanner of Lua.

To be proved: that `propagateall` of `LuaHeap` is what its loop comes to, which TLC
has confirmed on the casts of the run; that `luaG_checkcode` accepts what the code
generator emits, once `LuaCode` and `LuaVerifier` are written with recursive functions.
