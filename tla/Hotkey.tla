------------------------------- MODULE Hotkey -------------------------------
(***************************************************************************)
(* ui.hotkey (lib/ui/hotkey.c) under the sample configuration: Windows     *)
(* posts WM_HOTKEY with the number of the hot key pressed, and the handler *)
(* window's procedure runs the action the table has under that number when *)
(* the message is retrieved.  The action may be reload_config, which       *)
(* resets and registers the hot keys again, and a message box within an    *)
(* action retrieves further messages.                                      *)
(***************************************************************************)
EXTENDS Integers, Sequences

CONSTANTS
  Combo, Action,               (* combinations of keys, Lua functions      *)
  ReloadCombo, reload_config,  (* the first line of config.lua             *)
  HOTKEY_ID_MAX,
  MaxQueue,                    (* bound: messages posted and not retrieved *)
  MaxDepth                     (* bound: actions in progress at once       *)

ASSUME ReloadAssumption == ReloadCombo \in Combo /\ reload_config \in Action
ASSUME LimitAssumption == HOTKEY_ID_MAX \in Nat

VARIABLES
  registered,    (* Windows: the numbers registered, each with its keys     *)
  others,        (* Windows: the keys registered by other programs          *)
  s_HotkeyCount,
  action_table,  (* the action of each number                               *)
  queue,         (* the WM_HOTKEY messages posted                           *)
  calls,         (* the actions in progress, the innermost last             *)
  running,       (* FALSE once login.lua has failed                         *)
  robbed         (* history: reload_config found its keys taken             *)

vars == <<registered, others, s_HotkeyCount, action_table, queue, calls,
          running, robbed>>

Id == 0..HOTKEY_ID_MAX

\* As history, a message has the action bound to the keys when they were
\* pressed, and whether the hot keys have been reset since.
WM_HOTKEY == [wp: Id, action: Action, reset: BOOLEAN]

\* login: called by login.lua.  at: about to reset or to register the reload
\* key (reload_config only), anywhere else, or in a message box, which is the
\* last thing an action does if it is a notice.
Call == [action: Action, login: BOOLEAN,
         at: {"reset", "register", "body", "dialog", "notice"}]

TypeOK ==
  /\ DOMAIN registered \subseteq Id
  /\ \A id \in DOMAIN registered : registered[id] \in Combo
  /\ others \subseteq Combo
  /\ s_HotkeyCount \in 0..HOTKEY_ID_MAX + 1
  /\ DOMAIN action_table \subseteq Id
  /\ \A id \in DOMAIN action_table : action_table[id] \in Action
  /\ queue \in Seq(WM_HOTKEY)
  /\ calls \in Seq(Call)
  /\ running \in BOOLEAN
  /\ robbed \in BOOLEAN

Started(action, login) ==
  [action |-> action, login |-> login,
   at |-> IF action = reload_config THEN "reset" ELSE "body"]

\* login.lua calls reload_config after the extension has been loaded.
Init ==
  /\ registered = <<>>
  /\ others = {}
  /\ s_HotkeyCount = 0
  /\ action_table = <<>>
  /\ queue = <<>>
  /\ calls = <<Started(reload_config, TRUE)>>
  /\ running = TRUE
  /\ robbed = FALSE

Top == calls[Len(calls)]
Pop == SubSeq(calls, 1, Len(calls) - 1)
At(place) == calls # <<>> /\ Top.at = place
Goto(place) == calls' = [calls EXCEPT ![Len(calls)].at = place]

Taken == others \cup {registered[id] : id \in DOMAIN registered}

-----------------------------------------------------------------------------
(* Windows                                                                 *)

Press(id) ==
  /\ id \in DOMAIN registered
  /\ Len(queue) < MaxQueue
  /\ queue' = Append(queue, [wp |-> id, action |-> action_table[id],
                             reset |-> FALSE])
  /\ UNCHANGED <<registered, others, s_HotkeyCount, action_table, calls,
                 running, robbed>>

OthersChange ==
  /\ \/ \E c \in Combo \ Taken : others' = others \cup {c}
     \/ \E c \in others : others' = others \ {c}
  /\ UNCHANGED <<registered, s_HotkeyCount, action_table, queue, calls,
                 running, robbed>>

-----------------------------------------------------------------------------
(* handler_window_proc                                                     *)

\* The main loop or that of a message box retrieves messages.
Retrieving == running /\ (calls = <<>> \/ At("dialog") \/ At("notice"))

\* Mutant: the newest hot key is taken for one that no longer exists.
KnownShort(wp) == wp + 1 < s_HotkeyCount

Known(wp) == wp < s_HotkeyCount

OnHotkey ==
  /\ Retrieving
  /\ queue # <<>>
  /\ Len(calls) < MaxDepth
  /\ queue' = Tail(queue)
  /\ calls' = IF Known(Head(queue).wp)
                THEN Append(calls, Started(action_table[Head(queue).wp], FALSE))
                ELSE calls
  /\ UNCHANGED <<registered, others, s_HotkeyCount, action_table, running,
                 robbed>>

-----------------------------------------------------------------------------
(* The functions of the module                                             *)

FreeId == s_HotkeyCount <= HOTKEY_ID_MAX

With(f, x, y) == [z \in DOMAIN f \cup {x} |-> IF z = x THEN y ELSE f[z]]

_register(combo, action) ==
  /\ FreeId /\ combo \notin Taken
  /\ registered' = With(registered, s_HotkeyCount, combo)
  /\ s_HotkeyCount' = s_HotkeyCount + 1
  /\ action_table' = With(action_table, s_HotkeyCount, action)

_registerFails(combo) == ~(FreeId /\ combo \notin Taken)

\* Mutant: the first number is left out.
resetFromOne ==
  /\ registered' = [id \in DOMAIN registered \ (1..s_HotkeyCount - 1)
                     |-> registered[id]]
  /\ s_HotkeyCount' = 0
  /\ queue' = [n \in DOMAIN queue |-> [queue[n] EXCEPT !.reset = TRUE]]

\* The table and the messages stay as they are.
reset ==
  /\ registered' = [id \in DOMAIN registered \ (0..s_HotkeyCount - 1)
                     |-> registered[id]]
  /\ s_HotkeyCount' = 0
  /\ queue' = [n \in DOMAIN queue |-> [queue[n] EXCEPT !.reset = TRUE]]

-----------------------------------------------------------------------------
(* Actions                                                                 *)

\* An error is reported to the user, by the handler of the message; in login.lua
\* it ends the process, and Windows removes its hot keys.
Fail ==
  IF Top.login
    THEN /\ running' = FALSE
         /\ calls' = <<>>
         /\ registered' = <<>>
         /\ UNCHANGED <<s_HotkeyCount, action_table>>
    ELSE /\ Goto("notice")
         /\ UNCHANGED <<registered, s_HotkeyCount, action_table, running>>

\* Mutant: config.lua does not register the reload key first.
ConfigResetsOnly ==
  /\ At("reset")
  /\ reset
  /\ Goto("body")
  /\ UNCHANGED <<others, action_table, running, robbed>>

ConfigResets ==
  /\ At("reset")
  /\ reset
  /\ Goto("register")
  /\ UNCHANGED <<others, action_table, running, robbed>>

ConfigRegisters ==
  /\ At("register")
  /\ \/ /\ _register(ReloadCombo, reload_config)
        /\ Goto("body")
        /\ robbed' = FALSE
        /\ UNCHANGED running
     \/ /\ _registerFails(ReloadCombo)
        /\ Fail
        /\ robbed' = TRUE
  /\ UNCHANGED <<others, queue>>

\* Any action may register hot keys.
Registers(combo, action) ==
  /\ At("body")
  /\ \/ /\ _register(combo, action)
        /\ UNCHANGED <<calls, running>>
     \/ _registerFails(combo) /\ Fail
  /\ UNCHANGED <<others, queue, robbed>>

\* Any other error
Fails ==
  /\ At("body")
  /\ Fail
  /\ UNCHANGED <<others, queue, robbed>>

MessageBox ==
  /\ \/ At("body") /\ Goto("dialog")
     \/ At("dialog") /\ Goto("body")
  /\ UNCHANGED <<registered, others, s_HotkeyCount, action_table, queue,
                 running, robbed>>

\* reload_config tells of its success, but not in login.lua.
Returns ==
  /\ \/ At("notice") /\ calls' = Pop
     \/ /\ At("body")
        /\ IF Top.action = reload_config /\ ~Top.login
             THEN Goto("notice") ELSE calls' = Pop
  /\ UNCHANGED <<registered, others, s_HotkeyCount, action_table, queue,
                 running, robbed>>

-----------------------------------------------------------------------------

Next ==
  \/ \E id \in Id : Press(id)
  \/ OthersChange
  \/ OnHotkey
  \/ ConfigResets \/ ConfigRegisters
  \/ \E combo \in Combo, action \in Action : Registers(combo, action)
  \/ Fails \/ MessageBox \/ Returns

Spec == Init /\ [][Next]_vars

-----------------------------------------------------------------------------
(* Properties                                                              *)

\* The keys Windows knows are those of the numbers in use: a registration that
\* fails leaves no trace, and reset forgets every key (hotkey.c:130-180).
NumbersAreInUse == running => DOMAIN registered = 0..s_HotkeyCount - 1

\* The keys Windows knows, each with the action that its number has.
Keys == {registered[id] : id \in DOMAIN registered}
Bound == [c \in Keys |->
           action_table[CHOOSE id \in DOMAIN registered : registered[id] = c]]

Bindings == INSTANCE HotkeyBindings WITH bound <- Bound

\* Each key runs the action it was registered with until the next reset: neither
\* further registrations, failing or not, nor the reuse of numbers changes it.
BindingsSpec == Bindings!Spec

\* A hot key runs the action that was bound to it when it was pressed, if no
\* reset has come between: registering more never disturbs it (hotkey.c:42-56).
PressRunsAction ==
  [][OnHotkey /\ ~Head(queue).reset
       => Len(calls') = Len(calls) + 1 /\ Top'.action = Head(queue).action]_vars

Settled == \A n \in DOMAIN calls : calls[n].at \notin {"reset", "register"}

ReloadKeyBound ==
  \E id \in DOMAIN registered : /\ registered[id] = ReloadCombo
                                /\ action_table[id] = reload_config

\* examples/config.lua:4-5: wherever config.lua fails, the key that reloads it
\* works afterwards, unless another program has taken it in the instant between
\* reset and register.
ReloadKeyWorks == running /\ Settled => robbed \/ ReloadKeyBound

=============================================================================
