-------------------------------- MODULE Tray --------------------------------
(***************************************************************************)
(* shell.tray: the icons of the notification area (lib/shell/tray.c).      *)
(*                                                                         *)
(* Programs send NIM_ADD, NIM_MODIFY and NIM_DELETE to the tray window,    *)
(* Lua code cleans, moves, sorts and resets the icons, and each change is  *)
(* published to the subscribers one after another.  While a subscriber     *)
(* runs, it may change the tray itself, and a message box it opens lets    *)
(* more messages in; these changes are published within the first publish. *)
(***************************************************************************)
EXTENDS Integers, Sequences, FiniteSets

CONSTANTS
  Key,          (* icons: a window and a uID                              *)
  NoKey,        (* stands for no icon                                     *)
  owner,        (* the window of each icon                                *)
  Nid,          (* the CrjNOTIFYICONDATA that programs send               *)
  HIcon, NULL,  (* icon handles, and none                                 *)
  Message,      (* callback messages                                      *)
  Text,         (* texts                                                  *)
  WM_NULL, Empty, (* the message and the text of a new icon               *)
  Subscribers,  (* how many subscribers there are                         *)
  MaxDepth      (* bound: publishes in progress at once                   *)

Flags == {"ICON", "MESSAGE", "TIP", "INFO"}

\* szInfoTitle stands for szInfoTitle, dwInfoFlags and uTimeout, which are
\* treated alike; refused for the NIS_HIDDEN and NIS_SHAREDICON states.
NidType == [key: Key, uFlags: SUBSET Flags, refused: BOOLEAN,
            hIcon: HIcon \cup {NULL}, uCallbackMessage: Message,
            szTip: Text, szInfo: Text, szInfoTitle: Text]

ASSUME NidAssumption == Nid \subseteq NidType
ASSUME NullAssumption == /\ WM_NULL \in Message
                         /\ Empty \in Text
                         /\ NoKey \notin Key
ASSUME CountAssumption == Subscribers \in Nat

VARIABLES
  icons,    (* s_TrayData: the first count pointers, as what they point to *)
  alive,    (* the windows that exist                                      *)
  calls,    (* the publishes in progress, the innermost last               *)
  memory    (* "corrupt" once an icon in the table has been freed          *)

vars == <<icons, alive, calls, memory>>

Window == {owner[k] : k \in Key}
Icon == [key: Key, hIcon: HIcon \cup {NULL}, uCallbackMessage: Message,
         szTip: Text, szInfo: Text, szInfoTitle: Text]

\* A publish: its arguments, the subscriber it has called last, the number of
\* icons reset_icons still has to free, whether the table has been overwritten
\* meanwhile; as history, the icon it is about and whether the tray has changed.
Call == [event: {"NIM_ADD", "NIM_DELETE", "NIM_MODIFY"}, icon_index: Nat,
         flags: SUBSET Flags, turn: 0..Subscribers, old: Nat,
         overwritten: BOOLEAN, about: Key \cup {NoKey}, changed: BOOLEAN]

TypeOK ==
  /\ icons  \in Seq(Icon)
  /\ alive  \subseteq Window
  /\ calls  \in Seq(Call)
  /\ memory \in {"ok", "corrupt"}

Init == icons = <<>> /\ alive = Window /\ calls = <<>> /\ memory = "ok"

-----------------------------------------------------------------------------
(* Publishing                                                              *)

count == Len(icons)
Top == calls[Len(calls)]

\* Code other than publish runs: the main loop, a subscriber or what it lets in.
\* Nothing is said of what happens after the table has been corrupted.
OthersRun == /\ memory = "ok"
             /\ Len(calls) < MaxDepth
             /\ ~(calls # <<>> /\ Top.turn = 0)

\* The tray has changed: the publishes in progress learn of it, one begins.
Published(event, index, flags, about, old) ==
  Append([n \in DOMAIN calls |->
            [calls[n] EXCEPT !.changed = TRUE,
                             !.overwritten = @ \/ event = "NIM_ADD"]],
         [event |-> event, icon_index |-> index, flags |-> flags, turn |-> 0,
          old |-> old, overwritten |-> FALSE, about |-> about, changed |-> FALSE])

publish(event, index, flags, about) ==
  calls' = Published(event, index, flags, about, 0)

CallNext ==
  /\ calls # <<>>
  /\ memory = "ok"
  /\ Top.turn < Subscribers
  /\ calls' = [calls EXCEPT ![Len(calls)].turn = @ + 1]
  /\ UNCHANGED <<icons, alive, memory>>

\* reset_icons then frees the pointers in the slots it found used.
EndPublish ==
  /\ calls # <<>>
  /\ memory = "ok"
  /\ Top.turn = Subscribers
  /\ calls' = SubSeq(calls, 1, Len(calls) - 1)
  /\ memory' = IF Top.old > 0 /\ Top.overwritten THEN "corrupt" ELSE "ok"
  /\ UNCHANGED <<icons, alive>>

-----------------------------------------------------------------------------
(* TrayIcon and TrayData                                                   *)

\* TrayData_FindIconIndex, as a set; the icons are 1-origin here.
FindIconIndex(key) == {i \in DOMAIN icons : icons[i].key = key}

\* TrayIcon_Update: the new icon ...
Updated(icon, nid) ==
  [key |-> icon.key,
   hIcon |-> IF "ICON" \in nid.uFlags THEN nid.hIcon ELSE icon.hIcon,
   uCallbackMessage |-> IF "MESSAGE" \in nid.uFlags THEN nid.uCallbackMessage
                        ELSE icon.uCallbackMessage,
   szTip |-> IF "TIP" \in nid.uFlags THEN nid.szTip ELSE icon.szTip,
   szInfo |-> IF "INFO" \in nid.uFlags THEN nid.szInfo ELSE icon.szInfo,
   szInfoTitle |-> IF "INFO" \in nid.uFlags THEN nid.szInfoTitle
                   ELSE icon.szInfoTitle]

\* ... and the flags it returns.  szInfo is compared twice, szInfoTitle never.
UpdateFlags(icon, nid) ==
  LET new == Updated(icon, nid)
  IN  {f \in Flags : \/ f = "ICON" /\ new.hIcon # icon.hIcon
                     \/ f = "MESSAGE" /\ new.uCallbackMessage # icon.uCallbackMessage
                     \/ f = "TIP" /\ new.szTip # icon.szTip
                     \/ f = "INFO" /\ new.szInfo # icon.szInfo}

TrayIcon_New(nid) ==
  Updated([key |-> nid.key, hIcon |-> NULL, uCallbackMessage |-> WM_NULL,
           szTip |-> Empty, szInfo |-> Empty, szInfoTitle |-> Empty], nid)

Addable(nid) == /\ nid.hIcon # NULL
                /\ ~nid.refused
                /\ FindIconIndex(nid.key) = {}

\* Mutant: the new icon's index is the old count.
AddIconLow(nid) ==
  /\ Addable(nid)
  /\ icons' = Append(icons, TrayIcon_New(nid))
  /\ publish("NIM_ADD", count, Flags, nid.key)

AddIcon(nid) ==
  /\ Addable(nid)
  /\ icons' = Append(icons, TrayIcon_New(nid))
  /\ publish("NIM_ADD", count + 1, Flags, nid.key)

RemovedAt(s, i) == [k \in 1..Len(s) - 1 |-> IF k < i THEN s[k] ELSE s[k + 1]]

RemoveIcon(nid) ==
  \E i \in FindIconIndex(nid.key) :
    /\ icons' = RemovedAt(icons, i)
    /\ publish("NIM_DELETE", 0, {}, nid.key)

UpdateIcon(nid) ==
  \E i \in FindIconIndex(nid.key) :
    /\ icons' = [icons EXCEPT ![i] = Updated(icons[i], nid)]
    /\ publish("NIM_MODIFY", i, UpdateFlags(icons[i], nid), nid.key)

Valid(i) == owner[icons[i].key] \in alive

\* Mutant: the test of the window is inverted.
CleanIconsInverted ==
  \E n \in 0..count : \E from \in [1..n -> 1..count] :
    /\ \A j, k \in 1..n : j < k => from[j] < from[k]
    /\ {from[k] : k \in 1..n} = {i \in 1..count : ~Valid(i)}
    /\ icons' = [k \in 1..n |-> icons[from[k]]]

\* TrayData_CleanIcon: the icons of windows that exist are left, in order.
CleanIcons ==
  \E n \in 0..count : \E from \in [1..n -> 1..count] :
    /\ \A j, k \in 1..n : j < k => from[j] < from[k]
    /\ {from[k] : k \in 1..n} = {i \in 1..count : Valid(i)}
    /\ icons' = [k \in 1..n |-> icons[from[k]]]

-----------------------------------------------------------------------------
(* tray_message_proc; a message that is not processed changes nothing      *)

NotifyAdd(nid)    == OthersRun /\ AddIcon(nid) /\ UNCHANGED <<alive, memory>>
NotifyDelete(nid) == OthersRun /\ RemoveIcon(nid) /\ UNCHANGED <<alive, memory>>

\* NIM_MODIFY of an unknown icon adds it.
NotifyModify(nid) ==
  /\ OthersRun
  /\ \/ UpdateIcon(nid)
     \/ FindIconIndex(nid.key) = {} /\ AddIcon(nid)
  /\ UNCHANGED <<alive, memory>>

-----------------------------------------------------------------------------
(* The Lua functions; called with an invalid index they change nothing     *)

\* VALID_INDEXP and ADJUST_INDEX: -1 is the last icon.
ValidIndex(i) == i \in 1..count \/ i \in -count..-1
Adjusted(i) == IF i >= 1 THEN i ELSE i + count + 1

clean_icon(index) ==
  /\ OthersRun
  /\ ValidIndex(index)
  /\ ~Valid(Adjusted(index))
  /\ CleanIcons
  /\ publish("NIM_DELETE", 0, {}, NoKey)
  /\ UNCHANGED <<alive, memory>>

\* Icon i goes to place d, the icons between make room.
Moved(s, i, d) ==
  [k \in 1..Len(s) |-> IF k = d THEN s[i]
                       ELSE IF i <= k /\ k < d THEN s[k + 1]
                       ELSE IF d < k /\ k <= i THEN s[k - 1]
                       ELSE s[k]]

\* Also the whole of move_icon_first and move_icon_last, and of each step of
\* shift_icons.
move_icon(index, dest) ==
  /\ OthersRun
  /\ ValidIndex(index) /\ ValidIndex(dest)
  /\ Adjusted(index) # Adjusted(dest)
  /\ icons' = Moved(icons, Adjusted(index), Adjusted(dest))
  /\ publish("NIM_MODIFY", 1, {}, NoKey)
  /\ UNCHANGED <<alive, memory>>

\* The programs are then asked to announce their icons again.
reset_icons ==
  /\ OthersRun
  /\ icons' = <<>>
  /\ calls' = Published("NIM_DELETE", 0, {}, NoKey, count)
  /\ UNCHANGED <<alive, memory>>

\* sort_icons: _reorder_icons with the indexes in the order of any key.
sort_icons ==
  /\ OthersRun
  /\ \E f \in [1..count -> 1..count] :
       /\ \A j, k \in 1..count : f[j] = f[k] => j = k
       /\ icons' = [k \in 1..count |-> icons[f[k]]]
  /\ publish("NIM_MODIFY", 1, {}, NoKey)
  /\ UNCHANGED <<alive, memory>>

-----------------------------------------------------------------------------

\* A program ends without removing its icons.
WindowDies(w) ==
  /\ w \in alive
  /\ alive' = alive \ {w}
  /\ UNCHANGED <<icons, calls, memory>>

Index == -Cardinality(Key) .. Cardinality(Key)

-----------------------------------------------------------------------------
(* Properties                                                              *)

Shown == {icons[i].key : i \in DOMAIN icons}

\* The icon_index that a subscriber is given is that of the icon the event is
\* about, unless the tray has changed since the publish began (tray.h:118-124),
\* and no other: however icons are announced, moved, sorted and cleaned, none is
\* in the tray twice (tray.c:337-340).
IndexIsAccurate ==
  \A n \in DOMAIN calls :
    calls[n].event # "NIM_DELETE" /\ calls[n].about # NoKey /\ ~calls[n].changed
      => {i \in DOMAIN icons : icons[i].key = calls[n].about} = {calls[n].icon_index}

\* An icon disappears because its program removed it, because its window is
\* gone, or because the tray was reset; moving and sorting lose none.
LostForAReason ==
  \A key \in Shown \ Shown' :
    \/ owner[key] \notin alive
    \/ \E nid \in Nid : nid.key = key /\ NotifyDelete(nid)
    \/ icons' = <<>> /\ Top'.event = "NIM_DELETE" /\ Top'.about = NoKey

NothingLost == [][LostForAReason]_vars

=============================================================================
