------------------------------- MODULE UITray -------------------------------
(***************************************************************************)
(* ui.tray: the window that shows the icons and the cursor the keyboard    *)
(* moves over them (lib/ui/tray.c), together with the tray it looks at.    *)
(*                                                                         *)
(* The window reads the tray directly, but hears of changes in two stages: *)
(* its subscriber posts UIM_TRAY_UPDATE, and the handler of that message   *)
(* corrects the cursor.  Posted messages are retrieved before key strokes, *)
(* so what counts is who runs before the subscriber is called.             *)
(***************************************************************************)
EXTENDS Tray

CONSTANTS
  UISubscriber,  (* the place of ui.tray among the subscribers            *)
  MaxUpdates     (* bound: updates posted and not yet retrieved           *)

ASSUME UISubscriberAssumption == UISubscriber \in 1..Subscribers
ASSUME RoomAssumption == MaxUpdates \in Nat /\ MaxUpdates >= MaxDepth

VARIABLES
  cursor,   (* s_Cursor, 0-origin                                         *)
  visible,  (* IsWindowVisible(s_UIWindow)                                *)
  updates   (* the UIM_TRAY_UPDATE messages in the queue                  *)

uivars == <<icons, alive, calls, memory, cursor, visible, updates>>

CURSOR_INVALID == -20061104

UITypeOK ==
  /\ TypeOK
  /\ cursor  \in Nat \cup {CURSOR_INVALID}
  /\ visible \in BOOLEAN
  /\ updates \in Seq({"NIM_ADD", "NIM_DELETE", "NIM_MODIFY"})

UIInit ==
  /\ Init
  /\ cursor = CURSOR_INVALID
  /\ visible = FALSE
  /\ updates = <<>>

-----------------------------------------------------------------------------
(* The tray changes; ui.tray's subscriber itself does nothing but post.    *)

InUISubscriber == calls # <<>> /\ Top.turn = UISubscriber

\* A change of the tray waits until there is room for the update it causes.
TrayStep ==
  /\ ~InUISubscriber
  /\ Len(updates) + Len(calls) < MaxUpdates
  /\ \/ \E nid \in Nid : NotifyAdd(nid) \/ NotifyDelete(nid) \/ NotifyModify(nid)
     \/ \E index \in Index : clean_icon(index)
     \/ \E index, dest \in Index : move_icon(index, dest)
     \/ reset_icons \/ sort_icons
     \/ \E w \in Window : WindowDies(w)
  /\ UNCHANGED <<cursor, visible, updates>>

Subscriber ==
  /\ CallNext
  /\ updates' = IF Top.turn + 1 = UISubscriber THEN Append(updates, Top.event)
                ELSE updates
  /\ UNCHANGED <<cursor, visible>>

PublishEnds == EndPublish /\ UNCHANGED <<cursor, visible, updates>>

-----------------------------------------------------------------------------
(* Messages to the window                                                  *)

\* The main loop or that of a message box retrieves messages.
Retrieving == /\ memory = "ok"
              /\ ~InUISubscriber
              /\ ~(calls # <<>> /\ Top.turn = 0)

\* Key strokes come after posted messages, and to a visible window only.
KeyPressed == Retrieving /\ updates = <<>> /\ visible

\* UIM_TRAY_UPDATE after a deletion
Clamped(c) == IF c = CURSOR_INVALID \/ count = 0 THEN CURSOR_INVALID
              ELSE IF count <= c THEN count - 1
              ELSE c

TrayUpdate ==
  /\ Retrieving
  /\ updates # <<>>
  /\ updates' = Tail(updates)
  /\ cursor' = IF Head(updates) = "NIM_DELETE" THEN Clamped(cursor) ELSE cursor
  /\ UNCHANGED <<icons, alive, calls, memory, visible>>

\* The cursor commands first move the cursor, then clean the icon there.
CleanAt(c) ==
  IF c # CURSOR_INVALID /\ ValidIndex(c + 1) /\ ~Valid(Adjusted(c + 1))
    THEN clean_icon(c + 1)
    ELSE UNCHANGED vars

CursorTo(c) ==
  /\ KeyPressed
  /\ cursor' = c
  /\ CleanAt(c)
  /\ UNCHANGED <<visible, updates>>

FirstOrNone == IF count > 0 THEN 0 ELSE CURSOR_INVALID
LastOrNone  == IF count > 0 THEN count - 1 ELSE CURSOR_INVALID

\* Mutant: the cursor does not wrap around at the end.
CURSOR_NEXTFar ==
  CursorTo(IF cursor = CURSOR_INVALID THEN FirstOrNone ELSE cursor + 1)

CURSOR_NEXT ==
  CursorTo(IF cursor = CURSOR_INVALID THEN FirstOrNone
           ELSE IF count <= cursor + 1 THEN cursor + 1 - count
           ELSE cursor + 1)

CURSOR_PREV ==
  CursorTo(IF cursor = CURSOR_INVALID THEN LastOrNone
           ELSE IF cursor - 1 < 0 THEN cursor - 1 + count
           ELSE cursor - 1)

CURSOR_FIRST == CursorTo(IF cursor = CURSOR_INVALID THEN FirstOrNone ELSE 0)
CURSOR_LAST  == CursorTo(IF cursor = CURSOR_INVALID THEN LastOrNone
                         ELSE count - 1)

CursorCommand == CURSOR_NEXT \/ CURSOR_PREV \/ CURSOR_FIRST \/ CURSOR_LAST

\* The SEND_*_CLICK commands post to the window of icons[s_Cursor], whatever
\* that is, and hide the window.
SEND_CLICK ==
  /\ KeyPressed
  /\ cursor # CURSOR_INVALID
  /\ memory' = IF cursor \in 0..count - 1 THEN memory ELSE "corrupt"
  /\ visible' = FALSE
  /\ cursor' = CURSOR_INVALID
  /\ UNCHANGED <<icons, alive, calls, updates>>

\* The cursor stays where it is, whether or not the icon under it moves.
ICON_MOVE ==
  /\ KeyPressed
  /\ cursor # CURSOR_INVALID
  /\ \E way \in {<<cursor + 1, cursor + 2>>, <<cursor + 1, cursor>>,
                 <<cursor + 1, 1>>, <<cursor + 1, -1>>, <<-1, 1>>, <<1, -1>>} :
       move_icon(way[1], way[2])
  /\ UNCHANGED <<cursor, visible, updates>>

\* By a key, by a script, or by the loss of the activation (hide_when_inactivep).
CMD_HIDE ==
  /\ Retrieving
  /\ visible
  /\ visible' = FALSE
  /\ cursor' = CURSOR_INVALID
  /\ UNCHANGED <<icons, alive, calls, memory, updates>>

CMD_SHOW ==
  /\ Retrieving
  /\ visible' = TRUE
  /\ UNCHANGED <<icons, alive, calls, memory, cursor, updates>>

-----------------------------------------------------------------------------

UINext ==
  \/ TrayStep \/ Subscriber \/ PublishEnds
  \/ TrayUpdate
  \/ CursorCommand \/ SEND_CLICK \/ ICON_MOVE
  \/ CMD_SHOW \/ CMD_HIDE
  \/ memory = "corrupt" /\ UNCHANGED uivars

UISpec == UIInit /\ [][UINext]_uivars

-----------------------------------------------------------------------------
(* Properties                                                              *)

\* The cursor is on an icon, unless the tray has shrunk and word of it is still
\* under way: posted, or in a publish that has not come to ui.tray yet.
Announced ==
  \/ \E n \in DOMAIN updates : updates[n] = "NIM_DELETE"
  \/ \E n \in DOMAIN calls : /\ calls[n].event = "NIM_DELETE"
                             /\ calls[n].turn < UISubscriber

CursorInRange ==
  cursor # CURSOR_INVALID => cursor >= 0 /\ (cursor < count \/ Announced)

\* The manual: the clicks go to the icon the cursor points to
\* (manual.xml:617), so there must be one (tray.c:607-619).
ClickHitsIcon == [][SEND_CLICK => cursor \in 0..count - 1]_uivars

=============================================================================
