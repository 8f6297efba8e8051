------------------------------ MODULE Windows ------------------------------
(* ui.window's functions that move and resize windows (lib/ui/window.lua,    *)
(* lib/ui/monitor.lua, lib/ui/window.c): they read the placement of a window *)
(* of another process, and ask that process to change it, which it does some *)
(* time later; meanwhile the user moves windows and windows go and come.     *)
EXTENDS WindowProperties

CONSTANTS
  Layouts,      \* possible layouts: sequences of monitors, each with its
                \* placement and its work area
  Placements,   \* where the user puts windows
  Movable,      \* bound: the windows that are moved; scripts set properties of
                \* the others
  Moves,        \* the arguments scripts call move with
  ScriptKey,    \* keys of properties of scripts
  Cost,         \* of a toggle, of a move, of a change of a property, and of a call
                \* that is early: it finds requests not processed
  MaxCalls,     \* bound on the cost of all calls
  MaxChanges    \* bound on changes by the user and by other processes

Rect(x, y, w, h) == [x |-> x, y |-> y, w |-> w, h |-> h]

zoomedp(axis) == <<axis, "zoomedp">>
workarea(axis) == <<axis, "workarea">>

axes == {"v", "h"}
Rectangle == [x : Int, y : Int, w : Nat, h : Nat]
Monitor == [placement : Rectangle, workarea : Rectangle]
Distance == [coordinate : {"a", "c", "r"}, vscreen : BOOLEAN, percent : BOOLEAN]
Argument == [tx : Distance, ty : Distance, dx : Int, dy : Int]
Position == [x : Int, y : Int]
Size == [w : Nat, h : Nat]

ASSUME KeyAssumption ==
  /\ \A a \in axes : {zoomedp(a), workarea(a)} \subseteq Key
  /\ ScriptKey \subseteq Key

\* A work area is within its monitor.
ASSUME LayoutAssumption ==
  \A l \in Layouts :
    /\ l \in Seq(Monitor) /\ l # <<>>
    /\ \A n \in DOMAIN l : l[n].workarea.x >= l[n].placement.x /\ l[n].workarea.y >= l[n].placement.y

ASSUME WindowAssumption ==
  /\ Movable \subseteq Hwnd
  /\ Placements \subseteq Rectangle /\ Placements # {}
  /\ Moves \subseteq Argument

ASSUME NilAssumption ==
  /\ nil \notin BOOLEAN \cup Rectangle \cup Size \cup Argument
  /\ nil \notin [m : Nat] \cup [m : Nat, arguments : Argument]

ASSUME BoundAssumption ==
  /\ Cost \in [{"toggle", "move", "property", "early"} -> Nat]
  /\ MaxCalls \in Nat /\ MaxChanges \in Nat

VARIABLES
  layout,       \* the monitors
  placement,    \* the placement of each window
  requests,     \* SetWindowPos: what the windows have not been told yet
  call,         \* the function that runs
  calls, changes,
  before,       \* history: the placement of a window before it was first toggled,
                \* nil if it has been changed otherwise since
  goal          \* history: where a window has to be after the calls that moved it

vars == <<alive, hwnd_table, given, layout, placement, requests, call, calls, changes, before, goal>>

Anywhere == CHOOSE r \in Placements : TRUE

Idle == [at |-> "idle", op |-> "none", hwnd |-> nil, zoomed |-> FALSE, r |-> nil,
         m |-> 0, dest |-> 0, size |-> nil, arguments |-> nil]

TypeOK ==
  /\ TableTypeOK
  /\ layout \in Layouts
  /\ \A h \in alive : placement[h] \in Rectangle
  /\ requests \in [Hwnd -> Seq(Position \cup Size)]
  /\ call.at \in {"idle", "set", "place", "keep", "area", "find", "fit", "move", "resize"}
  /\ calls \in 0..MaxCalls
  /\ changes \in 0..MaxChanges

Init ==
  /\ layout \in Layouts
  /\ alive = Hwnd
  /\ hwnd_table = <<>>
  /\ given = [h \in Hwnd |-> Nothing]
  /\ placement \in [Hwnd -> Placements]
  /\ \A h \in Hwnd \ Movable : placement[h] = Anywhere
  /\ requests = [h \in Hwnd |-> <<>>]
  /\ call = Idle
  /\ calls = 0
  /\ changes = 0
  /\ before = [h \in Hwnd |-> nil]
  /\ goal = [h \in Hwnd |-> nil]

-----------------------------------------------------------------------------
(* Geometry                                                                *)

Right(r) == r.x + r.w
Bottom(r) == r.y + r.h
Smaller(a, b) == IF a < b THEN a ELSE b
Larger(a, b) == IF a < b THEN b ELSE a

\* get_vscreen_placement: the rectangle around all monitors.
VirtualScreen ==
  LET monitor == {layout[n].placement : n \in DOMAIN layout}
      left == Min({m.x : m \in monitor})
      top == Min({m.y : m \in monitor})
  IN  Rect(left, top, Max({Right(m) : m \in monitor}) - left,
                      Max({Bottom(m) : m \in monitor}) - top)

\* MonitorFromWindow: the monitor that shows most of the window.
Shared(a, b) ==
  Larger(0, Smaller(Right(a), Right(b)) - Larger(a.x, b.x))
  * Larger(0, Smaller(Bottom(a), Bottom(b)) - Larger(a.y, b.y))

find_by_window(r) ==
  {n \in DOMAIN layout : \A k \in DOMAIN layout :
     Shared(r, layout[k].placement) <= Shared(r, layout[n].placement)}

monitors(hwnd) == IF hwnd \in alive THEN find_by_window(placement[hwnd]) ELSE DOMAIN layout

find_next_monitor(delta, base) == 1 + (((base - 1) + delta) % Len(layout))

\* convert of move: where a distance d is counted from.
convert(t, d, wx, ww, m, mw, v, vw) ==
  LET b == IF t.vscreen THEN v ELSE m
      bw == IF t.vscreen THEN vw ELSE mw
      dx == IF t.percent THEN (bw * d) \div 100 ELSE d
  IN  CASE t.coordinate = "a" -> b + (IF 0 <= dx THEN 0 ELSE bw - ww + 1) + dx
        [] t.coordinate = "c" -> b + (bw \div 2) - (ww \div 2) + dx
        [] t.coordinate = "r" -> wx + dx

Moved(r, m, a) ==
  [x |-> convert(a.tx, a.dx, r.x, r.w, m.x, m.w, VirtualScreen.x, VirtualScreen.w),
   y |-> convert(a.ty, a.dy, r.y, r.h, m.y, m.h, VirtualScreen.y, VirtualScreen.h)]

\* The arguments of move('A', 'A', p.x, p.y).
A == [coordinate |-> "a", vscreen |-> TRUE, percent |-> FALSE]
Absolute(p) == [tx |-> A, ty |-> A, dx |-> p.x, dy |-> p.y]

\* Mutant: it is not pulled back from the lower edge.
FittedAbove(r, src, dest) ==
  [x |-> Larger(dest.x, Smaller(r.x + (dest.x - src.x), Right(dest) - r.w)),
   y |-> Larger(dest.y, r.y + (dest.y - src.y))]

\* move_to_monitor: as far from the edges as before, then back from the right and
\* lower edge, then from the left and upper one.
Fitted(r, src, dest) ==
  [x |-> Larger(dest.x, Smaller(r.x + (dest.x - src.x), Right(dest) - r.w)),
   y |-> Larger(dest.y, Smaller(r.y + (dest.y - src.y), Bottom(dest) - r.h))]

-----------------------------------------------------------------------------
(* Functions of scripts: each step reads or changes something of another     *)
(* process, or the properties                                              *)

At(place) == call.at = place

\* GetWindowRect of a window that is gone leaves the rectangle uninitialized.
get_placement(h) == IF h \in alive THEN {placement[h]} ELSE Placements

Pending == \E hwnd \in Hwnd : requests[hwnd] # <<>>

Called(kind) ==
  /\ At("idle")
  /\ calls' = calls + Cost[kind] + (IF Pending THEN Cost["early"] ELSE 0)
  /\ calls' <= MaxCalls

target == call.hwnd
axis == call.op

Zoomed(hwnd, a) == get_property(hwnd, zoomedp(a)) = TRUE
Still(hwnd) == hwnd \in alive /\ requests[hwnd] = <<>>

\* maximize_vertically and maximize_horizontally: is it maximized?
maximize(hwnd, a) ==
  /\ Called("toggle")
  /\ Get(hwnd)
  /\ call' = [Idle EXCEPT !.at = "set", !.op = a, !.hwnd = hwnd, !.zoomed = Zoomed(hwnd, a)]
  /\ before' = [before EXCEPT ![hwnd] =
       IF ~Still(hwnd) THEN nil
       ELSE IF Zoomed(hwnd, "v") \/ Zoomed(hwnd, "h") THEN @ ELSE placement[hwnd]]
  /\ goal' = [goal EXCEPT ![hwnd] = nil]
  /\ UNCHANGED <<placement, requests>>

SetZoomed ==
  /\ At("set")
  /\ set_property(target, zoomedp(axis), ~call.zoomed)
  /\ call' = [call EXCEPT !.at = "place"]
  /\ UNCHANGED <<placement, requests, calls, before, goal>>

Place ==
  /\ At("place")
  /\ \E r \in get_placement(target) : call' = [call EXCEPT !.at = "keep", !.r = r]
  /\ UNCHANGED <<hwnd_table, given, placement, requests, calls, before, goal>>

\* The call goes on with move('A', 'A', ...) and resize.
Change(r) == [call EXCEPT !.at = "move", !.arguments = Absolute(r), !.size = [w |-> r.w, h |-> r.h]]

\* Mutant: all that was kept is restored.
AlongBoth(r) == r

\* The other coordinate and size are those of the window now.
Along(r) == IF axis = "v" THEN [call.r EXCEPT !.y = r.y, !.h = r.h]
                          ELSE [call.r EXCEPT !.x = r.x, !.w = r.w]

Keep ==
  /\ At("keep")
  /\ ~call.zoomed
  /\ set_property(target, workarea(axis), call.r)
  /\ call' = [call EXCEPT !.at = "area"]
  /\ UNCHANGED <<placement, requests, calls, before, goal>>

MaximizeTo ==
  /\ At("area")
  /\ \E n \in monitors(target) : call' = Change(Along(layout[n].workarea))
  /\ UNCHANGED <<hwnd_table, given, placement, requests, calls, before, goal>>

\* unpack fails if there is nothing: the window is gone, or it has the handle of
\* one that went before its placement was kept.
Restore ==
  /\ At("keep")
  /\ call.zoomed
  /\ Get(target)
  /\ LET kept == get_property(target, workarea(axis))
     IN  call' = IF kept = nil THEN Idle ELSE Change(Along(kept))
  /\ UNCHANGED <<placement, requests, calls, before, goal>>

\* move_to_next_monitor; with delta = 0, move_visibly.
move_to_next_monitor(hwnd, delta) ==
  /\ Called("move")
  /\ \E n \in monitors(hwnd) :
       call' = [Idle EXCEPT !.at = "find", !.op = "monitor", !.hwnd = hwnd,
                            !.dest = find_next_monitor(delta, n)]
  /\ before' = [before EXCEPT ![hwnd] = nil]
  /\ goal' = [goal EXCEPT ![hwnd] = nil]
  /\ UNCHANGED <<hwnd_table, given, placement, requests>>

\* move and snap_to_...
move(hwnd, a) ==
  /\ Called("move")
  /\ call' = [Idle EXCEPT !.at = "find", !.op = "move", !.hwnd = hwnd, !.arguments = a]
  /\ before' = [before EXCEPT ![hwnd] = nil]
  /\ goal' = [goal EXCEPT ![hwnd] = nil]
  /\ UNCHANGED <<hwnd_table, given, placement, requests>>

FindMonitor ==
  /\ At("find")
  /\ \E n \in monitors(target) :
       /\ call' = [call EXCEPT !.at = IF call.op = "move" THEN "move" ELSE "fit", !.m = n]
       /\ goal' = [goal EXCEPT ![target] =
            IF ~Still(target) THEN nil
            ELSE IF call.op = "move" THEN [m |-> n, arguments |-> call.arguments]
                                     ELSE [m |-> call.dest]]
  /\ UNCHANGED <<hwnd_table, given, placement, requests, calls, before>>

Fit ==
  /\ At("fit")
  /\ \E r \in get_placement(target) :
       call' = [call EXCEPT !.at = "move",
                            !.arguments = Absolute(Fitted(r, layout[call.m].workarea, layout[call.dest].workarea))]
  /\ UNCHANGED <<hwnd_table, given, placement, requests, calls, before, goal>>

\* SetWindowPos with SWP_ASYNCWINDOWPOS.
Request(q) == requests' = IF target \in alive THEN [requests EXCEPT ![target] = Append(@, q)] ELSE requests

\* move('A', 'A', ...) does not depend on the monitor it asks for.
Move ==
  /\ At("move")
  /\ \E r \in get_placement(target) :
       Request(Moved(r, layout[Larger(call.m, 1)].workarea, call.arguments))
  /\ call' = IF call.size = nil THEN Idle ELSE [call EXCEPT !.at = "resize"]
  /\ UNCHANGED <<hwnd_table, given, placement, calls, before, goal>>

Resize ==
  /\ At("resize")
  /\ Request(call.size)
  /\ call' = Idle
  /\ UNCHANGED <<hwnd_table, given, placement, calls, before, goal>>

\* Scripts may keep properties of their own.
Script(hwnd, key) ==
  /\ Called("property")
  /\ set_property(hwnd, key, TRUE) \/ remove_property(hwnd, key)
  /\ UNCHANGED <<placement, requests, call, before, goal>>

-----------------------------------------------------------------------------
(* Other processes                                                         *)

Processed(r, q) ==
  IF "x" \in DOMAIN q THEN [r EXCEPT !.x = q.x, !.y = q.y] ELSE [r EXCEPT !.w = q.w, !.h = q.h]

Process(hwnd) ==
  /\ requests[hwnd] # <<>>
  /\ placement' = [placement EXCEPT ![hwnd] = Processed(@, Head(requests[hwnd]))]
  /\ requests' = [requests EXCEPT ![hwnd] = Tail(@)]
  /\ UNCHANGED <<alive, given, changes, before, goal>>

Changed(hwnd, r) ==
  /\ changes < MaxChanges
  /\ changes' = changes + 1
  /\ placement' = [placement EXCEPT ![hwnd] = r]
  /\ before' = [before EXCEPT ![hwnd] = nil]
  /\ goal' = [goal EXCEPT ![hwnd] = nil]

UserMoves(hwnd, r) ==
  /\ hwnd \in alive
  /\ placement[hwnd] # r
  /\ Changed(hwnd, r)
  /\ UNCHANGED <<alive, given, requests>>

Dies(hwnd) ==
  /\ hwnd \in alive
  /\ Changed(hwnd, nil)
  /\ alive' = alive \ {hwnd}
  /\ given' = [given EXCEPT ![hwnd] = [k \in Key |-> unknown]]
  /\ requests' = [requests EXCEPT ![hwnd] = <<>>]

\* Windows gives the handle to a new window.
Created(hwnd, r) ==
  /\ hwnd \notin alive
  /\ Changed(hwnd, r)
  /\ alive' = alive \cup {hwnd}
  /\ UNCHANGED <<given, requests>>

Next ==
  \/ /\ \/ \E hwnd \in Movable : \/ \E a \in axes : maximize(hwnd, a)
                                 \/ \E delta \in 0..1 : move_to_next_monitor(hwnd, delta)
                                 \/ \E a \in Moves : move(hwnd, a)
        \/ \E hwnd \in Hwnd \ Movable, key \in ScriptKey : Script(hwnd, key)
        \/ SetZoomed \/ Place \/ Keep \/ Restore \/ MaximizeTo \/ FindMonitor \/ Fit
        \/ Move \/ Resize
     /\ UNCHANGED <<layout, alive, changes>>
  \/ /\ \E hwnd \in Hwnd :
          \/ Process(hwnd)
          \/ \E r \in IF hwnd \in Movable THEN Placements ELSE {Anywhere} :
               UserMoves(hwnd, r) \/ Created(hwnd, r)
          \/ Dies(hwnd)
     /\ UNCHANGED <<layout, hwnd_table, call, calls>>

Spec == Init /\ [][Next]_vars

-----------------------------------------------------------------------------
(* Properties                                                              *)

Origin == VirtualScreen.x = 0 /\ VirtualScreen.y = 0

\* Toggled off again, in whatever order, a window is where it was (window.lua:83-121,
\* manual.xml:671), if the user has left it alone, if each toggle found the one
\* before done, and if it was within a virtual screen that begins at 0, 0.
RestoreIsExact ==
  \A hwnd \in alive :
    /\ At("idle") /\ Still(hwnd) /\ before[hwnd] # nil /\ Origin
    /\ ~Zoomed(hwnd, "v") /\ ~Zoomed(hwnd, "h")
    /\ before[hwnd].x >= 0 /\ before[hwnd].y >= 0
    => placement[hwnd] = before[hwnd]

\* A window that was moved to another monitor, or visibly, is within its work area
\* if it is not too large for it (window.lua:128-176, manual.xml:718-723); if the
\* virtual screen begins at 0, 0, again.
Inside(r, m) == m.x <= r.x /\ m.y <= r.y /\ Right(r) <= Right(m) /\ Bottom(r) <= Bottom(m)

MovedInside ==
  \A hwnd \in alive :
    /\ At("idle") /\ Still(hwnd) /\ goal[hwnd] # nil /\ Origin
    /\ "arguments" \notin DOMAIN goal[hwnd]
    /\ placement[hwnd].w <= layout[goal[hwnd].m].workarea.w
    /\ placement[hwnd].h <= layout[goal[hwnd].m].workarea.h
    => Inside(placement[hwnd], layout[goal[hwnd].m].workarea)

\* Moved by 0 or -1 from an edge of its monitor or of the virtual screen, a window
\* is at that edge; moved by 0 from the centre, it is in the middle
\* (window.lua:25-71).
Reaches(t, d, at, size, m, mw) ==
  ~t.percent => /\ t.coordinate = "a" /\ d = 0 => at = m
                /\ t.coordinate = "a" /\ d = -1 => at + size = m + mw
                /\ t.coordinate = "c" /\ d = 0 => (at - m) - ((m + mw) - (at + size)) \in -1..1

SnapsToEdges ==
  \A hwnd \in alive :
    At("idle") /\ Still(hwnd) /\ goal[hwnd] # nil /\ "arguments" \in DOMAIN goal[hwnd]
    => LET a == goal[hwnd].arguments
           r == placement[hwnd]
           Area(t) == IF t.vscreen THEN VirtualScreen ELSE layout[goal[hwnd].m].workarea
       IN  /\ Reaches(a.tx, a.dx, r.x, r.w, Area(a.tx).x, Area(a.tx).w)
           /\ Reaches(a.ty, a.dy, r.y, r.h, Area(a.ty).y, Area(a.ty).h)

\* Wherever a window was moved, it has come to where it was asked to be.
MovesArrive == MovedInside /\ SnapsToEdges

=============================================================================
