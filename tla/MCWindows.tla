----------------------------- MODULE MCWindows -----------------------------
(* Two windows; two monitors side by side, the primary one, with a bar above  *)
(* its work area, on either side.                                            *)
EXTENDS Windows, TLC

CONSTANTS h1, h2, mark

MCKey == {<<"v", "zoomedp">>, <<"v", "workarea">>, <<"h", "zoomedp">>, <<"h", "workarea">>, mark}

Screen(x, y, w, h, bar) ==
  [placement |-> Rect(x, y, w, h), workarea |-> Rect(x, y + bar, w, h - bar)]

MCLayouts == {<<Screen(0, 0, 4, 4, 1), Screen(4, 0, 3, 3, 0)>>,
              <<Screen(0, 0, 4, 4, 1), Screen(-3, 0, 3, 3, 0)>>}

MCCost == [toggle |-> 1, move |-> 2, property |-> 1, early |-> 1]

MCPlacements == {Rect(3, 2, 2, 1), Rect(-1, 0, 5, 3)}

Snap(cx, dx, cy, dy) ==
  [tx |-> [coordinate |-> cx, vscreen |-> FALSE, percent |-> FALSE], dx |-> dx,
   ty |-> [coordinate |-> cy, vscreen |-> FALSE, percent |-> FALSE], dy |-> dy]

MCMoves == {Snap("a", -1, "c", 0), Snap("c", 0, "a", -1),
            [Absolute(Rect(50, -1, 0, 0)) EXCEPT !.tx.percent = TRUE]}

=============================================================================
