------------------------------ MODULE MCUITray ------------------------------
(* UITray with three icons, two of them of one window.                     *)
EXTENDS UITray, TLC

CONSTANTS k1, k2, k3, w1, w2, h, callback

MCOwner == (k1 :> w1) @@ (k2 :> w1) @@ (k3 :> w2)

\* Messages that announce or change an icon, one without an icon handle and one
\* that is refused.
MCNid ==
  [key: Key, uFlags: {{"ICON", "TIP"}}, refused: {FALSE}, hIcon: {h},
   uCallbackMessage: {callback}, szTip: {Empty}, szInfo: {Empty},
   szInfoTitle: {Empty}]
  \cup
  [key: {k1}, uFlags: {{"ICON"}}, refused: {FALSE}, hIcon: {NULL},
   uCallbackMessage: {callback}, szTip: {Empty}, szInfo: {Empty},
   szInfoTitle: {Empty}]
  \cup
  [key: {k3}, uFlags: {{}}, refused: {TRUE}, hIcon: {h},
   uCallbackMessage: {callback}, szTip: {Empty}, szInfo: {Empty},
   szInfoTitle: {Empty}]

=============================================================================
