--------------------------- MODULE HotkeyBindings ---------------------------
(* What ui.hotkey promises its users (manual.xml:571-581): a key is bound   *)
(* once, to one action, and stays bound to it until all are reset.          *)
CONSTANTS Combo, Action

VARIABLE bound   (* the bound keys, each with its action *)

Init == bound = [c \in {} |-> Action]

Bind(c, a) ==
  /\ c \notin DOMAIN bound
  /\ bound' = [k \in DOMAIN bound \cup {c} |-> IF k = c THEN a ELSE bound[k]]

Reset == bound' = [c \in {} |-> Action]

Next == Reset \/ \E c \in Combo, a \in Action : Bind(c, a)

Spec == Init /\ [][Next]_bound

=============================================================================
