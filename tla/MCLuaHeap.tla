----------------------------- MODULE MCLuaHeap -----------------------------
(***************************************************************************)
(* Casts that bring together what the collector treats in its own way.     *)
(***************************************************************************)
EXTENDS LuaHeap

MCMode == [G |-> {}, t1 |-> {}, t2 |-> {}, wk |-> {"k"}, wv |-> {"v"}, wkv |-> {"k", "v"}]
MCBucket == [s1 |-> 1, s2 |-> 2]

With(n, sets) == {[objects |-> c, registers |-> n] : c \in sets}
MCCasts ==
  With(2, {{"c1", "u1"}, {"t1", "s1"}})
    \cup With(1, {{"t1", "t2"}, {"c1", "u1", "co"}, {"c1", "c2", "u1"},
                  {"wv", "d1"}, {"wk", "d1"}, {"wkv", "s2"}, {"d1", "d2"}, {"d1", "d3"}})
=============================================================================
