---------------------------- MODULE LuaLibrary ----------------------------
(***************************************************************************)
(* The tables of the machine m (LuaMachine) as the C code reaches them,    *)
(* and the functions of lbaselib.c and ltablib.c that only work on values  *)
(* and tables: each takes its arguments and ends with results (Done) or an *)
(* error (Refused).                                                        *)
(***************************************************************************)
EXTENDS LuaTable, TLC

CONSTANT Collation     \* the strings programs compare, in the order of strcoll

IsTable(v) == ttype(v) = "table"
IsFunction(v) == ttype(v) = "function"

RawGet(m, t, k) == luaH_get(m.tabs[t[2]], k)
RawSet(m, t, k, v) == [m EXCEPT !.tabs[t[2]] = Stored(luaH_set(@, k), v)]
NewTable(m, t) == [m EXCEPT !.tabs = Append(@, t)]
LastTable(m) == <<"table", Len(m.tabs)>>

lua_pushcclosure(m, c, co, upvals) ==
  [m EXCEPT !.funs = Append(@, [c |-> c, co |-> co, p |-> <<>>, upvals |-> upvals])]
LastFunction(m) == <<"function", Len(m.funs)>>

(* The metamethod of a value: only tables have metatables here. *)
metatable(m, v) == IF IsTable(v) THEN m.tabs[v[2]].meta ELSE Nil
luaT_gettmbyobj(m, v, event) ==
  IF metatable(m, v) = Nil THEN Nil ELSE RawGet(m, metatable(m, v), Str(event))

(* The same for a table, whose metatable remembers that it lacks the event.*)
luaT_gettm(m, mt, event, tm) ==
  [m |-> IF tm = Nil THEN [m EXCEPT !.tabs[mt[2]].flags = @ \cup {event}] ELSE m, tm |-> tm]
fasttm(m, t, event) ==
  LET mt == metatable(m, t)
  IN IF mt = Nil \/ event \in m.tabs[mt[2]].flags THEN [m |-> m, tm |-> Nil]
     ELSE luaT_gettm(m, mt, event, RawGet(m, mt, Str(event)))

l_strcmp(a, b) == Collation[a] - Collation[b]

Stringable(v) == ttype(v) \in {"string", "number"}
StringOf(v) == IF IsNum(v) THEN ToString(v[2]) ELSE v[2]
Joined(vs, sep) ==
  FoldLeft(LAMBDA acc, j : (IF j = 1 THEN "" ELSE acc \o sep) \o StringOf(vs[j]), "",
           [j \in 1..Len(vs) |-> j])

-----------------------------------------------------------------------------
(* lbaselib.c. *)

Done(m, vs) == [m |-> m, ok |-> TRUE, v |-> vs, next |-> <<>>]
Refused(m) == [m |-> m, ok |-> FALSE, v |-> <<Str("error")>>, next |-> <<>>]
Arg(args, j) == IF j <= Len(args) THEN args[j] ELSE Nil
Optional(args, j) == Arg(args, j) = Nil \/ IsNum(args[j])
luaL_optint(args, j, default) == IF Arg(args, j) = Nil THEN default ELSE args[j][2]
Span(from, to) == [j \in 1..Max({0, to - from + 1}) |-> from + j - 1]
TableOf(m, args) == m.tabs[args[1][2]]
Elements(t, from, to) == [j \in DOMAIN Span(from, to) |-> luaH_get(t, Num(from + j - 1))]
Primitive(m, name) ==
  <<"function", CHOOSE j \in 1..Len(m.funs) : m.funs[j].c = name>>

luaB_type(m, args) == IF args = <<>> THEN Refused(m) ELSE Done(m, <<Str(ttype(args[1]))>>)
luaB_rawequal(m, args) ==
  IF Len(args) < 2 THEN Refused(m) ELSE Done(m, <<Bool(args[1] = args[2])>>)
luaB_rawget(m, args) ==
  IF ~IsTable(Arg(args, 1)) \/ Len(args) < 2 THEN Refused(m)
  ELSE Done(m, <<RawGet(m, args[1], args[2])>>)
luaB_rawset(m, args) ==
  IF ~IsTable(Arg(args, 1)) \/ Len(args) < 3 THEN Refused(m)
  ELSE IF args[2] = Nil THEN Refused([m EXCEPT !.tabs[args[1][2]].flags = {}])
  ELSE Done(RawSet(m, args[1], args[2], args[3]), <<args[1]>>)
luaB_next(m, args) ==
  LET index == findindex(TableOf(m, args), Arg(args, 2))
  IN IF ~IsTable(Arg(args, 1)) \/ index = -1 THEN Refused(m)
     ELSE Done(m, luaH_next(TableOf(m, args), index))
luaB_pairs(m, args) ==
  IF ~IsTable(Arg(args, 1)) THEN Refused(m) ELSE Done(m, <<Primitive(m, "next"), args[1], Nil>>)
luaB_ipairs(m, args) ==
  IF ~IsTable(Arg(args, 1)) THEN Refused(m)
  ELSE Done(m, <<Primitive(m, "ipairsaux"), args[1], Num(0)>>)
ipairsaux(m, args) ==
  LET next == Num(args[2][2] + 1)
      value == RawGet(m, args[1], next)
  IN IF ~IsNum(Arg(args, 2)) \/ ~IsTable(args[1]) THEN Refused(m)
     ELSE Done(m, IF value = Nil THEN <<>> ELSE <<next, value>>)
luaB_assert(m, args) ==
  IF args = <<>> \/ l_isfalse(args[1]) THEN Refused(m) ELSE Done(m, args)
luaB_unpack(m, args) ==
  LET t == TableOf(m, args)
  IN IF ~IsTable(Arg(args, 1)) \/ ~Optional(args, 2) \/ ~Optional(args, 3) THEN Refused(m)
     ELSE Done(m, Elements(t, luaL_optint(args, 2, 1), luaL_optint(args, 3, luaH_getn(t))))
luaB_select(m, args) ==
  LET n == Len(args)
      given == args[1][2]
      j == IF given < 0 THEN n + given ELSE IF given > n THEN n ELSE given
  IN IF Arg(args, 1) = Str("#") THEN Done(m, <<Num(n - 1)>>)
     ELSE IF ~IsNum(Arg(args, 1)) \/ j < 1 THEN Refused(m) ELSE Done(m, SubSeq(args, j + 1, n))

luaL_getmetafield(m, v, event) == luaT_gettmbyobj(m, v, event)
luaB_getmetatable(m, args) ==
  LET field == luaL_getmetafield(m, args[1], "__metatable")
  IN IF args = <<>> THEN Refused(m)
     ELSE Done(m, <<IF field = Nil THEN metatable(m, args[1]) ELSE field>>)
luaB_setmetatable(m, args) ==
  IF ~IsTable(Arg(args, 1)) \/ Len(args) < 2 \/ ~(IsTable(args[2]) \/ args[2] = Nil)
     \/ luaL_getmetafield(m, args[1], "__metatable") # Nil
  THEN Refused(m)
  ELSE Done([m EXCEPT !.tabs[args[1][2]].meta = args[2]], <<args[1]>>)

-----------------------------------------------------------------------------
(* ltablib.c. *)

rawseti(t, k, v) == Stored(luaH_setnum(t, Num(k)), v)
rawgeti(t, k) == luaH_get(t, Num(k))
Changed(m, args, t, results) == Done([m EXCEPT !.tabs[args[1][2]] = t], results)

RECURSIVE Shifted(_, _, _)
Shifted(t, ks, by) ==
  IF ks = <<>> THEN t
  ELSE Shifted(rawseti(t, ks[1], rawgeti(t, ks[1] + by)), Tail(ks), by)

tinsert(m, args) ==
  LET t == TableOf(m, args)
      up(e, pos) == Shifted(t, Reverse(Span(pos + 1, Max({e, pos}))), -1)
      inserted(e, pos) == Changed(m, args, rawseti(up(e, pos), pos, args[Len(args)]), <<>>)
      at(e) == inserted(e, IF Len(args) = 2 THEN e ELSE args[2][2])
  IN IF ~IsTable(Arg(args, 1)) \/ Len(args) \notin {2, 3} \/ (Len(args) = 3 /\ ~IsNum(args[2]))
     THEN Refused(m)
     ELSE at(luaH_getn(t) + 1)
tremove(m, args) ==
  LET t == TableOf(m, args)
      removed(e, pos) == Changed(m, args, rawseti(Shifted(t, Span(pos, e - 1), 1), e, Nil), <<rawgeti(t, pos)>>)
      at(e) == IF e = 0 THEN Done(m, <<>>) ELSE removed(e, luaL_optint(args, 2, e))
  IN IF ~IsTable(Arg(args, 1)) \/ ~Optional(args, 2) THEN Refused(m) ELSE at(luaH_getn(t))
maxn(m, args) ==
  LET t == TableOf(m, args)
      keys == countint({t.node[p].key : p \in numusehash(t)})
  IN IF ~IsTable(Arg(args, 1)) THEN Refused(m)
     ELSE Done(m, <<Num(Max({0} \cup numusearray(t) \cup keys))>>)
tconcat(m, args) ==
  LET vs == luaB_unpack(m, <<args[1], Arg(args, 3), Arg(args, 4)>>).v
      sep == IF Arg(args, 2) = Nil THEN "" ELSE StringOf(args[2])
  IN IF ~IsTable(Arg(args, 1)) \/ ~Optional(args, 3) \/ ~Optional(args, 4)
        \/ ~(Arg(args, 2) = Nil \/ Stringable(args[2]))
        \/ \E j \in 1..Len(vs) : ~Stringable(vs[j])
     THEN Refused(m)
     ELSE Done(m, <<Str(Joined(vs, sep))>>)

getn(m, args) ==
  IF ~IsTable(Arg(args, 1)) THEN Refused(m) ELSE Done(m, <<Num(luaH_getn(TableOf(m, args)))>>)

(* Quicksort: the median of the first, middle and last element goes next   *)
(* to the end as pivot; the smaller part is sorted first.  Only lists of   *)
(* numbers or of strings are sorted here, and without a function.          *)
lessthan(a, b) == IF IsNum(a) THEN a[2] < b[2] ELSE l_strcmp(a[2], b[2]) < 0
PutThere(t, a, v) == PutAt(t, SlotOf(t, Num(a)), v)
set2(t, a, b) == PutThere(PutThere(t, a, rawgeti(t, b)), b, rawgeti(t, a))     \* both are there
sort_comp(t, a, b) == lessthan(rawgeti(t, a), rawgeti(t, b))

MedianOf(t, l, mid, u) ==
  IF u - l = 1 THEN t
  ELSE IF sort_comp(t, mid, l) THEN set2(t, mid, l)
  ELSE IF sort_comp(t, u, mid) THEN set2(t, mid, u) ELSE t
Median(t, l, u) == MedianOf(IF sort_comp(t, u, l) THEN set2(t, l, u) ELSE t, l, (l + u) \div 2, u)

RECURSIVE Partition(_, _, _, _, _)
PartitionAt(t, pivot, up, down, u) ==
  IF down < up THEN [t |-> t, at |-> up] ELSE Partition(set2(t, up, down), pivot, up, down, u)
Partition(t, pivot, a, b, u) ==
  PartitionAt(t, pivot, Min({k \in a + 1..u : ~lessthan(rawgeti(t, k), pivot)}),
              Max({k \in 1..b - 1 : ~lessthan(pivot, rawgeti(t, k))}), u)
Parted(t, l, mid, u) == Partition(set2(t, mid, u - 1), rawgeti(t, mid), l, u - 1, u)

RECURSIVE auxsort(_, _, _)
Halves(t, l, k, u) ==
  IF k - l < u - k THEN auxsort(auxsort(t, l, k - 1), k + 1, u)
  ELSE auxsort(auxsort(t, k + 1, u), l, k - 1)
Split(p, l, u) == Halves(set2(p.t, u - 1, p.at), l, p.at, u)
auxsort(t, l, u) ==
  IF l >= u THEN t
  ELSE IF u - l <= 2 THEN Median(t, l, u)
  ELSE Split(Parted(Median(t, l, u), l, (l + u) \div 2, u), l, u)
Comparable(vs) == Len(vs) <= 1 \/ \E type \in {"number", "string"} : \A k \in 1..Len(vs) : ttype(vs[k]) = type
sort(m, args) ==
  LET t == TableOf(m, args)
      n == luaH_getn(t)
  IN IF ~IsTable(Arg(args, 1)) \/ Arg(args, 2) # Nil \/ ~Comparable(Elements(t, 1, n)) THEN Refused(m)
     ELSE Changed(m, args, auxsort(t, 1, n), <<>>)

-----------------------------------------------------------------------------
base_funcs(m, name, args) ==
  CASE name = "type" -> luaB_type(m, args)
    [] name = "rawequal" -> luaB_rawequal(m, args)
    [] name = "rawget" -> luaB_rawget(m, args)
    [] name = "rawset" -> luaB_rawset(m, args)
    [] name = "next" -> luaB_next(m, args)
    [] name = "pairs" -> luaB_pairs(m, args)
    [] name = "ipairs" -> luaB_ipairs(m, args)
    [] name = "ipairsaux" -> ipairsaux(m, args)
    [] name = "assert" -> luaB_assert(m, args)
    [] name = "unpack" -> luaB_unpack(m, args)
    [] name = "select" -> luaB_select(m, args)
    [] name = "getmetatable" -> luaB_getmetatable(m, args)
    [] name = "setmetatable" -> luaB_setmetatable(m, args)
    [] name = "insert" -> tinsert(m, args)
    [] name = "remove" -> tremove(m, args)
    [] name = "maxn" -> maxn(m, args)
    [] name = "concat" -> tconcat(m, args)
    [] name = "sort" -> sort(m, args)
    [] name = "getn" -> getn(m, args)
=============================================================================
