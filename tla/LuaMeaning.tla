---------------------------- MODULE LuaMeaning ----------------------------
(***************************************************************************)
(* What a Lua program means, from the reference manual that comes with the *)
(* source (src/lua/doc/manual.html, sections 2.4 to 2.8 and 2.11), over    *)
(* syntax trees: the specification that compiler and machine together      *)
(* (LuaParser, LuaExecute) have to meet.  Nothing here knows of registers, *)
(* jumps or frames: a local variable is a cell of the store, fresh each    *)
(* time its declaration runs, and evaluation is one recursion over the     *)
(* tree.  A result is [st, sig, v]: the store, how evaluation ended ("ok", *)
(* "break", "return", "tail", "error", "escape") and the values.           *)
(*                                                                         *)
(* The store: cells, tabs (tables) and funs as they are made, out (what    *)
(* the program showed), depth (of calls) and yielder: the loop that the    *)
(* values of coroutine.yield go to, <<>> if yield is not allowed.          *)
(***************************************************************************)
EXTENDS LuaMatching

CONSTANTS
    Order,      \* the strings programs compare, ranked as strcoll does
    DepthLimit  \* calls nested deeper than any program that ends nests them

OK(st, v) == [st |-> st, sig |-> "ok", v |-> v]
Raised(st, v) ==
  [st |-> st, sig |-> "error",
   v |-> <<IF ttype(v) \in {"string", "number"} THEN Str("error") ELSE v>>]
Failed(st) == Raised(st, Str("error"))
Then(r, F(_)) == IF r.sig = "ok" THEN F(r) ELSE r
One(vs) == IF vs = <<>> THEN Nil ELSE vs[1]
Adjusted(vs, n) == [j \in 1..n |-> IF j <= Len(vs) THEN vs[j] ELSE Nil]

Globals == <<"table", 1>>
IsTab(v) == ttype(v) = "table"
IsFunc(v) == ttype(v) = "function"
Raw(st, t, k) == IF k \in DOMAIN st.tabs[t[2]].map THEN st.tabs[t[2]].map[k] ELSE Nil
Set(st, t, k, v) == [st EXCEPT !.tabs[t[2]].map = (k :> v) @@ @]
NewTab(st, map) == [st EXCEPT !.tabs = Append(@, [map |-> map, meta |-> Nil])]
metatable(st, v) == IF IsTab(v) THEN st.tabs[v[2]].meta ELSE Nil
Handler(st, v, event) ==
  IF metatable(st, v) = Nil THEN Nil ELSE Raw(st, metatable(st, v), Str(event))
getbinhandler(st, a, b, event) ==
  IF Handler(st, a, event) # Nil THEN Handler(st, a, event) ELSE Handler(st, b, event)

(* env: the cells of the variables in scope and the extra arguments.       *)
Declare(st, env, names, vs) ==
  LET n == Len(st.cells)
      given == Adjusted(vs, Len(names))
      last(x) == CHOOSE j \in 1..Len(names) :
                    names[j] = x /\ \A k \in j + 1..Len(names) : names[k] # x
      scope == [x \in {names[j] : j \in 1..Len(names)} |-> n + last(x)]
  IN [st |-> [st EXCEPT !.cells = @ \o given], env |-> [env EXCEPT !.vars = scope @@ @]]

RECURSIVE Eval(_, _, _)
RECURSIVE EvalList(_, _, _)
RECURSIVE Apply(_, _, _)
RECURSIVE Index(_, _, _, _)
RECURSIVE SetIndex(_, _, _, _, _)
RECURSIVE Block(_, _, _)
RECURSIVE Loop(_, _, _, _)

(* A call that C code makes: yielding out of it is not allowed.            *)
ApplyC(st, f, args) ==
  LET r == Apply([st EXCEPT !.yielder = <<>>], f, args)
  IN [r EXCEPT !.st.yielder = st.yielder]
Handle1(st, f, args) == Then(ApplyC(st, f, args), LAMBDA r : OK(r.st, <<One(r.v)>>))

-----------------------------------------------------------------------------
(* The events of section 2.8.  seen: the values an access came through.    *)

Index(st, t, k, seen) ==
  LET h == Handler(st, t, "__index")
  IN IF t \in seen THEN Failed(st)
     ELSE IF IsTab(t) /\ (Raw(st, t, k) # Nil \/ h = Nil) THEN OK(st, <<Raw(st, t, k)>>)
     ELSE IF h = Nil THEN Failed(st)
     ELSE IF IsFunc(h) THEN Handle1(st, h, <<t, k>>) ELSE Index(st, h, k, seen \cup {t})

SetIndex(st, t, k, v, seen) ==
  LET h == Handler(st, t, "__newindex")
  IN IF t \in seen \/ (IsTab(t) /\ k = Nil) THEN Failed(st)
     ELSE IF IsTab(t) /\ (Raw(st, t, k) # Nil \/ h = Nil) THEN OK(Set(st, t, k, v), <<>>)
     ELSE IF h = Nil THEN Failed(st)
     ELSE IF IsFunc(h) THEN ApplyC(st, h, <<t, k, v>>)
     ELSE SetIndex(st, h, k, v, seen \cup {t})

Numeric == [op \in {"+", "-", "*", "/", "%", "^"} |->
  CASE op = "+" -> <<"ADD", "__add">> [] op = "-" -> <<"SUB", "__sub">>
    [] op = "*" -> <<"MUL", "__mul">> [] op = "/" -> <<"DIV", "__div">>
    [] op = "%" -> <<"MOD", "__mod">> [] op = "^" -> <<"POW", "__pow">>]

ByHandler(st, a, b, event) ==
  LET h == getbinhandler(st, a, b, event)
  IN IF IsFunc(h) THEN Handle1(st, h, <<a, b>>) ELSE Failed(st)

Arithmetic(st, op, a, b) ==
  IF IsNum(a) /\ IsNum(b) THEN OK(st, <<Num(NumArith(Numeric[op][1], a[2], b[2]))>>)
  ELSE ByHandler(st, a, b, Numeric[op][2])

Text(v) == IF IsNum(v) THEN ToString(v[2]) ELSE v[2]
Concatenated(st, a, b) ==
  IF {ttype(a), ttype(b)} \subseteq {"string", "number"} THEN OK(st, <<Str(Text(a) \o Text(b))>>)
  ELSE ByHandler(st, a, b, "__concat")

getcomphandler(st, a, b, event) ==
  LET h == Handler(st, a, event)
  IN IF ttype(a) = ttype(b) /\ h = Handler(st, b, event) THEN h ELSE Nil
Truth(r, wanted) == Then(r, LAMBDA x : OK(x.st, <<Bool(~l_isfalse(One(x.v)) = wanted)>>))

Equal(st, a, b) ==
  LET h == getcomphandler(st, a, b, "__eq")
  IN IF a = b \/ ~IsTab(a) \/ ~IsTab(b) \/ h = Nil THEN OK(st, <<Bool(a = b)>>)
     ELSE Truth(ApplyC(st, h, <<a, b>>), TRUE)

Less(st, a, b, orequal) ==
  LET le == getcomphandler(st, a, b, "__le")
      lt == getcomphandler(st, b, a, "__lt")
      h == getcomphandler(st, a, b, "__lt")
  IN CASE ttype(a) # ttype(b) -> Failed(st)
       [] IsNum(a) /\ IsNum(b) -> OK(st, <<Bool(a[2] < b[2] \/ (orequal /\ a[2] = b[2]))>>)
       [] ttype(a) = "string" /\ ttype(b) = "string" ->
            OK(st, <<Bool(Order[a[2]] < Order[b[2]] \/ (orequal /\ Order[a[2]] = Order[b[2]]))>>)
       [] OTHER -> IF ~orequal /\ h # Nil THEN Truth(ApplyC(st, h, <<a, b>>), TRUE)
                   ELSE IF orequal /\ le # Nil THEN Truth(ApplyC(st, le, <<a, b>>), TRUE)
                   ELSE IF orequal /\ lt # Nil THEN Truth(ApplyC(st, lt, <<b, a>>), FALSE)
                   ELSE Failed(st)

RECURSIVE Count(_, _, _)
Count(st, t, n) == IF Raw(st, t, Num(n + 1)) = Nil THEN n ELSE Count(st, t, n + 1)
LengthOf(st, v) ==
  CASE IsTab(v) -> OK(st, <<Num(Count(st, v, 0))>>)
    [] ttype(v) = "string" -> OK(st, <<Num(Len(v[2]))>>)
    [] OTHER -> Failed(st)

Binary(st, op, a, b) ==
  CASE op \in DOMAIN Numeric -> Arithmetic(st, op, a, b)
    [] op = ".." -> Concatenated(st, a, b)
    [] op = "==" -> Equal(st, a, b)
    [] op = "~=" -> Then(Equal(st, a, b), LAMBDA r : OK(r.st, <<Bool(r.v = <<Bool(FALSE)>>)>>))
    [] op = "<" -> Less(st, a, b, FALSE)
    [] op = "<=" -> Less(st, a, b, TRUE)
    [] op = ">" -> Less(st, b, a, FALSE)
    [] op = ">=" -> Less(st, b, a, TRUE)
Unary(st, op, v) ==
  CASE op = "not" -> OK(st, <<Bool(l_isfalse(v))>>)
    [] op = "#" -> LengthOf(st, v)
    [] op = "-" -> (IF IsNum(v) THEN OK(st, <<Num(-v[2])>>) ELSE ByHandler(st, v, v, "__unm"))

-----------------------------------------------------------------------------
(* Functions. *)

(* coroutine.yield: the loop that drives the coroutine takes the values    *)
(* and gives its control variable back.  If it is left, so is everything   *)
(* up to the loop.                                                         *)
Yield(st, args) ==
  LET y == st.yielder[1]
      d == Declare([st EXCEPT !.yielder = y.outer], y.env, y.names, args)
      r == Block(d.st, d.env, y.body)
      escape(s, how, v) == [st |-> s, sig |-> "escape", v |-> <<how, v>>]
  IN CASE st.yielder = <<>> -> Failed(st)
       [] st.yielder # <<>> /\ One(args) = Nil -> escape(st, "break", <<>>)
       [] OTHER -> IF r.sig = "ok" THEN OK([r.st EXCEPT !.yielder = st.yielder], <<Nil, args[1]>>)
                   ELSE escape(r.st, r.sig, r.v)

(* f called protected; what it returns or the error comes after a flag.    *)
Protected(st, f, args) ==
  LET r == ApplyC(st, f, args)
  IN IF r.sig = "ok" THEN OK(r.st, <<Bool(TRUE)>> \o r.v)
     ELSE IF r.sig = "error" THEN OK([r.st EXCEPT !.depth = st.depth], <<Bool(FALSE)>> \o r.v)
     ELSE r

(* The functions of the library that programs use (5.1 and 5.5).           *)
Library == {"out", "error", "setmetatable", "pcall", "yield", "type", "rawequal", "rawget", "rawset",
            "next", "pairs", "ipairs", "ipairsaux", "assert", "unpack", "select", "getmetatable",
            "insert", "remove", "maxn", "concat", "sort", "getn", "foreach", "foreachi", "len", "sub",
            "reverse", "lower", "upper", "rep", "byte", "char", "find", "match", "gmatch",
            "gsub"}
Nth(args, j) == IF j <= Len(args) THEN args[j] ELSE Nil
Function(st, name) == <<"function", CHOOSE j \in DOMAIN st.funs : st.funs[j].kind = name>>

(* A traversal is in some order; that of a table to which nothing is added *)
(* does not change.                                                        *)
RECURSIVE Listed(_)
Listed(S) == IF S = {} THEN <<>> ELSE LET x == CHOOSE y \in S : TRUE IN <<x>> \o Listed(S \ {x})
After(st, map, k) ==
  LET keys == Listed(DOMAIN map)
      from == IF k = Nil THEN 0 ELSE CHOOSE j \in DOMAIN keys : keys[j] = k
      later == {j \in DOMAIN keys : j > from /\ map[keys[j]] # Nil}
      next == CHOOSE j \in later : \A x \in later : j <= x
  IN IF k # Nil /\ k \notin DOMAIN map THEN Failed(st)
     ELSE OK(st, IF later = {} THEN <<Nil>> ELSE <<keys[next], map[keys[next]]>>)

List(st, t, from, to) == [j \in 1..(IF to < from THEN 0 ELSE to - from + 1) |-> Raw(st, t, Num(from + j - 1))]
Relisted(st, t, vs, n) ==
  [st EXCEPT !.tabs[t[2]].map = [k \in {Num(j) : j \in 1..n} |-> Nth(vs, k[2])] @@ @]
Concatenation(vs, sep) ==
  LET text[j \in 0..Len(vs)] ==
        IF j = 0 THEN "" ELSE text[j - 1] \o (IF j = 1 THEN "" ELSE sep) \o Text(vs[j])
  IN Str(text[Len(vs)])
Ordered(vs) ==
  SortSeq(vs, LAMBDA a, b : IF IsNum(a) THEN a[2] < b[2] ELSE Order[a[2]] < Order[b[2]])

TableLibrary(st, name, args) ==
  LET t == args[1]
      n == Count(st, t, 0)
      list == List(st, t, 1, n)
      at == IF Len(args) = 3 THEN args[2][2] ELSE n + 1
      from == IF Len(args) = 2 THEN args[2][2] ELSE n
      without == SubSeq(list, 1, from - 1) \o SubSeq(list, from + 1, n)
      keys == {k \in DOMAIN st.tabs[t[2]].map : IsNum(k) /\ k[2] > 0 /\ Raw(st, t, k) # Nil}
  IN CASE name = "insert" ->
            OK(Relisted(st, t, SubSeq(list, 1, at - 1) \o <<args[Len(args)]>> \o SubSeq(list, at, n), n + 1), <<>>)
       [] name = "remove" ->
            OK(Relisted(st, t, without, n), IF n = 0 THEN <<>> ELSE <<list[from]>>)
       [] name = "maxn" ->
            OK(st, <<IF keys = {} THEN Num(0) ELSE CHOOSE k \in keys : \A x \in keys : x[2] <= k[2]>>)
       [] name = "concat" -> OK(st, <<Concatenation(list, IF Len(args) = 2 THEN args[2][2] ELSE "")>>)
       [] name = "sort" ->
            IF Len(args) > 1 THEN Failed(st) ELSE OK(Relisted(st, t, Ordered(list), n), <<>>)
       [] name = "getn" -> OK(st, <<Num(n)>>)

(* foreach and foreachi: a loop over pairs or ipairs (7.2) that ends with  *)
(* the first result of its body.                                           *)
RECURSIVE Each(_, _, _, _, _)
Each(st, f, t, keys, k) ==
  IF k > Len(keys) THEN OK(st, <<>>)
  ELSE Then(Handle1(st, f, <<keys[k], Raw(st, t, keys[k])>>), LAMBDA r :
         IF r.v[1] = Nil THEN Each(r.st, f, t, keys, k + 1) ELSE r)
Foreach(st, name, args) ==
  LET t == args[1]
      keys == IF name = "foreachi" THEN [j \in 1..Count(st, t, 0) |-> Num(j)]
              ELSE Listed({k \in DOMAIN st.tabs[t[2]].map : Raw(st, t, k) # Nil})
  IN IF ~IsTab(t) \/ ~IsFunc(Nth(args, 2)) THEN Failed(st) ELSE Each(st, args[2], t, keys, 1)

(* The string library (5.4). *)
Backwards(pos, len) == IF pos < 0 THEN len + pos + 1 ELSE pos
Mapped(s, F(_)) ==
  LET text[j \in 0..Len(s)] == IF j = 0 THEN "" ELSE text[j - 1] \o F(CharAt(s, j)) IN text[Len(s)]
Within(s, from, to) == {k \in 1..Len(s) : k >= Backwards(from, Len(s)) /\ k <= Backwards(to, Len(s))}

(* A replacement string: %0 is the match, %n its capture n, %c is c.       *)
RECURSIVE Expanded(_, _, _)
Expanded(repl, k, values) ==
  LET c == CharAt(repl, k + 1)
      digit == Characters[c].code - 48
  IN CASE k > Len(repl) -> ""
       [] CharAt(repl, k) # "%" -> CharAt(repl, k) \o Expanded(repl, k + 1, values)
       [] OTHER -> (IF digit \in DOMAIN values THEN Text(values[digit]) ELSE c) \o Expanded(repl, k + 2, values)
Asked(repl) ==
  {Characters[CharAt(repl, k + 1)].code - 48 : k \in {x \in 1..Len(repl) - 1 : CharAt(repl, x) = "%"}} \cap 1..9
Replacement(st, src, r, repl) ==
  LET captured == Captured(src, r)
      values == [d \in 0..Len(captured) |-> IF d = 0 THEN Whole(src, r) ELSE captured[d]]
  IN CASE IsTab(repl) -> OK(st, <<Raw(st, repl, captured[1])>>)
       [] IsFunc(repl) -> Handle1(st, repl, captured)
       [] repl = Nil \/ ttype(repl) = "boolean" -> Failed(st)
       [] OTHER -> IF Asked(Text(repl)) \subseteq DOMAIN values THEN OK(st, <<Str(Expanded(Text(repl), 1, values))>>)
                   ELSE Failed(st)
RECURSIVE Substitution(_, _, _, _, _)
Substitution(st, src, rs, repl, done) ==     \* done: the text so far and where it ends
  IF rs = <<>> THEN OK(st, <<Str(done[1] \o Cut(src, done[2], Len(src)))>>)
  ELSE Then(Replacement(st, src, rs[1], repl), LAMBDA r :
         LET text == IF l_isfalse(r.v[1]) THEN Whole(src, rs[1])[2] ELSE Text(r.v[1])
         IN IF ~l_isfalse(r.v[1]) /\ ttype(r.v[1]) \notin {"string", "number"} THEN Failed(r.st)
            ELSE Substitution(r.st, src, Tail(rs), repl,
                              <<done[1] \o Cut(src, done[2], rs[1].from - 1) \o text, rs[1].to>>))

Start(s, init) ==
  Least({Len(s) + 1, IF Backwards(init, Len(s)) < 1 THEN 1 ELSE Backwards(init, Len(s))})
WithPattern(st, name, s, args) ==
  LET pattern == PatternOf[Text(args[2])]
      r == FirstMatch(s, pattern, Start(s, IF IsNum(Nth(args, 3)) THEN args[3][2] ELSE 1))
      all == MatchesFrom(s, pattern, 1)
      some == SubSeq(all, 1, Least({Len(all), IF Len(args) > 3 THEN args[4][2] ELSE Len(all)}))
      iterator == [kind |-> "matches", left |-> [j \in 1..Len(all) |-> Captured(s, all[j])]]
  IN CASE name = "gmatch" -> OK([st EXCEPT !.funs = Append(@, iterator)], <<<<"function", Len(st.funs) + 1>>>>)
       [] ~pattern.ok -> Failed(st)
       [] name = "gsub" -> Then(Substitution(st, s, some, Nth(args, 3), <<"", 1>>), LAMBDA x :
                             OK(x.st, x.v \o <<Num(Len(some))>>))
       [] r = <<>> -> OK(st, <<Nil>>)
       [] name = "find" -> OK(st, <<Num(r[1].from), Num(r[1].to - 1)>> \o r[1].caps)
       [] name = "match" -> OK(st, Captured(s, r[1]))
PlainFind(st, s, p, from) ==
  LET found == {k \in Start(s, from)..Len(s) + 1 : Begins(s, p, k)}
  IN OK(st, IF found = {} THEN <<Nil>> ELSE <<Num(Least(found)), Num(Least(found) + Len(p) - 1)>>)

StringLibrary(st, name, args) ==
  LET s == Text(args[1])
      given == IF Len(args) > 1 THEN args[2][2] ELSE 1
      last == IF Len(args) > 2 THEN args[3][2] ELSE IF name = "sub" THEN -1 ELSE given
      part == SetToSortSeq(Within(s, given, last), <)
      reversed[j \in 0..Len(s)] == IF j = 0 THEN "" ELSE CharAt(s, j) \o reversed[j - 1]
  IN CASE name = "len" -> OK(st, <<Num(Len(s))>>)
       [] name = "reverse" -> OK(st, <<Str(reversed[Len(s)])>>)
       [] name = "lower" -> OK(st, <<Str(Mapped(s, LAMBDA c : IF "u" \in Characters[c].classes THEN Characters[c].other ELSE c))>>)
       [] name = "upper" -> OK(st, <<Str(Mapped(s, LAMBDA c : IF "l" \in Characters[c].classes THEN Characters[c].other ELSE c))>>)
       [] name = "rep" -> OK(st, <<Concatenation([j \in 1..(IF given < 0 THEN 0 ELSE given) |-> args[1]], "")>>)
       [] name = "sub" -> OK(st, <<Str(IF part = <<>> THEN "" ELSE SubSeq(s, part[1], part[Len(part)]))>>)
       [] name = "byte" -> OK(st, [j \in 1..Len(part) |-> Num(Characters[CharAt(s, part[j])].code)])
       [] name = "find" /\ Len(args) = 4 /\ ~l_isfalse(args[4]) -> PlainFind(st, s, Text(args[2]), last)
       [] OTHER -> WithPattern(st, name, s, args)
CharLibrary(st, args) ==
  OK(st, <<Concatenation([j \in 1..Len(args) |->
             Str(CHOOSE c \in DOMAIN Characters : Characters[c].code = args[j][2])], "")>>)

(* What string.gmatch gave: the next captures. *)
NextMatch(st, f) ==
  LET left == st.funs[f[2]].left
  IN IF left = <<>> THEN OK(st, <<>>) ELSE OK([st EXCEPT !.funs[f[2]].left = Tail(@)], Head(left))

ApplyLibrary(st, name, args) ==
  CASE name = "out" -> OK([st EXCEPT !.out = Append(@, args)], <<>>)
    [] name = "error" -> Raised(st, One(args))
    [] name = "type" -> IF args = <<>> THEN Failed(st) ELSE OK(st, <<Str(ttype(args[1]))>>)
    [] name = "rawequal" -> OK(st, <<Bool(args[1] = args[2])>>)
    [] name = "assert" -> IF l_isfalse(One(args)) THEN Failed(st) ELSE OK(st, args)
    [] name = "select" ->
         (CASE args[1] = Str("#") -> OK(st, <<Num(Len(args) - 1)>>)
            [] IsNum(args[1]) /\ args[1][2] > 0 -> OK(st, SubSeq(args, args[1][2] + 1, Len(args)))
            [] IsNum(args[1]) /\ 0 - args[1][2] \in 1..Len(args) - 1 ->
                 OK(st, SubSeq(args, Len(args) + args[1][2] + 1, Len(args)))
            [] OTHER -> Failed(st))
    [] name \in {"rawget", "rawset", "next", "pairs", "ipairs", "setmetatable", "insert", "remove"}
         /\ ~IsTab(One(args)) -> Failed(st)
    [] name = "rawget" -> OK(st, <<Raw(st, args[1], args[2])>>)
    [] name = "rawset" ->
         IF args[2] = Nil THEN Failed(st) ELSE OK(Set(st, args[1], args[2], args[3]), <<args[1]>>)
    [] name = "next" -> After(st, st.tabs[args[1][2]].map, Nth(args, 2))
    [] name = "pairs" -> OK(st, <<Function(st, "next"), args[1], Nil>>)
    [] name = "ipairs" -> OK(st, <<Function(st, "ipairsaux"), args[1], Num(0)>>)
    [] name = "ipairsaux" ->
         LET k == Num(args[2][2] + 1)
         IN OK(st, IF Raw(st, args[1], k) = Nil THEN <<>> ELSE <<k, Raw(st, args[1], k)>>)
    [] name = "unpack" ->
         OK(st, List(st, args[1], IF Len(args) > 1 THEN args[2][2] ELSE 1,
                     IF Len(args) > 2 THEN args[3][2] ELSE Count(st, args[1], 0)))
    [] name = "getmetatable" ->
         LET field == Handler(st, args[1], "__metatable")
         IN OK(st, <<IF field = Nil THEN metatable(st, args[1]) ELSE field>>)
    [] name = "setmetatable" ->
         IF Handler(st, args[1], "__metatable") # Nil THEN Failed(st)
         ELSE OK([st EXCEPT !.tabs[args[1][2]].meta = args[2]], <<args[1]>>)
    [] name \in {"insert", "remove", "maxn", "concat", "sort", "getn"} -> TableLibrary(st, name, args)
    [] name \in {"foreach", "foreachi"} -> Foreach(st, name, args)
    [] name = "char" -> CharLibrary(st, args)
    [] name \in {"len", "sub", "reverse", "lower", "upper", "rep", "byte", "find", "match", "gmatch", "gsub"} ->
         IF ttype(One(args)) \notin {"string", "number"} THEN Failed(st) ELSE StringLibrary(st, name, args)
    [] name = "pcall" -> IF args = <<>> THEN Failed(st) ELSE Protected(st, args[1], Tail(args))
    [] name = "yield" -> Yield(st, args)

ApplyClosure(st, c, args) ==
  LET n == Len(c.params)
      extra == SubSeq(args, n + 1, Len(args))
      arg == NewTab(st, (Str("n") :> Num(Len(extra)))
                        @@ [k \in {Num(j) : j \in 1..Len(extra)} |-> extra[k[2]]])
      withargs == c.kind = "arg"
      names == c.params \o (IF withargs THEN <<"arg">> ELSE <<>>)
      d == Declare(IF withargs THEN arg ELSE st, [vars |-> c.vars, extra |-> extra], names,
                   Adjusted(args, n) \o (IF withargs THEN <<<<"table", Len(arg.tabs)>>>> ELSE <<>>))
      r == Block([d.st EXCEPT !.depth = @ + 1], d.env, c.body)
      back == [r.st EXCEPT !.depth = st.depth]
  IN IF st.depth = DepthLimit THEN Failed(st)
     ELSE CASE r.sig = "ok" -> OK(back, <<>>)
            [] r.sig = "return" -> OK(back, r.v)
            [] r.sig = "tail" -> Apply(back, r.v[1], Tail(r.v))
            [] OTHER -> r

Apply(st, f, args) ==
  LET h == Handler(st, f, "__call")
  IN IF ~IsFunc(f) THEN (IF IsFunc(h) THEN Apply(st, h, <<f>> \o args) ELSE Failed(st))
     ELSE IF st.funs[f[2]].kind = "matches" THEN NextMatch(st, f)
     ELSE IF st.funs[f[2]].kind \in Library THEN ApplyLibrary(st, st.funs[f[2]].kind, args)
     ELSE ApplyClosure(st, st.funs[f[2]], args)

-----------------------------------------------------------------------------
(* Expressions. *)

Eval1(st, env, e) == Then(Eval(st, env, e), LAMBDA r : OK(r.st, <<One(r.v)>>))

EvalList(st, env, es) ==
  IF es = <<>> THEN OK(st, <<>>)
  ELSE IF Len(es) = 1 THEN Eval(st, env, es[1])
  ELSE Then(Eval1(st, env, es[1]), LAMBDA h :
         Then(EvalList(h.st, env, Tail(es)), LAMBDA t : OK(t.st, h.v \o t.v)))

(* Constructors: items <<"item", e>> in a row, fields <<"field", k, e>>.   *)
RECURSIVE Fill(_, _, _, _, _)
Fill(st, env, t, fields, n) ==
  LET f == Head(fields)
      last == Len(fields) = 1
      put(s, vs) == [s EXCEPT !.tabs[t[2]].map =
                       [k \in {Num(n + j) : j \in 1..Len(vs)} |-> vs[k[2] - n]] @@ @]
  IN IF fields = <<>> THEN OK(st, <<t>>)
     ELSE IF f[1] = "item"
     THEN Then(IF last THEN Eval(st, env, f[2]) ELSE Eval1(st, env, f[2]), LAMBDA r :
            Fill(put(r.st, r.v), env, t, Tail(fields), n + 1))
     ELSE Then(Eval1(st, env, f[2]), LAMBDA k : Then(Eval1(k.st, env, f[3]), LAMBDA v :
            IF k.v[1] = Nil THEN Failed(v.st)
            ELSE Fill(Set(v.st, t, k.v[1], v.v[1]), env, t, Tail(fields), n)))

Closed(st, env, e) ==
  OK([st EXCEPT !.funs = Append(@, [kind |-> e[3], params |-> e[2], body |-> e[4],
                                    vars |-> env.vars])], <<<<"function", Len(st.funs) + 1>>>>)

Eval(st, env, e) ==
  CASE e[1] = "const" -> OK(st, <<e[2]>>)
    [] e[1] = "vararg" -> OK(st, env.extra)
    [] e[1] = "paren" -> Eval1(st, env, e[2])
    [] e[1] = "var" -> IF e[2] \in DOMAIN env.vars THEN OK(st, <<st.cells[env.vars[e[2]]]>>)
                       ELSE Index(st, Globals, Str(e[2]), {})
    [] e[1] = "index" ->
         Then(Eval1(st, env, e[2]), LAMBDA t : Then(Eval1(t.st, env, e[3]), LAMBDA k :
           Index(k.st, t.v[1], k.v[1], {})))
    [] e[1] = "call" ->
         Then(Eval1(st, env, e[2]), LAMBDA f : Then(EvalList(f.st, env, e[3]), LAMBDA a :
           Apply(a.st, f.v[1], a.v)))
    [] e[1] = "method" ->
         Then(Eval1(st, env, e[2]), LAMBDA o : Then(Index(o.st, o.v[1], Str(e[3]), {}), LAMBDA f :
           Then(EvalList(f.st, env, e[4]), LAMBDA a : Apply(a.st, f.v[1], o.v \o a.v))))
    [] e[1] = "function" -> Closed(st, env, e)
    [] e[1] = "table" ->
         LET new == NewTab(st, <<>>) IN Fill(new, env, <<"table", Len(new.tabs)>>, e[2], 0)
    [] e[1] = "and" ->
         Then(Eval1(st, env, e[2]), LAMBDA l : IF l_isfalse(l.v[1]) THEN l ELSE Eval1(l.st, env, e[3]))
    [] e[1] = "or" ->
         Then(Eval1(st, env, e[2]), LAMBDA l : IF l_isfalse(l.v[1]) THEN Eval1(l.st, env, e[3]) ELSE l)
    [] e[1] = "binary" ->
         Then(Eval1(st, env, e[3]), LAMBDA l :
           Then(Eval1(l.st, env, e[4]), LAMBDA r : Binary(r.st, e[2], l.v[1], r.v[1])))
    [] e[1] = "unary" ->
         Then(Eval1(st, env, e[3]), LAMBDA r : Unary(r.st, e[2], r.v[1]))
    [] e[1] \in {"wrapped", "resumed"} ->
         \* a coroutine that runs to its end: no more than a call, or a protected one
         Then(Eval1(st, env, e[2]), LAMBDA f : Then(EvalList(f.st, env, e[3]), LAMBDA a :
           IF e[1] = "wrapped" THEN ApplyC(a.st, f.v[1], a.v) ELSE Protected(a.st, f.v[1], a.v)))

-----------------------------------------------------------------------------
(* Statements. *)

(* The places of an assignment are evaluated before any of them changes.   *)
RECURSIVE Places(_, _, _)
Places(st, env, vs) ==
  IF vs = <<>> THEN OK(st, <<>>)
  ELSE IF Head(vs)[1] = "var"
  THEN Then(Places(st, env, Tail(vs)), LAMBDA r : OK(r.st, <<<<Nil, Nil>>>> \o r.v))
  ELSE Then(Eval1(st, env, Head(vs)[2]), LAMBDA t : Then(Eval1(t.st, env, Head(vs)[3]), LAMBDA k :
         Then(Places(k.st, env, Tail(vs)), LAMBDA r : OK(r.st, <<<<t.v[1], k.v[1]>>>> \o r.v))))
RECURSIVE Assign(_, _, _, _, _)
Assign(st, env, vs, places, vals) ==
  LET n == Len(vs)
      v == vs[n]
      done == IF v[1] # "var" THEN SetIndex(st, places[n][1], places[n][2], vals[n], {})
              ELSE IF v[2] \in DOMAIN env.vars
              THEN OK([st EXCEPT !.cells[env.vars[v[2]]] = vals[n]], <<>>)
              ELSE SetIndex(st, Globals, Str(v[2]), vals[n], {})
  IN IF n = 0 THEN OK(st, <<>>)
     ELSE Then(done, LAMBDA r : Assign(r.st, env, SubSeq(vs, 1, n - 1), places, vals))

Assignment(st, env, vs, es) ==
  Then(Places(st, env, vs), LAMBDA p : Then(EvalList(p.st, env, es), LAMBDA r :
    Assign(r.st, env, vs, p.v, Adjusted(r.v, Len(vs)))))

(* Loops end with any end of their body but "ok"; for "break" that is all. *)
RECURSIVE NumericFor(_, _, _, _, _)
NumericFor(st, env, s, i, bounds) ==
  LET d == Declare(st, env, <<s[2]>>, <<Num(i)>>)
      r == Block(d.st, d.env, s[4])
  IN IF IF bounds[2] > 0 THEN i > bounds[1] ELSE i < bounds[1] THEN OK(st, <<>>)
     ELSE IF r.sig = "break" THEN OK(r.st, <<>>)
     ELSE Then(r, LAMBDA x : NumericFor(x.st, env, s, i + bounds[2], bounds))

RECURSIVE GenericFor(_, _, _, _, _, _)
GenericFor(st, env, s, f, state, control) ==
  Then(ApplyC(st, f, <<state, control>>), LAMBDA n :
    LET d == Declare(n.st, env, s[2], n.v)
        r == Block(d.st, d.env, s[4])
    IN IF One(n.v) = Nil THEN OK(n.st, <<>>)
       ELSE IF r.sig = "break" THEN OK(r.st, <<>>)
       ELSE Then(r, LAMBDA x : GenericFor(x.st, env, s, f, state, n.v[1])))

(* for names in coroutine.wrap(f) do body end *)
Generate(st, env, names, f, body) ==
  Then(Eval1(st, env, f), LAMBDA c :
    LET y == [names |-> names, body |-> body, env |-> env, outer |-> st.yielder]
        r == Apply([c.st EXCEPT !.yielder = <<y>>], c.v[1], <<Nil, Nil>>)
        out == [r.st EXCEPT !.yielder = st.yielder, !.depth = st.depth]
        d == Declare(out, env, names, r.v)
        last == Block(d.st, d.env, body)
    IN CASE r.sig = "escape" -> (IF r.v[1] = "break" THEN OK(out, <<>>)
                                 ELSE [st |-> out, sig |-> r.v[1], v |-> r.v[2]])
         [] r.sig = "ok" -> (IF One(r.v) = Nil THEN OK(out, <<>>)
                             ELSE IF last.sig = "break" THEN OK(last.st, <<>>)
                             ELSE Then(last, LAMBDA x : Failed(x.st)))
         [] OTHER -> [r EXCEPT !.st = out])

Loop(st, env, condition, body) ==
  Then(Eval1(st, env, condition), LAMBDA c :
    LET r == Block(c.st, env, body)
    IN IF l_isfalse(c.v[1]) THEN OK(c.st, <<>>)
       ELSE IF r.sig = "break" THEN OK(r.st, <<>>)
       ELSE Then(r, LAMBDA x : Loop(x.st, env, condition, body)))

(* The body and the condition of a repeat share their scope.               *)
RECURSIVE Repeat(_, _, _)
Repeat(st, env, body) ==
  LET r == Block(st, env, body)
  IN IF r.sig = "break" THEN OK(r.st, <<>>) ELSE Then(r, LAMBDA x : Repeat(x.st, env, body))

RECURSIVE Branch(_, _, _, _)
Branch(st, env, tests, otherwise) ==
  IF tests = <<>> THEN Block(st, env, otherwise)
  ELSE Then(Eval1(st, env, tests[1][1]), LAMBDA c :
         IF l_isfalse(c.v[1]) THEN Branch(c.st, env, Tail(tests), otherwise)
         ELSE Block(c.st, env, tests[1][2]))

(* A return of one call is a tail call. *)
Returned(st, env, es) ==
  IF Len(es) = 1 /\ es[1][1] \in {"call", "method"}
  THEN LET e == es[1]
           receiver == IF e[1] = "call" THEN OK(st, <<>>) ELSE Eval1(st, env, e[2])
           callee(r) == IF e[1] = "call" THEN Eval1(st, env, e[2])
                        ELSE Index(r.st, r.v[1], Str(e[3]), {})
       IN Then(receiver, LAMBDA o : Then(callee(o), LAMBDA f :
            Then(EvalList(f.st, env, e[Len(e)]), LAMBDA a :
              [st |-> a.st, sig |-> "tail", v |-> f.v \o o.v \o a.v])))
  ELSE Then(EvalList(st, env, es), LAMBDA r : [r EXCEPT !.sig = "return"])

Statement(st, env, s) ==
  CASE s[1] = "assign" -> Assignment(st, env, s[2], s[3])
    [] s[1] = "expr" -> Then(Eval(st, env, s[2]), LAMBDA r : OK(r.st, <<>>))
    [] s[1] = "do" -> Block(st, env, s[2])
    [] s[1] = "while" -> Loop(st, env, s[2], s[3])
    [] s[1] = "repeat" -> Repeat(st, env, s[2] \o <<<<"until", s[3]>>>>)
    [] s[1] = "until" -> Then(Eval1(st, env, s[2]), LAMBDA c :
         IF l_isfalse(c.v[1]) THEN OK(c.st, <<>>) ELSE [c EXCEPT !.sig = "break"])
    [] s[1] = "if" -> Branch(st, env, s[2], s[3])
    [] s[1] = "fornum" -> Then(EvalList(st, env, s[3]), LAMBDA b :
         IF \E j \in 1..Len(b.v) : ~IsNum(b.v[j]) THEN Failed(b.st)
         ELSE NumericFor(b.st, env, s, b.v[1][2],
                         <<b.v[2][2], IF Len(b.v) = 3 THEN b.v[3][2] ELSE 1>>))
    [] s[1] = "forin" -> Then(EvalList(st, env, s[3]), LAMBDA b :
         LET g == Adjusted(b.v, 3) IN GenericFor(b.st, env, s, g[1], g[2], g[3]))
    [] s[1] = "generate" -> Generate(st, env, s[2], s[3], s[4])
    [] s[1] = "return" -> Returned(st, env, s[2])
    [] s[1] = "break" -> [st |-> st, sig |-> "break", v |-> <<>>]
    [] s[1] = "defun" -> Then(Closed(st, env, s[3]), LAMBDA f :
         Assignment(f.st, env, <<s[2]>>, <<<<"const", f.v[1]>>>>))

Block(st, env, stats) ==
  LET s == Head(stats)
      rec == Declare(st, env, <<s[2]>>, <<Nil>>)
      f == Closed(rec.st, rec.env, s[3])
  IN IF stats = <<>> THEN OK(st, <<>>)
     ELSE IF s[1] = "local"
     THEN Then(EvalList(st, env, s[3]), LAMBDA r :
            LET d == Declare(r.st, env, s[2], r.v) IN Block(d.st, d.env, Tail(stats)))
     ELSE IF s[1] = "localfunction"
     THEN Block([f.st EXCEPT !.cells[rec.env.vars[s[2]]] = f.v[1]], rec.env, Tail(stats))
     ELSE Then(Statement(st, env, s), LAMBDA r : Block(r.st, env, Tail(stats)))

(* What a chunk does in a state with these tables (the first is that of    *)
(* the globals) and library functions: what it shows, the error it ends in.*)
Meaning(tabs, library, chunk) ==
  LET funs == [j \in 1..Len(library) |-> [kind |-> library[j]]]
      st == [cells |-> <<>>, tabs |-> tabs, funs |-> funs, out |-> <<>>, depth |-> 0,
             yielder |-> <<>>]
      r == ApplyClosure(st, [kind |-> "main", params |-> <<>>, vars |-> <<>>, body |-> chunk],
                        <<>>)
  IN [out |-> r.st.out, err |-> IF r.sig = "error" THEN r.v[1] ELSE Nil]
=============================================================================
