--------------------------- MODULE MCLuaPrograms ---------------------------
(***************************************************************************)
(* Small programs around each construct of the language, in families that  *)
(* vary what the construct is made of.                                     *)
(***************************************************************************)
EXTENDS LuaPrograms

(* Hashes that collide: the length of a string, the number of a reference. *)
MCHash(key) == IF ttype(key) = "string" THEN Len(key[2]) ELSE key[2]
MCCollation == [a |-> 1, b |-> 2]

(* The LETs keep TLC from expanding these operators into its statistics.  *)
Read(parser(_), chunk) == parser(chunk)
MCCompiled(chunk) == LET r == Read(Compiler!luaY_parser, chunk) IN r
Called2(f(_, _), x, y) == f(x, y)
MCCFunction(mm, called) == LET r == Called2(Libraries, mm, called) IN r
MCMeans(tabs, library, tree) == LET r == Manual!Meaning(tabs, library, tree) IN r

v(x) == <<"var", x>>
n(k) == <<"const", Num(k)>>
s(x) == <<"const", Str(x)>>
nil == <<"const", Nil>>
yes == <<"const", Bool(TRUE)>>
no == <<"const", Bool(FALSE)>>
dots == <<"vararg">>
bin(o, x, y) == <<"binary", o, x, y>>
call(f, es) == <<"call", f, es>>
get(t, k) == <<"index", t, k>>
fn(ps, b) == <<"function", ps, "fixed", b>>
table(fs) == <<"table", fs>>
local(ns, es) == <<"local", ns, es>>
set(vs, es) == <<"assign", vs, es>>
do(e) == <<"expr", e>>
out(es) == do(call(v("out"), es))
ret(es) == <<"return", es>>
if(c, b, otherwise) == <<"if", <<<<c, b>>>>, otherwise>>
Item(e) == <<"item", e>>
KeyVal(k, e) == <<"field", k, e>>
pcall(es) == call(v("pcall"), es)
yield(es) == call(get(v("coroutine"), s("yield")), es)
In(w, ps) == {[program |-> p, world |-> w] : p \in ps}
NoGlobals == [g |-> Nil]

(* Boolean expressions: the jumps of and, or, not and comparisons, where a *)
(* value is wanted and where a condition is.  Left out: true and false as  *)
(* the right operand of an operand.                                        *)
Truths == {v("x"), v("y"), nil}
Connected == {<<o, a, b>> : o \in {"and", "or"}, a \in Truths \cup {yes}, b \in Truths}
               \cup {bin(o, v("x"), v("y")) : o \in {"==", "~="}} \cup {<<"unary", "not", v("x")>>}
Logic == {<<o, a, b>> : o \in {"and", "or"}, a \in Connected, b \in {v("y"), no}}
           \cup {<<o, v("x"), b>> : o \in {"and", "or"}, b \in Connected}
           \cup {<<"unary", "not", a>> : a \in Connected}
LogicPrograms ==
  {<<out(<<e>>), if(e, <<out(<<n(1)>>)>>, <<out(<<n(2)>>)>>)>> : e \in Logic}
    \cup {<<local(<<"x", "y">>, <<v("x"), v("y")>>), set(<<v("x")>>, <<e>>),
            <<"repeat", <<local(<<"z">>, <<v("x")>>), out(<<v("z")>>), <<"break">>>>, e>>,
            ret(<<>>)>> : e \in Logic}
    \cup {<<<<"localfunction", "f", fn(<<"x", "y">>, <<<<"while", e, <<ret(<<e, n(1)>>)>>>>>>)>>,
            out(<<call(v("f"), <<v("x"), v("y")>>)>>)>> : e \in Connected}
LogicWorlds == {[x |-> a, y |-> b] : a \in {Bool(FALSE), Num(1)}, b \in {Nil, Num(2)}}


(* Arithmetic, concatenation and comparison: precedence and associativity, *)
(* with variables, with constants (folded or not) and with both.           *)
Binaries == {"+", "-", "*", "/", "^", "..", "<", "=="}
Trees(x, y, z) ==
  {bin(o, bin(p, x, y), z) : o \in Binaries, p \in Binaries \ {".."}}
    \cup {bin(o, x, bin(p, y, z)) : o \in {"-", "/", "^", "..", "<"}, p \in Binaries \ {"..", "^"}}
    \cup {bin("..", bin("..", x, y), z), bin("..", x, bin("..", y, z)),
          bin("^", y, bin("^", z, n(3))), bin("^", <<"unary", "-", x>>, y), <<"unary", "-", bin("^", x, y)>>,
          bin("%", <<"unary", "-", x>>, z), <<"unary", "not", bin("==", x, y)>>,
          bin("<=", x, bin("+", y, z)), <<"and", bin(">", x, y), bin(">=", x, z)>>}
ArithmeticPrograms ==
  {<<out(<<call(v("pcall"), <<fn(<<>>, <<ret(<<e>>)>>)>>)>>)>> :
     e \in Trees(v("x"), v("y"), n(2)) \cup Trees(n(8), n(4), n(2))}
ArithmeticWorld == [x |-> Num(8), y |-> Num(4)]

(* Assignments: which places, of which values, how many of each.           *)
Places == {v("i"), v("t"), v("u"), v("g"), get(v("t"), v("i")), get(v("t"), s("k"))}
Values == {<<n(2), n(7)>>, <<v("i"), v("g"), n(3)>>, <<call(v("f"), <<>>)>>,
           <<n(5), call(v("f"), <<>>)>>, <<v("t")>>}
AssignmentPrograms ==
  {<<local(<<"u">>, <<n(9)>>),
     <<"localfunction", "f", fn(<<>>, <<set(<<v("u")>>, <<n(8)>>), ret(<<n(4), n(6)>>)>>)>>,
     local(<<"i", "t">>, <<n(1), table(<<Item(n(3))>>)>>), local(<<"same">>, <<v("t")>>),
     set(<<p, q>>, vs),
     out(<<v("i"), v("u"), bin("==", v("t"), v("same")), get(v("same"), n(1)),
           get(v("same"), s("k")), v("g")>>)>> :
     p \in Places, q \in Places, vs \in Values}

(* Loops that capture their variables in closures which outlive them, and  *)
(* leave by a condition or by break.                                       *)
Keep(x) == set(<<get(v("fs"), v("n"))>>,
               <<fn(<<>>, <<set(<<v(x)>>, <<bin("+", v(x), n(10))>>), ret(<<v(x)>>)>>)>>)
Count == set(<<v("n")>>, <<bin("+", v("n"), n(1))>>)
Capturing(x, leave) ==
  <<Count, local(<<"w">>, <<v("n")>>), Keep(x), set(<<v("w")>>, <<bin("+", v("w"), n(5))>>),
    if(bin("==", v("n"), n(2)), leave, <<>>)>>
Upto(last) == fn(<<"limit", "j">>, <<if(bin("<", v("j"), v("limit")),
                                        <<ret(<<bin("+", v("j"), n(1))>>)>>, <<>>)>>)
LoopsOf(x, leave) ==
  {<<"while", bin("<", v("n"), n(3)), Capturing(x, leave)>>,
   <<"repeat", Capturing(x, leave), bin(">=", v("w"), n(7))>>,
   <<"fornum", "i", <<n(1), n(3)>>, Capturing(x, leave)>>,
   <<"fornum", "i", <<n(6), n(2), <<"unary", "-", n(2)>>>>, Capturing(x, leave)>>,
   <<"forin", <<"i", "z">>, <<Upto(3), n(3), n(0)>>, Capturing(x, leave)>>,
   <<"do", <<Count, local(<<"w">>, <<n(2)>>), Keep("w")>>>>}
Calls == <<"fornum", "j", <<n(1), v("n")>>,
           <<out(<<call(get(v("fs"), v("j")), <<>>), call(get(v("fs"), v("j")), <<>>)>>)>>>>
LoopPrograms ==
  {<<local(<<"fs", "n", "i">>, <<table(<<>>), n(0), n(100)>>), loop, out(<<v("n")>>), Calls>> :
     loop \in UNION {LoopsOf(x, leave) : x \in {"w", "i"}, leave \in {<<>>, <<<<"break">>>>}}}
    \cup
  {<<local(<<"fs", "n", "i">>, <<table(<<>>), n(0), n(100)>>),
     <<"localfunction", "f", fn(<<>>, <<loop>>)>>, do(call(v("f"), <<>>)), Calls>> :
     loop \in LoopsOf("w", <<ret(<<v("w")>>)>>)}
    \cup
  {<<local(<<"fs", "n">>, <<table(<<>>), n(0)>>),
     <<"while", yes, <<<<"repeat", <<local(<<"x">>, <<v("n")>>), Count, Keep("x"),
                                     if(bin(">=", v("n"), n(k)), <<<<"break">>>>, <<>>)>>, no>>,
                       if(bin("<", n(1), v("n")), <<<<"break">>>>, <<out(<<v("n")>>)>>)>>>>,
     Calls>> : k \in 1..2}

(* Functions: parameters, variable arguments, results and their numbers.   *)
Kinds == {"fixed", "vararg", "arg"}
Bodies(kind) ==
  CASE kind = "fixed" -> {<<ret(<<v("b"), v("a")>>)>>, <<>>, <<ret(<<>>)>>}
    [] kind = "vararg" -> {<<ret(<<dots>>)>>, <<ret(<<<<"paren", dots>>, v("a")>>)>>,
                           <<local(<<"c", "d">>, <<dots>>), ret(<<v("d"), dots>>)>>,
                           <<ret(<<call(v("g"), <<n(9), dots>>)>>)>>,
                           <<local(<<"t">>, <<table(<<Item(v("a")), Item(dots)>>)>>),
                             ret(<<<<"unary", "#", v("t")>>, get(v("t"), n(3))>>)>>}
    [] kind = "arg" -> {<<ret(<<get(v("arg"), s("n")), get(v("arg"), n(1))>>)>>}
Given == {<<>>, <<n(1)>>, <<n(1), n(2), n(3)>>, <<n(1), n(2), n(3), n(4), n(5)>>}
Wanted(e) ==
  {<<out(<<e>>)>>, <<out(<<e, n(0)>>)>>, <<local(<<"x", "y", "z">>, <<e>>), out(<<v("x"), v("y"), v("z")>>)>>,
   <<local(<<"x">>, <<n(0), e>>), out(<<v("x")>>)>>, <<ret(<<e>>)>>,
   <<out(<<<<"wrapped", v("f"), <<n(1), n(2)>>>>>>), out(<<<<"resumed", v("f"), <<n(1)>>>>>>)>>}
FunctionPrograms ==
  UNION {UNION {{<<<<"defun", v("g"), fn(<<"a">>, <<ret(<<v("a"), n(7)>>)>>)>>,
                   <<"localfunction", "f", <<"function", <<"a", "b">>, kind, b>>>>>> \o w :
                   b \in Bodies(kind), w \in Wanted(call(v("f"), args))} :
                kind \in Kinds} : args \in Given}

(* Constructors: batches of items, keyed fields, values of a last call.    *)
Fields(k, last) ==
  [j \in 1..k |-> IF j = 2 THEN KeyVal(s("k"), n(j)) ELSE Item(n(j))] \o last
ConstructorPrograms ==
  {<<<<"localfunction", "f", fn(<<>>, <<ret(<<n(7), n(8), n(9)>>)>>)>>,
     local(<<"t">>, <<table(Fields(k, last))>>),
     out(<<<<"unary", "#", v("t")>>, get(v("t"), s("k")), get(v("t"), n(1)), get(v("t"), n(3)),
           get(v("t"), n(5)), get(v("t"), n(6)), get(v("t"), yes)>>)>> :
     k \in 0..6, last \in {<<>>, <<Item(call(v("f"), <<>>))>>, <<KeyVal(yes, call(v("f"), <<>>))>>,
                           <<Item(<<"paren", call(v("f"), <<>>)>>)>>, <<KeyVal(nil, n(1))>>}}

(* Metamethods: handlers on the left, on the right, shared or different,   *)
(* missing, or functions that fail; and what falls back on them.           *)
Show2 == fn(<<"p", "q">>, <<out(<<n(1)>>), ret(<<n(5), n(6)>>)>>)
Fail2 == fn(<<"p", "q">>, <<do(call(v("error"), <<v("p")>>))>>)
False2 == fn(<<"p", "q">>, <<ret(<<nil>>)>>)
With(name, event, h) ==
  local(<<name>>, <<call(v("setmetatable"), <<table(<<>>), table(<<KeyVal(s(event), h)>>)>>)>>)
Operations ==
  {<<"__add", bin("+", v("x"), v("y"))>>, <<"__unm", <<"unary", "-", v("x")>>>>,
   <<"__concat", bin("..", v("x"), v("y"))>>,
   <<"__concat", bin("..", s("a"), bin("..", v("x"), bin("..", n(1), n(2))))>>,
   <<"__eq", bin("==", v("x"), v("y"))>>, <<"__eq", bin("~=", v("y"), v("x"))>>,
   <<"__lt", bin("<", v("x"), v("y"))>>, <<"__lt", bin("<=", v("x"), v("y"))>>,
   <<"__le", bin(">=", v("x"), v("y"))>>, <<"__lt", bin(">", v("x"), v("y"))>>,
   <<"__call", call(v("x"), <<v("y")>>)>>, <<"__index", get(v("x"), s("k"))>>}
Both(event) ==
  {<<local(<<"h">>, <<h>>), With("x", event, v("h")), With("y", event, v("h"))>> :
     h \in {Show2, Fail2, False2}}
    \cup {<<With("x", event, Show2), With("y", event, Show2)>>,
          <<With("x", event, Show2), local(<<"y">>, <<n(3)>>)>>,
          <<local(<<"x">>, <<s("a")>>), With("y", event, Show2)>>,
          <<local(<<"x", "y">>, <<s("a"), s("b")>>)>>}
MetaPrograms ==
  UNION {{d \o <<<<"localfunction", "f", fn(<<>>, <<ret(<<o[2]>>)>>)>>, out(<<pcall(<<v("f")>>)>>),
                if(o[2], <<out(<<n(1)>>)>>, <<out(<<n(2)>>)>>)>> : d \in Both(o[1])} :
           o \in Operations}
    \cup
  {<<local(<<"t">>, <<table(<<KeyVal(s("k"), n(1))>>)>>), With("u", "__index", v("t")),
     With("w", "__index", v("u")), local(<<"mt">>, <<table(<<>>)>>),
     set(<<get(v("mt"), s("__newindex"))>>, <<h>>), do(call(v("setmetatable"), <<v("w"), v("mt")>>)),
     set(<<get(v("w"), s("k"))>>, <<n(2)>>), set(<<get(v("t"), s("j"))>>, <<get(v("w"), s("k"))>>),
     out(<<get(v("u"), s("k")), get(v("u"), s("j")), get(v("t"), s("a"))>>)>> :
     h \in {v("t"), v("u"), fn(<<"p", "q", "r">>, <<set(<<get(v("t"), s("a"))>>, <<v("r")>>)>>)}}
    \cup
  {<<local(<<"x", "mt">>, <<table(<<>>), table(<<>>)>>), do(call(v("setmetatable"), <<v("x"), v("mt")>>)),
     set(<<get(v("mt"), s(e))>>, <<v("x")>>),
     out(<<pcall(<<fn(<<>>, <<c>>)>>)>>)>> :
     e \in {"__index", "__newindex"},
     c \in {ret(<<get(v("x"), s("k"))>>), set(<<get(v("x"), s("k"))>>, <<n(1)>>)}}

(* Errors: where they strike, how many handlers are around, and what was   *)
(* captured before; and calls without end.                                 *)
Strikes == {do(call(v("error"), <<n(3)>>)), do(call(v("error"), <<>>)), do(call(v("error"), <<no>>)),
            set(<<v("z")>>, <<bin("+", v("z"), n(1))>>), do(call(v("nothing"), <<>>)),
            do(pcall(<<>>)), ret(<<call(v("error"), <<yes>>)>>), out(<<v("z")>>)}
ErrorPrograms ==
  {<<local(<<"get", "z">>, <<>>),
     <<"localfunction", "f", fn(<<>>, <<local(<<"w">>, <<n(1)>>),
        set(<<v("get")>>, <<fn(<<>>, <<set(<<v("w")>>, <<bin("+", v("w"), n(1))>>), ret(<<v("w")>>)>>)>>),
        out(<<call(v("get"), <<>>)>>), s1>>)>>,
     out(<<pcall(body)>>), local(<<"p", "q", "r", "s", "o">>, <<>>),
     out(<<v("p"), call(v("get"), <<>>)>>), do(call(v("f"), <<>>))>> :
     s1 \in Strikes,
     body \in {<<v("f")>>, <<v("pcall"), v("f")>>,
               <<fn(<<>>, <<local(<<"a">>, <<call(v("f"), <<>>)>>), out(<<v("a")>>)>>)>>,
               <<fn(<<>>, <<out(<<pcall(<<v("f")>>)>>), do(call(v("error"), <<yes>>))>>)>>}}
    \cup
  {<<local(<<"x">>, <<call(v("setmetatable"), <<table(<<>>), table(<<KeyVal(s("__add"),
        fn(<<"p", "q">>, <<ret(<<bin("+", v("p"), v("q"))>>)>>))>>)>>)>>),
     <<"localfunction", "f", fn(<<"k">>, <<ret(<<endless>>)>>)>>,
     out(<<pcall(<<v("f")>>)>>), out(<<pcall(<<v("pcall"), v("f")>>)>>), out(<<n(1)>>)>> :
     endless \in {bin("+", n(1), call(v("f"), <<>>)), bin("+", v("x"), n(1)),
                  bin("+", call(v("f"), <<>>), n(1))}}
    \cup
  {<<<<"localfunction", "f", fn(<<"k">>, <<if(bin("<", n(0), v("k")),
        <<ret(<<call(v("f"), <<bin("-", v("k"), n(1))>>)>>)>>, <<ret(<<v("k"), n(9)>>)>>)>>)>>,
     out(<<call(v("f"), <<n(20)>>)>>), ret(<<call(v("f"), <<n(2)>>)>>)>>}

(* Coroutines as generators, and yields where none is allowed.             *)
Yields(k) == [j \in 1..k |-> do(yield(<<n(j)>>))]
Consume(f, body) == <<"generate", <<"i", "c">>, f, body>>
Shows == <<out(<<v("i"), v("c")>>)>>
Inner(rest) == fn(<<>>, Yields(2) \o rest)
Generators ==
  {Inner(<<>>), Inner(<<ret(<<nil>>)>>), Inner(<<ret(<<n(8), n(9)>>)>>), Inner(<<do(call(v("error"), <<n(1)>>))>>),
   Inner(<<do(pcall(<<v("g")>>)), do(yield(<<n(5)>>))>>), Inner(<<do(yield(<<nil, n(1)>>)), out(<<n(7)>>)>>),
   fn(<<"a", "b">>, <<local(<<"x", "y">>, <<yield(<<n(1), v("b")>>)>>), do(yield(<<v("y"), v("x")>>)),
                      ret(<<call(v("g"), <<>>)>>)>>),
   fn(<<>>, <<<<"forin", <<"j">>, <<Upto(3), n(3), n(0)>>, <<do(yield(<<v("j")>>))>>>>>>),
   fn(<<>>, <<ret(<<yield(<<n(4)>>)>>)>>),
   fn(<<>>, <<<<"generate", <<"i">>, Inner(<<>>), <<do(yield(<<bin("*", v("i"), n(3))>>))>>>>>>),
   fn(<<>>, <<With("x", "__index", fn(<<>>, <<ret(<<call(v("g"), <<>>)>>)>>)), out(<<n(1)>>),
              out(<<get(v("x"), n(1))>>)>>),
   fn(<<>>, <<local(<<"u">>, <<n(1)>>), set(<<v("keep")>>, <<fn(<<>>, <<set(<<v("u")>>, <<bin("+", v("u"), n(1))>>),
              ret(<<v("u")>>)>>)>>), do(yield(<<v("u")>>)), do(yield(<<v("u")>>))>>)}
Consumers == {Shows, Shows \o <<<<"break">>>>, Shows \o <<ret(<<v("i")>>)>>,
              <<out(<<v("i"), call(v("keep"), <<>>)>>)>>, <<do(pcall(<<v("error")>>))>> \o Shows,
              <<do(call(v("error"), <<yes>>))>>}
CoroutinePrograms ==
  {<<<<"localfunction", "g", fn(<<>>, <<do(yield(<<n(6)>>))>>)>>, local(<<"keep">>, <<fn(<<>>, <<>>)>>),
     <<"localfunction", "f", fn(<<>>, <<Consume(gen, body), out(<<n(3)>>)>>)>>,
     out(<<pcall(<<v("f")>>)>>), out(<<call(v("keep"), <<>>)>>), do(call(v("g"), <<>>))>> :
     gen \in Generators, body \in Consumers}

(* Names: upvalues of upvalues, methods, and constants past what an        *)
(* instruction can name.                                                   *)
NamePrograms ==
  {<<local(<<"a", "b">>, <<n(1), n(2)>>),
     <<"localfunction", "f", fn(<<"c">>, <<local(<<"b">>, <<n(3)>>),
        <<"localfunction", "g", fn(<<>>, <<set(<<v("a"), v("b"), v("c")>>,
           <<bin("+", v("b"), v("c")), bin("+", v("c"), v("a")), bin("+", v("a"), v("b"))>>),
           ret(<<v("a"), v("b"), v("c")>>)>>)>>,
        <<"do", <<local(<<"a">>, <<n(50)>>), out(<<call(v("g"), <<>>)>>)>>>>,
        ret(<<v("g"), v("b")>>)>>)>>,
     local(<<"g", "h">>, <<call(v("f"), <<n(4)>>)>>), out(<<call(v("g"), <<>>)>>),
     out(<<v("a"), v("b"), v("h")>>)>>,
   <<local(<<"t">>, <<table(<<KeyVal(s("k"), table(<<>>))>>)>>),
     <<"defun", get(get(v("t"), s("k")), s("m")), fn(<<"self", "x">>,
        <<set(<<get(v("self"), s("j"))>>, <<v("x")>>), ret(<<get(v("self"), s("j")), v("x")>>)>>)>>,
     <<"defun", get(v("t"), s("g")), fn(<<"x">>, <<ret(<<v("x")>>)>>)>>,
     out(<<<<"method", get(v("t"), s("k")), "m", <<n(3)>>>>>>),
     out(<<<<"method", get(v("t"), s("k")), "m", <<s("a")>>>>>>),
     out(<<call(get(v("t"), s("g")), <<table(<<>>)>>) , get(get(v("t"), s("k")), s("j"))>>)>>,
   <<local(<<"t">>, <<table(<<KeyVal(s("p"), n(1)), KeyVal(s("q"), s("r")), KeyVal(n(1), yes),
                              KeyVal(no, nil), KeyVal(n(2), n(3))>>)>>),
     out(<<bin("+", get(v("t"), s("p")), n(11)), bin("-", n(12), get(v("t"), s("p")))>>),
     out(<<bin("==", get(v("t"), s("q")), s("r")), bin("<", n(13), n(14)), get(v("t"), n(15))>>),
     set(<<get(v("t"), n(15)), get(v("t"), s("z"))>>, <<n(16), s("y")>>),
     out(<<get(v("t"), n(15)), get(v("t"), s("z")), <<"unary", "#", s("abc")>>, <<"unary", "#", v("t")>>,
           bin("==", yes, nil)>>)>>}

(* Tables: keys that collide, come, go and come back, in any order; what a *)
(* traversal finds, also when it clears the table; and a border.           *)
Function1(name) == <<"function", CHOOSE j \in 1..Len(Library) : Library[j] = name>>
Named(names) == [x \in {Library[j] : j \in names} |-> Function1(x)]
TableWorld == Named(11..27)
KeySets == {{n(1), n(2), n(3), n(7), s("a")}, {s("a"), s("b"), s("ab"), yes, n(2)}}
Length == <<"unary", "#", v("t")>>
ShowTable(keys) ==
  [j \in 1..Len(keys) |-> out(<<get(v("t"), keys[j])>>)]
    \o <<<<"forin", <<"k", "w">>, <<v("next"), v("t")>>,
           <<if(bin("==", call(v("rawget"), <<v("t"), v("k")>>), v("w")), <<Count>>, <<>>)>>>>,
         out(<<v("n"), bin("==", get(v("t"), bin("+", Length, n(1))), nil),
               <<"or", bin("==", Length, n(0)), bin("~=", get(v("t"), Length), nil)>>>>),
         <<"forin", <<"k">>, <<v("next"), v("t")>>, <<set(<<get(v("t"), v("k"))>>, <<nil>>)>>>>,
         out(<<call(v("next"), <<v("t")>>), Length>>)>>
Put1(key, value) == set(<<get(v("t"), key)>>, <<value>>)
KeyPrograms ==
  {<<local(<<"t", "n">>, <<table(<<>>), n(0)>>), Put1(p[1], n(1)), Put1(p[2], n(2)), Put1(p[3], n(3)),
     Put1(p[1], nil), Put1(p[4], n(4)), Put1(p[2], nil), Put1(p[5], n(5)), Put1(p[1], n(6))>>
     \o ShowTable(p) : p \in UNION {SetToSeqs(keys) : keys \in KeySets}}
    \cup
  {<<local(<<"t", "n">>, <<table(<<Item(n(8)), Item(n(9))>> \o more), n(0)>>), Put1(p[1], n(1)),
     Put1(p[2], n(2)), Put1(n(2), nil), Put1(p[3], n(3)), Put1(p[4], n(4)), Put1(p[1], nil)>>
     \o ShowTable(Append(p, n(2))) :
     p \in SetToSeqs({n(3), n(4), n(5), s("a")}), more \in {<<>>, <<KeyVal(no, n(1))>>}}
    \cup
  {<<local(<<"t", "n">>, <<table([j \in 1..17 |-> Item(n(j))]), n(0)>>), Put1(n(18), n(1)), Put1(n(17), nil)>>
     \o ShowTable(<<n(1), n(17), n(18)>>)}

(* Events looked for before, between and after they come and go.           *)
Events(e, h) == {set(<<get(v("mt"), s(e))>>, <<h>>), set(<<get(v("mt"), s(e))>>, <<nil>>),
                 do(call(v("rawset"), <<v("mt"), s(e), h>>))}
Access == out(<<get(v("x"), s("k")), bin("==", v("x"), v("y"))>>)
Steps == Events("__index", table(<<KeyVal(s("k"), n(4))>>)) \cup Events("__eq", fn(<<>>, <<ret(<<n(1)>>)>>))
           \cup Events("__newindex", fn(<<"p", "q", "r">>, <<out(<<v("q"), v("r")>>)>>))
Attempt == set(<<get(v("x"), s("k"))>>, <<nil>>)
EventPrograms ==
  {<<local(<<"mt">>, <<table(<<>>)>>),
     local(<<"x", "y">>, <<call(v("setmetatable"), <<table(<<>>), v("mt")>>),
                           call(v("setmetatable"), <<table(<<>>), v("mt")>>)>>),
     Access, Attempt, a, Access, Attempt, b, Access, Attempt>> : a \in Steps, b \in Steps}

(* The library on lists and arguments.                                     *)
Numbers(k) == table([j \in 1..k |-> Item(n(j))])
Listing == out(<<Length, call(v("concat"), <<v("t"), s("a")>>), call(v("maxn"), <<v("t")>>)>>)
OnLists == {<<"insert", n(9)>>, <<"insert", n(1), n(8)>>, <<"remove">>, <<"remove", n(1)>>}
Do(c) == out(<<call(v(c[1]), <<v("t")>> \o Tail(c))>>)
LibraryPrograms ==
  {<<local(<<"t">>, <<Numbers(k)>>), Do(a), Listing, Do(b), Do(c), Listing>> :
     k \in 0..2, a \in OnLists, b \in OnLists, c \in OnLists}
    \cup
  {<<local(<<"t">>, <<table([j \in 1..5 |-> Item(n(l[j]))])>>), Do(<<"sort">>), out(<<call(v("unpack"), <<v("t")>>)>>)>> :
     l \in [1..5 -> 1..3]}
    \cup
  {<<local(<<"t">>, <<table([j \in 1..9 |-> Item(n((k * j) % 11))])>>), Do(<<"sort">>), Listing>> : k \in 1..10}
    \cup
  {<<local(<<"t">>, <<table(<<Item(s("b")), Item(s("a")), Item(s("b")), KeyVal(s("k"), no)>>)>>),
     local(<<"mt">>, <<table(<<KeyVal(s("__metatable"), n(7))>>)>>), out(<<pcall(<<v(f)>> \o args)>>)>> :
     f \in {"type", "sort", "pairs", "ipairs", "assert", "unpack", "getmetatable", "rawget", "select"},
     args \in {<<v("t"), n(2)>>, <<v("t"), n(2), n(3)>>, <<v("t"), n(3), n(1)>>}}
    \cup
  {<<out(<<pcall(<<v("select"), n(k), n(5), nil, n(6)>>)>>), out(<<call(v("select"), <<s("#"), nil, nil>>)>>)>> :
     k \in -4..5}
    \cup
  {<<local(<<"t", "n">>, <<Numbers(2), n(0)>>), <<"forin", <<"k", "w">>, <<call(v(f), <<v("t")>>)>>,
        (IF f = "ipairs" THEN <<out(<<v("k"), v("w")>>)>> ELSE <<>>) \o <<Count, set(<<get(v("t"), v("k"))>>, <<w>>)>>>>, out(<<v("n"), Length>>),
     local(<<"mt">>, <<table(<<KeyVal(s("__metatable"), n(7))>>)>>), do(call(v("setmetatable"), <<v("t"), v("mt")>>)),
     out(<<call(v("getmetatable"), <<v("t")>>), pcall(<<v("setmetatable"), v("t"), nil>>)>>),
     out(<<pcall(<<v("type")>>), pcall(<<v("assert"), no>>)>>), out(<<pcall(<<v("assert"), n(1), no>>)>>),
     out(<<pcall(<<v("next"), v("t"), s("ab")>>)>>), out(<<call(v("rawequal"), <<v("t"), v("mt")>>)>>)>> :
     f \in {"pairs", "ipairs"}, w \in {nil, v("n")}}

(* Patterns: trees and how they are written, with no more escapes than     *)
(* needed.                                                                 *)
RowOf(chars, first, others, classes) ==
  LET at(c) == CHOOSE j \in 1..Len(chars) : char(chars, j) = c
  IN [c \in CharsOf(chars) |-> [code |-> first + at(c) - 1, other |-> char(others, at(c)), classes |-> classes]]
CharacterRows ==
  RowOf("abcdef", 97, "ABCDEF", {"a", "l", "w", "x"})
    @@ RowOf("ghijklmnopqrstuvwxyz", 103, "GHIJKLMNOPQRSTUVWXYZ", {"a", "l", "w"})
    @@ RowOf("ABCDEF", 65, "abcdef", {"a", "u", "w", "x"})
    @@ RowOf("GHIJKLMNOPQRSTUVWXYZ", 71, "ghijklmnopqrstuvwxyz", {"a", "u", "w"})
    @@ RowOf("0123456789", 48, "", {"d", "w", "x"}) @@ RowOf(" ", 32, "", {"s"})
    @@ RowOf("!\"#$%&'()*+,-./", 33, "", {"p"}) @@ RowOf(":;<=>?@", 58, "", {"p"}) @@ RowOf("[", 91, "", {"p"})
MCCharacters == CharacterRows

Escaped(c, magic) == IF c \in CharsOf(magic) THEN "%" \o c ELSE c
RECURSIVE ClassText(_, _)
ClassText(class, magic) ==
  CASE class[1] = "char" -> Escaped(class[2], magic)
    [] class[1] = "any" -> "."
    [] class[1] = "class" -> "%" \o class[2]
    [] class[1] = "range" -> class[2] \o "-" \o class[3]
    [] class[1] = "set" -> "[" \o OfChars([j \in 1..Len(class[2]) |-> ClassText(class[2][j], "]^-%")]) \o "]"
    [] class[1] = "not" -> IF class[2][1] = "class" THEN "%" \o toupper(class[2][2])
                           ELSE "[^" \o SubSeq(ClassText(class[2], ""), 2, Len(ClassText(class[2], "")))
RECURSIVE ItemsText(_)
ItemText(item) ==
  CASE item[1] = "()" -> "(" \o ItemsText(item[3]) \o ")"
    [] item[1] = "at" -> "()"
    [] item[1] = "same" -> "%" \o ToString(item[2])
    [] item[1] = "balanced" -> "%b" \o item[2] \o item[3]
    [] item[1] = "end" -> "$"
    [] OTHER -> ClassText(item[2], "^$()%.[]*+-?") \o (IF item[1] = "one" THEN "" ELSE item[1])
ItemsText(items) == OfChars([j \in 1..Len(items) |-> ItemText(items[j])])
PatternText(p) == (IF p.anchored THEN "^" ELSE "") \o ItemsText(p.items)

chr(c) == <<"char", c>>
cls(l) == <<"class", l>>
any == <<"any">>
one(class) == <<"one", class>>
group(k, items) == <<"()", k, items>>
Sets == {chr("a"), any, cls("a"), <<"not", cls("a")>>, <<"set", <<<<"range", "a", "c">>, chr("-")>>>>,
         <<"not", <<"set", <<chr("b"), cls("s")>>>>>>, <<"set", <<chr("b"), cls("d"), chr("a")>>>>}
Often == {"one", "*", "+", "-", "?"}
Rests == {<<>>, <<one(chr("b"))>>, <<<<"end">>>>}
Repeats == {<<<<how, class>>>> \o rest : how \in Often, class \in Sets, rest \in Rests}
CapturePatterns ==
  {<<group(1, <<<<h1, chr("a")>>>>), group(2, <<<<h2, any>>>>)>> \o rest :
     h1 \in {"*", "-", "?"}, h2 \in {"*", "-"}, rest \in {<<<<"same", 1>>>>, <<one(chr("b")), <<"end">>>>}}
    \cup {<<group(1, <<<<"*", chr("a")>>, group(2, <<one(any)>>), one(cls("w")), group(3, <<<<"*", cls("s")>>>>)>>)>>,
          <<<<"at", 1>>, one(chr("a")), one(chr("a")), <<"at", 2>>>>,
          <<<<"balanced", "(", ")">>>>, <<group(1, <<<<"balanced", "a", "b">>>>), <<"?", chr("a")>>>>,
          <<group(1, <<<<"+", cls("w")>>>>), <<"*", cls("s")>>, group(2, <<<<"+", cls("w")>>>>)>>,
          <<group(1, <<<<"+", cls("w")>>>>), one(chr("=")), group(2, <<<<"+", cls("w")>>>>)>>,
          <<group(1, <<<<"at", 2>>, <<"*", any>>>>), one(chr("b")), <<"at", 3>>>>,
          <<one(chr("$")), group(1, <<<<"-", any>>>>), one(chr("$"))>>, <<one(chr("^"))>>}
PatternTrees ==
  [ok : {TRUE}, anchored : {FALSE}, items : Repeats]
    \cup [ok : {TRUE}, anchored : BOOLEAN, items : CapturePatterns \cup {rs \in Repeats : Len(rs) = 1}]
Malformed == {"[a", "[^]", "%", "(a", ".)", "%1a", "(a%1)", "%b", "()()()()()"}
(* TLC keeps the value of a definition but not that of a substitution.     *)
TreeOf ==
  LET text == [p \in PatternTrees |-> PatternText(p)]
  IN [t \in {text[p] : p \in PatternTrees} |-> CHOOSE p \in PatternTrees : text[p] = t]
       @@ [t \in Malformed |-> [ok |-> FALSE, anchored |-> FALSE, items |-> <<>>]]
MCPatternOf == TreeOf

(* The string library: every function of a pattern on subjects that match  *)
(* at several places, once or not at all.                                  *)
Try(f, es) == out(<<pcall(<<v(f)>> \o es)>>)
Asking(text, p, init) ==
  <<Try("find", <<text, s(p), init>>), Try("match", <<text, s(p), init>>)>>
Iterating(text, p) ==
  <<<<"forin", <<"x", "y">>, <<call(v("gmatch"), <<text, s(p)>>)>>, <<out(<<v("x"), v("y")>>)>>>>>>
Replacing(text, p) ==
  [j \in 1..6 |-> Try("gsub", <<text, s(p)>> \o
     <<<<s("<%0>")>>, <<s("%1%%x"), n(2)>>, <<s("%2a")>>, <<table(<<KeyVal(s("a"), s("cc")), KeyVal(s(""), n(7))>>)>>,
       <<fn(<<"x", "y">>, <<out(<<v("x"), v("y")>>), if(bin("==", v("x"), s("a")), <<ret(<<v("y")>>)>>, <<>>)>>), n(3)>>,
       <<fn(<<"x">>, <<ret(<<table(<<>>)>>)>>)>>>>[j])]
Subjects == <<"", "b", "aab", "b a-b", "(a(b))a$">>
OnSubjects(body) ==
  <<local(<<"t">>, <<table([j \in 1..Len(Subjects) |-> Item(s(Subjects[j]))])>>),
    <<"fornum", "i", <<n(1), n(Len(Subjects))>>, body>>>>
StringWorld == Named(28..Len(Library))
PatternPrograms ==
  LET text == get(v("t"), v("i"))
      capturing == {p \in PatternTrees : p.items \in CapturePatterns}
      searches(p) == Asking(text, PatternText(p), n(1)) \o (IF p.anchored THEN <<>> ELSE Iterating(text, PatternText(p)))
  IN {OnSubjects(searches(p)) : p \in PatternTrees}
       \cup {OnSubjects(Asking(text, PatternText(p), n(-1))) : p \in capturing}
       \cup {OnSubjects(Replacing(text, PatternText(p))) : p \in capturing}
MalformedPrograms ==
  {Asking(s("a"), p, n(1)) \o <<Try("gsub", <<s("a"), s(p), s("%1")>>)>> : p \in Malformed}
    \cup {<<Try("gsub", <<s(e[1]), s(PatternText(e[2])), s(e[3])>>)>> :
             e \in {<<"hello world from Lua", [anchored |-> FALSE, items |-> <<group(1, <<<<"+", cls("w")>>>>), <<"*", cls("s")>>,
                      group(2, <<<<"+", cls("w")>>>>)>>], "%2 %1">>}}
SubstringPrograms ==
  {<<<<"fornum", "i", <<n(-4), n(5)>>, <<<<"fornum", "j", <<n(-4), n(5)>>,
             <<out(<<call(v("sub"), <<s(x), v("i"), v("j")>>)>>), out(<<call(v("byte"), <<s(x), v("i"), v("j")>>)>>)>>>>>>>>>> :
             x \in {"aB1", ""}}

TextPrograms ==
  {<<out(<<call(v("len"), <<s(x)>>), call(v("reverse"), <<s(x)>>), call(v("lower"), <<s(x)>>), call(v("upper"), <<s(x)>>)>>),
             out(<<call(v("rep"), <<s(x), n(k)>>), call(v("sub"), <<s(x), n(2)>>), call(v("byte"), <<s(x)>>),
                   call(v("char"), <<n(97), n(48)>>)>>), Try("find", <<s("a" \o x), s(x), n(k), yes>>), Try("find", <<s("b-ab"), s("%ab"), n(k)>>),
             Try("len", <<>>), Try("upper", <<nil>>)>> : x \in {"", "aB-1", "z ["}, k \in {-1, 0, 3}}

ForeachPrograms ==
  {<<local(<<"t", "n">>, <<table(<<Item(n(4)), Item(n(5)), Item(n(6))>> \o more), n(0)>>),
             Try(f, <<v("t"), fn(<<"k", "w">>, <<set(<<v("n")>>, <<bin("+", v("n"), v("w"))>>)>> \o body)>>), out(<<v("n"), call(v("getn"), <<v("t")>>)>>),
             Try(f, <<v("t")>>)>> :
             f \in {"foreach", "foreachi"}, more \in {<<>>, <<Item(nil), KeyVal(n(4), nil)>>},
             body \in {<<>>, <<if(bin("==", v("w"), n(5)), <<ret(<<v("k")>>)>>, <<>>)>>, <<do(call(v("error"), <<v("k")>>))>>,
                       <<set(<<get(v("t"), v("k"))>>, <<nil>>)>>, <<do(yield(<<v("k")>>))>>}}

MCCases ==
  UNION {In(w, LogicPrograms) : w \in LogicWorlds}
    \cup In(ArithmeticWorld, ArithmeticPrograms)
    \cup In(NoGlobals, AssignmentPrograms \cup LoopPrograms \cup FunctionPrograms
                         \cup ConstructorPrograms \cup MetaPrograms \cup ErrorPrograms
                         \cup CoroutinePrograms \cup NamePrograms)
    \cup In(TableWorld, KeyPrograms \cup EventPrograms \cup LibraryPrograms)
    \cup In(StringWorld, PatternPrograms \cup MalformedPrograms \cup SubstringPrograms
                            \cup TextPrograms \cup ForeachPrograms)
=============================================================================
