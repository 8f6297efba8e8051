---------------------------- MODULE LuaStrings ----------------------------
(***************************************************************************)
(* The string library of the embedded Lua (src/lua/src/lstrlib.c) but      *)
(* string.format and string.dump, and what of its libraries calls back     *)
(* into Lua: string.gsub with a function, table.foreach and foreachi.      *)
(*                                                                         *)
(* A C function in the middle of its work is a record call: f, the         *)
(* function, args, next, what it needs to go on (<<>> at its entry), and   *)
(* given, the result of the call it made.  It ends with results (Done), an *)
(* error (Refused), or with a call to make first (Asks).                   *)
(***************************************************************************)
EXTENDS LuaLibrary, LuaPatterns

Entered(f, args) == [f |-> f, args |-> args, next |-> <<>>, given |-> Nil]
Asks(m, f, args, next) == [m |-> m, ok |-> TRUE, v |-> <<f>> \o args, next |-> <<next>>]
StringArg(args, j) == StringOf(args[j])

posrelat(pos, len) == IF pos >= 0 THEN pos ELSE len + pos + 1

-----------------------------------------------------------------------------
(* Functions of a string s that need no pattern. *)

str_sub(m, s, args) ==
  LET start == posrelat(args[2][2], Len(s))
      end == posrelat(luaL_optint(args, 3, -1), Len(s))
  IN IF ~IsNum(Arg(args, 2)) \/ ~Optional(args, 3) THEN Refused(m)
     ELSE Done(m, <<Str(Substring(s, Max({1, start}), Min({end, Len(s)})))>>)

OfChars(cs) == FoldLeft(LAMBDA acc, c : acc \o c, "", cs)
Chars(s) == [j \in 1..Len(s) |-> char(s, j)]
str_reverse(m, s) == Done(m, <<Str(OfChars(Reverse(Chars(s))))>>)
str_lower(m, s) == Done(m, <<Str(OfChars([j \in 1..Len(s) |-> tolower(char(s, j))]))>>)
str_upper(m, s) == Done(m, <<Str(OfChars([j \in 1..Len(s) |-> toupper(char(s, j))]))>>)
str_rep(m, s, args) ==
  IF ~IsNum(Arg(args, 2)) THEN Refused(m)
  ELSE Done(m, <<Str(OfChars([j \in 1..Max({0, args[2][2]}) |-> s]))>>)

(* An end before the start of the string, compared as a size_t, is behind  *)
(* its end.                                                                *)
str_byte(m, s, args) ==
  LET posi == posrelat(luaL_optint(args, 2, 1), Len(s))
      pose == posrelat(luaL_optint(args, 3, posi), Len(s))
      end == IF pose \in 0..Len(s) THEN pose ELSE Len(s)
      bytes(from) == [j \in DOMAIN Span(from, end) |-> Num(Code[char(s, from + j - 1)])]
  IN IF ~Optional(args, 2) \/ ~Optional(args, 3) THEN Refused(m)
     ELSE Done(m, bytes(Max({1, posi})))

(* Only of the characters that strings have here. *)
CharOf(c) == CHOOSE x \in DOMAIN Code : Code[x] = c
str_char(m, args) ==
  IF \E j \in 1..Len(args) : ~IsNum(args[j]) \/ args[j][2] \notin 0..255 THEN Refused(m)
  ELSE Done(m, <<Str(OfChars([j \in 1..Len(args) |-> CharOf(args[j][2])]))>>)

-----------------------------------------------------------------------------
(* Searches. *)

SPECIALS == CharsOf("^$*+?.([%-")
lmemfind(s, from, p) ==
  LET found == {j \in from..Len(s) - Len(p) + 1 : Substring(s, j, j + Len(p) - 1) = p}
  IN IF found = {} THEN NULL ELSE Min(found)

\* Where the pattern proper begins.
skip(pat) == IF anchor(pat) THEN 2 ELSE 1
BadCaptures(ms) == \E j \in 0..Len(ms.capture) - 1 : BadCapture(ms, j)

Found(m, x, find) ==
  IF x.r.ms.err \/ (x.r.s # NULL /\ BadCaptures(x.r.ms)) THEN Refused(m)
  ELSE IF x.r.s = NULL THEN Done(m, <<Nil>>)
  ELSE IF find THEN Done(m, <<Num(x.from), Num(x.r.s - 1)>> \o push_captures(x.r.ms, NULL, 0))
  ELSE Done(m, push_captures(x.r.ms, x.from, x.r.s))
str_find_aux(m, s, p, args, find) ==
  LET init == Min({Max({1, posrelat(luaL_optint(args, 3, 1), Len(s))}), Len(s) + 1})
      plain == ~l_isfalse(Arg(args, 4)) \/ CharsOf(p) \cap SPECIALS = {}
      at == lmemfind(s, init, p)
  IN IF ~Optional(args, 3) THEN Refused(m)
     ELSE IF find /\ plain
     THEN Done(m, IF at = NULL THEN <<Nil>> ELSE <<Num(at), Num(at + Len(p) - 1)>>)
     ELSE Found(m, Search(s, p, init, skip(p), anchor(p)), find)

(* The iterator keeps the string, the pattern and how far it is.           *)
gmatch(m, s, p) ==
  LET made == lua_pushcclosure(m, "gmatch_aux", 0, <<s, p, 0>>) IN Done(made, <<LastFunction(made)>>)
Iterated(m, f, x) ==
  LET newstart == IF x.r.s = x.from THEN x.r.s ELSE x.r.s - 1
      moved == [m EXCEPT !.funs[f[2]].upvals[3] = newstart]
  IN IF x.r.ms.err \/ (x.r.s # NULL /\ BadCaptures(x.r.ms)) THEN Refused(m)
     ELSE IF x.r.s = NULL THEN Done(m, <<>>)
     ELSE Done(moved, push_captures(x.r.ms, x.from, x.r.s))
gmatch_aux(m, f) ==
  LET up == m.funs[f[2]].upvals
  IN IF up[3] > Len(up[1]) THEN Done(m, <<>>)
     ELSE Iterated(m, f, Search(up[1], up[2], up[3] + 1, 1, FALSE))

-----------------------------------------------------------------------------
(* string.gsub: g has the source position s, the number n of substitutions *)
(* and the text b so far; while a replacement function runs, also the end  *)
(* e of the match.  A replacement does not end in "%", and is no table     *)
(* with a metatable.                                                       *)

RECURSIVE Units(_, _)
Units(news, i) ==
  LET n == IF char(news, i) = L_ESC THEN 2 ELSE 1
  IN IF i > Len(news) THEN <<>> ELSE <<SubSeq(news, i, i + n - 1)>> \o Units(news, i + n)
CaptureOf(unit) == IF isdigit(char(unit, 2)) THEN Code[char(unit, 2)] - Code["1"] ELSE -1
add_s(ms, news, s, e) ==
  LET units == Units(news, 1)
      text(u) == CASE char(u, 1) # L_ESC -> u
                   [] u = "%0" -> Substring(ms.src, s, e - 1)
                   [] OTHER -> IF CaptureOf(u) >= 0 THEN StringOf(push_onecapture(ms, CaptureOf(u), s, e))
                               ELSE char(u, 2)
  IN IF \E j \in 1..Len(units) : Len(units[j]) = 2 /\ CaptureOf(units[j]) >= 0
                                 /\ BadCapture(ms, CaptureOf(units[j])) THEN <<>>
     ELSE <<Str(OfChars([j \in 1..Len(units) |-> text(units[j])]))>>

RECURSIVE GsubFrom(_, _, _)
Substituted(m, call, g) ==
  Done(m, <<Str(g.b \o Substring(StringArg(call.args, 1), g.s, Len(StringArg(call.args, 1)))), Num(g.n)>>)
Advance(m, call, g, src, anchored) ==
  LET next == IF g.e > g.s THEN [g EXCEPT !.s = g.e]
              ELSE [g EXCEPT !.b = @ \o char(src, g.s), !.s = @ + 1]
  IN IF g.e <= g.s /\ g.s > Len(src) THEN Substituted(m, call, g)
     ELSE IF anchored THEN Substituted(m, call, next) ELSE GsubFrom(m, call, next)
(* value: what replaces the match; false and nil leave it.                 *)
WithValue(m, call, g, value) ==
  LET src == StringArg(call.args, 1)
      text == IF l_isfalse(value) THEN Substring(src, g.s, g.e - 1) ELSE StringOf(value)
  IN IF ~l_isfalse(value) /\ ~Stringable(value) THEN Refused(m)
     ELSE Advance(m, call, [g EXCEPT !.b = @ \o text], src, anchor(StringArg(call.args, 2)))
add_value(m, call, g, ms) ==
  LET repl == Arg(call.args, 3)
      text == add_s(ms, StringOf(repl), g.s, g.e)
  IN CASE Stringable(repl) -> IF text = <<>> THEN Refused(m) ELSE WithValue(m, call, g, text[1])
       [] IsFunction(repl) -> IF BadCaptures(ms) THEN Refused(m)
                              ELSE Asks(m, repl, push_captures(ms, g.s, g.e), g)
       [] IsTable(repl) -> IF BadCapture(ms, 0) THEN Refused(m)
                           ELSE WithValue(m, call, g, RawGet(m, repl, push_onecapture(ms, 0, g.s, g.e)))
       [] OTHER -> Refused(m)
GsubFrom(m, call, g) ==
  LET src == StringArg(call.args, 1)
      pat == StringArg(call.args, 2)
      matched(r) == IF r.ms.err THEN Refused(m)
                    ELSE IF r.s # NULL THEN add_value(m, call, [g EXCEPT !.n = @ + 1, !.e = r.s], r.ms)
                    ELSE Advance(m, call, [g EXCEPT !.e = NULL], src, anchor(pat))
  IN IF g.n >= luaL_optint(call.args, 4, Len(src) + 1) THEN Substituted(m, call, g)
     ELSE matched(MatchFrom(src, pat, g.s, skip(pat)))
str_gsub(m, call) ==
  IF ~Stringable(Arg(call.args, 2)) \/ ~Optional(call.args, 4) THEN Refused(m)
  ELSE IF call.next = <<>> THEN GsubFrom(m, call, [s |-> 1, n |-> 0, b |-> "", e |-> NULL])
  ELSE WithValue(m, call, call.next[1], call.given)

-----------------------------------------------------------------------------
(* table.foreachi and table.foreach: the next element, unless the function *)
(* gave a result.                                                          *)

foreachi(m, call) ==
  LET i == IF call.next = <<>> THEN 1 ELSE call.next[1].i + 1
      n == IF call.next = <<>> THEN luaH_getn(TableOf(m, call.args)) ELSE call.next[1].n
  IN IF ~IsTable(Arg(call.args, 1)) \/ ~IsFunction(Arg(call.args, 2)) THEN Refused(m)
     ELSE IF call.given # Nil THEN Done(m, <<call.given>>)
     ELSE IF i > n THEN Done(m, <<>>)
     ELSE Asks(m, call.args[2], <<Num(i), RawGet(m, call.args[1], Num(i))>>, [i |-> i, n |-> n])
foreach(m, call) ==
  LET key == IF call.next = <<>> THEN Nil ELSE call.next[1]
      r == luaB_next(m, <<call.args[1], key>>)
  IN IF ~IsTable(Arg(call.args, 1)) \/ ~IsFunction(Arg(call.args, 2)) THEN Refused(m)
     ELSE IF call.given # Nil THEN Done(m, <<call.given>>)
     ELSE IF ~r.ok THEN Refused(m)
     ELSE IF r.v[1] = Nil THEN Done(m, <<>>)
     ELSE Asks(m, call.args[2], r.v, r.v[1])

-----------------------------------------------------------------------------
(* The functions that take a string first. *)
strlib(m, name, call, s) ==
  LET args == call.args
      p == StringArg(args, 2)
  IN CASE name = "len" -> Done(m, <<Num(Len(s))>>)
       [] name = "sub" -> str_sub(m, s, args)
       [] name = "reverse" -> str_reverse(m, s)
       [] name = "lower" -> str_lower(m, s)
       [] name = "upper" -> str_upper(m, s)
       [] name = "rep" -> str_rep(m, s, args)
       [] name = "byte" -> str_byte(m, s, args)
       [] name = "gsub" -> str_gsub(m, call)
       [] OTHER -> IF ~Stringable(Arg(args, 2)) THEN Refused(m)
                   ELSE IF name = "gmatch" THEN gmatch(m, s, p)
                   ELSE str_find_aux(m, s, p, args, name = "find")
OfStrings == {"len", "sub", "reverse", "lower", "upper", "rep", "byte", "find", "match", "gmatch", "gsub"}

(* Any of the C functions, at its entry or after the call it made.         *)
RunC(m, name, call) ==
  CASE name \in OfStrings -> IF ~Stringable(Arg(call.args, 1)) THEN Refused(m)
                             ELSE strlib(m, name, call, StringArg(call.args, 1))
    [] name = "char" -> str_char(m, call.args)
    [] name = "gmatch_aux" -> gmatch_aux(m, call.f)
    [] name = "foreach" -> foreach(m, call)
    [] name = "foreachi" -> foreachi(m, call)
    [] OTHER -> base_funcs(m, name, call.args)
Libraries(m, call) == RunC(m, m.funs[call.f[2]].c, call)
=============================================================================
