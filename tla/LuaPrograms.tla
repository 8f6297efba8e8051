---------------------------- MODULE LuaPrograms ----------------------------
(***************************************************************************)
(* The embedded Lua as a whole: a chunk is read by the compiler            *)
(* (LuaParser), becomes a function (f_parser of ldo.c) and runs on the     *)
(* machine (LuaExecute), and must do what LuaMeaning says it does.  The    *)
(* programs are syntax trees (see LuaMeaning); Tokens writes one down with *)
(* no more parentheses than the manual's precedences ask for, so that the  *)
(* compiler's reading of precedences is at stake too.                      *)
(***************************************************************************)
EXTENDS LuaExecute, LuaVerifier, TLC

CONSTANTS
    Cases,       \* the programs to run: records of a syntax tree (program) and
                 \* the values that its global variables start with (world)
    MaxStack, MaxLevels, MaxVars, MaxUpvalues,   \* of the compiler
    DepthLimit,  \* of LuaMeaning
    PatternOf, Characters,   \* the patterns of programs and their characters, of LuaMatching
    Compiled(_), \* what the compiler makes of a chunk (Compiler!luaY_parser)
    Means(_, _, _)    \* what the manual says of a program (Manual!Meaning)

ASSUME CompilerLimits ==
  /\ MaxStack \in Nat \ {0, 1, 2}
  /\ {MaxLevels, MaxVars, MaxUpvalues} \subseteq Nat \ {0}

Compiler == INSTANCE LuaParser
Manual == INSTANCE LuaMeaning WITH Order <- Collation

VARIABLES program, world
vars == <<program, world, m>>

-----------------------------------------------------------------------------
(* Trees written down (manual, 2.5.6 and 8). *)

Level(e) ==
  CASE e[1] = "or" -> 1
    [] e[1] = "and" -> 2
    [] e[1] = "binary" -> (CASE e[2] \in {"<", ">", "<=", ">=", "~=", "=="} -> 3
                             [] e[2] = ".." -> 4 [] e[2] \in {"+", "-"} -> 5
                             [] e[2] \in {"*", "/", "%"} -> 6 [] e[2] = "^" -> 8)
    [] e[1] = "unary" -> 7
    [] e[1] \in {"const", "vararg", "function", "table"} -> 9
    [] OTHER -> 10       \* what can be called and indexed
RightAssociative(e) == e[1] = "binary" /\ e[2] \in {"..", "^"}

RECURSIVE Joint(_, _)
Joint(parts, sep) ==
  IF parts = <<>> THEN <<>>
  ELSE IF Len(parts) = 1 THEN parts[1] ELSE parts[1] \o sep \o Joint(Tail(parts), sep)
Names(ns) == Joint([j \in 1..Len(ns) |-> <<<<"NAME", ns[j]>>>>], <<<<",">>>>)

Constant(v) ==
  CASE v = Nil -> <<"nil">>
    [] ttype(v) = "boolean" -> (IF v[2] THEN <<"true">> ELSE <<"false">>)
    [] ttype(v) = "number" -> <<"NUMBER", v[2]>>
    [] ttype(v) = "string" -> <<"STRING", v[2]>>
IsName(e) == e[1] = "const" /\ ttype(e[2]) = "string"

RECURSIVE Written(_, _)
RECURSIVE Body(_)
RECURSIVE Stats(_)

List(es) == Joint([j \in 1..Len(es) |-> Written(es[j], 1)], <<<<",">>>>)
Parens(ts) == <<<<"(">>>> \o ts \o <<<<")">>>>
Arguments(es) ==
  IF Len(es) = 1 /\ (es[1][1] = "table" \/ IsName(es[1])) THEN Written(es[1], 9)
  ELSE Parens(List(es))
Field(f) ==
  IF f[1] = "item" THEN Written(f[2], 1)
  ELSE (IF IsName(f[2]) THEN <<<<"NAME", f[2][2][2]>>>>
        ELSE <<<<"[">>>> \o Written(f[2], 1) \o <<<<"]">>>>) \o <<<<"=">>>> \o Written(f[3], 1)
OfCoroutine(name) == <<<<"NAME", "coroutine">>, <<".">>, <<"NAME", name>>>>

Plain(e) ==
  LET level == Level(e)
      left == Written(e[3], IF RightAssociative(e) THEN level + 1 ELSE level)
      right == Written(e[4], IF RightAssociative(e) THEN level ELSE level + 1)
  IN CASE e[1] = "const" -> <<Constant(e[2])>>
       [] e[1] = "vararg" -> <<<<"...">>>>
       [] e[1] = "var" -> <<<<"NAME", e[2]>>>>
       [] e[1] = "paren" -> Parens(Written(e[2], 1))
       [] e[1] = "index" -> Written(e[2], 10) \o
            (IF IsName(e[3]) THEN <<<<".">>, <<"NAME", e[3][2][2]>>>>
             ELSE <<<<"[">>>> \o Written(e[3], 1) \o <<<<"]">>>>)
       [] e[1] = "call" -> Written(e[2], 10) \o Arguments(e[3])
       [] e[1] = "method" -> Written(e[2], 10) \o <<<<":">>, <<"NAME", e[3]>>>> \o Arguments(e[4])
       [] e[1] = "function" -> <<<<"function">>>> \o Body(e)
       [] e[1] = "table" ->
            <<<<"{">>>> \o Joint([j \in 1..Len(e[2]) |-> Field(e[2][j])], <<<<",">>>>) \o <<<<"}">>>>
       [] e[1] \in {"and", "or"} ->
            Written(e[2], level) \o <<<<e[1]>>>> \o Written(e[3], level + 1)
       [] e[1] = "binary" -> left \o <<<<e[2]>>>> \o right
       [] e[1] = "unary" -> <<<<e[2]>>>> \o Written(e[3], level)
       [] e[1] = "wrapped" ->
            OfCoroutine("wrap") \o Parens(Written(e[2], 1)) \o Parens(List(e[3]))
       [] e[1] = "resumed" ->
            OfCoroutine("resume") \o Parens(Joint(<<OfCoroutine("create") \o Parens(Written(e[2], 1))>>
              \o [j \in 1..Len(e[3]) |-> Written(e[3][j], 1)], <<<<",">>>>))
Written(e, level) == IF Level(e) < level THEN Parens(Plain(e)) ELSE Plain(e)

Body(f) ==
  Parens(Joint((IF f[2] = <<>> THEN <<>> ELSE <<Names(f[2])>>)
               \o (IF f[3] = "fixed" THEN <<>> ELSE <<<<<<"...">>>>>>), <<<<",">>>>))
    \o Stats(f[4]) \o <<<<"end">>>>
IsMethod(f) == f[2] # <<>> /\ f[2][1] = "self"
FunctionName(v, f) ==
  IF IsMethod(f) THEN Written(v[2], 10) \o <<<<":">>, <<"NAME", v[3][2][2]>>>> ELSE Written(v, 10)

RECURSIVE Tests(_, _)
Tests(tests, otherwise) ==
  IF tests = <<>> THEN (IF otherwise = <<>> THEN <<>> ELSE <<<<"else">>>> \o Stats(otherwise))
  ELSE Written(tests[1][1], 1) \o <<<<"then">>>> \o Stats(tests[1][2])
         \o (IF Len(tests) > 1 THEN <<<<"elseif">>>> ELSE <<>>) \o Tests(Tail(tests), otherwise)
DoBlock(b) == <<<<"do">>>> \o Stats(b) \o <<<<"end">>>>

Stat(s) ==
  CASE s[1] = "assign" -> List(s[2]) \o <<<<"=">>>> \o List(s[3]) \o <<<<";">>>>
    [] s[1] = "expr" -> Written(s[2], 10)
    [] s[1] = "local" -> <<<<"local">>>> \o Names(s[2])
                           \o (IF s[3] = <<>> THEN <<>> ELSE <<<<"=">>>> \o List(s[3]))
    [] s[1] = "localfunction" ->
         <<<<"local">>, <<"function">>, <<"NAME", s[2]>>>> \o Body(s[3])
    [] s[1] = "defun" ->
         <<<<"function">>>> \o FunctionName(s[2], s[3])
           \o Body(IF IsMethod(s[3]) THEN [s[3] EXCEPT ![2] = Tail(@)] ELSE s[3])
    [] s[1] = "do" -> DoBlock(s[2])
    [] s[1] = "while" -> <<<<"while">>>> \o Written(s[2], 1) \o DoBlock(s[3])
    [] s[1] = "repeat" -> <<<<"repeat">>>> \o Stats(s[2]) \o <<<<"until">>>> \o Written(s[3], 1)
    [] s[1] = "if" -> <<<<"if">>>> \o Tests(s[2], s[3]) \o <<<<"end">>>>
    [] s[1] = "fornum" -> <<<<"for">>, <<"NAME", s[2]>>, <<"=">>>> \o List(s[3]) \o DoBlock(s[4])
    [] s[1] = "forin" -> <<<<"for">>>> \o Names(s[2]) \o <<<<"in">>>> \o List(s[3]) \o DoBlock(s[4])
    [] s[1] = "generate" -> <<<<"for">>>> \o Names(s[2]) \o <<<<"in">>>> \o OfCoroutine("wrap")
                              \o Parens(Written(s[3], 1)) \o DoBlock(s[4])
    [] s[1] = "return" -> <<<<"return">>>> \o List(s[2])
    [] s[1] = "break" -> <<<<"break">>>>
Stats(b) == IF b = <<>> THEN <<>> ELSE Stat(Head(b)) \o Stats(Tail(b))

-----------------------------------------------------------------------------
(* The state that a chunk starts in: the first ten library functions, and  *)
(* other globals, which may be more of the library.                        *)

Library == <<"out", "error", "setmetatable", "pcall", "create", "wrap", "resume", "yield",
             "status", "running", "type", "rawequal", "rawget", "rawset", "next", "pairs", "ipairs",
             "ipairsaux", "assert", "unpack", "select", "getmetatable", "insert", "remove", "maxn",
             "concat", "sort", "getn", "foreach", "foreachi", "len", "sub", "reverse", "lower", "upper",
             "rep", "byte", "char", "find", "match", "gmatch", "gsub">>
InCoroutine == {"create", "wrap", "resume", "yield", "status", "running"}
LibraryMap(names) ==
  LET at(s) == CHOOSE j \in 1..Len(Library) : Library[j] = s
  IN [k \in {Str(s) : s \in names} |-> <<"function", at(k[2])>>]
Dictionaries(w) ==
  <<[map |-> LibraryMap({Library[j] : j \in 1..10} \ InCoroutine)
             @@ (Str("coroutine") :> <<"table", 2>>) @@ [k \in {Str(x) : x \in DOMAIN w} |-> w[k[2]]],
     meta |-> Nil],
    [map |-> LibraryMap(InCoroutine), meta |-> Nil]>>

(* The same as the machine has them. *)
Entries(map) ==
  LET keys == Manual!Listed({x \in DOMAIN map : map[x] # Nil})
  IN [j \in 1..Len(keys) |-> <<keys[j], map[keys[j]]>>]
LibraryTables ==
  [j \in 1..2 |-> Inserted([luaH_new(0, 2) EXCEPT !.flags = {}], Entries(Dictionaries(<<>>)[j].map))]
Tables(w) ==
  [LibraryTables EXCEPT ![1] = Inserted(@, Entries([x \in {Str(y) : y \in DOMAIN w} |-> w[x[2]]]))]

MainThread ==
  [stack |-> <<Nil>>, top |-> 1, base |-> 1, ci |-> <<NewCI(0, 1, 1 + LUA_MINSTACK, 0)>>,
   openupval |-> <<>>, status |-> "ok", nCcalls |-> 0, overflow |-> FALSE, cf |-> <<>>,
   from |-> 0]

Init ==
  /\ \E c \in Cases : program = c.program /\ world = c.world
  /\ m = [th |-> <<MainThread>>, cur |-> 1, tabs |-> Tables(world), upv |-> <<>>,
          funs |-> [j \in 1..Len(Library) |-> [c |-> Library[j], co |-> 0, p |-> <<>>,
                                               upvals |-> <<>>]],
          mode |-> "source", err |-> Nil, out |-> <<>>, asserts |-> ""]

(* f_parser: what the parser makes of the chunk becomes a function on the  *)
(* stack.                                                                  *)
f_parser(r) ==
  LET made == [m EXCEPT !.funs = Append(@, [c |-> "", co |-> 0, p |-> r.proto, upvals |-> <<>>]),
                        !.asserts = r.asserts]
  IN IF r.err # "" THEN [m EXCEPT !.mode = "done", !.err = Str("error")]
     ELSE [SetThread(made, Push(Thread(made), LastFunction(made))) EXCEPT !.mode = "loaded"]

Load == m.mode = "source" /\ m' = f_parser(Compiled(Stats(program)))

(* The host's lua_pcall. *)
Start ==
  /\ m.mode = "loaded"
  /\ m' = luaD_call(m, L.top - 1, LUA_MULTRET,
                    [k |-> "main", top |-> L.top - 1, ci |-> 1, nCcalls |-> 0])

Terminating == m.mode = "done" /\ UNCHANGED m

Next == (Load \/ Start \/ Step \/ Terminating) /\ UNCHANGED <<program, world>>
Spec == Init /\ [][Next]_vars

-----------------------------------------------------------------------------
(* Properties. *)

(* A program does what the manual says: whatever the compiler makes of its *)
(* expressions, jumps, registers and captured variables, and however calls,*)
(* metamethods, errors and coroutines interleave on the machine, it shows  *)
(* what the reference evaluation of its tree shows and ends the same way.  *)
MeaningPreserved ==
  m.mode = "done" =>
    [out |-> m.out, err |-> m.err] = Means(Dictionaries(world), Library, program)

Main == m.funs[Len(Library) + 1].p

(* The code the compiler writes is valid (the lua_assert of close_func on  *)
(* luaG_checkcode), and dumping it and loading it back gives the same      *)
(* function, while a chunk that lost its end is refused.                   *)
CodeIsValid == m.mode = "loaded" => AllChecked(Main)
DumpRoundTrip ==
  m.mode = "loaded" =>
    LET s == luaU_dump(Main)
        half == Len(s) \div 2
        back == luaU_undump(s)
    IN /\ back.err = "" /\ back.v = Main /\ back.rest = <<>>
       /\ \A n \in {half, Len(s) - 1} : luaU_undump(SubSeq(s, 1, n)).err = "unexpected end"

(* The open upvalues of a thread are sorted by slot, one for a slot, and   *)
(* none is above what the thread's frames use.                             *)
UpvaluesSorted ==
  \A t \in 1..Len(m.th) :
    LET open == m.th[t].openupval
    IN \A a \in 1..Len(open) :
         /\ m.upv[open[a]].open /\ m.upv[open[a]].th = t
         /\ m.upv[open[a]].idx < (IF m.mode = "run" THEN Top(m.th[t]).top ELSE Len(m.th[t].stack))
         /\ \A b \in 1..a - 1 : m.upv[open[b]].idx > m.upv[open[a]].idx

(* nCcalls counts the calls that C code of the thread waits for: only so   *)
(* does lua_yield know when it may switch.                                 *)
CallsAreCounted ==
  m.mode \in {"run", "continue"} =>
    \A t \in 1..Len(m.th) :
      m.th[t].status # "error" =>
        m.th[t].nCcalls = Cardinality({f \in 1..Len(m.th[t].cf) :
                                         m.th[t].cf[f].k \notin {"execute", "resume"}})

(* No lua_assert of the compiler or the machine fails; among those of      *)
(* luaV_execute: the running function's frame, the base and the top agree, *)
(* unless an instruction left values up to the top for this one to take;   *)
(* and what luaF_findupval, luaF_close and lua_yield rely on.              *)
AssertionsHold ==
  /\ m.asserts = ""
  /\ m.mode = "run" => /\ L.base = Top(L).base /\ L.base <= L.top
                       /\ L.top = Top(L).top \/ OpenOp
  /\ UpvaluesSorted /\ CallsAreCounted
  /\ \A t \in 1..Len(m.tabs) : ChainsAreSound(m.tabs[t]) /\ FlagsAreTrue(m.tabs[t])
=============================================================================
