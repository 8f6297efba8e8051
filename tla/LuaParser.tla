----------------------------- MODULE LuaParser -----------------------------
(***************************************************************************)
(* The one-pass compiler of the embedded Lua (src/lua/src/lparser.c): each *)
(* function of the recursive descent is an operator of the same name from  *)
(* the compiler's state s to the next.  s holds                            *)
(*   toks, pos  the tokens of the chunk and the current one,               *)
(*   level      the depth of nested C calls the parser has used,           *)
(*   fs         the FuncState of the function being compiled,              *)
(*   outer      those of the functions around it, outermost first,         *)
(*   e          the expression a rule leaves in its argument v.            *)
(*                                                                         *)
(* A token is <<kind>> or, for names, strings and numbers, <<kind, value>>.*)
(* A syntax error ends the token stream: what the rules that are still     *)
(* active do after it is of no account, the chunk is not used.             *)
(***************************************************************************)
EXTENDS LuaCode

CONSTANTS
    MaxLevels,    \* LUAI_MAXCCALLS: how deep expressions and chunks may nest
    MaxVars,      \* LUAI_MAXVARS: active local variables of a function
    MaxUpvalues   \* LUAI_MAXUPVALUES

Tok(s) == s.toks[s.pos][1]
TokValue(s) == s.toks[s.pos][2]
luaX_next(s) == IF s.pos < Len(s.toks) THEN [s EXCEPT !.pos = @ + 1] ELSE s
luaX_lookahead(s) == IF s.pos < Len(s.toks) THEN s.toks[s.pos + 1][1] ELSE "EOS"

SyntaxError(s, msg) == [s EXCEPT !.pos = Len(s.toks), !.fs = Fail(s.fs, msg),
                                 !.e = ExpDesc("VVOID", 0)]

(* Results of the code generator back into s. *)
OnFs(s, fs) ==
  IF fs.err = "" THEN [s EXCEPT !.fs = fs]
  ELSE SyntaxError([s EXCEPT !.fs = fs], fs.err)
OnE(s, r) == [OnFs(s, r.fs) EXCEPT !.e = r.e]
AssertS(s, ok, what) == [s EXCEPT !.fs = Claim(@, ok, what)]

check(s, c) == IF Tok(s) = c THEN s ELSE SyntaxError(s, "expected " \o c)
checknext(s, c) == luaX_next(check(s, c))
testnext(s, c) == IF Tok(s) = c THEN luaX_next(s) ELSE s
check_match(s, what) == checknext(s, what)
luaY_checklimit(s, v, limit, what) ==
  IF v > limit THEN SyntaxError(s, "too many " \o what) ELSE s

hasmultret(k) == k \in {"VCALL", "VVARARG"}

(* The name or string at hand becomes a constant and the expression. *)
codestring(s, name) ==
  [s EXCEPT !.e = ExpDesc("VK", KIndex(s.fs, Str(name))), !.fs = addk(@, Str(name))]
checkname(s) ==
  IF Tok(s) = "NAME" THEN luaX_next(codestring(s, TokValue(s)))
  ELSE SyntaxError(s, "expected NAME")

-----------------------------------------------------------------------------
(* Variables. *)

new_localvar(s, name, n) ==
  LET ok == luaY_checklimit(s, s.fs.nactvar + n + 1, MaxVars, "local variables")
  IN [ok EXCEPT !.fs.actvar = Append(SubSeq(@, 1, s.fs.nactvar + n), name)]

(* new_localvar(ls, str_checkname(ls), n) *)
NewNamedLocal(s, n) ==
  IF Tok(s) = "NAME" THEN new_localvar(luaX_next(s), TokValue(s), n)
  ELSE SyntaxError(s, "expected NAME")

adjustlocalvars(s, nvars) == [s EXCEPT !.fs.nactvar = @ + nvars]
removevars(fs, tolevel) == [fs EXCEPT !.nactvar = IF @ > tolevel THEN tolevel ELSE @]

searchvar(fs, n) ==
  LET at == {i \in 1..fs.nactvar : fs.actvar[i] = n}
  IN IF at = {} THEN -1 ELSE (CHOOSE i \in at : \A j \in at : j <= i) - 1

(* The innermost block that the variable at this level belongs to. *)
RECURSIVE OwningBlock(_, _, _)
OwningBlock(fs, level, b) ==
  IF b = 0 \/ fs.bl[b].nactvar <= level THEN b ELSE OwningBlock(fs, level, b - 1)
markupval(fs, level) ==
  LET b == OwningBlock(fs, level, Len(fs.bl))
  IN IF b = 0 THEN fs ELSE [fs EXCEPT !.bl[b].upval = TRUE]

indexupvalue(fs, v) ==
  LET d == [k |-> v.k, info |-> v.info]
      known == {i \in 1..Len(fs.upvalues) : fs.upvalues[i] = d}
      added == [fs EXCEPT !.upvalues = Append(@, d)]
  IN IF known # {} THEN [fs |-> fs, i |-> (CHOOSE i \in known : TRUE) - 1]
     ELSE [fs |-> IF Len(fs.upvalues) + 1 > MaxUpvalues
                  THEN Fail(added, "too many upvalues") ELSE added,
           i |-> Len(fs.upvalues)]

(* Looks n up in chain[level] and the functions around it; a local of an   *)
(* outer function becomes an upvalue of every function in between.         *)
RECURSIVE singlevaraux(_, _, _, _)
singlevaraux(chain, n, level, base) ==
  IF level = 0 THEN [chain |-> chain, e |-> ExpDesc("VGLOBAL", NO_REG)]
  ELSE LET v == searchvar(chain[level], n)
           up == singlevaraux(chain, n, level - 1, FALSE)
           u == indexupvalue(up.chain[level], up.e)
       IN IF v >= 0
          THEN [chain |-> IF base THEN chain ELSE [chain EXCEPT ![level] = markupval(@, v)],
                e |-> ExpDesc("VLOCAL", v)]
          ELSE IF up.e.k = "VGLOBAL" THEN up
          ELSE [chain |-> [up.chain EXCEPT ![level] = u.fs],
                e |-> ExpDesc("VUPVAL", u.i)]

singlevar(s) ==
  LET n == TokValue(s)
      r == singlevaraux(Append(s.outer, s.fs), n, Len(s.outer) + 1, TRUE)
      found == OnFs([luaX_next(s) EXCEPT !.outer = SubSeq(r.chain, 1, Len(s.outer)),
                                         !.e = r.e], r.chain[Len(s.outer) + 1])
  IN IF Tok(s) # "NAME" THEN SyntaxError(s, "expected NAME")
     ELSE IF r.e.k = "VGLOBAL"
     THEN [found EXCEPT !.fs = addk(@, Str(n)), !.e.info = KIndex(found.fs, Str(n))]
     ELSE found

(* Makes nvars values out of the nexps on the right, of which e is last.   *)
adjust_assign(s, nvars, nexps) ==
  LET extra == nvars - nexps
      more == IF extra + 1 < 0 THEN 0 ELSE extra + 1
      returns == luaK_setreturns(s.fs, s.e, more)
      closed == IF s.e.k = "VVOID" THEN [fs |-> s.fs, e |-> s.e]
                ELSE luaK_exp2nextreg(s.fs, s.e)
  IN IF hasmultret(s.e.k)
     THEN OnFs(s, IF more > 1 THEN luaK_reserveregs(returns, more - 1) ELSE returns)
     ELSE IF extra > 0
     THEN OnE(s, [closed EXCEPT !.fs = luaK_nil(luaK_reserveregs(closed.fs, extra),
                                                closed.fs.freereg, extra)])
     ELSE OnE(s, closed)

-----------------------------------------------------------------------------
(* Nesting: levels, blocks and functions. *)

enterlevel(s) ==
  LET t == [s EXCEPT !.level = @ + 1]
  IN IF t.level > MaxLevels THEN SyntaxError(t, "chunk has too many syntax levels") ELSE t
leavelevel(s) == [s EXCEPT !.level = @ - 1]

enterblock(fs, isbreakable) ==
  Claim([fs EXCEPT !.bl = Append(@, [breaklist |-> NO_JUMP, isbreakable |-> isbreakable,
                                     nactvar |-> fs.nactvar, upval |-> FALSE])],
        fs.freereg = fs.nactvar, "enterblock")

leaveblock(fs) ==
  LET bl == fs.bl[Len(fs.bl)]
      out == removevars([fs EXCEPT !.bl = SubSeq(@, 1, Len(@) - 1)], bl.nactvar)
      closed == IF bl.upval THEN luaK_codeABC(out, "CLOSE", bl.nactvar, 0, 0) ELSE out
      sane == Claim(closed, /\ ~bl.isbreakable \/ ~bl.upval
                            /\ bl.nactvar = out.nactvar, "leaveblock")
  IN luaK_patchtohere([sane EXCEPT !.freereg = sane.nactvar], bl.breaklist)

NewFuncState(err, asserts) ==
  [code |-> <<>>, consts |-> <<>>, p |-> <<>>, bl |-> <<>>, upvalues |-> <<>>,
   actvar |-> <<>>, nactvar |-> 0, lasttarget |-> -1, jpc |-> NO_JUMP,
   freereg |-> 0, maxstacksize |-> 2, numparams |-> 0, is_vararg |-> {},
   err |-> err, asserts |-> asserts]

open_func(s) == [s EXCEPT !.outer = Append(@, s.fs),
                          !.fs = NewFuncState(s.fs.err, s.fs.asserts)]

ProtoOf(fs) ==
  [code |-> fs.code, consts |-> fs.consts, p |-> fs.p, nups |-> Len(fs.upvalues),
   numparams |-> fs.numparams, is_vararg |-> fs.is_vararg, maxstacksize |-> fs.maxstacksize]

close_func(fs) == Claim(luaK_ret(removevars(fs, 0), 0, 0), fs.bl = <<>>, "close_func")

(* Back to the enclosing function. *)
LeaveFunc(s, closed) ==
  [s EXCEPT !.outer = SubSeq(@, 1, Len(@) - 1),
            !.fs = [s.outer[Len(s.outer)] EXCEPT !.err = closed.err, !.asserts = closed.asserts]]

(* One pseudo instruction per upvalue follows the CLOSURE. *)
RECURSIVE CodeCaptures(_, _)
CodeCaptures(fs, ups) ==
  IF ups = <<>> THEN fs
  ELSE CodeCaptures(luaK_codeABC(fs, IF Head(ups).k = "VLOCAL" THEN "MOVE" ELSE "GETUPVAL",
                                 0, Head(ups).info, 0), Tail(ups))
pushclosure(s, func) ==
  LET added == [s.fs EXCEPT !.p = Append(@, ProtoOf(func))]
      coded == luaK_codeABx(added, "CLOSURE", 0, Len(added.p) - 1)
  IN [s EXCEPT !.fs = CodeCaptures(coded, func.upvalues),
               !.e = ExpDesc("VRELOCABLE", Here(coded))]

-----------------------------------------------------------------------------
(* Expressions. *)

RECURSIVE subexpr(_, _)
RECURSIVE statement(_)
RECURSIVE chunk(_)

expr(s) == subexpr(s, 0)

field(s) ==
  LET any == OnE(s, luaK_exp2anyreg(s.fs, s.e))
      key == checkname(luaX_next(any))
  IN OnE(key, luaK_indexed(key.fs, any.e, key.e))

yindex(s) ==
  LET k == expr(luaX_next(s)) IN checknext(OnE(k, luaK_exp2val(k.fs, k.e)), "]")

recfield(s, treg) ==
  LET key == IF Tok(s) = "NAME" THEN checkname(s) ELSE yindex(s)
      eq == checknext(key, "=")
      rk == luaK_exp2RK(eq.fs, key.e)
      val == expr(OnFs(eq, rk.fs))
      rv == luaK_exp2RK(val.fs, val.e)
      coded == luaK_codeABC(rv.fs, "SETTABLE", treg, Operand(rk.e), Operand(rv.e))
  IN OnFs(val, [coded EXCEPT !.freereg = s.fs.freereg])

(* The items of a constructor: cc holds the table's register, the item     *)
(* read last (v), and how many are keyed (nh), listed (na) and pending.    *)
closelistfield(s, cc) ==
  LET r == luaK_exp2nextreg(s.fs, cc.v)
      full == cc.tostore = FieldsPerFlush
  IN IF cc.v.k = "VVOID" THEN [s |-> s, cc |-> cc]
     ELSE [s |-> OnFs(s, IF full THEN luaK_setlist(r.fs, cc.t, cc.na, cc.tostore) ELSE r.fs),
           cc |-> [cc EXCEPT !.v = ExpDesc("VVOID", 0), !.tostore = IF full THEN 0 ELSE @]]

lastlistfield(s, cc) ==
  LET multi == luaK_setlist(luaK_setreturns(s.fs, cc.v, LUA_MULTRET), cc.t, cc.na, LUA_MULTRET)
      stored == IF cc.v.k = "VVOID" THEN s.fs ELSE luaK_exp2nextreg(s.fs, cc.v).fs
  IN IF cc.tostore = 0 THEN s
     ELSE OnFs(s, IF hasmultret(cc.v.k) THEN multi
                  ELSE luaK_setlist(stored, cc.t, cc.na, cc.tostore))

RECURSIVE ConstructorItems(_, _)
ConstructorItems(s0, cc0) ==
  LET c == closelistfield(AssertS(s0, cc0.v.k = "VVOID" \/ cc0.tostore > 0, "constructor"), cc0)
      keyed == \/ Tok(c.s) = "NAME" /\ luaX_lookahead(c.s) = "="
               \/ Tok(c.s) = "["
      item == IF keyed THEN recfield(c.s, cc0.t) ELSE expr(c.s)
      cc == IF keyed THEN [c.cc EXCEPT !.nh = @ + 1]
            ELSE [c.cc EXCEPT !.na = @ + 1, !.tostore = @ + 1, !.v = item.e]
  IN IF Tok(s0) = "}" THEN [s |-> s0, cc |-> cc0]
     ELSE IF Tok(item) \in {",", ";"} THEN ConstructorItems(luaX_next(item), cc)
     ELSE [s |-> item, cc |-> cc]

constructor(s) ==
  LET new == luaK_codeABC(s.fs, "NEWTABLE", 0, 0, 0)
      t == OnE(s, luaK_exp2nextreg(new, ExpDesc("VRELOCABLE", Here(new))))
      r == ConstructorItems(checknext(t, "{"),
             [t |-> t.e.info, v |-> ExpDesc("VVOID", 0), nh |-> 0, na |-> 0, tostore |-> 0])
      last == lastlistfield(check_match(r.s, "}"), r.cc)
      na == IF r.cc.tostore # 0 /\ hasmultret(r.cc.v.k) THEN r.cc.na - 1 ELSE r.cc.na
  IN [last EXCEPT !.e = t.e, !.fs.code[PC(new)].b = luaO_int2fb(na),
                   !.fs.code[PC(new)].c = luaO_int2fb(r.cc.nh)]

RECURSIVE parlist(_, _)
parlist(s, nparams) ==
  LET p == NewNamedLocal(s, nparams)
      dots == [new_localvar(luaX_next(s), "arg", nparams)
                 EXCEPT !.fs.is_vararg = {"HASARG", "NEEDSARG", "ISVARARG"}]
      n == nparams + 1
  IN CASE Tok(s) = "NAME" ->
            IF Tok(p) = "," THEN parlist(luaX_next(p), n) ELSE [s |-> p, n |-> n]
       [] Tok(s) = "..." -> [s |-> dots, n |-> n]
       [] OTHER -> [s |-> SyntaxError(s, "<name> or '...' expected"), n |-> nparams]

body(s, needself) ==
  LET open == checknext(open_func(s), "(")
      self == IF needself THEN adjustlocalvars(new_localvar(open, "self", 0), 1) ELSE open
      ps == IF Tok(self) = ")" THEN [s |-> self, n |-> 0] ELSE parlist(self, 0)
      a == adjustlocalvars(ps.s, ps.n)
      hasarg == IF "HASARG" \in a.fs.is_vararg THEN 1 ELSE 0
      params == [OnFs(a, luaK_reserveregs(a.fs, a.fs.nactvar))
                   EXCEPT !.fs.numparams = a.fs.nactvar - hasarg]
      end == check_match(chunk(checknext(params, ")")), "end")
      func == close_func(end.fs)
  IN pushclosure(LeaveFunc(end, func), func)

RECURSIVE MoreExps(_, _)
MoreExps(s, n) ==
  IF Tok(s) # "," THEN [s |-> s, n |-> n]
  ELSE LET c == luaX_next(s)
       IN MoreExps(expr(OnFs(c, luaK_exp2nextreg(c.fs, c.e).fs)), n + 1)
explist1(s) == MoreExps(expr(s), 1)

funcargs(s) ==
  LET f == s.e
      base == f.info
      list == explist1(luaX_next(s)).s
      args == CASE Tok(s) = "(" /\ Tok(luaX_next(s)) = ")" ->
                     luaX_next([luaX_next(s) EXCEPT !.e = ExpDesc("VVOID", 0)])
                [] Tok(s) = "(" /\ Tok(luaX_next(s)) # ")" ->
                     check_match(OnFs(list, luaK_setreturns(list.fs, list.e, LUA_MULTRET)), ")")
                [] Tok(s) = "{" -> constructor(s)
                [] Tok(s) = "STRING" -> luaX_next(codestring(s, TokValue(s)))
                [] OTHER -> SyntaxError(s, "function arguments expected")
      open == hasmultret(args.e.k)
      closed == IF open \/ args.e.k = "VVOID" THEN args.fs
                ELSE luaK_exp2nextreg(args.fs, args.e).fs
      nparams == IF open THEN LUA_MULTRET ELSE closed.freereg - (base + 1)
      coded == luaK_codeABC(Claim(closed, f.k = "VNONRELOC", "funcargs"),
                            "CALL", base, nparams + 1, 2)
  IN [OnFs(args, [coded EXCEPT !.freereg = base + 1])
        EXCEPT !.e = ExpDesc("VCALL", Here(coded))]

prefixexp(s) ==
  LET inner == check_match(expr(luaX_next(s)), ")")
  IN CASE Tok(s) = "(" -> OnE(inner, luaK_dischargevars(inner.fs, inner.e))
       [] Tok(s) = "NAME" -> singlevar(s)
       [] OTHER -> SyntaxError(s, "unexpected symbol")

RECURSIVE Suffixes(_)
Suffixes(s) ==
  LET any == OnE(s, luaK_exp2anyreg(s.fs, s.e))
      index == yindex(any)
      name == checkname(luaX_next(s))
      next == OnE(s, luaK_exp2nextreg(s.fs, s.e))
  IN CASE Tok(s) = "." -> Suffixes(field(s))
       [] Tok(s) = "[" -> Suffixes(OnE(index, luaK_indexed(index.fs, any.e, index.e)))
       [] Tok(s) = ":" -> Suffixes(funcargs(OnE(name, luaK_self(name.fs, s.e, name.e))))
       [] Tok(s) \in {"(", "STRING", "{"} -> Suffixes(funcargs(next))
       [] OTHER -> s
primaryexp(s) == Suffixes(prefixexp(s))

simpleexp(s) ==
  LET coded == luaK_codeABC(s.fs, "VARARG", 0, 1, 0)
      dots == [s EXCEPT !.fs = [coded EXCEPT !.is_vararg = @ \ {"NEEDSARG"}],
                        !.e = ExpDesc("VVARARG", Here(coded))]
  IN CASE Tok(s) = "NUMBER" ->
            luaX_next([s EXCEPT !.e = [ExpDesc("VKNUM", 0) EXCEPT !.nval = TokValue(s)]])
       [] Tok(s) = "STRING" -> luaX_next(codestring(s, TokValue(s)))
       [] Tok(s) = "nil" -> luaX_next([s EXCEPT !.e = ExpDesc("VNIL", 0)])
       [] Tok(s) = "true" -> luaX_next([s EXCEPT !.e = ExpDesc("VTRUE", 0)])
       [] Tok(s) = "false" -> luaX_next([s EXCEPT !.e = ExpDesc("VFALSE", 0)])
       [] Tok(s) = "..." ->
            IF s.fs.is_vararg = {}
            THEN SyntaxError(s, "cannot use '...' outside a vararg function")
            ELSE luaX_next(dots)
       [] Tok(s) = "{" -> constructor(s)
       [] Tok(s) = "function" -> body(luaX_next(s), FALSE)
       [] OTHER -> primaryexp(s)

UnaryOps == {"not", "-", "#"}
UNARY_PRIORITY == 8

(* The left and right priorities of the binary operators. *)
priority(o) ==
  CASE o \in {"+", "-"} -> <<6, 6>>
    [] o \in {"*", "/", "%"} -> <<7, 7>>
    [] o = "^" -> <<10, 9>>
    [] o = ".." -> <<5, 4>>
    [] o \in {"~=", "==", "<", "<=", ">", ">="} -> <<3, 3>>
    [] o = "and" -> <<2, 2>>
    [] o = "or" -> <<1, 1>>
    [] OTHER -> <<0, 0>>  \* not a binary operator

(* Extends v = s.e to the right while the operators bind closer than limit. *)
RECURSIVE Operators(_, _)
Operators(s, limit) ==
  LET o == Tok(s)
      left == OnE(luaX_next(s), luaK_infix(s.fs, o, s.e))
      right == subexpr(left, priority(o)[2])
  IN IF priority(o)[1] <= limit THEN s
     ELSE Operators(OnE(right, luaK_posfix(right.fs, o, left.e, right.e)), limit)

subexpr(s0, limit) ==
  LET s == enterlevel(s0)
      operand == subexpr(luaX_next(s), UNARY_PRIORITY)
      first == IF Tok(s) \in UnaryOps
               THEN OnE(operand, luaK_prefix(operand.fs, Tok(s), operand.e))
               ELSE simpleexp(s)
  IN leavelevel(Operators(first, limit))

-----------------------------------------------------------------------------
(* Statements. *)

block_follow(token) == token \in {"else", "elseif", "end", "until", "EOS"}

Block(s) ==
  LET c == chunk(OnFs(s, enterblock(s.fs, FALSE)))
      sane == Claim(c.fs, c.fs.bl[Len(c.fs.bl)].breaklist = NO_JUMP, "block")
  IN OnFs(c, leaveblock(sane))

(* Mutant: the table or key is assigned to first and then used.            *)
check_conflictNot(fs, lhs, v) == [fs |-> fs, lhs |-> lhs]

(* An assignment to the local v must not change a table or a key that an   *)
(* assignment on its left still needs: that one gets a copy.               *)
check_conflict(fs, lhs, v) ==
  LET hit(x) == x.k = "VINDEXED" /\ (x.info = v.info \/ x.aux = v.info)
      safe(r) == IF r = v.info THEN fs.freereg ELSE r
  IN IF \A i \in 1..Len(lhs) : ~hit(lhs[i]) THEN [fs |-> fs, lhs |-> lhs]
     ELSE [fs |-> luaK_reserveregs(luaK_codeABC(fs, "MOVE", fs.freereg, v.info, 0), 1),
           lhs |-> [i \in 1..Len(lhs) |->
                      IF hit(lhs[i]) THEN [lhs[i] EXCEPT !.info = safe(@), !.aux = safe(@)]
                      ELSE lhs[i]]]

(* Stores the values on the stack in the first n variables, last to first. *)
RECURSIVE StoreRest(_, _, _)
StoreRest(fs, lhs, n) ==
  IF n = 0 THEN fs
  ELSE StoreRest(luaK_storevar(fs, lhs[n], ExpDesc("VNONRELOC", fs.freereg - 1)), lhs, n - 1)

RECURSIVE assignment(_, _)
assignment(s, lhs) ==
  LET nvars == Len(lhs)
      nv == primaryexp(luaX_next(s))
      c == IF nv.e.k = "VLOCAL" THEN check_conflict(nv.fs, lhs, nv.e)
           ELSE [fs |-> nv.fs, lhs |-> lhs]
      exps == explist1(checknext(s, "="))
      a == adjust_assign(exps.s, nvars, exps.n)
      fitted == IF exps.n > nvars THEN [a.fs EXCEPT !.freereg = @ - (exps.n - nvars)] ELSE a.fs
      one == luaK_setoneret(exps.s.fs, exps.s.e)
      stored == luaK_storevar(one.fs, lhs[nvars], one.e)
  IN IF lhs[nvars].k \notin {"VLOCAL", "VUPVAL", "VGLOBAL", "VINDEXED"}
     THEN SyntaxError(s, "syntax error")
     ELSE IF Tok(s) = "," THEN assignment(OnFs(nv, c.fs), Append(c.lhs, nv.e))
     ELSE IF exps.n = nvars THEN OnFs(exps.s, StoreRest(stored, lhs, nvars - 1))
     ELSE OnFs(a, StoreRest(fitted, lhs, nvars))

(* The jumps taken when the condition is false are left in e.f. *)
cond(s) ==
  LET c == expr(s)
      v == IF c.e.k = "VNIL" THEN [c.e EXCEPT !.k = "VFALSE"] ELSE c.e
  IN OnE(c, luaK_goiftrue(c.fs, v))

breakstat(s) ==
  LET n == Len(s.fs.bl)
      loops == {b \in 1..n : s.fs.bl[b].isbreakable}
      loop == CHOOSE b \in loops : \A c \in loops : c <= b
      bl == s.fs.bl[loop]
      upval == \E b \in loop + 1..n : s.fs.bl[b].upval
      closed == IF upval THEN luaK_codeABC(s.fs, "CLOSE", bl.nactvar, 0, 0) ELSE s.fs
      jumped == luaK_jump(closed)
      j == Here(jumped)
  IN IF loops = {} THEN SyntaxError(s, "no loop to break")
     ELSE OnFs(s, [luaK_concat(jumped, bl.breaklist, j)
                     EXCEPT !.bl[loop].breaklist = ConcatHead(@, j)])

(* luaK_patchlist(fs, luaK_jump(fs), target) *)
JumpBack(fs, target) == LET j == luaK_jump(fs) IN luaK_patchlist(j, Here(j), target)

whilestat(s) ==
  LET next == luaX_next(s)
      whileinit == PC(next.fs)
      c == cond([next EXCEPT !.fs = luaK_getlabel(@)])
      b == Block(checknext(OnFs(c, enterblock(c.fs, TRUE)), "do"))
      end == check_match(OnFs(b, JumpBack(b.fs, whileinit)), "end")
  IN OnFs(end, luaK_patchtohere(leaveblock(end.fs), c.e.f))

repeatstat(s) ==
  LET repeat_init == PC(s.fs)
      fs == enterblock(enterblock(luaK_getlabel(s.fs), TRUE), FALSE)
      c == cond(check_match(chunk(luaX_next(OnFs(s, fs))), "until"))
      captured == c.fs.bl[Len(c.fs.bl)].upval
      out == breakstat(c)
      again == leaveblock(luaK_patchtohere(out.fs, c.e.f))
  IN IF captured THEN OnFs(out, leaveblock(JumpBack(again, repeat_init)))
     ELSE OnFs(c, leaveblock(luaK_patchlist(leaveblock(c.fs), c.e.f, repeat_init)))

exp1(s) == LET x == expr(s) IN OnFs(x, luaK_exp2nextreg(x.fs, x.e).fs)

forbody(s, base, nvars, isnum) ==
  LET a == checknext(adjustlocalvars(s, 3), "do")
      prep == IF isnum THEN luaK_codeAsBx(a.fs, "FORPREP", base, NO_JUMP) ELSE luaK_jump(a.fs)
      vars == adjustlocalvars(OnFs(a, enterblock(prep, FALSE)), nvars)
      b == Block(OnFs(vars, luaK_reserveregs(vars.fs, nvars)))
      after == luaK_patchtohere(leaveblock(b.fs), Here(prep))
      endfor == IF isnum THEN luaK_codeAsBx(after, "FORLOOP", base, NO_JUMP)
                ELSE luaK_jump(luaK_codeABC(after, "TFORLOOP", base, 0, nvars))
  IN OnFs(b, luaK_patchlist(endfor, Here(endfor), Here(prep) + 1))

fornum(s, varname) ==
  LET base == s.fs.freereg
      control == new_localvar(new_localvar(new_localvar(new_localvar(s,
                   "(for index)", 0), "(for limit)", 1), "(for step)", 2), varname, 3)
      limit == exp1(checknext(exp1(checknext(control, "=")), ","))
      one == luaK_codeABx(addk(limit.fs, Num(1)), "LOADK", limit.fs.freereg,
                          KIndex(limit.fs, Num(1)))
      step == IF Tok(limit) = "," THEN exp1(luaX_next(limit))
              ELSE OnFs(limit, luaK_reserveregs(one, 1))
  IN forbody(step, base, 1, TRUE)

RECURSIVE NamedLocals(_, _)
NamedLocals(s, n) ==
  IF Tok(s) # "," THEN [s |-> s, n |-> n]
  ELSE NamedLocals(NewNamedLocal(luaX_next(s), n), n + 1)

forlist(s, indexname) ==
  LET base == s.fs.freereg
      control == new_localvar(new_localvar(new_localvar(s,
                   "(for generator)", 0), "(for state)", 1), "(for control)", 2)
      vars == NamedLocals(new_localvar(control, indexname, 3), 4)
      exps == explist1(checknext(vars.s, "in"))
      a == adjust_assign(exps.s, 3, exps.n)
  IN forbody(OnFs(a, luaK_checkstack(a.fs, 3)), base, vars.n - 3, FALSE)

forstat(s) ==
  LET name == luaX_next(OnFs(s, enterblock(s.fs, TRUE)))
      rest == luaX_next(name)
      loop == CASE Tok(name) # "NAME" -> SyntaxError(name, "expected NAME")
                [] Tok(name) = "NAME" /\ Tok(rest) = "=" -> fornum(rest, TokValue(name))
                [] Tok(name) = "NAME" /\ Tok(rest) \in {",", "in"} ->
                     forlist(rest, TokValue(name))
                [] OTHER -> SyntaxError(rest, "'=' or 'in' expected")
      end == check_match(loop, "end")
  IN OnFs(end, leaveblock(end.fs))

(* The jumps taken when the condition is false come with the state. *)
test_then_block(s) ==
  LET c == cond(luaX_next(s)) IN [s |-> Block(checknext(c, "then")), flist |-> c.e.f]

(* escapelist: the jumps from the ends of the branches taken. *)
RECURSIVE IfBranches(_, _)
IfBranches(t, escapelist) ==
  LET jumped == luaK_jump(t.s.fs)
      joined == luaK_concat(jumped, escapelist, Here(jumped))
      escapes == ConcatHead(escapelist, Here(jumped))
      next == OnFs(t.s, luaK_patchtohere(joined, t.flist))
      otherwise == Block(luaX_next(next))
  IN CASE Tok(t.s) = "elseif" -> IfBranches(test_then_block(next), escapes)
       [] Tok(t.s) = "else" -> OnFs(otherwise, luaK_patchtohere(otherwise.fs, escapes))
       [] OTHER -> OnFs(t.s, luaK_patchtohere(luaK_concat(t.s.fs, escapelist, t.flist),
                                              ConcatHead(escapelist, t.flist)))
ifstat(s) == check_match(IfBranches(test_then_block(s), NO_JUMP), "end")

localfunc(s) ==
  LET name == NewNamedLocal(s, 0)
      v == ExpDesc("VLOCAL", name.fs.freereg)
      b == body(adjustlocalvars(OnFs(name, luaK_reserveregs(name.fs, 1)), 1), FALSE)
  IN OnFs(b, luaK_storevar(b.fs, v, b.e))

localstat(s) ==
  LET names == NamedLocals(NewNamedLocal(s, 0), 1)
      exps == IF Tok(names.s) = "=" THEN explist1(luaX_next(names.s))
              ELSE [s |-> [names.s EXCEPT !.e = ExpDesc("VVOID", 0)], n |-> 0]
  IN adjustlocalvars(adjust_assign(exps.s, names.n, exps.n), names.n)

RECURSIVE Fields(_)
Fields(s) == IF Tok(s) = "." THEN Fields(field(s)) ELSE s

funcstat(s) ==
  LET name == Fields(singlevar(luaX_next(s)))
      needself == Tok(name) = ":"
      v == IF needself THEN field(name) ELSE name
      b == body(v, needself)
  IN OnFs(b, luaK_storevar(b.fs, v.e, b.e))

exprstat(s) ==
  LET v == primaryexp(s)
  IN IF v.e.k = "VCALL" THEN [v EXCEPT !.fs.code[v.e.info + 1].c = 1]
     ELSE assignment(v, <<v.e>>)

retstat(s) ==
  LET next == luaX_next(s)
      exps == explist1(next)
      t == exps.s
      multi == luaK_setreturns(t.fs, t.e, LUA_MULTRET)
      call == Instr(multi, t.e.info)
      tail == Claim([multi EXCEPT !.code[t.e.info + 1].op = "TAILCALL"],
                    call.a = multi.nactvar, "tailcall")
      single == luaK_exp2anyreg(t.fs, t.e)
      pushed == luaK_exp2nextreg(t.fs, t.e).fs
      sane == Claim(pushed, exps.n = pushed.freereg - pushed.nactvar, "retstat")
  IN IF block_follow(Tok(next)) \/ Tok(next) = ";" THEN OnFs(next, luaK_ret(next.fs, 0, 0))
     ELSE IF hasmultret(t.e.k)
     THEN OnFs(t, luaK_ret(IF t.e.k = "VCALL" /\ exps.n = 1 THEN tail ELSE multi,
                           multi.nactvar, LUA_MULTRET))
     ELSE IF exps.n = 1 THEN OnFs(t, luaK_ret(single.fs, single.e.info, 1))
     ELSE OnFs(t, luaK_ret(sane, sane.nactvar, exps.n))

statement(s) ==
  CASE Tok(s) = "if" -> ifstat(s)
    [] Tok(s) = "while" -> whilestat(s)
    [] Tok(s) = "do" -> check_match(Block(luaX_next(s)), "end")
    [] Tok(s) = "for" -> forstat(s)
    [] Tok(s) = "repeat" -> repeatstat(s)
    [] Tok(s) = "function" -> funcstat(s)
    [] Tok(s) = "local" ->
         IF Tok(luaX_next(s)) = "function" THEN localfunc(luaX_next(luaX_next(s)))
         ELSE localstat(luaX_next(s))
    [] Tok(s) = "return" -> retstat(s)
    [] Tok(s) = "break" -> breakstat(luaX_next(s))
    [] OTHER -> exprstat(s)

(* Statements, until one that must be the last or the end of the block. *)
RECURSIVE Statements(_)
Statements(s) ==
  LET done == testnext(statement(s), ";")
      fs == Claim(done.fs, /\ done.fs.maxstacksize >= done.fs.freereg
                           /\ done.fs.freereg >= done.fs.nactvar, "chunk")
      clean == OnFs(done, [fs EXCEPT !.freereg = fs.nactvar])
  IN IF block_follow(Tok(s)) THEN s
     ELSE IF Tok(s) \in {"return", "break"} THEN clean
     ELSE Statements(clean)

chunk(s) == leavelevel(Statements(enterlevel(s)))

(* The compiled main function, and what went wrong on the way. *)
luaY_parser(toks) ==
  LET new == [toks |-> Append(toks, <<"EOS">>), pos |-> 1, level |-> 0, outer |-> <<>>,
              fs |-> [NewFuncState("", "") EXCEPT !.is_vararg = {"ISVARARG"}],
              e |-> ExpDesc("VVOID", 0)]
      main == close_func(check(chunk(new), "EOS").fs)
      sane == Claim(main, main.upvalues = <<>>, "main upvalues")
  IN [proto |-> ProtoOf(sane), err |-> sane.err, asserts |-> sane.asserts]
=============================================================================
