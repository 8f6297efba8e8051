------------------------------ MODULE LuaCode ------------------------------
(***************************************************************************)
(* The code generator of the embedded Lua compiler (src/lua/src/lcode.c).  *)
(* Every function of lcode.c that changes the FuncState is an operator of  *)
(* the same name that takes the FuncState fs and returns the new one; one  *)
(* that changes an expression descriptor e as well returns the record      *)
(* [fs |-> , e |-> ], two of them [fs, e1, e2].  A function that returns   *)
(* the pc of the code it wrote is followed by Here, the last pc of fs.     *)
(*                                                                         *)
(* Jump lists are threaded through the jumps themselves, as in the code:   *)
(* the offset NO_JUMP, which would be a jump to itself, ends a list.       *)
(* fs.err keeps the first luaX_syntaxerror and fs.asserts the first failed *)
(* lua_assert; the generator stops at neither, the parser stops at err.    *)
(***************************************************************************)
EXTENDS LuaOpcodes, TLC

CONSTANT MaxStack  \* MAXSTACK: the registers a function may use

NO_JUMP == -1

(* expdesc: the kind of an expression, where it is, and the jumps that     *)
(* leave it when it is true (t) and when it is false (f).                  *)
ExpDesc(k, info) ==
  [k |-> k, info |-> info, aux |-> 0, nval |-> 0, t |-> NO_JUMP, f |-> NO_JUMP]

hasjumps(e) == e.t # e.f
isnumeral(e) == e.k = "VKNUM" /\ e.t = NO_JUMP /\ e.f = NO_JUMP

Fail(fs, msg) == IF fs.err = "" THEN [fs EXCEPT !.err = msg] ELSE fs
Claim(fs, ok, what) ==
  IF ok \/ fs.asserts # "" THEN fs ELSE [fs EXCEPT !.asserts = what]

PC(fs) == Len(fs.code)        \* fs->pc
Here(fs) == Len(fs.code) - 1  \* the pc of the instruction written last
Instr(fs, pc) == fs.code[pc + 1]

-----------------------------------------------------------------------------
(* Jump lists. *)

fixjump(fs, pc, dest) ==
  Claim([fs EXCEPT !.code[pc + 1].b = dest - (pc + 1)], dest # NO_JUMP, "fixjump")

luaK_getlabel(fs) == [fs EXCEPT !.lasttarget = PC(fs)]

getjump(fs, pc) ==
  IF Instr(fs, pc).b = NO_JUMP THEN NO_JUMP ELSE pc + 1 + Instr(fs, pc).b

(* The instruction that decides whether the jump at pc is taken. *)
getjumpcontrol(fs, pc) ==
  IF pc >= 1 /\ testTMode(Instr(fs, pc - 1).op) THEN pc - 1 ELSE pc

RECURSIVE need_value(_, _)
need_value(fs, list) ==
  /\ list # NO_JUMP
  /\ \/ Instr(fs, getjumpcontrol(fs, list)).op # "TESTSET"
     \/ need_value(fs, getjump(fs, list))

Patchable(fs, node) == Instr(fs, getjumpcontrol(fs, node)).op = "TESTSET"

patchtestreg(fs, node, reg) ==
  LET at == getjumpcontrol(fs, node)
      i == Instr(fs, at)
  IN IF i.op # "TESTSET" THEN fs
     ELSE IF reg # NO_REG /\ reg # i.b THEN [fs EXCEPT !.code[at + 1].a = reg]
     ELSE [fs EXCEPT !.code[at + 1] = CREATE_ABC("TEST", i.b, 0, i.c)]

RECURSIVE removevalues(_, _)
removevalues(fs, list) ==
  IF list = NO_JUMP THEN fs
  ELSE removevalues(patchtestreg(fs, list, NO_REG), getjump(fs, list))

RECURSIVE patchlistaux(_, _, _, _, _)
patchlistaux(fs, list, vtarget, reg, dtarget) ==
  IF list = NO_JUMP THEN fs
  ELSE LET target == IF Patchable(fs, list) THEN vtarget ELSE dtarget
       IN patchlistaux(fixjump(patchtestreg(fs, list, reg), list, target),
                       getjump(fs, list), vtarget, reg, dtarget)

dischargejpc(fs) ==
  [patchlistaux(fs, fs.jpc, PC(fs), NO_REG, PC(fs)) EXCEPT !.jpc = NO_JUMP]

RECURSIVE LastJump(_, _)
LastJump(fs, list) ==
  IF getjump(fs, list) = NO_JUMP THEN list ELSE LastJump(fs, getjump(fs, list))

(* luaK_concat changes the list l1 in place: its new head, and the new fs. *)
ConcatHead(l1, l2) == IF l1 = NO_JUMP THEN l2 ELSE l1
luaK_concat(fs, l1, l2) ==
  IF l2 = NO_JUMP \/ l1 = NO_JUMP THEN fs ELSE fixjump(fs, LastJump(fs, l1), l2)

luaK_patchtohere(fs, list) ==
  LET marked == luaK_getlabel(fs)
  IN [luaK_concat(marked, fs.jpc, list) EXCEPT !.jpc = ConcatHead(fs.jpc, list)]

luaK_patchlist(fs, list, target) ==
  IF target = PC(fs) THEN luaK_patchtohere(fs, list)
  ELSE patchlistaux(Claim(fs, target < PC(fs), "patchlist"),
                    list, target, NO_REG, target)

-----------------------------------------------------------------------------
(* Writing instructions. *)

luaK_code(fs, i) == LET d == dischargejpc(fs) IN [d EXCEPT !.code = Append(@, i)]

luaK_codeABC(fs, o, a, b, c) ==
  luaK_code(Claim(fs, /\ getOpMode(o) = "ABC"
                      /\ getBMode(o) = "N" => b = 0
                      /\ getCMode(o) = "N" => c = 0, "codeABC"),
            CREATE_ABC(o, a, b, c))

luaK_codeABx(fs, o, a, bx) ==
  luaK_code(Claim(fs, getOpMode(o) \in {"ABx", "AsBx"} /\ getCMode(o) = "N", "codeABx"),
            CREATE_ABC(o, a, bx, 0))

luaK_codeAsBx(fs, o, a, sbx) == luaK_codeABx(fs, o, a, sbx)

luaK_nil(fs, from, n) ==
  LET fresh == luaK_codeABC(fs, "LOADNIL", from, from + n - 1, 0)
      prev == Instr(fs, Here(fs))
  IN IF PC(fs) <= fs.lasttarget THEN fresh
     ELSE IF PC(fs) = 0 THEN fs                 \* positions are already clean
     ELSE IF prev.op = "LOADNIL" /\ prev.a <= from /\ from <= prev.b + 1
          THEN (IF from + n - 1 > prev.b
                THEN [fs EXCEPT !.code[PC(fs)].b = from + n - 1] ELSE fs)
     ELSE fresh

(* The pending jumps to here go on hold: they join the new jump's list. *)
luaK_jump(fs) ==
  LET coded == luaK_codeAsBx([fs EXCEPT !.jpc = NO_JUMP], "JMP", 0, NO_JUMP)
  IN luaK_concat(coded, Here(coded), fs.jpc)

luaK_ret(fs, first, nret) == luaK_codeABC(fs, "RETURN", first, nret + 1, 0)

condjump(fs, o, a, b, c) == luaK_jump(luaK_codeABC(fs, o, a, b, c))

(* The batch number of a SETLIST that does not fit C follows as a word. *)
luaK_setlist(fs, base, nelems, tostore) ==
  LET c == (nelems - 1) \div FieldsPerFlush + 1
      b == IF tostore = LUA_MULTRET THEN 0 ELSE tostore
      ok == Claim(fs, tostore # 0, "setlist")
      coded == IF c <= MAXARG_C THEN luaK_codeABC(ok, "SETLIST", base, b, c)
               ELSE luaK_code(luaK_codeABC(ok, "SETLIST", base, b, 0),
                              CREATE_ABC("WORD", 0, c, 0))
  IN [coded EXCEPT !.freereg = base + 1]

-----------------------------------------------------------------------------
(* Registers and constants. *)

\* Mutant: off by one.
luaK_checkstackShort(fs, n) ==
  IF fs.freereg + n <= fs.maxstacksize + 1 THEN fs
  ELSE [fs EXCEPT !.maxstacksize = fs.freereg + n]

luaK_checkstack(fs, n) ==
  LET newstack == fs.freereg + n
  IN IF newstack <= fs.maxstacksize THEN fs
     ELSE IF newstack >= MaxStack THEN Fail(fs, "function or expression too complex")
     ELSE [fs EXCEPT !.maxstacksize = newstack]

luaK_reserveregs(fs, n) == [luaK_checkstack(fs, n) EXCEPT !.freereg = @ + n]

freereg(fs, reg) ==
  IF ISK(reg) \/ reg < fs.nactvar THEN fs
  ELSE Claim([fs EXCEPT !.freereg = @ - 1], reg = fs.freereg - 1, "freereg")

freeexp(fs, e) == IF e.k = "VNONRELOC" THEN freereg(fs, e.info) ELSE fs

(* The index a constant has, or will have once it is added. *)
KIndex(fs, v) ==
  IF \E i \in 1..Len(fs.consts) : fs.consts[i] = v
  THEN (CHOOSE i \in 1..Len(fs.consts) : fs.consts[i] = v) - 1
  ELSE Len(fs.consts)
addk(fs, v) ==
  IF KIndex(fs, v) < Len(fs.consts) THEN fs ELSE [fs EXCEPT !.consts = Append(@, v)]

-----------------------------------------------------------------------------
(* Open calls and `...`: how many values they leave. *)

luaK_setreturns(fs, e, nresults) ==
  CASE e.k = "VCALL" -> [fs EXCEPT !.code[e.info + 1].c = nresults + 1]
    [] e.k = "VVARARG" ->
         luaK_reserveregs([fs EXCEPT !.code[e.info + 1].b = nresults + 1,
                                     !.code[e.info + 1].a = fs.freereg], 1)
    [] OTHER -> fs

luaK_setoneret(fs, e) ==
  CASE e.k = "VCALL" -> [fs |-> fs, e |-> [e EXCEPT !.k = "VNONRELOC",
                                                    !.info = Instr(fs, e.info).a]]
    [] e.k = "VVARARG" -> [fs |-> [fs EXCEPT !.code[e.info + 1].b = 2],
                           e |-> [e EXCEPT !.k = "VRELOCABLE"]]
    [] OTHER -> [fs |-> fs, e |-> e]

(* The expression e became the result of the instruction just written. *)
Relocable(coded, e) ==
  [fs |-> coded, e |-> [e EXCEPT !.k = "VRELOCABLE", !.info = Here(coded)]]

luaK_dischargevars(fs, e) ==
  CASE e.k = "VLOCAL" -> [fs |-> fs, e |-> [e EXCEPT !.k = "VNONRELOC"]]
    [] e.k = "VUPVAL" -> Relocable(luaK_codeABC(fs, "GETUPVAL", 0, e.info, 0), e)
    [] e.k = "VGLOBAL" -> Relocable(luaK_codeABx(fs, "GETGLOBAL", 0, e.info), e)
    [] e.k = "VINDEXED" ->
         Relocable(luaK_codeABC(freereg(freereg(fs, e.aux), e.info),
                                "GETTABLE", 0, e.info, e.aux), e)
    [] e.k \in {"VVARARG", "VCALL"} -> luaK_setoneret(fs, e)
    [] OTHER -> [fs |-> fs, e |-> e]

code_label(fs, a, b, jump) == luaK_codeABC(luaK_getlabel(fs), "LOADBOOL", a, b, jump)

(* Puts the value in a register; a jump, or no value, is left alone. *)
discharge2reg(fs0, e0, reg) ==
  LET d == luaK_dischargevars(fs0, e0)
      fs == d.fs
      e == d.e
      kn == KIndex(fs, Num(e.nval))
      coded ==
        CASE e.k = "VNIL" -> luaK_nil(fs, reg, 1)
          [] e.k = "VFALSE" -> luaK_codeABC(fs, "LOADBOOL", reg, 0, 0)
          [] e.k = "VTRUE" -> luaK_codeABC(fs, "LOADBOOL", reg, 1, 0)
          [] e.k = "VK" -> luaK_codeABx(fs, "LOADK", reg, e.info)
          [] e.k = "VKNUM" -> luaK_codeABx(addk(fs, Num(e.nval)), "LOADK", reg, kn)
          [] e.k = "VRELOCABLE" -> [fs EXCEPT !.code[e.info + 1].a = reg]
          [] e.k = "VNONRELOC" /\ e.info # reg -> luaK_codeABC(fs, "MOVE", reg, e.info, 0)
          [] OTHER -> fs
  IN IF e.k \in {"VVOID", "VJMP"} THEN d
     ELSE [fs |-> coded, e |-> [e EXCEPT !.k = "VNONRELOC", !.info = reg]]

discharge2anyreg(fs, e) ==
  IF e.k = "VNONRELOC" THEN [fs |-> fs, e |-> e]
  ELSE LET r == luaK_reserveregs(fs, 1) IN discharge2reg(r, e, r.freereg - 1)

(* The jumps of e that bring a value bring it to reg; the others go to a   *)
(* LOADBOOL false or true, written only when there are such jumps.         *)
exp2reg(fs0, e0, reg) ==
  LET d == discharge2reg(fs0, e0, reg)
      jmp == d.e.k = "VJMP"
      t == IF jmp THEN ConcatHead(d.e.t, d.e.info) ELSE d.e.t
      fs1 == IF jmp THEN luaK_concat(d.fs, d.e.t, d.e.info) ELSE d.fs
      f == d.e.f
      loads == need_value(fs1, t) \/ need_value(fs1, f)
      fs2 == IF jmp THEN fs1 ELSE luaK_jump(fs1)
      fj == IF jmp THEN NO_JUMP ELSE Here(fs2)
      fsF == code_label(fs2, reg, 0, 1)
      fsT == code_label(fsF, reg, 1, 0)
      fs3 == luaK_getlabel(IF loads THEN luaK_patchtohere(fsT, fj) ELSE fs1)
      fs4 == patchlistaux(fs3, f, PC(fs3), reg, IF loads THEN Here(fsF) ELSE NO_JUMP)
      fs5 == patchlistaux(fs4, t, PC(fs3), reg, IF loads THEN Here(fsT) ELSE NO_JUMP)
  IN [fs |-> IF t # f THEN fs5 ELSE fs1, e |-> ExpDesc("VNONRELOC", reg)]

luaK_exp2nextreg(fs, e) ==
  LET d == luaK_dischargevars(fs, e)
      r == luaK_reserveregs(freeexp(d.fs, d.e), 1)
  IN exp2reg(r, d.e, r.freereg - 1)

(* The register is the info of the resulting e. *)
luaK_exp2anyreg(fs, e) ==
  LET d == luaK_dischargevars(fs, e)
  IN IF d.e.k = "VNONRELOC" /\ ~hasjumps(d.e) THEN d
     ELSE IF d.e.k = "VNONRELOC" /\ d.e.info >= d.fs.nactvar
          THEN exp2reg(d.fs, d.e, d.e.info)
     ELSE luaK_exp2nextreg(d.fs, d.e)

luaK_exp2val(fs, e) ==
  IF hasjumps(e) THEN luaK_exp2anyreg(fs, e) ELSE luaK_dischargevars(fs, e)

(* A constant that fits an RK operand, or a register: Operand of the e it  *)
(* results in is the operand.                                              *)
luaK_exp2RK(fs, e) ==
  LET d == luaK_exp2val(fs, e)
      v == CASE d.e.k = "VNIL" -> Nil
             [] d.e.k = "VTRUE" -> Bool(TRUE)
             [] d.e.k = "VFALSE" -> Bool(FALSE)
             [] d.e.k = "VKNUM" -> Num(d.e.nval)
  IN IF d.e.k \in {"VKNUM", "VTRUE", "VFALSE", "VNIL"} /\ Len(d.fs.consts) <= MaxIndexRK
     THEN [fs |-> addk(d.fs, v), e |-> [d.e EXCEPT !.k = "VK", !.info = KIndex(d.fs, v)]]
     ELSE IF d.e.k = "VK" /\ d.e.info <= MaxIndexRK THEN d
     ELSE luaK_exp2anyreg(d.fs, d.e)
Operand(e) == IF e.k = "VK" THEN RKASK(e.info) ELSE e.info

luaK_storevar(fs, var, ex) ==
  LET any == luaK_exp2anyreg(fs, ex)
      rk == luaK_exp2RK(fs, ex)
  IN CASE var.k = "VLOCAL" -> exp2reg(freeexp(fs, ex), ex, var.info).fs
       [] var.k = "VUPVAL" ->
            freeexp(luaK_codeABC(any.fs, "SETUPVAL", any.e.info, var.info, 0), any.e)
       [] var.k = "VGLOBAL" ->
            freeexp(luaK_codeABx(any.fs, "SETGLOBAL", any.e.info, var.info), any.e)
       [] var.k = "VINDEXED" ->
            freeexp(luaK_codeABC(rk.fs, "SETTABLE", var.info, var.aux, Operand(rk.e)), rk.e)
       [] OTHER -> Claim(fs, FALSE, "storevar")

luaK_self(fs, e, key) ==
  LET o == luaK_exp2anyreg(fs, e)
      r == luaK_reserveregs(freeexp(o.fs, o.e), 2)
      func == r.freereg - 2
      k == luaK_exp2RK(r, key)
      coded == luaK_codeABC(k.fs, "SELF", func, o.e.info, Operand(k.e))
  IN [fs |-> freeexp(coded, k.e),
      e |-> [o.e EXCEPT !.k = "VNONRELOC", !.info = func]]

luaK_indexed(fs, t, k) ==
  LET o == luaK_exp2RK(fs, k)
  IN [fs |-> o.fs, e |-> [t EXCEPT !.k = "VINDEXED", !.aux = Operand(o.e)]]

-----------------------------------------------------------------------------
(* Conditions. *)

invertjump(fs, e) ==
  LET at == getjumpcontrol(fs, e.info)
      i == Instr(fs, at)
  IN Claim([fs EXCEPT !.code[at + 1].a = 1 - @],
            testTMode(i.op) /\ i.op \notin {"TESTSET", "TEST"}, "invertjump")

(* Jumps when e is cond; the jump is the last pc of the result. *)
jumponcond(fs, e, cond) ==
  LET ie == Instr(fs, e.info)
      d == discharge2anyreg(fs, e)
  IN IF e.k = "VRELOCABLE" /\ ie.op = "NOT"
     THEN condjump([fs EXCEPT !.code = SubSeq(@, 1, Len(@) - 1)],
                   "TEST", ie.b, 0, 1 - cond)
     ELSE condjump(freeexp(d.fs, d.e), "TESTSET", NO_REG, d.e.info, cond)
CondExp(fs, e) ==
  IF e.k = "VRELOCABLE" /\ Instr(fs, e.info).op = "NOT" THEN e
  ELSE discharge2anyreg(fs, e).e

(* Falls through when e is true: the jump taken otherwise joins e.f. *)
luaK_goiftrue(fs0, e0) ==
  LET d == luaK_dischargevars(fs0, e0)
      e == d.e
      none == e.k \in {"VK", "VKNUM", "VTRUE"}
      fs == CASE none -> d.fs
              [] e.k = "VFALSE" -> luaK_jump(d.fs)
              [] e.k = "VJMP" -> invertjump(d.fs, e)
              [] OTHER -> jumponcond(d.fs, e, 0)
      pc == IF none THEN NO_JUMP ELSE IF e.k = "VJMP" THEN e.info ELSE Here(fs)
      ed == IF none \/ e.k \in {"VFALSE", "VJMP"} THEN e ELSE CondExp(d.fs, e)
  IN [fs |-> luaK_patchtohere(luaK_concat(fs, e.f, pc), e.t),
      e |-> [ed EXCEPT !.f = ConcatHead(e.f, pc), !.t = NO_JUMP]]

(* Falls through when e is false: the jump taken otherwise joins e.t. *)
luaK_goiffalse(fs0, e0) ==
  LET d == luaK_dischargevars(fs0, e0)
      e == d.e
      none == e.k \in {"VNIL", "VFALSE"}
      fs == CASE none \/ e.k = "VJMP" -> d.fs
              [] e.k = "VTRUE" -> luaK_jump(d.fs)
              [] OTHER -> jumponcond(d.fs, e, 1)
      pc == IF none THEN NO_JUMP ELSE IF e.k = "VJMP" THEN e.info ELSE Here(fs)
      ed == IF none \/ e.k \in {"VTRUE", "VJMP"} THEN e ELSE CondExp(d.fs, e)
  IN [fs |-> luaK_patchtohere(luaK_concat(fs, e.t, pc), e.f),
      e |-> [ed EXCEPT !.t = ConcatHead(e.t, pc), !.f = NO_JUMP]]

codenot(fs0, e0) ==
  LET d == luaK_dischargevars(fs0, e0)
      r == discharge2anyreg(d.fs, d.e)
      n == Relocable(luaK_codeABC(freeexp(r.fs, r.e), "NOT", 0, r.e.info, 0), r.e)
      c == CASE d.e.k \in {"VNIL", "VFALSE"} -> [d EXCEPT !.e.k = "VTRUE"]
             [] d.e.k \in {"VK", "VKNUM", "VTRUE"} -> [d EXCEPT !.e.k = "VFALSE"]
             [] d.e.k = "VJMP" -> [d EXCEPT !.fs = invertjump(d.fs, d.e)]
             [] d.e.k \in {"VRELOCABLE", "VNONRELOC"} -> n
             [] OTHER -> [d EXCEPT !.fs = Claim(d.fs, FALSE, "codenot")]
  IN [fs |-> removevalues(removevalues(c.fs, c.e.t), c.e.f),
      e |-> [c.e EXCEPT !.t = c.e.f, !.f = c.e.t]]

-----------------------------------------------------------------------------
(* Operators. *)

(* Operands that are numerals are folded; not when dividing by zero. *)
Foldable(o, e1, e2) ==
  /\ isnumeral(e1) /\ isnumeral(e2)
  /\ o \notin {"LEN", "CONCAT"}
  /\ o \in {"DIV", "MOD"} => e2.nval # 0
constfolding(o, e1, e2) ==
  [e1 EXCEPT !.nval = NumArith(o, @, e2.nval)]

codearith(fs, o, e1, e2) ==
  LET o1 == luaK_exp2RK(fs, e1)
      o2 == IF o \in {"UNM", "LEN"} THEN [fs |-> o1.fs, e |-> e2]
            ELSE luaK_exp2RK(o1.fs, e2)
      c == IF o \in {"UNM", "LEN"} THEN 0 ELSE Operand(o2.e)
      freed == freeexp(freeexp(o2.fs, o2.e), o1.e)
  IN IF Foldable(o, e1, e2) THEN [fs |-> fs, e |-> constfolding(o, e1, e2)]
     ELSE Relocable(luaK_codeABC(freed, o, 0, Operand(o1.e), c), o1.e)

(* a > b and a >= b swap their operands. *)
codecomp(fs, o, cond, e1, e2) ==
  LET o1 == luaK_exp2RK(fs, e1)
      o2 == luaK_exp2RK(o1.fs, e2)
      freed == freeexp(freeexp(o2.fs, o2.e), o1.e)
      swap == cond = 0 /\ o # "EQ"
      coded == IF swap THEN condjump(freed, o, 1, Operand(o2.e), Operand(o1.e))
               ELSE condjump(freed, o, cond, Operand(o1.e), Operand(o2.e))
  IN [fs |-> coded, e |-> [o1.e EXCEPT !.k = "VJMP", !.info = Here(coded)]]

luaK_prefix(fs, o, e) ==
  LET e2 == ExpDesc("VKNUM", 0)
      any == luaK_exp2anyreg(fs, e)
  IN CASE o = "not" -> codenot(fs, e)
       [] o = "-" /\ e.k # "VK" -> codearith(fs, "UNM", e, e2)
       [] o = "-" /\ e.k = "VK" -> codearith(any.fs, "UNM", any.e, e2)
       [] o = "#" -> codearith(any.fs, "LEN", any.e, e2)

luaK_infix(fs, o, v) ==
  CASE o = "and" -> luaK_goiftrue(fs, v)
    [] o = "or" -> luaK_goiffalse(fs, v)
    [] o = ".." -> luaK_exp2nextreg(fs, v)
    [] OTHER -> IF isnumeral(v) THEN [fs |-> fs, e |-> v] ELSE luaK_exp2RK(fs, v)

(* A concatenation to the right of this one is widened to the left. *)
codeconcat(fs, e1, e2) ==
  LET v == luaK_exp2val(fs, e2)
      i == Instr(v.fs, v.e.info)
      n == luaK_exp2nextreg(v.fs, v.e)
      widened == freeexp(Claim(v.fs, e1.info = i.b - 1, "concat"), e1)
  IN IF v.e.k = "VRELOCABLE" /\ i.op = "CONCAT"
     THEN [fs |-> [widened EXCEPT !.code[v.e.info + 1].b = e1.info],
           e |-> [e1 EXCEPT !.k = "VRELOCABLE", !.info = v.e.info]]
     ELSE codearith(n.fs, "CONCAT", e1, n.e)

ArithOps == ("+" :> "ADD") @@ ("-" :> "SUB") @@ ("*" :> "MUL") @@ ("/" :> "DIV")
            @@ ("%" :> "MOD") @@ ("^" :> "POW")

luaK_posfix(fs, o, e1, e2) ==
  LET d == luaK_dischargevars(fs, e2)
  IN CASE o = "and" ->
            [fs |-> luaK_concat(Claim(d.fs, e1.t = NO_JUMP, "and"), d.e.f, e1.f),
             e |-> [d.e EXCEPT !.f = ConcatHead(d.e.f, e1.f)]]
       [] o = "or" ->
            [fs |-> luaK_concat(Claim(d.fs, e1.f = NO_JUMP, "or"), d.e.t, e1.t),
             e |-> [d.e EXCEPT !.t = ConcatHead(d.e.t, e1.t)]]
       [] o = ".." -> codeconcat(fs, e1, e2)
       [] o \in DOMAIN ArithOps -> codearith(fs, ArithOps[o], e1, e2)
       [] o = "==" -> codecomp(fs, "EQ", 1, e1, e2)
       [] o = "~=" -> codecomp(fs, "EQ", 0, e1, e2)
       [] o = "<"  -> codecomp(fs, "LT", 1, e1, e2)
       [] o = "<=" -> codecomp(fs, "LE", 1, e1, e2)
       [] o = ">"  -> codecomp(fs, "LT", 0, e1, e2)
       [] o = ">=" -> codecomp(fs, "LE", 0, e1, e2)
=============================================================================
