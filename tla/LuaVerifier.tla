---------------------------- MODULE LuaVerifier ----------------------------
(***************************************************************************)
(* The code checker of the embedded Lua (src/lua/src/ldebug.c), which the  *)
(* compiler asserts for every function it closes and the loader demands of *)
(* every function it reads; and precompiled chunks (ldump.c, lundump.c).   *)
(* symbexec is here with reg = NO_REG, as luaG_checkcode calls it: without *)
(* the search for the instruction that set a register.                     *)
(***************************************************************************)
EXTENDS LuaOpcodes

CONSTANT MaxRegisters  \* MAXSTACK

CodeAt(pt, pc) == pt.code[pc + 1]
HasInstr(pt, pc) == 0 <= pc /\ pc < Len(pt.code)

precheck(pt) ==
  /\ pt.maxstacksize <= MaxRegisters
  /\ pt.numparams + (IF "HASARG" \in pt.is_vararg THEN 1 ELSE 0) <= pt.maxstacksize
  /\ "NEEDSARG" \in pt.is_vararg => "HASARG" \in pt.is_vararg
  /\ Len(pt.code) > 0 /\ pt.code[Len(pt.code)].op = "RETURN"

checkreg(pt, reg) == reg < pt.maxstacksize
checkArgMode(pt, r, mode) ==
  CASE mode = "N" -> r = 0
    [] mode = "U" -> TRUE
    [] mode = "R" -> checkreg(pt, r)
    [] mode = "K" -> IF ISK(r) THEN INDEXK(r) < Len(pt.consts) ELSE checkreg(pt, r)

(* What may follow an instruction that leaves values up to the top.        *)
checkopenop(pt, pc) ==
  LET i == CodeAt(pt, pc + 1)
  IN i.op \in {"CALL", "TAILCALL", "RETURN", "SETLIST"} /\ i.b = 0

SetListCount(pt, pc) == CodeAt(pt, pc).op = "SETLIST" /\ CodeAt(pt, pc).c = 0

Operands(pt, pc, i) ==
  CASE getOpMode(i.op) = "ABC" -> /\ checkArgMode(pt, i.b, getBMode(i.op))
                                  /\ checkArgMode(pt, i.c, getCMode(i.op))
    [] getOpMode(i.op) = "ABx" -> getBMode(i.op) = "K" => i.b < Len(pt.consts)
    [] getOpMode(i.op) = "AsBx" ->
         getBMode(i.op) = "R" =>
           LET dest == pc + 1 + i.b
           IN HasInstr(pt, dest) /\ (dest > 0 => ~SetListCount(pt, dest - 1))

Captures(pt, pc, b) ==
  /\ b < Len(pt.p)
  /\ pc + pt.p[b + 1].nups < Len(pt.code)
  /\ \A j \in 1..pt.p[b + 1].nups : CodeAt(pt, pc + j).op \in {"GETUPVAL", "MOVE"}

Particular(pt, pc, i) ==
  LET open == i.c - 1 = LUA_MULTRET
  IN CASE i.op = "LOADBOOL" -> i.c = 0 \/ pc + 2 < Len(pt.code)
       [] i.op \in {"GETUPVAL", "SETUPVAL"} -> i.b < pt.nups
       [] i.op \in {"GETGLOBAL", "SETGLOBAL"} -> ttype(pt.consts[i.b + 1]) = "string"
       [] i.op = "SELF" -> checkreg(pt, i.a + 1)
       [] i.op = "CONCAT" -> i.b < i.c
       [] i.op = "TFORLOOP" -> i.c >= 1 /\ checkreg(pt, i.a + 2 + i.c)
       [] i.op \in {"FORLOOP", "FORPREP"} -> checkreg(pt, i.a + 3)
       [] i.op \in {"CALL", "TAILCALL"} ->
            /\ i.b # 0 => checkreg(pt, i.a + i.b - 1)
            /\ IF open THEN checkopenop(pt, pc) ELSE i.c - 1 # 0 => checkreg(pt, i.a + i.c - 2)
       [] i.op = "RETURN" -> i.b - 1 > 0 => checkreg(pt, i.a + i.b - 2)
       [] i.op = "SETLIST" -> i.b > 0 => checkreg(pt, i.a + i.b)
       [] i.op = "CLOSURE" -> Captures(pt, pc, i.b)
       [] i.op = "VARARG" ->
            /\ "ISVARARG" \in pt.is_vararg /\ "NEEDSARG" \notin pt.is_vararg
            /\ i.b - 1 = LUA_MULTRET => checkopenop(pt, pc)
            /\ checkreg(pt, i.a + i.b - 2)
       [] OTHER -> TRUE

RECURSIVE symbexec(_, _)
symbexec(pt, pc) ==
  LET i == CodeAt(pt, pc)
  IN \/ pc >= Len(pt.code)
     \/ /\ checkreg(pt, i.a)
        /\ Operands(pt, pc, i)
        /\ testTMode(i.op) => pc + 2 < Len(pt.code) /\ CodeAt(pt, pc + 1).op = "JMP"
        /\ Particular(pt, pc, i)
        /\ symbexec(pt, IF i.op = "SETLIST" /\ i.c = 0 THEN pc + 2 ELSE pc + 1)

luaG_checkcode(pt) == precheck(pt) /\ symbexec(pt, 0)

RECURSIVE AllChecked(_)
AllChecked(pt) == luaG_checkcode(pt) /\ \A j \in 1..Len(pt.p) : AllChecked(pt.p[j])

-----------------------------------------------------------------------------
(* A precompiled chunk is the sequence of what is written; the bytes of an *)
(* item are left out.  A string constant is preceded by its size, which    *)
(* counts a zero at the end; the debug information has no part in running  *)
(* a program and is as if stripped.                                        *)

RECURSIVE FlatMap(_, _)
FlatMap(G(_), s) == IF s = <<>> THEN <<>> ELSE G(Head(s)) \o FlatMap(G, Tail(s))

DumpVector(s) == <<Len(s)>> \o s
\* Mutant: nil is saved as if it were false.
DumpConstantFalse(o) ==
  CASE l_isfalse(o) -> <<"boolean", FALSE>>
    [] ttype(o) = "string" -> <<"string", Len(o[2]) + 1, o[2]>>
    [] OTHER -> <<ttype(o), o[2]>>

DumpConstant(o) ==
  CASE ttype(o) = "nil" -> <<"nil">>
    [] ttype(o) \in {"boolean", "number"} -> <<ttype(o), o[2]>>
    [] ttype(o) = "string" -> <<"string", Len(o[2]) + 1, o[2]>>

RECURSIVE DumpFunction(_)
DumpFunction(f) ==
  <<f.nups, f.numparams, f.is_vararg, f.maxstacksize>>
    \o DumpVector(f.code)
    \o <<Len(f.consts)>> \o FlatMap(DumpConstant, f.consts)
    \o <<Len(f.p)>> \o FlatMap(DumpFunction, f.p)

HEADER == "header"
luaU_dump(f) == <<HEADER>> \o DumpFunction(f)

(* The loader's state: what is left to read, why it gave up, and what it   *)
(* has just read.                                                          *)
Reading(s) == [rest |-> s, err |-> "", v |-> <<>>]
Reject(S, why) == IF S.err = "" THEN [S EXCEPT !.err = why, !.rest = <<>>] ELSE S
LoadBlock(S, n) ==
  IF Len(S.rest) < n THEN [Reject(S, "unexpected end") EXCEPT !.v = <<>>]
  ELSE [S EXCEPT !.v = SubSeq(S.rest, 1, n), !.rest = SubSeq(S.rest, n + 1, Len(S.rest))]
LoadInt(S) ==
  LET r == LoadBlock(S, 1) IN [r EXCEPT !.v = IF r.err = "" THEN r.v[1] ELSE 0]

(* Reads n things with Load, one after the other. *)
RECURSIVE LoadMany(_, _, _, _)
LoadMany(Load(_), S, n, read) ==
  LET r == Load(S)
  IN IF n = 0 THEN [S EXCEPT !.v = read]
     ELSE IF r.err # "" THEN [r EXCEPT !.v = read]
     ELSE LoadMany(Load, r, n - 1, Append(read, r.v))

LoadConstant(S) ==
  LET t == LoadBlock(S, 1)
      value == LoadBlock(t, 1)
      text == LoadBlock(value, 1)
  IN CASE t.err # "" -> t
       [] t.v = <<"nil">> -> [t EXCEPT !.v = Nil]
       [] t.v \in {<<"boolean">>, <<"number">>} -> [value EXCEPT !.v = t.v \o value.v]
       [] t.v = <<"string">> -> [text EXCEPT !.v = t.v \o text.v]

RECURSIVE LoadFunction(_)
LoadFunction(S) ==
  LET head == LoadBlock(S, 4)
      size == LoadInt(head)
      code == LoadBlock(size, size.v)
      sizek == LoadInt(code)
      k == LoadMany(LoadConstant, sizek, sizek.v, <<>>)
      sizep == LoadInt(k)
      p == LoadMany(LoadFunction, sizep, sizep.v, <<>>)
      f == [code |-> code.v, consts |-> k.v, p |-> p.v, nups |-> head.v[1],
            numparams |-> head.v[2], is_vararg |-> head.v[3], maxstacksize |-> head.v[4]]
  IN IF p.err # "" THEN p
     ELSE IF ~luaG_checkcode(f) THEN Reject(p, "bad code") ELSE [p EXCEPT !.v = f]

luaU_undump(s) ==
  LET h == LoadBlock(Reading(s), 1)
  IN IF h.v # <<HEADER>> THEN Reject(h, "bad header") ELSE LoadFunction(h)
=============================================================================
