---------------------------- MODULE LuaExecute ----------------------------
(***************************************************************************)
(* luaV_execute (src/lua/src/lvm.c) on the machine of LuaMachine: an       *)
(* action for each instruction, and one for each thing C code does when a  *)
(* call it made returns.  ci.pc is the code's pc: the next instruction.    *)
(***************************************************************************)
EXTENDS LuaMachine

VARIABLE m

L == Thread(m)
Closure(mm) == mm.funs[At(Thread(mm), Top(Thread(mm)).func)[2]]
cl == Closure(m)
i == cl.p.code[Top(L).pc + 1]

\* The machine with pc past the instruction; jumps count from there.
Fetched == [m EXCEPT !.th[m.cur].ci[Len(L.ci)].pc = @ + 1]
dojump(mm, n) == [mm EXCEPT !.th[mm.cur].ci[Len(Thread(mm).ci)].pc = @ + n]

R(x) == At(L, L.base + x)
RK(x) == IF ISK(x) THEN cl.p.consts[INDEXK(x) + 1] ELSE R(x)
K(x) == cl.p.consts[x + 1]
RA == L.base + i.a
SetSlot(mm, at, v) == SetThread(mm, Put(Thread(mm), at, v))
SetRA(v) == SetSlot(Fetched, RA, v)

(* luaG_checkopenop: instructions that take their values up to the top. *)
OpenOp == i.op \in {"CALL", "TAILCALL", "RETURN", "SETLIST"} /\ i.b = 0

Exec(o) ==
  /\ m.mode = "run"
  /\ i.op = o

-----------------------------------------------------------------------------
(* Metamethods.  callTMres pushes the function and its operands above the  *)
(* frame and calls; frame says what becomes of the result.                 *)

callTMres(mm, f, p1, p2, frame) ==
  LET T == Thread(mm)
      pushed == [PutAll(T, T.top, <<f, p1, p2>>) EXCEPT !.top = @ + 3]
  IN luaD_call(SetThread(mm, pushed), T.top, 1, frame)

callTM(mm, f, p1, p2, p3) ==
  LET T == Thread(mm)
      pushed == [PutAll(T, T.top, <<f, p1, p2, p3>>) EXCEPT !.top = @ + 4]
  IN luaD_call(SetThread(mm, pushed), T.top, 0, [k |-> "settable"])

SetRes(at) == [k |-> "result", at |-> at]

RECURSIVE luaV_gettable(_, _, _, _, _)
luaV_gettable(mm, t, key, at, loop) ==
  LET raw == RawGet(mm, t, key)
      fast == fasttm(mm, t, "__index")
      On(next, tm) ==
        IF IsFunction(tm) THEN callTMres(next, tm, t, key, SetRes(at))
        ELSE luaV_gettable(next, tm, key, at, loop + 1)
  IN IF loop = MaxTagLoop THEN RunError(mm)
     ELSE IF ~IsTable(t)
     THEN IF luaT_gettmbyobj(mm, t, "__index") = Nil THEN RunError(mm)
          ELSE On(mm, luaT_gettmbyobj(mm, t, "__index"))
     ELSE IF raw # Nil THEN SetSlot(mm, at, raw)
     ELSE IF fast.tm = Nil THEN SetSlot(fast.m, at, Nil) ELSE On(fast.m, fast.tm)

(* The entry of the key is made even if a __newindex is then used instead. *)
RECURSIVE luaV_settable(_, _, _, _, _)
luaV_settable(mm, t, key, v, loop) ==
  LET set == luaH_set(mm.tabs[t[2]], key)
      made == [mm EXCEPT !.tabs[t[2]] = set.t]
      fast == fasttm(made, t, "__newindex")
      store(next) == [next EXCEPT !.tabs[t[2]] = PutAt(@, set.at, v)]
      On(next, tm) ==
        IF IsFunction(tm) THEN callTM(next, tm, t, key, v)
        ELSE luaV_settable(next, tm, key, v, loop + 1)
  IN IF loop = MaxTagLoop THEN RunError(mm)
     ELSE IF ~IsTable(t)
     THEN IF luaT_gettmbyobj(mm, t, "__newindex") = Nil THEN RunError(mm)
          ELSE On(mm, luaT_gettmbyobj(mm, t, "__newindex"))
     ELSE IF key = Nil THEN RunError([mm EXCEPT !.tabs[t[2]].flags = {}])
     ELSE IF ValueAt(set.t, set.at) # Nil THEN store(made)
     ELSE IF fast.tm = Nil THEN store(fast.m) ELSE On(fast.m, fast.tm)

call_binTM(mm, p1, p2, at, event) ==
  LET tm1 == luaT_gettmbyobj(mm, p1, event)
      tm == IF tm1 = Nil THEN luaT_gettmbyobj(mm, p2, event) ELSE tm1
  IN IF IsFunction(tm) THEN callTMres(mm, tm, p1, p2, SetRes(at)) ELSE RunError(mm)

EventOf == [ADD |-> "__add", SUB |-> "__sub", MUL |-> "__mul", DIV |-> "__div",
            MOD |-> "__mod", POW |-> "__pow", UNM |-> "__unm"]

Arith(o, rb, rc) ==
  IF IsNum(rb) /\ IsNum(rc) THEN SetRA(Num(NumArith(o, rb[2], rc[2])))
  ELSE call_binTM(Fetched, rb, rc, RA, EventOf[o])

(* A comparison decides the jump that follows it. *)
CondJump(mm, taken) ==
  LET next == Closure(mm).p.code[Top(Thread(mm)).pc + 1]
  IN dojump(mm, IF taken THEN next.b + 1 ELSE 1)
Decide(result) == CondJump(Fetched, result = (i.a = 1))

(* The comparison waits for a metamethod, whose answer neg turns round. *)
Ask(mm, tm, p1, p2, neg) ==
  callTMres(mm, tm, p1, p2, [k |-> "order", cond |-> i.a = 1, neg |-> neg])

(* The handler that both tables have; the second is looked for only if the *)
(* first exists and the metatables differ.                                 *)
get_compTM(mm, t1, t2) ==
  LET same == mm.tabs[t1[2]].meta = mm.tabs[t2[2]].meta
      both(first) == IF first.tm = Nil \/ same THEN first
                     ELSE [fasttm(first.m, t2, "__eq") EXCEPT !.tm = IF @ = first.tm THEN @ ELSE Nil]
  IN both(fasttm(mm, t1, "__eq"))

luaV_equalval(t1, t2) ==
  LET answer(h) == IF h.tm = Nil THEN CondJump(h.m, i.a = 0) ELSE Ask(h.m, h.tm, t1, t2, FALSE)
  IN IF t1 = t2 \/ ~IsTable(t1) \/ ~IsTable(t2) THEN Decide(t1 = t2)
     ELSE answer(get_compTM(Fetched, t1, t2))

(* call_orderTM answers only if both operands have the same metamethod. *)
OrderTM(l, r, event) ==
  LET tm == luaT_gettmbyobj(m, l, event)
  IN IF tm = luaT_gettmbyobj(m, r, event) THEN tm ELSE Nil

luaV_lessthan(l, r) ==
  LET tm == OrderTM(l, r, "__lt")
  IN CASE ttype(l) # ttype(r) -> RunError(m)
       [] ttype(l) = "number" /\ IsNum(r) -> Decide(l[2] < r[2])
       [] ttype(l) = "string" /\ ttype(r) = "string" -> Decide(l_strcmp(l[2], r[2]) < 0)
       [] OTHER -> IF tm # Nil THEN Ask(Fetched, tm, l, r, FALSE) ELSE RunError(m)

lessequal(l, r) ==
  LET le == OrderTM(l, r, "__le")
      lt == OrderTM(r, l, "__lt")
  IN CASE ttype(l) # ttype(r) -> RunError(m)
       [] ttype(l) = "number" /\ IsNum(r) -> Decide(l[2] <= r[2])
       [] ttype(l) = "string" /\ ttype(r) = "string" -> Decide(l_strcmp(l[2], r[2]) <= 0)
       [] OTHER -> IF le # Nil THEN Ask(Fetched, le, l, r, FALSE)
                   ELSE IF lt # Nil THEN Ask(Fetched, lt, r, l, TRUE) ELSE RunError(m)

(* Concatenates the registers up to last, total of them, from the right:   *)
(* as many strings as there are at once, other operands in pairs.          *)
RECURSIVE luaV_concat(_, _, _)
luaV_concat(mm, total, last) ==
  LET T == Thread(mm)
      at(n) == T.base + last + 1 - n        \* top - n
      run == {n \in 2..total : \A j \in 1..n : Stringable(At(T, at(j)))}
      n == CHOOSE x \in run : \A y \in run : y <= x
      joined == Str(Joined(Slots(T, at(n), at(0)), ""))
      frame == [k |-> "concat", total |-> total - 1, last |-> last - 1]
      tm1 == luaT_gettmbyobj(mm, At(T, at(2)), "__concat")
      tm == IF tm1 = Nil THEN luaT_gettmbyobj(mm, At(T, at(1)), "__concat") ELSE tm1
      a == Closure(mm).p.code[Top(T).pc]
  IN IF total <= 1
     THEN SetSlot(mm, T.base + a.a, At(T, T.base + a.b))
     ELSE IF run # {} THEN luaV_concat(SetSlot(mm, at(n), joined), total - (n - 1), last - (n - 1))
     ELSE IF IsFunction(tm) THEN callTMres(mm, tm, At(T, at(2)), At(T, at(1)), frame)
     ELSE RunError(mm)

-----------------------------------------------------------------------------
(* The instructions that move values and reach tables.                     *)

Move == Exec("MOVE") /\ m' = SetRA(R(i.b))
LoadK == Exec("LOADK") /\ m' = SetRA(K(i.b))
LoadBool == Exec("LOADBOOL") /\ m' = dojump(SetRA(Bool(i.b = 1)), i.c)
LoadNil ==
  Exec("LOADNIL") /\ m' = SetThread(Fetched, PutAll(Thread(Fetched), RA, Nils(i.b - i.a + 1)))
GetUpval == Exec("GETUPVAL") /\ m' = SetRA(UpvalGet(m, cl.upvals[i.b + 1]))
SetUpval == Exec("SETUPVAL") /\ m' = UpvalSet(Fetched, cl.upvals[i.b + 1], R(i.a))

GlobalsIndex == <<"table", 1>>
GetGlobal == Exec("GETGLOBAL") /\ m' = luaV_gettable(Fetched, GlobalsIndex, K(i.b), RA, 0)
SetGlobal == Exec("SETGLOBAL") /\ m' = luaV_settable(Fetched, GlobalsIndex, K(i.b), R(i.a), 0)
GetTable == Exec("GETTABLE") /\ m' = luaV_gettable(Fetched, R(i.b), RK(i.c), RA, 0)
SetTable == Exec("SETTABLE") /\ m' = luaV_settable(Fetched, R(i.a), RK(i.b), RK(i.c), 0)
Self ==
  /\ Exec("SELF")
  /\ m' = luaV_gettable(SetSlot(Fetched, RA + 1, R(i.b)), R(i.b), RK(i.c), RA, 0)
NewTableOp ==
  LET made == NewTable(Fetched, luaH_new(luaO_fb2int(i.b), luaO_fb2int(i.c)))
  IN Exec("NEWTABLE") /\ m' = SetSlot(made, RA, LastTable(made))

(* B items are above the table, or all up to the top; C says after how     *)
(* many full batches they come, in the next word if it does not fit.       *)
SetItems(t, items, last) ==
  LET from == last - Len(items)
      n == Len(t.array)
      sized == IF last > n THEN luaH_resizearray(t, last) ELSE t
      entries == [j \in 1..Len(items) |-> <<Num(from + j), items[j]>>]
  IN Inserted(sized, Reverse(entries))
SetList ==
  LET n == IF i.b = 0 THEN L.top - RA - 1 ELSE i.b
      far == i.c = 0
      c == IF far THEN cl.p.code[Top(L).pc + 2].c ELSE i.c
      next == IF far THEN dojump(Fetched, 1) ELSE Fetched
      items == Slots(L, RA + 1, RA + 1 + n)
      topped == IF i.b = 0 THEN [next EXCEPT !.th[m.cur].top = Top(L).top] ELSE next
  IN /\ Exec("SETLIST")
     /\ m' = [topped EXCEPT !.tabs[R(i.a)[2]] = SetItems(@, items, (c - 1) * FieldsPerFlush + n)]

(* Arithmetic, logic and lengths. *)
ArithOps == {"ADD", "SUB", "MUL", "DIV", "MOD", "POW"}
BinaryOp == \E o \in ArithOps : Exec(o) /\ m' = Arith(o, RK(i.b), RK(i.c))
Unm == Exec("UNM") /\ m' = Arith("UNM", R(i.b), R(i.b))
NotOp == Exec("NOT") /\ m' = SetRA(Bool(l_isfalse(R(i.b))))
LenOp ==
  LET rb == R(i.b)
  IN /\ Exec("LEN")
     /\ m' = CASE IsTable(rb) -> SetRA(Num(luaH_getn(m.tabs[rb[2]])))
               [] ttype(rb) = "string" -> SetRA(Num(Len(rb[2])))
               [] OTHER -> call_binTM(Fetched, rb, Nil, RA, "__len")
Concat == Exec("CONCAT") /\ m' = luaV_concat(Fetched, i.c - i.b + 1, i.c)

(* Jumps and tests; a test skips the jump that follows it or takes it.     *)
Jmp == Exec("JMP") /\ m' = dojump(Fetched, i.b)
Eq == Exec("EQ") /\ m' = luaV_equalval(RK(i.b), RK(i.c))
Lt == Exec("LT") /\ m' = luaV_lessthan(RK(i.b), RK(i.c))
Le == Exec("LE") /\ m' = lessequal(RK(i.b), RK(i.c))
Test == Exec("TEST") /\ m' = CondJump(Fetched, l_isfalse(R(i.a)) # (i.c = 1))
TestSet ==
  LET taken == l_isfalse(R(i.b)) # (i.c = 1)
  IN Exec("TESTSET") /\ m' = CondJump(IF taken THEN SetRA(R(i.b)) ELSE Fetched, taken)

(* Loops. *)
ForPrep ==
  /\ Exec("FORPREP")
  /\ m' = IF \E x \in 0..2 : ~IsNum(R(i.a + x)) THEN RunError(Fetched)
          ELSE dojump(SetRA(Num(R(i.a)[2] - R(i.a + 2)[2])), i.b)
ForLoop ==
  LET step == R(i.a + 2)[2]
      idx == R(i.a)[2] + step
      limit == R(i.a + 1)[2]
  IN /\ Exec("FORLOOP")
     /\ m' = IF IF 0 < step THEN idx <= limit ELSE limit <= idx
             THEN SetSlot(dojump(SetRA(Num(idx)), i.b), RA + 3, Num(idx))
             ELSE Fetched
TForLoop ==
  LET called == [PutAll(L, RA + 3, Slots(L, RA, RA + 3)) EXCEPT !.top = RA + 6]
  IN /\ Exec("TFORLOOP")
     /\ m' = luaD_call(SetThread(Fetched, [called EXCEPT !.ci = Thread(Fetched).ci]), RA + 3,
                       i.c, [k |-> "tfor", at |-> RA + 3])

-----------------------------------------------------------------------------
(* Functions: calls, returns, closures and variable arguments.             *)

Called ==
  IF i.b = 0 THEN Fetched ELSE [Fetched EXCEPT !.th[m.cur].top = RA + i.b]
Executions(cf, d) == [cf EXCEPT ![Len(cf)].n = @ + d]

Call == Exec("CALL") /\ m' = luaD_precall(Called, RA, i.c - 1, Executions(L.cf, 1))

(* The new frame takes the place of the one that called.                   *)
MoveFrameDown(mm) ==
  LET new == Top(Thread(mm))
      ci == Top(L)
      T == Thread(luaF_close(mm, ci.base))
      aux == T.top - new.func
      base == ci.func + (new.base - new.func)
      frame == [new EXCEPT !.func = ci.func, !.base = base, !.top = ci.func + aux,
                           !.nresults = ci.nresults, !.tailcalls = ci.tailcalls + 1]
      moved == [PutAll(T, ci.func, Slots(T, new.func, T.top))
                  EXCEPT !.top = ci.func + aux, !.base = base,
                         !.ci = Append(SubSeq(@, 1, Len(@) - 2), frame)]
      size == mm.funs[At(moved, ci.func)[2]].p.maxstacksize
  IN AssertM(SetThread(luaF_close(mm, ci.base), moved), moved.top = base + size, "OP_TAILCALL")

Replaced(next) ==
  LET entered == next.mode = "run" /\ next.cur = m.cur /\ Len(Thread(next).ci) = Len(L.ci) + 1
  IN IF entered THEN MoveFrameDown(next) ELSE next
TailCall ==
  /\ Exec("TAILCALL")
  /\ m' = Replaced(luaD_precall(AssertM(Called, i.c - 1 = LUA_MULTRET, "OP_TAILCALL"), RA,
                                LUA_MULTRET, L.cf))

Return ==
  LET top == IF i.b = 0 THEN L.top ELSE RA + i.b - 1
      closed == luaF_close(Fetched, L.base)
      wanted == Top(L).nresults
      T == luaD_poscall(Thread(closed), Slots(L, RA, top))
      n == TopOf(L.cf).n - 1
      last == Top(T)
      caller == m.funs[At(T, last.func)[2]].p.code[last.pc]
      returned == SetThread(closed, [T EXCEPT !.top = IF wanted >= 0 THEN last.top ELSE @,
                                              !.cf = Executions(@, -1)])
  IN /\ Exec("RETURN")
     /\ m' = IF n = 0 THEN [SetThread(closed, [T EXCEPT !.cf = Pop(@)]) EXCEPT !.mode = "continue"]
             ELSE AssertM(returned, caller.op = "CALL", "OP_RETURN")

(* Each upvalue is a register of the enclosing function or one of its own  *)
(* upvalues: the instructions that follow say which.                       *)
RECURSIVE Capture(_, _, _)
Capture(mm, nup, us) ==
  LET next == Closure(mm).p.code[Top(Thread(mm)).pc + 1]
      found == luaF_findupval(mm, Thread(mm).base + next.b)
      checked == AssertM(found.m, next.op = "MOVE", "OP_CLOSURE")
  IN IF nup = 0 THEN [m |-> mm, us |-> us]
     ELSE IF next.op = "GETUPVAL"
     THEN Capture(dojump(mm, 1), nup - 1, Append(us, Closure(mm).upvals[next.b + 1]))
     ELSE Capture(dojump(checked, 1), nup - 1, Append(us, found.u))

ClosureOp ==
  LET p == cl.p.p[i.b + 1]
      captured == Capture(Fetched, p.nups, <<>>)
      made == [captured.m EXCEPT !.funs = Append(@, [c |-> "", co |-> 0, p |-> p,
                                                     upvals |-> captured.us])]
  IN Exec("CLOSURE") /\ m' = SetSlot(made, RA, LastFunction(made))

Close == Exec("CLOSE") /\ m' = luaF_close(Fetched, RA)

Vararg ==
  LET ci == Top(L)
      n == ci.base - ci.func - cl.p.numparams - 1
      b == IF i.b - 1 = LUA_MULTRET THEN n ELSE i.b - 1
      given == Slots(L, ci.base - n, ci.base - n + (IF b < n THEN b ELSE n))
      T == PutAll(Thread(Fetched), RA, given \o Nils(b - n))
  IN /\ Exec("VARARG")
     /\ m' = SetThread(Fetched, IF i.b - 1 = LUA_MULTRET THEN [T EXCEPT !.top = RA + n] ELSE T)

-----------------------------------------------------------------------------
(* What the C code does with the results of a call it made.                *)

Continues(k) == m.mode = "continue" /\ L.cf # <<>> /\ Frame(m).k = k
Finished == [PopFrame(m) EXCEPT !.th[m.cur].nCcalls = @ - 1, !.mode = "run"]
TMResult == At(L, L.top - 1)
TakenResult == [Finished EXCEPT !.th[m.cur].top = @ - 1]

FinishResult == Continues("result") /\ m' = SetSlot(TakenResult, Frame(m).at, TMResult)
FinishSettable == Continues("settable") /\ m' = Finished
FinishOrder ==
  LET res == ~l_isfalse(TMResult)
      f == Frame(m)
  IN Continues("order") /\ m' = CondJump(TakenResult, (res # f.neg) = f.cond)
FinishConcat ==
  LET f == Frame(m)
  IN /\ Continues("concat")
     /\ m' = luaV_concat(SetSlot(TakenResult, L.base + f.last, TMResult), f.total, f.last)
FinishTFor ==
  LET cb == Frame(m).at
      T == Thread(Finished)
      next == SetThread(Finished, [T EXCEPT !.top = Top(L).top])
  IN /\ Continues("tfor")
     /\ m' = IF At(L, cb) = Nil THEN CondJump(next, FALSE)
             ELSE CondJump(SetSlot(next, cb - 1, At(L, cb)), TRUE)
FinishLibrary ==
  Continues("library") /\ m' = Proceed(TakenResult, [Frame(m).call EXCEPT !.given = TMResult])
FinishPcall ==
  Continues("pcall") /\ m' = CReturn(Finished, <<Bool(TRUE)>> \o Slots(L, L.base, L.top))

(* The body of a coroutine returned, or the chunk did.                     *)
CoroutineEnds ==
  /\ m.mode = "continue"
  /\ L.cf = <<>>
  /\ m' = Leave(SetThread(m, [L EXCEPT !.top = L.base]), "ok", Slots(L, L.base, L.top), TRUE)
ProgramEnds ==
  Continues("main") /\ m' = [Finished EXCEPT !.mode = "done", !.err = Nil]

(* luaD_throw and luaD_pcall: the nearest handler of the thread takes the  *)
(* error, with everything as it was when it was set; a coroutine that has  *)
(* none is dead, and its resumer gets the error.                           *)
Handlers == {h \in 1..Len(L.cf) : L.cf[h].k \in {"pcall", "main"}}
Handled ==
  LET h == CHOOSE x \in Handlers : \A y \in Handlers : y <= x
      f == L.cf[h]
      T == Thread(luaF_close(m, f.top))
      ci == SubSeq(T.ci, 1, f.ci)
      back == [T EXCEPT !.ci = ci, !.base = TopOf(ci).base, !.nCcalls = f.nCcalls,
                        !.cf = SubSeq(@, 1, h - 1), !.overflow = @ /\ f.ci >= MaxCalls]
      caught == [SetThread(luaF_close(m, f.top), back) EXCEPT !.err = Nil]
  IN IF f.k = "main" THEN [caught EXCEPT !.mode = "done", !.err = m.err]
     ELSE CReturn(caught, <<Bool(FALSE), m.err>>)
Catch ==
  /\ m.mode = "throw"
  /\ m' = IF Handlers # {} THEN Handled
          ELSE Leave([m EXCEPT !.err = Nil], "error", <<m.err>>, FALSE)

-----------------------------------------------------------------------------
Instruction ==
  \/ Move \/ LoadK \/ LoadBool \/ LoadNil \/ GetUpval \/ SetUpval
  \/ GetGlobal \/ SetGlobal \/ GetTable \/ SetTable \/ Self \/ NewTableOp \/ SetList
  \/ BinaryOp \/ Unm \/ NotOp \/ LenOp \/ Concat
  \/ Jmp \/ Eq \/ Lt \/ Le \/ Test \/ TestSet
  \/ ForPrep \/ ForLoop \/ TForLoop
  \/ Call \/ TailCall \/ Return \/ Close \/ ClosureOp \/ Vararg
Continuation ==
  \/ FinishResult \/ FinishSettable \/ FinishOrder \/ FinishConcat \/ FinishTFor \/ FinishLibrary
  \/ FinishPcall \/ CoroutineEnds \/ ProgramEnds \/ Catch
Step == Instruction \/ Continuation
=============================================================================
