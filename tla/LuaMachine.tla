---------------------------- MODULE LuaMachine ----------------------------
(***************************************************************************)
(* The Lua virtual machine: lvm.c, ldo.c, the upvalues of lfunc.c and the  *)
(* functions of lbaselib.c that take part in the control flow.  m is the   *)
(* whole machine:                                                          *)
(*   th    the threads (lua_State), cur the running one                    *)
(*   tabs  the tables, funs the closures, upv the upvalues (references     *)
(*         are <<"table", i>>, <<"function", i>>, <<"thread", i>>)         *)
(*   mode  "run": the topmost Lua function executes instructions;          *)
(*         "continue": a luaD_call made by C code has returned to it;      *)
(*         "throw": an error (err) looks for its handler; "done"           *)
(*   out   what the program showed to the host                             *)
(*   asserts  the first lua_assert that failed                             *)
(*                                                                         *)
(* A thread has its value stack (slot i of the code is stack[i + 1]), the  *)
(* CallInfo chain ci, the open upvalues (topmost first), and cf, the C     *)
(* frames that the code keeps on the C stack: one "execute" per            *)
(* luaV_execute, with its nexeccalls, and one per pending luaD_call, which *)
(* says what the caller does with the results.                             *)
(***************************************************************************)
EXTENDS LuaStrings

CONSTANTS
    MaxCCalls,    \* LUAI_MAXCCALLS: nested C calls and Lua calls from C
    MaxCalls,     \* LUAI_MAXCALLS: CallInfos of a thread
    MaxTagLoop,   \* MAXTAGLOOP: chained __index or __newindex
    CFunction(_, _)      \* what the other C functions do (LuaStrings!Libraries)

ASSUME MachineLimits == {MaxCCalls, MaxCalls, MaxTagLoop} \subseteq Nat \ {0}

LUA_MINSTACK == 20

TopOf(s) == s[Len(s)]
Pop(s) == SubSeq(s, 1, Len(s) - 1)

(* Stack slots of a thread L; slots beyond the end of the stack are grown. *)
At(L, i) == L.stack[i + 1]
Put(L, i, v) ==
  IF i < Len(L.stack) THEN [L EXCEPT !.stack[i + 1] = v]
  ELSE [L EXCEPT !.stack = @ \o [j \in 1..i - Len(@) |-> Nil] \o <<v>>]
RECURSIVE PutAll(_, _, _)
PutAll(L, i, vs) ==
  IF vs = <<>> THEN L ELSE PutAll(Put(L, i, Head(vs)), i + 1, Tail(vs))
Slots(L, from, to) == [j \in 1..(IF to < from THEN 0 ELSE to - from) |-> At(L, from + j - 1)]
Nils(n) == [j \in 1..(IF n < 0 THEN 0 ELSE n) |-> Nil]
Push(L, v) == [Put(L, L.top, v) EXCEPT !.top = @ + 1]

Thread(m) == m.th[m.cur]
SetThread(m, L) == [m EXCEPT !.th[m.cur] = L]
Top(L) == TopOf(L.ci)
Frame(m) == TopOf(Thread(m).cf)
PopFrame(m) == [m EXCEPT !.th[m.cur].cf = Pop(@)]
AssertM(m, ok, what) == IF ok \/ m.asserts # "" THEN m ELSE [m EXCEPT !.asserts = what]

(* The position and the wording of messages are left out: an error value   *)
(* that is a string, or a number made one, is "error".                     *)
Throw(m, v) ==
  [m EXCEPT !.mode = "throw",
            !.err = IF ttype(v) \in {"string", "number"} THEN Str("error") ELSE v]
RunError(m) == Throw(m, Str("error"))   \* luaG_runerror

-----------------------------------------------------------------------------
(* Upvalues (lfunc.c).  An open one names a slot of a thread's stack.      *)

UpvalGet(m, u) == IF m.upv[u].open THEN At(m.th[m.upv[u].th], m.upv[u].idx) ELSE m.upv[u].v
UpvalSet(m, u, v) ==
  IF m.upv[u].open
  THEN [m EXCEPT !.th[m.upv[u].th] = Put(@, m.upv[u].idx, v)]
  ELSE [m EXCEPT !.upv[u].v = v]

(* The open upvalue of a slot: the one there is, or a new one in its place *)
(* in the list.                                                            *)
luaF_findupval(m, level) ==
  LET open == Thread(m).openupval
      found == {i \in 1..Len(open) : m.upv[open[i]].idx = level}
      new == Len(m.upv) + 1
      above == Cardinality({i \in 1..Len(open) : m.upv[open[i]].idx > level})
  IN IF found # {} THEN [m |-> m, u |-> open[CHOOSE i \in found : TRUE]]
     ELSE [m |-> [m EXCEPT !.upv = Append(@, [open |-> TRUE, th |-> m.cur,
                                              idx |-> level, v |-> Nil]),
                           !.th[m.cur].openupval = InsertAt(@, above + 1, new)],
           u |-> new]

RECURSIVE luaF_close(_, _)
luaF_close(m, level) ==
  LET open == Thread(m).openupval
      u == Head(open)
  IN IF open = <<>> \/ m.upv[Head(open)].idx < level THEN m
     ELSE luaF_close([m EXCEPT !.upv[u].v = At(Thread(m), m.upv[u].idx), !.upv[u].open = FALSE,
                               !.th[m.cur].openupval = Tail(@)], level)

-----------------------------------------------------------------------------
(* Calls (ldo.c). *)

(* Makes room for `arg` or the extra arguments below the new base. *)
adjust_varargs(m, p, func) ==
  LET L == Thread(m)
      args == Slots(L, func + 1, L.top) \o Nils(p.numparams - (L.top - func - 1))
      fixed == SubSeq(args, 1, p.numparams)
      extra == SubSeq(args, p.numparams + 1, Len(args))
      base == func + 1 + Len(args)
      needsarg == "NEEDSARG" \in p.is_vararg
      filled == [luaH_new(Len(extra), 1) EXCEPT !.array = extra]
      arg == Stored(luaH_setstr(filled, Str("n")), Num(Len(extra)))
      laid == Nils(p.numparams) \o extra \o fixed
              \o (IF needsarg THEN <<<<"table", Len(m.tabs) + 1>>>> ELSE <<>>)
      L1 == PutAll(L, func + 1, laid)
  IN [m |-> SetThread(IF needsarg THEN NewTable(m, arg) ELSE m,
                              [L1 EXCEPT !.top = func + 1 + Len(laid)]), base |-> base]

(* A call of a value that is no function calls its __call with it first.   *)
tryfuncTM(m, func) ==
  LET L == Thread(m)
      tm == luaT_gettmbyobj(m, At(L, func), "__call")
  IN IF IsFunction(At(L, func)) THEN m
     ELSE IF ~IsFunction(tm) THEN RunError(m)
     ELSE SetThread(m, [PutAll(L, func, <<tm>> \o Slots(L, func, L.top)) EXCEPT !.top = @ + 1])

(* inc_ci: past MaxCalls an error, past the room kept for handling it a    *)
(* worse one.                                                              *)
CallsLeft(L) == Len(L.ci) < (IF L.overflow THEN 2 * MaxCalls ELSE MaxCalls)
CallsOverflow(m) ==
  IF Thread(m).overflow THEN Throw(m, Str("error in error handling"))
  ELSE RunError([m EXCEPT !.th[m.cur].overflow = TRUE])

NewCI(func, base, top, nresults) ==
  [func |-> func, base |-> base, top |-> top, nresults |-> nresults, pc |-> 0, tailcalls |-> 0]

(* The new Lua function's frame, its registers above the arguments nil.    *)
OpenFrame(m, p, func, base, nresults) ==
  LET T == Thread(m)
      top == base + p.maxstacksize
  IN SetThread(m, [PutAll(T, T.top, Nils(top - T.top))
                     EXCEPT !.ci = Append(@, NewCI(func, base, top, nresults)),
                            !.top = top, !.base = base])
EnterLua(m, func, nresults) ==
  LET p == m.funs[At(Thread(m), func)[2]].p
      last == func + 1 + p.numparams
      given == [m EXCEPT !.th[m.cur].top = IF @ > last THEN last ELSE @]
      opened(va) == OpenFrame(va.m, p, func, va.base, nresults)
  IN IF p.is_vararg = {} THEN OpenFrame(given, p, func, func + 1, nresults)
     ELSE opened(adjust_varargs(m, p, func))

EnterC(m, func, nresults) ==
  LET L == Thread(m)
  IN SetThread(m, [L EXCEPT !.ci = Append(@, NewCI(func, func + 1, L.top + LUA_MINSTACK,
                                                  nresults)),
                            !.base = func + 1])

(* luaD_poscall: the results move to where the function was. *)
luaD_poscall(L, results) ==
  LET ci == Top(L)
      vals == IF ci.nresults = LUA_MULTRET THEN results
              ELSE SubSeq(results, 1, IF Len(results) < ci.nresults THEN Len(results)
                                      ELSE ci.nresults) \o Nils(ci.nresults - Len(results))
      moved == PutAll(L, ci.func, vals)
  IN [moved EXCEPT !.top = ci.func + Len(vals), !.ci = Pop(@), !.base = TopOf(Pop(L.ci)).base]

(* Back in the code that called: an instruction of luaV_execute, which     *)
(* restores the top unless it takes all the results, or C code.            *)
BackToCallerLoose(m, wanted) ==    \* mutant: the top stays
  [m EXCEPT !.mode = IF Thread(m).cf # <<>> /\ Frame(m).k = "execute" THEN "run" ELSE "continue"]

BackToCaller(m, wanted) ==
  LET L == Thread(m)
      onlua == L.cf # <<>> /\ TopOf(L.cf).k = "execute"
  IN IF onlua
     THEN [SetThread(m, [L EXCEPT !.top = IF wanted >= 0 THEN Top(L).top ELSE @])
             EXCEPT !.mode = "run"]
     ELSE [m EXCEPT !.mode = "continue"]

(* A C function returns these results. *)
CReturn(m, results) ==
  LET wanted == Top(Thread(m)).nresults
  IN BackToCaller(SetThread(m, luaD_poscall(Thread(m), results)), wanted)

-----------------------------------------------------------------------------
(* Coroutines (lua_resume, lua_yield, and auxresume of lbaselib.c). *)

NewThread(f) ==
  [stack |-> <<Nil, f>>, top |-> 2, base |-> 1, ci |-> <<NewCI(0, 1, 1 + LUA_MINSTACK, 0)>>,
   openupval |-> <<>>, status |-> "ok", nCcalls |-> 0, overflow |-> FALSE, cf |-> <<>>,
   from |-> 0]

GetTop(L) == L.top - L.base

(* The resumer's C function goes on with what the coroutine passed to it.  *)
Deliver(m, ok, vals) ==
  LET kind == Frame(m).how
      popped == PopFrame(m)
  IN IF kind = "resume" THEN CReturn(popped, <<Bool(ok)>> \o vals)
     ELSE IF ok THEN CReturn(popped, vals)
     ELSE Throw(popped, Head(vals))

Leave(m, status, vals, ok) ==
  LET L == Thread(m)
      left == SetThread(m, [L EXCEPT !.status = status, !.cf = <<>>, !.from = 0])
  IN Deliver([left EXCEPT !.cur = L.from], ok, vals)

lua_yield(m, args) ==
  LET L == Thread(m)
      base == L.top - Len(args)
      off == SetThread(m, [L EXCEPT !.base = base, !.top = base])
  IN IF L.nCcalls > 0 THEN RunError(m) ELSE Leave(off, "yield", args, TRUE)

(* Starts the coroutine, or completes the call to yield it is in. *)
CompleteYield(L, args) ==
  LET wanted == Top(L).nresults
      T == [luaD_poscall(L, args) EXCEPT !.status = "ok"]
  IN [T EXCEPT !.top = IF wanted >= 0 THEN Top(T).top ELSE @]
Running(m, co) ==
  [m EXCEPT !.th[co].cf = <<[k |-> "execute", n |-> Len(m.th[co].ci) - 1]>>, !.mode = "run"]
StartOrContinue(m, co, args) ==
  LET L == m.th[co]
      pushed == [PutAll(L, L.top, args) EXCEPT !.top = @ + Len(args), !.from = m.cur]
      on(T) == [m EXCEPT !.cur = co, !.th[co] = T]
  IN Running(IF L.status = "ok" THEN EnterLua(on(pushed), L.top - 1, LUA_MULTRET)
             ELSE on(CompleteYield(pushed, args)), co)

(* A thread that is not suspended is refused: its topmost frame loses what *)
(* it held, and the message passes through its first slot.                 *)
resume_error(m, co) ==
  [m EXCEPT !.th[co] = [Put(@, Top(@).base, Str("error")) EXCEPT !.top = Top(@).base]]

(* how: the C function that resumes, "resume" or "wrap". *)
auxresume(m, co, args, how) ==
  LET C == m.th[co]
      framed(mm) == [mm EXCEPT !.th[m.cur].cf = Append(@, [k |-> "resume", how |-> how])]
      refusal == <<Str("error")>>
  IN IF C.status = "ok" /\ GetTop(C) = 0 THEN Deliver(framed(m), FALSE, refusal)
     ELSE IF C.status = "error" \/ (C.status = "ok" /\ Len(C.ci) > 1)
     THEN Deliver(framed(resume_error(m, co)), FALSE, refusal)
     ELSE StartOrContinue(AssertM(framed(m), C.nCcalls = 0, "lua_resume"), co, args)

luaB_costatus(m, co) ==
  LET C == m.th[co]
  IN IF co = m.cur THEN "running"
     ELSE IF C.status = "yield" THEN "suspended"
     ELSE IF C.status = "error" THEN "dead"
     ELSE IF Len(C.ci) > 1 THEN "normal"
     ELSE IF GetTop(C) = 0 THEN "dead" ELSE "suspended"

-----------------------------------------------------------------------------
(* The C functions of the programs; each runs in a frame of its own, with  *)
(* its arguments from the frame's base.                                    *)

RECURSIVE luaD_call(_, _, _, _)
RECURSIVE Builtin(_, _)

(* Enters the function at func: a Lua function gets a frame, a C function  *)
(* runs until it returns, calls or switches.                               *)
luaD_precall(m0, func, nresults, frame) ==
  LET m == tryfuncTM(m0, func)
      f == m.funs[At(Thread(m), func)[2]]
  IN IF m.mode = "throw" THEN m
     ELSE IF ~CallsLeft(Thread(m)) THEN CallsOverflow(m)
     ELSE IF f.c = "" THEN [EnterLua(m, func, nresults) EXCEPT !.th[m.cur].cf = frame,
                                                               !.mode = "run"]
     ELSE Builtin(EnterC(m, func, nresults), f)

(* A call made by C code; what is then done with the results is in frame.  *)
luaD_call(m, func, nresults, frame) ==
  LET n == Thread(m).nCcalls + 1
      m1 == [m EXCEPT !.th[m.cur].nCcalls = n, !.th[m.cur].cf = Append(@, frame)]
  IN IF n = MaxCCalls THEN RunError(m1)
     ELSE IF n >= MaxCCalls + MaxCCalls \div 8
     THEN Throw(m1, Str("error in error handling"))
     ELSE luaD_precall(m1, func, nresults,
                       Append(Thread(m1).cf, [k |-> "execute", n |-> 1]))

(* A C function goes on until it returns, fails, or has a call to make.    *)
AfterCFunction(r, call) ==
  LET L == Thread(r.m)
      pushed == [PutAll(L, L.top, r.v) EXCEPT !.top = @ + Len(r.v)]
  IN IF ~r.ok THEN Throw(r.m, r.v[1])
     ELSE IF r.next = <<>> THEN CReturn(r.m, r.v)
     ELSE luaD_call(SetThread(r.m, pushed), L.top, 1,
                    [k |-> "library", call |-> [call EXCEPT !.next = r.next]])
Proceed(m, call) == AfterCFunction(CFunction(m, call), call)

Builtin(m, f) ==
  LET L == Thread(m)
      args == Slots(L, L.base, L.top)
      arg(i) == IF i <= Len(args) THEN args[i] ELSE Nil
      coroutine == [m EXCEPT !.th = Append(@, NewThread(arg(1)))]
      co == <<"thread", Len(coroutine.th)>>
      wrapped == lua_pushcclosure(coroutine, "auxwrap", Len(coroutine.th), <<>>)
      isco == ttype(arg(1)) = "thread"
      luafun == IsFunction(arg(1)) /\ m.funs[arg(1)[2]].c = ""
  IN CASE f.c = "out" -> CReturn([m EXCEPT !.out = Append(@, args)], <<>>)
       [] f.c = "error" -> Throw(m, arg(1))
       [] f.c = "pcall" ->
            IF args = <<>> THEN RunError(m)
            ELSE luaD_call(m, L.base, LUA_MULTRET,
                           [k |-> "pcall", top |-> L.base, ci |-> Len(L.ci),
                            nCcalls |-> L.nCcalls])
       [] f.c = "create" -> IF luafun THEN CReturn(coroutine, <<co>>) ELSE RunError(m)
       [] f.c = "wrap" ->
            IF luafun THEN CReturn(wrapped, <<LastFunction(wrapped)>>) ELSE RunError(m)
       [] f.c = "resume" -> IF isco THEN auxresume(m, arg(1)[2], Tail(args), "resume")
                            ELSE RunError(m)
       [] f.c = "auxwrap" -> auxresume(m, f.co, args, "wrap")
       [] f.c = "yield" -> lua_yield(m, args)
       [] f.c = "status" -> IF isco THEN CReturn(m, <<Str(luaB_costatus(m, arg(1)[2]))>>)
                            ELSE RunError(m)
       [] f.c = "running" ->
            CReturn(m, IF m.cur = 1 THEN <<>> ELSE <<<<"thread", m.cur>>>>)
       [] OTHER -> Proceed(m, Entered(At(L, L.base - 1), args))
=============================================================================
