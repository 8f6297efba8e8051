------------------------------ MODULE LuaHeap ------------------------------
(***************************************************************************)
(* The incremental collector of the embedded Lua (src/lua/src/lgc.c), with *)
(* what programs do to the heap between two of its steps: objects and      *)
(* their links are created, stored and dropped through the write barriers, *)
(* strings and open upvalues come back from the dead, finalizers run and   *)
(* keep what they finalize, coroutines switch, and the state is closed.    *)
(*                                                                         *)
(* g is the global_State. heap has the objects in memory, by their kind:   *)
(*   table     its map, from keys to what they refer to                    *)
(*   thread    its stack                 closure   env and upvals          *)
(*   userdata  env and fin, the FINALIZEDBIT           string              *)
(*   upvalue   open at slot of th, or closed with v                        *)
(* and color their marks. rootgc are the elements of that list up to the   *)
(* main thread; the userdata after it, newest first, are udata, and those  *)
(* that wait for their finalizers tmudata. unswept is what the sweep has   *)
(* still to pass; what is linked after the colours flip is white already,  *)
(* and left out of it. The order in which gray objects are visited and the *)
(* list is swept is left open. cur is the running thread.                  *)
(* Of the past, made has the userdata that were created before lua_close,  *)
(* each with those that were made before it, fins counts the calls of each *)
(* one's finalizer, late has those that waited for it when the last ones   *)
(* joined them, and asserts names the lua_asserts that failed.             *)
(***************************************************************************)
EXTENDS Naturals, Sequences, FiniteSets, Functions

CONSTANTS
    Tables, Closures, Upvalues, Strings, Userdata, Coroutines,
                \* the objects: identities of memory blocks, used again when freed
    Main, Globals, Nil,
    Field,      \* a key that is no object: an index of the array part
    Mode,       \* table -> the weak kinds ("k", "v") its __mode names
    HasGC,      \* the userdata whose metatable has __gc
    StrSize,    \* the lists of the string table
    Bucket,     \* string -> its list
    SweepMax,   \* GCSWEEPMAX: elements of rootgc swept in a step
    Casts       \* what a run has: the objects that it creates and the stack slots of
                \* a thread (registers)

Values == Tables \cup Closures \cup Strings \cup Userdata \cup Coroutines
Objects == Values \cup Upvalues
Threads == Coroutines \cup {Main}

ASSUME HeapConstants ==
  /\ Tables \cap (Closures \cup Upvalues \cup Strings \cup Userdata \cup Threads) = {}
  /\ Closures \cap (Upvalues \cup Strings \cup Userdata \cup Threads) = {}
  /\ Upvalues \cap (Strings \cup Userdata \cup Threads) = {}
  /\ Strings \cap (Userdata \cup Threads) = {}
  /\ Userdata \cap Threads = {}
  /\ Globals \in Tables /\ Main \notin Objects /\ HasGC \subseteq Userdata
  /\ {Nil, Field} \cap (Objects \cup {Main}) = {}
  /\ \A t \in Tables : Mode[t] \subseteq {"k", "v"}
  /\ StrSize \in Nat \ {0} /\ \A s \in Strings : Bucket[s] \in 1..StrSize
  /\ SweepMax \in Nat \ {0}
  /\ \A c \in Casts : c.objects \subseteq Objects \ {Globals} /\ c.registers \in Nat \ {0}

VARIABLES cast, g

Weak == {t \in Tables : Mode[t] # {}}

Live(h) == DOMAIN h.heap
otherwhite(h) == IF h.white = "white0" THEN "white1" ELSE "white0"
iswhite(h, o) == h.color[o] \in {"white0", "white1"}
isblack(h, o) == h.color[o] = "black"
isgray(h, o) == h.color[o] = "gray"
isdead(h, o) == h.color[o] = otherwhite(h)
White(h) == {o \in Live(h) : iswhite(h, o)}
makewhite(h, o) == [h EXCEPT !.color[o] = h.white]
lua_assert(ok, where) == IF ok THEN {} ELSE {where}

\* f that also, or now, maps x to v.
Put(f, x, v) == [y \in DOMAIN f \cup {x} |-> IF y = x THEN v ELSE f[y]]

Open(h) == {u \in Upvalues \cap Live(h) : h.heap[u].open}
OpenAt(h, th, level) == {u \in Open(h) : h.heap[u].th = th /\ h.heap[u].slot >= level}
UpvalValue(h, u) ==
  LET uv == h.heap[u] IN IF uv.open THEN h.heap[uv.th][uv.slot] ELSE uv.v

\* The elements of a list that are in S, in their order.
Positions(s, S) ==
  CHOOSE at \in UNION {[1..n -> DOMAIN s] : n \in 0..Len(s)} :
    /\ \A i, j \in DOMAIN at : i < j => at[i] < at[j]
    /\ Range(at) = {i \in DOMAIN s : s[i] \in S}
Selected(s, S) == [i \in DOMAIN Positions(s, S) |-> s[Positions(s, S)[i]]]

-----------------------------------------------------------------------------
(* Marking.                                                                *)

\* What marking an upvalue or a userdata marks with it.
Beneath(h, os) ==
  {UpvalValue(h, u) : u \in os \cap Upvalues} \cup {h.heap[d].env : d \in os \cap Userdata}
\* An upvalue may have a userdata, which has an environment.
reallymarkobject(h, vs) ==
  LET first == vs \cap White(h)
      second == first \cup (Beneath(h, first) \cap White(h))
  IN second \cup (Beneath(h, second) \cap White(h))
\* Userdata are never gray, open upvalues never black; the others go to gray.
Mark(h, vs) ==
  LET marked == reallymarkobject(h, vs)
      black == marked \cap (Userdata \cup (Upvalues \ Open(h)))
  IN [h EXCEPT !.color = [o \in DOMAIN h.color |->
                            IF o \in black THEN "black" ELSE IF o \in marked THEN "gray" ELSE h.color[o]],
               !.gray = @ \cup (marked \ (Userdata \cup Upvalues \cup Strings)),
               !.asserts = @ \cup lua_assert(\A o \in marked : ~isdead(h, o), "reallymarkobject")]

(* What the traversal of an object marks (traversetable, traverseclosure,  *)
(* traversestack), or that is marked with it.                              *)
MarkRefs(h, o) ==
  CASE o \in Tables -> (IF "k" \in Mode[o] THEN {} ELSE DOMAIN h.heap[o] \ {Field})
                         \cup (IF "v" \in Mode[o] THEN {} ELSE Range(h.heap[o]))
    [] o \in Closures -> {h.heap[o].env} \cup h.heap[o].upvals
    [] o \in Upvalues -> {UpvalValue(h, o)} \ {Nil}
    [] o \in Userdata -> {h.heap[o].env}
    [] o \in Threads -> Range(h.heap[o]) \ {Nil}
    [] OTHER -> {}

(* Traversed, an object leaves gray and becomes black. A weak table stays  *)
(* gray, in the list of those to clear after marking, and a thread stays   *)
(* gray, to be visited again.                                              *)
Traversed(h, os) ==
  [h EXCEPT !.gray = @ \ os, !.weak = @ \cup (os \cap Weak), !.grayagain = @ \cup (os \cap Threads),
            !.color = [o \in DOMAIN h.color |->
                         IF o \in os \ (Weak \cup Threads) THEN "black" ELSE h.color[o]],
            !.asserts = @ \cup lua_assert(\A o \in os : isgray(h, o), "propagatemark")]
propagatemark(h, o) == Mark(Traversed(h, {o}), MarkRefs(h, o))

(* Until there is no gray object left: the white objects that the gray     *)
(* ones lead to, by way of others of them, are marked and traversed.       *)
Spread(h) ==
  LET first == (UNION {MarkRefs(h, o) : o \in h.gray}) \cap White(h)
      closed == {os \in {first \cup more : more \in SUBSET (White(h) \ first)} :
                   \A o \in os : MarkRefs(h, o) \cap White(h) \subseteq os}
  IN {o \in White(h) : \A os \in closed : o \in os}
propagateall(h) == LET marked == Mark(h, Spread(h)) IN Traversed(marked, marked.gray)

markroot(h) ==
  [Mark([h EXCEPT !.gray = {}, !.grayagain = {}, !.weak = {}], {Main, Globals})
     EXCEPT !.gcstate = "propagate"]

(* The values of upvalues that are open in a thread that may be dead. *)
remarkupvals(h) == Mark(h, {UpvalValue(h, u) : u \in {x \in Open(h) : isgray(h, x)}})

(* Userdata that die (or all) and have a finalizer, newest first, go from  *)
(* udata to the end of tmudata; those that have none are just noted.       *)
Separated(h, dies) ==
  LET due == dies \cap HasGC
  IN [h EXCEPT !.heap = [o \in Live(h) |-> IF o \in dies THEN [h.heap[o] EXCEPT !.fin = TRUE]
                                           ELSE h.heap[o]],
               !.udata = Selected(@, Userdata \ due), !.tmudata = @ \o Selected(h.udata, due),
               !.late = Range(h.tmudata)]
luaC_separateudataAgain(h, all) ==    \* mutant: also what was finalized before
  Separated(h, {u \in Range(h.udata) : iswhite(h, u) \/ all})
luaC_separateudata(h, all) ==
  Separated(h, {u \in Range(h.udata) : (iswhite(h, u) \/ all) /\ ~h.heap[u].fin})
marktmu(h) ==
  Mark([h EXCEPT !.color = [o \in DOMAIN h.color |->
                              IF o \in Range(h.tmudata) THEN h.white ELSE h.color[o]]],
       Range(h.tmudata))

(* Strings are never removed (stringmark); userdata being finalized stay   *)
(* as keys only.                                                           *)
isclearedWhite(h, o, iskey) == o \in Live(h) \ Strings /\ iswhite(h, o)    \* mutant
iscleared(h, o, iskey) ==
  /\ o \in Live(h) \ Strings
  /\ iswhite(h, o) \/ (o \in Userdata /\ ~iskey /\ h.heap[o].fin)
\* The keys of a weak table that cleartable removes, and what it looks at.
Cleared(h, t) ==
  {k \in DOMAIN h.heap[t] :
     \/ k # Field /\ (iscleared(h, k, TRUE) \/ iscleared(h, h.heap[t][k], FALSE))
     \/ k = Field /\ "v" \in Mode[t] /\ iscleared(h, h.heap[t][k], FALSE)}
Seen(h, t) ==
  DOMAIN h.heap[t] \cup {h.heap[t][k] : k \in {x \in DOMAIN h.heap[t] : ~iscleared(h, x, TRUE)}}
cleartable(h) ==
  LET strings == Strings \cap White(h) \cap UNION {Seen(h, t) : t \in h.weak}
  IN [h EXCEPT !.color = [o \in DOMAIN h.color |-> IF o \in strings THEN "gray" ELSE h.color[o]],
               !.heap = [o \in Live(h) |->
                           IF o \in h.weak THEN Restrict(h.heap[o], DOMAIN h.heap[o] \ Cleared(h, o))
                           ELSE h.heap[o]]]

(* What is white now is dead. gray, grayagain and weak are not read again  *)
(* before markroot resets them.                                            *)
Flipped(h) ==
  [h EXCEPT !.white = otherwhite(h), !.sweepstrgc = 1, !.unswept = h.rootgc \cup Range(h.udata),
            !.gcstate = "sweepstring", !.gray = {}, !.grayagain = {}, !.weak = {}]
atomic(h0) ==
  LET h1 == propagateall(remarkupvals(h0))
      again == [h1 EXCEPT !.gray = h1.weak, !.weak = {},
                          !.asserts = @ \cup lua_assert(~iswhite(h1, Main), "atomic")]
      h2 == propagateall(Mark(again, {h0.cur}))
      h3 == propagateall([h2 EXCEPT !.gray = h2.grayagain, !.grayagain = {}])
      h4 == propagateall(marktmu(luaC_separateudata(h3, FALSE)))
  IN Flipped(cleartable(h4))

-----------------------------------------------------------------------------
(* Barriers, and upvalues of a stack, open and closed.                     *)

(* A userdata that awaits its finalizer is not swept and stays black until *)
(* then: where its environment is set meanwhile, the collector may be past *)
(* marking and sweeping, and what fails then is noted as "awaiting".       *)
luaC_barrierf(h, o, v) ==
  LET failed == lua_assert(/\ isblack(h, o) /\ iswhite(h, v) /\ ~isdead(h, v) /\ ~isdead(h, o)
                           /\ o \notin Tables, "luaC_barrierf")
                \cup lua_assert(h.gcstate \notin {"finalize", "pause"},
                                IF o \in Range(h.tmudata) THEN "awaiting" ELSE "luaC_barrierf")
      ok == [h EXCEPT !.asserts = @ \cup failed]
  IN IF h.gcstate = "propagate" THEN Mark(ok, {v}) ELSE makewhite(ok, o)
luaC_barrier(h, o, v) ==
  IF v \in White(h) /\ isblack(h, o) THEN luaC_barrierf(h, o, v) ELSE h

(* Only while it marks does the collector read grayagain. *)
luaC_barrierback(h, t) ==
  [h EXCEPT !.color[t] = "gray", !.grayagain = IF h.gcstate = "propagate" THEN @ \cup {t} ELSE @,
            !.asserts = @ \cup lua_assert(isblack(h, t) /\ ~isdead(h, t) /\ h.gcstate \notin {"finalize", "pause"},
                                          "luaC_barrierback")]
luaC_barriert(h, t, v) == IF v \in White(h) /\ isblack(h, t) THEN luaC_barrierback(h, t) ELSE h

luaC_new(h, o, object) == [h EXCEPT !.heap = Put(@, o, object), !.color = Put(@, o, h.white)]
luaC_link(h, o, object) == [luaC_new(h, o, object) EXCEPT !.rootgc = @ \cup {o}]
\* Userdata are linked after the main thread.
AfterMain(h, u) == [h EXCEPT !.udata = <<u>> \o @]

(* Dead upvalues are freed. The others get the value of their slot and go  *)
(* to rootgc, where they may be black and need the barrier.                *)
Unstacked(h, us, dead) ==
  [h EXCEPT !.heap = [o \in Live(h) \ dead |->
                        IF o \in us THEN [h.heap[o] EXCEPT !.open = FALSE, !.v = UpvalValue(h, o)]
                        ELSE h.heap[o]],
            !.color = [o \in Live(h) \ dead |-> h.color[o]],
            !.rootgc = (@ \ dead) \cup us]
luaC_linkupvalBare(h, us) ==    \* mutant: no barrier for the values
  [h EXCEPT !.color = [o \in DOMAIN h.color |->
                         IF o \in us THEN IF h.gcstate = "propagate" THEN "black" ELSE h.white
                         ELSE h.color[o]]]
luaC_linkupval(h, us) ==
  LET linked == [h EXCEPT !.color = [o \in DOMAIN h.color |->
                                       IF o \in us THEN IF h.gcstate = "propagate" THEN "black" ELSE h.white
                                       ELSE h.color[o]],
                          !.asserts = @ \cup lua_assert(us = {} \/ h.gcstate \notin {"finalize", "pause"},
                                                        "luaC_linkupval")]
  IN IF h.gcstate = "propagate" THEN Mark(linked, {h.heap[u].v : u \in us}) ELSE linked
luaF_close(h, th, level) ==
  LET us == OpenAt(h, th, level)
      dead == {u \in us : isdead(h, u)}
      ok == [h EXCEPT !.asserts = @ \cup lua_assert(\A u \in us : ~isblack(h, u), "luaF_close")]
  IN luaC_linkupval(Unstacked(ok, us \ dead, dead), {u \in us \ dead : isgray(h, u)})

(* The upvalue of a slot, a new one or the one that is there: a dead one   *)
(* is brought back.                                                        *)
FindDead(h, u, slot) ==    \* mutant: leaves a dead one dead
  LET uv == [open |-> TRUE, th |-> h.cur, slot |-> slot, v |-> Nil]
  IN IF u \notin Live(h) THEN luaC_new(h, u, uv) ELSE h
luaF_findupval(h, u, slot) ==
  LET uv == [open |-> TRUE, th |-> h.cur, slot |-> slot, v |-> Nil]
  IN IF u \notin Live(h) THEN luaC_new(h, u, uv) ELSE IF isdead(h, u) THEN makewhite(h, u) ELSE h

-----------------------------------------------------------------------------
(* Sweeping and finalizing.                                                *)

\* What is dead is freed; what is not becomes white, for the next cycle.
Swept(h, os) ==
  LET dead == {o \in os \ {Main} : isdead(h, o)}
  IN [h EXCEPT !.heap = Restrict(h.heap, Live(h) \ dead),
               !.color = [o \in Live(h) \ dead |-> IF o \in os THEN h.white ELSE h.color[o]],
               !.rootgc = @ \ dead, !.udata = Selected(@, Live(h) \ dead)]

(* With each thread its open upvalues are swept; if it is freed, it closes *)
(* what is left of them first (luaE_freethread).                           *)
sweeplist(h, os) ==
  LET open == {u \in Open(h) : h.heap[u].th \in os}
      orphans == {u \in open : isdead(h, h.heap[u].th) /\ ~isdead(h, u)}
  IN [Swept(Unstacked(h, orphans, {}), os \cup open) EXCEPT !.unswept = @ \ os]

sweepstep(h, os) ==
  LET swept == sweeplist(h, os)
  IN [swept EXCEPT !.gcstate = IF swept.unswept = {} THEN "finalize" ELSE @]
sweepstrings(h, lists) == Swept(h, {s \in Strings \cap Live(h) : Bucket[s] \in lists})
sweepstringstep(h) ==
  [sweepstrings(h, {h.sweepstrgc}) EXCEPT
     !.gcstate = IF h.sweepstrgc >= StrSize THEN "sweep" ELSE @, !.sweepstrgc = @ + 1]

(* The finalizer gets its userdata as argument, in slot r of the running   *)
(* thread; what it does with it are steps of the program.                  *)
GCTMUnlisted(h, r) ==    \* mutant: in no list any more
  LET u == Head(h.tmudata)
  IN [makewhite(h, u) EXCEPT !.tmudata = Tail(@), !.heap[h.cur][r] = u, !.fins[u] = @ + 1,
                             !.late = @ \ {u}]
GCTM(h, r) ==
  LET u == Head(h.tmudata)
  IN [makewhite(AfterMain(h, u), u) EXCEPT !.tmudata = Tail(@), !.heap[h.cur][r] = u,
                                           !.fins[u] = @ + 1, !.late = @ \ {u}]

\* What is left of a sweep.
sweepall(h) ==
  [sweeplist(sweepstrings(h, h.sweepstrgc..StrSize), h.unswept) EXCEPT
     !.gcstate = "finalize", !.sweepstrgc = StrSize + 1]
luaC_fullgcRest(h) ==    \* mutant: only what is left of the cycle under way
  CASE h.gcstate \in {"sweepstring", "sweep"} -> sweepall(h)
    [] h.gcstate = "propagate" -> sweepall(atomic(propagateall(h)))
    [] OTHER -> sweepall(atomic(propagateall(markroot(h))))
(* A marking under way is given up, a sweep finished; then a whole cycle   *)
(* runs, up to its finalizers.                                             *)
luaC_fullgc(h) ==
  LET unmarked == [h EXCEPT !.sweepstrgc = 1, !.unswept = h.rootgc \cup Range(h.udata),
                            !.gray = {}, !.grayagain = {}, !.weak = {}, !.gcstate = "sweepstring"]
      clean == sweepall(IF h.gcstate \in {"pause", "propagate"} THEN unmarked ELSE h)
  IN sweepall(atomic(propagateall(markroot(clean))))

-----------------------------------------------------------------------------
(* The program, in the running thread. *)

Regs == g.heap[g.cur]
Slots == DOMAIN Regs
NoRegs == [r \in Slots |-> Nil]
SetReg(h, r, v) == [h EXCEPT !.heap[h.cur][r] = v]
Fresh(kind) == (cast.objects \cap kind) \ Live(g)
\* What the program has at hand: its slots, and globals, by way of a slot.
AtHand(kind) == (Range(Regs) \cup {Globals} \cup Range(g.heap[Globals])) \cap kind
KeysOf(t) ==
  IF "k" \in Mode[t] THEN (cast.objects \cap (Tables \cup Userdata \cup Strings)) \ {t} ELSE {Field}
Running == g.gcstate # "closed"

NewTable(r) == \E t \in Fresh(Tables) : g' = SetReg(luaC_link(g, t, <<>>), r, t)
NewThread(r) == \E co \in Fresh(Coroutines) : g' = SetReg(luaC_link(g, co, NoRegs), r, co)
luaS_newudata(r) ==
  \E u \in Fresh(Userdata) :
    LET others == DOMAIN g.made \ {u}
        mades == IF g.gcstate = "closing" THEN others ELSE others \cup {u}
    IN g' = SetReg([AfterMain(luaC_new(g, u, [env |-> Globals, fin |-> FALSE]), u) EXCEPT
                      !.made = [x \in mades |-> IF x = u THEN others ELSE g.made[x] \ {u}],
                      !.fins[u] = 0], r, u)

(* A string that is there is used again, brought back if it is dead.       *)
luaS_newlstr(r) ==
  \E s \in cast.objects \cap Strings :
    g' = SetReg(IF s \notin Live(g) THEN luaC_new(g, s, <<>>)
                ELSE IF isdead(g, s) THEN makewhite(g, s) ELSE g, r, s)

(* OP_CLOSURE: the new function captures a slot, or an upvalue of the one  *)
(* that runs.                                                              *)
NewClosure(r) ==
  \E c \in Fresh(Closures) :
    LET With(h, u) == SetReg(luaC_link(h, c, [env |-> Globals, upvals |-> {u}]), r, c)
        Found(slot) == {u \in OpenAt(g, g.cur, slot) : g.heap[u].slot = slot}
    IN \/ \E slot \in Slots : \E u \in IF Found(slot) = {} THEN Fresh(Upvalues) ELSE Found(slot) :
            g' = With(luaF_findupval(g, u, slot), u)
       \/ \E f \in AtHand(Closures) : \E u \in g.heap[f].upvals : g' = With(g, u)

Close(level) == OpenAt(g, g.cur, level) # {} /\ g' = luaF_close(g, g.cur, level)

GetTable(r) == \E t \in AtHand(Tables) : \E k \in DOMAIN g.heap[t] :
                 g' = SetReg(g, r, g.heap[t][k])
SetTable(r) ==
  \E t \in AtHand(Tables), k \in {Field} \cup Range(Regs) :
    LET map == g.heap[t]
        v == Regs[r]
        keyed == IF k \in DOMAIN map \cup {Field} THEN g ELSE luaC_barriert(g, t, k)
    IN /\ k \in KeysOf(t) /\ (v # Nil \/ k \in DOMAIN map)
       /\ g' = IF v = Nil THEN [g EXCEPT !.heap[t] = Restrict(map, DOMAIN map \ {k})]
               ELSE luaC_barriert([keyed EXCEPT !.heap[t] = Put(map, k, v)], t, v)
GetUpval(r) ==
  \E c \in AtHand(Closures) : \E u \in g.heap[c].upvals : g' = SetReg(g, r, UpvalValue(g, u))
SetUpval(r) ==
  \E c \in AtHand(Closures) : \E u \in g.heap[c].upvals :
    LET uv == g.heap[u]
        set == IF uv.open THEN [g EXCEPT !.heap[uv.th][uv.slot] = Regs[r]]
               ELSE [g EXCEPT !.heap[u].v = Regs[r]]
    IN g' = luaC_barrier(set, u, Regs[r])
lua_getfenv(r) == \E o \in AtHand(Closures \cup Userdata) : g' = SetReg(g, r, g.heap[o].env)
lua_setfenv(r) ==
  \E o \in AtHand(Closures \cup Userdata) :
    /\ Regs[r] \in Tables
    /\ g' = luaC_barrier([g EXCEPT !.heap[o].env = Regs[r]], o, Regs[r])
Forget(r) == Regs[r] # Nil /\ g' = SetReg(g, r, Nil)

(* A resume and a yield each pass a value. *)
Resume(r) ==
  /\ g.cur = Main /\ Regs[r] \in Coroutines
  /\ \E a \in Slots : g' = [g EXCEPT !.cur = Regs[r], !.heap[Regs[r]][1] = Regs[a]]
Yield(r) ==
  /\ g.cur # Main
  /\ \E a \in Slots : g' = [g EXCEPT !.cur = Main, !.heap[Main][a] = Regs[r]]

Program ==
  /\ Running
  /\ \E r \in Slots :
       \/ NewTable(r) \/ NewThread(r) \/ luaS_newudata(r) \/ luaS_newlstr(r) \/ NewClosure(r)
       \/ GetTable(r) \/ SetTable(r) \/ GetUpval(r) \/ SetUpval(r)
       \/ lua_getfenv(r) \/ lua_setfenv(r) \/ Forget(r) \/ Close(r) \/ Resume(r) \/ Yield(r)

-----------------------------------------------------------------------------
(* The collector. *)

Finalize ==
  /\ g.gcstate \in {"finalize", "closing"} /\ g.tmudata # <<>>
  /\ \E r \in Slots : Regs[r] = Nil /\ g' = GCTM(g, r)

singlestep ==
  \/ g.gcstate = "pause" /\ g' = markroot(g)
  \/ g.gcstate = "propagate" /\ \E o \in g.gray : g' = propagatemark(g, o)
  \/ g.gcstate = "propagate" /\ g.gray = {} /\ g' = atomic(g)
  \/ g.gcstate = "sweepstring" /\ g' = sweepstringstep(g)
  \/ g.gcstate = "sweep" /\ \E os \in SUBSET g.unswept \ {{}} :
       Cardinality(os) <= SweepMax /\ g' = sweepstep(g, os)
  \/ g.gcstate = "finalize" /\ g.tmudata = <<>> /\ g' = [g EXCEPT !.gcstate = "pause"]
FullCollection == g.gcstate \notin {"closing", "closed"} /\ g' = luaC_fullgc(g)

(* lua_close: the finalizers of all userdata, then everything is freed.    *)
lua_close ==
  /\ g.gcstate \notin {"closing", "closed"} /\ g.cur = Main
  /\ g' = [luaC_separateudata(luaF_close(g, Main, 1), TRUE)
             EXCEPT !.heap[Main] = NoRegs, !.gcstate = "closing"]
close_state ==
  LET listed == g.rootgc \cup Range(g.udata) \cup Strings \cup {u \in Open(g) : g.heap[u].th \in Live(g)}
      left == (Live(g) \ listed) \cup {Main}
  IN /\ g.gcstate = "closing" /\ g.tmudata = <<>>
     /\ g' = [g EXCEPT !.gcstate = "closed", !.rootgc = {Main}, !.udata = <<>>, !.unswept = {},
                       !.heap = Restrict(g.heap, left), !.color = Restrict(g.color, left)]
Closed == g.gcstate = "closed" /\ UNCHANGED g

Init ==
  /\ cast \in Casts
  /\ g = [heap |-> [o \in {Main, Globals} |->
                      IF o = Main THEN [r \in 1..cast.registers |-> Nil] ELSE <<>>],
          color |-> [o \in {Main, Globals} |-> "white0"],
          gcstate |-> "pause", white |-> "white0", gray |-> {}, grayagain |-> {}, weak |-> {},
          rootgc |-> {Globals, Main}, udata |-> <<>>, unswept |-> {}, sweepstrgc |-> StrSize + 1,
          tmudata |-> <<>>, cur |-> Main, fins |-> [u \in Userdata |-> 0], made |-> <<>>,
          late |-> {}, asserts |-> {}]
Next ==
  /\ Program \/ Finalize \/ singlestep \/ FullCollection \/ lua_close \/ close_state \/ Closed
  /\ UNCHANGED cast
Spec == Init /\ [][Next]_<<cast, g>>

-----------------------------------------------------------------------------
(* Properties. *)

StrongRefs(h, o) ==
  MarkRefs(h, o) \cup IF o \in Tables THEN (DOMAIN h.heap[o] \cup Range(h.heap[o])) \cap Strings ELSE {}
ReachedFrom(h, os) ==
  LET all == Live(h) \cup os \cup UNION {StrongRefs(h, o) : o \in Live(h)}
      closed == {S \in {os \cup more : more \in SUBSET (all \ os)} :
                   \A o \in S \cap Live(h) : StrongRefs(h, o) \subseteq S}
  IN {o \in all : \A S \in closed : o \in S}
Reachable(h) == ReachedFrom(h, {Main, Globals, h.cur})

(* Whatever the program can reach is in memory and will not be swept, and  *)
(* so is what a weak table still shows.                                    *)
NothingReachableFreed ==
  Running => \A o \in Reachable(g) :
    /\ o \in Live(g) /\ ~isdead(g, o)
    /\ o \in Tables =>
         \A x \in (DOMAIN g.heap[o] \ {Field}) \cup Range(g.heap[o]) : x \in Live(g) /\ ~isdead(g, x)

(* While it marks, the collector may trust what is black: nothing black    *)
(* refers to something white, whatever the program stored in between.      *)
TriColour ==
  g.gcstate = "propagate" =>
    \A o \in Live(g) : isblack(g, o) => \A v \in StrongRefs(g, o) : v \in Live(g) /\ ~iswhite(g, v)

(* A finalizer runs once in the life of its userdata, and not after it, if *)
(* need be when the state is closed; those of a cycle run in the reverse   *)
(* order of creation (manual, 2.10.1), after those that still waited.      *)
FinalizedOnce ==
  /\ \A u \in Userdata : g.fins[u] <= 1
  /\ \A u \in (HasGC \cap DOMAIN g.made) \ Live(g) : g.fins[u] = 1
  /\ \A a, b \in DOMAIN g.tmudata :
       a < b => g.tmudata[a] \in g.late \/ g.tmudata[b] \in g.made[g.tmudata[a]]

(* Every object is in exactly one of the lists that are swept, and in at   *)
(* most one of those that its one gclist can chain; what is in one of them *)
(* is gray, so that no mark and no barrier chains it again.                *)
ListsAreSound ==
  LET swept == g.udata \o g.tmudata
      open == {u \in Open(g) : g.heap[u].th \in Live(g)}
  IN /\ IsInjective(swept) /\ Range(swept) \subseteq Userdata /\ g.rootgc \cap (Userdata \cup Strings) = {}
     /\ Live(g) = g.rootgc \cup Range(swept) \cup (Strings \cap Live(g)) \cup open
     /\ open \cap g.rootgc = {}
     /\ g.gray \cap g.grayagain = {} /\ (g.gray \cup g.grayagain) \cap g.weak = {}
     /\ g.gcstate = "propagate" =>
          \A o \in g.gray \cup g.grayagain \cup g.weak : o \in Live(g) /\ isgray(g, o)
(* No lua_assert fails but one: luaC_barrierf's, that the collector is     *)
(* marking or sweeping (lgc.c:665), fails when the environment is set of a *)
(* userdata that awaits its finalizer, and of nothing else. The lists are  *)
(* sound all the same.                                                     *)
AssertionsHold == g.asserts \subseteq {"awaiting"} /\ ListsAreSound

(* A full collection leaves what could be reached before it, also from the *)
(* userdata that now wait for their finalizers, and nothing else.          *)
CollectsAllGarbage ==
  [][g'.gcstate = "finalize" /\ FullCollection =>
       DOMAIN g'.heap \subseteq ReachedFrom(g, {Main, Globals, g.cur} \cup Range(g'.tmudata))]_g

(* When the marking ends, no weak table shows a value that awaits its      *)
(* finalizer: a finalizer finds itself in no cache.                        *)
WeakValuesCleared ==
  [][g.gcstate = "propagate" /\ g'.gcstate = "sweepstring" =>
       \A t \in Tables \cap DOMAIN g'.heap :
         "v" \in Mode[t] /\ ~isdead(g', t) => Range(g'.tmudata) \cap Range(g'.heap[t]) = {}]_g
=============================================================================
