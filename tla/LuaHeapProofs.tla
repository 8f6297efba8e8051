--------------------------- MODULE LuaHeapProofs ---------------------------
(***************************************************************************)
(* Proofs about the collector: whatever programs do between its steps, it  *)
(* frees nothing that they can reach and loses no object, for any objects  *)
(* and any order of visits.                                                *)
(***************************************************************************)
EXTENDS LuaHeap, SequenceTheorems, FiniteSetTheorems, WellFoundedInduction, TLAPS

-----------------------------------------------------------------------------
(* The invariant                                                           *)

Fields == {"heap", "color", "gcstate", "white", "gray", "grayagain", "weak", "rootgc", "udata",
           "unswept", "sweepstrgc", "tmudata", "cur", "fins", "made", "late", "asserts"}
Listed == Tables \cup Closures \cup Threads    \* what has a gclist
Stack(h) == DOMAIN h.heap[Main]

\* The marks are marks of the objects that are there.
Shape(h) ==
  /\ DOMAIN h = Fields /\ DOMAIN h.color = Live(h)
  /\ h.white \in {"white0", "white1"}
  /\ h.gcstate \in {"pause", "propagate", "sweepstring", "sweep", "finalize", "closing"}
  /\ \A o \in Live(h) : h.color[o] \in {"white0", "white1", "gray", "black"}
  /\ Live(h) \subseteq Objects \cup {Main} /\ {Main, Globals, h.cur} \subseteq Live(h)
  /\ h.cur \in Threads

\* What an object of a kind has, in memory h.
Payload(h, o) ==
  LET p == h.heap[o]
  IN /\ o \in Tables => /\ DOMAIN p \subseteq Values \cup {Field}
                        /\ \A k \in DOMAIN p : p[k] \in Values
     /\ o \in Closures => /\ DOMAIN p = {"env", "upvals"}
                          /\ p.env \in Tables /\ p.upvals \subseteq Upvalues
     /\ o \in Upvalues => /\ DOMAIN p = {"open", "th", "slot", "v"}
                          /\ p.open \in BOOLEAN /\ p.th \in Threads /\ p.slot \in Stack(h)
                          /\ p.v \in Values \cup {Nil} /\ (p.open => p.th \in Live(h))
     /\ o \in Userdata => /\ DOMAIN p = {"env", "fin"}
                          /\ p.env \in Tables /\ p.fin \in BOOLEAN
     /\ o \in Threads => /\ DOMAIN p = Stack(h)
                         /\ \A r \in Stack(h) : p[r] \in Values \cup {Nil}
Payloads(h) == \A o \in Live(h) : Payload(h, o)
Typed(h) == Shape(h) /\ Payloads(h)

\* All that an object refers to, weakly or not.
Refs(h, o) ==
  IF o \in Tables THEN (DOMAIN h.heap[o] \ {Field}) \cup Range(h.heap[o]) ELSE MarkRefs(h, o)
Good(h, o) == o \in Live(h) /\ ~isdead(h, o)
Sound(h, o) == \A v \in Refs(h, o) : Good(h, v)

\* What is not dead refers to nothing that is dead or gone.
NoDangling(h) ==
  /\ \A o \in Live(h) : ~isdead(h, o) => Sound(h, o)
  /\ Good(h, Main) /\ Good(h, Globals) /\ Good(h, h.cur)

\* Every object is in the one list that its kind belongs to.
Lists(h) ==
  /\ h.rootgc = Live(h) \cap (Listed \cup (Upvalues \ Open(h)))
  /\ h.udata \in Seq(Userdata) /\ h.tmudata \in Seq(Userdata)
  /\ Range(h.udata) \cup Range(h.tmudata) = Live(h) \cap Userdata
  /\ Range(h.udata) \cap Range(h.tmudata) = {}
  /\ IsInjective(h.udata) /\ IsInjective(h.tmudata)

\* What awaits its finalizer is kept; a userdata that dies has none to await.
Awaiting(h) ==
  /\ \A u \in Range(h.tmudata) : Good(h, u) /\ h.heap[u].fin /\ u \in HasGC
  /\ \A u \in Userdata \cap Live(h) : isdead(h, u) => h.heap[u].fin

\* What may still change without a barrier is never black, userdata are never gray.
Marks(h) ==
  \A o \in Live(h) : /\ isblack(h, o) => o \notin Threads \cup Strings \cup Weak \cup Open(h)
                     /\ isgray(h, o) => o \notin Userdata

\* o does not lead to anything that is still white.
Settled(h, o) == MarkRefs(h, o) \cap White(h) = {}

(* While it marks: what is black is settled, but for those in loose; what  *)
(* is gray will be visited.                                                *)
Marking(h, loose) ==
  /\ \A o \in Live(h) : ~isdead(h, o)
  /\ \A o \in Live(h) \ loose : isblack(h, o) => Settled(h, o)
  /\ \A o \in Live(h) : isgray(h, o) => o \in Strings \cup Open(h) \cup h.gray \cup h.grayagain \cup h.weak
  /\ h.gray \subseteq Listed /\ h.weak \subseteq Weak /\ h.grayagain \subseteq Listed \ Weak
  /\ \A o \in h.gray \cup h.grayagain \cup h.weak : o \in Live(h) /\ isgray(h, o)
  /\ h.gray \cap (h.grayagain \cup h.weak) = {} /\ h.grayagain \cap h.weak = {}
\* The roots are marked.
Rooted(h) == ~iswhite(h, Main) /\ ~iswhite(h, Globals)

\* While it sweeps: what has not the new white will still be passed.
Sweeping(h) ==
  \A o \in Live(h) : h.color[o] # h.white =>
    \/ o \in h.unswept \cup Range(h.tmudata)
    \/ o \in Strings /\ Bucket[o] >= h.sweepstrgc
    \/ o \in Open(h) /\ h.heap[o].th \in h.unswept

\* What is so in each of the collector's states, but for the objects in loose.
Phase(h, loose) ==
  /\ h.gcstate = "pause" => \A o \in Live(h) : h.color[o] = h.white
  /\ h.gcstate \in {"pause", "propagate"} => h.tmudata = <<>>
  /\ h.gcstate = "propagate" => Marking(h, loose) /\ Rooted(h)
  /\ h.gcstate \in {"sweepstring", "sweep"} => Sweeping(h)
  /\ h.gcstate = "sweep" => h.sweepstrgc > StrSize
  /\ h.gcstate = "finalize" => \A o \in Live(h) : h.color[o] = h.white \/ o \in Range(h.tmudata)
  /\ h.sweepstrgc \in Nat
\* An object is chained by its gclist once.
Chains(h) == h.gray \cap h.grayagain = {} /\ (h.gray \cup h.grayagain) \cap h.weak = {}

HeapBut(h, loose) ==
  /\ Typed(h) /\ NoDangling(h) /\ Lists(h) /\ Awaiting(h) /\ Marks(h) /\ Phase(h, loose)
  /\ Chains(h) /\ h.asserts \subseteq {"awaiting"}
HeapInv(h) == HeapBut(h, {})

-----------------------------------------------------------------------------
(* Operators                                                               *)

\* The kinds are disjoint.
LEMMA Kinds ==
  /\ \A o \in Tables : o \notin Closures \cup Upvalues \cup Strings \cup Userdata \cup Threads
  /\ \A o \in Closures : o \notin Upvalues \cup Strings \cup Userdata \cup Threads
  /\ \A o \in Upvalues : o \notin Strings \cup Userdata \cup Threads
  /\ \A o \in Strings : o \notin Userdata \cup Threads
  /\ \A o \in Userdata : o \notin Threads
  /\ \A o \in Values : o \notin Upvalues /\ o # Nil /\ o # Field /\ o # Main
  /\ \A o \in Objects \cup {Main} : o # Nil /\ o # Field
  /\ \A o \in Objects \cup {Main} : o \in Listed \cup Upvalues \cup Strings \cup Userdata
  /\ Main \in Threads /\ Globals \in Tables /\ Weak \subseteq Tables /\ HasGC \subseteq Userdata
BY HeapConstants DEF Threads, Values, Objects, Listed, Weak

\* What is marked with an object, by its kind.
LEMMA MarkRefsOf ==
  ASSUME NEW h, NEW o
  PROVE  /\ o \in Tables => MarkRefs(h, o) =
              (IF "k" \in Mode[o] THEN {} ELSE DOMAIN h.heap[o] \ {Field})
                \cup (IF "v" \in Mode[o] THEN {} ELSE Range(h.heap[o]))
         /\ o \in Closures => MarkRefs(h, o) = {h.heap[o].env} \cup h.heap[o].upvals
         /\ o \in Upvalues => MarkRefs(h, o) = {UpvalValue(h, o)} \ {Nil}
         /\ o \in Userdata => MarkRefs(h, o) = {h.heap[o].env}
         /\ o \in Threads => MarkRefs(h, o) = Range(h.heap[o]) \ {Nil}
         /\ o \in Strings => MarkRefs(h, o) = {}
BY Kinds DEF MarkRefs

\* The collector follows no more than there is.
LEMMA MarkRefsAreRefs ==
  ASSUME NEW h, NEW o
  PROVE  /\ MarkRefs(h, o) \subseteq Refs(h, o)
         /\ o \notin Weak => MarkRefs(h, o) = Refs(h, o)
<1>1. CASE o \in Tables
  <2>1. o \notin Weak => Mode[o] = {}
    BY <1>1 DEF Weak
  <2> QED
    BY <1>1, <2>1, MarkRefsOf DEF Refs
<1>2. CASE o \notin Tables
  BY <1>2 DEF Refs
<1> QED
  BY <1>1, <1>2

\* k has the objects and lists of h, and differs in its marks at most.
SameObjects(h, k) ==
  /\ DOMAIN k = Fields /\ DOMAIN k.color = DOMAIN h.color
  /\ k.heap = h.heap /\ k.gcstate = h.gcstate /\ k.white = h.white /\ k.rootgc = h.rootgc
  /\ k.udata = h.udata /\ k.unswept = h.unswept /\ k.sweepstrgc = h.sweepstrgc
  /\ k.tmudata = h.tmudata /\ k.cur = h.cur /\ k.fins = h.fins /\ k.made = h.made
  /\ k.late = h.late

LEMMA SameRefs ==
  ASSUME NEW h, NEW k, k.heap = h.heap
  PROVE  /\ Live(k) = Live(h) /\ Open(k) = Open(h) /\ Stack(k) = Stack(h)
         /\ \A u : UpvalValue(k, u) = UpvalValue(h, u)
         /\ \A o : MarkRefs(k, o) = MarkRefs(h, o) /\ Refs(k, o) = Refs(h, o)
         /\ \A o : Payload(k, o) = Payload(h, o)
BY DEF Live, Open, UpvalValue, MarkRefs, Refs, Stack, Payload

\* What an upvalue has.
LEMMA UpvalTyped ==
  ASSUME NEW h, Typed(h), NEW u \in Upvalues \cap Live(h)
  PROVE  /\ UpvalValue(h, u) \in Values \cup {Nil}
         /\ UpvalValue(h, u) = IF u \in Open(h) THEN h.heap[h.heap[u].th][h.heap[u].slot]
                               ELSE h.heap[u].v
<1>1. Payload(h, u)
  BY DEF Typed, Payloads
<1>2. CASE h.heap[u].open
  <2>1. Payload(h, h.heap[u].th)
    BY <1>1, <1>2 DEF Typed, Payloads, Payload
  <2> QED
    BY <1>1, <1>2, <2>1 DEF Payload, UpvalValue, Open
<1>3. CASE ~h.heap[u].open
  BY <1>1, <1>3 DEF Payload, UpvalValue, Open
<1> QED
  BY <1>2, <1>3

\* What objects refer to are objects.
LEMMA RefsTyped ==
  ASSUME NEW h, Typed(h), NEW o \in Live(h)
  PROVE  /\ Refs(h, o) \subseteq Objects
         /\ o \notin Closures => Refs(h, o) \subseteq Values
<1>1. Payload(h, o) /\ o \in Objects \cup {Main}
  BY DEF Typed, Payloads, Shape
<1>2. CASE o \in Tables
  BY <1>1, <1>2, Kinds DEF Refs, Payload, Range, Objects
<1>3. CASE o \in Closures
  BY <1>1, <1>3, Kinds, MarkRefsOf DEF Refs, Payload, Objects, Values
<1>4. CASE o \in Upvalues
  BY <1>1, <1>4, Kinds, MarkRefsOf, UpvalTyped DEF Refs, Objects
<1>5. CASE o \in Userdata
  BY <1>1, <1>5, Kinds, MarkRefsOf DEF Refs, Payload, Objects, Values
<1>6. CASE o \in Threads
  <2>1. Range(h.heap[o]) \subseteq Values \cup {Nil}
    BY <1>1, <1>6 DEF Payload, Range
  <2> QED
    BY <1>6, <2>1, Kinds, MarkRefsOf DEF Refs, Objects
<1>7. CASE o \in Strings
  BY <1>7, Kinds, MarkRefsOf DEF Refs
<1> QED
  BY <1>1, <1>2, <1>3, <1>4, <1>5, <1>6, <1>7, Kinds DEF Listed

-----------------------------------------------------------------------------
(* Lists                                                                   *)

\* A set of natural numbers has a least one.
LEMMA Least ==
  ASSUME NEW S \in SUBSET Nat, S # {}
  PROVE  \E x \in S : \A y \in S : x <= y
<1> DEFINE R == {ss \in Nat \X Nat : ss[1] < ss[2]}
<1>1. IsWellFoundedOn(R, Nat)
  <2>1. R = OpToRel(<, Nat)
    BY Zenon DEF OpToRel
  <2> HIDE DEF R
  <2> QED
    BY <2>1, NatLessThanWellFounded, Zenon
<1>2. PICK m \in S : \A y \in S : ~ (<<y, m>> \in R)
  <2> HIDE DEF R
  <2> QED
    BY <1>1, WFMin, Zenon
<1>3. \A y \in S : ~ (y < m)
  BY <1>2
<1> QED
  BY <1>3

\* The first n elements of a list that are in S have positions in it.
Picks(s, S, n, at) ==
  /\ \E m \in 0..n : at \in [1..m -> 1..n]
  /\ \A i, j \in DOMAIN at : i < j => at[i] < at[j]
  /\ Range(at) = {i \in 1..n : s[i] \in S}

LEMMA PositionsExist ==
  ASSUME NEW T, NEW s \in Seq(T), NEW S, NEW n \in 0..Len(s)
  PROVE  \E at : Picks(s, S, n, at)
<1> DEFINE bad == {m \in 0..Len(s) : ~ \E at : Picks(s, S, m, at)}
<1> SUFFICES ASSUME bad # {} PROVE FALSE
  OBVIOUS
<1>1. bad \in SUBSET Nat
  OBVIOUS
<1>2. PICK m \in bad : \A y \in bad : m <= y
  BY <1>1, Least
<1>3. m \in 0..Len(s) /\ ~ \E at : Picks(s, S, m, at)
  BY <1>2
<1>4. CASE m = 0
  <2>1. Picks(s, S, 0, <<>>)
    BY DEF Picks, Range
  <2> QED
    BY <1>3, <1>4, <2>1
<1>5. CASE m # 0
  <2>1. m - 1 \in 0..Len(s) /\ ~(m <= m - 1) /\ Len(s) \in Nat
    BY <1>3, <1>5, LenProperties
  <2>2. PICK at : Picks(s, S, m - 1, at)
    BY <1>2, <2>1
  <2>3. PICK l \in 0..(m - 1) : at \in [1..l -> 1..(m - 1)]
    BY <2>2 DEF Picks
  <2>4. /\ \A i, j \in 1..l : i < j => at[i] < at[j]
        /\ Range(at) = {i \in 1..(m - 1) : s[i] \in S}
    BY <2>2, <2>3 DEF Picks
  <2>5. CASE s[m] \notin S
    <3>1. at \in [1..l -> 1..m] /\ l \in 0..m
      BY <1>3, <2>3
    <3>2. {i \in 1..m : s[i] \in S} = {i \in 1..(m - 1) : s[i] \in S}
      BY <1>3, <1>5, <2>5
    <3>3. Picks(s, S, m, at)
      BY <2>4, <3>1, <3>2 DEF Picks
    <3> QED
      BY <1>3, <3>3
  <2>6. CASE s[m] \in S
    <3> DEFINE new == [i \in 1..(l + 1) |-> IF i = l + 1 THEN m ELSE at[i]]
    <3>1. new \in [1..(l + 1) -> 1..m] /\ l + 1 \in 0..m /\ l \in Nat
      BY <1>3, <1>5, <2>3
    <3>2. \A i, j \in 1..(l + 1) : i < j => new[i] < new[j]
      <4> SUFFICES ASSUME NEW i \in 1..(l + 1), NEW j \in 1..(l + 1), i < j PROVE new[i] < new[j]
        OBVIOUS
      <4>1. i \in 1..l /\ at[i] \in 1..(m - 1)
        BY <2>3, <3>1
      <4>2. CASE j = l + 1
        BY <1>3, <4>1, <4>2
      <4>3. CASE j # l + 1
        BY <2>4, <3>1, <4>1, <4>3
      <4> QED
        BY <4>2, <4>3
    <3>3. Range(new) = {i \in 1..m : s[i] \in S}
      <4>1. ASSUME NEW x \in 1..m, s[x] \in S PROVE x \in Range(new)
        <5>1. CASE x = m
          <6>1. l + 1 \in DOMAIN new /\ new[l + 1] = m
            BY <3>1
          <6> QED
            BY <5>1, <6>1 DEF Range
        <5>2. CASE x # m
          <6>1. x \in Range(at)
            BY <1>3, <2>4, <4>1, <5>2
          <6>2. PICK i \in 1..l : at[i] = x
            BY <2>3, <6>1 DEF Range
          <6>3. i \in DOMAIN new /\ new[i] = x
            BY <3>1, <6>2
          <6> QED
            BY <6>3 DEF Range
        <5> QED
          BY <5>1, <5>2
      <4>2. ASSUME NEW i \in 1..(l + 1) PROVE new[i] \in 1..m /\ s[new[i]] \in S
        <5>1. CASE i = l + 1
          BY <1>3, <1>5, <2>6, <5>1
        <5>2. CASE i # l + 1
          <6>1. i \in 1..l /\ at[i] \in Range(at)
            BY <2>3, <3>1, <5>2 DEF Range
          <6>2. at[i] \in 1..(m - 1) /\ s[at[i]] \in S
            BY <2>4, <6>1
          <6> QED
            BY <1>3, <5>2, <6>2
        <5> QED
          BY <5>1, <5>2
      <4> QED
        BY <3>1, <4>1, <4>2 DEF Range
    <3>4. Picks(s, S, m, new)
      BY <3>1, <3>2, <3>3 DEF Picks
    <3> QED
      BY <1>3, <3>4
  <2> QED
    BY <2>5, <2>6
<1> QED
  BY <1>4, <1>5

\* What is selected of a list are its elements in the set, in their order.
LEMMA SelectedProperties ==
  ASSUME NEW T, NEW s \in Seq(T), NEW S
  PROVE  LET at == Positions(s, S)
             r == Selected(s, S)
         IN /\ r \in Seq(T) /\ Range(r) = Range(s) \cap S
            /\ at \in [1..Len(r) -> 1..Len(s)]
            /\ \A i, j \in 1..Len(r) : i < j => at[i] < at[j]
            /\ \A i \in 1..Len(r) : r[i] = s[at[i]]
            /\ IsInjective(s) => IsInjective(r)
<1> DEFINE at == Positions(s, S)
           r == Selected(s, S)
           IsIt(x) == /\ \A i, j \in DOMAIN x : i < j => x[i] < x[j]
                      /\ Range(x) = {i \in DOMAIN s : s[i] \in S}
           may == UNION {[1..n -> DOMAIN s] : n \in 0..Len(s)}
<1>1. Len(s) \in Nat /\ DOMAIN s = 1..Len(s)
  BY LenProperties
<1>2. PICK x : Picks(s, S, Len(s), x)
  <2>1. Len(s) \in 0..Len(s)
    BY <1>1
  <2> QED
    BY <2>1, PositionsExist
<1>3. PICK m \in 0..Len(s) : x \in [1..m -> 1..Len(s)]
  BY <1>2 DEF Picks
<1>4. x \in may
  BY <1>1, <1>3
<1>5. IsIt(x)
  BY <1>1, <1>2 DEF Picks
<1>6. at \in may /\ IsIt(at)
  BY <1>4, <1>5 DEF Positions
<1>7. PICK n \in 0..Len(s) : at \in [1..n -> 1..Len(s)]
  BY <1>1, <1>6
<1>8. n \in Nat /\ DOMAIN at = 1..n
  BY <1>1, <1>7
<1>9. r = [i \in 1..n |-> s[at[i]]]
  BY <1>8 DEF Selected
<1>10. \A i \in 1..n : s[at[i]] \in T /\ at[i] \in 1..Len(s)
  BY <1>1, <1>7, ElementOfSeq
<1>11. r \in Seq(T) /\ Len(r) = n
  BY <1>8, <1>9, <1>10, IsASeq, LenProperties
<1>12. DOMAIN r = 1..n
  BY <1>9
<1>13. Range(r) = Range(s) \cap S
  <2>1. ASSUME NEW y \in Range(r) PROVE y \in Range(s) \cap S
    <3>1. PICK i \in 1..n : y = s[at[i]]
      BY <1>9, <1>12, <2>1 DEF Range
    <3>2. at[i] \in Range(at)
      BY <1>8 DEF Range
    <3>3. at[i] \in DOMAIN s /\ s[at[i]] \in S
      BY <1>6, <3>2
    <3> QED
      BY <3>1, <3>3 DEF Range
  <2>2. ASSUME NEW y \in Range(s) \cap S PROVE y \in Range(r)
    <3>1. PICK j \in DOMAIN s : y = s[j]
      BY <2>2 DEF Range
    <3>2. j \in Range(at)
      BY <1>6, <2>2, <3>1
    <3>3. PICK i \in 1..n : j = at[i]
      BY <1>8, <3>2 DEF Range
    <3> QED
      BY <1>9, <1>12, <3>1, <3>3 DEF Range
  <2> QED
    BY <2>1, <2>2
<1>14. \A i, j \in 1..n : i < j => at[i] < at[j]
  BY <1>6, <1>8
<1>15. ASSUME IsInjective(s) PROVE IsInjective(r)
  <2> SUFFICES ASSUME NEW i \in 1..n, NEW j \in 1..n, s[at[i]] = s[at[j]] PROVE i = j
    BY <1>9, <1>12 DEF IsInjective
  <2>1. at[i] = at[j] /\ at[i] \in Nat /\ at[j] \in Nat
    BY <1>1, <1>10, <1>15 DEF IsInjective
  <2>2. ~(i < j) /\ ~(j < i) /\ i \in Nat /\ j \in Nat
    BY <1>14, <2>1
  <2> QED
    BY <2>2
<1> QED
  BY <1>7, <1>9, <1>11, <1>13, <1>14, <1>15

\* Two lists that share no element are one without repetitions.
LEMMA ConcatInjective ==
  ASSUME NEW T, NEW s \in Seq(T), NEW r \in Seq(T), IsInjective(s), IsInjective(r), Range(s) \cap Range(r) = {}
  PROVE  IsInjective(s \o r)
<1> DEFINE c == s \o r
<1>1. Len(s) \in Nat /\ Len(r) \in Nat /\ DOMAIN s = 1..Len(s) /\ DOMAIN r = 1..Len(r)
  BY LenProperties
<1>2. /\ DOMAIN c = 1..(Len(s) + Len(r))
      /\ \A i \in 1..(Len(s) + Len(r)) : c[i] = IF i <= Len(s) THEN s[i] ELSE r[i - Len(s)]
  BY ConcatProperties, LenProperties
<1> SUFFICES ASSUME NEW i \in 1..(Len(s) + Len(r)), NEW j \in 1..(Len(s) + Len(r)), i <= j, c[i] = c[j]
             PROVE  i = j
  <2>1. ASSUME NEW x \in DOMAIN c, NEW y \in DOMAIN c, c[x] = c[y] PROVE x = y
    <3>1. x <= y \/ y <= x
      BY <1>1, <1>2, <2>1
    <3> QED
      BY <1>2, <2>1, <3>1
  <2> QED
    BY <2>1 DEF IsInjective
<1>3. CASE j <= Len(s)
  <2>1. i \in DOMAIN s /\ j \in DOMAIN s /\ s[i] = s[j]
    BY <1>1, <1>2, <1>3
  <2> QED
    BY <2>1 DEF IsInjective
<1>4. CASE ~(i <= Len(s))
  <2>1. i - Len(s) \in DOMAIN r /\ j - Len(s) \in DOMAIN r /\ r[i - Len(s)] = r[j - Len(s)]
    BY <1>1, <1>2, <1>4
  <2>2. i - Len(s) = j - Len(s)
    BY <2>1 DEF IsInjective
  <2> QED
    BY <1>1, <2>2
<1>5. CASE i <= Len(s) /\ ~(j <= Len(s))
  <2>1. i \in DOMAIN s /\ j - Len(s) \in DOMAIN r /\ s[i] = r[j - Len(s)]
    BY <1>1, <1>2, <1>5
  <2> QED
    BY <2>1 DEF Range
<1> QED
  BY <1>1, <1>3, <1>4, <1>5

-----------------------------------------------------------------------------
(* Marking                                                                 *)

\* A mark goes down to what lies beneath, and not further than it must.
LEMMA MarkedObjects ==
  ASSUME NEW h, Typed(h), NEW vs
  PROVE  LET M == reallymarkobject(h, vs)
         IN /\ M \subseteq White(h) /\ vs \cap White(h) \subseteq M
            /\ Beneath(h, M) \cap White(h) \subseteq M
            /\ \A S : vs \cap White(h) \subseteq S /\ Beneath(h, S) \cap White(h) \subseteq S => M \subseteq S
<1> DEFINE first == vs \cap White(h)
           second == first \cup (Beneath(h, first) \cap White(h))
           M == second \cup (Beneath(h, second) \cap White(h))
<1>1. M = reallymarkobject(h, vs)
  BY DEF reallymarkobject
<1>2. M \subseteq White(h) /\ vs \cap White(h) \subseteq M /\ White(h) \subseteq Live(h)
  BY DEF White
<1>3. \A u \in Upvalues \cap M : u \in first
  <2> SUFFICES ASSUME NEW u \in Upvalues \cap M PROVE u \in first
    OBVIOUS
  <2>1. \A S : S \subseteq Live(h) => u \notin Beneath(h, S)
    <3> SUFFICES ASSUME NEW S, S \subseteq Live(h), u \in Beneath(h, S) PROVE FALSE
      OBVIOUS
    <3>1. CASE u \in {UpvalValue(h, x) : x \in S \cap Upvalues}
      <4>1. PICK x \in S \cap Upvalues : u = UpvalValue(h, x)
        BY <3>1
      <4>2. u \in Values \cup {Nil}
        BY <4>1, UpvalTyped
      <4> QED
        BY <4>2, Kinds DEF Objects
    <3>2. CASE u \in {h.heap[d].env : d \in S \cap Userdata}
      BY <3>2, Kinds DEF Typed, Payloads, Payload
    <3> QED
      BY <3>1, <3>2 DEF Beneath
  <2>2. first \subseteq Live(h) /\ second \subseteq Live(h)
    BY DEF White
  <2> QED
    BY <2>1, <2>2
<1>4. \A d \in Userdata \cap M : d \in second
  <2> SUFFICES ASSUME NEW d \in Userdata \cap M, d \notin second PROVE FALSE
    OBVIOUS
  <2>1. d \in Beneath(h, second) /\ second \subseteq Live(h)
    BY DEF White
  <2>2. CASE d \in {h.heap[x].env : x \in second \cap Userdata}
    <3>1. PICK x \in second \cap Userdata : d = h.heap[x].env
      BY <2>2
    <3>2. d \in Tables
      BY <2>1, <3>1 DEF Typed, Payloads, Payload
    <3> QED
      BY <3>2, Kinds
  <2>3. CASE d \in {UpvalValue(h, x) : x \in second \cap Upvalues}
    <3>1. PICK x \in second \cap Upvalues : d = UpvalValue(h, x)
      BY <2>3
    <3>2. x \in first
      BY <1>3, <3>1
    <3>3. d \in Beneath(h, first) /\ d \in White(h)
      BY <3>1, <3>2, <1>2 DEF Beneath
    <3> QED
      BY <3>3
  <2> QED
    BY <2>1, <2>2, <2>3 DEF Beneath
<1>5. Beneath(h, M) \cap White(h) \subseteq M
  <2> SUFFICES ASSUME NEW x \in Beneath(h, M) \cap White(h) PROVE x \in M
    OBVIOUS
  <2>1. CASE x \in {UpvalValue(h, u) : u \in M \cap Upvalues}
    <3>1. x \in Beneath(h, first)
      BY <2>1, <1>3 DEF Beneath
    <3> QED
      BY <3>1
  <2>2. CASE x \in {h.heap[d].env : d \in M \cap Userdata}
    <3>1. x \in Beneath(h, second)
      BY <2>2, <1>4 DEF Beneath
    <3> QED
      BY <3>1
  <2> QED
    BY <2>1, <2>2 DEF Beneath
<1>6. ASSUME NEW S, vs \cap White(h) \subseteq S, Beneath(h, S) \cap White(h) \subseteq S
      PROVE  M \subseteq S
  <2>1. second \subseteq S
    <3>1. Beneath(h, first) \subseteq Beneath(h, S)
      BY <1>6 DEF Beneath
    <3> QED
      BY <1>6, <3>1
  <2>2. Beneath(h, second) \subseteq Beneath(h, S)
    BY <2>1 DEF Beneath
  <2> QED
    BY <1>6, <2>1, <2>2
<1> QED
  BY <1>1, <1>2, <1>5, <1>6

\* Beneath an object is only what is marked with it.
LEMMA BeneathRefs ==
  ASSUME NEW h, Typed(h), NEW os \in SUBSET Live(h)
  PROVE  /\ \A x \in Beneath(h, os) : x = Nil \/ \E o \in os : x \in MarkRefs(h, o)
         /\ \A o \in os \cap (Upvalues \cup Userdata) : MarkRefs(h, o) \subseteq Beneath(h, os)
<1>1. \A o \in os \cap Upvalues : MarkRefs(h, o) = {UpvalValue(h, o)} \ {Nil}
  BY MarkRefsOf
<1>2. \A o \in os \cap Userdata : MarkRefs(h, o) = {h.heap[o].env}
  BY MarkRefsOf
<1>3. ASSUME NEW x \in Beneath(h, os) PROVE x = Nil \/ \E o \in os : x \in MarkRefs(h, o)
  <2>1. CASE x \in {UpvalValue(h, u) : u \in os \cap Upvalues}
    BY <2>1, <1>1
  <2>2. CASE x \in {h.heap[d].env : d \in os \cap Userdata}
    BY <2>2, <1>2
  <2> QED
    BY <1>3, <2>1, <2>2 DEF Beneath
<1>4. ASSUME NEW o \in os \cap (Upvalues \cup Userdata) PROVE MarkRefs(h, o) \subseteq Beneath(h, os)
  <2>1. CASE o \in Upvalues
    BY <2>1, <1>1 DEF Beneath
  <2>2. CASE o \in Userdata
    BY <2>2, <1>2 DEF Beneath
  <2> QED
    BY <2>1, <2>2
<1> QED
  BY <1>3, <1>4

LEMMA MarkKeeps ==
  ASSUME NEW h, DOMAIN h = Fields, NEW vs
  PROVE  /\ SameObjects(h, Mark(h, vs))
         /\ Mark(h, vs).grayagain = h.grayagain /\ Mark(h, vs).weak = h.weak
BY DEF Mark, SameObjects, Fields

LEMMA MarkChanges ==
  ASSUME NEW h, Shape(h), NEW vs
  PROVE  LET M == reallymarkobject(h, vs)
         IN /\ \A o \in Live(h) : Mark(h, vs).color[o] =
                 IF o \notin M THEN h.color[o]
                 ELSE IF o \in Userdata \cup (Upvalues \ Open(h)) THEN "black" ELSE "gray"
            /\ Mark(h, vs).gray = h.gray \cup (M \ (Userdata \cup Upvalues \cup Strings))
            /\ (\A o \in M : ~isdead(h, o)) => Mark(h, vs).asserts = h.asserts
BY DEF Mark, Shape, Fields, lua_assert

\* What is white after marking is what was white and was not marked.
LEMMA MarkWhite ==
  ASSUME NEW h, Typed(h), NEW vs
  PROVE  /\ White(Mark(h, vs)) = White(h) \ reallymarkobject(h, vs)
         /\ vs \cap White(Mark(h, vs)) = {}
         /\ \A o \in Live(h) : isdead(Mark(h, vs), o) => isdead(h, o)
         /\ \A o \in Live(h) : o \notin White(h) => Mark(h, vs).color[o] = h.color[o]
<1> DEFINE m == Mark(h, vs)
           M == reallymarkobject(h, vs)
<1>1. Shape(h) /\ DOMAIN h = Fields /\ DOMAIN h.color = Live(h)
  BY DEF Typed, Shape
<1>2. m.heap = h.heap /\ m.white = h.white
  BY <1>1, MarkKeeps DEF SameObjects
<1>3. Live(m) = Live(h)
  BY <1>2, SameRefs
<1>4. M \subseteq White(h) /\ vs \cap White(h) \subseteq M
  BY MarkedObjects
<1>5. \A o \in Live(h) : m.color[o] = IF o \notin M THEN h.color[o]
                 ELSE IF o \in Userdata \cup (Upvalues \ Open(h)) THEN "black" ELSE "gray"
  BY <1>1, MarkChanges
<1>6. \A o \in Live(h) : iswhite(m, o) <=> iswhite(h, o) /\ o \notin M
  BY <1>5 DEF iswhite
<1>7. White(m) = White(h) \ M
  BY <1>3, <1>6 DEF White
<1>8. \A o \in Live(h) : isdead(m, o) => isdead(h, o)
  <2> SUFFICES ASSUME NEW o \in Live(h), isdead(m, o) PROVE isdead(h, o)
    OBVIOUS
  <2>1. m.color[o] \in {"white0", "white1"} /\ otherwhite(m) = otherwhite(h)
    BY <1>2 DEF isdead, otherwhite
  <2>2. o \notin M
    BY <1>5, <2>1
  <2> QED
    BY <1>5, <2>1, <2>2 DEF isdead
<1> QED
  BY <1>4, <1>5, <1>7, <1>8

\* k's objects are those of h, and its marks are marks.
LEMMA SameTyped ==
  ASSUME NEW h, Typed(h), NEW k, SameObjects(h, k),
         \A o \in Live(h) : k.color[o] \in {"white0", "white1", "gray", "black"}
  PROVE  Typed(k) /\ (Lists(h) => Lists(k))
<1>1. k.heap = h.heap
  BY DEF SameObjects
<1>2. Shape(k)
  BY <1>1, SameRefs DEF Typed, Shape, SameObjects
<1>3. Payloads(k)
  BY <1>1, SameRefs DEF Typed, Payloads
<1>4. Lists(h) => Lists(k)
  BY <1>1, SameRefs DEF Lists, SameObjects
<1> QED
  BY <1>2, <1>3, <1>4 DEF Typed

LEMMA MarkTyped ==
  ASSUME NEW h, Typed(h), Marks(h), NEW vs
  PROVE  Typed(Mark(h, vs)) /\ Marks(Mark(h, vs)) /\ SameObjects(h, Mark(h, vs))
<1> DEFINE m == Mark(h, vs)
<1>1. Shape(h) /\ DOMAIN h = Fields
  BY DEF Typed, Shape
<1>2. SameObjects(h, m)
  BY <1>1, MarkKeeps
<1>3. \A o \in Live(h) : m.color[o] =
         IF o \notin reallymarkobject(h, vs) THEN h.color[o]
         ELSE IF o \in Userdata \cup (Upvalues \ Open(h)) THEN "black" ELSE "gray"
  BY <1>1, MarkChanges
<1>4. \A o \in Live(h) : m.color[o] \in {"white0", "white1", "gray", "black"}
  BY <1>1, <1>3 DEF Shape
<1>5. Typed(m)
  BY <1>2, <1>4, SameTyped
<1>6. Live(m) = Live(h) /\ Open(m) = Open(h)
  BY <1>2, SameRefs DEF SameObjects
<1>7. \A o \in Userdata \cup (Upvalues \ Open(h)) : o \notin Threads \cup Strings \cup Weak \cup Open(h)
  BY Kinds DEF Open
<1>8. Marks(m)
  BY <1>3, <1>6, <1>7 DEF Marks, isblack, isgray
<1> QED
  BY <1>2, <1>5, <1>8

\* What is settled stays so, and what is marked is settled if it is not to be visited.
LEMMA MarkSettles ==
  ASSUME NEW h, Typed(h), NEW vs, NEW o \in Live(h)
  PROVE  /\ Settled(h, o) => Settled(Mark(h, vs), o)
         /\ MarkRefs(h, o) \cap White(h) \subseteq vs => Settled(Mark(h, vs), o)
         /\ o \in reallymarkobject(h, vs) /\ o \notin Listed => Settled(Mark(h, vs), o)
<1> DEFINE m == Mark(h, vs)
           M == reallymarkobject(h, vs)
<1>1. m.heap = h.heap
  BY MarkKeeps DEF Typed, Shape, SameObjects
<1>2. MarkRefs(m, o) = MarkRefs(h, o)
  BY <1>1, SameRefs
<1>3. White(m) = White(h) \ M /\ vs \cap White(m) = {}
  BY MarkWhite
<1>4. Settled(h, o) => Settled(m, o)
  BY <1>2, <1>3 DEF Settled
<1>5. MarkRefs(h, o) \cap White(h) \subseteq vs => Settled(m, o)
  BY <1>2, <1>3 DEF Settled
<1>6. ASSUME o \in M, o \notin Listed PROVE Settled(m, o)
  <2>1. o \in Objects \cup {Main} /\ o \notin Listed
    BY <1>6 DEF Typed, Shape
  <2>2. o \in Upvalues \cup Userdata \cup Strings
    BY <2>1, Kinds
  <2>3. M \in SUBSET Live(h) /\ Beneath(h, M) \cap White(h) \subseteq M
    BY MarkedObjects DEF White
  <2>4. CASE o \in Strings
    BY <2>4, <1>2, MarkRefsOf DEF Settled
  <2>5. CASE o \in Upvalues \cup Userdata
    <3>1. MarkRefs(h, o) \subseteq Beneath(h, M)
      BY <1>6, <2>3, <2>5, BeneathRefs
    <3> QED
      BY <1>2, <1>3, <2>3, <3>1 DEF Settled
  <2> QED
    BY <2>2, <2>4, <2>5
<1> QED
  BY <1>4, <1>5, <1>6

\* Marking keeps the marking sound; what it marks for is not loose any more.
LEMMA MarkMarks ==
  ASSUME NEW h, Typed(h), Marks(h), NEW loose, Marking(h, loose), NEW vs, NEW left,
         \A o \in (loose \ left) \cap Live(h) : MarkRefs(h, o) \cap White(h) \subseteq vs
  PROVE  Marking(Mark(h, vs), left) /\ Mark(h, vs).asserts = h.asserts
<1> DEFINE m == Mark(h, vs)
           M == reallymarkobject(h, vs)
<1>1. Shape(h) /\ DOMAIN h = Fields
  BY DEF Typed, Shape
<1>2. /\ SameObjects(h, m) /\ m.grayagain = h.grayagain /\ m.weak = h.weak
      /\ m.gray = h.gray \cup (M \ (Userdata \cup Upvalues \cup Strings))
  BY <1>1, MarkKeeps, MarkChanges
<1>3. Live(m) = Live(h) /\ Open(m) = Open(h) /\ \A o : MarkRefs(m, o) = MarkRefs(h, o)
  BY <1>2, SameRefs DEF SameObjects
<1>4. M \subseteq White(h) /\ White(m) = White(h) \ M /\ White(h) \subseteq Live(h)
  BY MarkedObjects, MarkWhite DEF White
<1>5. \A o \in Live(h) : m.color[o] =
         IF o \notin M THEN h.color[o]
         ELSE IF o \in Userdata \cup (Upvalues \ Open(h)) THEN "black" ELSE "gray"
  BY <1>1, MarkChanges
<1>6. m.asserts = h.asserts
  BY <1>1, <1>4, MarkChanges DEF Marking
<1>7. \A o \in Live(m) : ~isdead(m, o)
  BY <1>3, MarkWhite DEF Marking
<1>8. ASSUME NEW o \in Live(m) \ left, isblack(m, o) PROVE Settled(m, o)
  <2>1. CASE o \in M
    <3>1. o \notin Listed
      BY <1>3, <1>5, <1>8, <2>1, Kinds DEF isblack, Listed
    <3> QED
      BY <1>3, <2>1, <3>1, MarkSettles
  <2>2. CASE o \notin M
    <3>1. isblack(h, o)
      BY <1>3, <1>5, <1>8, <2>2 DEF isblack
    <3>2. CASE o \in loose
      BY <1>3, <3>2, <1>8, MarkSettles
    <3>3. CASE o \notin loose
      BY <1>3, <3>1, <3>3, MarkSettles DEF Marking
    <3> QED
      BY <3>2, <3>3
  <2> QED
    BY <2>1, <2>2
<1>9. ASSUME NEW o \in Live(m), isgray(m, o)
      PROVE  o \in Strings \cup Open(m) \cup m.gray \cup m.grayagain \cup m.weak
  <2>1. CASE o \in M
    BY <1>2, <1>3, <1>5, <1>9, <2>1 DEF isgray
  <2>2. CASE o \notin M
    <3>1. isgray(h, o)
      BY <1>3, <1>5, <1>9, <2>2 DEF isgray
    <3> QED
      BY <1>2, <1>3, <3>1 DEF Marking
  <2> QED
    BY <2>1, <2>2
<1>10. \A o \in M \ (Userdata \cup Upvalues \cup Strings) : o \in Listed /\ isgray(m, o) /\ iswhite(h, o)
  <2> SUFFICES ASSUME NEW o \in M \ (Userdata \cup Upvalues \cup Strings)
               PROVE  o \in Listed /\ isgray(m, o) /\ iswhite(h, o)
    OBVIOUS
  <2>1. o \in Live(h) /\ o \in Objects \cup {Main} /\ iswhite(h, o)
    BY <1>1, <1>4 DEF Shape, White
  <2> QED
    BY <2>1, <1>5, Kinds DEF isgray
<1>11. ASSUME NEW o \in m.gray \cup m.grayagain \cup m.weak PROVE o \in Live(m) /\ isgray(m, o)
  <2>1. CASE o \in M \ (Userdata \cup Upvalues \cup Strings)
    BY <1>3, <1>4, <1>10, <2>1
  <2>2. CASE o \in h.gray \cup h.grayagain \cup h.weak
    <3>1. o \in Live(h) /\ isgray(h, o)
      BY <2>2 DEF Marking
    <3>2. o \notin M
      BY <1>4, <3>1 DEF White, iswhite, isgray
    <3> QED
      BY <1>3, <1>5, <3>1, <3>2 DEF isgray
  <2> QED
    BY <1>2, <1>11, <2>1, <2>2
<1>12. m.gray \cap (m.grayagain \cup m.weak) = {} /\ m.grayagain \cap m.weak = {}
  <2>1. \A o \in h.grayagain \cup h.weak : o \notin M
    BY <1>4 DEF Marking, White, iswhite, isgray
  <2> QED
    BY <1>2, <2>1 DEF Marking
<1>13. m.gray \subseteq Listed /\ m.weak \subseteq Weak /\ m.grayagain \subseteq Listed \ Weak
  BY <1>2, <1>10 DEF Marking
<1> QED
  BY <1>6, <1>7, <1>8, <1>9, <1>11, <1>12, <1>13 DEF Marking

\* What has been traversed is loose until its references are marked.
LEMMA TraversedMarks ==
  ASSUME NEW h, Typed(h), Marks(h), NEW loose, Marking(h, loose), NEW os \in SUBSET h.gray
  PROVE  LET t == Traversed(h, os)
         IN /\ Typed(t) /\ Marks(t) /\ SameObjects(h, t) /\ Marking(t, loose \cup os)
            /\ White(t) = White(h) /\ t.asserts = h.asserts /\ t.gray = h.gray \ os
            /\ h.grayagain \subseteq t.grayagain /\ h.weak \subseteq t.weak
<1> DEFINE t == Traversed(h, os)
<1>1. Shape(h) /\ DOMAIN h = Fields /\ DOMAIN h.color = Live(h)
  BY DEF Typed, Shape
<1>2. /\ SameObjects(h, t)
      /\ t.gray = h.gray \ os /\ t.weak = h.weak \cup (os \cap Weak)
      /\ t.grayagain = h.grayagain \cup (os \cap Threads)
      /\ t.asserts = h.asserts \cup lua_assert(\A o \in os : isgray(h, o), "propagatemark")
  BY <1>1 DEF Traversed, SameObjects, Fields
<1>3. \A o \in Live(h) : t.color[o] = IF o \in os \ (Weak \cup Threads) THEN "black" ELSE h.color[o]
  BY <1>1 DEF Traversed, Fields
<1>4. Live(t) = Live(h) /\ Open(t) = Open(h) /\ \A o : MarkRefs(t, o) = MarkRefs(h, o)
  BY <1>2, SameRefs DEF SameObjects
<1>5. \A o \in os : o \in Live(h) /\ isgray(h, o) /\ o \in Listed
  BY DEF Marking
<1>6. t.asserts = h.asserts
  BY <1>2, <1>5 DEF lua_assert
<1>7. Typed(t)
  <2>1. \A o \in Live(h) : t.color[o] \in {"white0", "white1", "gray", "black"}
    BY <1>1, <1>3 DEF Shape
  <2> QED
    BY <2>1, <1>2, SameTyped
<1>8. \A o \in Live(h) : iswhite(t, o) <=> iswhite(h, o)
  BY <1>3, <1>5 DEF iswhite, isgray
<1>9. White(t) = White(h)
  BY <1>4, <1>8 DEF White
<1>10. \A o : Settled(t, o) <=> Settled(h, o)
  BY <1>4, <1>9 DEF Settled
<1>11. Marks(t)
  <2>1. \A o \in os \ (Weak \cup Threads) : o \notin Threads \cup Strings \cup Weak \cup Open(h)
    BY <1>5, Kinds DEF Open, Listed
  <2> QED
    BY <1>3, <1>4, <2>1 DEF Marks, isblack, isgray
<1>12. \A o \in Live(t) : ~isdead(t, o)
  <2>1. t.white = h.white /\ otherwhite(t) \in {"white0", "white1"}
    BY <1>2 DEF SameObjects, otherwhite
  <2> QED
    BY <1>3, <1>4, <2>1 DEF Marking, isdead, otherwhite
<1>13. \A o \in Live(t) \ (loose \cup os) : isblack(t, o) => Settled(t, o)
  BY <1>3, <1>4, <1>10 DEF Marking, isblack
<1>14. ASSUME NEW o \in Live(t), isgray(t, o)
       PROVE  o \in Strings \cup Open(t) \cup t.gray \cup t.grayagain \cup t.weak
  <2>1. isgray(h, o) /\ o \notin os \ (Weak \cup Threads)
    BY <1>3, <1>4, <1>14 DEF isgray
  <2>2. o \in Strings \cup Open(h) \cup h.gray \cup h.grayagain \cup h.weak
    BY <1>4, <2>1 DEF Marking
  <2> QED
    BY <1>2, <1>4, <2>1, <2>2
<1>15. t.gray \subseteq Listed /\ t.weak \subseteq Weak /\ t.grayagain \subseteq Listed \ Weak
  BY <1>2, Kinds DEF Marking, Listed
<1>16. ASSUME NEW o \in t.gray \cup t.grayagain \cup t.weak PROVE o \in Live(t) /\ isgray(t, o)
  <2>1. o \in h.gray \cup h.grayagain \cup h.weak
    BY <1>2
  <2>2. o \notin os \ (Weak \cup Threads)
    <3>1. h.gray \cap (h.grayagain \cup h.weak) = {}
      BY DEF Marking
    <3> QED
      BY <1>2, <3>1
  <2> QED
    BY <1>3, <1>4, <2>1, <2>2 DEF Marking, isgray
<1>17. t.gray \cap (t.grayagain \cup t.weak) = {} /\ t.grayagain \cap t.weak = {}
  <2>1. Threads \cap Weak = {}
    BY Kinds
  <2> QED
    BY <1>2, <2>1 DEF Marking
<1> QED
  BY <1>2, <1>6, <1>7, <1>9, <1>11, <1>12, <1>13, <1>14, <1>15, <1>16, <1>17 DEF Marking

\* One object is visited.
LEMMA PropagateMark ==
  ASSUME NEW h, Typed(h), Marks(h), NEW loose, Marking(h, loose), NEW o \in h.gray
  PROVE  LET k == propagatemark(h, o)
         IN /\ Typed(k) /\ Marks(k) /\ SameObjects(h, k) /\ Marking(k, loose)
            /\ White(k) \subseteq White(h) /\ k.asserts = h.asserts
<1> DEFINE t == Traversed(h, {o})
           k == Mark(t, MarkRefs(h, o))
<1>1. /\ Typed(t) /\ Marks(t) /\ SameObjects(h, t) /\ Marking(t, loose \cup {o})
      /\ White(t) = White(h) /\ t.asserts = h.asserts
  BY TraversedMarks
<1>2. \A x : MarkRefs(t, x) = MarkRefs(h, x)
  BY <1>1, SameRefs DEF SameObjects
<1>3. Marking(k, loose) /\ k.asserts = t.asserts
  BY <1>1, <1>2, MarkMarks
<1>4. Typed(k) /\ Marks(k) /\ SameObjects(t, k)
  BY <1>1, MarkTyped
<1>5. White(k) \subseteq White(t)
  BY <1>1, MarkWhite
<1>6. SameObjects(h, k)
  BY <1>1, <1>4 DEF SameObjects
<1> QED
  BY <1>1, <1>3, <1>4, <1>5, <1>6 DEF propagatemark

\* The marking spreads to what the gray objects lead to, and not further.
LEMMA SpreadIsClosed ==
  ASSUME NEW h
  PROVE  /\ Spread(h) \subseteq White(h)
         /\ \A o \in h.gray \cup Spread(h) : MarkRefs(h, o) \cap White(h) \subseteq Spread(h)
         /\ \A R : (\A o \in h.gray \cup (R \cap White(h)) : MarkRefs(h, o) \cap White(h) \subseteq R)
                     => Spread(h) \subseteq R
<1> DEFINE first == (UNION {MarkRefs(h, o) : o \in h.gray}) \cap White(h)
           Closes(os) == \A o \in os : MarkRefs(h, o) \cap White(h) \subseteq os
           closed == {os \in {first \cup more : more \in SUBSET (White(h) \ first)} : Closes(os)}
<1>1. Spread(h) = {o \in White(h) : \A os \in closed : o \in os}
  BY DEF Spread
<1> DEFINE lead == {MarkRefs(h, o) : o \in h.gray}
<1>2. ASSUME NEW os \in closed PROVE first \subseteq os /\ os \subseteq White(h) /\ Closes(os)
  <2>1. PICK more \in SUBSET (White(h) \ first) : os = first \cup more
    OBVIOUS
  <2>2. first \subseteq White(h)
    OBVIOUS
  <2> QED
    BY <2>1, <2>2
<1>3. ASSUME NEW o \in h.gray PROVE MarkRefs(h, o) \cap White(h) \subseteq first
  <2>1. MarkRefs(h, o) \in lead
    OBVIOUS
  <2>2. MarkRefs(h, o) \subseteq UNION lead
    BY <2>1, Zenon
  <2> QED
    BY <2>2
<1>4. \A o \in h.gray : MarkRefs(h, o) \cap White(h) \subseteq Spread(h)
  BY <1>1, <1>2, <1>3
<1>5. ASSUME NEW o \in Spread(h) PROVE MarkRefs(h, o) \cap White(h) \subseteq Spread(h)
  <2>1. \A os \in closed : MarkRefs(h, o) \cap White(h) \subseteq os
    BY <1>1, <1>2, <1>5
  <2> QED
    BY <1>1, <2>1
<1>6. ASSUME NEW R, \A o \in h.gray \cup (R \cap White(h)) : MarkRefs(h, o) \cap White(h) \subseteq R
      PROVE  Spread(h) \subseteq R
  <2> DEFINE os == R \cap White(h)
  <2>1. first \subseteq os
    <3> SUFFICES ASSUME NEW x \in first PROVE x \in os
      OBVIOUS
    <3>1. x \in UNION lead /\ x \in White(h)
      OBVIOUS
    <3>2. PICK o \in h.gray : x \in MarkRefs(h, o)
      BY <3>1
    <3> QED
      BY <1>6, <3>1, <3>2
  <2>2. os = first \cup (os \ first) /\ os \ first \in SUBSET (White(h) \ first)
    BY <2>1
  <2>3. Closes(os)
    BY <1>6
  <2>4. os \in closed
    BY <2>2, <2>3
  <2> QED
    BY <1>1, <2>4
<1> QED
  BY <1>1, <1>4, <1>5, <1>6

(* Afterwards nothing is left in gray, and what was there or has been      *)
(* marked is settled.                                                      *)
LEMMA PropagateAll ==
  ASSUME NEW h, Typed(h), Marks(h), NEW loose, Marking(h, loose)
  PROVE  LET k == propagateall(h)
         IN /\ Typed(k) /\ Marks(k) /\ SameObjects(h, k) /\ Marking(k, loose)
            /\ White(k) = White(h) \ Spread(h) /\ k.asserts = h.asserts /\ k.gray = {}
            /\ \A o \in Live(h) : Settled(h, o) => Settled(k, o)
            /\ \A o \in h.gray \cup (White(h) \ White(k)) : Settled(k, o)
            /\ h.grayagain \subseteq k.grayagain /\ h.weak \subseteq k.weak
<1> DEFINE S == Spread(h)
           m == Mark(h, S)
           M == reallymarkobject(h, S)
           k == Traversed(m, m.gray)
<1>1. /\ S \subseteq White(h)
      /\ \A o \in h.gray \cup S : MarkRefs(h, o) \cap White(h) \subseteq S
  BY SpreadIsClosed
<1>2. White(h) \subseteq Live(h) /\ S \in SUBSET Live(h) /\ Nil \notin White(h)
  BY <1>1, Kinds DEF White, Typed, Shape
<1>3. M = S
  <2>1. Beneath(h, S) \cap White(h) \subseteq S
    BY <1>1, <1>2, BeneathRefs
  <2>2. S \cap White(h) = S
    BY <1>1
  <2>3. M \subseteq S
    BY <2>1, <2>2, MarkedObjects
  <2>4. S \subseteq M
    BY <2>2, MarkedObjects
  <2> QED
    BY <2>3, <2>4
<1>4. Typed(m) /\ Marks(m) /\ SameObjects(h, m)
  BY MarkTyped
<1>5. Marking(m, loose) /\ m.asserts = h.asserts
  BY MarkMarks
<1>6. White(m) = White(h) \ S /\ m.gray \subseteq h.gray \cup S
  BY <1>3, MarkWhite, MarkChanges DEF Typed
<1>7. /\ Typed(k) /\ Marks(k) /\ SameObjects(m, k) /\ Marking(k, loose \cup m.gray)
      /\ White(k) = White(m) /\ k.asserts = m.asserts /\ k.gray = {}
      /\ m.grayagain \subseteq k.grayagain /\ m.weak \subseteq k.weak
  <2>1. m.gray \in SUBSET m.gray
    OBVIOUS
  <2>2. m.gray \ m.gray = {}
    OBVIOUS
  <2> QED
    BY <1>4, <1>5, <2>1, <2>2, TraversedMarks
<1>8. SameObjects(h, k)
  BY <1>4, <1>7 DEF SameObjects
<1>9. \A o : MarkRefs(k, o) = MarkRefs(h, o)
  BY <1>8, SameRefs DEF SameObjects
<1>10. \A o : Settled(h, o) => Settled(k, o)
  BY <1>6, <1>7, <1>9 DEF Settled
<1>11. \A o \in h.gray \cup S : Settled(k, o)
  BY <1>1, <1>6, <1>7, <1>9 DEF Settled
<1>12. Marking(k, loose)
  <2>1. \A o \in Live(k) \ loose : isblack(k, o) => Settled(k, o)
    BY <1>6, <1>7, <1>11 DEF Marking
  <2> QED
    BY <1>7, <2>1 DEF Marking
<1>13. m.grayagain = h.grayagain /\ m.weak = h.weak
  BY MarkKeeps DEF Typed, Shape
<1> QED
  BY <1>1, <1>5, <1>6, <1>7, <1>8, <1>10, <1>11, <1>12, <1>13 DEF propagateall

-----------------------------------------------------------------------------
(* The end of the marking                                                  *)

\* What has been marked leads to nothing white, but for those in left.
Trail(h, left) == \A o \in Live(h) \ left : ~iswhite(h, o) => Settled(h, o)

LEMMA MarkTrail ==
  ASSUME NEW h, Typed(h), NEW left, NEW more, Trail(h, h.gray \cup left \cup more), NEW vs,
         \A o \in more \cap Live(h) : MarkRefs(h, o) \cap White(h) \subseteq vs
  PROVE  Trail(Mark(h, vs), Mark(h, vs).gray \cup left)
<1> DEFINE m == Mark(h, vs)
           M == reallymarkobject(h, vs)
<1>1. Shape(h) /\ DOMAIN h = Fields
  BY DEF Typed, Shape
<1>2. m.heap = h.heap /\ Live(m) = Live(h) /\ m.gray = h.gray \cup (M \ (Userdata \cup Upvalues \cup Strings))
  BY <1>1, MarkKeeps, MarkChanges, SameRefs DEF SameObjects
<1>3. White(m) = White(h) \ M
  BY MarkWhite
<1> SUFFICES ASSUME NEW o \in Live(h), o \notin m.gray \cup left, ~iswhite(m, o) PROVE Settled(m, o)
  BY <1>2 DEF Trail
<1>4. CASE o \in M
  <2>1. o \in Userdata \cup Upvalues \cup Strings
    BY <1>2, <1>4
  <2>2. o \notin Listed
    BY <2>1, Kinds DEF Listed
  <2> QED
    BY <1>4, <2>2, MarkSettles
<1>5. CASE o \notin M
  <2>1. ~iswhite(h, o)
    BY <1>2, <1>3, <1>5 DEF White
  <2>2. CASE o \in more
    BY <2>2, MarkSettles
  <2>3. CASE o \notin more
    BY <1>2, <2>1, <2>3, MarkSettles DEF Trail
  <2> QED
    BY <2>2, <2>3
<1> QED
  BY <1>4, <1>5

LEMMA PropagateTrail ==
  ASSUME NEW h, Typed(h), Marks(h), NEW loose, Marking(h, loose), NEW left, Trail(h, h.gray \cup left)
  PROVE  Trail(propagateall(h), left)
<1> DEFINE k == propagateall(h)
<1>1. SameObjects(h, k) /\ White(k) \subseteq White(h)
  BY PropagateAll
<1>2. Live(k) = Live(h)
  BY <1>1, SameRefs DEF SameObjects
<1> SUFFICES ASSUME NEW o \in Live(h), o \notin left, ~iswhite(k, o) PROVE Settled(k, o)
  BY <1>2 DEF Trail
<1>3. CASE o \in h.gray \cup White(h)
  <2>1. o \in h.gray \cup (White(h) \ White(k))
    BY <1>3 DEF White
  <2> QED
    BY <2>1, PropagateAll
<1>4. CASE o \notin h.gray \cup White(h)
  <2>1. Settled(h, o)
    BY <1>4 DEF White, Trail
  <2> QED
    BY <2>1, PropagateAll
<1> QED
  BY <1>3, <1>4

(* What is so of a marking throughout its end: nothing is dead or leads    *)
(* nowhere, and the roots are marked.                                      *)
Ending(h) ==
  /\ Typed(h) /\ Marks(h) /\ Lists(h) /\ Marking(h, Live(h)) /\ Rooted(h)
  /\ \A o \in Live(h) : Refs(h, o) \subseteq Live(h)
  /\ \A u \in Range(h.tmudata) : h.heap[u].fin /\ u \in HasGC
  /\ h.asserts \subseteq {"awaiting"}

LEMMA EndingSame ==
  ASSUME NEW h, Ending(h), NEW k, Typed(k), Marks(k), SameObjects(h, k), White(k) \subseteq White(h),
         Marking(k, Live(h)), k.asserts \subseteq {"awaiting"}
  PROVE  Ending(k)
<1>1. k.heap = h.heap /\ k.tmudata = h.tmudata
  BY DEF SameObjects
<1>2. Live(k) = Live(h) /\ \A o : Refs(k, o) = Refs(h, o)
  BY <1>1, SameRefs
<1>3. Lists(k)
  BY <1>1, SameRefs DEF Ending, Lists, SameObjects
<1>4. Rooted(k)
  BY <1>2 DEF Ending, Rooted, White, Typed, Shape
<1> QED
  BY <1>1, <1>2, <1>3, <1>4 DEF Ending

LEMMA EndingMark ==
  ASSUME NEW h, Ending(h), NEW left, NEW more, Trail(h, h.gray \cup left \cup more), NEW vs,
         \A o \in more \cap Live(h) : MarkRefs(h, o) \cap White(h) \subseteq vs
  PROVE  LET k == propagateall(Mark(h, vs))
         IN /\ Ending(k) /\ Trail(k, left) /\ k.gray = {} /\ SameObjects(h, k)
            /\ White(k) \subseteq White(h) /\ vs \cap White(k) = {}
            /\ h.grayagain \subseteq k.grayagain /\ h.weak \subseteq k.weak
<1> DEFINE m == Mark(h, vs)
           k == propagateall(m)
<1>1. Typed(h) /\ Marks(h) /\ Marking(h, Live(h)) /\ DOMAIN h = Fields /\ h.asserts \subseteq {"awaiting"}
  BY DEF Ending, Typed, Shape
<1>2. Typed(m) /\ Marks(m) /\ SameObjects(h, m)
  BY <1>1, MarkTyped
<1>3. Marking(m, Live(h)) /\ m.asserts \subseteq {"awaiting"}
  BY <1>1, MarkMarks
<1>4. /\ White(m) \subseteq White(h) /\ vs \cap White(m) = {}
      /\ m.grayagain = h.grayagain /\ m.weak = h.weak
  BY <1>1, MarkWhite, MarkKeeps
<1>5. Trail(m, m.gray \cup left)
  BY <1>1, MarkTrail
<1>6. /\ Typed(k) /\ Marks(k) /\ SameObjects(m, k) /\ Marking(k, Live(h)) /\ k.asserts \subseteq {"awaiting"}
      /\ White(k) \subseteq White(m) /\ k.gray = {}
      /\ m.grayagain \subseteq k.grayagain /\ m.weak \subseteq k.weak
  BY <1>2, <1>3, PropagateAll
<1>7. Trail(k, left)
  BY <1>2, <1>3, <1>5, PropagateTrail
<1>8. SameObjects(h, k)
  BY <1>2, <1>6 DEF SameObjects
<1>9. Ending(k)
  BY <1>4, <1>6, <1>8, EndingSame
<1> QED
  BY <1>4, <1>6, <1>7, <1>8, <1>9

LEMMA EndingPropagate ==
  ASSUME NEW h, Ending(h), NEW left, Trail(h, h.gray \cup left)
  PROVE  LET k == propagateall(h)
         IN /\ Ending(k) /\ Trail(k, left) /\ k.gray = {} /\ SameObjects(h, k)
            /\ White(k) \subseteq White(h)
            /\ h.grayagain \subseteq k.grayagain /\ h.weak \subseteq k.weak
<1> DEFINE k == propagateall(h)
<1>1. Typed(h) /\ Marks(h) /\ Marking(h, Live(h)) /\ h.asserts \subseteq {"awaiting"}
  BY DEF Ending
<1>2. /\ Typed(k) /\ Marks(k) /\ SameObjects(h, k) /\ Marking(k, Live(h)) /\ k.asserts \subseteq {"awaiting"}
      /\ White(k) \subseteq White(h) /\ k.gray = {}
      /\ h.grayagain \subseteq k.grayagain /\ h.weak \subseteq k.weak
  BY <1>1, PropagateAll
<1>3. Trail(k, left)
  BY <1>1, PropagateTrail
<1> QED
  BY <1>2, <1>3, EndingSame

\* The marking up to the userdata that die.
Again(h) == [h EXCEPT !.gray = h.weak, !.weak = {},
                      !.asserts = @ \cup lua_assert(~iswhite(h, Main), "atomic")]
Remarked(h) ==
  LET h2 == propagateall(Mark(Again(propagateall(remarkupvals(h))), {h.cur}))
  IN propagateall([h2 EXCEPT !.gray = h2.grayagain, !.grayagain = {}])

LEMMA RegrayedEnding ==
  ASSUME NEW h, Ending(h), h.gray = {}, NEW left, Trail(h, h.grayagain \cup h.weak \cup left)
  PROVE  /\ LET k == Again(h)
            IN Ending(k) /\ SameObjects(h, k) /\ White(k) = White(h) /\ Trail(k, k.gray \cup (k.grayagain \cup left))
         /\ LET k == [h EXCEPT !.gray = h.grayagain, !.grayagain = {}]
            IN Ending(k) /\ SameObjects(h, k) /\ White(k) = White(h) /\ Trail(k, k.gray \cup (h.weak \cup left))
<1>1. DOMAIN h = Fields /\ h.asserts \subseteq {"awaiting"} /\ ~iswhite(h, Main) /\ Marking(h, Live(h)) /\ Typed(h) /\ Marks(h)
  BY DEF Ending, Typed, Shape, Rooted
<1>2. ASSUME NEW k, SameObjects(h, k), k.color = h.color, k.asserts \subseteq {"awaiting"}, k.gray \subseteq Listed,
             k.gray \cup k.grayagain \cup k.weak = h.grayagain \cup h.weak,
             k.grayagain \subseteq h.grayagain, k.weak \subseteq h.weak,
             k.gray \cap k.grayagain = {}, k.gray \cap k.weak = {}
      PROVE  /\ Ending(k) /\ White(k) = White(h)
             /\ \A s : Trail(h, s) => Trail(k, s)
  <2>1. k.heap = h.heap /\ k.white = h.white
    BY <1>2 DEF SameObjects
  <2>2. Live(k) = Live(h) /\ Open(k) = Open(h) /\ \A o : MarkRefs(k, o) = MarkRefs(h, o)
    BY <2>1, SameRefs
  <2>3. /\ \A o : iswhite(k, o) = iswhite(h, o) /\ isblack(k, o) = isblack(h, o)
        /\ \A o : isgray(k, o) = isgray(h, o) /\ isdead(k, o) = isdead(h, o)
    BY <1>2, <2>1 DEF iswhite, isblack, isgray, isdead, otherwhite
  <2>4. White(k) = White(h)
    BY <2>2, <2>3 DEF White
  <2>5. \A o : Settled(k, o) = Settled(h, o)
    BY <2>2, <2>4 DEF Settled
  <2>6. Typed(k)
    BY <1>1, <1>2, SameTyped DEF Typed, Shape
  <2>7. Marks(k)
    BY <1>1, <2>2, <2>3 DEF Marks
  <2>8. Marking(k, Live(h))
    <3>1. h.gray \cup h.grayagain \cup h.weak = k.gray \cup k.grayagain \cup k.weak
      BY <1>2
    <3>2. k.weak \subseteq Weak /\ k.grayagain \subseteq Listed \ Weak /\ k.grayagain \cap k.weak = {}
      BY <1>1, <1>2 DEF Marking
    <3>3. \A o \in Live(k) : isgray(k, o) => o \in Strings \cup Open(k) \cup k.gray \cup k.grayagain \cup k.weak
      BY <1>1, <2>2, <2>3, <3>1 DEF Marking
    <3>4. \A o \in k.gray \cup k.grayagain \cup k.weak : o \in Live(k) /\ isgray(k, o)
      BY <1>1, <2>2, <2>3, <3>1 DEF Marking
    <3>5. \A o \in Live(k) : ~isdead(k, o)
      BY <1>1, <2>2, <2>3 DEF Marking
    <3> QED
      BY <1>2, <2>2, <3>2, <3>3, <3>4, <3>5 DEF Marking
  <2>9. \A s : Trail(h, s) => Trail(k, s)
    BY <2>2, <2>3, <2>5 DEF Trail
  <2> QED
    BY <1>2, <2>4, <2>6, <2>7, <2>8, <2>9, EndingSame
<1>3. /\ h.weak \subseteq Listed /\ h.grayagain \subseteq Listed /\ h.grayagain \cap h.weak = {}
  BY <1>1, Kinds DEF Marking, Listed
<1>4. LET k == Again(h)
      IN /\ SameObjects(h, k) /\ k.color = h.color /\ k.asserts \subseteq {"awaiting"}
         /\ k.gray = h.weak /\ k.grayagain = h.grayagain /\ k.weak = {}
  BY <1>1 DEF Again, SameObjects, Fields, lua_assert
<1>5. LET k == [h EXCEPT !.gray = h.grayagain, !.grayagain = {}]
      IN /\ SameObjects(h, k) /\ k.color = h.color /\ k.asserts \subseteq {"awaiting"}
         /\ k.gray = h.grayagain /\ k.grayagain = {} /\ k.weak = h.weak
  BY <1>1 DEF SameObjects, Fields
<1>6. /\ h.weak \cup (h.grayagain \cup left) = h.grayagain \cup h.weak \cup left
      /\ h.grayagain \cup (h.weak \cup left) = h.grayagain \cup h.weak \cup left
  OBVIOUS
<1> DEFINE a == Again(h)
           b == [h EXCEPT !.gray = h.grayagain, !.grayagain = {}]
<1>7. Ending(a) /\ White(a) = White(h) /\ Trail(a, a.gray \cup (a.grayagain \cup left))
  <2>1. /\ SameObjects(h, a) /\ a.color = h.color /\ a.asserts \subseteq {"awaiting"} /\ a.gray \subseteq Listed
        /\ a.gray \cup a.grayagain \cup a.weak = h.grayagain \cup h.weak
        /\ a.grayagain \subseteq h.grayagain /\ a.weak \subseteq h.weak
        /\ a.gray \cap a.grayagain = {} /\ a.gray \cap a.weak = {}
    BY <1>3, <1>4
  <2>2. a.gray \cup (a.grayagain \cup left) = h.grayagain \cup h.weak \cup left
    BY <1>4
  <2> HIDE DEF a
  <2>3. Ending(a) /\ White(a) = White(h) /\ \A s : Trail(h, s) => Trail(a, s)
    BY <1>2, <2>1
  <2> QED
    BY <2>2, <2>3
<1>8. Ending(b) /\ White(b) = White(h) /\ Trail(b, b.gray \cup (h.weak \cup left))
  <2>1. /\ SameObjects(h, b) /\ b.color = h.color /\ b.asserts \subseteq {"awaiting"} /\ b.gray \subseteq Listed
        /\ b.gray \cup b.grayagain \cup b.weak = h.grayagain \cup h.weak
        /\ b.grayagain \subseteq h.grayagain /\ b.weak \subseteq h.weak
        /\ b.gray \cap b.grayagain = {} /\ b.gray \cap b.weak = {}
    BY <1>3, <1>5
  <2>2. b.gray \cup (h.weak \cup left) = h.grayagain \cup h.weak \cup left
    BY <1>5
  <2> HIDE DEF b
  <2>3. Ending(b) /\ White(b) = White(h) /\ \A s : Trail(h, s) => Trail(b, s)
    BY <1>2, <2>1
  <2> QED
    BY <2>2, <2>3
<1> QED
  BY <1>4, <1>5, <1>7, <1>8

\* Of a marking that has come to its end, only the values of open upvalues are not marked.
LEMMA RemarkedEnding ==
  ASSUME NEW h, Ending(h), NEW left, Marking(h, left)
  PROVE  LET k == Remarked(h)
         IN /\ Ending(k) /\ SameObjects(h, k) /\ White(k) \subseteq White(h)
            /\ Trail(k, left) /\ k.gray = {} /\ h.cur \notin White(k)
<1> DEFINE us == {x \in Open(h) : isgray(h, x)}
           vs == {UpvalValue(h, u) : u \in us}
           h1 == propagateall(Mark(h, vs))
           a == Again(h1)
           h2 == propagateall(Mark(a, {h.cur}))
           b == [h2 EXCEPT !.gray = h2.grayagain, !.grayagain = {}]
           k == propagateall(b)
           all == h.grayagain \cup h.weak \cup left
<1>1. k = Remarked(h)
  BY DEF Remarked, remarkupvals
<1>2. Trail(h, h.gray \cup all \cup us)
  <2> SUFFICES ASSUME NEW o \in Live(h), o \notin h.gray \cup all \cup us, ~iswhite(h, o)
               PROVE  Settled(h, o)
    BY DEF Trail
  <2>1. isblack(h, o) \/ isgray(h, o)
    BY DEF Ending, Typed, Shape, isblack, isgray, iswhite
  <2>2. CASE isblack(h, o)
    BY <2>2 DEF Marking
  <2>3. CASE isgray(h, o)
    <3>1. o \in Strings
      BY <2>3 DEF Marking
    <3> QED
      BY <3>1, MarkRefsOf DEF Settled
  <2> QED
    BY <2>1, <2>2, <2>3
<1>3. ASSUME NEW u \in us PROVE MarkRefs(h, u) \cap White(h) \subseteq vs
  <2>1. u \in Upvalues
    BY DEF Open
  <2> QED
    BY <2>1, MarkRefsOf
<1> HIDE DEF vs, us, all
<1>4. /\ Ending(h1) /\ Trail(h1, all) /\ h1.gray = {} /\ SameObjects(h, h1)
      /\ White(h1) \subseteq White(h)
      /\ h.grayagain \subseteq h1.grayagain /\ h.weak \subseteq h1.weak
  <2>1. \A o \in us \cap Live(h) : MarkRefs(h, o) \cap White(h) \subseteq vs
    BY <1>3
  <2>2. LET x == propagateall(Mark(h, vs))
        IN /\ Ending(x) /\ Trail(x, all) /\ x.gray = {} /\ SameObjects(h, x)
           /\ White(x) \subseteq White(h) /\ vs \cap White(x) = {}
           /\ h.grayagain \subseteq x.grayagain /\ h.weak \subseteq x.weak
    BY <1>2, <2>1, EndingMark
  <2> QED
    BY <2>2
<1>5. Trail(h1, h1.grayagain \cup h1.weak \cup left)
  BY <1>4 DEF Trail, all
<1>6. Ending(a) /\ SameObjects(h1, a) /\ White(a) = White(h1) /\ Trail(a, a.gray \cup (a.grayagain \cup left))
  BY <1>4, <1>5, RegrayedEnding
<1> HIDE DEF h1, a
<1>7. /\ Ending(h2) /\ Trail(h2, a.grayagain \cup left) /\ h2.gray = {} /\ SameObjects(a, h2)
      /\ White(h2) \subseteq White(a) /\ {h.cur} \cap White(h2) = {}
      /\ a.grayagain \subseteq h2.grayagain
  <2> DEFINE none == {}
             keep == a.grayagain \cup left
             cur == {h.cur}
  <2>1. Trail(a, a.gray \cup keep \cup none)
    BY <1>6
  <2>2. \A o \in none \cap Live(a) : MarkRefs(a, o) \cap White(a) \subseteq cur
    OBVIOUS
  <2> HIDE DEF none, keep, cur
  <2>3. LET x == propagateall(Mark(a, cur))
        IN /\ Ending(x) /\ Trail(x, keep) /\ x.gray = {} /\ SameObjects(a, x)
           /\ White(x) \subseteq White(a) /\ cur \cap White(x) = {}
           /\ a.grayagain \subseteq x.grayagain
    BY <1>6, <2>1, <2>2, EndingMark
  <2> QED
    BY <2>3 DEF keep, cur
<1>8. Trail(h2, h2.grayagain \cup h2.weak \cup left)
  BY <1>7 DEF Trail
<1>9. Ending(b) /\ SameObjects(h2, b) /\ White(b) = White(h2) /\ Trail(b, b.gray \cup left)
  <2>1. Trail(h2, h2.grayagain \cup {} \cup left)
    BY <1>7 DEF Trail
  <2>2. Ending(b) /\ SameObjects(h2, b) /\ White(b) = White(h2)
    BY <1>7, <1>8, RegrayedEnding
  <2>3. Live(b) = Live(h2) /\ \A o : MarkRefs(b, o) = MarkRefs(h2, o)
    BY <2>2, SameRefs DEF SameObjects
  <2>4. b.gray = h2.grayagain /\ b.color = h2.color
    BY <1>7 DEF Ending, Typed, Shape, Fields
  <2>5. Trail(b, b.gray \cup left)
    BY <1>7, <2>2, <2>3, <2>4 DEF Trail, Settled, iswhite
  <2> QED
    BY <2>2, <2>5
<1> HIDE DEF h2, b
<1>10. /\ Ending(k) /\ Trail(k, left) /\ k.gray = {} /\ SameObjects(b, k)
       /\ White(k) \subseteq White(b)
  BY <1>9, EndingPropagate
<1>11. SameObjects(h, k)
  BY <1>4, <1>6, <1>7, <1>9, <1>10 DEF SameObjects
<1>12. h.cur \notin White(k) /\ White(k) \subseteq White(h)
  BY <1>4, <1>6, <1>7, <1>9, <1>10 DEF SameObjects
<1> QED
  BY <1>1, <1>10, <1>11, <1>12

\* h's objects refer to what k's do.
SameLinks(h, k) ==
  /\ Live(k) = Live(h) /\ Open(k) = Open(h) /\ Stack(k) = Stack(h)
  /\ \A o \in Live(h) : MarkRefs(k, o) = MarkRefs(h, o) /\ Refs(k, o) = Refs(h, o)

LEMMA LinksSame ==
  ASSUME NEW h, Typed(h), NEW k, Live(k) = Live(h),
         \A o \in Live(h) \ Userdata : k.heap[o] = h.heap[o],
         \A d \in Userdata \cap Live(h) : k.heap[d].env = h.heap[d].env
  PROVE  SameLinks(h, k) /\ \A o \in Live(h) \ Userdata : Payload(k, o)
<1>1. \A u \in Upvalues \cap Live(h) : k.heap[u] = h.heap[u]
  BY Kinds
<1>2. Open(k) = Open(h)
  BY <1>1 DEF Open
<1>3. Stack(k) = Stack(h)
  BY Kinds DEF Typed, Shape, Stack
<1>4. \A o \in Live(h) \ Userdata : Payload(k, o)
  <2> SUFFICES ASSUME NEW o \in Live(h) \ Userdata PROVE Payload(k, o)
    OBVIOUS
  <2>1. Payload(h, o) /\ k.heap[o] = h.heap[o]
    BY DEF Typed, Payloads
  <2> QED
    BY <1>3, <2>1 DEF Payload
<1>5. ASSUME NEW o \in Live(h) PROVE MarkRefs(k, o) = MarkRefs(h, o)
  <2>1. o \in Listed \cup Upvalues \cup Strings \cup Userdata
    BY Kinds DEF Typed, Shape
  <2>2. CASE o \in Listed
    <3>1. k.heap[o] = h.heap[o]
      BY <2>2, Kinds DEF Listed
    <3> QED
      BY <2>2, <3>1, Kinds DEF MarkRefs, Listed
  <2>3. CASE o \in Upvalues
    <3>1. k.heap[o] = h.heap[o] /\ Payload(h, o)
      BY <1>1, <2>3 DEF Typed, Payloads
    <3>2. h.heap[o].open => k.heap[h.heap[o].th] = h.heap[h.heap[o].th]
      BY <2>3, <3>1, Kinds DEF Payload
    <3>3. UpvalValue(k, o) = UpvalValue(h, o)
      BY <3>1, <3>2 DEF UpvalValue
    <3> QED
      BY <2>3, <3>3, Kinds DEF MarkRefs
  <2>4. CASE o \in Strings
    BY <2>4, MarkRefsOf
  <2>5. CASE o \in Userdata
    BY <2>5, MarkRefsOf
  <2> QED
    BY <2>1, <2>2, <2>3, <2>4, <2>5
<1>6. ASSUME NEW o \in Live(h) PROVE Refs(k, o) = Refs(h, o)
  <2>1. o \in Tables => k.heap[o] = h.heap[o]
    BY Kinds
  <2> QED
    BY <1>5, <2>1 DEF Refs
<1> QED
  BY <1>2, <1>3, <1>4, <1>5, <1>6 DEF SameLinks

LEMMA SeparatedKeeps ==
  ASSUME NEW h, DOMAIN h = Fields, NEW dies
  PROVE  LET k == Separated(h, dies)
         IN /\ DOMAIN k = Fields
            /\ k.color = h.color /\ k.white = h.white /\ k.gray = h.gray
            /\ k.grayagain = h.grayagain /\ k.weak = h.weak /\ k.asserts = h.asserts
            /\ k.rootgc = h.rootgc /\ k.unswept = h.unswept /\ k.sweepstrgc = h.sweepstrgc
            /\ k.gcstate = h.gcstate /\ k.cur = h.cur /\ k.fins = h.fins /\ k.made = h.made
BY DEF Separated, Fields

(* The userdata that die are noted, and those with a finalizer wait for it. *)
LEMMA SeparatedTyped ==
  ASSUME NEW h, Typed(h), Lists(h), NEW dies \in SUBSET Range(h.udata)
  PROVE  LET k == Separated(h, dies)
         IN /\ Typed(k) /\ Lists(k) /\ SameLinks(h, k) /\ (Marks(h) => Marks(k))
            /\ Range(k.udata) = Range(h.udata) \ (dies \cap HasGC)
            /\ Range(k.tmudata) = Range(h.tmudata) \cup (dies \cap HasGC)
            /\ \A d \in Userdata \cap Live(h) :
                 k.heap[d].env = h.heap[d].env /\ (k.heap[d].fin <=> h.heap[d].fin \/ d \in dies)
            /\ \A o \in Live(h) \ Userdata : k.heap[o] = h.heap[o]
<1> DEFINE due == dies \cap HasGC
           k == Separated(h, dies)
           rest == Selected(h.udata, Userdata \ due)
           more == Selected(h.udata, due)
<1>1. DOMAIN h = Fields /\ DOMAIN h.color = Live(h)
  BY DEF Typed, Shape
<1>2. /\ h.udata \in Seq(Userdata) /\ h.tmudata \in Seq(Userdata)
      /\ Range(h.udata) \cup Range(h.tmudata) = Live(h) \cap Userdata
      /\ Range(h.udata) \cap Range(h.tmudata) = {}
      /\ IsInjective(h.udata) /\ IsInjective(h.tmudata)
      /\ h.rootgc = Live(h) \cap (Listed \cup (Upvalues \ Open(h)))
  BY DEF Lists
<1>3. /\ rest \in Seq(Userdata) /\ Range(rest) = Range(h.udata) \cap (Userdata \ due) /\ IsInjective(rest)
  BY <1>2, SelectedProperties
<1>4. more \in Seq(Userdata) /\ Range(more) = Range(h.udata) \cap due /\ IsInjective(more)
  BY <1>2, SelectedProperties
<1>5. /\ DOMAIN k = Fields
      /\ k.udata = rest /\ k.tmudata = h.tmudata \o more
      /\ k.color = h.color /\ k.white = h.white /\ k.gray = h.gray
      /\ k.grayagain = h.grayagain /\ k.weak = h.weak /\ k.asserts = h.asserts
      /\ k.rootgc = h.rootgc /\ k.unswept = h.unswept /\ k.sweepstrgc = h.sweepstrgc
      /\ k.gcstate = h.gcstate /\ k.cur = h.cur /\ k.fins = h.fins /\ k.made = h.made
      /\ k.late = Range(h.tmudata)
  BY <1>1 DEF Separated, Fields
<1>6. k.heap = [o \in Live(h) |-> IF o \in dies THEN [h.heap[o] EXCEPT !.fin = TRUE] ELSE h.heap[o]]
  BY <1>1 DEF Separated, Fields
<1>7. dies \subseteq Userdata /\ Range(h.udata) \subseteq Userdata
  BY <1>2, RangeOfSeq
<1>8. \A o \in Live(h) \ Userdata : k.heap[o] = h.heap[o]
  BY <1>6, <1>7
<1>9. \A d \in Userdata \cap Live(h) :
        /\ DOMAIN k.heap[d] = {"env", "fin"} /\ k.heap[d].env = h.heap[d].env
        /\ k.heap[d].fin = (h.heap[d].fin \/ d \in dies)
  <2> SUFFICES ASSUME NEW d \in Userdata \cap Live(h)
               PROVE  /\ DOMAIN k.heap[d] = {"env", "fin"} /\ k.heap[d].env = h.heap[d].env
                      /\ k.heap[d].fin = (h.heap[d].fin \/ d \in dies)
    OBVIOUS
  <2>1. DOMAIN h.heap[d] = {"env", "fin"} /\ h.heap[d].fin \in BOOLEAN
    BY DEF Typed, Payloads, Payload
  <2>2. k.heap[d] = IF d \in dies THEN [h.heap[d] EXCEPT !.fin = TRUE] ELSE h.heap[d]
    BY <1>6
  <2> HIDE DEF k
  <2>3. CASE d \in dies
    <3>1. k.heap[d] = [h.heap[d] EXCEPT !.fin = TRUE]
      BY <2>2, <2>3
    <3> QED
      BY <2>1, <2>3, <3>1
  <2>4. CASE d \notin dies
    BY <2>1, <2>2, <2>4
  <2> QED
    BY <2>3, <2>4
<1>10. Live(k) = Live(h)
  BY <1>6 DEF Live
<1> HIDE DEF k
<1>11. SameLinks(h, k) /\ \A o \in Live(h) \ Userdata : Payload(k, o)
  <2>1. \A d \in Userdata \cap Live(h) : k.heap[d].env = h.heap[d].env
    BY <1>9
  <2> QED
    BY <1>8, <1>10, <2>1, LinksSame
<1>12. Typed(k)
  <2>1. ASSUME NEW d \in Userdata \cap Live(h) PROVE Payload(k, d)
    <3>1. Payload(h, d)
      BY DEF Typed, Payloads
    <3> QED
      BY <1>9, <3>1, Kinds DEF Payload
  <2>2. Payloads(k)
    BY <1>10, <1>11, <2>1 DEF Payloads
  <2>3. Shape(k)
    BY <1>5, <1>10 DEF Typed, Shape
  <2> QED
    BY <2>2, <2>3 DEF Typed
<1>13. Range(k.tmudata) = Range(h.tmudata) \cup due
  <2>1. Range(h.tmudata \o more) = Range(h.tmudata) \cup Range(more)
    BY <1>2, <1>4, RangeConcatenation
  <2> QED
    BY <1>4, <1>5, <2>1
<1>14. Range(k.udata) = Range(h.udata) \ due
  BY <1>3, <1>5, <1>7
<1>15. IsInjective(k.tmudata) /\ k.tmudata \in Seq(Userdata)
  <2>1. Range(h.tmudata) \cap Range(more) = {}
    BY <1>2, <1>4
  <2>2. IsInjective(h.tmudata \o more)
    BY <1>2, <1>4, <2>1, ConcatInjective
  <2> QED
    BY <1>2, <1>4, <1>5, <2>2, ConcatProperties
<1>16. Lists(k)
  BY <1>2, <1>3, <1>5, <1>10, <1>11, <1>13, <1>14, <1>15 DEF Lists, SameLinks
<1>17. Marks(h) => Marks(k)
  BY <1>5, <1>10, <1>11 DEF Marks, SameLinks, isblack, isgray
<1> USE DEF k
<1> QED
  BY <1>5, <1>8, <1>9, <1>11, <1>12, <1>13, <1>14, <1>16, <1>17

\* Nothing in the invariants of a marking depends on fin.
LEMMA SeparatedEnding ==
  ASSUME NEW h, Ending(h)
  PROVE  LET k == luaC_separateudata(h, FALSE)
         IN /\ Ending(k) /\ White(k) = White(h) /\ k.gray = h.gray /\ Live(k) = Live(h)
            /\ \A left : Trail(h, left) => Trail(k, left)
            /\ Range(h.tmudata) \subseteq Range(k.tmudata) /\ Range(k.tmudata) \subseteq Userdata
            /\ \A u \in Userdata \cap White(h) : k.heap[u].fin
<1> DEFINE dies == {u \in Range(h.udata) : (iswhite(h, u) \/ FALSE) /\ ~h.heap[u].fin}
           k == Separated(h, dies)
<1>1. k = luaC_separateudata(h, FALSE)
  BY DEF luaC_separateudata
<1>2. Typed(h) /\ Lists(h) /\ Marks(h) /\ dies \in SUBSET Range(h.udata)
  BY DEF Ending
<1> HIDE DEF dies
<1>3. /\ Typed(k) /\ Lists(k) /\ SameLinks(h, k) /\ Marks(k)
      /\ Range(k.tmudata) = Range(h.tmudata) \cup (dies \cap HasGC)
      /\ \A d \in Userdata \cap Live(h) : (k.heap[d].fin <=> h.heap[d].fin \/ d \in dies)
      /\ k.color = h.color /\ k.white = h.white /\ k.gray = h.gray
      /\ k.grayagain = h.grayagain /\ k.weak = h.weak /\ k.asserts = h.asserts
  <2>1. /\ Typed(k) /\ Lists(k) /\ SameLinks(h, k) /\ Marks(k)
    BY <1>2, SeparatedTyped
  <2>2. Range(k.tmudata) = Range(h.tmudata) \cup (dies \cap HasGC)
    BY <1>2, SeparatedTyped
  <2>3. \A d \in Userdata \cap Live(h) : (k.heap[d].fin <=> h.heap[d].fin \/ d \in dies)
    BY <1>2, SeparatedTyped
  <2>4. /\ k.color = h.color /\ k.white = h.white /\ k.gray = h.gray
        /\ k.grayagain = h.grayagain /\ k.weak = h.weak /\ k.asserts = h.asserts
    BY <1>2, SeparatedKeeps DEF Typed, Shape
  <2> QED
    BY <2>1, <2>2, <2>3, <2>4
<1> HIDE DEF k
<1>4. /\ Live(k) = Live(h) /\ Open(k) = Open(h)
      /\ \A o \in Live(h) : MarkRefs(k, o) = MarkRefs(h, o) /\ Refs(k, o) = Refs(h, o)
  BY <1>3 DEF SameLinks
<1>5. /\ \A o : iswhite(k, o) = iswhite(h, o) /\ isblack(k, o) = isblack(h, o)
      /\ \A o : isgray(k, o) = isgray(h, o) /\ isdead(k, o) = isdead(h, o)
  BY <1>3 DEF iswhite, isblack, isgray, isdead, otherwhite
<1>6. White(k) = White(h)
  BY <1>4, <1>5 DEF White
<1>7. \A o \in Live(h) : Settled(k, o) = Settled(h, o)
  BY <1>4, <1>6 DEF Settled
<1>8. Marking(k, Live(k))
  <2>1. Marking(h, Live(h))
    BY DEF Ending
  <2> QED
    BY <2>1, <1>3, <1>4, <1>5 DEF Marking
<1>9. Range(h.udata) \cup Range(h.tmudata) = Live(h) \cap Userdata
  BY <1>2 DEF Lists
<1>10. \A u \in Range(k.tmudata) : k.heap[u].fin /\ u \in HasGC
  <2>1. \A u \in Range(h.tmudata) : h.heap[u].fin /\ u \in HasGC
    BY DEF Ending
  <2>2. \A u \in dies : u \in Range(h.udata)
    BY <1>2
  <2> QED
    BY <2>1, <2>2, <1>3, <1>9
<1>11. \A u \in Userdata \cap White(h) : k.heap[u].fin
  <2> SUFFICES ASSUME NEW u \in Userdata \cap White(h) PROVE k.heap[u].fin
    OBVIOUS
  <2>1. u \in Live(h) /\ iswhite(h, u)
    BY DEF White
  <2>2. CASE u \in Range(h.tmudata)
    BY <2>1, <2>2, <1>3 DEF Ending
  <2>3. CASE u \in Range(h.udata)
    BY <2>1, <2>3, <1>3 DEF dies
  <2> QED
    BY <2>1, <2>2, <2>3, <1>9
<1>12. Ending(k)
  <2>1. Rooted(k) /\ k.asserts \subseteq {"awaiting"}
    BY <1>3, <1>5 DEF Ending, Rooted
  <2>2. \A o \in Live(k) : Refs(k, o) \subseteq Live(k)
    BY <1>4 DEF Ending
  <2> QED
    BY <1>3, <1>8, <1>10, <2>1, <2>2 DEF Ending
<1>13. \A left : Trail(h, left) => Trail(k, left)
  BY <1>4, <1>5, <1>7 DEF Trail
<1>14. Range(h.tmudata) \subseteq Range(k.tmudata) /\ Range(k.tmudata) \subseteq Userdata
  BY <1>3 DEF Lists
<1> QED
  BY <1>1, <1>3, <1>4, <1>6, <1>11, <1>12, <1>13, <1>14

\* What waits for its finalizer, white again.
Whitened(h) ==
  [h EXCEPT !.color = [o \in DOMAIN h.color |-> IF o \in Range(h.tmudata) THEN h.white ELSE h.color[o]]]

LEMMA WhitenedEnding ==
  ASSUME NEW h, Ending(h), Range(h.tmudata) \subseteq Userdata
  PROVE  LET w == Whitened(h)
         IN /\ Ending(w) /\ SameObjects(h, w) /\ White(w) = White(h) \cup Range(h.tmudata)
            /\ w.gray = h.gray
<1> DEFINE T == Range(h.tmudata)
           w == Whitened(h)
<1>2. /\ Typed(h) /\ Marks(h) /\ Lists(h) /\ Marking(h, Live(h)) /\ Rooted(h) /\ h.asserts \subseteq {"awaiting"}
      /\ DOMAIN h = Fields /\ DOMAIN h.color = Live(h) /\ h.white \in {"white0", "white1"}
      /\ T \subseteq Live(h)
  BY DEF Ending, Typed, Shape, Lists
<1>3. /\ SameObjects(h, w) /\ w.gray = h.gray /\ w.grayagain = h.grayagain /\ w.weak = h.weak
      /\ w.asserts = h.asserts /\ w.white = h.white
      /\ \A o \in Live(h) : w.color[o] = IF o \in T THEN h.white ELSE h.color[o]
  BY <1>2 DEF SameObjects, Fields, Whitened
<1> HIDE DEF w
<1>4. /\ Live(w) = Live(h) /\ Open(w) = Open(h)
      /\ \A o : MarkRefs(w, o) = MarkRefs(h, o) /\ Refs(w, o) = Refs(h, o)
  BY <1>3, SameRefs DEF SameObjects
<1>5. \A o \in Live(h) \ T : /\ iswhite(w, o) = iswhite(h, o) /\ isblack(w, o) = isblack(h, o)
                            /\ isgray(w, o) = isgray(h, o) /\ isdead(w, o) = isdead(h, o)
  BY <1>3 DEF iswhite, isblack, isgray, isdead, otherwhite
<1>6. \A o \in T : iswhite(w, o) /\ ~isblack(w, o) /\ ~isgray(w, o) /\ ~isdead(w, o)
  BY <1>2, <1>3 DEF iswhite, isblack, isgray, isdead, otherwhite
<1>7. White(w) = White(h) \cup T
  BY <1>2, <1>4, <1>5, <1>6 DEF White
<1>8. Typed(w) /\ Lists(w)
  <2>1. \A o \in Live(h) : w.color[o] \in {"white0", "white1", "gray", "black"}
    BY <1>2, <1>3 DEF Typed, Shape
  <2> QED
    BY <1>2, <1>3, <2>1, SameTyped
<1>9. Marks(w)
  BY <1>2, <1>4, <1>5, <1>6 DEF Marks
<1>10. T \cap (h.gray \cup h.grayagain \cup h.weak) = {}
  <2>1. Weak \subseteq Listed /\ Listed \cap Userdata = {}
    BY Kinds DEF Listed
  <2> QED
    BY <1>2, <2>1 DEF Marking
<1>11. Marking(w, Live(w))
  <2>1. \A o \in Live(w) : ~isdead(w, o)
    BY <1>2, <1>4, <1>5, <1>6 DEF Marking
  <2>2. \A o \in Live(w) : isgray(w, o) => o \in Strings \cup Open(w) \cup w.gray \cup w.grayagain \cup w.weak
    BY <1>2, <1>3, <1>4, <1>5, <1>6 DEF Marking
  <2>3. \A o \in w.gray \cup w.grayagain \cup w.weak : o \in Live(w) /\ isgray(w, o)
    BY <1>2, <1>3, <1>4, <1>5, <1>10 DEF Marking
  <2> QED
    BY <1>2, <1>3, <2>1, <2>2, <2>3 DEF Marking
<1>12. Ending(w)
  <2>1. Main \notin T /\ Globals \notin T
    BY Kinds
  <2>2. Rooted(w)
    BY <1>2, <1>5, <2>1 DEF Rooted, Typed, Shape
  <2>3. w.heap = h.heap /\ w.tmudata = h.tmudata
    BY <1>3 DEF SameObjects
  <2> QED
    BY <1>2, <1>3, <1>4, <1>8, <1>9, <1>11, <2>2, <2>3 DEF Ending
<1> QED
  BY <1>3, <1>7, <1>12 DEF w

\* What waits for its finalizer is marked, with all that it leads to.
LEMMA TmuEnding ==
  ASSUME NEW h, Ending(h), Trail(h, Range(h.tmudata)), h.gray = {}, Range(h.tmudata) \subseteq Userdata
  PROVE  LET k == propagateall(marktmu(h))
         IN /\ Ending(k) /\ Trail(k, {}) /\ k.gray = {} /\ SameObjects(h, k)
            /\ White(k) \subseteq White(h) /\ Range(h.tmudata) \cap White(k) = {}
<1> DEFINE T == Range(h.tmudata)
           w == Whitened(h)
           m == Mark(w, T)
           M == reallymarkobject(w, T)
           k == propagateall(m)
<1>1. m = marktmu(h)
  BY DEF marktmu, Whitened
<1>3. Ending(w) /\ SameObjects(h, w) /\ White(w) = White(h) \cup T /\ w.gray = h.gray
  BY WhitenedEnding
<1> HIDE DEF w
<1>4. Live(w) = Live(h) /\ \A o : MarkRefs(w, o) = MarkRefs(h, o)
  BY <1>3, SameRefs DEF SameObjects
<1>8. Typed(w) /\ Marks(w) /\ Marking(w, Live(w)) /\ w.asserts \subseteq {"awaiting"}
  BY <1>3 DEF Ending
<1>13. Typed(m) /\ Marks(m) /\ SameObjects(w, m)
  BY <1>8, MarkTyped
<1>14. Marking(m, Live(w)) /\ m.asserts \subseteq {"awaiting"}
  BY <1>8, MarkMarks
<1>15. White(m) = White(w) \ M /\ T \cap White(m) = {}
  BY <1>8, MarkWhite
<1>16. Ending(m)
  BY <1>3, <1>13, <1>14, <1>15, EndingSame
<1>17. White(m) \subseteq White(h)
  BY <1>3, <1>15
<1>18. Trail(m, m.gray \cup {})
  <2>1. Live(m) = Live(h) /\ \A o : MarkRefs(m, o) = MarkRefs(h, o)
    BY <1>4, <1>13, SameRefs DEF SameObjects
  <2> SUFFICES ASSUME NEW o \in Live(h), o \notin m.gray, ~iswhite(m, o) PROVE Settled(m, o)
    BY <2>1 DEF Trail
  <2>2. CASE o \in M
    <3>1. m.gray = w.gray \cup (M \ (Userdata \cup Upvalues \cup Strings))
      BY <1>8, MarkChanges DEF Typed
    <3>2. o \notin Listed
      BY <2>2, <3>1, Kinds DEF Listed
    <3> QED
      BY <1>4, <1>8, <2>2, <3>2, MarkSettles
  <2>3. CASE o \notin M
    <3>1. o \notin White(w)
      BY <1>15, <2>1, <2>3 DEF White
    <3>2. o \notin T /\ ~iswhite(h, o)
      BY <1>3, <3>1 DEF White
    <3>3. Settled(h, o)
      BY <3>2 DEF Trail
    <3> QED
      BY <1>17, <2>1, <3>3 DEF Settled
  <2> QED
    BY <2>2, <2>3
<1> HIDE DEF m
<1>19. /\ Ending(k) /\ Trail(k, {}) /\ k.gray = {} /\ SameObjects(m, k)
       /\ White(k) \subseteq White(m)
  <2> DEFINE none == {}
  <2>1. Trail(m, m.gray \cup none)
    BY <1>18
  <2> HIDE DEF none
  <2>2. /\ Ending(k) /\ Trail(k, none) /\ k.gray = {} /\ SameObjects(m, k)
        /\ White(k) \subseteq White(m)
    BY <1>16, <2>1, EndingPropagate
  <2> QED
    BY <2>2 DEF none
<1>20. SameObjects(h, k)
  BY <1>3, <1>13, <1>19 DEF SameObjects
<1> QED
  BY <1>1, <1>15, <1>17, <1>19, <1>20

\* When nothing more is to be marked, what is white is dead.
LEMMA Marked ==
  ASSUME NEW h, Ending(h), Marking(h, Range(h.tmudata))
  PROVE  LET s == luaC_separateudata(Remarked(h), FALSE)
             k == propagateall(marktmu(s))
         IN /\ Ending(k) /\ Trail(k, {}) /\ k.gray = {} /\ SameObjects(s, k)
            /\ White(k) \subseteq White(h) /\ h.cur \notin White(k)
            /\ Range(k.tmudata) \cap White(k) = {} /\ \A u \in Userdata \cap White(k) : k.heap[u].fin
<1> DEFINE r == Remarked(h)
           s == luaC_separateudata(r, FALSE)
           k == propagateall(marktmu(s))
           T == Range(h.tmudata)
<1> HIDE DEF T
<1>1. /\ Ending(r) /\ SameObjects(h, r) /\ White(r) \subseteq White(h)
      /\ Trail(r, T) /\ r.gray = {} /\ h.cur \notin White(r)
  BY RemarkedEnding DEF T
<1>2. r.tmudata = h.tmudata
  BY <1>1 DEF SameObjects
<1> HIDE DEF r
<1>3. /\ Ending(s) /\ White(s) = White(r) /\ s.gray = {} /\ Live(s) = Live(r)
      /\ Trail(s, T) /\ T \subseteq Range(s.tmudata) /\ Range(s.tmudata) \subseteq Userdata
      /\ \A u \in Userdata \cap White(r) : s.heap[u].fin
  BY <1>1, <1>2, SeparatedEnding DEF T
<1>4. Trail(s, Range(s.tmudata))
  BY <1>3 DEF Trail
<1> HIDE DEF s
<1>5. /\ Ending(k) /\ Trail(k, {}) /\ k.gray = {} /\ SameObjects(s, k)
      /\ White(k) \subseteq White(s) /\ Range(s.tmudata) \cap White(k) = {}
  BY <1>3, <1>4, TmuEnding
<1>6. k.heap = s.heap /\ k.tmudata = s.tmudata
  BY <1>5 DEF SameObjects
<1> HIDE DEF k
<1>7. \A u \in Userdata \cap White(k) : k.heap[u].fin
  BY <1>3, <1>5, <1>6
<1>8. White(k) \subseteq White(h) /\ h.cur \notin White(k)
  BY <1>1, <1>3, <1>5
<1> USE DEF r, s, k
<1> QED
  BY <1>5, <1>6, <1>7, <1>8

LEMMA FlippedKeeps ==
  ASSUME NEW h, DOMAIN h = Fields, DOMAIN h.color = Live(h)
  PROVE  LET k == Flipped(cleartable(h))
             strings == Strings \cap White(h) \cap UNION {Seen(h, t) : t \in h.weak}
         IN /\ DOMAIN k = Fields /\ DOMAIN k.color = Live(h) /\ Live(k) = Live(h)
            /\ k.white = otherwhite(h) /\ k.sweepstrgc = 1 /\ k.unswept = h.rootgc \cup Range(h.udata)
            /\ k.gcstate = "sweepstring" /\ k.rootgc = h.rootgc /\ k.udata = h.udata
            /\ k.tmudata = h.tmudata /\ k.cur = h.cur /\ k.fins = h.fins /\ k.made = h.made
            /\ k.late = h.late /\ k.asserts = h.asserts /\ k.gray = {} /\ k.grayagain = {} /\ k.weak = {}
            /\ \A o \in Live(h) : k.color[o] = IF o \in strings THEN "gray" ELSE h.color[o]
            /\ \A o \in Live(h) \ h.weak : k.heap[o] = h.heap[o]
            /\ \A o \in Live(h) \cap h.weak :
                 k.heap[o] = Restrict(h.heap[o], DOMAIN h.heap[o] \ Cleared(h, o))
<1> DEFINE k == Flipped(cleartable(h))
           c == cleartable(h)
           strings == Strings \cap White(h) \cap UNION {Seen(h, t) : t \in h.weak}
<1> HIDE DEF strings
<1>1. /\ DOMAIN c = Fields
      /\ c.color = [o \in DOMAIN h.color |-> IF o \in strings THEN "gray" ELSE h.color[o]]
      /\ c.heap = [o \in Live(h) |->
                           IF o \in h.weak THEN Restrict(h.heap[o], DOMAIN h.heap[o] \ Cleared(h, o))
                           ELSE h.heap[o]]
  BY DEF cleartable, Fields, strings
<1>2. /\ c.white = h.white /\ c.rootgc = h.rootgc /\ c.udata = h.udata
      /\ c.tmudata = h.tmudata /\ c.cur = h.cur /\ c.fins = h.fins /\ c.made = h.made
      /\ c.late = h.late /\ c.asserts = h.asserts
  BY DEF cleartable, Fields
<1> HIDE DEF c
<1>3. /\ DOMAIN k = Fields /\ k.color = c.color /\ k.heap = c.heap
      /\ k.white = otherwhite(h) /\ k.sweepstrgc = 1 /\ k.unswept = h.rootgc \cup Range(h.udata)
      /\ k.gcstate = "sweepstring" /\ k.rootgc = h.rootgc /\ k.udata = h.udata
      /\ k.tmudata = h.tmudata /\ k.cur = h.cur /\ k.fins = h.fins /\ k.made = h.made
      /\ k.late = h.late /\ k.asserts = h.asserts /\ k.gray = {} /\ k.grayagain = {} /\ k.weak = {}
  BY <1>1, <1>2 DEF Flipped, Fields, otherwhite, c
<1> HIDE DEF k
<1>4. Live(k) = Live(h) /\ DOMAIN k.color = Live(h)
  BY <1>1, <1>3 DEF Live
<1>5. /\ \A o \in Live(h) : k.color[o] = IF o \in strings THEN "gray" ELSE h.color[o]
      /\ \A o \in Live(h) \ h.weak : k.heap[o] = h.heap[o]
      /\ \A o \in Live(h) \cap h.weak :
           k.heap[o] = Restrict(h.heap[o], DOMAIN h.heap[o] \ Cleared(h, o))
  BY <1>1, <1>3
<1> USE DEF k, strings
<1> QED
  BY <1>3, <1>4, <1>5

\* What cleartable leaves in a weak table.
LEMMA ClearedTable ==
  ASSUME NEW h, Typed(h), NEW t \in h.weak, h.weak \subseteq Live(h) \cap Tables,
         \A v \in Refs(h, t) : v \in Live(h), Settled(h, t),
         NEW k \in DOMAIN h.heap[t] \ Cleared(h, t)
  PROVE  /\ k # Field => k \notin White(h) \ (Strings \cap UNION {Seen(h, x) : x \in h.weak})
         /\ h.heap[t][k] \notin White(h) \ (Strings \cap UNION {Seen(h, x) : x \in h.weak})
<1> DEFINE v == h.heap[t][k]
           seen == UNION {Seen(h, x) : x \in h.weak}
<1>1. /\ DOMAIN h.heap[t] \subseteq Values \cup {Field} /\ v \in Values
      /\ Live(h) \subseteq Objects \cup {Main}
  BY DEF Typed, Payloads, Payload, Shape
<1>2. Seen(h, t) \subseteq seen
  <2> DEFINE all == {Seen(h, x) : x \in h.weak}
  <2>1. Seen(h, t) \in all
    OBVIOUS
  <2> HIDE DEF all
  <2>2. Seen(h, t) \subseteq UNION all
    BY <2>1
  <2> QED
    BY <2>2 DEF all
<1>3. Field \notin Live(h)
  BY <1>1, Kinds
<1>4. CASE k = Field
  <2>1. v \in White(h) => v \in Strings /\ v \in Seen(h, t)
    <3> SUFFICES ASSUME v \in White(h) PROVE v \in Strings /\ v \in Seen(h, t)
      OBVIOUS
    <3>1. CASE "v" \in Mode[t]
      <4>1. ~iscleared(h, v, FALSE)
        BY <1>4, <3>1 DEF Cleared
      <4>2. v \in Strings
        BY <4>1 DEF iscleared, White
      <4>3. ~iscleared(h, k, TRUE)
        BY <1>3, <1>4 DEF iscleared
      <4> QED
        BY <4>2, <4>3 DEF Seen
    <3>2. CASE "v" \notin Mode[t]
      <4>1. v \in MarkRefs(h, t)
        BY <3>2, MarkRefsOf DEF Range
      <4> QED
        BY <4>1 DEF Settled
    <3> QED
      BY <3>1, <3>2
  <2> QED
    BY <1>2, <1>4, <2>1
<1>5. CASE k # Field
  <2>1. ~iscleared(h, k, TRUE) /\ ~iscleared(h, v, FALSE)
    BY <1>5 DEF Cleared
  <2>2. k \in Seen(h, t) /\ v \in Seen(h, t)
    BY <2>1 DEF Seen
  <2>3. k \in White(h) => k \in Strings
    BY <2>1 DEF iscleared, White
  <2>4. v \in White(h) => v \in Strings
    BY <2>1 DEF iscleared, White
  <2> QED
    BY <1>2, <2>2, <2>3, <2>4
<1> QED
  BY <1>4, <1>5

(* After the weak tables are cleared nothing leads from what is kept to    *)
(* what is dead.                                                           *)
LEMMA ClearedSound ==
  ASSUME NEW h, Ending(h), Trail(h, {}), h.gray = {}, h.cur \notin White(h),
         Range(h.tmudata) \cap White(h) = {}, \A u \in Userdata \cap White(h) : h.heap[u].fin
  PROVE  LET k == Flipped(cleartable(h))
         IN /\ Typed(k) /\ NoDangling(k) /\ Lists(k) /\ Awaiting(k) /\ Marks(k) /\ Sweeping(k)
            /\ k.asserts \subseteq {"awaiting"} /\ k.gcstate = "sweepstring" /\ k.sweepstrgc = 1 /\ Chains(k)
            /\ Live(k) = Live(h) /\ Open(k) = Open(h)
            /\ \A o \in Live(h) : isdead(k, o) => o \in White(h)
            /\ \A o \in White(h) \ Strings : isdead(k, o)
            /\ \A t \in Tables \cap Live(h) :
                 /\ ~isdead(k, t) /\ t \in Weak => t \in h.weak
                 /\ t \in h.weak => k.heap[t] = Restrict(h.heap[t], DOMAIN h.heap[t] \ Cleared(h, t))
                 /\ t \notin h.weak => k.heap[t] = h.heap[t]
            /\ \A d \in Userdata \cap Live(h) : k.heap[d] = h.heap[d]
            /\ k.unswept = h.rootgc \cup Range(h.udata)
<1> DEFINE k == Flipped(cleartable(h))
           seen == UNION {Seen(h, t) : t \in h.weak}
           strings == Strings \cap White(h) \cap seen
<1>1. /\ Typed(h) /\ Marks(h) /\ Lists(h) /\ Marking(h, Live(h)) /\ Rooted(h) /\ h.asserts \subseteq {"awaiting"}
      /\ DOMAIN h = Fields /\ DOMAIN h.color = Live(h) /\ h.white \in {"white0", "white1"}
  BY DEF Ending, Typed, Shape
<1>2. /\ DOMAIN k = Fields /\ DOMAIN k.color = Live(h) /\ Live(k) = Live(h)
      /\ k.white = otherwhite(h) /\ k.sweepstrgc = 1 /\ k.unswept = h.rootgc \cup Range(h.udata)
      /\ k.gcstate = "sweepstring" /\ k.rootgc = h.rootgc /\ k.udata = h.udata
      /\ k.tmudata = h.tmudata /\ k.cur = h.cur /\ k.asserts = h.asserts
      /\ k.gray = {} /\ k.grayagain = {} /\ k.weak = {}
      /\ \A o \in Live(h) : k.color[o] = IF o \in strings THEN "gray" ELSE h.color[o]
      /\ \A o \in Live(h) \ h.weak : k.heap[o] = h.heap[o]
      /\ \A o \in Live(h) \cap h.weak :
           k.heap[o] = Restrict(h.heap[o], DOMAIN h.heap[o] \ Cleared(h, o))
  BY <1>1, FlippedKeeps
<1> HIDE DEF k, strings, seen
<1>3. strings \subseteq Strings /\ strings \subseteq White(h)
  BY DEF strings
<1>4. h.weak \subseteq Weak /\ Weak \subseteq Tables /\ h.weak \subseteq Live(h)
  BY <1>1, Kinds DEF Marking
<1>5. \A o \in Live(h) \ Tables : k.heap[o] = h.heap[o]
  BY <1>2, <1>4
<1>6. Open(k) = Open(h) /\ Stack(k) = Stack(h)
  <2>1. \A u \in Upvalues \cap Live(h) : k.heap[u] = h.heap[u]
    BY <1>5, Kinds
  <2>2. Main \in Live(h) \ Tables
    BY <1>1, Kinds DEF Typed, Shape
  <2>3. Stack(k) = Stack(h)
    BY <1>5, <2>2 DEF Stack
  <2> QED
    BY <1>2, <2>1, <2>3 DEF Open
<1>7. ASSUME NEW t \in h.weak
      PROVE  /\ DOMAIN k.heap[t] = DOMAIN h.heap[t] \ Cleared(h, t)
             /\ \A x \in DOMAIN k.heap[t] : k.heap[t][x] = h.heap[t][x]
  <2>1. k.heap[t] = Restrict(h.heap[t], DOMAIN h.heap[t] \ Cleared(h, t))
    BY <1>2, <1>4, <1>7
  <2> QED
    BY <2>1 DEF Restrict
<1>8. Typed(k)
  <2>1. Shape(k)
    <3>1. \A o \in Live(h) : k.color[o] \in {"white0", "white1", "gray", "black"}
      BY <1>1, <1>2 DEF Typed, Shape
    <3>2. k.white \in {"white0", "white1"}
      BY <1>2 DEF otherwhite
    <3> QED
      BY <1>1, <1>2, <3>1, <3>2 DEF Typed, Shape
  <2>2. ASSUME NEW o \in Live(h) PROVE Payload(k, o)
    <3>1. Payload(h, o)
      BY <1>1 DEF Typed, Payloads
    <3>2. CASE o \in h.weak
      BY <1>4, <1>7, <3>1, <3>2, Kinds DEF Payload
    <3>3. CASE o \notin h.weak
      BY <1>2, <1>6, <3>1, <3>3 DEF Payload
    <3> QED
      BY <3>2, <3>3
  <2> QED
    BY <1>2, <2>1, <2>2 DEF Typed, Payloads
<1>9. \A o \in Live(h) : isdead(k, o) <=> o \in White(h) \ strings
  <2>1. otherwhite(k) = h.white
    BY <1>1, <1>2 DEF otherwhite
  <2>2. \A o \in Live(h) : iswhite(h, o) <=> h.color[o] = h.white
    BY <1>1 DEF Marking, isdead, iswhite, otherwhite
  <2> QED
    BY <1>1, <1>2, <1>3, <2>1, <2>2 DEF White, isdead
<1>10. ASSUME NEW t \in Weak \cap Live(h), t \notin White(h) PROVE t \in h.weak
  <2>1. isgray(h, t)
    BY <1>1, <1>10 DEF Marks, Typed, Shape, White, iswhite, isgray, isblack
  <2>2. t \in Strings \cup Open(h) \cup h.gray \cup h.grayagain \cup h.weak
    BY <1>1, <2>1 DEF Marking
  <2>3. t \notin Strings \cup Open(h) /\ t \notin h.grayagain
    BY <1>1, <1>4, Kinds DEF Marking, Open
  <2> QED
    BY <2>2, <2>3
<1>11. ASSUME NEW o \in Live(h), ~isdead(k, o) PROVE Sound(k, o)
  <2> SUFFICES ASSUME NEW v \in Refs(k, o) PROVE v \in Live(h) /\ (v \in strings \/ v \notin White(h))
    BY <1>2, <1>9 DEF Sound, Good
  <2>1. o \in strings \/ o \notin White(h)
    BY <1>9, <1>11
  <2>2. Refs(h, o) \subseteq Live(h)
    BY DEF Ending
  <2>3. CASE o \in Weak
    <3>1. o \in h.weak /\ o \in Tables /\ Settled(h, o)
      <4>1. o \notin White(h)
        BY <1>3, <1>4, <2>1, <2>3, Kinds
      <4> QED
        BY <1>4, <1>10, <2>3, <4>1 DEF Trail, White
    <3>2. /\ Refs(k, o) = (DOMAIN k.heap[o] \ {Field}) \cup Range(k.heap[o])
          /\ Refs(h, o) = (DOMAIN h.heap[o] \ {Field}) \cup Range(h.heap[o])
      BY <3>1 DEF Refs
    <3>3. \A x \in DOMAIN k.heap[o] :
            /\ x # Field => x \notin White(h) \ (Strings \cap seen)
            /\ h.heap[o][x] \notin White(h) \ (Strings \cap seen)
      <4>1. h.weak \subseteq Live(h) \cap Tables
        BY <1>4
      <4>2. \A y \in Refs(h, o) : y \in Live(h)
        BY <2>2
      <4>3. \A x \in DOMAIN h.heap[o] \ Cleared(h, o) :
              /\ x # Field => x \notin White(h) \ (Strings \cap UNION {Seen(h, y) : y \in h.weak})
              /\ h.heap[o][x] \notin White(h) \ (Strings \cap UNION {Seen(h, y) : y \in h.weak})
        BY <1>1, <3>1, <4>1, <4>2, ClearedTable
      <4> QED
        BY <1>7, <3>1, <4>3 DEF seen
    <3>4. CASE v \in DOMAIN k.heap[o] \ {Field}
      <4>1. v \in Refs(h, o)
        BY <1>7, <3>1, <3>2, <3>4
      <4> QED
        BY <2>2, <3>3, <3>4, <4>1 DEF strings
    <3>5. CASE v \in Range(k.heap[o])
      <4>1. PICK x \in DOMAIN k.heap[o] : v = k.heap[o][x]
        BY <3>5 DEF Range
      <4>2. v = h.heap[o][x] /\ x \in DOMAIN h.heap[o]
        BY <1>7, <3>1, <4>1
      <4>3. v \in Refs(h, o)
        BY <3>2, <4>2 DEF Range
      <4> QED
        BY <2>2, <3>3, <4>1, <4>2, <4>3 DEF strings
    <3> QED
      BY <3>2, <3>4, <3>5
  <2>4. CASE o \notin Weak
    <3>1. Refs(k, o) = MarkRefs(k, o) /\ Refs(h, o) = MarkRefs(h, o)
      BY <2>4, MarkRefsAreRefs
    <3>2. MarkRefs(k, o) = MarkRefs(h, o)
      <4>1. k.heap[o] = h.heap[o]
        BY <1>2, <1>4, <2>4
      <4>2. CASE o \in Upvalues
        <5>1. Payload(h, o)
          BY <1>1 DEF Typed, Payloads
        <5>2. h.heap[o].open => k.heap[h.heap[o].th] = h.heap[h.heap[o].th]
          BY <1>5, <4>2, <5>1, Kinds DEF Payload
        <5>3. UpvalValue(k, o) = UpvalValue(h, o)
          BY <4>1, <5>2 DEF UpvalValue
        <5> QED
          BY <4>2, <5>3, Kinds DEF MarkRefs
      <4>3. CASE o \notin Upvalues
        BY <4>1, <4>3 DEF MarkRefs
      <4> QED
        BY <4>2, <4>3
    <3>3. CASE o \in strings
      BY <1>3, <3>1, <3>2, <3>3, MarkRefsOf
    <3>4. CASE o \notin White(h)
      <4>1. Settled(h, o)
        BY <3>4 DEF Trail, White
      <4> QED
        BY <2>2, <3>1, <3>2, <4>1 DEF Settled
    <3> QED
      BY <2>1, <3>3, <3>4
  <2> QED
    BY <2>3, <2>4
<1>12. NoDangling(k)
  <2>1. {Main, Globals, h.cur} \subseteq Live(h) /\ {Main, Globals, h.cur} \cap White(h) = {}
    BY <1>1 DEF Typed, Shape, Rooted, White
  <2> QED
    BY <1>2, <1>9, <1>11, <2>1 DEF NoDangling, Good
<1>13. Lists(k)
  BY <1>1, <1>2, <1>6 DEF Lists
<1>14. \A d \in Userdata \cap Live(h) : k.heap[d] = h.heap[d]
  BY <1>5, Kinds
<1>15. Range(h.tmudata) \subseteq Userdata \cap Live(h)
  BY <1>1 DEF Lists
<1>16. Awaiting(k)
  <2>1. \A u \in Range(k.tmudata) : Good(k, u) /\ k.heap[u].fin /\ u \in HasGC
    BY <1>2, <1>9, <1>14, <1>15 DEF Ending, Good
  <2>2. \A u \in Userdata \cap Live(k) : isdead(k, u) => k.heap[u].fin
    BY <1>2, <1>9, <1>14
  <2> QED
    BY <2>1, <2>2 DEF Awaiting
<1>17. Marks(k)
  BY <1>1, <1>2, <1>3, <1>6, Kinds DEF Marks, isblack, isgray
<1>18. Sweeping(k)
  <2> SUFFICES ASSUME NEW o \in Live(h), o \notin k.unswept \cup Range(k.tmudata), o \notin Strings
               PROVE  o \in Open(k) /\ k.heap[o].th \in k.unswept
    <3>1. \A s \in Strings : Bucket[s] >= 1
      BY HeapConstants
    <3> QED
      BY <1>2, <3>1 DEF Sweeping
  <2>1. /\ h.rootgc = Live(h) \cap (Listed \cup (Upvalues \ Open(h)))
        /\ Range(h.udata) \cup Range(h.tmudata) = Live(h) \cap Userdata
    BY <1>1 DEF Lists
  <2>2. o \in Listed \cup Upvalues \cup Strings \cup Userdata
    BY <1>1, Kinds DEF Typed, Shape
  <2>3. o \in Open(h) /\ o \in Upvalues
    BY <1>2, <2>1, <2>2 DEF Open
  <2>4. Payload(h, o) /\ h.heap[o].open /\ k.heap[o] = h.heap[o]
    BY <1>1, <1>5, <2>3, Kinds DEF Typed, Payloads, Open
  <2>5. h.heap[o].th \in Live(h) \cap Listed
    BY <2>3, <2>4 DEF Payload, Listed
  <2> QED
    BY <1>2, <1>6, <2>1, <2>3, <2>4, <2>5
<1>19. \A t \in Tables \cap Live(h) :
                 /\ ~isdead(k, t) /\ t \in Weak => t \in h.weak
                 /\ t \in h.weak => k.heap[t] = Restrict(h.heap[t], DOMAIN h.heap[t] \ Cleared(h, t))
                 /\ t \notin h.weak => k.heap[t] = h.heap[t]
  BY <1>2, <1>3, <1>9, <1>10, Kinds
<1>20. \A o \in Live(h) : (isdead(k, o) => o \in White(h)) /\ (o \in White(h) \ Strings => isdead(k, o))
  BY <1>3, <1>9
<1>21. White(h) \subseteq Live(h)
  BY DEF White
<1>22. Chains(k)
  BY <1>2 DEF Chains
<1> USE DEF k
<1> QED
  BY <1>1, <1>2, <1>6, <1>8, <1>12, <1>13, <1>14, <1>16, <1>17, <1>18, <1>19, <1>20, <1>21, <1>22

\* The atomic step ends the marking: what it has not reached is dead, and nothing else.
LEMMA Atomic ==
  ASSUME NEW h, Ending(h), Marking(h, Range(h.tmudata))
  PROVE  LET k == atomic(h)
         IN /\ Typed(k) /\ NoDangling(k) /\ Lists(k) /\ Awaiting(k) /\ Marks(k) /\ Sweeping(k)
            /\ k.asserts \subseteq {"awaiting"} /\ k.gcstate = "sweepstring" /\ k.sweepstrgc = 1 /\ Chains(k)
<1> DEFINE m == propagateall(marktmu(luaC_separateudata(Remarked(h), FALSE)))
<1>1. atomic(h) = Flipped(cleartable(m))
  BY DEF atomic, Remarked, Again
<1>2. /\ Ending(m) /\ Trail(m, {}) /\ m.gray = {} /\ h.cur \notin White(m)
      /\ Range(m.tmudata) \cap White(m) = {} /\ \A u \in Userdata \cap White(m) : m.heap[u].fin
  BY Marked
<1>3. m.cur = h.cur
  <2> DEFINE s == luaC_separateudata(Remarked(h), FALSE)
  <2>1. SameObjects(s, m)
    BY Marked
  <2>2. SameObjects(h, Remarked(h))
    BY RemarkedEnding
  <2>3. s.cur = Remarked(h).cur
    BY <2>2, SeparatedKeeps DEF SameObjects, luaC_separateudata
  <2> QED
    BY <2>1, <2>2, <2>3 DEF SameObjects
<1> HIDE DEF m
<1> QED
  BY <1>1, <1>2, <1>3, ClearedSound

\* Of marks and lists all that matters are the objects and their colours.
LEMMA SameHeap ==
  ASSUME NEW h, Typed(h), NEW k, DOMAIN k = Fields, k.heap = h.heap, k.color = h.color, k.white = h.white,
         k.cur \in Threads \cap Live(h),
         k.gcstate \in {"pause", "propagate", "sweepstring", "sweep", "finalize", "closing"}
  PROVE  /\ Typed(k) /\ Live(k) = Live(h) /\ Open(k) = Open(h) /\ White(k) = White(h)
         /\ \A o : Refs(k, o) = Refs(h, o) /\ MarkRefs(k, o) = MarkRefs(h, o)
         /\ \A o : (Good(k, o) <=> Good(h, o)) /\ (isdead(k, o) <=> isdead(h, o))
         /\ Marks(h) => Marks(k)
         /\ NoDangling(h) /\ Good(h, k.cur) => NoDangling(k)
         /\ \A loose : Marking(h, loose) /\ k.gray = h.gray /\ k.grayagain = h.grayagain /\ k.weak = h.weak
              => Marking(k, loose)
<1>1. /\ Live(k) = Live(h) /\ Open(k) = Open(h) /\ Stack(k) = Stack(h)
      /\ \A o : MarkRefs(k, o) = MarkRefs(h, o) /\ Refs(k, o) = Refs(h, o)
      /\ \A o : Payload(k, o) = Payload(h, o)
  BY SameRefs
<1>2. /\ \A o : (iswhite(k, o) <=> iswhite(h, o)) /\ (isblack(k, o) <=> isblack(h, o))
      /\ \A o : (isgray(k, o) <=> isgray(h, o)) /\ (isdead(k, o) <=> isdead(h, o))
  BY DEF iswhite, isblack, isgray, isdead, otherwhite
<1>3. White(k) = White(h)
  BY <1>1, <1>2 DEF White
<1>4. Typed(k)
  BY <1>1 DEF Typed, Shape, Payloads
<1>5. \A o : Good(k, o) <=> Good(h, o)
  BY <1>1, <1>2 DEF Good
<1>6. Marks(h) => Marks(k)
  BY <1>1, <1>2 DEF Marks
<1>7. NoDangling(h) /\ Good(h, k.cur) => NoDangling(k)
  BY <1>1, <1>2, <1>5 DEF NoDangling, Sound
<1>8. ASSUME NEW loose, Marking(h, loose), k.gray = h.gray, k.grayagain = h.grayagain, k.weak = h.weak
      PROVE  Marking(k, loose)
  BY <1>1, <1>2, <1>3, <1>8 DEF Marking, Settled
<1> QED
  BY <1>1, <1>2, <1>3, <1>4, <1>5, <1>6, <1>7, <1>8

\* The marking is as the proofs about its end want it.
LEMMA PropagateEnding ==
  ASSUME NEW h, NEW loose, HeapBut(h, loose), h.gcstate = "propagate"
  PROVE  Ending(h) /\ Marking(h, loose) /\ h.tmudata = <<>>
<1>1. /\ Typed(h) /\ NoDangling(h) /\ Lists(h) /\ Marks(h) /\ h.asserts \subseteq {"awaiting"}
      /\ Marking(h, loose) /\ Rooted(h) /\ h.tmudata = <<>>
  BY DEF HeapBut, Phase
<1>2. Marking(h, Live(h))
  BY <1>1 DEF Marking
<1>3. \A o \in Live(h) : Refs(h, o) \subseteq Live(h)
  BY <1>1 DEF NoDangling, Marking, Sound, Good
<1>4. Range(h.tmudata) = {}
  BY <1>1 DEF Range
<1> QED
  BY <1>1, <1>2, <1>3, <1>4 DEF Ending

LEMMA EndingInv ==
  ASSUME NEW h, Ending(h), Marking(h, {}), h.tmudata = <<>>, h.gcstate = "propagate", h.sweepstrgc \in Nat
  PROVE  HeapInv(h)
<1>1. /\ Typed(h) /\ Lists(h) /\ Marks(h) /\ h.asserts \subseteq {"awaiting"} /\ Rooted(h)
      /\ \A o \in Live(h) : ~isdead(h, o) /\ Refs(h, o) \subseteq Live(h)
  BY DEF Ending, Marking
<1>2. NoDangling(h)
  BY <1>1 DEF NoDangling, Sound, Good, Typed, Shape
<1>3. Awaiting(h)
  BY <1>1 DEF Awaiting, Range
<1>4. Chains(h)
  BY DEF Chains, Marking
<1>5. Phase(h, {})
  BY <1>1 DEF Phase
<1> QED
  BY <1>1, <1>2, <1>3, <1>4, <1>5 DEF HeapInv, HeapBut

LEMMA PropagateStep ==
  ASSUME NEW h, HeapInv(h), h.gcstate = "propagate", NEW o \in h.gray
  PROVE  HeapInv(propagatemark(h, o))
<1> DEFINE k == propagatemark(h, o)
<1>1. Ending(h) /\ Marking(h, {}) /\ h.tmudata = <<>>
  BY PropagateEnding DEF HeapInv
<1>2. Typed(h) /\ Marks(h) /\ Marking(h, Live(h)) /\ h.asserts \subseteq {"awaiting"}
  BY <1>1 DEF Ending
<1>3. Typed(k) /\ Marks(k) /\ SameObjects(h, k) /\ White(k) \subseteq White(h) /\ k.asserts \subseteq {"awaiting"}
  BY <1>2, PropagateMark
<1>4. Marking(k, {}) /\ Marking(k, Live(h))
  BY <1>1, <1>2, PropagateMark
<1>5. Ending(k)
  BY <1>1, <1>3, <1>4, EndingSame
<1>6. h.sweepstrgc \in Nat
  BY DEF HeapInv, HeapBut, Phase
<1> QED
  BY <1>1, <1>3, <1>4, <1>5, <1>6, EndingInv DEF SameObjects

LEMMA AtomicStep ==
  ASSUME NEW h, Ending(h), Marking(h, Range(h.tmudata))
  PROVE  HeapInv(atomic(h)) /\ atomic(h).gcstate = "sweepstring"
<1> DEFINE k == atomic(h)
<1>1. /\ Typed(k) /\ NoDangling(k) /\ Lists(k) /\ Awaiting(k) /\ Marks(k) /\ Sweeping(k)
      /\ k.asserts \subseteq {"awaiting"} /\ k.gcstate = "sweepstring" /\ k.sweepstrgc = 1 /\ Chains(k)
  BY Atomic
<1> HIDE DEF k
<1>2. Phase(k, {})
  BY <1>1 DEF Phase
<1> QED
  BY <1>1, <1>2 DEF HeapInv, HeapBut, k

\* Where everything is white but what awaits its finalizer, a marking begins.
LEMMA MarkrootStep ==
  ASSUME NEW h, HeapInv(h), h.gcstate \in {"pause", "finalize"}
  PROVE  LET k == markroot(h)
         IN /\ Ending(k) /\ Marking(k, Range(k.tmudata)) /\ k.gcstate = "propagate"
            /\ k.tmudata = h.tmudata /\ k.sweepstrgc = h.sweepstrgc /\ k.cur = h.cur
            /\ LET b == [h EXCEPT !.gray = {}, !.grayagain = {}, !.weak = {}]
               IN /\ Typed(b) /\ Marks(b) /\ Marking(b, Live(b)) /\ b.heap = h.heap /\ White(b) = White(h)
                  /\ k.heap = b.heap /\ White(k) = White(Mark(b, {Main, Globals}))
<1> DEFINE T == Range(h.tmudata)
           b == [h EXCEPT !.gray = {}, !.grayagain = {}, !.weak = {}]
           roots == {Main, Globals}
           m == Mark(b, roots)
           k == [m EXCEPT !.gcstate = "propagate"]
<1>1. k = markroot(h)
  BY DEF markroot
<1>2. /\ Typed(h) /\ NoDangling(h) /\ Lists(h) /\ Awaiting(h) /\ Marks(h) /\ h.asserts \subseteq {"awaiting"}
      /\ DOMAIN h = Fields /\ h.white \in {"white0", "white1"}
      /\ \A o \in Live(h) : h.color[o] = h.white \/ o \in T
  BY DEF HeapInv, HeapBut, Phase, Typed, Shape
<1>3. /\ SameObjects(h, b) /\ b.color = h.color /\ b.gray = {} /\ b.grayagain = {} /\ b.weak = {}
      /\ b.asserts \subseteq {"awaiting"}
  BY <1>2 DEF SameObjects, Fields
<1> HIDE DEF b
<1>4. Typed(b) /\ Lists(b)
  BY <1>2, <1>3, SameTyped DEF Typed, Shape
<1>5. /\ Live(b) = Live(h) /\ Open(b) = Open(h) /\ Marks(b)
      /\ \A o : Refs(b, o) = Refs(h, o)
      /\ \A o : isdead(b, o) <=> isdead(h, o)
  <2>1. /\ DOMAIN b = Fields /\ b.heap = h.heap /\ b.color = h.color /\ b.white = h.white
        /\ b.cur \in Threads \cap Live(h)
        /\ b.gcstate \in {"pause", "propagate", "sweepstring", "sweep", "finalize", "closing"}
    BY <1>2, <1>3 DEF SameObjects, Typed, Shape
  <2> QED
    BY <1>2, <2>1, SameHeap
<1>6. \A o \in Live(h) : ~isdead(b, o)
  <2>1. \A o \in T : ~isdead(h, o)
    BY <1>2 DEF Awaiting, Good
  <2> QED
    BY <1>2, <1>5, <2>1 DEF isdead, otherwhite
<1>7. T \subseteq Userdata
  BY <1>2 DEF Lists
<1>8. Marking(b, T)
  <2>1. \A o \in Live(b) \ T : ~isblack(b, o)
    BY <1>2, <1>3, <1>5 DEF isblack
  <2>2. \A o \in Live(b) : ~isgray(b, o)
    <3>1. \A o \in Live(b) \ T : ~isgray(b, o)
      BY <1>2, <1>3, <1>5 DEF isgray
    <3> QED
      BY <1>5, <1>7, <3>1 DEF Marks
  <2> QED
    BY <1>3, <1>5, <1>6, <2>1, <2>2 DEF Marking
<1>9. Typed(m) /\ Marks(m) /\ SameObjects(b, m)
  BY <1>4, <1>5, MarkTyped
<1>10. Marking(m, T) /\ m.asserts \subseteq {"awaiting"}
  <2>1. T \ T = {}
    OBVIOUS
  <2> QED
    BY <1>3, <1>4, <1>5, <1>8, <2>1, MarkMarks
<1>11. roots \cap White(m) = {}
  BY <1>4, MarkWhite
<1> HIDE DEF m
<1>12. /\ SameObjects(b, m) /\ DOMAIN m = Fields /\ Lists(m)
       /\ Live(m) = Live(h) /\ \A o : Refs(m, o) = Refs(h, o)
  BY <1>4, <1>5, <1>9, SameRefs DEF SameObjects, Lists
<1>13. /\ DOMAIN k = Fields /\ k.heap = m.heap /\ k.color = m.color /\ k.white = m.white /\ k.cur = m.cur
       /\ k.gcstate = "propagate" /\ k.gray = m.gray /\ k.grayagain = m.grayagain /\ k.weak = m.weak
       /\ k.asserts \subseteq {"awaiting"} /\ k.rootgc = m.rootgc /\ k.udata = m.udata /\ k.tmudata = m.tmudata
       /\ k.sweepstrgc = m.sweepstrgc
  BY <1>10, <1>12 DEF Fields
<1> HIDE DEF k
<1>14. /\ Typed(k) /\ Marks(k) /\ Live(k) = Live(h) /\ Open(k) = Open(m) /\ White(k) = White(m)
       /\ Marking(k, T) /\ \A o : Refs(k, o) = Refs(h, o)
  <2>1. m.cur \in Threads \cap Live(m)
    BY <1>9 DEF Typed, Shape
  <2> QED
    BY <1>9, <1>10, <1>12, <1>13, <2>1, SameHeap
<1>15. Lists(k)
  BY <1>12, <1>13, <1>14 DEF Lists
<1>16. Rooted(k)
  BY <1>11, <1>14 DEF Rooted, White, Typed, Shape
<1>17. k.tmudata = h.tmudata /\ k.sweepstrgc = h.sweepstrgc /\ k.heap = h.heap
  BY <1>3, <1>9, <1>13 DEF SameObjects
<1>18. Marking(k, Live(k))
  BY <1>14 DEF Marking
<1>19. \A o \in Live(k) : Refs(k, o) \subseteq Live(k)
  <2>1. \A o \in Live(h) : ~isdead(h, o)
    BY <1>5, <1>6
  <2> QED
    BY <1>2, <1>14, <2>1 DEF NoDangling, Sound, Good
<1>20. \A u \in Range(k.tmudata) : k.heap[u].fin /\ u \in HasGC
  BY <1>2, <1>17 DEF Awaiting
<1>21. Ending(k)
  BY <1>13, <1>14, <1>15, <1>16, <1>18, <1>19, <1>20 DEF Ending
<1>22. Marking(b, Live(b)) /\ White(b) = White(h)
  BY <1>3, <1>5, <1>8 DEF Marking, White, iswhite, SameObjects
<1>23. k.cur = h.cur /\ k.heap = b.heap /\ b.heap = h.heap
  BY <1>3, <1>9, <1>13 DEF SameObjects
<1> USE DEF k, m, b
<1> QED
  BY <1>1, <1>4, <1>5, <1>13, <1>14, <1>17, <1>21, <1>22, <1>23

-----------------------------------------------------------------------------
(* Sweeping                                                                *)

\* What is so of the heap in every state that is not in the middle of a step.
Healthy(h) == Typed(h) /\ NoDangling(h) /\ Lists(h) /\ Awaiting(h) /\ Marks(h)

\* k has some of h's objects, of whose open upvalues some are closed.
Shrunk(h, k, closed) ==
  /\ Live(k) \subseteq Live(h) /\ closed \subseteq Open(h)
  /\ \A o \in Live(k) \ closed : k.heap[o] = h.heap[o]
  /\ \A u \in closed \cap Live(k) :
       /\ DOMAIN k.heap[u] = {"open", "th", "slot", "v"}
       /\ k.heap[u].open = FALSE /\ k.heap[u].th = h.heap[u].th /\ k.heap[u].slot = h.heap[u].slot
       /\ k.heap[u].v = UpvalValue(h, u)
  /\ \A u \in (Open(h) \cap Live(k)) \ closed : h.heap[u].th \in Live(k)
  /\ DOMAIN k = Fields /\ DOMAIN k.color = Live(k) /\ k.white = h.white /\ k.cur = h.cur
  /\ k.gcstate = h.gcstate /\ k.tmudata = h.tmudata
  /\ \A o \in Live(h) \ Live(k) : isdead(h, o)
  /\ \A o \in Live(k) : k.color[o] = h.color[o] \/ (~isdead(h, o) /\ k.color[o] = h.white)

LEMMA ShrunkRefs ==
  ASSUME NEW h, Typed(h), NEW k, NEW closed, Shrunk(h, k, closed), Main \in Live(k)
  PROVE  /\ Open(k) = (Open(h) \cap Live(k)) \ closed /\ Stack(k) = Stack(h)
         /\ \A o \in Live(k) : Payload(k, o) /\ MarkRefs(k, o) = MarkRefs(h, o) /\ Refs(k, o) = Refs(h, o)
<1>1. closed \subseteq Upvalues /\ Live(k) \subseteq Live(h) /\ closed \subseteq Live(h)
  BY DEF Shrunk, Open
<1>2. Stack(k) = Stack(h)
  BY <1>1, Kinds DEF Stack, Shrunk
<1>3. Open(k) = (Open(h) \cap Live(k)) \ closed
  BY <1>1 DEF Open, Shrunk
<1>4. ASSUME NEW o \in Live(k) PROVE Payload(k, o) /\ MarkRefs(k, o) = MarkRefs(h, o)
  <2>1. Payload(h, o) /\ o \in Live(h)
    BY <1>1 DEF Typed, Payloads
  <2>2. CASE o \in closed
    <3>1. o \in Upvalues /\ UpvalValue(h, o) \in Values \cup {Nil}
      BY <1>1, <2>1, <2>2, UpvalTyped
    <3>2. k.heap[o].open = FALSE /\ k.heap[o].v = UpvalValue(h, o)
      BY <2>2 DEF Shrunk
    <3>3. Payload(k, o)
      BY <1>2, <2>1, <2>2, <3>1, <3>2, Kinds DEF Payload, Shrunk
    <3>4. UpvalValue(k, o) = UpvalValue(h, o)
      BY <3>2 DEF UpvalValue
    <3>5. MarkRefs(k, o) = {UpvalValue(k, o)} \ {Nil} /\ MarkRefs(h, o) = {UpvalValue(h, o)} \ {Nil}
      BY <3>1, MarkRefsOf
    <3> QED
      BY <3>3, <3>4, <3>5
  <2>3. CASE o \notin closed
    <3>1. k.heap[o] = h.heap[o]
      BY <2>3 DEF Shrunk
    <3>2. ASSUME o \in Upvalues, h.heap[o].open
          PROVE  h.heap[o].th \in Live(k) /\ k.heap[h.heap[o].th] = h.heap[h.heap[o].th]
      <4>1. h.heap[o].th \in Live(k) /\ h.heap[o].th \in Threads
        BY <2>1, <2>3, <3>2 DEF Shrunk, Open, Payload
      <4> QED
        BY <1>1, <4>1, Kinds DEF Shrunk
    <3>3. Payload(k, o)
      BY <1>2, <2>1, <3>1, <3>2 DEF Payload
    <3>4. CASE o \in Upvalues
      <4>1. UpvalValue(k, o) = UpvalValue(h, o)
        BY <3>1, <3>2, <3>4 DEF UpvalValue
      <4>2. MarkRefs(k, o) = {UpvalValue(k, o)} \ {Nil} /\ MarkRefs(h, o) = {UpvalValue(h, o)} \ {Nil}
        BY <3>4, MarkRefsOf
      <4> QED
        BY <3>3, <4>1, <4>2
    <3>5. CASE o \notin Upvalues
      <4>1. MarkRefs(k, o) = MarkRefs(h, o)
        BY <3>1, <3>5 DEF MarkRefs
      <4> QED
        BY <3>3, <4>1
    <3> QED
      BY <3>4, <3>5
  <2> QED
    BY <2>2, <2>3
<1>5. ASSUME NEW o \in Live(k) PROVE Refs(k, o) = Refs(h, o)
  <2>1. o \in Tables => k.heap[o] = h.heap[o]
    BY <1>1, Kinds DEF Shrunk
  <2> QED
    BY <1>4, <2>1 DEF Refs
<1> QED
  BY <1>2, <1>3, <1>4, <1>5

LEMMA ShrunkHealthy ==
  ASSUME NEW h, Healthy(h), NEW k, NEW closed, Shrunk(h, k, closed)
  PROVE  /\ Typed(k) /\ NoDangling(k) /\ Awaiting(k) /\ Marks(k)
         /\ \A o \in Live(k) : isdead(k, o) <=> isdead(h, o)
         /\ Open(k) = (Open(h) \cap Live(k)) \ closed /\ Main \in Live(k)
         /\ \A o \in Live(k) : MarkRefs(k, o) = MarkRefs(h, o)
<1>1. Typed(h) /\ NoDangling(h) /\ Lists(h) /\ Awaiting(h) /\ Marks(h)
  BY DEF Healthy
<1>2. {Main, Globals, h.cur} \subseteq Live(k)
  BY <1>1 DEF Shrunk, NoDangling, Good
<1>3. /\ Open(k) = (Open(h) \cap Live(k)) \ closed
      /\ \A o \in Live(k) : Payload(k, o) /\ MarkRefs(k, o) = MarkRefs(h, o) /\ Refs(k, o) = Refs(h, o)
  BY <1>1, <1>2, ShrunkRefs
<1>4. Live(k) \subseteq Live(h) /\ h.white \in {"white0", "white1"} /\ k.white = h.white /\ k.cur = h.cur
  BY <1>1 DEF Shrunk, Typed, Shape
<1>5. Typed(k)
  <2>1. \A o \in Live(k) : k.color[o] \in {"white0", "white1", "gray", "black"}
    BY <1>1, <1>4 DEF Shrunk, Typed, Shape
  <2> QED
    BY <1>1, <1>2, <1>3, <1>4, <2>1 DEF Typed, Payloads, Shape, Shrunk
<1>6. \A o \in Live(k) : isdead(k, o) <=> isdead(h, o)
  <2> SUFFICES ASSUME NEW o \in Live(k) PROVE isdead(k, o) <=> isdead(h, o)
    OBVIOUS
  <2>1. k.color[o] = h.color[o] \/ (~isdead(h, o) /\ k.color[o] = h.white)
    BY DEF Shrunk
  <2>2. otherwhite(k) = otherwhite(h) /\ otherwhite(h) # h.white
    BY <1>4 DEF otherwhite
  <2> QED
    BY <2>1, <2>2 DEF isdead
<1>7. \A o : Good(h, o) => Good(k, o)
  BY <1>4, <1>6 DEF Good, Shrunk
<1>8. NoDangling(k)
  BY <1>1, <1>3, <1>4, <1>6, <1>7 DEF NoDangling, Sound
<1>9. \A u \in Userdata \cap Live(k) : k.heap[u] = h.heap[u]
  BY Kinds DEF Shrunk, Open
<1>10. Awaiting(k)
  <2>1. k.tmudata = h.tmudata
    BY DEF Shrunk
  <2>2. Range(h.tmudata) \subseteq Userdata
    BY <1>1 DEF Lists
  <2> QED
    BY <1>1, <1>4, <1>6, <1>7, <1>9, <2>1, <2>2 DEF Awaiting, Good
<1>11. Marks(k)
  <2> SUFFICES ASSUME NEW o \in Live(k)
               PROVE  /\ isblack(k, o) => o \notin Threads \cup Strings \cup Weak \cup Open(k)
                      /\ isgray(k, o) => o \notin Userdata
    BY DEF Marks
  <2>1. k.color[o] = h.color[o] \/ k.color[o] \in {"white0", "white1"}
    BY <1>4 DEF Shrunk
  <2> QED
    BY <1>1, <1>3, <1>4, <2>1 DEF Marks, isblack, isgray
<1> QED
  BY <1>2, <1>3, <1>5, <1>6, <1>8, <1>10, <1>11

LEMMA SweptKeeps ==
  ASSUME NEW h, DOMAIN h = Fields, NEW os
  PROVE  LET k == Swept(h, os)
             dead == {o \in os \ {Main} : isdead(h, o)}
         IN /\ DOMAIN k = Fields
            /\ Live(k) = Live(h) \ dead /\ DOMAIN k.color = Live(h) \ dead
            /\ \A o \in Live(h) \ dead : k.heap[o] = h.heap[o]
            /\ \A o \in Live(h) \ dead : k.color[o] = IF o \in os THEN h.white ELSE h.color[o]
            /\ k.white = h.white /\ k.rootgc = h.rootgc \ dead /\ k.udata = Selected(h.udata, Live(h) \ dead)
            /\ k.gcstate = h.gcstate /\ k.cur = h.cur /\ k.tmudata = h.tmudata
BY DEF Swept, Fields, Restrict, Live

LEMMA SweptFrame ==
  ASSUME NEW h, DOMAIN h = Fields, NEW os
  PROVE  LET k == Swept(h, os)
         IN /\ DOMAIN k = Fields /\ k.white = h.white
            /\ k.gray = h.gray /\ k.grayagain = h.grayagain /\ k.weak = h.weak /\ k.asserts = h.asserts
            /\ k.unswept = h.unswept /\ k.sweepstrgc = h.sweepstrgc /\ k.tmudata = h.tmudata
            /\ k.gcstate = h.gcstate /\ k.cur = h.cur /\ k.fins = h.fins /\ k.made = h.made
            /\ k.late = h.late
BY DEF Swept, Fields

\* What is left of h in k is as dead, and leads to the same objects.
Remains(h, k) ==
  /\ Live(k) \subseteq Live(h)
  /\ \A o \in Live(k) : /\ isdead(k, o) <=> isdead(h, o)
                        /\ MarkRefs(k, o) = MarkRefs(h, o)
                        /\ o \notin Upvalues => k.heap[o] = h.heap[o]

LEMMA RemainsTwice ==
  ASSUME NEW h, NEW k, NEW l, Remains(h, k), Remains(k, l)
  PROVE  Remains(h, l)
<1>1. \A o \in Live(l) : o \in Live(k) /\ o \in Live(h)
  BY DEF Remains
<1> QED
  BY <1>1 DEF Remains

LEMMA RemainsSame ==
  ASSUME NEW h, NEW k, k.heap = h.heap, k.color = h.color, k.white = h.white
  PROVE  Remains(h, k)
<1>1. Live(k) = Live(h) /\ \A o : MarkRefs(k, o) = MarkRefs(h, o)
  BY SameRefs
<1>2. \A o : isdead(k, o) <=> isdead(h, o)
  BY DEF isdead, otherwhite
<1> QED
  BY <1>1, <1>2 DEF Remains

\* Sweeping frees what is dead, and all that leads to it; nothing else changes but its colour.
LEMMA SweptHealthy ==
  ASSUME NEW h, Healthy(h), NEW os,
         \A u \in Open(h) : h.heap[u].th \in os /\ isdead(h, h.heap[u].th) => u \in os /\ isdead(h, u)
  PROVE  LET k == Swept(h, os)
         IN /\ Healthy(k) /\ Live(k) = Live(h) \ {o \in os : isdead(h, o)}
            /\ Open(k) = Open(h) \cap Live(k)
            /\ \A o \in Live(k) : k.color[o] = IF o \in os THEN h.white ELSE h.color[o]
            /\ \A o \in Live(k) : k.heap[o] = h.heap[o]
            /\ Remains(h, k)
<1> DEFINE k == Swept(h, os)
           dead == {o \in os \ {Main} : isdead(h, o)}
<1>1. /\ Typed(h) /\ NoDangling(h) /\ Lists(h) /\ Awaiting(h) /\ Marks(h) /\ DOMAIN h = Fields
      /\ h.white \in {"white0", "white1"}
  BY DEF Healthy, Typed, Shape
<1>2. dead = {o \in os : isdead(h, o)}
  BY <1>1 DEF NoDangling, Good
<1>3. /\ DOMAIN k = Fields
      /\ Live(k) = Live(h) \ dead /\ DOMAIN k.color = Live(h) \ dead
      /\ \A o \in Live(h) \ dead : k.heap[o] = h.heap[o]
      /\ \A o \in Live(h) \ dead : k.color[o] = IF o \in os THEN h.white ELSE h.color[o]
      /\ k.white = h.white /\ k.rootgc = h.rootgc \ dead /\ k.udata = Selected(h.udata, Live(h) \ dead)
      /\ k.gcstate = h.gcstate /\ k.cur = h.cur /\ k.tmudata = h.tmudata
  BY <1>1, SweptKeeps
<1> HIDE DEF k
<1>4. Shrunk(h, k, {})
  <2>1. \A u \in Open(h) \cap Live(k) : h.heap[u].th \in Live(k)
    <3> SUFFICES ASSUME NEW u \in Open(h) \cap Live(k) PROVE h.heap[u].th \in Live(h) /\ h.heap[u].th \notin dead
      BY <1>3
    <3>1. u \in Upvalues /\ u \in Live(h) /\ h.heap[u].open /\ Payload(h, u)
      BY <1>1 DEF Open, Typed, Payloads
    <3>2. h.heap[u].th \in Live(h)
      BY <3>1 DEF Payload
    <3> QED
      BY <1>2, <1>3, <3>2
  <2> QED
    BY <1>2, <1>3, <2>1 DEF Shrunk
<1>5. /\ Typed(k) /\ NoDangling(k) /\ Awaiting(k) /\ Marks(k)
      /\ Open(k) = Open(h) \cap Live(k)
      /\ \A o \in Live(k) : isdead(k, o) <=> isdead(h, o)
      /\ \A o \in Live(k) : MarkRefs(k, o) = MarkRefs(h, o)
  BY <1>4, ShrunkHealthy
<1>6. Lists(k)
  <2>1. /\ h.rootgc = Live(h) \cap (Listed \cup (Upvalues \ Open(h)))
        /\ h.udata \in Seq(Userdata) /\ h.tmudata \in Seq(Userdata)
        /\ Range(h.udata) \cup Range(h.tmudata) = Live(h) \cap Userdata
        /\ Range(h.udata) \cap Range(h.tmudata) = {}
        /\ IsInjective(h.udata) /\ IsInjective(h.tmudata)
    BY <1>1 DEF Lists
  <2>2. k.rootgc = Live(k) \cap (Listed \cup (Upvalues \ Open(k)))
    BY <1>3, <1>5, <2>1
  <2>3. /\ k.udata \in Seq(Userdata) /\ Range(k.udata) = Range(h.udata) \cap (Live(h) \ dead)
        /\ IsInjective(k.udata)
    BY <1>3, <2>1, SelectedProperties
  <2>4. Range(h.tmudata) \cap dead = {}
    BY <1>1 DEF Awaiting, Good
  <2>5. Range(k.udata) \cup Range(k.tmudata) = Live(k) \cap Userdata
    BY <1>3, <2>1, <2>3, <2>4
  <2> QED
    BY <1>3, <2>1, <2>2, <2>3, <2>5 DEF Lists
<1>7. Remains(h, k)
  BY <1>3, <1>5 DEF Remains
<1> QED
  BY <1>2, <1>3, <1>5, <1>6, <1>7 DEF Healthy, k

LEMMA UnstackedKeeps ==
  ASSUME NEW h, DOMAIN h = Fields, NEW us, NEW dead
  PROVE  LET k == Unstacked(h, us, dead)
         IN /\ DOMAIN k = Fields
            /\ Live(k) = Live(h) \ dead /\ DOMAIN k.color = Live(h) \ dead
            /\ \A o \in Live(h) \ (dead \cup us) : k.heap[o] = h.heap[o]
            /\ \A o \in Live(h) \ dead : k.color[o] = h.color[o]
            /\ k.white = h.white /\ k.rootgc = (h.rootgc \ dead) \cup us /\ k.udata = h.udata
            /\ k.gray = h.gray /\ k.grayagain = h.grayagain /\ k.weak = h.weak /\ k.asserts = h.asserts
            /\ k.unswept = h.unswept /\ k.sweepstrgc = h.sweepstrgc /\ k.tmudata = h.tmudata
            /\ k.gcstate = h.gcstate /\ k.cur = h.cur /\ k.fins = h.fins /\ k.made = h.made
            /\ k.late = h.late
BY DEF Unstacked, Fields, Live

\* Upvalues that are closed keep their values.
LEMMA UnstackedHealthy ==
  ASSUME NEW h, Healthy(h), NEW us \in SUBSET Open(h), NEW dead \in SUBSET Open(h),
         us \cap dead = {}, \A u \in dead : isdead(h, u)
  PROVE  LET k == Unstacked(h, us, dead)
         IN /\ Healthy(k) /\ Live(k) = Live(h) \ dead /\ Open(k) = Open(h) \ (us \cup dead)
            /\ \A o \in Live(k) : isdead(k, o) <=> isdead(h, o)
            /\ \A o \in Live(k) : k.color[o] = h.color[o] /\ MarkRefs(k, o) = MarkRefs(h, o)
            /\ \A o \in Live(k) \ us : k.heap[o] = h.heap[o]
            /\ \A u \in us : u \in Live(k) /\ k.heap[u].v = UpvalValue(h, u) /\ ~k.heap[u].open
<1> DEFINE k == Unstacked(h, us, dead)
<1>1. /\ Typed(h) /\ NoDangling(h) /\ Lists(h) /\ Awaiting(h) /\ Marks(h) /\ DOMAIN h = Fields
  BY DEF Healthy, Typed, Shape
<1>2. /\ DOMAIN k = Fields
      /\ Live(k) = Live(h) \ dead /\ DOMAIN k.color = Live(h) \ dead
      /\ \A o \in Live(h) \ (dead \cup us) : k.heap[o] = h.heap[o]
      /\ \A o \in Live(h) \ dead : k.color[o] = h.color[o]
      /\ k.white = h.white /\ k.rootgc = (h.rootgc \ dead) \cup us /\ k.udata = h.udata
      /\ k.tmudata = h.tmudata /\ k.gcstate = h.gcstate /\ k.cur = h.cur
  BY <1>1, UnstackedKeeps
<1>9. \A o \in us \cap (Live(h) \ dead) :
        k.heap[o] = [h.heap[o] EXCEPT !.open = FALSE, !.v = UpvalValue(h, o)]
  BY <1>1 DEF Unstacked, Fields
<1> HIDE DEF k
<1>3. Open(h) \subseteq Upvalues \cap Live(h)
  BY DEF Open
<1>4. ASSUME NEW u \in us
      PROVE  /\ u \in Live(k) /\ DOMAIN k.heap[u] = {"open", "th", "slot", "v"}
             /\ k.heap[u].open = FALSE /\ k.heap[u].th = h.heap[u].th /\ k.heap[u].slot = h.heap[u].slot
             /\ k.heap[u].v = UpvalValue(h, u)
  <2>1. Payload(h, u) /\ u \in Upvalues /\ u \in Live(h) \ dead
    BY <1>1, <1>3 DEF Typed, Payloads
  <2>2. DOMAIN h.heap[u] = {"open", "th", "slot", "v"}
    BY <2>1 DEF Payload
  <2>3. k.heap[u] = [h.heap[u] EXCEPT !.open = FALSE, !.v = UpvalValue(h, u)]
    BY <1>9, <2>1
  <2> QED
    BY <1>2, <2>1, <2>2, <2>3
<1>5. Shrunk(h, k, us)
  <2>1. \A u \in (Open(h) \cap Live(k)) \ us : h.heap[u].th \in Live(k)
    <3> SUFFICES ASSUME NEW u \in Open(h) PROVE h.heap[u].th \in Live(h) /\ h.heap[u].th \notin dead
      BY <1>2
    <3>1. u \in Upvalues /\ h.heap[u].open /\ Payload(h, u)
      BY <1>1, <1>3 DEF Open, Typed, Payloads
    <3>2. h.heap[u].th \in Live(h) /\ h.heap[u].th \in Threads
      BY <3>1 DEF Payload
    <3> QED
      BY <1>3, <3>2, Kinds
  <2>2. \A o \in Live(h) \ Live(k) : isdead(h, o)
    BY <1>2
  <2>3. Live(k) \subseteq Live(h) /\ \A o \in Live(k) \ us : k.heap[o] = h.heap[o]
    BY <1>2
  <2> QED
    BY <1>2, <1>4, <2>1, <2>2, <2>3 DEF Shrunk
<1>6. /\ Typed(k) /\ NoDangling(k) /\ Awaiting(k) /\ Marks(k)
      /\ \A o \in Live(k) : isdead(k, o) <=> isdead(h, o)
      /\ Open(k) = (Open(h) \cap Live(k)) \ us
      /\ \A o \in Live(k) : MarkRefs(k, o) = MarkRefs(h, o)
  BY <1>5, ShrunkHealthy
<1>7. Open(k) = Open(h) \ (us \cup dead)
  BY <1>2, <1>3, <1>6
<1>8. Lists(k)
  <2>1. h.rootgc = Live(h) \cap (Listed \cup (Upvalues \ Open(h)))
    BY <1>1 DEF Lists
  <2>2. k.rootgc = Live(k) \cap (Listed \cup (Upvalues \ Open(k)))
    BY <1>2, <1>3, <1>7, <2>1, Kinds DEF Listed
  <2>3. Live(k) \cap Userdata = Live(h) \cap Userdata
    BY <1>2, <1>3, Kinds
  <2> QED
    BY <1>1, <1>2, <2>2, <2>3 DEF Lists
<1> QED
  BY <1>2, <1>4, <1>6, <1>7, <1>8 DEF Healthy, k

LEMMA SameHealthy ==
  ASSUME NEW h, Healthy(h), NEW k, DOMAIN k = Fields, k.heap = h.heap, k.color = h.color, k.white = h.white,
         k.rootgc = h.rootgc, k.udata = h.udata, k.tmudata = h.tmudata, k.cur \in Threads, Good(h, k.cur),
         k.gcstate \in {"pause", "propagate", "sweepstring", "sweep", "finalize", "closing"}
  PROVE  Healthy(k) /\ Live(k) = Live(h) /\ Open(k) = Open(h)
<1>1. Typed(h) /\ NoDangling(h) /\ Lists(h) /\ Awaiting(h) /\ Marks(h) /\ k.cur \in Threads \cap Live(h)
  BY DEF Healthy, Good
<1>2. /\ Typed(k) /\ Live(k) = Live(h) /\ Open(k) = Open(h)
      /\ \A o : (Good(k, o) <=> Good(h, o)) /\ (isdead(k, o) <=> isdead(h, o))
      /\ Marks(k) /\ NoDangling(k)
  BY <1>1, SameHeap
<1>3. Lists(k) /\ Awaiting(k)
  BY <1>1, <1>2 DEF Lists, Awaiting
<1> QED
  BY <1>2, <1>3 DEF Healthy

\* What has not the new white, and will be passed by the sweep of rest and of the strings from n on.
Unpassed(h, rest, n) ==
  \A o \in Live(h) : h.color[o] # h.white =>
    \/ o \in rest \cup Range(h.tmudata)
    \/ o \in Strings /\ Bucket[o] >= n
    \/ o \in Open(h) /\ h.heap[o].th \in rest

\* What a step leaves alone.
SameStep(h, k) ==
  /\ DOMAIN k = Fields /\ k.white = h.white /\ k.gray = h.gray /\ k.grayagain = h.grayagain
  /\ k.weak = h.weak /\ k.asserts = h.asserts /\ k.tmudata = h.tmudata /\ k.cur = h.cur
  /\ k.fins = h.fins /\ k.made = h.made /\ k.late = h.late

LEMMA ClosedHealthy ==
  ASSUME NEW h, Healthy(h), NEW us \in SUBSET Open(h)
  PROVE  LET k == Unstacked(h, us, {})
         IN /\ Healthy(k) /\ Live(k) = Live(h) /\ Open(k) = Open(h) \ us
            /\ \A o \in Live(h) : isdead(k, o) <=> isdead(h, o)
            /\ \A o \in Live(h) : k.color[o] = h.color[o]
            /\ \A o \in Live(h) \ us : k.heap[o] = h.heap[o]
            /\ Remains(h, k)
<1> DEFINE none == {}
           k == Unstacked(h, us, none)
<1>1. none \in SUBSET Open(h) /\ us \cap none = {} /\ \A u \in none : isdead(h, u)
  OBVIOUS
<1>2. \A S : S \ none = S /\ us \cup none = us
  OBVIOUS
<1> HIDE DEF none
<1>3. LET x == Unstacked(h, us, none)
      IN /\ Healthy(x) /\ Live(x) = Live(h) \ none /\ Open(x) = Open(h) \ (us \cup none)
         /\ \A o \in Live(x) : isdead(x, o) <=> isdead(h, o)
         /\ \A o \in Live(x) : x.color[o] = h.color[o] /\ MarkRefs(x, o) = MarkRefs(h, o)
         /\ \A o \in Live(x) \ us : x.heap[o] = h.heap[o]
         /\ \A u \in us : u \in Live(x) /\ x.heap[u].v = UpvalValue(h, u) /\ ~x.heap[u].open
  BY <1>1, UnstackedHealthy, Zenon
<1>4. /\ Healthy(k) /\ Live(k) = Live(h) \ none /\ Open(k) = Open(h) \ (us \cup none)
      /\ \A o \in Live(k) : isdead(k, o) <=> isdead(h, o)
      /\ \A o \in Live(k) : k.color[o] = h.color[o] /\ MarkRefs(k, o) = MarkRefs(h, o)
      /\ \A o \in Live(k) \ us : k.heap[o] = h.heap[o]
  BY <1>3
<1> HIDE DEF k
<1>5. /\ Healthy(k) /\ Live(k) = Live(h) /\ Open(k) = Open(h) \ us
      /\ \A o \in Live(h) : isdead(k, o) <=> isdead(h, o)
      /\ \A o \in Live(h) : k.color[o] = h.color[o]
      /\ \A o \in Live(h) \ us : k.heap[o] = h.heap[o]
  BY <1>2, <1>4
<1>6. Remains(h, k)
  <2>1. us \subseteq Upvalues
    BY DEF Open
  <2> QED
    BY <1>4, <1>5, <2>1 DEF Remains
<1> QED
  BY <1>5, <1>6 DEF k, none

LEMMA SweeplistStep ==
  ASSUME NEW h, Healthy(h), NEW os, NEW n, Unpassed(h, h.unswept, n)
  PROVE  LET k == sweeplist(h, os)
         IN /\ Healthy(k) /\ Unpassed(k, k.unswept, n) /\ k.unswept = h.unswept \ os
            /\ SameStep(h, k) /\ k.gcstate = h.gcstate /\ k.sweepstrgc = h.sweepstrgc /\ Remains(h, k)
<1> DEFINE open == {u \in Open(h) : h.heap[u].th \in os}
           orphans == {u \in open : isdead(h, h.heap[u].th) /\ ~isdead(h, u)}
           c == Unstacked(h, orphans, {})
           all == os \cup open
           s == Swept(c, all)
           k == [s EXCEPT !.unswept = @ \ os]
<1>1. k = sweeplist(h, os)
  BY DEF sweeplist
<1>2. DOMAIN h = Fields /\ Typed(h)
  BY DEF Healthy, Typed, Shape
<1>3. orphans \in SUBSET Open(h) /\ {} \in SUBSET Open(h) /\ orphans \cap {} = {}
  OBVIOUS
<1>4. /\ DOMAIN c = Fields /\ c.white = h.white
      /\ c.gray = h.gray /\ c.grayagain = h.grayagain /\ c.weak = h.weak /\ c.asserts = h.asserts
      /\ c.unswept = h.unswept /\ c.sweepstrgc = h.sweepstrgc /\ c.tmudata = h.tmudata
      /\ c.gcstate = h.gcstate /\ c.cur = h.cur /\ c.fins = h.fins /\ c.made = h.made
      /\ c.late = h.late
  BY <1>2, UnstackedKeeps
<1> HIDE DEF orphans
<1>5. /\ Healthy(c) /\ Live(c) = Live(h) /\ Open(c) = Open(h) \ orphans
      /\ \A o \in Live(h) : isdead(c, o) <=> isdead(h, o)
      /\ \A o \in Live(h) : c.color[o] = h.color[o]
      /\ \A o \in Live(h) \ orphans : c.heap[o] = h.heap[o]
      /\ Remains(h, c)
  BY <1>3, ClosedHealthy
<1> HIDE DEF c
<1>6. open \subseteq Upvalues /\ open \subseteq Live(h) /\ Open(h) \subseteq Live(h)
  BY DEF Open
<1>7. ASSUME NEW u \in Open(c), c.heap[u].th \in all, isdead(c, c.heap[u].th)
      PROVE  u \in all /\ isdead(c, u)
  <2>1. u \in Open(h) /\ u \notin orphans /\ c.heap[u] = h.heap[u]
    BY <1>5, <1>6
  <2>2. u \in Upvalues /\ h.heap[u].open /\ Payload(h, u)
    BY <1>2, <2>1 DEF Open, Typed, Payloads
  <2>3. h.heap[u].th \in Threads /\ h.heap[u].th \in Live(h)
    BY <2>2 DEF Payload
  <2>4. h.heap[u].th \in os
    BY <1>6, <1>7, <2>1, <2>3, Kinds
  <2>5. u \in open /\ isdead(h, h.heap[u].th)
    BY <1>5, <1>7, <2>1, <2>3, <2>4
  <2> QED
    BY <1>5, <1>6, <2>1, <2>5 DEF orphans
<1>8. /\ Healthy(s) /\ Live(s) = Live(c) \ {o \in all : isdead(c, o)}
      /\ Open(s) = Open(c) \cap Live(s)
      /\ \A o \in Live(s) : s.color[o] = IF o \in all THEN c.white ELSE c.color[o]
      /\ \A o \in Live(s) : s.heap[o] = c.heap[o]
      /\ Remains(c, s)
  <2> HIDE DEF all
  <2> QED
    BY <1>5, <1>7, SweptHealthy
<1>9. /\ DOMAIN s = Fields /\ s.white = c.white
      /\ s.gray = c.gray /\ s.grayagain = c.grayagain /\ s.weak = c.weak /\ s.asserts = c.asserts
      /\ s.unswept = c.unswept /\ s.sweepstrgc = c.sweepstrgc /\ s.tmudata = c.tmudata
      /\ s.gcstate = c.gcstate /\ s.cur = c.cur /\ s.fins = c.fins /\ s.made = c.made
      /\ s.late = c.late
  BY <1>4, SweptFrame
<1> HIDE DEF s
<1>10. /\ DOMAIN k = Fields /\ k.heap = s.heap /\ k.color = s.color /\ k.white = s.white
       /\ k.rootgc = s.rootgc /\ k.udata = s.udata /\ k.tmudata = s.tmudata /\ k.cur = s.cur
       /\ k.gcstate = s.gcstate /\ k.unswept = s.unswept \ os
       /\ k.gray = s.gray /\ k.grayagain = s.grayagain /\ k.weak = s.weak /\ k.asserts = s.asserts
       /\ k.fins = s.fins /\ k.made = s.made /\ k.late = s.late /\ k.sweepstrgc = s.sweepstrgc
  BY <1>9 DEF Fields
<1> HIDE DEF k
<1>11. Healthy(k) /\ Live(k) = Live(s) /\ Open(k) = Open(s)
  <2>1. s.cur \in Threads /\ Good(s, s.cur)
        /\ s.gcstate \in {"pause", "propagate", "sweepstring", "sweep", "finalize", "closing"}
    BY <1>8 DEF Healthy, Typed, Shape, NoDangling
  <2> QED
    BY <1>8, <1>10, <2>1, SameHealthy
<1>12. SameStep(h, k) /\ k.gcstate = h.gcstate /\ k.sweepstrgc = h.sweepstrgc /\ k.unswept = h.unswept \ os
  BY <1>4, <1>9, <1>10 DEF SameStep
<1>13. Unpassed(k, k.unswept, n)
  <2> SUFFICES ASSUME NEW o \in Live(k), k.color[o] # k.white
               PROVE  \/ o \in (h.unswept \ os) \cup Range(k.tmudata)
                      \/ o \in Strings /\ Bucket[o] >= n
                      \/ o \in Open(k) /\ k.heap[o].th \in h.unswept \ os
    BY <1>12 DEF Unpassed
  <2>1. o \notin all /\ o \in Live(h) /\ h.color[o] # h.white /\ k.heap[o] = c.heap[o]
    BY <1>4, <1>5, <1>8, <1>9, <1>10, <1>11
  <2>2. \/ o \in h.unswept \cup Range(h.tmudata)
        \/ o \in Strings /\ Bucket[o] >= n
        \/ o \in Open(h) /\ h.heap[o].th \in h.unswept
    BY <2>1 DEF Unpassed
  <2>3. CASE o \in Open(h) /\ h.heap[o].th \in h.unswept
    <3>1. h.heap[o].th \notin os /\ o \notin orphans
      BY <2>1, <2>3 DEF orphans
    <3>2. o \in Open(k) /\ k.heap[o] = h.heap[o]
      BY <1>5, <1>8, <1>11, <2>1, <2>3, <3>1
    <3> QED
      BY <2>3, <3>1, <3>2
  <2>4. k.tmudata = h.tmudata
    BY <1>12 DEF SameStep
  <2> QED
    BY <2>1, <2>2, <2>3, <2>4
<1>14. Remains(h, k)
  BY <1>5, <1>8, <1>10, RemainsSame, RemainsTwice
<1> QED
  BY <1>1, <1>11, <1>12, <1>13, <1>14

LEMMA SweepstringsStep ==
  ASSUME NEW h, Healthy(h), NEW lists, NEW n \in Nat, NEW m \in Nat, Unpassed(h, h.unswept, n),
         \A s \in Strings : Bucket[s] >= n => Bucket[s] >= m \/ Bucket[s] \in lists
  PROVE  LET k == sweepstrings(h, lists)
         IN /\ Healthy(k) /\ Unpassed(k, k.unswept, m) /\ k.unswept = h.unswept
            /\ SameStep(h, k) /\ k.gcstate = h.gcstate /\ k.sweepstrgc = h.sweepstrgc /\ Remains(h, k)
<1> DEFINE os == {s \in Strings \cap Live(h) : Bucket[s] \in lists}
           k == Swept(h, os)
<1>1. k = sweepstrings(h, lists)
  BY DEF sweepstrings
<1>2. DOMAIN h = Fields /\ Typed(h)
  BY DEF Healthy, Typed, Shape
<1>3. \A u \in Open(h) : h.heap[u].th \notin os
  <2> SUFFICES ASSUME NEW u \in Open(h) PROVE h.heap[u].th \notin Strings
    OBVIOUS
  <2>1. Payload(h, u) /\ u \in Upvalues
    BY <1>2 DEF Open, Typed, Payloads
  <2> QED
    BY <2>1, Kinds DEF Payload
<1>4. /\ DOMAIN k = Fields /\ k.white = h.white
      /\ k.gray = h.gray /\ k.grayagain = h.grayagain /\ k.weak = h.weak /\ k.asserts = h.asserts
      /\ k.unswept = h.unswept /\ k.sweepstrgc = h.sweepstrgc /\ k.tmudata = h.tmudata
      /\ k.gcstate = h.gcstate /\ k.cur = h.cur /\ k.fins = h.fins /\ k.made = h.made
      /\ k.late = h.late
  BY <1>2, SweptFrame
<1> HIDE DEF os
<1>5. /\ Healthy(k) /\ Live(k) = Live(h) \ {o \in os : isdead(h, o)}
      /\ Open(k) = Open(h) \cap Live(k)
      /\ \A o \in Live(k) : k.color[o] = IF o \in os THEN h.white ELSE h.color[o]
      /\ \A o \in Live(k) : k.heap[o] = h.heap[o]
      /\ Remains(h, k)
  BY <1>3, SweptHealthy
<1> HIDE DEF k
<1>6. Unpassed(k, k.unswept, m)
  <2> SUFFICES ASSUME NEW o \in Live(k), k.color[o] # k.white
               PROVE  \/ o \in h.unswept \cup Range(h.tmudata)
                      \/ o \in Strings /\ Bucket[o] >= m
                      \/ o \in Open(k) /\ k.heap[o].th \in h.unswept
    BY <1>4 DEF Unpassed
  <2>1. o \notin os /\ o \in Live(h) /\ h.color[o] # h.white
    BY <1>4, <1>5
  <2>2. o \in Strings => Bucket[o] \notin lists
    BY <2>1 DEF os
  <2> QED
    BY <1>5, <2>1, <2>2 DEF Unpassed
<1> QED
  BY <1>1, <1>4, <1>5, <1>6 DEF k, SameStep

\* With nothing left to sweep all has the new white.
LEMMA AllPassed ==
  ASSUME NEW h, Healthy(h), Unpassed(h, {}, StrSize + 1)
  PROVE  \A o \in Live(h) : h.color[o] = h.white \/ o \in Range(h.tmudata)
<1>1. \A s \in Strings : ~(Bucket[s] >= StrSize + 1)
  BY HeapConstants
<1> QED
  BY <1>1 DEF Unpassed

LEMMA SweepStep ==
  ASSUME NEW h, HeapInv(h), h.gcstate = "sweep", NEW os
  PROVE  HeapInv(sweepstep(h, os))
<1> DEFINE s == sweeplist(h, os)
           k == [s EXCEPT !.gcstate = IF s.unswept = {} THEN "finalize" ELSE @]
<1>1. k = sweepstep(h, os)
  BY DEF sweepstep
<1>2. /\ Healthy(h) /\ Sweeping(h) /\ h.sweepstrgc > StrSize /\ h.sweepstrgc \in Nat
      /\ Chains(h) /\ h.asserts \subseteq {"awaiting"} /\ StrSize \in Nat
  BY HeapConstants DEF HeapInv, HeapBut, Phase, Healthy
<1>3. Unpassed(h, h.unswept, h.sweepstrgc)
  BY <1>2 DEF Sweeping, Unpassed
<1>4. Unpassed(h, h.unswept, StrSize + 1)
  <2>1. \A x \in Strings : Bucket[x] \in Nat /\ (Bucket[x] >= h.sweepstrgc => Bucket[x] >= StrSize + 1)
    BY <1>2, HeapConstants
  <2> QED
    BY <1>3, <2>1 DEF Unpassed
<1>5. /\ Healthy(s) /\ Unpassed(s, s.unswept, StrSize + 1) /\ Unpassed(s, s.unswept, h.sweepstrgc)
      /\ SameStep(h, s) /\ s.gcstate = "sweep" /\ s.sweepstrgc = h.sweepstrgc
  BY <1>2, <1>3, <1>4, SweeplistStep
<1> HIDE DEF s
<1>6. /\ DOMAIN k = Fields /\ k.heap = s.heap /\ k.color = s.color /\ k.white = s.white
      /\ k.rootgc = s.rootgc /\ k.udata = s.udata /\ k.tmudata = s.tmudata /\ k.cur = s.cur
      /\ k.unswept = s.unswept /\ k.sweepstrgc = s.sweepstrgc
      /\ k.gray = h.gray /\ k.grayagain = h.grayagain /\ k.weak = h.weak /\ k.asserts \subseteq {"awaiting"}
      /\ k.gcstate = IF s.unswept = {} THEN "finalize" ELSE "sweep"
  BY <1>2, <1>5 DEF SameStep, Fields
<1> HIDE DEF k
<1>7. Healthy(k) /\ Live(k) = Live(s) /\ Open(k) = Open(s)
  <2>1. s.cur \in Threads /\ Good(s, s.cur)
    BY <1>5 DEF Healthy, Typed, Shape, NoDangling
  <2> QED
    BY <1>5, <1>6, <2>1, SameHealthy
<1>8. Chains(k)
  BY <1>2, <1>6 DEF Chains
<1>9. Phase(k, {})
  <2>1. CASE s.unswept = {}
    <3>1. \A o \in Live(k) : k.color[o] = k.white \/ o \in Range(k.tmudata)
      BY <1>5, <1>6, <1>7, <2>1, AllPassed
    <3> QED
      BY <1>2, <1>5, <1>6, <2>1, <3>1 DEF Phase
  <2>2. CASE s.unswept # {}
    <3>1. Sweeping(k)
      BY <1>5, <1>6, <1>7 DEF Unpassed, Sweeping
    <3> QED
      BY <1>2, <1>5, <1>6, <2>2, <3>1 DEF Phase
  <2> QED
    BY <2>1, <2>2
<1> QED
  BY <1>1, <1>6, <1>7, <1>8, <1>9 DEF HeapInv, HeapBut, Healthy, k

LEMMA SweepstringStep ==
  ASSUME NEW h, HeapInv(h), h.gcstate = "sweepstring"
  PROVE  HeapInv(sweepstringstep(h))
<1> DEFINE n == h.sweepstrgc
           s == sweepstrings(h, {n})
           k == [s EXCEPT !.gcstate = IF h.sweepstrgc >= StrSize THEN "sweep" ELSE @, !.sweepstrgc = @ + 1]
<1>1. k = sweepstringstep(h)
  BY DEF sweepstringstep
<1>2. /\ Healthy(h) /\ Sweeping(h) /\ n \in Nat /\ Chains(h) /\ h.asserts \subseteq {"awaiting"} /\ StrSize \in Nat
  BY HeapConstants DEF HeapInv, HeapBut, Phase, Healthy
<1>3. Unpassed(h, h.unswept, n)
  BY <1>2 DEF Sweeping, Unpassed
<1>4. /\ Healthy(s) /\ Unpassed(s, s.unswept, n + 1)
      /\ SameStep(h, s) /\ s.gcstate = "sweepstring" /\ s.sweepstrgc = n
  <2> DEFINE lists == {n}
  <2>1. n + 1 \in Nat /\ \A x \in Strings : Bucket[x] >= n => Bucket[x] >= n + 1 \/ Bucket[x] \in lists
    BY <1>2, HeapConstants
  <2> HIDE DEF lists, n
  <2>2. LET x == sweepstrings(h, lists)
        IN /\ Healthy(x) /\ Unpassed(x, x.unswept, n + 1)
           /\ SameStep(h, x) /\ x.gcstate = h.gcstate /\ x.sweepstrgc = h.sweepstrgc
    BY <1>2, <1>3, <2>1, SweepstringsStep
  <2> QED
    BY <2>2 DEF lists, n
<1> HIDE DEF s
<1>5. /\ DOMAIN k = Fields /\ k.heap = s.heap /\ k.color = s.color /\ k.white = s.white
      /\ k.rootgc = s.rootgc /\ k.udata = s.udata /\ k.tmudata = s.tmudata /\ k.cur = s.cur
      /\ k.unswept = s.unswept /\ k.sweepstrgc = n + 1
      /\ k.gray = h.gray /\ k.grayagain = h.grayagain /\ k.weak = h.weak /\ k.asserts \subseteq {"awaiting"}
      /\ k.gcstate = IF n >= StrSize THEN "sweep" ELSE "sweepstring"
  BY <1>2, <1>4 DEF SameStep, Fields
<1> HIDE DEF k
<1>6. Healthy(k) /\ Live(k) = Live(s) /\ Open(k) = Open(s)
  <2>1. s.cur \in Threads /\ Good(s, s.cur)
    BY <1>4 DEF Healthy, Typed, Shape, NoDangling
  <2> QED
    BY <1>4, <1>5, <2>1, SameHealthy
<1>7. Chains(k)
  BY <1>2, <1>5 DEF Chains
<1>8. Sweeping(k)
  BY <1>4, <1>5, <1>6 DEF Unpassed, Sweeping
<1>9. Phase(k, {})
  BY <1>2, <1>5, <1>8 DEF Phase
<1> QED
  BY <1>1, <1>5, <1>6, <1>7, <1>9 DEF HeapInv, HeapBut, Healthy, k

\* What is left of a sweep ends it.
LEMMA SweepallStep ==
  ASSUME NEW h, Healthy(h), h.sweepstrgc \in Nat, Unpassed(h, h.unswept, h.sweepstrgc), Chains(h),
         h.asserts \subseteq {"awaiting"}
  PROVE  /\ HeapInv(sweepall(h)) /\ sweepall(h).gcstate = "finalize"
         /\ Remains(h, sweepall(h)) /\ SameStep(h, sweepall(h))
<1> DEFINE lists == h.sweepstrgc..StrSize
           os == h.unswept
           x == sweepstrings(h, lists)
           y == sweeplist(x, os)
           k == [y EXCEPT !.gcstate = "finalize", !.sweepstrgc = StrSize + 1]
<1>1. k = sweepall(h)
  BY DEF sweepall
<1>2. StrSize \in Nat /\ StrSize + 1 \in Nat /\ \A s \in Strings : Bucket[s] \in 1..StrSize
  BY HeapConstants
<1>3. \A s \in Strings : Bucket[s] >= h.sweepstrgc => Bucket[s] >= StrSize + 1 \/ Bucket[s] \in lists
  BY <1>2
<1> HIDE DEF lists
<1>4. /\ Healthy(x) /\ Unpassed(x, x.unswept, StrSize + 1) /\ x.unswept = os /\ SameStep(h, x)
      /\ Remains(h, x)
  BY <1>2, <1>3, SweepstringsStep
<1> HIDE DEF x, os
<1>5. Healthy(y) /\ Unpassed(y, y.unswept, StrSize + 1) /\ y.unswept = x.unswept \ os /\ SameStep(x, y)
      /\ Remains(x, y)
  BY <1>4, SweeplistStep
<1> HIDE DEF y
<1>6. /\ DOMAIN k = Fields /\ k.heap = y.heap /\ k.color = y.color /\ k.white = y.white
      /\ k.rootgc = y.rootgc /\ k.udata = y.udata /\ k.tmudata = y.tmudata /\ k.cur = y.cur
      /\ k.sweepstrgc = StrSize + 1 /\ k.gray = h.gray /\ k.grayagain = h.grayagain
      /\ k.weak = h.weak /\ k.asserts = h.asserts /\ k.gcstate = "finalize"
      /\ k.fins = h.fins /\ k.made = h.made /\ k.late = h.late
  BY <1>4, <1>5 DEF SameStep, Fields
<1> HIDE DEF k
<1>7. Healthy(k) /\ Live(k) = Live(y) /\ Open(k) = Open(y)
  <2>1. y.cur \in Threads /\ Good(y, y.cur)
    BY <1>5 DEF Healthy, Typed, Shape, NoDangling
  <2> QED
    BY <1>5, <1>6, <2>1, SameHealthy
<1>8. \A o \in Live(k) : k.color[o] = k.white \/ o \in Range(k.tmudata)
  <2>1. Unpassed(y, {}, StrSize + 1)
    <3>1. y.unswept = {}
      BY <1>4, <1>5
    <3> QED
      BY <1>5, <3>1
  <2>2. \A o \in Live(y) : y.color[o] = y.white \/ o \in Range(y.tmudata)
    BY <1>5, <2>1, AllPassed
  <2> QED
    BY <1>6, <1>7, <2>2
<1>9. Chains(k)
  BY <1>6 DEF Chains
<1>10. Phase(k, {})
  BY <1>2, <1>6, <1>8 DEF Phase
<1>11. Remains(h, k)
  BY <1>4, <1>5, <1>6, RemainsSame, RemainsTwice
<1>12. SameStep(h, k)
  BY <1>4, <1>5, <1>6 DEF SameStep
<1> QED
  BY <1>1, <1>6, <1>7, <1>9, <1>10, <1>11, <1>12 DEF HeapInv, HeapBut, Healthy, k, y, x

\* A marking that is given up leaves everything to be swept.
LEMMA Unmarked ==
  ASSUME NEW h, HeapInv(h)
  PROVE  LET k == [h EXCEPT !.sweepstrgc = 1, !.unswept = h.rootgc \cup Range(h.udata),
                            !.gray = {}, !.grayagain = {}, !.weak = {}, !.gcstate = "sweepstring"]
         IN Healthy(k) /\ k.sweepstrgc = 1 /\ Unpassed(k, k.unswept, 1) /\ Chains(k) /\ k.asserts \subseteq {"awaiting"}
<1> DEFINE k == [h EXCEPT !.sweepstrgc = 1, !.unswept = h.rootgc \cup Range(h.udata),
                          !.gray = {}, !.grayagain = {}, !.weak = {}, !.gcstate = "sweepstring"]
<1>1. /\ Healthy(h) /\ Typed(h) /\ NoDangling(h) /\ Lists(h) /\ h.asserts \subseteq {"awaiting"} /\ DOMAIN h = Fields
  BY DEF HeapInv, HeapBut, Healthy, Typed, Shape
<1>2. /\ DOMAIN k = Fields /\ k.heap = h.heap /\ k.color = h.color /\ k.white = h.white
      /\ k.rootgc = h.rootgc /\ k.udata = h.udata /\ k.tmudata = h.tmudata /\ k.cur = h.cur
      /\ k.sweepstrgc = 1 /\ k.gray = {} /\ k.grayagain = {} /\ k.weak = {} /\ k.asserts \subseteq {"awaiting"}
      /\ k.unswept = h.rootgc \cup Range(h.udata) /\ k.gcstate = "sweepstring"
  BY <1>1 DEF Fields
<1> HIDE DEF k
<1>3. Healthy(k) /\ Live(k) = Live(h) /\ Open(k) = Open(h)
  <2>1. h.cur \in Threads /\ Good(h, h.cur)
    BY <1>1 DEF Typed, Shape, NoDangling
  <2> QED
    BY <1>1, <1>2, <2>1, SameHealthy
<1>4. ASSUME NEW o \in Live(h)
      PROVE  \/ o \in (h.rootgc \cup Range(h.udata)) \cup Range(h.tmudata)
             \/ o \in Strings /\ Bucket[o] >= 1
             \/ o \in Open(h) /\ h.heap[o].th \in h.rootgc \cup Range(h.udata)
  <2>1. /\ h.rootgc = Live(h) \cap (Listed \cup (Upvalues \ Open(h)))
        /\ Range(h.udata) \cup Range(h.tmudata) = Live(h) \cap Userdata
    BY <1>1 DEF Lists
  <2>2. o \in Listed \cup Upvalues \cup Strings \cup Userdata
    BY <1>1, Kinds DEF Typed, Shape
  <2>3. CASE o \in Strings
    BY <2>3, HeapConstants
  <2>4. CASE o \in Open(h)
    <3>1. Payload(h, o) /\ o \in Upvalues /\ h.heap[o].open
      BY <1>1, <2>4 DEF Typed, Payloads, Open
    <3>2. h.heap[o].th \in Threads /\ h.heap[o].th \in Live(h)
      BY <3>1 DEF Payload
    <3> QED
      BY <2>1, <2>4, <3>2 DEF Listed
  <2> QED
    BY <2>1, <2>2, <2>3, <2>4
<1>5. Unpassed(k, k.unswept, 1) /\ Chains(k)
  BY <1>2, <1>3, <1>4 DEF Unpassed, Chains
<1> QED
  BY <1>2, <1>3, <1>5 DEF k

\* A collection that begins with everything white, but what awaits its finalizer.
LEMMA WholeCycle ==
  ASSUME NEW h, HeapInv(h), h.gcstate \in {"pause", "finalize"}
  PROVE  /\ HeapInv(sweepall(atomic(propagateall(markroot(h)))))
         /\ sweepall(atomic(propagateall(markroot(h)))).gcstate = "finalize"
<1> DEFINE r == markroot(h)
           p == propagateall(r)
           a == atomic(p)
<1>1. Ending(r) /\ Marking(r, Range(r.tmudata))
  BY MarkrootStep
<1> HIDE DEF r
<1>2. Typed(r) /\ Marks(r) /\ Trail(r, r.gray \cup Live(r))
  BY <1>1 DEF Ending, Trail
<1>3. Ending(p) /\ SameObjects(r, p)
  <2> DEFINE all == Live(r)
  <2>1. Trail(r, r.gray \cup all)
    BY <1>2
  <2> HIDE DEF all
  <2> QED
    BY <1>1, <2>1, EndingPropagate
<1>4. Marking(p, Range(r.tmudata))
  <2> DEFINE T == Range(r.tmudata)
  <2>1. Marking(r, T)
    BY <1>1
  <2> HIDE DEF T
  <2>2. Marking(p, T)
    BY <1>2, <2>1, PropagateAll
  <2> QED
    BY <2>2 DEF T
<1> HIDE DEF p
<1>5. HeapInv(a) /\ a.gcstate = "sweepstring"
  <2>1. Marking(p, Range(p.tmudata))
    BY <1>3, <1>4 DEF SameObjects
  <2> QED
    BY <1>3, <2>1, AtomicStep
<1> HIDE DEF a
<1>6. /\ Healthy(a) /\ a.sweepstrgc \in Nat /\ Unpassed(a, a.unswept, a.sweepstrgc) /\ Chains(a)
      /\ a.asserts \subseteq {"awaiting"}
  BY <1>5 DEF HeapInv, HeapBut, Healthy, Phase, Sweeping, Unpassed
<1>7. HeapInv(sweepall(a)) /\ sweepall(a).gcstate = "finalize"
  BY <1>6, SweepallStep
<1> QED
  BY <1>7 DEF a, p, r

\* Whatever the collector was at, a sweep comes first.
LEMMA FullgcClean ==
  ASSUME NEW h, HeapInv(h), h.gcstate \notin {"closing", "closed"}
  PROVE  LET unmarked == [h EXCEPT !.sweepstrgc = 1, !.unswept = h.rootgc \cup Range(h.udata),
                                   !.gray = {}, !.grayagain = {}, !.weak = {}, !.gcstate = "sweepstring"]
             swept == IF h.gcstate \in {"pause", "propagate"} THEN unmarked ELSE h
             clean == sweepall(swept)
         IN HeapInv(clean) /\ clean.gcstate = "finalize" /\ Remains(swept, clean) /\ SameStep(swept, clean)
<1> DEFINE unmarked == [h EXCEPT !.sweepstrgc = 1, !.unswept = h.rootgc \cup Range(h.udata),
                                 !.gray = {}, !.grayagain = {}, !.weak = {}, !.gcstate = "sweepstring"]
           swept == IF h.gcstate \in {"pause", "propagate"} THEN unmarked ELSE h
           clean == sweepall(swept)
<1>1. /\ Healthy(swept) /\ swept.sweepstrgc \in Nat /\ Unpassed(swept, swept.unswept, swept.sweepstrgc)
      /\ Chains(swept) /\ swept.asserts \subseteq {"awaiting"}
  <2>1. CASE h.gcstate \in {"pause", "propagate"}
    <3>1. /\ Healthy(unmarked) /\ unmarked.sweepstrgc = 1 /\ Unpassed(unmarked, unmarked.unswept, 1)
          /\ Chains(unmarked) /\ unmarked.asserts \subseteq {"awaiting"}
      BY Unmarked
    <3>2. swept = unmarked
      BY <2>1
    <3> HIDE DEF unmarked, swept
    <3> QED
      BY <3>1, <3>2
  <2>2. CASE h.gcstate \in {"sweepstring", "sweep", "finalize"}
    <3>1. swept = h
      BY <2>2
    <3>2. Healthy(h) /\ h.sweepstrgc \in Nat /\ Chains(h) /\ h.asserts \subseteq {"awaiting"}
      BY DEF HeapInv, HeapBut, Healthy, Phase
    <3>3. Unpassed(h, h.unswept, h.sweepstrgc)
      BY <2>2 DEF HeapInv, HeapBut, Phase, Sweeping, Unpassed
    <3> QED
      BY <3>1, <3>2, <3>3
  <2>3. h.gcstate \in {"pause", "propagate", "sweepstring", "sweep", "finalize", "closing"}
    BY DEF HeapInv, HeapBut, Typed, Shape
  <2> QED
    BY <2>1, <2>2, <2>3
<1> HIDE DEF swept
<1>2. HeapInv(clean) /\ clean.gcstate = "finalize" /\ Remains(swept, clean) /\ SameStep(swept, clean)
  BY <1>1, SweepallStep
<1> QED
  BY <1>2 DEF swept

LEMMA FullgcStep ==
  ASSUME NEW h, HeapInv(h), h.gcstate \notin {"closing", "closed"}
  PROVE  HeapInv(luaC_fullgc(h)) /\ luaC_fullgc(h).gcstate = "finalize"
<1> DEFINE unmarked == [h EXCEPT !.sweepstrgc = 1, !.unswept = h.rootgc \cup Range(h.udata),
                                 !.gray = {}, !.grayagain = {}, !.weak = {}, !.gcstate = "sweepstring"]
           swept == IF h.gcstate \in {"pause", "propagate"} THEN unmarked ELSE h
           clean == sweepall(swept)
<1>1. luaC_fullgc(h) = sweepall(atomic(propagateall(markroot(clean))))
  BY DEF luaC_fullgc
<1>2. HeapInv(clean) /\ clean.gcstate = "finalize"
  BY FullgcClean
<1> HIDE DEF clean
<1> QED
  BY <1>1, <1>2, WholeCycle

\* The last finalizer has run.
LEMMA PauseStep ==
  ASSUME NEW h, HeapInv(h), h.gcstate = "finalize", h.tmudata = <<>>
  PROVE  HeapInv([h EXCEPT !.gcstate = "pause"])
<1> DEFINE k == [h EXCEPT !.gcstate = "pause"]
<1>1. /\ Healthy(h) /\ Chains(h) /\ h.asserts \subseteq {"awaiting"} /\ DOMAIN h = Fields /\ h.sweepstrgc \in Nat
      /\ \A o \in Live(h) : h.color[o] = h.white \/ o \in Range(h.tmudata)
      /\ h.cur \in Threads /\ Good(h, h.cur)
  BY DEF HeapInv, HeapBut, Healthy, Phase, Typed, Shape, NoDangling
<1>2. /\ DOMAIN k = Fields /\ k.heap = h.heap /\ k.color = h.color /\ k.white = h.white
      /\ k.rootgc = h.rootgc /\ k.udata = h.udata /\ k.tmudata = h.tmudata /\ k.cur = h.cur
      /\ k.sweepstrgc = h.sweepstrgc /\ k.gray = h.gray /\ k.grayagain = h.grayagain
      /\ k.weak = h.weak /\ k.asserts = h.asserts /\ k.gcstate = "pause"
  BY <1>1 DEF Fields
<1> HIDE DEF k
<1>3. Healthy(k) /\ Live(k) = Live(h)
  BY <1>1, <1>2, SameHealthy
<1>4. Range(h.tmudata) = {}
  BY DEF Range
<1>5. Phase(k, {}) /\ Chains(k)
  BY <1>1, <1>2, <1>3, <1>4 DEF Phase, Chains
<1> QED
  BY <1>1, <1>2, <1>3, <1>5 DEF HeapInv, HeapBut, Healthy, k

-----------------------------------------------------------------------------
(* The program's steps                                                     *)

\* k has the marks and lists of h.
SameMarks(h, k) ==
  /\ DOMAIN k = Fields /\ k.color = h.color /\ k.white = h.white /\ k.gcstate = h.gcstate
  /\ k.gray = h.gray /\ k.grayagain = h.grayagain /\ k.weak = h.weak /\ k.rootgc = h.rootgc
  /\ k.udata = h.udata /\ k.tmudata = h.tmudata /\ k.unswept = h.unswept
  /\ k.sweepstrgc = h.sweepstrgc /\ k.cur = h.cur /\ k.asserts \subseteq h.asserts \cup {"awaiting"}
\* What a slot may hold.
Held(h) == {v \in Values : Good(h, v)} \cup {Nil}

\* fins, made and late are only for the record.
LEMMA InvSame ==
  ASSUME NEW h, NEW loose, HeapBut(h, loose), NEW k, SameMarks(h, k), k.heap = h.heap
  PROVE  HeapBut(k, loose) /\ White(k) = White(h)
<1>1. /\ Typed(h) /\ NoDangling(h) /\ Lists(h) /\ Awaiting(h) /\ Marks(h) /\ Phase(h, loose)
      /\ Chains(h) /\ h.asserts \subseteq {"awaiting"}
  BY DEF HeapBut
<1>2. k.cur \in Threads \cap Live(h) /\ Good(h, k.cur)
      /\ k.gcstate \in {"pause", "propagate", "sweepstring", "sweep", "finalize", "closing"}
  BY <1>1 DEF SameMarks, Typed, Shape, NoDangling
<1>3. /\ DOMAIN k = Fields /\ k.color = h.color /\ k.white = h.white /\ k.rootgc = h.rootgc
      /\ k.udata = h.udata /\ k.tmudata = h.tmudata
      /\ k.gray = h.gray /\ k.grayagain = h.grayagain /\ k.weak = h.weak
  BY DEF SameMarks
<1>4. Healthy(k) /\ Live(k) = Live(h) /\ Open(k) = Open(h)
  BY <1>1, <1>2, <1>3, SameHealthy DEF Healthy
<1>5. White(k) = White(h) /\ (Marking(h, loose) => Marking(k, loose))
  BY <1>1, <1>2, <1>3, SameHeap
<1>6. (Rooted(h) => Rooted(k)) /\ (Sweeping(h) => Sweeping(k))
  BY <1>4 DEF Rooted, Sweeping, iswhite, SameMarks
<1>7. Phase(k, loose)
  BY <1>1, <1>4, <1>5, <1>6 DEF Phase, SameMarks
<1>8. Chains(k) /\ k.asserts \subseteq {"awaiting"}
  BY <1>1 DEF Chains, SameMarks
<1> QED
  BY <1>4, <1>5, <1>7, <1>8 DEF HeapBut, Healthy

\* The contents of o have changed.
Stored(h, k, o) ==
  /\ SameMarks(h, k) /\ Live(k) = Live(h) /\ o \in Live(h)
  /\ \A x \in Live(h) \ {o} : k.heap[x] = h.heap[x]
  /\ o \in Threads => DOMAIN k.heap[o] = Stack(h)
  /\ o \in Upvalues => /\ k.heap[o].open = h.heap[o].open /\ k.heap[o].th = h.heap[o].th
                       /\ k.heap[o].slot = h.heap[o].slot

LEMMA StoredLinks ==
  ASSUME NEW h, Typed(h), NEW o, NEW k, Stored(h, k, o)
  PROVE  /\ Live(k) = Live(h) /\ Open(k) = Open(h) /\ Stack(k) = Stack(h) /\ White(k) = White(h)
         /\ \A x : /\ Good(k, x) <=> Good(h, x)
                   /\ isdead(k, x) <=> isdead(h, x)
                   /\ isblack(k, x) <=> isblack(h, x)
                   /\ isgray(k, x) <=> isgray(h, x)
                   /\ iswhite(k, x) <=> iswhite(h, x)
         /\ \A x \in Live(h) \ {o} : Payload(k, x)
         /\ \A x \in Live(h) \ {o} :
              x \notin Open(h) \/ h.heap[x].th # o => MarkRefs(k, x) = MarkRefs(h, x) /\ Refs(k, x) = Refs(h, x)
         /\ \A u \in Open(h) : UpvalValue(k, u) = k.heap[h.heap[u].th][h.heap[u].slot]
<1>1. Live(k) = Live(h) /\ Stack(k) = Stack(h)
  <2>1. Live(k) = Live(h) /\ Main \in Live(h) /\ Main \in Threads
    BY Kinds DEF Stored, Typed, Shape
  <2>2. k.heap[Main] = h.heap[Main] \/ DOMAIN k.heap[Main] = DOMAIN h.heap[Main]
    BY <2>1 DEF Stored, Stack
  <2> QED
    BY <2>1, <2>2 DEF Stack
<1>2. \A x : /\ iswhite(k, x) <=> iswhite(h, x)
             /\ isdead(k, x) <=> isdead(h, x)
             /\ isblack(k, x) <=> isblack(h, x)
             /\ isgray(k, x) <=> isgray(h, x)
  BY DEF Stored, SameMarks, iswhite, isdead, isblack, isgray, otherwhite
<1>3. White(k) = White(h) /\ \A x : Good(k, x) <=> Good(h, x)
  BY <1>1, <1>2 DEF White, Good
<1>4. Open(k) = Open(h)
  BY <1>1 DEF Open, Stored
<1>5. \A u \in Open(h) : UpvalValue(k, u) = k.heap[h.heap[u].th][h.heap[u].slot]
  BY DEF UpvalValue, Open, Stored
<1>6. ASSUME NEW x \in Live(h) \ {o} PROVE Payload(k, x)
  <2>1. Payload(h, x) /\ k.heap[x] = h.heap[x]
    BY DEF Typed, Payloads, Stored
  <2> QED
    BY <1>1, <2>1 DEF Payload
<1>7. ASSUME NEW x \in Live(h) \ {o}, x \notin Open(h) \/ h.heap[x].th # o
      PROVE  MarkRefs(k, x) = MarkRefs(h, x) /\ Refs(k, x) = Refs(h, x)
  <2>1. Payload(h, x) /\ k.heap[x] = h.heap[x]
    BY DEF Typed, Payloads, Stored
  <2>2. CASE x \in Upvalues
    <3>1. h.heap[x].open => h.heap[x].th \in Live(h) \ {o}
      BY <1>7, <2>1, <2>2 DEF Payload, Open
    <3>2. h.heap[x].open => k.heap[h.heap[x].th] = h.heap[h.heap[x].th]
      BY <3>1 DEF Stored
    <3>3. UpvalValue(k, x) = UpvalValue(h, x)
      BY <2>1, <3>2 DEF UpvalValue
    <3>4. MarkRefs(k, x) = {UpvalValue(k, x)} \ {Nil} /\ MarkRefs(h, x) = {UpvalValue(h, x)} \ {Nil}
      BY <2>2, MarkRefsOf
    <3>5. MarkRefs(k, x) = MarkRefs(h, x)
      BY <3>3, <3>4
    <3> QED
      BY <2>2, <3>5, Kinds DEF Refs
  <2>3. CASE x \notin Upvalues
    <3>1. MarkRefs(k, x) = MarkRefs(h, x)
      BY <2>1, <2>3 DEF MarkRefs
    <3> QED
      BY <2>1, <3>1 DEF Refs
  <2> QED
    BY <2>2, <2>3
<1> QED
  BY <1>1, <1>2, <1>3, <1>4, <1>5, <1>6, <1>7

\* What lists, colours and states say does not depend on the contents of objects that are not black.
LEMMA StoredPhase ==
  ASSUME NEW h, NEW loose, HeapBut(h, loose), NEW o, NEW k, Stored(h, k, o), Payload(k, o),
         o \in Userdata => (k.heap[o].fin <=> h.heap[o].fin), NEW more,
         o \in more \/ o \in Threads \cup Open(h), loose \subseteq more
  PROVE  /\ Typed(k) /\ Lists(k) /\ Awaiting(k) /\ Marks(k) /\ Phase(k, more) /\ Chains(k)
         /\ k.asserts \subseteq {"awaiting"}
<1>1. /\ Typed(h) /\ NoDangling(h) /\ Lists(h) /\ Awaiting(h) /\ Marks(h) /\ Phase(h, loose)
      /\ Chains(h) /\ h.asserts \subseteq {"awaiting"}
  BY DEF HeapBut
<1>2. /\ Live(k) = Live(h) /\ Open(k) = Open(h) /\ Stack(k) = Stack(h) /\ White(k) = White(h)
      /\ \A x : /\ Good(k, x) <=> Good(h, x)
                /\ isdead(k, x) <=> isdead(h, x)
                /\ isblack(k, x) <=> isblack(h, x)
                /\ isgray(k, x) <=> isgray(h, x)
                /\ iswhite(k, x) <=> iswhite(h, x)
      /\ \A x \in Live(h) \ {o} : Payload(k, x)
      /\ \A x \in Live(h) \ {o} :
           x \notin Open(h) \/ h.heap[x].th # o => MarkRefs(k, x) = MarkRefs(h, x)
  BY <1>1, StoredLinks
<1>3. SameMarks(h, k)
  BY DEF Stored
<1>4. Typed(k)
  <2>1. Shape(k)
    BY <1>1, <1>2, <1>3 DEF Shape, SameMarks, Typed
  <2> QED
    BY <1>2, <2>1 DEF Typed, Payloads
<1>5. Lists(k)
  BY <1>1, <1>2, <1>3 DEF Lists, SameMarks
<1>6. \A u \in Userdata \cap Live(h) : k.heap[u].fin <=> h.heap[u].fin
  BY DEF Stored
<1>7. Awaiting(k)
  <2>1. Range(h.tmudata) \subseteq Userdata /\ k.tmudata = h.tmudata
    BY <1>1, <1>3 DEF Lists, SameMarks
  <2> QED
    BY <1>1, <1>2, <1>6, <2>1 DEF Awaiting, Good
<1>8. Marks(k)
  BY <1>1, <1>2 DEF Marks
<1>9. ASSUME Marking(h, loose) PROVE Marking(k, more)
  <2>1. ASSUME NEW x \in Live(k) \ more, isblack(k, x) PROVE Settled(k, x)
    <3>1. x # o /\ x \notin Open(h) /\ x \in Live(h) \ loose /\ isblack(h, x)
      BY <1>1, <1>2, <2>1 DEF Marks
    <3>2. MarkRefs(k, x) = MarkRefs(h, x) /\ Settled(h, x)
      BY <1>2, <1>9, <3>1 DEF Marking
    <3> QED
      BY <1>2, <3>2 DEF Settled
  <2> QED
    BY <1>2, <1>3, <1>9, <2>1 DEF Marking, SameMarks
<1>10. Sweeping(h) => Sweeping(k)
  <2>1. \A u \in Open(h) : k.heap[u].th = h.heap[u].th
    BY DEF Stored, Open
  <2> QED
    BY <1>2, <1>3, <2>1 DEF Sweeping, SameMarks
<1>11. Rooted(h) => Rooted(k)
  BY <1>2 DEF Rooted
<1>12. Phase(k, more)
  BY <1>1, <1>2, <1>3, <1>9, <1>10, <1>11 DEF Phase, SameMarks
<1> QED
  BY <1>1, <1>3, <1>4, <1>5, <1>7, <1>8, <1>12 DEF Chains, SameMarks

\* The slots of a thread need no barrier.
LEMMA SlotStep ==
  ASSUME NEW h, HeapInv(h), NEW o \in Threads, NEW k, Stored(h, k, o),
         \A r \in Stack(h) : k.heap[o][r] = h.heap[o][r] \/ k.heap[o][r] \in Held(h)
  PROVE  HeapInv(k)
<1>1. Typed(h) /\ NoDangling(h) /\ HeapBut(h, {}) /\ o \in Live(h)
  BY DEF HeapInv, HeapBut, Stored
<1>2. /\ Live(k) = Live(h) /\ Open(k) = Open(h) /\ Stack(k) = Stack(h)
      /\ \A x : (Good(k, x) <=> Good(h, x)) /\ (isdead(k, x) <=> isdead(h, x))
      /\ \A x \in Live(h) \ {o} : x \notin Open(h) \/ h.heap[x].th # o => Refs(k, x) = Refs(h, x)
      /\ \A u \in Open(h) : UpvalValue(k, u) = k.heap[h.heap[u].th][h.heap[u].slot]
  BY <1>1, StoredLinks
<1>3. Payload(h, o) /\ o \notin Tables \cup Closures \cup Upvalues \cup Userdata \cup Strings
  BY <1>1, Kinds DEF Typed, Payloads
<1>4. Payload(k, o)
  <2>1. \A r \in Stack(h) : k.heap[o][r] \in Values \cup {Nil}
    BY <1>3 DEF Payload, Held
  <2> QED
    BY <1>2, <1>3, <2>1 DEF Payload, Stored
<1>5. /\ Typed(k) /\ Lists(k) /\ Awaiting(k) /\ Marks(k) /\ Phase(k, {}) /\ Chains(k)
      /\ k.asserts \subseteq {"awaiting"}
  <2> DEFINE none == {}
  <2>1. o \in none \/ o \in Threads \cup Open(h)
    OBVIOUS
  <2>2. none \subseteq none /\ HeapBut(h, none) /\ (o \in Userdata => (k.heap[o].fin <=> h.heap[o].fin))
    BY <1>1, <1>3
  <2> HIDE DEF none
  <2>3. /\ Typed(k) /\ Lists(k) /\ Awaiting(k) /\ Marks(k) /\ Phase(k, none) /\ Chains(k)
        /\ k.asserts \subseteq {"awaiting"}
    BY <1>4, <2>1, <2>2, StoredPhase
  <2> QED
    BY <2>3 DEF none
<1>6. ASSUME NEW x \in Live(h), ~isdead(h, x) PROVE Sound(k, x)
  <2>1. Sound(h, x)
    BY <1>1, <1>6 DEF NoDangling
  <2>2. CASE x = o
    <3>1. Refs(k, o) = Range(k.heap[o]) \ {Nil} /\ Refs(h, o) = Range(h.heap[o]) \ {Nil}
      BY <1>3, MarkRefsOf DEF Refs
    <3>2. DOMAIN k.heap[o] = Stack(h) /\ DOMAIN h.heap[o] = Stack(h)
      BY <1>3 DEF Payload, Stored
    <3> QED
      BY <1>2, <2>1, <2>2, <3>1, <3>2 DEF Sound, Held, Range
  <2>3. CASE x # o /\ ~(x \in Open(h) /\ h.heap[x].th = o)
    BY <1>2, <2>1, <2>3 DEF Sound
  <2>4. CASE x \in Open(h) /\ h.heap[x].th = o
    <3>1. x \in Upvalues /\ x \notin Tables /\ Payload(h, x)
      BY <1>1, <2>4, Kinds DEF Open, Typed, Payloads
    <3>2. /\ UpvalValue(k, x) = k.heap[o][h.heap[x].slot]
          /\ UpvalValue(h, x) = h.heap[o][h.heap[x].slot] /\ h.heap[x].slot \in Stack(h)
      BY <1>1, <1>2, <2>4, <3>1, UpvalTyped DEF Payload
    <3>3. Refs(k, x) = {UpvalValue(k, x)} \ {Nil} /\ Refs(h, x) = {UpvalValue(h, x)} \ {Nil}
      BY <3>1, MarkRefsOf DEF Refs
    <3> QED
      BY <1>2, <2>1, <3>2, <3>3 DEF Sound, Held
  <2> QED
    BY <2>2, <2>3, <2>4
<1>7. NoDangling(k)
  BY <1>1, <1>2, <1>6 DEF NoDangling, Stored, SameMarks
<1> QED
  BY <1>5, <1>7 DEF HeapInv, HeapBut

\* Something was stored in o, which may need a barrier for it.
LEMMA StoreStep ==
  ASSUME NEW h, HeapInv(h), NEW o, o \notin Threads \cup Open(h), NEW k, Stored(h, k, o), Payload(k, o),
         o \in Userdata => (k.heap[o].fin <=> h.heap[o].fin),
         \A x \in Refs(k, o) : x \in Refs(h, o) \/ Good(h, x)
  PROVE  HeapBut(k, {o}) /\ White(k) = White(h)
<1>1. Typed(h) /\ NoDangling(h) /\ HeapBut(h, {}) /\ o \in Live(h)
  BY DEF HeapInv, HeapBut, Stored
<1>2. /\ Live(k) = Live(h) /\ Open(k) = Open(h) /\ White(k) = White(h)
      /\ \A x : (Good(k, x) <=> Good(h, x)) /\ (isdead(k, x) <=> isdead(h, x))
      /\ \A x \in Live(h) \ {o} : x \notin Open(h) \/ h.heap[x].th # o => Refs(k, x) = Refs(h, x)
  BY <1>1, StoredLinks
<1>3. /\ Typed(k) /\ Lists(k) /\ Awaiting(k) /\ Marks(k) /\ Phase(k, {o}) /\ Chains(k)
      /\ k.asserts \subseteq {"awaiting"}
  <2> DEFINE one == {o}
             none == {}
  <2>1. o \in one /\ none \subseteq one /\ HeapBut(h, none)
    BY <1>1
  <2> HIDE DEF one, none
  <2>2. /\ Typed(k) /\ Lists(k) /\ Awaiting(k) /\ Marks(k) /\ Phase(k, one) /\ Chains(k)
        /\ k.asserts \subseteq {"awaiting"}
    BY <2>1, StoredPhase
  <2> QED
    BY <2>2 DEF one
<1>4. ASSUME NEW x \in Live(h), ~isdead(h, x) PROVE Sound(k, x)
  <2>1. Sound(h, x)
    BY <1>1, <1>4 DEF NoDangling
  <2>2. CASE x = o
    BY <1>2, <2>1, <2>2 DEF Sound
  <2>3. CASE x # o
    <3>1. x \in Open(h) => h.heap[x].th \in Threads
      BY <1>1 DEF Open, Typed, Payloads, Payload
    <3>2. Refs(k, x) = Refs(h, x)
      BY <1>2, <2>3, <3>1
    <3> QED
      BY <1>2, <2>1, <3>2 DEF Sound
  <2> QED
    BY <2>2, <2>3
<1>5. NoDangling(k)
  BY <1>1, <1>2, <1>4 DEF NoDangling, Stored, SameMarks
<1> QED
  BY <1>2, <1>3, <1>5 DEF HeapBut

\* Marking what the loose objects lead to settles them.
LEMMA MarkStep ==
  ASSUME NEW h, NEW loose, HeapBut(h, loose), h.gcstate = "propagate", NEW vs,
         \A o \in loose \cap Live(h) : MarkRefs(h, o) \cap White(h) \subseteq vs
  PROVE  HeapInv(Mark(h, vs))
<1> DEFINE k == Mark(h, vs)
           none == {}
<1>1. Ending(h) /\ Marking(h, loose) /\ h.tmudata = <<>> /\ h.sweepstrgc \in Nat
  BY PropagateEnding DEF HeapBut, Phase
<1>2. Typed(h) /\ Marks(h) /\ h.asserts \subseteq {"awaiting"} /\ Marking(h, Live(h))
  BY <1>1 DEF Ending
<1>3. loose \ none = loose /\ Live(h) \ Live(h) = {}
  OBVIOUS
<1> HIDE DEF k, none
<1>4. Typed(k) /\ Marks(k) /\ SameObjects(h, k) /\ White(k) \subseteq White(h)
  BY <1>2, MarkTyped, MarkWhite DEF k
<1>5. Marking(k, none) /\ k.asserts \subseteq {"awaiting"}
  BY <1>1, <1>2, <1>3, MarkMarks DEF k
<1>6. Marking(k, Live(h))
  BY <1>5 DEF Marking, none
<1>7. Ending(k)
  BY <1>1, <1>4, <1>5, <1>6, EndingSame
<1>8. Marking(k, {})
  BY <1>5 DEF none
<1> QED
  BY <1>1, <1>4, <1>7, <1>8, EndingInv DEF SameObjects, k

\* What is white, or not black, or settled, need not be loose.
LEMMA Tight ==
  ASSUME NEW h, NEW o, HeapBut(h, {o}), isblack(h, o) => h.gcstate # "propagate" \/ Settled(h, o)
  PROVE  HeapInv(h)
<1>1. Marking(h, {o}) /\ h.gcstate = "propagate" => Marking(h, {})
  BY DEF Marking
<1>2. Phase(h, {})
  BY <1>1 DEF HeapBut, Phase
<1> QED
  BY <1>2 DEF HeapInv, HeapBut

\* An object that is not marking's concern becomes white.
LEMMA WhitenStep ==
  ASSUME NEW h, NEW loose, HeapBut(h, loose), h.gcstate # "propagate", NEW o \in Live(h), Sound(h, o)
  PROVE  LET k == makewhite(h, o)
         IN HeapInv(k) /\ SameObjects(h, k) /\ (\A x : Good(h, x) => Good(k, x)) /\ Good(k, o)
<1> DEFINE k == makewhite(h, o)
<1>1. /\ Typed(h) /\ NoDangling(h) /\ Lists(h) /\ Awaiting(h) /\ Marks(h) /\ Phase(h, loose)
      /\ Chains(h) /\ h.asserts \subseteq {"awaiting"} /\ DOMAIN h = Fields /\ h.white \in {"white0", "white1"}
      /\ DOMAIN h.color = Live(h)
  BY DEF HeapBut, Typed, Shape
<1>2. /\ SameObjects(h, k) /\ k.gray = h.gray /\ k.grayagain = h.grayagain /\ k.weak = h.weak
      /\ k.asserts \subseteq {"awaiting"}
      /\ \A x \in Live(h) : k.color[x] = IF x = o THEN h.white ELSE h.color[x]
  BY <1>1 DEF makewhite, SameObjects, Fields
<1> HIDE DEF k
<1>3. Typed(k) /\ Lists(k)
  <2>1. \A x \in Live(h) : k.color[x] \in {"white0", "white1", "gray", "black"}
    BY <1>1, <1>2 DEF Typed, Shape
  <2> QED
    BY <1>1, <1>2, <2>1, SameTyped
<1>4. /\ Live(k) = Live(h) /\ Open(k) = Open(h)
      /\ \A x : MarkRefs(k, x) = MarkRefs(h, x) /\ Refs(k, x) = Refs(h, x)
  BY <1>2, SameRefs DEF SameObjects
<1>5. ASSUME NEW x \in Live(h)
      PROVE  /\ isdead(k, x) => isdead(h, x)
             /\ isblack(k, x) => isblack(h, x)
             /\ isgray(k, x) => isgray(h, x)
             /\ x = o => ~isdead(k, x)
             /\ x # o => (isdead(h, x) => isdead(k, x))
  BY <1>1, <1>2 DEF isdead, isblack, isgray, otherwhite, SameObjects
<1>6. (\A x : Good(h, x) => Good(k, x)) /\ Good(k, o)
  BY <1>4, <1>5 DEF Good
<1>7. NoDangling(k)
  <2>1. ASSUME NEW x \in Live(k), ~isdead(k, x) PROVE Sound(k, x)
    <3>1. Sound(h, x)
      BY <1>1, <1>4, <1>5, <2>1 DEF NoDangling
    <3> QED
      BY <1>4, <1>6, <3>1 DEF Sound
  <2> QED
    BY <1>1, <1>2, <1>6, <2>1 DEF NoDangling, SameObjects
<1>8. Awaiting(k)
  BY <1>1, <1>2, <1>4, <1>5, <1>6 DEF Awaiting, SameObjects
<1>9. Marks(k)
  BY <1>1, <1>4, <1>5 DEF Marks
<1>10. Phase(k, {})
  <2>1. Sweeping(h) => Sweeping(k)
    BY <1>2, <1>4 DEF Sweeping, SameObjects
  <2> QED
    BY <1>1, <1>2, <1>4, <2>1 DEF Phase, SameObjects
<1>11. Chains(k)
  BY <1>1, <1>2 DEF Chains
<1> QED
  BY <1>2, <1>3, <1>6, <1>7, <1>8, <1>9, <1>10, <1>11 DEF HeapInv, HeapBut, k

\* What is black is marked in this cycle, or awaits its finalizer.
LEMMA BlackPhase ==
  ASSUME NEW h, NEW loose, HeapBut(h, loose), NEW o \in Live(h), isblack(h, o) \/ isgray(h, o)
  PROVE  h.gcstate \notin {"finalize", "pause"} \/ o \in Range(h.tmudata)
<1>1. h.color[o] # h.white
  BY DEF HeapBut, Typed, Shape, isblack, isgray
<1> QED
  BY <1>1 DEF HeapBut, Phase

\* The forward barrier makes up for what was stored in o.
LEMMA BarrierStep ==
  ASSUME NEW h, NEW o, o \notin Tables, HeapBut(h, {o}), Good(h, o), NEW v, v = Nil \/ Good(h, v),
         h.gcstate = "propagate" /\ isblack(h, o) => MarkRefs(h, o) \cap White(h) \subseteq {v}
  PROVE  HeapInv(luaC_barrier(h, o, v))
<1> DEFINE k == [h EXCEPT !.asserts = @ \cup
                   (lua_assert(/\ isblack(h, o) /\ iswhite(h, v) /\ ~isdead(h, v) /\ ~isdead(h, o)
                               /\ o \notin Tables, "luaC_barrierf")
                    \cup lua_assert(h.gcstate \notin {"finalize", "pause"},
                                    IF o \in Range(h.tmudata) THEN "awaiting" ELSE "luaC_barrierf"))]
           one == {o}
           vs == {v}
<1>1. CASE ~(v \in White(h) /\ isblack(h, o))
  <2>1. luaC_barrier(h, o, v) = h
    BY <1>1 DEF luaC_barrier
  <2>2. isblack(h, o) => h.gcstate # "propagate" \/ Settled(h, o)
    BY <1>1 DEF Settled
  <2>3. HeapInv(h)
    BY <2>2, Tight
  <2> QED
    BY <2>1, <2>3
<1>2. CASE v \in White(h) /\ isblack(h, o)
  <2>1. luaC_barrier(h, o, v) = IF h.gcstate = "propagate" THEN Mark(k, vs) ELSE makewhite(k, o)
    BY <1>2 DEF luaC_barrier, luaC_barrierf
  <2>2. /\ Typed(h) /\ NoDangling(h) /\ DOMAIN h = Fields /\ h.asserts \subseteq {"awaiting"} /\ o \in Live(h)
        /\ HeapBut(h, one)
    BY DEF HeapBut, Typed, Shape, Good
  <2>3. v \in Live(h)
    BY <1>2 DEF White
  <2>4. ~isdead(h, v) /\ ~isdead(h, o)
    <3>1. v # Nil
      BY <2>2, <2>3, Kinds DEF Typed, Shape
    <3> QED
      BY <3>1 DEF Good
  <2>5. h.gcstate \notin {"finalize", "pause"} \/ o \in Range(h.tmudata)
    <3> HIDE DEF one
    <3> QED
      BY <1>2, <2>2, BlackPhase
  <2>6. SameMarks(h, k) /\ k.heap = h.heap
    BY <1>2, <2>2, <2>4, <2>5 DEF SameMarks, Fields, White, lua_assert
  <2> HIDE DEF k, one, vs
  <2>7. HeapBut(k, one) /\ White(k) = White(h)
    BY <2>2, <2>6, InvSame
  <2>8. /\ Live(k) = Live(h) /\ k.gcstate = h.gcstate
        /\ \A x : MarkRefs(k, x) = MarkRefs(h, x) /\ Refs(k, x) = Refs(h, x)
        /\ \A x : isdead(k, x) <=> isdead(h, x)
    BY <2>6, SameRefs DEF SameMarks, isdead, otherwhite
  <2>9. CASE h.gcstate = "propagate"
    <3>1. \A x \in one \cap Live(k) : MarkRefs(k, x) \cap White(k) \subseteq vs
      BY <1>2, <2>7, <2>8, <2>9 DEF one, vs
    <3>2. HeapInv(Mark(k, vs))
      BY <2>7, <2>8, <2>9, <3>1, MarkStep
    <3> QED
      BY <2>1, <2>9, <3>2
  <2>10. CASE h.gcstate # "propagate"
    <3>1. Sound(k, o)
      BY <2>2, <2>4, <2>8 DEF NoDangling, Sound, Good
    <3>2. HeapInv(makewhite(k, o))
      BY <2>2, <2>7, <2>8, <2>10, <3>1, WhitenStep
    <3> QED
      BY <2>1, <2>10, <3>2
  <2> QED
    BY <2>9, <2>10
<1> QED
  BY <1>1, <1>2

\* The backward barrier has a table that was stored in visited again.
LEMMA BarriertStep ==
  ASSUME NEW h, NEW t \in Tables, HeapBut(h, {t}), Good(h, t), NEW v,
         h.gcstate = "propagate" /\ isblack(h, t) => MarkRefs(h, t) \cap White(h) \subseteq {v}
  PROVE  LET k == luaC_barriert(h, t, v)
         IN /\ HeapInv(k) /\ SameObjects(h, k) /\ White(k) = White(h)
            /\ \A x : Good(k, x) <=> Good(h, x)
            /\ isblack(k, t) => isblack(h, t) /\ v \notin White(k)
<1>1. /\ Typed(h) /\ NoDangling(h) /\ Lists(h) /\ Awaiting(h) /\ Marks(h) /\ Phase(h, {t})
      /\ Chains(h) /\ DOMAIN h = Fields /\ h.asserts \subseteq {"awaiting"} /\ t \in Live(h) /\ ~isdead(h, t)
      /\ DOMAIN h.color = Live(h)
  BY DEF HeapBut, Typed, Shape, Good
<1>2. CASE ~(v \in White(h) /\ isblack(h, t))
  <2>1. luaC_barriert(h, t, v) = h
    BY <1>2 DEF luaC_barriert
  <2>2. isblack(h, t) => h.gcstate # "propagate" \/ Settled(h, t)
    BY <1>2 DEF Settled
  <2>3. HeapInv(h)
    BY <2>2, Tight
  <2>4. SameObjects(h, h)
    BY <1>1 DEF SameObjects
  <2> QED
    BY <1>2, <2>1, <2>3, <2>4
<1>3. CASE v \in White(h) /\ isblack(h, t)
  <2> DEFINE k == luaC_barrierback(h, t)
             one == {t}
  <2>1. luaC_barriert(h, t, v) = k
    BY <1>3 DEF luaC_barriert
  <2>2. h.gcstate \notin {"finalize", "pause"}
    <3>1. HeapBut(h, one)
      OBVIOUS
    <3>2. t \notin Range(h.tmudata)
      BY <1>1, Kinds DEF Lists
    <3> HIDE DEF one
    <3> QED
      BY <1>1, <1>3, <3>1, <3>2, BlackPhase
  <2>3. /\ SameObjects(h, k) /\ k.gray = h.gray /\ k.weak = h.weak /\ k.asserts \subseteq {"awaiting"}
        /\ k.grayagain = IF h.gcstate = "propagate" THEN h.grayagain \cup {t} ELSE h.grayagain
        /\ \A x \in Live(h) : k.color[x] = IF x = t THEN "gray" ELSE h.color[x]
    BY <1>1, <1>3, <2>2 DEF luaC_barrierback, SameObjects, Fields, lua_assert
  <2> HIDE DEF k
  <2>4. Typed(k) /\ Lists(k)
    <3>1. \A x \in Live(h) : k.color[x] \in {"white0", "white1", "gray", "black"}
      BY <1>1, <2>3 DEF Typed, Shape
    <3> QED
      BY <1>1, <2>3, <3>1, SameTyped
  <2>5. /\ Live(k) = Live(h) /\ Open(k) = Open(h)
        /\ \A x : MarkRefs(k, x) = MarkRefs(h, x) /\ Refs(k, x) = Refs(h, x)
    BY <2>3, SameRefs DEF SameObjects
  <2>6. h.white \in {"white0", "white1"} /\ otherwhite(k) = otherwhite(h)
    BY <1>1, <2>3 DEF Typed, Shape, otherwhite, SameObjects
  <2>7. ASSUME NEW x \in Live(h)
        PROVE  /\ isdead(k, x) <=> isdead(h, x)
               /\ iswhite(k, x) <=> iswhite(h, x)
               /\ isblack(k, x) <=> isblack(h, x) /\ x # t
               /\ isgray(k, x) <=> isgray(h, x) \/ x = t
    BY <1>3, <2>3, <2>6 DEF isdead, isblack, isgray, iswhite, otherwhite
  <2>8. White(k) = White(h) /\ \A x : Good(k, x) <=> Good(h, x)
    BY <2>5, <2>7 DEF White, Good
  <2>9. NoDangling(k)
    BY <1>1, <2>3, <2>5, <2>7, <2>8 DEF NoDangling, Sound, SameObjects
  <2>10. Awaiting(k)
    BY <1>1, <2>3, <2>5, <2>7, <2>8 DEF Awaiting, SameObjects
  <2>11. Marks(k)
    BY <1>1, <2>5, <2>7, Kinds DEF Marks
  <2>12. t \notin h.gray \cup h.grayagain \cup h.weak \/ h.gcstate # "propagate"
    <3> SUFFICES ASSUME h.gcstate = "propagate" PROVE t \notin h.gray \cup h.grayagain \cup h.weak
      OBVIOUS
    <3>1. \A o \in h.gray \cup h.grayagain \cup h.weak : isgray(h, o)
      BY <1>1 DEF Phase, Marking
    <3>2. ~isgray(h, t)
      BY <1>3 DEF isblack, isgray
    <3> QED
      BY <3>1, <3>2
  <2>13. ASSUME h.gcstate = "propagate" PROVE Marking(k, {}) /\ Rooted(k)
    <3>1. Marking(h, {t}) /\ Rooted(h) /\ k.grayagain = h.grayagain \cup {t}
      BY <1>1, <2>3, <2>13 DEF Phase
    <3>2. t \notin Weak /\ t \in Listed
      BY <1>1, <1>3 DEF Marks, Listed
    <3>3. \A x \in Live(k) : isblack(k, x) => Settled(k, x)
      BY <2>5, <2>7, <2>8, <3>1 DEF Marking, Settled
    <3>4. Rooted(k)
      BY <1>1, <2>7, <3>1 DEF Rooted, Typed, Shape
    <3>5. \A x \in Live(k) : isgray(k, x) => x \in Strings \cup Open(k) \cup k.gray \cup k.grayagain \cup k.weak
      BY <2>3, <2>5, <2>7, <3>1 DEF Marking
    <3>6. \A x \in k.gray \cup k.grayagain \cup k.weak : x \in Live(k) /\ isgray(k, x)
      BY <1>1, <2>3, <2>5, <2>7, <3>1 DEF Marking
    <3>7. \A x \in Live(k) : ~isdead(k, x)
      BY <2>5, <2>7, <3>1 DEF Marking
    <3>8. /\ k.gray \subseteq Listed /\ k.weak \subseteq Weak /\ k.grayagain \subseteq Listed \ Weak
          /\ k.gray \cap (k.grayagain \cup k.weak) = {} /\ k.grayagain \cap k.weak = {}
      BY <2>3, <2>12, <2>13, <3>1, <3>2 DEF Marking
    <3> QED
      BY <3>3, <3>4, <3>5, <3>6, <3>7, <3>8 DEF Marking
  <2>14. Sweeping(h) => Sweeping(k)
    <3> SUFFICES ASSUME Sweeping(h), NEW x \in Live(k), k.color[x] # k.white
                 PROVE  \/ x \in k.unswept \cup Range(k.tmudata)
                        \/ x \in Strings /\ Bucket[x] >= k.sweepstrgc
                        \/ x \in Open(k) /\ k.heap[x].th \in k.unswept
      BY DEF Sweeping
    <3>1. h.color[x] # h.white
      BY <1>3, <2>3, <2>5, <2>6 DEF isblack, SameObjects
    <3> QED
      BY <2>3, <2>5, <3>1 DEF Sweeping, SameObjects
  <2>15. Phase(k, {})
    BY <1>1, <2>2, <2>3, <2>13, <2>14 DEF Phase, SameObjects
  <2>16. Chains(k)
    BY <1>1, <2>3, <2>12 DEF Chains
  <2>17. HeapInv(k)
    BY <2>3, <2>4, <2>9, <2>10, <2>11, <2>15, <2>16 DEF HeapInv, HeapBut
  <2>18. ~isblack(k, t)
    BY <1>1, <2>7
  <2> QED
    BY <2>1, <2>3, <2>8, <2>17, <2>18
<1> QED
  BY <1>2, <1>3

\* k has o besides, new and white.
Added(h, k, o) ==
  /\ DOMAIN k = Fields /\ Live(k) = Live(h) \cup {o} /\ DOMAIN k.color = Live(k)
  /\ \A x \in Live(h) : k.heap[x] = h.heap[x] /\ k.color[x] = h.color[x]
  /\ k.color[o] = h.white /\ k.white = h.white /\ k.gcstate = h.gcstate /\ k.gray = h.gray
  /\ k.grayagain = h.grayagain /\ k.weak = h.weak /\ k.tmudata = h.tmudata
  /\ k.unswept = h.unswept /\ k.sweepstrgc = h.sweepstrgc /\ k.cur = h.cur
  /\ k.asserts = h.asserts

\* What refers to nothing dead may join the heap.
LEMMA NewStep ==
  ASSUME NEW h, HeapInv(h), NEW o \in Objects \ Live(h), NEW k, Added(h, k, o), Payload(k, o), Lists(k),
         \A x \in Refs(k, o) : Good(h, x)
  PROVE  HeapInv(k) /\ Good(k, o) /\ (\A x : Good(h, x) => Good(k, x)) /\ Stack(k) = Stack(h)
<1>1. /\ Typed(h) /\ NoDangling(h) /\ Lists(h) /\ Awaiting(h) /\ Marks(h) /\ Phase(h, {})
      /\ Chains(h) /\ DOMAIN h = Fields /\ h.asserts \subseteq {"awaiting"} /\ DOMAIN h.color = Live(h)
      /\ h.white \in {"white0", "white1"} /\ Main \in Live(h)
  BY DEF HeapInv, HeapBut, Typed, Shape
<1>2. Stack(k) = Stack(h)
  BY <1>1 DEF Stack, Added
<1>3. ASSUME NEW x \in Live(h)
      PROVE  /\ x \in Live(k) /\ x # o
             /\ isdead(k, x) <=> isdead(h, x)
             /\ iswhite(k, x) <=> iswhite(h, x)
             /\ isblack(k, x) <=> isblack(h, x)
             /\ isgray(k, x) <=> isgray(h, x)
  BY DEF Added, isdead, isblack, isgray, iswhite, otherwhite
<1>4. ~isdead(k, o) /\ ~isblack(k, o) /\ ~isgray(k, o) /\ iswhite(k, o) /\ o \in Live(k)
  BY <1>1 DEF Added, isdead, isblack, isgray, iswhite, otherwhite
<1>5. (\A x : Good(h, x) => Good(k, x)) /\ Good(k, o)
  BY <1>3, <1>4 DEF Good
<1>6. ASSUME NEW x \in Live(h)
      PROVE  /\ Payload(k, x) /\ MarkRefs(k, x) = MarkRefs(h, x) /\ Refs(k, x) = Refs(h, x)
             /\ x \in Open(k) <=> x \in Open(h)
  <2>1. Payload(h, x) /\ k.heap[x] = h.heap[x] /\ x \in Live(k)
    BY <1>1 DEF Typed, Payloads, Added
  <2>2. Payload(k, x)
    BY <1>2, <1>3, <2>1 DEF Payload
  <2>3. CASE x \in Upvalues
    <3>1. h.heap[x].open => h.heap[x].th \in Live(h)
      BY <2>1, <2>3 DEF Payload
    <3>2. UpvalValue(k, x) = UpvalValue(h, x)
      BY <2>1, <3>1 DEF UpvalValue, Added
    <3>3. MarkRefs(k, x) = {UpvalValue(k, x)} \ {Nil} /\ MarkRefs(h, x) = {UpvalValue(h, x)} \ {Nil}
      BY <2>3, MarkRefsOf
    <3> QED
      BY <2>1, <2>2, <2>3, <3>2, <3>3, Kinds DEF Refs, Open
  <2>4. CASE x \notin Upvalues
    <3>1. MarkRefs(k, x) = MarkRefs(h, x)
      BY <2>1, <2>4 DEF MarkRefs
    <3> QED
      BY <2>1, <2>2, <2>4, <3>1 DEF Refs, Open
  <2> QED
    BY <2>3, <2>4
<1>7. Typed(k)
  <2>1. Shape(k)
    BY <1>1 DEF Shape, Typed, Added
  <2> QED
    BY <1>6, <2>1 DEF Typed, Payloads, Added
<1>8. NoDangling(k)
  <2>1. ASSUME NEW x \in Live(k), ~isdead(k, x) PROVE Sound(k, x)
    <3>1. CASE x = o
      BY <1>5, <3>1 DEF Sound
    <3>2. CASE x \in Live(h)
      <4>1. Sound(h, x)
        BY <1>1, <1>3, <2>1, <3>2 DEF NoDangling
      <4> QED
        BY <1>5, <1>6, <3>2, <4>1 DEF Sound
    <3> QED
      BY <3>1, <3>2 DEF Added
  <2> QED
    BY <1>1, <1>5, <2>1 DEF NoDangling, Added
<1>9. Awaiting(k)
  <2>1. \A u \in Range(h.tmudata) : u \in Live(h)
    BY <1>1 DEF Awaiting, Good
  <2> QED
    BY <1>1, <1>3, <1>4, <1>5, <2>1 DEF Awaiting, Added
<1>10. Marks(k)
  <2> SUFFICES ASSUME NEW x \in Live(h)
               PROVE  /\ isblack(k, x) => x \notin Threads \cup Strings \cup Weak \cup Open(k)
                      /\ isgray(k, x) => x \notin Userdata
    BY <1>4 DEF Marks, Added
  <2> QED
    BY <1>1, <1>3, <1>6 DEF Marks
<1>11. White(k) = White(h) \cup {o}
  BY <1>3, <1>4 DEF White, Added
<1>12. ASSUME h.gcstate = "propagate" PROVE Marking(k, {}) /\ Rooted(k)
  <2>1. Marking(h, {}) /\ Rooted(h)
    BY <1>1, <1>12 DEF Phase
  <2>2. ASSUME NEW x \in Live(k), isblack(k, x) PROVE Settled(k, x)
    <3>1. x \in Live(h) /\ isblack(h, x) /\ ~isdead(h, x)
      BY <1>3, <1>4, <2>1, <2>2 DEF Added, Marking
    <3>2. Settled(h, x) /\ Sound(h, x)
      BY <1>1, <2>1, <3>1 DEF Marking, NoDangling
    <3>3. o \notin MarkRefs(h, x)
      BY <3>2, MarkRefsAreRefs DEF Sound, Good
    <3> QED
      BY <1>6, <1>11, <3>1, <3>2, <3>3 DEF Settled
  <2>3. Rooted(k)
    BY <1>1, <1>3, <2>1 DEF Rooted, Typed, Shape
  <2>4. \A x \in Live(k) : isgray(k, x) => x \in Strings \cup Open(k) \cup k.gray \cup k.grayagain \cup k.weak
    BY <1>3, <1>4, <1>6, <2>1 DEF Marking, Added
  <2>5. \A x \in k.gray \cup k.grayagain \cup k.weak : x \in Live(k) /\ isgray(k, x)
    BY <1>3, <2>1 DEF Marking, Added
  <2>6. \A x \in Live(k) : ~isdead(k, x)
    BY <1>3, <1>4, <2>1 DEF Marking, Added
  <2>7. /\ k.gray \subseteq Listed /\ k.weak \subseteq Weak /\ k.grayagain \subseteq Listed \ Weak
        /\ k.gray \cap (k.grayagain \cup k.weak) = {} /\ k.grayagain \cap k.weak = {}
    BY <2>1 DEF Marking, Added
  <2> QED
    BY <2>2, <2>3, <2>4, <2>5, <2>6, <2>7 DEF Marking
<1>13. ASSUME Sweeping(h) PROVE Sweeping(k)
  <2> SUFFICES ASSUME NEW x \in Live(h), k.color[x] # k.white
               PROVE  \/ x \in k.unswept \cup Range(k.tmudata)
                      \/ x \in Strings /\ Bucket[x] >= k.sweepstrgc
                      \/ x \in Open(k) /\ k.heap[x].th \in k.unswept
    BY DEF Sweeping, Added
  <2>1. h.color[x] # h.white
    BY DEF Added
  <2> QED
    BY <1>6, <1>13, <2>1 DEF Sweeping, Added
<1>14. Phase(k, {})
  <2>1. h.gcstate = "pause" => \A x \in Live(k) : k.color[x] = k.white
    BY <1>1 DEF Phase, Added
  <2>2. h.gcstate = "finalize" => \A x \in Live(k) : k.color[x] = k.white \/ x \in Range(k.tmudata)
    BY <1>1 DEF Phase, Added
  <2> QED
    BY <1>1, <1>12, <1>13, <2>1, <2>2 DEF Phase, Added
<1>15. Chains(k) /\ k.asserts \subseteq {"awaiting"}
  BY <1>1 DEF Chains, Added
<1> QED
  BY <1>2, <1>5, <1>7, <1>8, <1>9, <1>10, <1>14, <1>15 DEF HeapInv, HeapBut

LEMMA SetRegStep ==
  ASSUME NEW h, HeapInv(h), NEW r, NEW v \in Held(h)
  PROVE  HeapInv(SetReg(h, r, v))
<1> DEFINE k == SetReg(h, r, v)
           o == h.cur
<1>1. DOMAIN h = Fields /\ o \in Threads /\ o \in Live(h) /\ Typed(h)
  BY DEF HeapInv, HeapBut, Typed, Shape
<1>2. DOMAIN h.heap[o] = Stack(h)
  BY <1>1 DEF Typed, Payloads, Payload
<1>3. /\ SameMarks(h, k) /\ Live(k) = Live(h)
      /\ \A x \in Live(h) \ {o} : k.heap[x] = h.heap[x]
      /\ DOMAIN k.heap[o] = Stack(h)
      /\ \A i \in Stack(h) : k.heap[o][i] = IF i = r THEN v ELSE h.heap[o][i]
  BY <1>1, <1>2 DEF SetReg, SameMarks, Fields, Live
<1> HIDE DEF k, o
<1>4. Stored(h, k, o)
  BY <1>1, <1>3, Kinds DEF Stored
<1> QED
  BY <1>1, <1>3, <1>4, SlotStep DEF k

\* A new object, linked.
LEMMA NewKeeps ==
  ASSUME NEW h, DOMAIN h = Fields, DOMAIN h.color = Live(h), NEW o, o \notin Live(h), NEW p
  PROVE  /\ Added(h, luaC_new(h, o, p), o) /\ luaC_new(h, o, p).heap[o] = p
         /\ luaC_new(h, o, p).rootgc = h.rootgc /\ luaC_new(h, o, p).udata = h.udata
         /\ Added(h, luaC_link(h, o, p), o) /\ luaC_link(h, o, p).heap[o] = p
         /\ luaC_link(h, o, p).rootgc = h.rootgc \cup {o} /\ luaC_link(h, o, p).udata = h.udata
<1> DEFINE k == luaC_new(h, o, p)
           l == luaC_link(h, o, p)
<1>1. DOMAIN k = Fields /\ DOMAIN l = Fields
  BY DEF luaC_new, luaC_link, Fields
<1>2. /\ k.heap = Put(h.heap, o, p) /\ k.color = Put(h.color, o, h.white)
      /\ l.heap = Put(h.heap, o, p) /\ l.color = Put(h.color, o, h.white)
  BY DEF luaC_new, luaC_link, Fields
<1>3. /\ k.white = h.white /\ k.gcstate = h.gcstate /\ k.gray = h.gray
      /\ k.grayagain = h.grayagain /\ k.weak = h.weak /\ k.tmudata = h.tmudata
      /\ k.unswept = h.unswept /\ k.sweepstrgc = h.sweepstrgc /\ k.cur = h.cur
      /\ k.asserts = h.asserts /\ k.rootgc = h.rootgc /\ k.udata = h.udata
  BY DEF luaC_new, Fields
<1>4. /\ l.white = h.white /\ l.gcstate = h.gcstate /\ l.gray = h.gray
      /\ l.grayagain = h.grayagain /\ l.weak = h.weak /\ l.tmudata = h.tmudata
      /\ l.unswept = h.unswept /\ l.sweepstrgc = h.sweepstrgc /\ l.cur = h.cur
      /\ l.asserts = h.asserts /\ l.rootgc = h.rootgc \cup {o} /\ l.udata = h.udata
  BY DEF luaC_new, luaC_link, Fields
<1> HIDE DEF k, l
<1>5. /\ DOMAIN Put(h.heap, o, p) = Live(h) \cup {o} /\ DOMAIN Put(h.color, o, h.white) = Live(h) \cup {o}
      /\ Put(h.heap, o, p)[o] = p /\ Put(h.color, o, h.white)[o] = h.white
      /\ \A x \in Live(h) : /\ Put(h.heap, o, p)[x] = h.heap[x]
                            /\ Put(h.color, o, h.white)[x] = h.color[x]
  BY DEF Put, Live
<1>6. Added(h, k, o)
  BY <1>1, <1>2, <1>3, <1>5 DEF Added, Live
<1>7. Added(h, l, o)
  BY <1>1, <1>2, <1>4, <1>5 DEF Added, Live
<1> QED
  BY <1>2, <1>3, <1>4, <1>5, <1>6, <1>7 DEF k, l

LEMMA LinkStep ==
  ASSUME NEW h, HeapInv(h), NEW o \in (Tables \cup Closures \cup Coroutines) \ Live(h), NEW p,
         LET k == luaC_link(h, o, p) IN Payload(k, o) /\ \A x \in Refs(k, o) : Good(h, x)
  PROVE  LET k == luaC_link(h, o, p)
         IN HeapInv(k) /\ o \in Held(k) /\ (\A x : Good(h, x) => Good(k, x)) /\ Stack(k) = Stack(h)
<1> DEFINE k == luaC_link(h, o, p)
<1>1. Lists(h) /\ DOMAIN h = Fields /\ DOMAIN h.color = Live(h) /\ Payload(k, o) /\ \A x \in Refs(k, o) : Good(h, x)
  BY DEF HeapInv, HeapBut, Typed, Shape
<1>2. Added(h, k, o) /\ k.rootgc = h.rootgc \cup {o} /\ k.udata = h.udata
  BY <1>1, NewKeeps
<1> HIDE DEF k
<1>3. o \in Objects /\ o \in Listed /\ o \notin Upvalues /\ o \notin Userdata /\ o \in Values
  BY Kinds DEF Objects, Values, Listed, Threads
<1>4. Open(k) = Open(h)
  BY <1>2, <1>3 DEF Open, Added
<1>5. Lists(k)
  BY <1>1, <1>2, <1>3, <1>4 DEF Lists, Added
<1>6. HeapInv(k) /\ Good(k, o) /\ (\A x : Good(h, x) => Good(k, x)) /\ Stack(k) = Stack(h)
  BY <1>1, <1>2, <1>3, <1>5, NewStep
<1> QED
  BY <1>3, <1>6 DEF Held, k

LEMMA Loosen ==
  ASSUME NEW h, HeapInv(h), NEW loose
  PROVE  HeapBut(h, loose)
<1>1. Marking(h, {}) => Marking(h, loose)
  BY DEF Marking
<1> QED
  BY <1>1 DEF HeapInv, HeapBut, Phase

\* What the slots of the running thread hold, and what the program has at hand.
LEMMA SlotsHeld ==
  ASSUME HeapInv(g)
  PROVE  /\ Slots = Stack(g) /\ g.cur \in Threads /\ g.cur \in Live(g) /\ Good(g, g.cur)
         /\ \A r \in Slots : Regs[r] \in Held(g)
         /\ Nil \in Held(g)
<1>1. /\ g.cur \in Threads /\ g.cur \in Live(g) /\ ~isdead(g, g.cur) /\ Sound(g, g.cur)
      /\ Payload(g, g.cur) /\ Good(g, g.cur)
  BY DEF HeapInv, HeapBut, Typed, Shape, Payloads, NoDangling, Good
<1>2. Slots = Stack(g) /\ \A r \in Slots : Regs[r] \in Values \cup {Nil}
  BY <1>1 DEF Payload, Slots, Regs
<1>3. Refs(g, g.cur) = Range(Regs) \ {Nil}
  BY <1>1, Kinds, MarkRefsOf DEF Refs, Regs
<1>4. ASSUME NEW r \in Slots PROVE Regs[r] \in Held(g)
  <2>1. Regs[r] \in Range(Regs)
    BY DEF Range, Slots
  <2> QED
    BY <1>1, <1>2, <1>3, <2>1 DEF Sound, Held
<1> QED
  BY <1>1, <1>2, <1>4 DEF Held

LEMMA AtHandGood ==
  ASSUME HeapInv(g), NEW kind \in SUBSET Objects, NEW o \in AtHand(kind)
  PROVE  Good(g, o) /\ o \in Live(g) /\ o \in kind /\ Payload(g, o) /\ \A x \in Refs(g, o) : Good(g, x)
<1>1. /\ Slots = Stack(g) /\ \A r \in Slots : Regs[r] \in Held(g)
  BY SlotsHeld
<1>2. Good(g, Globals) /\ Sound(g, Globals) /\ Typed(g)
  BY DEF HeapInv, HeapBut, NoDangling, Good
<1>3. Refs(g, Globals) = (DOMAIN g.heap[Globals] \ {Field}) \cup Range(g.heap[Globals])
  BY Kinds DEF Refs
<1>4. o \in kind /\ o # Nil
  BY Kinds DEF AtHand
<1>5. CASE o \in Range(Regs)
  <2>1. o \in Held(g)
    BY <1>1, <1>5 DEF Range, Slots
  <2>2. Good(g, o)
    BY <1>4, <2>1 DEF Held
  <2>3. o \in Live(g) /\ Payload(g, o)
    BY <1>2, <2>2 DEF Good, Typed, Payloads
  <2> QED
    BY <1>4, <2>2, <2>3 DEF HeapInv, HeapBut, NoDangling, Good, Sound
<1>6. CASE o \in {Globals} \cup Range(g.heap[Globals])
  <2>1. Good(g, o)
    BY <1>2, <1>3, <1>6 DEF Sound
  <2>2. o \in Live(g) /\ Payload(g, o)
    BY <1>2, <2>1 DEF Good, Typed, Payloads
  <2> QED
    BY <1>4, <2>1, <2>2 DEF HeapInv, HeapBut, NoDangling, Good, Sound
<1> QED
  BY <1>5, <1>6 DEF AtHand

LEMMA NewTableStep ==
  ASSUME HeapInv(g), NEW r, NewTable(r)
  PROVE  HeapInv(g')
<1>1. PICK t \in Fresh(Tables) : g' = SetReg(luaC_link(g, t, <<>>), r, t)
  BY DEF NewTable
<1> DEFINE empty == <<>>
           k == luaC_link(g, t, empty)
<1>2. t \in Tables \ Live(g) /\ DOMAIN g = Fields /\ DOMAIN g.color = Live(g)
  BY DEF Fresh, HeapInv, HeapBut, Typed, Shape
<1>3. DOMAIN empty = {} /\ Range(empty) = {}
  BY DEF Range
<1> HIDE DEF empty
<1>4. k.heap[t] = empty
  BY <1>2, NewKeeps
<1>5. Payload(k, t) /\ \A x \in Refs(k, t) : Good(g, x)
  BY <1>2, <1>3, <1>4, Kinds DEF Payload, Refs
<1>6. HeapInv(k) /\ t \in Held(k)
  BY <1>2, <1>5, LinkStep
<1> HIDE DEF k
<1>7. HeapInv(SetReg(k, r, t))
  BY <1>6, SetRegStep
<1> QED
  BY <1>1, <1>7 DEF k, empty

LEMMA NewThreadStep ==
  ASSUME HeapInv(g), NEW r, NewThread(r)
  PROVE  HeapInv(g')
<1>1. PICK t \in Fresh(Coroutines) : g' = SetReg(luaC_link(g, t, NoRegs), r, t)
  BY DEF NewThread
<1> DEFINE p == NoRegs
           k == luaC_link(g, t, p)
<1>2. t \in Coroutines \ Live(g) /\ DOMAIN g = Fields /\ DOMAIN g.color = Live(g)
  BY DEF Fresh, HeapInv, HeapBut, Typed, Shape
<1>3. DOMAIN p = Stack(g) /\ \A i \in Stack(g) : p[i] = Nil
  BY SlotsHeld DEF NoRegs
<1> HIDE DEF p
<1>4. k.heap[t] = p /\ Added(g, k, t)
  BY <1>2, NewKeeps
<1>5. Stack(k) = Stack(g)
  BY <1>4 DEF Added, Stack, HeapInv, HeapBut, Typed, Shape
<1>6. Payload(k, t) /\ \A x \in Refs(k, t) : Good(g, x)
  <2> HIDE DEF k
  <2>1. t \in Threads
    BY <1>2 DEF Threads
  <2>2. t \notin Tables \cup Closures \cup Upvalues \cup Userdata \cup Strings
    BY <2>1, Kinds
  <2>3. Refs(k, t) = Range(p) \ {Nil}
    BY <1>4, <2>1, <2>2, MarkRefsOf DEF Refs
  <2>4. Range(p) \subseteq {Nil}
    BY <1>3 DEF Range
  <2> QED
    BY <1>3, <1>4, <1>5, <2>1, <2>2, <2>3, <2>4 DEF Payload
<1>7. HeapInv(k) /\ t \in Held(k)
  BY <1>2, <1>6, LinkStep
<1> HIDE DEF k
<1>8. HeapInv(SetReg(k, r, t))
  BY <1>7, SetRegStep
<1> QED
  BY <1>1, <1>8 DEF k, p

\* A userdata at the head of the list.
LEMMA Prepended ==
  ASSUME NEW s \in Seq(Userdata), NEW u \in Userdata
  PROVE  LET k == <<u>> \o s
         IN /\ k \in Seq(Userdata) /\ Range(k) = {u} \cup Range(s)
            /\ IsInjective(s) /\ u \notin Range(s) => IsInjective(k)
<1> DEFINE one == <<u>>
<1>1. one \in Seq(Userdata) /\ Range(one) = {u} /\ IsInjective(one)
  BY DEF Range, IsInjective
<1> HIDE DEF one
<1>2. one \o s \in Seq(Userdata) /\ Range(one \o s) = Range(one) \cup Range(s)
  BY <1>1, ConcatProperties, RangeConcatenation
<1>3. ASSUME IsInjective(s), u \notin Range(s) PROVE IsInjective(one \o s)
  <2>1. Range(one) \cap Range(s) = {}
    BY <1>1, <1>3
  <2> QED
    BY <1>1, <1>3, <2>1, ConcatInjective
<1> QED
  BY <1>1, <1>2, <1>3 DEF one

LEMMA NewUdataStep ==
  ASSUME HeapInv(g), NEW r, luaS_newudata(r)
  PROVE  HeapInv(g')
<1>1. PICK u \in Fresh(Userdata) :
        \E mades : g' = SetReg([AfterMain(luaC_new(g, u, [env |-> Globals, fin |-> FALSE]), u) EXCEPT
                                  !.made = mades, !.fins[u] = 0], r, u)
  BY DEF luaS_newudata
<1>2. PICK mades : g' = SetReg([AfterMain(luaC_new(g, u, [env |-> Globals, fin |-> FALSE]), u) EXCEPT
                                  !.made = mades, !.fins[u] = 0], r, u)
  BY <1>1
<1> DEFINE p == [env |-> Globals, fin |-> FALSE]
           c == luaC_new(g, u, p)
           k == [AfterMain(c, u) EXCEPT !.made = mades, !.fins[u] = 0]
<1>3. /\ u \in Userdata \ Live(g) /\ DOMAIN g = Fields /\ DOMAIN g.color = Live(g) /\ Lists(g)
      /\ Good(g, Globals) /\ u \in Objects /\ u \in Values
  BY DEF Fresh, HeapInv, HeapBut, Typed, Shape, NoDangling, Objects, Values
<1>4. DOMAIN p = {"env", "fin"} /\ p.env = Globals /\ p.fin = FALSE
  OBVIOUS
<1> HIDE DEF p
<1>5. Added(g, c, u) /\ c.heap[u] = p /\ c.rootgc = g.rootgc /\ c.udata = g.udata
  BY <1>3, NewKeeps
<1> HIDE DEF c
<1>6. DOMAIN c = Fields
  BY <1>5 DEF Added
<1>7. /\ DOMAIN k = Fields /\ k.heap = c.heap /\ k.color = c.color /\ k.white = c.white
      /\ k.gcstate = c.gcstate /\ k.gray = c.gray
      /\ k.grayagain = c.grayagain /\ k.weak = c.weak /\ k.tmudata = c.tmudata
      /\ k.unswept = c.unswept /\ k.sweepstrgc = c.sweepstrgc /\ k.cur = c.cur
      /\ k.asserts = c.asserts /\ k.rootgc = c.rootgc /\ k.udata = <<u>> \o c.udata
  BY <1>6 DEF AfterMain, Fields
<1> HIDE DEF k
<1>8. Added(g, k, u) /\ k.heap[u] = p
  BY <1>5, <1>7 DEF Added, Live
<1>9. Payload(k, u) /\ \A x \in Refs(k, u) : Good(g, x)
  <2>1. u \notin Tables \cup Closures \cup Upvalues \cup Threads \cup Strings
    BY <1>3, Kinds
  <2>2. Refs(k, u) = {Globals}
    BY <1>3, <1>4, <1>8, <2>1, MarkRefsOf DEF Refs
  <2> QED
    BY <1>3, <1>4, <1>8, <2>1, <2>2, Kinds DEF Payload
<1>10. Lists(k)
  <2>1. g.udata \in Seq(Userdata) /\ IsInjective(g.udata) /\ u \notin Range(g.udata) \cup Range(g.tmudata)
    BY <1>3 DEF Lists
  <2>2. k.udata \in Seq(Userdata) /\ Range(k.udata) = {u} \cup Range(g.udata) /\ IsInjective(k.udata)
    BY <1>3, <1>5, <1>7, <2>1, Prepended
  <2>3. Open(k) = Open(g) /\ u \notin Listed \cup Upvalues
    BY <1>3, <1>8, Kinds DEF Open, Added, Listed
  <2> QED
    BY <1>3, <1>5, <1>7, <1>8, <2>1, <2>2, <2>3 DEF Lists, Added
<1>11. HeapInv(k) /\ Good(k, u)
  BY <1>3, <1>8, <1>9, <1>10, NewStep
<1>12. HeapInv(SetReg(k, r, u))
  BY <1>3, <1>11, SetRegStep DEF Held
<1> QED
  BY <1>2, <1>12 DEF k, c, p

LEMMA NewStringStep ==
  ASSUME HeapInv(g), NEW r, luaS_newlstr(r)
  PROVE  HeapInv(g')
<1>1. PICK s \in cast.objects \cap Strings :
        g' = SetReg(IF s \notin Live(g) THEN luaC_new(g, s, <<>>)
                    ELSE IF isdead(g, s) THEN makewhite(g, s) ELSE g, r, s)
  BY DEF luaS_newlstr
<1> DEFINE empty == <<>>
           k == IF s \notin Live(g) THEN luaC_new(g, s, empty)
                ELSE IF isdead(g, s) THEN makewhite(g, s) ELSE g
<1>2. /\ DOMAIN g = Fields /\ DOMAIN g.color = Live(g) /\ Lists(g) /\ HeapBut(g, {})
      /\ s \in Strings /\ s \in Objects /\ s \in Values
      /\ s \notin Tables \cup Closures \cup Upvalues \cup Userdata \cup Threads
  BY Kinds DEF HeapInv, HeapBut, Typed, Shape, Objects, Values
<1>3. \A h : Refs(h, s) = {} /\ Payload(h, s)
  BY <1>2, MarkRefsOf DEF Refs, Payload
<1> HIDE DEF empty
<1>4. HeapInv(k) /\ Good(k, s)
  <2>1. CASE s \notin Live(g)
    <3> DEFINE c == luaC_new(g, s, empty)
    <3>1. Added(g, c, s) /\ c.rootgc = g.rootgc /\ c.udata = g.udata
      BY <1>2, <2>1, NewKeeps
    <3>2. k = c
      BY <2>1
    <3> HIDE DEF c, k
    <3>3. Lists(c)
      <4>1. Open(c) = Open(g) /\ s \notin Listed
        BY <1>2, <3>1 DEF Open, Added, Listed
      <4> QED
        BY <1>2, <3>1, <4>1 DEF Lists, Added
    <3> QED
      BY <1>2, <1>3, <2>1, <3>1, <3>2, <3>3, NewStep
  <2>2. CASE s \in Live(g) /\ isdead(g, s)
    <3> DEFINE none == {}
    <3>1. HeapBut(g, none) /\ Sound(g, s)
      BY <1>2, <1>3 DEF Sound
    <3>2. g.gcstate # "propagate"
      BY <1>2, <2>2 DEF HeapBut, Phase, Marking
    <3>3. k = makewhite(g, s)
      BY <2>2
    <3> HIDE DEF none, k
    <3> QED
      BY <2>2, <3>1, <3>2, <3>3, WhitenStep
  <2>3. CASE s \in Live(g) /\ ~isdead(g, s)
    BY <2>3 DEF Good
  <2> QED
    BY <2>1, <2>2, <2>3
<1> HIDE DEF k
<1>5. HeapInv(SetReg(k, r, s))
  BY <1>2, <1>4, SetRegStep DEF Held
<1> QED
  BY <1>1, <1>5 DEF k, empty

\* The upvalue of a slot is there, and not dead.
LEMMA FindupvalStep ==
  ASSUME HeapInv(g), NEW slot \in Slots, NEW u \in Upvalues,
         u \in Live(g) => u \in Open(g) /\ g.heap[u].th = g.cur /\ g.heap[u].slot = slot
  PROVE  LET k == luaF_findupval(g, u, slot)
         IN HeapInv(k) /\ Good(k, u) /\ (\A x : Good(g, x) => Good(k, x)) /\ Live(k) \subseteq Live(g) \cup {u}
<1> DEFINE uv == [open |-> TRUE, th |-> g.cur, slot |-> slot, v |-> Nil]
           k == luaF_findupval(g, u, slot)
<1>1. k = IF u \notin Live(g) THEN luaC_new(g, u, uv) ELSE IF isdead(g, u) THEN makewhite(g, u) ELSE g
  BY DEF luaF_findupval
<1>2. /\ DOMAIN g = Fields /\ DOMAIN g.color = Live(g) /\ Lists(g) /\ HeapBut(g, {}) /\ Typed(g)
      /\ u \in Objects /\ u \notin Tables \cup Closures \cup Strings \cup Userdata \cup Threads \cup Listed
  BY Kinds DEF HeapInv, HeapBut, Typed, Shape, Objects, Listed
<1>3. /\ Slots = Stack(g) /\ g.cur \in Threads /\ g.cur \in Live(g) /\ Regs[slot] \in Held(g)
  BY SlotsHeld
<1>4. DOMAIN uv = {"open", "th", "slot", "v"} /\ uv.open = TRUE /\ uv.th = g.cur /\ uv.slot = slot /\ uv.v = Nil
  OBVIOUS
<1> SUFFICES HeapInv(k) /\ Good(k, u) /\ (\A x : Good(g, x) => Good(k, x)) /\ Live(k) \subseteq Live(g) \cup {u}
  OBVIOUS
<1> HIDE DEF k
<1>5. CASE u \notin Live(g)
  <2> HIDE DEF uv
  <2> DEFINE c == luaC_new(g, u, uv)
  <2>1. Added(g, c, u) /\ c.heap[u] = uv /\ c.rootgc = g.rootgc /\ c.udata = g.udata
    BY <1>2, <1>5, NewKeeps
  <2>2. k = c
    BY <1>1, <1>5
  <2> HIDE DEF c
  <2>3. Live(c) = Live(g) \cup {u} /\ Stack(c) = Stack(g) /\ c.heap[g.cur] = g.heap[g.cur]
    BY <1>2, <1>3, <2>1 DEF Added, Stack, Typed, Shape
  <2>4. Open(c) = Open(g) \cup {u}
    BY <1>4, <2>1, <2>3 DEF Open, Added
  <2>5. Payload(c, u)
    BY <1>2, <1>3, <1>4, <2>1, <2>3 DEF Payload
  <2>6. UpvalValue(c, u) = Regs[slot]
    BY <1>4, <2>1, <2>3 DEF UpvalValue, Regs
  <2>7. \A x \in Refs(c, u) : Good(g, x)
    <3>1. Refs(c, u) = {UpvalValue(c, u)} \ {Nil}
      BY <1>2, MarkRefsOf DEF Refs
    <3> QED
      BY <1>3, <2>6, <3>1 DEF Held
  <2>8. Lists(c)
    BY <1>2, <1>5, <2>1, <2>3, <2>4 DEF Lists, Added
  <2> QED
    BY <1>2, <1>5, <2>1, <2>2, <2>3, <2>5, <2>7, <2>8, NewStep
<1>6. CASE u \in Live(g) /\ isdead(g, u)
  <2> DEFINE none == {}
  <2>1. HeapBut(g, none)
    BY <1>2
  <2>2. Sound(g, u)
    <3>1. UpvalValue(g, u) = g.heap[g.cur][slot]
      BY <1>6 DEF UpvalValue, Open
    <3>2. Refs(g, u) = {UpvalValue(g, u)} \ {Nil}
      BY <1>2, MarkRefsOf DEF Refs
    <3> QED
      BY <1>3, <3>1, <3>2 DEF Held, Sound, Regs
  <2>3. g.gcstate # "propagate"
    BY <1>2, <1>6 DEF HeapBut, Phase, Marking
  <2>4. k = makewhite(g, u)
    BY <1>1, <1>6
  <2> HIDE DEF none
  <2>5. HeapInv(k) /\ SameObjects(g, k) /\ (\A x : Good(g, x) => Good(k, x)) /\ Good(k, u)
    BY <1>6, <2>1, <2>2, <2>3, <2>4, WhitenStep
  <2> QED
    BY <2>5 DEF SameObjects, Live
<1>7. CASE u \in Live(g) /\ ~isdead(g, u)
  BY <1>1, <1>7 DEF Good
<1> QED
  BY <1>5, <1>6, <1>7

LEMMA NewClosureStep ==
  ASSUME HeapInv(g), NEW r, NewClosure(r)
  PROVE  HeapInv(g')
<1> DEFINE With(h, c, u) == SetReg(luaC_link(h, c, [env |-> Globals, upvals |-> {u}]), r, c)
           Found(slot) == {u \in OpenAt(g, g.cur, slot) : g.heap[u].slot = slot}
<1>1. PICK c \in Fresh(Closures) :
        \/ \E slot \in Slots : \E u \in IF Found(slot) = {} THEN Fresh(Upvalues) ELSE Found(slot) :
             g' = With(luaF_findupval(g, u, slot), c, u)
        \/ \E f \in AtHand(Closures) : \E u \in g.heap[f].upvals : g' = With(g, c, u)
  BY DEF NewClosure
<1>2. c \in Closures \ Live(g)
  BY DEF Fresh
<1>3. ASSUME NEW h, HeapInv(h), NEW u \in Upvalues, Good(h, u), c \notin Live(h), g' = With(h, c, u)
      PROVE  HeapInv(g')
  <2> DEFINE p == [env |-> Globals, upvals |-> {u}]
             k == luaC_link(h, c, p)
  <2>1. DOMAIN p = {"env", "upvals"} /\ p.env = Globals /\ p.upvals = {u}
    OBVIOUS
  <2> HIDE DEF p
  <2>2. DOMAIN h = Fields /\ DOMAIN h.color = Live(h) /\ Good(h, Globals)
    BY <1>3 DEF HeapInv, HeapBut, Typed, Shape, NoDangling
  <2>3. k.heap[c] = p
    BY <1>3, <2>2, NewKeeps
  <2>4. Refs(k, c) = {Globals, u}
    BY <1>2, <2>1, <2>3, Kinds, MarkRefsOf DEF Refs
  <2>5. Payload(k, c) /\ \A x \in Refs(k, c) : Good(h, x)
    BY <1>2, <1>3, <2>1, <2>2, <2>3, <2>4, Kinds DEF Payload
  <2>6. HeapInv(k) /\ c \in Held(k)
    BY <1>2, <1>3, <2>5, LinkStep
  <2> HIDE DEF k
  <2>7. HeapInv(SetReg(k, r, c))
    BY <2>6, SetRegStep
  <2> QED
    BY <1>3, <2>7 DEF k, p
<1>4. CASE \E f \in AtHand(Closures) : \E u \in g.heap[f].upvals : g' = With(g, c, u)
  <2>1. PICK f \in AtHand(Closures) : \E u \in g.heap[f].upvals : g' = With(g, c, u)
    BY <1>4
  <2>2. PICK u \in g.heap[f].upvals : g' = With(g, c, u)
    BY <2>1
  <2>3. Closures \subseteq Objects
    BY DEF Objects, Values
  <2>4. f \in Closures /\ Payload(g, f) /\ \A x \in Refs(g, f) : Good(g, x)
    BY <2>1, <2>3, AtHandGood
  <2>5. Refs(g, f) = {g.heap[f].env} \cup g.heap[f].upvals
    BY <2>4, Kinds, MarkRefsOf DEF Refs
  <2>6. Good(g, u) /\ u \in Upvalues
    BY <2>2, <2>4, <2>5 DEF Payload
  <2> HIDE DEF With
  <2> QED
    BY <1>2, <1>3, <2>2, <2>6
<1>5. CASE \E slot \in Slots : \E u \in IF Found(slot) = {} THEN Fresh(Upvalues) ELSE Found(slot) :
             g' = With(luaF_findupval(g, u, slot), c, u)
  <2>1. PICK slot \in Slots : \E u \in IF Found(slot) = {} THEN Fresh(Upvalues) ELSE Found(slot) :
             g' = With(luaF_findupval(g, u, slot), c, u)
    BY <1>5
  <2>2. PICK u \in IF Found(slot) = {} THEN Fresh(Upvalues) ELSE Found(slot) :
             g' = With(luaF_findupval(g, u, slot), c, u)
    BY <2>1
  <2> HIDE DEF With
  <2>3. u \in Upvalues /\ (u \in Live(g) => u \in Open(g) /\ g.heap[u].th = g.cur /\ g.heap[u].slot = slot)
    BY <2>2 DEF Fresh, OpenAt, Open
  <2> DEFINE h == luaF_findupval(g, u, slot)
  <2>4. HeapInv(h) /\ Good(h, u) /\ Live(h) \subseteq Live(g) \cup {u}
    BY <2>1, <2>3, FindupvalStep
  <2>5. c \notin Live(h)
    BY <1>2, <2>3, <2>4, Kinds
  <2> HIDE DEF h
  <2>6. g' = With(h, c, u)
    BY <2>2 DEF h
  <2> QED
    BY <1>3, <2>3, <2>4, <2>5, <2>6
<1> QED
  BY <1>1, <1>4, <1>5

\* Loading from what is at hand.
LEMMA LoadStep ==
  ASSUME HeapInv(g), NEW r, GetTable(r) \/ GetUpval(r) \/ lua_getfenv(r) \/ Forget(r)
  PROVE  HeapInv(g')
<1>1. Tables \subseteq Objects /\ Closures \subseteq Objects /\ Closures \cup Userdata \subseteq Objects
      /\ Tables \subseteq Values
  BY DEF Objects, Values
<1>2. CASE GetTable(r)
  <2>1. PICK t \in AtHand(Tables) : \E k \in DOMAIN g.heap[t] : g' = SetReg(g, r, g.heap[t][k])
    BY <1>2 DEF GetTable
  <2>2. PICK k \in DOMAIN g.heap[t] : g' = SetReg(g, r, g.heap[t][k])
    BY <2>1
  <2>3. t \in Tables /\ Payload(g, t) /\ \A x \in Refs(g, t) : Good(g, x)
    BY <1>1, AtHandGood
  <2>4. g.heap[t][k] \in Refs(g, t) /\ g.heap[t][k] \in Values
    BY <2>3 DEF Refs, Range, Payload
  <2>5. g.heap[t][k] \in Held(g)
    BY <2>3, <2>4 DEF Held
  <2> QED
    BY <2>2, <2>5, SetRegStep
<1>3. CASE GetUpval(r)
  <2>1. PICK c \in AtHand(Closures) : \E u \in g.heap[c].upvals : g' = SetReg(g, r, UpvalValue(g, u))
    BY <1>3 DEF GetUpval
  <2>2. PICK u \in g.heap[c].upvals : g' = SetReg(g, r, UpvalValue(g, u))
    BY <2>1
  <2>3. c \in Closures /\ Payload(g, c) /\ \A x \in Refs(g, c) : Good(g, x)
    BY <1>1, AtHandGood
  <2>4. Refs(g, c) = {g.heap[c].env} \cup g.heap[c].upvals
    BY <2>3, Kinds, MarkRefsOf DEF Refs
  <2>5. Good(g, u) /\ u \in Upvalues \cap Live(g)
    BY <2>3, <2>4 DEF Payload, Good
  <2>6. Sound(g, u) /\ UpvalValue(g, u) \in Values \cup {Nil}
    BY <2>5, UpvalTyped DEF HeapInv, HeapBut, NoDangling, Good
  <2>7. Refs(g, u) = {UpvalValue(g, u)} \ {Nil}
    BY <2>5, Kinds, MarkRefsOf DEF Refs
  <2>8. UpvalValue(g, u) \in Held(g)
    BY <2>6, <2>7 DEF Held, Sound
  <2> QED
    BY <2>2, <2>8, SetRegStep
<1>4. CASE lua_getfenv(r)
  <2>1. PICK o \in AtHand(Closures \cup Userdata) : g' = SetReg(g, r, g.heap[o].env)
    BY <1>4 DEF lua_getfenv
  <2>2. o \in Closures \cup Userdata /\ Payload(g, o) /\ \A x \in Refs(g, o) : Good(g, x)
    BY <1>1, AtHandGood
  <2>3. g.heap[o].env \in Refs(g, o) /\ g.heap[o].env \in Tables
    BY <2>2, Kinds, MarkRefsOf DEF Refs, Payload
  <2>4. g.heap[o].env \in Held(g)
    BY <1>1, <2>2, <2>3 DEF Held
  <2> QED
    BY <2>1, <2>4, SetRegStep
<1>5. CASE Forget(r)
  BY <1>5, SlotsHeld, SetRegStep DEF Forget
<1> QED
  BY <1>2, <1>3, <1>4, <1>5

\* Another thread runs.
LEMMA CurStep ==
  ASSUME NEW h, HeapInv(h), NEW k, NEW c \in Threads, Good(h, c), k.cur = c, k.heap = h.heap,
         DOMAIN k = Fields, k.color = h.color, k.white = h.white, k.gcstate = h.gcstate,
         k.gray = h.gray, k.grayagain = h.grayagain, k.weak = h.weak, k.rootgc = h.rootgc,
         k.udata = h.udata, k.tmudata = h.tmudata, k.unswept = h.unswept,
         k.sweepstrgc = h.sweepstrgc, k.asserts = h.asserts
  PROVE  HeapInv(k)
<1>1. Healthy(h) /\ Typed(h) /\ Phase(h, {}) /\ Chains(h) /\ h.asserts \subseteq {"awaiting"}
  BY DEF HeapInv, HeapBut, Healthy
<1>2. h.gcstate \in {"pause", "propagate", "sweepstring", "sweep", "finalize", "closing"}
      /\ c \in Threads \cap Live(h)
  BY <1>1 DEF Typed, Shape, Good
<1>3. Healthy(k) /\ Live(k) = Live(h) /\ Open(k) = Open(h)
  BY <1>1, <1>2, SameHealthy
<1>4. Marking(h, {}) => Marking(k, {})
  <2> DEFINE none == {}
  <2> HIDE DEF none
  <2>1. Marking(h, none) => Marking(k, none)
    BY <1>1, <1>2, SameHeap
  <2> QED
    BY <2>1 DEF none
<1>5. (Rooted(h) => Rooted(k)) /\ (Sweeping(h) => Sweeping(k))
  BY <1>3 DEF Rooted, Sweeping, iswhite
<1>6. Phase(k, {}) /\ Chains(k)
  BY <1>1, <1>3, <1>4, <1>5 DEF Phase, Chains
<1> QED
  BY <1>1, <1>3, <1>6 DEF HeapInv, HeapBut, Healthy

LEMMA SwitchStep ==
  ASSUME HeapInv(g), NEW r \in Slots, Resume(r) \/ Yield(r)
  PROVE  HeapInv(g')
<1>1. PICK c \in Threads : Good(g, c) /\ \E s, a \in Slots \cup {1} :
         a \in Slots /\ g' = [g EXCEPT !.cur = c, !.heap[c][s] = Regs[a]]
  <2>1. CASE Resume(r)
    <3>1. Regs[r] \in Coroutines /\ Regs[r] \in Held(g) /\ Regs[r] # Nil
      BY <2>1, SlotsHeld, Kinds DEF Resume, Values
    <3>2. Good(g, Regs[r]) /\ Regs[r] \in Threads
      BY <3>1 DEF Held, Threads
    <3> QED
      BY <2>1, <3>2 DEF Resume
  <2>2. CASE Yield(r)
    <3>1. Good(g, Main) /\ Main \in Threads
      BY Kinds DEF HeapInv, HeapBut, NoDangling
    <3> QED
      BY <2>2, <3>1 DEF Yield
  <2> QED
    BY <2>1, <2>2
<1>2. PICK s, a \in Slots \cup {1} : a \in Slots /\ g' = [g EXCEPT !.cur = c, !.heap[c][s] = Regs[a]]
  BY <1>1
<1> DEFINE v == Regs[a]
           m == [g EXCEPT !.heap[c][s] = v]
           k == [g EXCEPT !.cur = c, !.heap[c][s] = v]
<1>3. DOMAIN g = Fields /\ Typed(g) /\ c \in Live(g) /\ v \in Held(g) /\ DOMAIN g.heap[c] = Stack(g)
  BY <1>1, <1>2, SlotsHeld DEF HeapInv, HeapBut, Typed, Shape, Good, Payloads, Payload
<1> HIDE DEF v
<1>4. /\ SameMarks(g, m) /\ Live(m) = Live(g) /\ m.asserts = g.asserts
      /\ \A x \in Live(g) \ {c} : m.heap[x] = g.heap[x]
      /\ DOMAIN m.heap[c] = Stack(g)
      /\ \A i \in Stack(g) : m.heap[c][i] = IF i = s THEN v ELSE g.heap[c][i]
  BY <1>3 DEF SameMarks, Fields, Live
<1>5. /\ k.cur = c /\ k.heap = m.heap /\ DOMAIN k = Fields /\ k.color = g.color /\ k.white = g.white
      /\ k.gcstate = g.gcstate
      /\ k.gray = g.gray /\ k.grayagain = g.grayagain /\ k.weak = g.weak /\ k.rootgc = g.rootgc
      /\ k.udata = g.udata /\ k.tmudata = g.tmudata /\ k.unswept = g.unswept
      /\ k.sweepstrgc = g.sweepstrgc /\ k.asserts = g.asserts
  BY <1>3 DEF Fields
<1>6. g' = k
  BY <1>2 DEF v
<1> HIDE DEF m, k
<1>7. Stored(g, m, c)
  BY <1>1, <1>3, <1>4, Kinds DEF Stored
<1>8. HeapInv(m)
  BY <1>3, <1>4, <1>7, SlotStep
<1>9. Good(m, c)
  BY <1>1, <1>3, <1>7, StoredLinks
<1>10. HeapInv(k)
  BY <1>4, <1>5, <1>8, <1>9, CurStep DEF SameMarks
<1> QED
  BY <1>6, <1>10

\* A key is dropped from a table.
LEMMA DropStep ==
  ASSUME NEW h, HeapInv(h), NEW t \in Tables, Good(h, t), NEW S \in SUBSET DOMAIN h.heap[t]
  PROVE  HeapInv([h EXCEPT !.heap[t] = Restrict(h.heap[t], S)])
<1> DEFINE p == Restrict(h.heap[t], S)
           k == [h EXCEPT !.heap[t] = p]
<1>1. DOMAIN h = Fields /\ t \in Live(h) /\ Typed(h) /\ Payload(h, t) /\ t \notin Threads \cup Open(h)
      /\ t \notin Upvalues \cup Userdata \cup Closures \cup Strings /\ Marks(h) /\ Phase(h, {})
  BY Kinds DEF HeapInv, HeapBut, Typed, Shape, Good, Open, Payloads
<1>2. DOMAIN p = S /\ \A x \in S : p[x] = h.heap[t][x]
  BY DEF Restrict
<1>3. /\ SameMarks(h, k) /\ Live(k) = Live(h) /\ k.heap[t] = p
      /\ \A x \in Live(h) \ {t} : k.heap[x] = h.heap[x]
  BY <1>1 DEF SameMarks, Fields, Live
<1> HIDE DEF p, k
<1>4. Stored(h, k, t)
  BY <1>1, <1>3 DEF Stored
<1>5. Payload(k, t)
  BY <1>1, <1>2, <1>3 DEF Payload
<1>6. Range(p) \subseteq Range(h.heap[t])
  BY <1>2 DEF Range
<1>7. Refs(k, t) \subseteq Refs(h, t) /\ MarkRefs(k, t) \subseteq MarkRefs(h, t)
  BY <1>2, <1>3, <1>6, MarkRefsOf DEF Refs
<1>8. HeapBut(k, {t}) /\ White(k) = White(h)
  BY <1>1, <1>4, <1>5, <1>7, StoreStep
<1>9. isblack(k, t) => k.gcstate # "propagate" \/ Settled(k, t)
  <2>1. isblack(h, t) /\ h.gcstate = "propagate" => Settled(h, t)
    BY <1>1 DEF Phase, Marking
  <2> QED
    BY <1>3, <1>7, <1>8, <2>1 DEF SameMarks, isblack, Settled
<1>10. HeapInv(k)
  BY <1>8, <1>9, Tight
<1> QED
  BY <1>10 DEF k, p

\* A value is stored in a table, after the barrier for a new key, before the one for the value.
LEMMA PutStep ==
  ASSUME NEW h, HeapInv(h), NEW t \in Tables, Good(h, t), NEW key \in Values \cup {Field},
         key = Field \/ Good(h, key), NEW v \in Values, Good(h, v),
         isblack(h, t) => key \in DOMAIN h.heap[t] \cup {Field} \/ key \notin White(h)
  PROVE  HeapInv(luaC_barriert([h EXCEPT !.heap[t] = Put(h.heap[t], key, v)], t, v))
<1> DEFINE p == Put(h.heap[t], key, v)
           k == [h EXCEPT !.heap[t] = p]
<1>1. DOMAIN h = Fields /\ t \in Live(h) /\ Typed(h) /\ Payload(h, t) /\ t \notin Threads \cup Open(h)
      /\ t \notin Upvalues \cup Userdata \cup Closures \cup Strings /\ Marks(h) /\ Phase(h, {})
  BY Kinds DEF HeapInv, HeapBut, Typed, Shape, Good, Open, Payloads
<1>2. DOMAIN p = DOMAIN h.heap[t] \cup {key} /\ p[key] = v /\ \A x \in DOMAIN h.heap[t] : p[x] = h.heap[t][x] \/ p[x] = v
  BY DEF Put
<1>3. /\ SameMarks(h, k) /\ Live(k) = Live(h) /\ k.heap[t] = p
      /\ \A x \in Live(h) \ {t} : k.heap[x] = h.heap[x]
  BY <1>1 DEF SameMarks, Fields, Live
<1> HIDE DEF p, k
<1>4. Stored(h, k, t)
  BY <1>1, <1>3 DEF Stored
<1>5. Payload(k, t)
  BY <1>1, <1>2, <1>3 DEF Payload
<1>6. Range(p) \subseteq Range(h.heap[t]) \cup {v}
  BY <1>2 DEF Range
<1>7. Refs(k, t) \subseteq Refs(h, t) \cup ({key, v} \ {Field})
  BY <1>2, <1>3, <1>6, Kinds DEF Refs
<1>8. HeapBut(k, {t}) /\ White(k) = White(h)
  <2>1. \A x \in Refs(k, t) : x \in Refs(h, t) \/ Good(h, x)
    BY <1>7
  <2> QED
    BY <1>1, <1>4, <1>5, <2>1, StoreStep
<1>9. k.gcstate = "propagate" /\ isblack(k, t) => MarkRefs(k, t) \cap White(k) \subseteq {v}
  <2> SUFFICES ASSUME k.gcstate = "propagate", isblack(k, t) PROVE MarkRefs(k, t) \cap White(k) \subseteq {v}
    OBVIOUS
  <2>1. isblack(h, t) /\ h.gcstate = "propagate"
    BY <1>3 DEF SameMarks, isblack
  <2>2. Settled(h, t)
    BY <1>1, <2>1 DEF Phase, Marking
  <2>3. t \notin Weak
    BY <1>1, <2>1 DEF Marks
  <2>4. Mode[t] = {}
    BY <2>3 DEF Weak
  <2>5. /\ MarkRefs(k, t) = (DOMAIN p \ {Field}) \cup Range(p)
        /\ MarkRefs(h, t) = (DOMAIN h.heap[t] \ {Field}) \cup Range(h.heap[t])
    BY <1>3, <2>4, MarkRefsOf
  <2>6. MarkRefs(h, t) \cap White(h) = {}
    BY <2>2 DEF Settled
  <2> QED
    BY <1>2, <1>6, <1>8, <2>1, <2>5, <2>6
<1>10. Good(k, t)
  BY <1>1, <1>4, StoredLinks
<1>11. HeapInv(luaC_barriert(k, t, v))
  BY <1>8, <1>9, <1>10, BarriertStep
<1> QED
  BY <1>11 DEF k, p

LEMMA SetTableStep ==
  ASSUME HeapInv(g), NEW r \in Slots, SetTable(r)
  PROVE  HeapInv(g')
<1>1. PICK t \in AtHand(Tables), k \in {Field} \cup Range(Regs) :
        LET map == g.heap[t]
            v == Regs[r]
            keyed == IF k \in DOMAIN map \cup {Field} THEN g ELSE luaC_barriert(g, t, k)
        IN /\ k \in KeysOf(t) /\ (v # Nil \/ k \in DOMAIN map)
           /\ g' = IF v = Nil THEN [g EXCEPT !.heap[t] = Restrict(map, DOMAIN map \ {k})]
                   ELSE luaC_barriert([keyed EXCEPT !.heap[t] = Put(map, k, v)], t, v)
  BY DEF SetTable
<1> DEFINE map == g.heap[t]
           v == Regs[r]
           keyed == IF k \in DOMAIN map \cup {Field} THEN g ELSE luaC_barriert(g, t, k)
<1>2. t \in Tables /\ Good(g, t)
  <2>1. Tables \subseteq Objects
    BY DEF Objects, Values
  <2> QED
    BY <2>1, AtHandGood
<1>3. v \in Held(g)
  BY SlotsHeld
<1>4. k \in Values \cup {Field} /\ (k = Field \/ Good(g, k))
  <2>1. k \in KeysOf(t) => k \in Values \cup {Field}
    BY DEF KeysOf, Values
  <2>2. k # Field => k \in Held(g)
    BY SlotsHeld DEF Range, Slots
  <2>3. k \in Values => k # Nil
    BY Kinds
  <2>4. k \in Values \cup {Field}
    BY <1>1, <2>1
  <2> QED
    BY <2>2, <2>3, <2>4 DEF Held
<1>5. CASE v = Nil
  <2>1. g' = [g EXCEPT !.heap[t] = Restrict(map, DOMAIN map \ {k})]
    BY <1>1, <1>5
  <2> DEFINE S == DOMAIN map \ {k}
  <2>2. S \in SUBSET DOMAIN g.heap[t]
    OBVIOUS
  <2> HIDE DEF S
  <2>3. HeapInv([g EXCEPT !.heap[t] = Restrict(g.heap[t], S)])
    BY <1>2, <2>2, DropStep
  <2> QED
    BY <2>1, <2>3 DEF S
<1>6. CASE v # Nil
  <2>1. g' = luaC_barriert([keyed EXCEPT !.heap[t] = Put(map, k, v)], t, v)
    BY <1>1, <1>6
  <2>2. v \in Values /\ Good(g, v)
    BY <1>3, <1>6 DEF Held
  <2>3. /\ HeapInv(keyed) /\ keyed.heap = g.heap /\ (\A x : Good(g, x) => Good(keyed, x))
        /\ isblack(keyed, t) => k \in DOMAIN g.heap[t] \cup {Field} \/ k \notin White(keyed)
    <3>1. CASE k \in DOMAIN map \cup {Field}
      BY <3>1
    <3>2. CASE k \notin DOMAIN map \cup {Field}
      <4> DEFINE b == luaC_barriert(g, t, k)
      <4>1. HeapBut(g, {t})
        <5> DEFINE one == {t}
        <5> HIDE DEF one
        <5>1. HeapBut(g, one)
          BY Loosen
        <5> QED
          BY <5>1 DEF one
      <4>2. g.gcstate = "propagate" /\ isblack(g, t) => MarkRefs(g, t) \cap White(g) \subseteq {k}
        BY <1>2 DEF HeapInv, HeapBut, Phase, Marking, Settled, Good
      <4>3. /\ HeapInv(b) /\ SameObjects(g, b) /\ (\A x : Good(b, x) <=> Good(g, x))
            /\ isblack(b, t) => isblack(g, t) /\ k \notin White(b)
        BY <1>2, <4>1, <4>2, BarriertStep
      <4>4. keyed = b
        BY <3>2
      <4> HIDE DEF b, keyed
      <4> QED
        BY <4>3, <4>4 DEF SameObjects
    <3> QED
      BY <3>1, <3>2
  <2> HIDE DEF keyed, v
  <2>4. HeapInv(luaC_barriert([keyed EXCEPT !.heap[t] = Put(keyed.heap[t], k, v)], t, v))
    BY <1>2, <1>4, <2>2, <2>3, PutStep
  <2> QED
    BY <2>1, <2>3, <2>4
<1> QED
  BY <1>5, <1>6

LEMMA SetUpvalStep ==
  ASSUME HeapInv(g), NEW r \in Slots, SetUpval(r)
  PROVE  HeapInv(g')
<1>1. PICK c \in AtHand(Closures) : \E u \in g.heap[c].upvals :
        LET uv == g.heap[u]
            set == IF uv.open THEN [g EXCEPT !.heap[uv.th][uv.slot] = Regs[r]]
                   ELSE [g EXCEPT !.heap[u].v = Regs[r]]
        IN g' = luaC_barrier(set, u, Regs[r])
  BY DEF SetUpval
<1>2. PICK u \in g.heap[c].upvals :
        LET uv == g.heap[u]
            set == IF uv.open THEN [g EXCEPT !.heap[uv.th][uv.slot] = Regs[r]]
                   ELSE [g EXCEPT !.heap[u].v = Regs[r]]
        IN g' = luaC_barrier(set, u, Regs[r])
  BY <1>1
<1>3. u \in Upvalues /\ Good(g, u) /\ u \in Live(g) /\ Payload(g, u)
  <2>1. Closures \subseteq Objects
    BY DEF Objects, Values
  <2>2. c \in Closures /\ Payload(g, c) /\ \A x \in Refs(g, c) : Good(g, x)
    BY <2>1, AtHandGood
  <2>3. Refs(g, c) = {g.heap[c].env} \cup g.heap[c].upvals
    BY <2>2, Kinds, MarkRefsOf DEF Refs
  <2>4. Good(g, u) /\ u \in Upvalues
    BY <2>2, <2>3 DEF Payload
  <2> QED
    BY <2>4 DEF Good, HeapInv, HeapBut, Typed, Payloads
<1> DEFINE v == Regs[r]
<1>4. v \in Held(g)
  BY SlotsHeld
<1>5. DOMAIN g = Fields /\ Typed(g) /\ Marks(g) /\ Phase(g, {})
      /\ u \notin Tables \cup Closures \cup Strings \cup Userdata \cup Threads
  BY <1>3, Kinds DEF HeapInv, HeapBut, Typed, Shape
<1>6. v = Nil \/ Good(g, v)
  BY <1>4 DEF Held
<1>7. CASE g.heap[u].open
  <2> DEFINE th == g.heap[u].th
             slot == g.heap[u].slot
             k == [g EXCEPT !.heap[th][slot] = v]
  <2>1. g' = luaC_barrier(k, u, v)
    BY <1>2, <1>7
  <2>2. th \in Threads /\ th \in Live(g) /\ u \in Open(g) /\ u # th
    BY <1>3, <1>5, <1>7 DEF Payload, Open
  <2>3. DOMAIN g.heap[th] = Stack(g)
    BY <1>5, <2>2 DEF Typed, Payloads, Payload
  <2> HIDE DEF v, th, slot
  <2>4. /\ SameMarks(g, k) /\ Live(k) = Live(g)
        /\ \A x \in Live(g) \ {th} : k.heap[x] = g.heap[x]
        /\ DOMAIN k.heap[th] = Stack(g)
        /\ \A i \in Stack(g) : k.heap[th][i] = IF i = slot THEN v ELSE g.heap[th][i]
    BY <1>5, <2>2, <2>3 DEF SameMarks, Fields, Live
  <2> HIDE DEF k
  <2>5. Stored(g, k, th)
    BY <2>2, <2>4, Kinds DEF Stored
  <2>6. HeapInv(k)
    BY <1>4, <2>2, <2>4, <2>5, SlotStep
  <2>7. ~isblack(k, u)
    BY <1>3, <1>5, <2>2, <2>4 DEF Marks, SameMarks, isblack
  <2>8. luaC_barrier(k, u, v) = k
    BY <2>7 DEF luaC_barrier
  <2> QED
    BY <2>1, <2>6, <2>8
<1>8. CASE ~g.heap[u].open
  <2> DEFINE k == [g EXCEPT !.heap[u].v = v]
  <2>1. g' = luaC_barrier(k, u, v)
    BY <1>2, <1>8
  <2>2. DOMAIN g.heap[u] = {"open", "th", "slot", "v"} /\ u \notin Open(g)
    BY <1>3, <1>8 DEF Payload, Open
  <2> HIDE DEF v
  <2>3. /\ SameMarks(g, k) /\ Live(k) = Live(g)
        /\ \A x \in Live(g) \ {u} : k.heap[x] = g.heap[x]
        /\ k.heap[u] = [g.heap[u] EXCEPT !.v = v]
    BY <1>3, <1>5 DEF SameMarks, Fields, Live
  <2> HIDE DEF k
  <2>4. /\ DOMAIN k.heap[u] = {"open", "th", "slot", "v"} /\ k.heap[u].open = g.heap[u].open
        /\ k.heap[u].th = g.heap[u].th /\ k.heap[u].slot = g.heap[u].slot /\ k.heap[u].v = v
    BY <2>2, <2>3
  <2>5. Stored(g, k, u)
    BY <1>3, <1>5, <2>3, <2>4 DEF Stored
  <2>6. Stack(k) = Stack(g)
    BY <1>5, <2>5, StoredLinks
  <2>7. Payload(k, u)
    BY <1>3, <1>4, <1>5, <1>8, <2>4, <2>6 DEF Payload, Held
  <2>8. UpvalValue(k, u) = v
    BY <1>8, <2>4 DEF UpvalValue
  <2>9. Refs(k, u) = {v} \ {Nil} /\ MarkRefs(k, u) = {v} \ {Nil}
    BY <1>5, <1>3, <2>8, MarkRefsOf DEF Refs
  <2>10. HeapBut(k, {u})
    <3>1. \A x \in Refs(k, u) : Good(g, x)
      BY <1>6, <2>9
    <3> QED
      BY <1>5, <2>2, <2>5, <2>7, <3>1, StoreStep
  <2>11. Good(k, u) /\ (v = Nil \/ Good(k, v))
    BY <1>3, <1>5, <1>6, <2>5, StoredLinks
  <2>12. HeapInv(luaC_barrier(k, u, v))
    <3>1. u \notin Tables
      BY <1>3, Kinds
    <3> QED
      BY <2>9, <2>10, <2>11, <3>1, BarrierStep
  <2> QED
    BY <2>1, <2>12
<1> QED
  BY <1>7, <1>8

LEMMA SetfenvStep ==
  ASSUME HeapInv(g), NEW r \in Slots, lua_setfenv(r)
  PROVE  HeapInv(g')
<1>1. PICK o \in AtHand(Closures \cup Userdata) :
        Regs[r] \in Tables /\ g' = luaC_barrier([g EXCEPT !.heap[o].env = Regs[r]], o, Regs[r])
  BY DEF lua_setfenv
<1> DEFINE v == Regs[r]
           k == [g EXCEPT !.heap[o].env = v]
<1>2. o \in Closures \cup Userdata /\ Good(g, o) /\ o \in Live(g) /\ Payload(g, o)
  <2>1. Closures \cup Userdata \subseteq Objects
    BY DEF Objects, Values
  <2> QED
    BY <2>1, AtHandGood
<1>3. v \in Tables /\ Good(g, v)
  <2>1. v \in Held(g) /\ v \in Tables
    BY <1>1, SlotsHeld
  <2>2. v # Nil
    BY <2>1, Kinds DEF Values
  <2> HIDE DEF v
  <2> QED
    BY <2>1, <2>2 DEF Held
<1>4. DOMAIN g = Fields /\ Typed(g) /\ Marks(g) /\ Phase(g, {})
      /\ o \notin Tables \cup Upvalues \cup Strings \cup Threads \cup Open(g)
  BY <1>2, Kinds DEF HeapInv, HeapBut, Typed, Shape, Open
<1>5. "env" \in DOMAIN g.heap[o]
  BY <1>2 DEF Payload
<1>6. g' = luaC_barrier(k, o, v)
  BY <1>1
<1> HIDE DEF v
<1>7. /\ SameMarks(g, k) /\ Live(k) = Live(g)
      /\ \A x \in Live(g) \ {o} : k.heap[x] = g.heap[x]
      /\ k.heap[o] = [g.heap[o] EXCEPT !.env = v]
  BY <1>2, <1>4 DEF SameMarks, Fields, Live
<1> HIDE DEF k
<1>8. /\ DOMAIN k.heap[o] = DOMAIN g.heap[o] /\ k.heap[o].env = v
      /\ k.heap[o].fin = g.heap[o].fin /\ k.heap[o].upvals = g.heap[o].upvals
  BY <1>5, <1>7
<1>9. Stored(g, k, o)
  BY <1>2, <1>4, <1>7 DEF Stored
<1>10. Payload(k, o)
  BY <1>2, <1>3, <1>4, <1>8, Kinds DEF Payload
<1>11. \A x \in MarkRefs(k, o) : x \in MarkRefs(g, o) \/ x = v
  BY <1>2, <1>8, MarkRefsOf
<1>12. Refs(k, o) = MarkRefs(k, o) /\ Refs(g, o) = MarkRefs(g, o)
  BY <1>4 DEF Refs
<1>13. HeapBut(k, {o}) /\ White(k) = White(g)
  <2>1. \A x \in Refs(k, o) : x \in Refs(g, o) \/ Good(g, x)
    BY <1>3, <1>11, <1>12
  <2> QED
    BY <1>4, <1>8, <1>9, <1>10, <2>1, StoreStep
<1>14. Good(k, o) /\ Good(k, v)
  BY <1>2, <1>3, <1>4, <1>9, StoredLinks
<1>15. k.gcstate = "propagate" /\ isblack(k, o) => MarkRefs(k, o) \cap White(k) \subseteq {v}
  <2>1. isblack(g, o) /\ g.gcstate = "propagate" => Settled(g, o)
    BY <1>2, <1>4 DEF Phase, Marking
  <2> QED
    BY <1>7, <1>11, <1>13, <2>1 DEF SameMarks, isblack, Settled
<1>16. HeapInv(luaC_barrier(k, o, v))
  BY <1>4, <1>13, <1>14, <1>15, BarrierStep
<1> QED
  BY <1>6, <1>16

\* What the closed upvalues still had to be visited for is marked, or they are white.
LEMMA LinkupvalStep ==
  ASSUME NEW h, HeapInv(h), NEW rest \in SUBSET Open(h), NEW dead \in SUBSET Open(h), rest \cap dead = {},
         \A u \in dead : isdead(h, u), \A u \in rest : ~isdead(h, u)
  PROVE  HeapInv(luaC_linkupval(Unstacked(h, rest, dead), {u \in rest : isgray(h, u)}))
<1> DEFINE q == {u \in rest : isgray(h, u)}
           c == Unstacked(h, rest, dead)
           new == IF c.gcstate = "propagate" THEN "black" ELSE c.white
           l == [c EXCEPT !.color = [o \in DOMAIN c.color |-> IF o \in q THEN new ELSE c.color[o]],
                          !.asserts = @ \cup lua_assert(q = {} \/ c.gcstate \notin {"finalize", "pause"},
                                                        "luaC_linkupval")]
           vs == {c.heap[u].v : u \in q}
<1>1. luaC_linkupval(c, q) = IF c.gcstate = "propagate" THEN Mark(l, vs) ELSE l
  BY DEF luaC_linkupval
<1>2. /\ Typed(h) /\ NoDangling(h) /\ Lists(h) /\ Awaiting(h) /\ Marks(h) /\ Phase(h, {}) /\ Chains(h)
      /\ h.asserts \subseteq {"awaiting"} /\ DOMAIN h = Fields /\ Healthy(h) /\ h.white \in {"white0", "white1"}
  BY DEF HeapInv, HeapBut, Typed, Shape, Healthy
<1>3. /\ DOMAIN c = Fields
      /\ Live(c) = Live(h) \ dead /\ DOMAIN c.color = Live(h) \ dead
      /\ c.white = h.white /\ c.udata = h.udata
      /\ c.gray = h.gray /\ c.grayagain = h.grayagain /\ c.weak = h.weak /\ c.asserts = h.asserts
      /\ c.unswept = h.unswept /\ c.sweepstrgc = h.sweepstrgc /\ c.tmudata = h.tmudata
      /\ c.gcstate = h.gcstate /\ c.cur = h.cur
  BY <1>2, UnstackedKeeps
<1>4. /\ Healthy(c) /\ Open(c) = Open(h) \ (rest \cup dead)
      /\ \A o \in Live(c) : isdead(c, o) <=> isdead(h, o)
      /\ \A o \in Live(c) : c.color[o] = h.color[o] /\ MarkRefs(c, o) = MarkRefs(h, o)
      /\ \A o \in Live(c) \ rest : c.heap[o] = h.heap[o]
      /\ \A u \in rest : u \in Live(c) /\ c.heap[u].v = UpvalValue(h, u) /\ ~c.heap[u].open
  <2>1. LET x == Unstacked(h, rest, dead)
        IN /\ Healthy(x) /\ Live(x) = Live(h) \ dead /\ Open(x) = Open(h) \ (rest \cup dead)
           /\ \A o \in Live(x) : isdead(x, o) <=> isdead(h, o)
           /\ \A o \in Live(x) : x.color[o] = h.color[o] /\ MarkRefs(x, o) = MarkRefs(h, o)
           /\ \A o \in Live(x) \ rest : x.heap[o] = h.heap[o]
           /\ \A u \in rest : u \in Live(x) /\ x.heap[u].v = UpvalValue(h, u) /\ ~x.heap[u].open
    BY <1>2, UnstackedHealthy, Zenon
  <2> QED
    BY <2>1
<1> HIDE DEF c
<1>5. Open(h) \subseteq Upvalues /\ q \subseteq Upvalues
  BY DEF Open
<1>6. q = {} \/ h.gcstate \notin {"finalize", "pause"}
  <2> SUFFICES ASSUME NEW u \in q PROVE h.gcstate \notin {"finalize", "pause"}
    OBVIOUS
  <2> DEFINE none == {}
  <2>1. HeapBut(h, none)
    BY DEF HeapInv
  <2> HIDE DEF none
  <2>2. u \in Live(h) /\ isgray(h, u) /\ u \notin Range(h.tmudata)
    BY <1>2, <1>5, Kinds DEF Lists, Open
  <2> QED
    BY <2>1, <2>2, BlackPhase
<1>7. /\ SameObjects(c, l) /\ l.gray = h.gray /\ l.grayagain = h.grayagain /\ l.weak = h.weak
      /\ l.asserts \subseteq {"awaiting"}
      /\ \A o \in Live(c) : l.color[o] = IF o \in q THEN new ELSE h.color[o]
  BY <1>2, <1>3, <1>4, <1>6 DEF SameObjects, Fields, lua_assert
<1> DEFINE black == c.gcstate = "propagate"
<1>8. new = IF black THEN "black" ELSE h.white
  BY <1>3
<1> HIDE DEF l, new
<1>9. Typed(l) /\ Lists(l)
  <2>1. \A o \in Live(c) : l.color[o] \in {"white0", "white1", "gray", "black"}
    BY <1>2, <1>3, <1>7, <1>8 DEF Typed, Shape
  <2> QED
    BY <1>4, <1>7, <2>1, SameTyped DEF Healthy
<1>10. /\ Live(l) = Live(c) /\ Open(l) = Open(c)
       /\ \A o : MarkRefs(l, o) = MarkRefs(c, o) /\ Refs(l, o) = Refs(c, o)
       /\ \A u : UpvalValue(l, u) = UpvalValue(c, u)
  BY <1>7, SameRefs DEF SameObjects
<1>11. ASSUME NEW o \in Live(c)
       PROVE  /\ isdead(l, o) <=> isdead(h, o)
              /\ o \notin q => /\ iswhite(l, o) <=> iswhite(h, o)
                               /\ isblack(l, o) <=> isblack(h, o)
                               /\ isgray(l, o) <=> isgray(h, o)
              /\ o \in q => /\ ~isgray(l, o) /\ isgray(h, o)
                            /\ isblack(l, o) <=> black
                            /\ iswhite(l, o) <=> ~black
  <2>1. otherwhite(l) = otherwhite(h) /\ otherwhite(h) # h.white /\ otherwhite(h) \in {"white0", "white1"}
    BY <1>2, <1>3, <1>7 DEF SameObjects, otherwhite
  <2>2. o \notin q => l.color[o] = h.color[o]
    BY <1>7
  <2>3. o \in q => l.color[o] = (IF black THEN "black" ELSE h.white) /\ h.color[o] = "gray"
    BY <1>7, <1>8 DEF isgray
  <2> QED
    BY <1>2, <2>1, <2>2, <2>3 DEF isdead, iswhite, isblack, isgray
<1>12. NoDangling(l)
  BY <1>4, <1>7, <1>10, <1>11 DEF Healthy, NoDangling, Sound, Good, SameObjects
<1>13. Awaiting(l)
  BY <1>4, <1>7, <1>10, <1>11 DEF Healthy, Awaiting, Good, SameObjects
<1>14. Marks(l)
  <2> SUFFICES ASSUME NEW o \in Live(c)
               PROVE  /\ isblack(l, o) => o \notin Threads \cup Strings \cup Weak \cup Open(c)
                      /\ isgray(l, o) => o \notin Userdata
    BY <1>10 DEF Marks
  <2>1. CASE o \in q
    BY <1>4, <1>5, <1>11, <2>1, Kinds
  <2>2. CASE o \notin q
    BY <1>2, <1>3, <1>4, <1>11, <2>2 DEF Marks
  <2> QED
    BY <2>1, <2>2
<1>15. Chains(l)
  BY <1>2, <1>7 DEF Chains
<1>16. CASE h.gcstate = "propagate"
  <2>1. Marking(h, {}) /\ Rooted(h) /\ black
    BY <1>2, <1>3, <1>16 DEF Phase
  <2>2. White(l) \subseteq White(h)
    BY <1>3, <1>10, <1>11, <2>1 DEF White
  <2>3. ASSUME NEW o \in Live(l) \ q, isblack(l, o) PROVE Settled(l, o)
    <3>1. isblack(h, o) /\ o \in Live(h) /\ MarkRefs(l, o) = MarkRefs(h, o)
      BY <1>3, <1>4, <1>10, <1>11, <2>3
    <3> QED
      BY <2>1, <2>2, <3>1 DEF Marking, Settled
  <2>4. ASSUME NEW o \in Live(l), isgray(l, o)
        PROVE  o \in Strings \cup Open(l) \cup l.gray \cup l.grayagain \cup l.weak
    <3>1. o \notin q /\ isgray(h, o) /\ o \in Live(h)
      BY <1>3, <1>10, <1>11, <2>4
    <3>2. o \in Strings \cup Open(h) \cup h.gray \cup h.grayagain \cup h.weak
      BY <2>1, <3>1 DEF Marking
    <3>3. o \notin rest /\ o \notin dead
      BY <1>3, <1>10, <3>1
    <3> QED
      BY <1>4, <1>7, <1>10, <3>2, <3>3
  <2>5. ASSUME NEW o \in l.gray \cup l.grayagain \cup l.weak PROVE o \in Live(l) /\ isgray(l, o)
    <3>1. o \in Live(h) /\ isgray(h, o) /\ o \in Listed
      BY <1>7, <2>1, Kinds DEF Marking, Listed
    <3>2. o \notin Upvalues
      BY <3>1, Kinds DEF Listed
    <3> QED
      BY <1>3, <1>5, <1>10, <1>11, <3>1, <3>2
  <2>6. \A o \in Live(l) : ~isdead(l, o)
    BY <1>3, <1>10, <1>11, <2>1 DEF Marking
  <2>7. Marking(l, q)
    BY <1>7, <2>1, <2>3, <2>4, <2>5, <2>6 DEF Marking
  <2>8. Rooted(l)
    <3>1. Main \notin q /\ Globals \notin q
      BY <1>5, Kinds
    <3>2. Main \in Live(c) /\ Globals \in Live(c)
      BY <1>4 DEF Healthy, Typed, Shape
    <3> QED
      BY <1>11, <2>1, <3>1, <3>2 DEF Rooted
  <2>9. Phase(l, q)
    BY <1>2, <1>3, <1>7, <1>16, <2>7, <2>8 DEF Phase, SameObjects
  <2>10. HeapBut(l, q) /\ l.gcstate = "propagate"
    BY <1>3, <1>7, <1>9, <1>12, <1>13, <1>14, <1>15, <1>16, <2>9 DEF HeapBut, SameObjects
  <2>11. ASSUME NEW u \in q \cap Live(l) PROVE MarkRefs(l, u) \cap White(l) \subseteq vs
    <3>1. UpvalValue(l, u) = c.heap[u].v
      BY <1>4, <1>10 DEF UpvalValue
    <3>2. MarkRefs(l, u) = {UpvalValue(l, u)} \ {Nil}
      BY <1>5, MarkRefsOf
    <3> QED
      BY <3>1, <3>2
  <2> HIDE DEF q, vs
  <2>12. HeapInv(Mark(l, vs))
    BY <2>10, <2>11, MarkStep
  <2>13. c.gcstate = "propagate"
    BY <1>3, <1>16
  <2> QED
    BY <1>1, <2>12, <2>13 DEF q, vs, c
<1>17. CASE h.gcstate # "propagate"
  <2>1. ~black /\ new = h.white
    BY <1>3, <1>8, <1>17
  <2>2. ASSUME NEW o \in Live(l), l.color[o] # l.white PROVE o \in Live(h) /\ o \notin rest /\ h.color[o] # h.white
    <3>1. o \notin q /\ o \in Live(h) /\ h.color[o] # h.white
      BY <1>3, <1>7, <1>10, <2>1, <2>2 DEF SameObjects
    <3>2. ASSUME o \in rest PROVE FALSE
      <4>1. ~isgray(h, o) /\ ~isdead(h, o) /\ ~isblack(h, o)
        BY <1>2, <3>1, <3>2 DEF Marks
      <4> QED
        BY <1>2, <3>1, <4>1 DEF Typed, Shape, isgray, isdead, isblack, otherwhite
    <3> QED
      BY <3>1, <3>2
  <2>3. Sweeping(h) => Sweeping(l)
    <3> SUFFICES ASSUME Sweeping(h), NEW o \in Live(l), l.color[o] # l.white
                 PROVE  \/ o \in l.unswept \cup Range(l.tmudata)
                        \/ o \in Strings /\ Bucket[o] >= l.sweepstrgc
                        \/ o \in Open(l) /\ l.heap[o].th \in l.unswept
      BY DEF Sweeping
    <3>1. o \in Live(h) /\ o \notin rest /\ h.color[o] # h.white /\ o \notin dead
      BY <1>3, <1>10, <2>2
    <3>2. o \in Open(h) => o \in Open(l) /\ l.heap[o].th = h.heap[o].th
      BY <1>4, <1>7, <1>10, <3>1 DEF SameObjects
    <3>3. /\ l.unswept = h.unswept /\ l.tmudata = h.tmudata /\ l.sweepstrgc = h.sweepstrgc
      BY <1>3, <1>7 DEF SameObjects
    <3> QED
      BY <3>1, <3>2, <3>3 DEF Sweeping
  <2>4. Phase(l, {})
    <3>1. /\ l.unswept = h.unswept /\ l.tmudata = h.tmudata /\ l.sweepstrgc = h.sweepstrgc
          /\ l.gcstate = h.gcstate
      BY <1>3, <1>7 DEF SameObjects
    <3> QED
      BY <1>2, <1>17, <2>2, <2>3, <3>1 DEF Phase
  <2>5. HeapInv(l)
    BY <1>7, <1>9, <1>12, <1>13, <1>14, <1>15, <2>4 DEF HeapInv, HeapBut
  <2>6. c.gcstate # "propagate"
    BY <1>3, <1>17
  <2> QED
    BY <1>1, <2>5, <2>6 DEF c
<1> QED
  BY <1>16, <1>17

LEMMA CloseStep ==
  ASSUME NEW h, HeapInv(h), NEW th, NEW level
  PROVE  LET k == luaF_close(h, th, level)
         IN HeapInv(k) /\ k.cur = h.cur /\ k.gcstate = h.gcstate /\ Stack(k) = Stack(h)
<1> DEFINE us == OpenAt(h, th, level)
           dead == {u \in us : isdead(h, u)}
           rest == us \ dead
           ok == [h EXCEPT !.asserts = @ \cup lua_assert(\A u \in us : ~isblack(h, u), "luaF_close")]
           c == Unstacked(ok, rest, dead)
           q == {u \in rest : isgray(h, u)}
           k == luaC_linkupval(c, q)
<1>1. k = luaF_close(h, th, level)
  BY DEF luaF_close
<1>2. us \subseteq Open(h) /\ Open(h) \subseteq Live(h)
  BY DEF OpenAt, Open
<1>3. \A u \in us : ~isblack(h, u)
  BY <1>2 DEF HeapInv, HeapBut, Marks
<1>4. DOMAIN h = Fields /\ h.asserts \subseteq {"awaiting"} /\ HeapBut(h, {})
  BY DEF HeapInv, HeapBut, Typed, Shape
<1>5. SameMarks(h, ok) /\ ok.heap = h.heap
  BY <1>3, <1>4 DEF SameMarks, Fields, lua_assert
<1> HIDE DEF ok
<1>6. HeapInv(ok)
  <2> DEFINE none == {}
  <2>1. HeapBut(h, none)
    BY <1>4
  <2> HIDE DEF none
  <2>2. HeapBut(ok, none)
    BY <1>5, <2>1, InvSame
  <2> QED
    BY <2>2 DEF none, HeapInv
<1>7. \A u : (isdead(ok, u) <=> isdead(h, u)) /\ (isgray(ok, u) <=> isgray(h, u)) /\ Open(ok) = Open(h)
  BY <1>5, SameRefs DEF SameMarks, isdead, isgray, otherwhite
<1>8. /\ rest \in SUBSET Open(ok) /\ dead \in SUBSET Open(ok) /\ rest \cap dead = {}
      /\ \A u \in dead : isdead(ok, u)
      /\ \A u \in rest : ~isdead(ok, u)
      /\ q = {u \in rest : isgray(ok, u)}
  BY <1>2, <1>7
<1> HIDE DEF rest, dead, q, c
<1>9. HeapInv(k)
  BY <1>6, <1>8, LinkupvalStep DEF c
<1>10. DOMAIN ok = Fields /\ Main \in Live(ok) /\ Healthy(ok)
  BY <1>6 DEF HeapInv, HeapBut, Typed, Shape, Healthy
<1>11. c.cur = h.cur /\ c.gcstate = h.gcstate /\ DOMAIN c = Fields
  BY <1>5, <1>10, UnstackedKeeps DEF SameMarks, c
<1>12. c.heap[Main] = h.heap[Main]
  <2>1. Main \in Live(ok) \ (dead \cup rest)
    <3>1. Main \notin Upvalues /\ Open(ok) \subseteq Upvalues
      BY Kinds DEF Open
    <3> QED
      BY <1>8, <1>10, <3>1
  <2>2. \A o \in Live(ok) \ (dead \cup rest) : c.heap[o] = ok.heap[o]
    BY <1>10, UnstackedKeeps DEF c
  <2> QED
    BY <1>5, <2>1, <2>2
<1>13. k.cur = c.cur /\ k.gcstate = c.gcstate /\ k.heap = c.heap
  <2> DEFINE l == [c EXCEPT !.color = [o \in DOMAIN c.color |->
                                         IF o \in q THEN IF c.gcstate = "propagate" THEN "black" ELSE c.white
                                         ELSE c.color[o]],
                            !.asserts = @ \cup lua_assert(q = {} \/ c.gcstate \notin {"finalize", "pause"},
                                                          "luaC_linkupval")]
             vs == {c.heap[u].v : u \in q}
  <2>1. k = IF c.gcstate = "propagate" THEN Mark(l, vs) ELSE l
    BY DEF luaC_linkupval
  <2>2. DOMAIN l = Fields /\ l.cur = c.cur /\ l.gcstate = c.gcstate /\ l.heap = c.heap
    BY <1>11 DEF Fields
  <2> HIDE DEF l, vs, k
  <2>3. SameObjects(l, Mark(l, vs))
    BY <2>2, MarkKeeps
  <2> QED
    BY <2>1, <2>2, <2>3 DEF SameObjects
<1> QED
  BY <1>1, <1>9, <1>11, <1>12, <1>13 DEF Stack

LEMMA WithoutHead ==
  ASSUME NEW s \in Seq(Userdata), s # <<>>
  PROVE  /\ Head(s) \in Range(s) /\ Tail(s) \in Seq(Userdata)
         /\ Range(s) = {Head(s)} \cup Range(Tail(s))
         /\ IsInjective(s) => IsInjective(Tail(s)) /\ Head(s) \notin Range(Tail(s))
<1>1. /\ Head(s) \in Userdata /\ Tail(s) \in Seq(Userdata) /\ Len(s) \in Nat /\ Len(s) >= 1
      /\ Head(s) = s[1] /\ Len(Tail(s)) = Len(s) - 1 /\ DOMAIN s = 1..Len(s)
      /\ DOMAIN Tail(s) = 1..(Len(s) - 1) /\ \A i \in 1..(Len(s) - 1) : Tail(s)[i] = s[i + 1]
  BY HeadTailProperties, LenProperties, EmptySeq
<1>2. Range(s) = {Head(s)} \cup Range(Tail(s))
  <2>1. ASSUME NEW x \in Range(s) PROVE x \in {Head(s)} \cup Range(Tail(s))
    <3>1. PICK i \in 1..Len(s) : x = s[i]
      BY <1>1 DEF Range
    <3>2. CASE i = 1
      BY <1>1, <3>1, <3>2
    <3>3. CASE i # 1
      <4>1. i - 1 \in 1..(Len(s) - 1) /\ x = Tail(s)[i - 1]
        BY <1>1, <3>1, <3>3
      <4> QED
        BY <1>1, <4>1 DEF Range
    <3> QED
      BY <3>2, <3>3
  <2>2. ASSUME NEW x \in Range(Tail(s)) PROVE x \in Range(s)
    <3>1. PICK i \in 1..(Len(s) - 1) : x = Tail(s)[i]
      BY <1>1 DEF Range
    <3>2. i + 1 \in 1..Len(s) /\ x = s[i + 1]
      BY <1>1, <3>1
    <3> QED
      BY <1>1, <3>2 DEF Range
  <2>3. Head(s) \in Range(s)
    BY <1>1 DEF Range
  <2> QED
    BY <2>1, <2>2, <2>3
<1>3. ASSUME IsInjective(s) PROVE IsInjective(Tail(s)) /\ Head(s) \notin Range(Tail(s))
  <2>1. \A i, j \in 1..Len(s) : s[i] = s[j] => i = j
    BY <1>1, <1>3 DEF IsInjective
  <2>2. IsInjective(Tail(s))
    <3> SUFFICES ASSUME NEW i \in 1..(Len(s) - 1), NEW j \in 1..(Len(s) - 1), Tail(s)[i] = Tail(s)[j]
                 PROVE  i = j
      BY <1>1 DEF IsInjective
    <3>1. i + 1 \in 1..Len(s) /\ j + 1 \in 1..Len(s) /\ s[i + 1] = s[j + 1]
      BY <1>1
    <3>2. i + 1 = j + 1
      BY <2>1, <3>1
    <3> QED
      BY <1>1, <3>2
  <2>3. Head(s) \notin Range(Tail(s))
    <3> SUFFICES ASSUME NEW i \in 1..(Len(s) - 1), Tail(s)[i] = Head(s) PROVE FALSE
      BY <1>1 DEF Range
    <3>1. i + 1 \in 1..Len(s) /\ 1 \in 1..Len(s) /\ s[i + 1] = s[1]
      BY <1>1
    <3>2. i + 1 = 1
      BY <2>1, <3>1
    <3> QED
      BY <1>1, <3>2
  <2> QED
    BY <2>2, <2>3
<1> QED
  BY <1>1, <1>2, <1>3

\* The first of those that wait is an ordinary userdata again, and in a slot.
LEMMA FinalizeStep ==
  ASSUME HeapInv(g), Finalize
  PROVE  HeapInv(g')
<1>1. PICK r \in Slots : g' = GCTM(g, r)
  BY DEF Finalize
<1>2. g.gcstate \in {"finalize", "closing"} /\ g.tmudata # <<>>
  BY DEF Finalize
<1> DEFINE u == Head(g.tmudata)
           w == makewhite(g, u)
           b == [w EXCEPT !.udata = <<u>> \o @, !.tmudata = Tail(@)]
           k == [makewhite(AfterMain(g, u), u) EXCEPT !.tmudata = Tail(@), !.heap[g.cur][r] = u,
                                                      !.fins[u] = @ + 1, !.late = @ \ {u}]
<1>3. g' = k
  BY <1>1 DEF GCTM
<1>4. /\ Typed(g) /\ NoDangling(g) /\ Lists(g) /\ Awaiting(g) /\ Phase(g, {}) /\ DOMAIN g = Fields
      /\ DOMAIN g.color = Live(g) /\ HeapBut(g, {})
  BY DEF HeapInv, HeapBut, Typed, Shape
<1>5. g.tmudata \in Seq(Userdata) /\ g.udata \in Seq(Userdata) /\ IsInjective(g.tmudata) /\ IsInjective(g.udata)
  BY <1>4 DEF Lists
<1>6. /\ u \in Range(g.tmudata) /\ u \in Userdata /\ Tail(g.tmudata) \in Seq(Userdata)
      /\ Range(g.tmudata) = {u} \cup Range(Tail(g.tmudata))
      /\ IsInjective(Tail(g.tmudata)) /\ u \notin Range(Tail(g.tmudata))
  <2>1. Range(g.tmudata) \subseteq Userdata
    BY <1>4 DEF Lists
  <2> QED
    BY <1>2, <1>5, <2>1, WithoutHead
<1> HIDE DEF u
<1>7. Good(g, u) /\ Sound(g, u) /\ u \in Live(g) /\ u \notin Range(g.udata) /\ u \in Values
  BY <1>4, <1>6 DEF Awaiting, NoDangling, Good, Lists, Values
<1>8. HeapInv(w) /\ SameObjects(g, w) /\ Good(w, u)
  <2> DEFINE none == {}
  <2>1. HeapBut(g, none)
    BY <1>4
  <2> HIDE DEF none
  <2> QED
    BY <1>2, <1>7, <2>1, WhitenStep
<1>9. w.color[u] = g.white /\ DOMAIN w = Fields /\ w.white = g.white
  BY <1>4, <1>7 DEF makewhite, Fields
<1>10. /\ DOMAIN k = Fields /\ k.color = w.color /\ k.white = w.white /\ k.gcstate = w.gcstate
       /\ k.gray = w.gray /\ k.grayagain = w.grayagain /\ k.weak = w.weak /\ k.rootgc = w.rootgc
       /\ k.udata = <<u>> \o w.udata /\ k.tmudata = Tail(w.tmudata) /\ k.unswept = w.unswept
       /\ k.sweepstrgc = w.sweepstrgc /\ k.cur = w.cur /\ k.asserts = w.asserts
       /\ k.heap = [w.heap EXCEPT ![w.cur] = [@ EXCEPT ![r] = u]]
  BY <1>4 DEF makewhite, AfterMain, Fields
<1> HIDE DEF w, k
<1>11. /\ DOMAIN b = Fields /\ b.heap = w.heap /\ b.color = w.color /\ b.white = w.white
       /\ b.gcstate = w.gcstate
       /\ b.gray = w.gray /\ b.grayagain = w.grayagain /\ b.weak = w.weak /\ b.rootgc = w.rootgc
       /\ b.udata = <<u>> \o w.udata /\ b.tmudata = Tail(w.tmudata) /\ b.unswept = w.unswept
       /\ b.sweepstrgc = w.sweepstrgc /\ b.cur = w.cur /\ b.asserts = w.asserts
  BY <1>9 DEF Fields
<1> HIDE DEF b
<1>12. w.udata = g.udata /\ w.tmudata = g.tmudata /\ w.gcstate = g.gcstate
  BY <1>8 DEF SameObjects
<1>13. HeapInv(b) /\ Live(b) = Live(w) /\ Good(b, u)
  <2>1. /\ Typed(w) /\ NoDangling(w) /\ Lists(w) /\ Awaiting(w) /\ Marks(w) /\ Phase(w, {}) /\ Chains(w)
        /\ w.asserts \subseteq {"awaiting"}
    BY <1>8 DEF HeapInv, HeapBut
  <2>2. w.cur \in Threads \cap Live(w) /\ Good(w, w.cur)
        /\ w.gcstate \in {"pause", "propagate", "sweepstring", "sweep", "finalize", "closing"}
    BY <2>1 DEF Typed, Shape, NoDangling
  <2>3. /\ Typed(b) /\ Live(b) = Live(w) /\ Open(b) = Open(w)
        /\ \A o : (Good(b, o) <=> Good(w, o)) /\ (isdead(b, o) <=> isdead(w, o))
        /\ Marks(b) /\ NoDangling(b)
    BY <1>11, <2>1, <2>2, SameHeap
  <2>4. b.udata \in Seq(Userdata) /\ Range(b.udata) = {u} \cup Range(g.udata) /\ IsInjective(b.udata)
    BY <1>5, <1>6, <1>7, <1>11, <1>12, Prepended
  <2>5. Lists(b)
    <3>1. /\ w.rootgc = Live(w) \cap (Listed \cup (Upvalues \ Open(w)))
          /\ Range(g.udata) \cup Range(g.tmudata) = Live(w) \cap Userdata
          /\ Range(g.udata) \cap Range(g.tmudata) = {}
      BY <1>12, <2>1 DEF Lists
    <3>2. Range(b.udata) \cup Range(b.tmudata) = Live(b) \cap Userdata
      BY <1>6, <1>11, <1>12, <2>3, <2>4, <3>1
    <3>3. Range(b.udata) \cap Range(b.tmudata) = {}
      BY <1>6, <1>11, <1>12, <2>4, <3>1
    <3> QED
      BY <1>6, <1>11, <1>12, <2>3, <2>4, <3>1, <3>2, <3>3 DEF Lists
  <2>6. Awaiting(b)
    BY <1>6, <1>11, <1>12, <2>1, <2>3 DEF Awaiting
  <2>7. ASSUME g.gcstate = "finalize", NEW o \in Live(b)
        PROVE  b.color[o] = b.white \/ o \in Range(b.tmudata)
    <3>1. w.color[o] = w.white \/ o \in Range(w.tmudata)
      BY <1>12, <2>1, <2>3, <2>7 DEF Phase
    <3> QED
      BY <1>6, <1>9, <1>11, <1>12, <3>1
  <2>8. Phase(b, {})
    BY <1>2, <1>11, <1>12, <2>1, <2>7 DEF Phase
  <2>9. Chains(b)
    BY <1>11, <2>1 DEF Chains
  <2> QED
    BY <1>8, <1>11, <2>1, <2>3, <2>5, <2>6, <2>8, <2>9 DEF HeapInv, HeapBut
<1> DEFINE o == b.cur
<1>14. o \in Threads /\ o \in Live(b) /\ DOMAIN b.heap[o] = Stack(b)
  BY <1>13 DEF HeapInv, HeapBut, Typed, Shape, Payloads, Payload
<1> HIDE DEF o
<1>15. k.heap = [b.heap EXCEPT ![o] = [@ EXCEPT ![r] = u]]
  BY <1>10, <1>11 DEF o
<1>16. SameMarks(b, k)
  BY <1>10, <1>11 DEF SameMarks
<1>17. /\ Live(k) = Live(b) /\ \A x \in Live(b) \ {o} : k.heap[x] = b.heap[x]
       /\ DOMAIN k.heap[o] = Stack(b)
       /\ \A i \in Stack(b) : k.heap[o][i] = IF i = r THEN u ELSE b.heap[o][i]
  BY <1>14, <1>15 DEF Live
<1>18. Stored(b, k, o)
  BY <1>14, <1>16, <1>17, Kinds DEF Stored
<1>19. u \in Held(b)
  BY <1>7, <1>13 DEF Held
<1> QED
  BY <1>3, <1>13, <1>14, <1>17, <1>18, <1>19, SlotStep

\* At the end all that have a finalizer await it.
LEMMA SeparatedStep ==
  ASSUME NEW h, HeapInv(h), h.gcstate = "closing", NEW dies,
         dies = {u \in Range(h.udata) : ~h.heap[u].fin}
  PROVE  LET k == Separated(h, dies)
         IN HeapInv(k) /\ Stack(k) = Stack(h) /\ Live(k) = Live(h)
<1> DEFINE k == Separated(h, dies)
<1>1. /\ Typed(h) /\ NoDangling(h) /\ Lists(h) /\ Awaiting(h) /\ Marks(h) /\ Phase(h, {}) /\ Chains(h)
      /\ h.asserts \subseteq {"awaiting"} /\ DOMAIN h = Fields
  BY DEF HeapInv, HeapBut, Typed, Shape
<1>2. /\ k.color = h.color /\ k.white = h.white /\ k.gray = h.gray
      /\ k.grayagain = h.grayagain /\ k.weak = h.weak /\ k.asserts = h.asserts
      /\ k.sweepstrgc = h.sweepstrgc /\ k.gcstate = h.gcstate /\ k.cur = h.cur
  BY <1>1, SeparatedKeeps
<1>3. dies \in SUBSET Range(h.udata)
  OBVIOUS
<1>4. /\ Typed(k) /\ Lists(k) /\ SameLinks(h, k) /\ Marks(k)
      /\ Range(k.tmudata) = Range(h.tmudata) \cup (dies \cap HasGC)
      /\ \A d \in Userdata \cap Live(h) : k.heap[d].fin <=> h.heap[d].fin \/ d \in dies
  BY <1>1, <1>3, SeparatedTyped
<1> HIDE DEF k
<1>5. /\ Live(k) = Live(h) /\ Stack(k) = Stack(h) /\ \A o \in Live(h) : Refs(k, o) = Refs(h, o)
      /\ \A o : (isdead(k, o) <=> isdead(h, o)) /\ (Good(k, o) <=> Good(h, o))
  BY <1>2, <1>4 DEF SameLinks, isdead, otherwhite, Good
<1>6. NoDangling(k)
  BY <1>1, <1>2, <1>5 DEF NoDangling, Sound
<1>7. Awaiting(k)
  <2>1. Range(h.udata) \subseteq Userdata \cap Live(h) /\ Range(h.tmudata) \subseteq Userdata \cap Live(h)
    BY <1>1 DEF Lists
  <2>2. \A u \in dies : Good(h, u)
    BY <1>1, <2>1 DEF Awaiting, Good
  <2> QED
    BY <1>1, <1>4, <1>5, <2>1, <2>2 DEF Awaiting
<1>8. Phase(k, {}) /\ Chains(k)
  BY <1>1, <1>2 DEF Phase, Chains
<1> QED
  BY <1>1, <1>2, <1>4, <1>5, <1>6, <1>7, <1>8 DEF HeapInv, HeapBut, k

LEMMA LuaCloseStep ==
  ASSUME HeapInv(g), lua_close
  PROVE  HeapInv(g') /\ g'.gcstate = "closing"
<1> DEFINE c == luaF_close(g, Main, 1)
           dies == {u \in Range(c.udata) : (iswhite(c, u) \/ TRUE) /\ ~c.heap[u].fin}
           k == [Separated(c, dies) EXCEPT !.heap[Main] = NoRegs, !.gcstate = "closing"]
           m == [c EXCEPT !.gcstate = "closing"]
           s == Separated(m, dies)
<1>1. g' = k /\ g.cur = Main
  BY DEF lua_close, luaC_separateudata
<1>2. HeapInv(c) /\ c.cur = g.cur /\ Stack(c) = Stack(g)
  <2> DEFINE first == 1
             main == Main
  <2> HIDE DEF first, main
  <2>1. LET x == luaF_close(g, main, first)
        IN HeapInv(x) /\ x.cur = g.cur /\ x.gcstate = g.gcstate /\ Stack(x) = Stack(g)
    BY CloseStep
  <2> QED
    BY <2>1 DEF first, main
<1> HIDE DEF c
<1>3. /\ Typed(c) /\ NoDangling(c) /\ Lists(c) /\ Awaiting(c) /\ Marks(c) /\ Phase(c, {}) /\ Chains(c)
      /\ c.asserts \subseteq {"awaiting"} /\ DOMAIN c = Fields /\ Healthy(c)
  BY <1>2 DEF HeapInv, HeapBut, Typed, Shape, Healthy
<1>4. /\ DOMAIN m = Fields /\ m.heap = c.heap /\ m.color = c.color /\ m.white = c.white /\ m.cur = c.cur
      /\ m.gcstate = "closing" /\ m.gray = c.gray /\ m.grayagain = c.grayagain /\ m.weak = c.weak
      /\ m.asserts \subseteq {"awaiting"} /\ m.rootgc = c.rootgc /\ m.udata = c.udata /\ m.tmudata = c.tmudata
      /\ m.sweepstrgc = c.sweepstrgc /\ m.unswept = c.unswept
  BY <1>3 DEF Fields
<1>5. /\ DOMAIN k = Fields /\ k.gcstate = "closing"
      /\ k.heap = [s.heap EXCEPT ![Main] = NoRegs]
      /\ k.color = s.color /\ k.white = s.white /\ k.gray = s.gray /\ k.grayagain = s.grayagain
      /\ k.weak = s.weak /\ k.rootgc = s.rootgc /\ k.udata = s.udata /\ k.tmudata = s.tmudata
      /\ k.unswept = s.unswept /\ k.sweepstrgc = s.sweepstrgc /\ k.cur = s.cur /\ k.asserts = s.asserts
  BY <1>3, <1>4 DEF Separated, Fields, Live
<1> HIDE DEF m
<1>6. HeapInv(m)
  <2>1. c.cur \in Threads /\ Good(c, c.cur)
    BY <1>3 DEF Typed, Shape, NoDangling
  <2>2. Healthy(m)
    BY <1>3, <1>4, <2>1, SameHealthy
  <2>3. Phase(m, {}) /\ Chains(m)
    BY <1>3, <1>4 DEF Phase, Chains
  <2> QED
    BY <1>4, <2>2, <2>3 DEF HeapInv, HeapBut, Healthy
<1>7. dies = {u \in Range(m.udata) : ~m.heap[u].fin}
  BY <1>4
<1> HIDE DEF dies, k
<1>8. HeapInv(s) /\ Stack(s) = Stack(m) /\ Live(s) = Live(m)
  BY <1>4, <1>6, <1>7, SeparatedStep
<1>9. s.gcstate = "closing"
  <2>1. DOMAIN m = Fields /\ m.gcstate = "closing"
    BY <1>4
  <2> QED
    BY <2>1, SeparatedKeeps
<1> HIDE DEF s
<1>10. SameMarks(s, k)
  BY <1>5, <1>9 DEF SameMarks
<1>11. Slots = Stack(s)
  <2>1. Stack(m) = Stack(c)
    BY <1>4 DEF Stack
  <2> QED
    BY <1>2, <1>8, <2>1, SlotsHeld
<1>12. DOMAIN NoRegs = Stack(s) /\ \A i \in Stack(s) : NoRegs[i] = Nil
  BY <1>11 DEF NoRegs
<1>13. Main \in Live(s) /\ Main \in Threads /\ Main \notin Upvalues
  BY <1>8, Kinds DEF HeapInv, HeapBut, Typed, Shape
<1>14. Stored(s, k, Main) /\ k.heap[Main] = NoRegs
  BY <1>5, <1>10, <1>12, <1>13 DEF Stored, Live
<1>15. HeapInv(k)
  BY <1>8, <1>12, <1>13, <1>14, SlotStep DEF Held
<1>16. k.gcstate = "closing"
  BY <1>5
<1> QED
  BY <1>1, <1>15, <1>16

-----------------------------------------------------------------------------
(* The theorems                                                            *)

\* Only the main thread is left of a closed state, whose memory is freed with it.
ClosedHeap(h) ==
  /\ Live(h) = {Main} /\ h.rootgc = {Main} /\ h.udata = <<>> /\ h.tmudata = <<>>
  /\ Chains(h) /\ h.asserts \subseteq {"awaiting"}
HeapOK == (Running => HeapInv(g)) /\ (~Running => ClosedHeap(g))

LEMMA CloseStateStep ==
  ASSUME HeapInv(g), close_state
  PROVE  ClosedHeap(g') /\ g'.gcstate = "closed"
<1> DEFINE listed == g.rootgc \cup Range(g.udata) \cup Strings \cup {u \in Open(g) : g.heap[u].th \in Live(g)}
           left == (Live(g) \ listed) \cup {Main}
<1>1. /\ g.tmudata = <<>>
      /\ g' = [g EXCEPT !.gcstate = "closed", !.rootgc = {Main}, !.udata = <<>>, !.unswept = {},
                        !.heap = Restrict(g.heap, left), !.color = Restrict(g.color, left)]
  BY DEF close_state
<1>2. Typed(g) /\ Lists(g) /\ Chains(g) /\ g.asserts \subseteq {"awaiting"} /\ DOMAIN g = Fields
  BY DEF HeapInv, HeapBut, Typed, Shape
<1>3. Live(g) \subseteq listed
  <2> SUFFICES ASSUME NEW o \in Live(g) PROVE o \in listed
    OBVIOUS
  <2>1. o \in Listed \cup Upvalues \cup Strings \cup Userdata
    BY <1>2, Kinds DEF Typed, Shape
  <2>2. Range(g.tmudata) = {}
    BY <1>1 DEF Range
  <2>3. CASE o \in Open(g)
    <3>1. Payload(g, o) /\ o \in Upvalues /\ g.heap[o].open
      BY <1>2, <2>3 DEF Typed, Payloads, Open
    <3> QED
      BY <2>3, <3>1 DEF Payload
  <2>4. CASE o \notin Open(g)
    BY <1>2, <2>1, <2>2, <2>4 DEF Lists
  <2> QED
    BY <2>3, <2>4
<1>4. left = {Main}
  BY <1>3
<1> HIDE DEF left
<1>5. /\ g'.heap = Restrict(g.heap, left) /\ g'.rootgc = {Main} /\ g'.udata = <<>> /\ g'.gcstate = "closed"
      /\ g'.tmudata = g.tmudata /\ g'.gray = g.gray /\ g'.grayagain = g.grayagain /\ g'.weak = g.weak
      /\ g'.asserts = g.asserts
  BY <1>1, <1>2 DEF Fields
<1>6. Live(g') = {Main}
  BY <1>4, <1>5 DEF Live, Restrict
<1> QED
  BY <1>1, <1>2, <1>5, <1>6 DEF ClosedHeap, Chains

LEMMA InitHeap ==
  ASSUME Init
  PROVE  HeapInv(g) /\ g.gcstate = "pause"
<1>1. DOMAIN g = Fields
  BY DEF Init, Fields
<1> DEFINE slots == [r \in 1..cast.registers |-> Nil]
<1>2. /\ g.heap = [o \in {Main, Globals} |-> IF o = Main THEN slots ELSE <<>>]
      /\ g.color = [o \in {Main, Globals} |-> "white0"]
      /\ g.gcstate = "pause" /\ g.white = "white0" /\ g.gray = {} /\ g.grayagain = {} /\ g.weak = {}
      /\ g.rootgc = {Globals, Main} /\ g.udata = <<>> /\ g.sweepstrgc = StrSize + 1
      /\ g.tmudata = <<>> /\ g.cur = Main /\ g.asserts \subseteq {"awaiting"}
  BY DEF Init
<1> DEFINE empty == <<>>
<1>3. DOMAIN empty = {} /\ Range(empty) = {} /\ empty \in Seq(Userdata) /\ IsInjective(empty)
  BY DEF Range, IsInjective
<1>4. Main \in Threads /\ Globals \in Tables /\ Globals # Main /\ Globals \in Objects
      /\ Main \notin Tables \cup Closures \cup Upvalues \cup Strings \cup Userdata
      /\ Globals \notin Threads \cup Closures \cup Upvalues \cup Strings \cup Userdata
  BY Kinds, HeapConstants DEF Objects, Values
<1>5. /\ Live(g) = {Main, Globals} /\ g.heap[Main] = slots /\ g.heap[Globals] = empty
      /\ g.color[Main] = "white0" /\ g.color[Globals] = "white0" /\ DOMAIN g.color = {Main, Globals}
  BY <1>2, <1>4 DEF Live
<1>6. Stack(g) = DOMAIN slots /\ \A r \in DOMAIN slots : slots[r] = Nil
  BY <1>5 DEF Stack
<1> HIDE DEF slots, empty
<1>7. ~isdead(g, Main) /\ ~isdead(g, Globals)
  BY <1>2, <1>5 DEF isdead, otherwhite
<1>8. Payload(g, Main) /\ Payload(g, Globals)
  BY <1>3, <1>4, <1>5, <1>6 DEF Payload
<1>9. Typed(g)
  BY <1>1, <1>2, <1>4, <1>5, <1>8 DEF Typed, Shape, Payloads
<1>10. NoDangling(g)
  <2>1. Refs(g, Globals) = {}
    BY <1>3, <1>4, <1>5 DEF Refs
  <2>2. Refs(g, Main) = {}
    <3>1. Refs(g, Main) = Range(slots) \ {Nil}
      BY <1>4, <1>5, MarkRefsOf DEF Refs
    <3> QED
      BY <1>6, <3>1 DEF Range
  <2> QED
    BY <1>2, <1>5, <1>7, <2>1, <2>2 DEF NoDangling, Sound, Good
<1>11. Open(g) = {}
  BY <1>4, <1>5 DEF Open
<1>12. Lists(g)
  <2>1. g.rootgc = Live(g) \cap (Listed \cup (Upvalues \ Open(g)))
    BY <1>2, <1>4, <1>5 DEF Listed
  <2> QED
    BY <1>2, <1>3, <1>4, <1>5, <2>1 DEF Lists, empty
<1>13. Awaiting(g)
  BY <1>2, <1>3, <1>4, <1>5 DEF Awaiting, empty
<1>14. Marks(g)
  BY <1>5 DEF Marks, isblack, isgray
<1>15. Phase(g, {})
  BY <1>2, <1>5, HeapConstants DEF Phase
<1>16. Chains(g)
  BY <1>2 DEF Chains
<1> QED
  BY <1>2, <1>9, <1>10, <1>12, <1>13, <1>14, <1>15, <1>16 DEF HeapInv, HeapBut

\* Every step of the program and of the collector keeps the invariant.
LEMMA HeapStep ==
  ASSUME HeapInv(g), Running, Next
  PROVE  HeapInv(g') \/ (close_state /\ ClosedHeap(g') /\ g'.gcstate = "closed")
<1>1. CASE Program
  <2>1. PICK r \in Slots :
          \/ NewTable(r) \/ NewThread(r) \/ luaS_newudata(r) \/ luaS_newlstr(r) \/ NewClosure(r)
          \/ GetTable(r) \/ SetTable(r) \/ GetUpval(r) \/ SetUpval(r)
          \/ lua_getfenv(r) \/ lua_setfenv(r) \/ Forget(r) \/ Close(r) \/ Resume(r) \/ Yield(r)
    BY <1>1 DEF Program
  <2>2. CASE NewTable(r)
    BY <2>2, NewTableStep
  <2>3. CASE NewThread(r)
    BY <2>3, NewThreadStep
  <2>4. CASE luaS_newudata(r)
    BY <2>4, NewUdataStep
  <2>5. CASE luaS_newlstr(r)
    BY <2>5, NewStringStep
  <2>6. CASE NewClosure(r)
    BY <2>6, NewClosureStep
  <2>7. CASE GetTable(r) \/ GetUpval(r) \/ lua_getfenv(r) \/ Forget(r)
    BY <2>7, LoadStep
  <2>8. CASE SetTable(r)
    BY <2>8, SetTableStep
  <2>9. CASE SetUpval(r)
    BY <2>9, SetUpvalStep
  <2>10. CASE lua_setfenv(r)
    BY <2>10, SetfenvStep
  <2>11. CASE Resume(r) \/ Yield(r)
    BY <2>11, SwitchStep
  <2>12. CASE Close(r)
    <3>1. g' = luaF_close(g, g.cur, r)
      BY <2>12 DEF Close
    <3> DEFINE th == g.cur
    <3> HIDE DEF th
    <3>2. HeapInv(luaF_close(g, th, r))
      BY CloseStep
    <3> QED
      BY <3>1, <3>2 DEF th
  <2> QED
    BY <2>1, <2>2, <2>3, <2>4, <2>5, <2>6, <2>7, <2>8, <2>9, <2>10, <2>11, <2>12
<1>2. CASE Finalize
  BY <1>2, FinalizeStep
<1>3. CASE singlestep
  <2>1. CASE g.gcstate = "pause" /\ g' = markroot(g)
    <3>1. LET k == markroot(g)
          IN /\ Ending(k) /\ Marking(k, Range(k.tmudata)) /\ k.gcstate = "propagate"
             /\ k.tmudata = g.tmudata /\ k.sweepstrgc = g.sweepstrgc
      BY <2>1, MarkrootStep
    <3>2. g.tmudata = <<>> /\ g.sweepstrgc \in Nat
      BY <2>1 DEF HeapInv, HeapBut, Phase
    <3> DEFINE k == markroot(g)
    <3>3. /\ Ending(k) /\ Marking(k, Range(k.tmudata)) /\ k.gcstate = "propagate"
          /\ k.tmudata = <<>> /\ k.sweepstrgc \in Nat
      BY <3>1, <3>2
    <3> HIDE DEF k
    <3>4. Range(k.tmudata) = {}
      BY <3>3 DEF Range
    <3>5. Marking(k, {})
      BY <3>3, <3>4
    <3>6. HeapInv(k)
      BY <3>3, <3>5, EndingInv
    <3> QED
      BY <2>1, <3>6 DEF k
  <2>2. CASE g.gcstate = "propagate" /\ \E o \in g.gray : g' = propagatemark(g, o)
    BY <2>2, PropagateStep
  <2>3. CASE g.gcstate = "propagate" /\ g.gray = {} /\ g' = atomic(g)
    <3>1. Ending(g) /\ Marking(g, {}) /\ g.tmudata = <<>>
      BY <2>3, PropagateEnding DEF HeapInv
    <3>2. Range(g.tmudata) = {}
      BY <3>1 DEF Range
    <3>3. Marking(g, Range(g.tmudata))
      BY <3>1, <3>2
    <3> QED
      BY <2>3, <3>1, <3>3, AtomicStep
  <2>4. CASE g.gcstate = "sweepstring" /\ g' = sweepstringstep(g)
    BY <2>4, SweepstringStep
  <2>5. CASE g.gcstate = "sweep" /\ \E os \in SUBSET g.unswept \ {{}} :
               Cardinality(os) <= SweepMax /\ g' = sweepstep(g, os)
    BY <2>5, SweepStep
  <2>6. CASE g.gcstate = "finalize" /\ g.tmudata = <<>> /\ g' = [g EXCEPT !.gcstate = "pause"]
    BY <2>6, PauseStep
  <2> QED
    BY <1>3, <2>1, <2>2, <2>3, <2>4, <2>5, <2>6 DEF singlestep
<1>4. CASE FullCollection
  BY <1>4, FullgcStep DEF FullCollection
<1>5. CASE lua_close
  BY <1>5, LuaCloseStep
<1>6. CASE close_state
  BY <1>6, CloseStateStep
<1>7. CASE Closed
  BY <1>7 DEF Closed, Running
<1> QED
  BY <1>1, <1>2, <1>3, <1>4, <1>5, <1>6, <1>7 DEF Next

LEMMA StateStep ==
  ASSUME HeapOK, [Next]_<<cast, g>>
  PROVE  HeapOK'
<1>1. CASE Running /\ Next
  <2>1. HeapInv(g') \/ (ClosedHeap(g') /\ g'.gcstate = "closed")
    BY <1>1, HeapStep DEF HeapOK
  <2>2. HeapInv(g') => g'.gcstate # "closed"
    BY DEF HeapInv, HeapBut, Typed, Shape
  <2> QED
    BY <2>1, <2>2 DEF HeapOK, Running
<1>2. CASE ~Running /\ Next
  <2>1. UNCHANGED g
    BY <1>2 DEF Running, Next, Program, Finalize, singlestep, FullCollection, lua_close, close_state, Closed
  <2> QED
    BY <1>2, <2>1 DEF HeapOK, Running
<1>3. CASE UNCHANGED <<cast, g>>
  BY <1>3 DEF HeapOK, Running
<1> QED
  BY <1>1, <1>2, <1>3

(* The collector's invariant: the heap is sound, its lists are complete    *)
(* and what marking and sweeping promise holds, after every step of the    *)
(* program (lapi.c, lvm.c, lfunc.c) and of the collector (lgc.c).          *)
THEOREM HeapIsSound == Spec => []HeapOK
<1>1. Init => HeapOK
  BY InitHeap DEF HeapOK, Running
<1>2. HeapOK /\ [Next]_<<cast, g>> => HeapOK'
  BY StateStep
<1> QED
  BY <1>1, <1>2, PTL DEF Spec

(* No black object refers to a white one while the collector marks: the    *)
(* barriers (luaC_barrierf, luaC_barrierback, luaC_linkupval) make up for  *)
(* whatever the program stores in between.                                 *)
THEOREM TriColourHolds == Spec => []TriColour
<1>1. HeapOK => TriColour
  <2> SUFFICES ASSUME HeapOK, g.gcstate = "propagate", NEW o \in Live(g), isblack(g, o),
                      NEW v \in StrongRefs(g, o)
               PROVE  v \in Live(g) /\ ~iswhite(g, v)
    BY DEF TriColour
  <2>1. HeapInv(g)
    BY DEF HeapOK, Running
  <2>2. Marking(g, {}) /\ Marks(g) /\ NoDangling(g)
    BY <2>1 DEF HeapInv, HeapBut, Phase
  <2>3. Settled(g, o) /\ Sound(g, o) /\ o \notin Weak
    BY <2>2 DEF Marking, Marks, NoDangling
  <2>4. MarkRefs(g, o) = Refs(g, o) /\ StrongRefs(g, o) \subseteq Refs(g, o)
    <3>1. MarkRefs(g, o) = Refs(g, o)
      BY <2>3, MarkRefsAreRefs
    <3>2. (DOMAIN g.heap[o] \cup Range(g.heap[o])) \cap Strings \subseteq (DOMAIN g.heap[o] \ {Field}) \cup Range(g.heap[o])
      BY Kinds DEF Objects, Values
    <3> QED
      BY <3>1, <3>2 DEF StrongRefs, Refs
  <2> QED
    BY <2>3, <2>4 DEF Settled, Sound, Good, White
<1> QED
  BY <1>1, HeapIsSound, PTL

\* What the program can reach is in memory and not dead.
LEMMA ReachableGood ==
  ASSUME HeapInv(g), NEW o \in Reachable(g)
  PROVE  Good(g, o)
<1> DEFINE roots == {Main, Globals, g.cur}
           all == Live(g) \cup roots \cup UNION {StrongRefs(g, x) : x \in Live(g)}
           S == {x \in all : Good(g, x)}
<1>1. NoDangling(g)
  BY DEF HeapInv, HeapBut
<1>2. roots \subseteq S
  BY <1>1 DEF NoDangling
<1>3. ASSUME NEW x \in S \cap Live(g) PROVE StrongRefs(g, x) \subseteq S
  <2>1. Sound(g, x)
    BY <1>1 DEF NoDangling, Good
  <2>2. StrongRefs(g, x) \subseteq Refs(g, x)
    <3>1. MarkRefs(g, x) \subseteq Refs(g, x)
      BY MarkRefsAreRefs
    <3>2. (DOMAIN g.heap[x] \cup Range(g.heap[x])) \cap Strings \subseteq (DOMAIN g.heap[x] \ {Field}) \cup Range(g.heap[x])
      BY Kinds DEF Objects, Values
    <3> QED
      BY <3>1, <3>2 DEF StrongRefs, Refs
  <2> QED
    BY <2>1, <2>2 DEF Sound
<1>4. S \in {roots \cup more : more \in SUBSET (all \ roots)}
  <2>1. S = roots \cup (S \ roots) /\ S \ roots \in SUBSET (all \ roots)
    BY <1>2
  <2> QED
    BY <2>1
<1>5. o \in S
  BY <1>3, <1>4 DEF Reachable, ReachedFrom
<1> QED
  BY <1>5

(* Whatever the program can reach, and what a weak table still shows, is   *)
(* in memory and will not be swept.                                        *)
THEOREM NothingReachableIsFreed == Spec => []NothingReachableFreed
<1>1. HeapOK => NothingReachableFreed
  <2> SUFFICES ASSUME HeapOK, Running, NEW o \in Reachable(g)
               PROVE  /\ o \in Live(g) /\ ~isdead(g, o)
                      /\ o \in Tables =>
                           \A x \in (DOMAIN g.heap[o] \ {Field}) \cup Range(g.heap[o]) : x \in Live(g) /\ ~isdead(g, x)
    BY DEF NothingReachableFreed
  <2>1. HeapInv(g)
    BY DEF HeapOK
  <2>2. Good(g, o) /\ NoDangling(g)
    BY <2>1, ReachableGood DEF HeapInv, HeapBut
  <2> QED
    BY <2>2 DEF NoDangling, Good, Sound, Refs
<1> QED
  BY <1>1, HeapIsSound, PTL

LEMMA ListsSound ==
  ASSUME HeapInv(g)
  PROVE  ListsAreSound
<1> DEFINE swept == g.udata \o g.tmudata
           open == {u \in Open(g) : g.heap[u].th \in Live(g)}
<1>1. Typed(g) /\ Lists(g) /\ Chains(g) /\ Phase(g, {})
  BY DEF HeapInv, HeapBut
<1>2. IsInjective(swept) /\ Range(swept) = Range(g.udata) \cup Range(g.tmudata) /\ Range(swept) \subseteq Userdata
  BY <1>1, ConcatInjective, RangeConcatenation DEF Lists
<1>3. open = Open(g)
  BY <1>1 DEF Open, Typed, Payloads, Payload
<1>4. g.rootgc \cap (Userdata \cup Strings) = {}
  BY <1>1, Kinds DEF Lists, Listed
<1>5. Live(g) = g.rootgc \cup Range(swept) \cup (Strings \cap Live(g)) \cup open
  <2>1. \A o \in Live(g) : o \in Listed \cup Upvalues \cup Strings \cup Userdata
    BY <1>1, Kinds DEF Typed, Shape
  <2>2. Open(g) \subseteq Live(g)
    BY DEF Open
  <2> QED
    BY <1>1, <1>2, <1>3, <2>1, <2>2 DEF Lists
<1>6. open \cap g.rootgc = {}
  BY <1>1, <1>3, Kinds DEF Lists, Open, Listed
<1>7. g.gcstate = "propagate" =>
        \A o \in g.gray \cup g.grayagain \cup g.weak : o \in Live(g) /\ isgray(g, o)
  BY <1>1 DEF Phase, Marking
<1> QED
  BY <1>1, <1>2, <1>4, <1>5, <1>6, <1>7 DEF ListsAreSound, Chains

(* No lua_assert of the collector fails, but for luaC_barrierf's on the    *)
(* state, and that one only where the environment is set of a userdata     *)
(* that awaits its finalizer; every object is in exactly one of the lists  *)
(* that the sweep passes, and chained at most once.                        *)
THEOREM AssertionsAlwaysHold == Spec => []AssertionsHold
<1>1. HeapOK => AssertionsHold
  <2> SUFFICES ASSUME HeapOK
               PROVE  AssertionsHold
    OBVIOUS
  <2>1. CASE Running
    <3>1. HeapInv(g)
      BY <2>1 DEF HeapOK
    <3>2. ListsAreSound
      BY <3>1, ListsSound
    <3>3. g.asserts \subseteq {"awaiting"}
      BY <3>1 DEF HeapInv, HeapBut
    <3> QED
      BY <3>2, <3>3 DEF AssertionsHold
  <2>2. CASE ~Running
    <3>1. ClosedHeap(g) /\ g.gcstate = "closed"
      BY <2>2 DEF HeapOK, Running
    <3> DEFINE empty == <<>>
    <3>2. empty \o empty = empty /\ IsInjective(empty) /\ Range(empty) = {}
      BY DEF IsInjective, Range
    <3>3. Open(g) = {} /\ Main \notin Userdata \cup Strings
      BY <3>1, Kinds DEF Open, ClosedHeap
    <3>4. g.udata \o g.tmudata = empty
      BY <3>1, <3>2 DEF ClosedHeap
    <3> HIDE DEF empty
    <3> QED
      BY <3>1, <3>2, <3>3, <3>4 DEF AssertionsHold, ListsAreSound, ClosedHeap, Chains
  <2> QED
    BY <2>1, <2>2
<1> QED
  BY <1>1, HeapIsSound, PTL

-----------------------------------------------------------------------------
(* Finalizers                                                              *)

Before(s, x, y) == \E i, j \in DOMAIN s : i < j /\ s[i] = x /\ s[j] = y

(* What waits for its finalizer, or may still come to wait, has not been   *)
(* finalized; what is gone, or is kept after it, has been. Those that wait *)
(* do so in the reverse order of creation, after those that waited before, *)
(* and so would those of udata. Nothing is left to wait in a closing state.*)
Finalizing(h) ==
  /\ h.fins \in [Userdata -> {0, 1}]
  /\ DOMAIN h.made \subseteq Userdata /\ Range(h.tmudata) \subseteq DOMAIN h.made
  /\ \A u \in Userdata \cap Live(h) : ~h.heap[u].fin \/ u \in Range(h.tmudata) => h.fins[u] = 0
  /\ \A u \in HasGC \cap DOMAIN h.made :
       u \notin Live(h) \/ (h.heap[u].fin /\ u \notin Range(h.tmudata)) => h.fins[u] = 1
  /\ h.gcstate = "closing" => \A u \in DOMAIN h.made \cap Live(h) : h.heap[u].fin
  /\ h.gcstate # "closing" =>
       /\ Userdata \cap Live(h) \subseteq DOMAIN h.made
       /\ \A x, y \in Userdata :
            Before(h.udata, x, y) /\ ~h.heap[x].fin /\ ~h.heap[y].fin => y \in h.made[x]
  /\ \A x, y \in Userdata : Before(h.tmudata, x, y) => x \in h.late \/ y \in h.made[x]

(* k has some of h's userdata, in their order: but for dead ones, whose    *)
(* finalizers have run, none is lost.                                      *)
Kept(h, k) ==
  /\ DOMAIN k = Fields /\ k.fins = h.fins /\ k.made = h.made /\ k.late = h.late /\ k.tmudata = h.tmudata
  /\ Userdata \cap Live(k) \subseteq Live(h)
  /\ \A u \in Userdata \cap Live(k) : k.heap[u].fin <=> h.heap[u].fin
  /\ \A u \in (Userdata \cap Live(h)) \ Live(k) : h.heap[u].fin /\ u \notin Range(h.tmudata)
  /\ \A x, y \in Userdata : Before(k.udata, x, y) => Before(h.udata, x, y)
\* Nor does the collector's state change.
Quiet(h, k) == Kept(h, k) /\ k.gcstate = h.gcstate

LEMMA KeptTwice ==
  ASSUME NEW h, NEW k, NEW l, Kept(h, k), Kept(k, l)
  PROVE  Kept(h, l)
<1>1. \A u \in (Userdata \cap Live(h)) \ Live(l) : h.heap[u].fin /\ u \notin Range(h.tmudata)
  BY DEF Kept
<1>2. \A u \in Userdata \cap Live(l) : u \in Live(k) /\ (l.heap[u].fin <=> h.heap[u].fin)
  BY DEF Kept
<1> QED
  BY <1>1, <1>2 DEF Kept

LEMMA QuietTwice ==
  ASSUME NEW h, NEW k, NEW l, Quiet(h, k), Quiet(k, l)
  PROVE  Quiet(h, l)
BY KeptTwice DEF Quiet

\* What is kept is finalized no less.
LEMMA KeptFinalizing ==
  ASSUME NEW h, Finalizing(h), NEW k, Kept(h, k), Lists(k),
         h.gcstate = "closing" <=> k.gcstate = "closing"
  PROVE  Finalizing(k)
<1>1. Range(k.udata) \subseteq Userdata \cap Live(k) /\ Range(k.tmudata) \subseteq Userdata \cap Live(k)
  BY DEF Lists
<1>2. /\ k.fins = h.fins /\ k.made = h.made /\ k.late = h.late /\ k.tmudata = h.tmudata
      /\ Userdata \cap Live(k) \subseteq Live(h)
      /\ \A u \in Userdata \cap Live(k) : k.heap[u].fin <=> h.heap[u].fin
      /\ \A u \in (Userdata \cap Live(h)) \ Live(k) : h.heap[u].fin /\ u \notin Range(h.tmudata)
  BY DEF Kept
<1>3. \A u \in Userdata \cap Live(k) : ~k.heap[u].fin \/ u \in Range(k.tmudata) => k.fins[u] = 0
  BY <1>2 DEF Finalizing
<1>4. ASSUME NEW u \in HasGC \cap DOMAIN k.made,
             u \notin Live(k) \/ (k.heap[u].fin /\ u \notin Range(k.tmudata))
      PROVE  k.fins[u] = 1
  <2>1. u \in Userdata
    BY Kinds
  <2>2. u \notin Live(h) \/ (h.heap[u].fin /\ u \notin Range(h.tmudata))
    BY <1>2, <1>4, <2>1
  <2> QED
    BY <1>2, <1>4, <2>2 DEF Finalizing
<1>5. k.gcstate = "closing" => \A u \in DOMAIN k.made \cap Live(k) : k.heap[u].fin
  BY <1>2 DEF Finalizing
<1>6. ASSUME k.gcstate # "closing"
      PROVE  /\ Userdata \cap Live(k) \subseteq DOMAIN k.made
             /\ \A x, y \in Userdata :
                  Before(k.udata, x, y) /\ ~k.heap[x].fin /\ ~k.heap[y].fin => y \in k.made[x]
  <2>1. \A x, y \in Userdata : Before(k.udata, x, y) => x \in Live(k) /\ y \in Live(k) /\ Before(h.udata, x, y)
    <3>1. \A x, y : Before(k.udata, x, y) => x \in Range(k.udata) /\ y \in Range(k.udata)
      BY DEF Before, Range
    <3> QED
      BY <1>1, <3>1 DEF Kept
  <2> QED
    BY <1>2, <1>6, <2>1 DEF Finalizing
<1> QED
  BY <1>2, <1>3, <1>4, <1>5, <1>6 DEF Finalizing

-----------------------------------------------------------------------------
(* The order of lists                                                      *)

LEMMA BeforeIn ==
  ASSUME NEW s, NEW x, NEW y, Before(s, x, y)
  PROVE  x \in Range(s) /\ y \in Range(s)
BY DEF Before, Range

LEMMA BeforeSelected ==
  ASSUME NEW s \in Seq(Userdata), NEW S, NEW x, NEW y, Before(Selected(s, S), x, y)
  PROVE  Before(s, x, y) /\ x \in S /\ y \in S
<1> DEFINE at == Positions(s, S)
           r == Selected(s, S)
<1>1. /\ r \in Seq(Userdata) /\ Range(r) = Range(s) \cap S
      /\ at \in [1..Len(r) -> 1..Len(s)]
      /\ \A i, j \in 1..Len(r) : i < j => at[i] < at[j]
      /\ \A i \in 1..Len(r) : r[i] = s[at[i]]
  BY SelectedProperties
<1>2. DOMAIN r = 1..Len(r) /\ DOMAIN s = 1..Len(s)
  BY <1>1, LenProperties
<1> HIDE DEF at, r
<1>3. Before(r, x, y)
  BY DEF r
<1>4. PICK i, j \in 1..Len(r) : i < j /\ r[i] = x /\ r[j] = y
  BY <1>2, <1>3 DEF Before
<1>5. at[i] \in DOMAIN s /\ at[j] \in DOMAIN s /\ at[i] < at[j] /\ s[at[i]] = x /\ s[at[j]] = y
  BY <1>1, <1>2, <1>4
<1>6. x \in S /\ y \in S
  BY <1>1, <1>3, BeforeIn
<1> QED
  BY <1>5, <1>6 DEF Before

LEMMA BeforeConcat ==
  ASSUME NEW s \in Seq(Userdata), NEW r \in Seq(Userdata), NEW x, NEW y, Before(s \o r, x, y)
  PROVE  Before(s, x, y) \/ Before(r, x, y) \/ (x \in Range(s) /\ y \in Range(r))
<1> DEFINE c == s \o r
<1>1. /\ Len(s) \in Nat /\ Len(r) \in Nat /\ DOMAIN s = 1..Len(s) /\ DOMAIN r = 1..Len(r)
      /\ DOMAIN c = 1..(Len(s) + Len(r))
      /\ \A i \in 1..(Len(s) + Len(r)) : c[i] = IF i <= Len(s) THEN s[i] ELSE r[i - Len(s)]
  BY ConcatProperties, LenProperties
<1>2. PICK i, j \in DOMAIN c : i < j /\ c[i] = x /\ c[j] = y
  BY DEF Before
<1> HIDE DEF c
<1>3. CASE j <= Len(s)
  <2>1. i \in DOMAIN s /\ j \in DOMAIN s /\ s[i] = x /\ s[j] = y
    BY <1>1, <1>2, <1>3
  <2> QED
    BY <1>2, <2>1 DEF Before
<1>4. CASE ~(i <= Len(s))
  <2>1. i - Len(s) \in DOMAIN r /\ j - Len(s) \in DOMAIN r /\ r[i - Len(s)] = x /\ r[j - Len(s)] = y
    BY <1>1, <1>2, <1>4
  <2>2. i - Len(s) < j - Len(s)
    BY <1>1, <1>2
  <2> QED
    BY <2>1, <2>2 DEF Before
<1>5. CASE i <= Len(s) /\ ~(j <= Len(s))
  <2>1. i \in DOMAIN s /\ s[i] = x /\ j - Len(s) \in DOMAIN r /\ r[j - Len(s)] = y
    BY <1>1, <1>2, <1>5
  <2> QED
    BY <2>1 DEF Range
<1> QED
  BY <1>3, <1>4, <1>5

LEMMA BeforePrepended ==
  ASSUME NEW s \in Seq(Userdata), NEW u \in Userdata, NEW x, NEW y, Before(<<u>> \o s, x, y)
  PROVE  Before(s, x, y) \/ (x = u /\ y \in Range(s))
<1>1. <<u>> \in Seq(Userdata) /\ Range(<<u>>) = {u} /\ ~Before(<<u>>, x, y)
  BY DEF Range, Before
<1>2. Before(<<u>>, x, y) \/ Before(s, x, y) \/ (x \in Range(<<u>>) /\ y \in Range(s))
  BY <1>1, BeforeConcat
<1> QED
  BY <1>1, <1>2

LEMMA BeforeTail ==
  ASSUME NEW s \in Seq(Userdata), s # <<>>, NEW x, NEW y, Before(Tail(s), x, y)
  PROVE  Before(s, x, y)
<1>1. /\ Len(s) \in Nat /\ Len(s) >= 1 /\ DOMAIN s = 1..Len(s)
      /\ DOMAIN Tail(s) = 1..(Len(s) - 1) /\ \A i \in 1..(Len(s) - 1) : Tail(s)[i] = s[i + 1]
  BY HeadTailProperties, LenProperties, EmptySeq
<1>2. PICK i, j \in 1..(Len(s) - 1) : i < j /\ Tail(s)[i] = x /\ Tail(s)[j] = y
  BY <1>1 DEF Before
<1>3. i + 1 \in DOMAIN s /\ j + 1 \in DOMAIN s /\ i + 1 < j + 1 /\ s[i + 1] = x /\ s[j + 1] = y
  BY <1>1, <1>2
<1> QED
  BY <1>3 DEF Before

-----------------------------------------------------------------------------
(* What keeps the userdata                                                 *)

LEMMA QuietSame ==
  ASSUME NEW h, NEW k, DOMAIN k = Fields, k.gcstate = h.gcstate, k.udata = h.udata,
         k.tmudata = h.tmudata, k.fins = h.fins, k.made = h.made, k.late = h.late,
         Userdata \cap Live(k) = Userdata \cap Live(h),
         \A u \in Userdata \cap Live(h) : k.heap[u].fin <=> h.heap[u].fin
  PROVE  Quiet(h, k)
BY DEF Quiet, Kept

LEMMA SameObjectsQuiet ==
  ASSUME NEW h, NEW k, SameObjects(h, k)
  PROVE  Quiet(h, k)
BY QuietSame DEF SameObjects, Live

LEMMA MarkQuiet ==
  ASSUME NEW h, DOMAIN h = Fields, NEW vs
  PROVE  Quiet(h, Mark(h, vs))
BY MarkKeeps, SameObjectsQuiet

LEMMA WhiteQuiet ==
  ASSUME NEW h, DOMAIN h = Fields, NEW o
  PROVE  Quiet(h, makewhite(h, o))
<1> DEFINE k == makewhite(h, o)
<1>1. /\ DOMAIN k = Fields /\ k.gcstate = h.gcstate /\ k.udata = h.udata /\ k.tmudata = h.tmudata
      /\ k.fins = h.fins /\ k.made = h.made /\ k.late = h.late /\ k.heap = h.heap
  BY DEF makewhite, Fields
<1> HIDE DEF k
<1>2. Quiet(h, k)
  BY <1>1, QuietSame DEF Live
<1> QED
  BY <1>2 DEF k

LEMMA BarrierQuiet ==
  ASSUME NEW h, DOMAIN h = Fields, NEW o, NEW v
  PROVE  Quiet(h, luaC_barrier(h, o, v))
<1> DEFINE k == [h EXCEPT !.asserts = @ \cup
                   (lua_assert(/\ isblack(h, o) /\ iswhite(h, v) /\ ~isdead(h, v) /\ ~isdead(h, o)
                               /\ o \notin Tables, "luaC_barrierf")
                    \cup lua_assert(h.gcstate \notin {"finalize", "pause"},
                                    IF o \in Range(h.tmudata) THEN "awaiting" ELSE "luaC_barrierf"))]
           vs == {v}
           l == luaC_barrier(h, o, v)
<1>1. /\ DOMAIN k = Fields /\ k.gcstate = h.gcstate /\ k.udata = h.udata /\ k.tmudata = h.tmudata
      /\ k.fins = h.fins /\ k.made = h.made /\ k.late = h.late /\ k.heap = h.heap
  BY DEF Fields
<1>2. l = h \/ l = Mark(k, vs) \/ l = makewhite(k, o)
  BY DEF luaC_barrier, luaC_barrierf
<1> HIDE DEF k, vs, l
<1>3. Quiet(h, k)
  BY <1>1, QuietSame DEF Live
<1>4. Quiet(h, h)
  BY QuietSame
<1>5. Quiet(k, Mark(k, vs)) /\ Quiet(k, makewhite(k, o))
  BY <1>1, MarkQuiet, WhiteQuiet
<1>6. Quiet(h, Mark(k, vs)) /\ Quiet(h, makewhite(k, o))
  BY <1>3, <1>5, QuietTwice
<1>7. Quiet(h, l)
  BY <1>2, <1>4, <1>6
<1> QED
  BY <1>7 DEF l

LEMMA BarriertQuiet ==
  ASSUME NEW h, DOMAIN h = Fields, NEW t, NEW v
  PROVE  Quiet(h, luaC_barriert(h, t, v))
<1> DEFINE k == luaC_barrierback(h, t)
<1>1. /\ DOMAIN k = Fields /\ k.gcstate = h.gcstate /\ k.udata = h.udata /\ k.tmudata = h.tmudata
      /\ k.fins = h.fins /\ k.made = h.made /\ k.late = h.late /\ k.heap = h.heap
  BY DEF luaC_barrierback, Fields
<1> HIDE DEF k
<1>2. Quiet(h, k) /\ Quiet(h, h)
  BY <1>1, QuietSame DEF Live
<1> QED
  BY <1>2 DEF k, luaC_barriert

\* What is stored in an object that is no userdata.
LEMMA StoreQuiet ==
  ASSUME NEW h, DOMAIN h = Fields, NEW o, o \notin Userdata, NEW p
  PROVE  Quiet(h, [h EXCEPT !.heap[o] = p])
<1> DEFINE k == [h EXCEPT !.heap[o] = p]
<1>1. /\ DOMAIN k = Fields /\ k.gcstate = h.gcstate /\ k.udata = h.udata /\ k.tmudata = h.tmudata
      /\ k.fins = h.fins /\ k.made = h.made /\ k.late = h.late
      /\ Live(k) = Live(h) /\ \A u \in Userdata \cap Live(h) : k.heap[u] = h.heap[u]
  BY DEF Fields, Live
<1> HIDE DEF k
<1>2. Quiet(h, k)
  BY <1>1, QuietSame
<1> QED
  BY <1>2 DEF k

LEMMA SetRegQuiet ==
  ASSUME NEW h, DOMAIN h = Fields, h.cur \in Threads, NEW r, NEW v
  PROVE  Quiet(h, SetReg(h, r, v)) /\ DOMAIN SetReg(h, r, v) = Fields
<1> DEFINE k == SetReg(h, r, v)
<1>1. /\ DOMAIN k = Fields /\ k.gcstate = h.gcstate /\ k.udata = h.udata /\ k.tmudata = h.tmudata
      /\ k.fins = h.fins /\ k.made = h.made /\ k.late = h.late
      /\ Live(k) = Live(h) /\ \A u \in Userdata \cap Live(h) : k.heap[u] = h.heap[u]
  BY Kinds DEF SetReg, Fields, Live
<1> HIDE DEF k
<1>2. Quiet(h, k)
  BY <1>1, QuietSame
<1> QED
  BY <1>1, <1>2 DEF k

LEMMA NewQuiet ==
  ASSUME NEW h, DOMAIN h = Fields, h.cur \in Threads, NEW o, o \notin Userdata, NEW p
  PROVE  /\ LET k == luaC_new(h, o, p) IN Quiet(h, k) /\ DOMAIN k = Fields /\ k.cur = h.cur
         /\ LET k == luaC_link(h, o, p) IN Quiet(h, k) /\ DOMAIN k = Fields /\ k.cur = h.cur
<1> DEFINE k == luaC_new(h, o, p)
           l == luaC_link(h, o, p)
<1>1. /\ DOMAIN k = Fields /\ k.gcstate = h.gcstate /\ k.udata = h.udata /\ k.tmudata = h.tmudata
      /\ k.fins = h.fins /\ k.made = h.made /\ k.late = h.late /\ k.cur = h.cur
      /\ Live(k) = Live(h) \cup {o} /\ \A u \in Userdata \cap Live(h) : k.heap[u] = h.heap[u]
  BY DEF luaC_new, Put, Fields, Live
<1>2. /\ DOMAIN l = Fields /\ l.gcstate = k.gcstate /\ l.udata = k.udata /\ l.tmudata = k.tmudata
      /\ l.fins = k.fins /\ l.made = k.made /\ l.late = k.late /\ l.cur = k.cur /\ l.heap = k.heap
  BY <1>1 DEF luaC_link, Fields
<1> HIDE DEF k, l
<1>3. Quiet(h, k) /\ Quiet(h, l)
  BY <1>1, <1>2, QuietSame DEF Live
<1> QED
  BY <1>1, <1>2, <1>3 DEF k, l

\* Upvalues that leave the stack are no userdata.
LEMMA UnstackedQuiet ==
  ASSUME NEW h, DOMAIN h = Fields, NEW us \in SUBSET Upvalues, NEW dead \in SUBSET Upvalues
  PROVE  Quiet(h, Unstacked(h, us, dead)) /\ DOMAIN Unstacked(h, us, dead) = Fields
<1> DEFINE k == Unstacked(h, us, dead)
<1>1. /\ DOMAIN k = Fields /\ Live(k) = Live(h) \ dead
      /\ \A o \in Live(h) \ (dead \cup us) : k.heap[o] = h.heap[o]
      /\ k.udata = h.udata /\ k.tmudata = h.tmudata /\ k.gcstate = h.gcstate /\ k.fins = h.fins
      /\ k.made = h.made /\ k.late = h.late
  BY UnstackedKeeps
<1> HIDE DEF k
<1>2. \A u \in Userdata : u \notin dead \cup us
  BY Kinds
<1>3. Quiet(h, k)
  BY <1>1, <1>2, QuietSame
<1> QED
  BY <1>1, <1>3 DEF k

LEMMA LinkupvalQuiet ==
  ASSUME NEW h, DOMAIN h = Fields, NEW us
  PROVE  Quiet(h, luaC_linkupval(h, us))
<1> DEFINE k == [h EXCEPT !.color = [o \in DOMAIN h.color |->
                                       IF o \in us THEN IF h.gcstate = "propagate" THEN "black" ELSE h.white
                                       ELSE h.color[o]],
                          !.asserts = @ \cup lua_assert(us = {} \/ h.gcstate \notin {"finalize", "pause"},
                                                        "luaC_linkupval")]
           vs == {h.heap[u].v : u \in us}
           l == luaC_linkupval(h, us)
<1>1. /\ DOMAIN k = Fields /\ k.gcstate = h.gcstate /\ k.udata = h.udata /\ k.tmudata = h.tmudata
      /\ k.fins = h.fins /\ k.made = h.made /\ k.late = h.late /\ k.heap = h.heap
  BY DEF Fields
<1>2. l = k \/ l = Mark(k, vs)
  BY DEF luaC_linkupval
<1> HIDE DEF k, vs, l
<1>3. Quiet(h, k)
  BY <1>1, QuietSame DEF Live
<1>4. Quiet(k, Mark(k, vs))
  BY <1>1, MarkQuiet
<1>5. Quiet(h, Mark(k, vs))
  BY <1>3, <1>4, QuietTwice
<1>6. Quiet(h, l)
  BY <1>2, <1>3, <1>5
<1> QED
  BY <1>6 DEF l

LEMMA CloseQuiet ==
  ASSUME NEW h, DOMAIN h = Fields, NEW th, NEW level
  PROVE  Quiet(h, luaF_close(h, th, level))
<1> DEFINE us == OpenAt(h, th, level)
           dead == {u \in us : isdead(h, u)}
           rest == us \ dead
           gray == {u \in rest : isgray(h, u)}
           ok == [h EXCEPT !.asserts = @ \cup lua_assert(\A u \in us : ~isblack(h, u), "luaF_close")]
           k == Unstacked(ok, rest, dead)
           l == luaC_linkupval(k, gray)
<1>1. luaF_close(h, th, level) = l
  BY DEF luaF_close
<1>2. rest \in SUBSET Upvalues /\ dead \in SUBSET Upvalues
  BY DEF OpenAt, Open
<1>3. /\ DOMAIN ok = Fields /\ ok.gcstate = h.gcstate /\ ok.udata = h.udata /\ ok.tmudata = h.tmudata
      /\ ok.fins = h.fins /\ ok.made = h.made /\ ok.late = h.late /\ ok.heap = h.heap
  BY DEF Fields
<1> HIDE DEF ok, us, dead, rest, gray
<1>4. Quiet(h, ok)
  BY <1>3, QuietSame DEF Live
<1>5. Quiet(ok, k) /\ DOMAIN k = Fields
  BY <1>2, <1>3, UnstackedQuiet
<1> HIDE DEF k
<1>6. Quiet(k, l)
  BY <1>5, LinkupvalQuiet
<1> HIDE DEF l
<1>7. Quiet(h, l)
  BY <1>4, <1>5, <1>6, QuietTwice
<1> QED
  BY <1>1, <1>7

\* Only luaS_newudata and lua_close are the program's doing.
LEMMA NewTableQuiet ==
  ASSUME HeapInv(g), NEW r, NewTable(r) \/ NewThread(r)
  PROVE  Quiet(g, g')
<1>1. PICK o, p : o \in Tables \cup Coroutines /\ g' = SetReg(luaC_link(g, o, p), r, o)
  BY DEF NewTable, NewThread, Fresh
<1>2. DOMAIN g = Fields /\ g.cur \in Threads /\ o \notin Userdata
  BY <1>1, Kinds DEF HeapInv, HeapBut, Typed, Shape, Threads
<1> DEFINE k == luaC_link(g, o, p)
<1>3. Quiet(g, k) /\ DOMAIN k = Fields /\ k.cur = g.cur
  BY <1>2, NewQuiet
<1> HIDE DEF k
<1>4. Quiet(k, SetReg(k, r, o))
  BY <1>2, <1>3, SetRegQuiet
<1>5. Quiet(g, SetReg(k, r, o))
  BY <1>3, <1>4, QuietTwice
<1> QED
  BY <1>1, <1>5 DEF k

LEMMA NewStringQuiet ==
  ASSUME HeapInv(g), NEW r, luaS_newlstr(r)
  PROVE  Quiet(g, g')
<1> DEFINE K(s) == IF s \notin Live(g) THEN luaC_new(g, s, <<>>)
                   ELSE IF isdead(g, s) THEN makewhite(g, s) ELSE g
<1>1. PICK s \in Strings : g' = SetReg(K(s), r, s)
  BY DEF luaS_newlstr
<1>2. DOMAIN g = Fields /\ g.cur \in Threads /\ s \notin Userdata
  BY Kinds DEF HeapInv, HeapBut, Typed, Shape
<1> DEFINE empty == <<>>
           new == luaC_new(g, s, empty)
           white == makewhite(g, s)
           k == K(s)
<1>3. Quiet(g, new) /\ DOMAIN new = Fields /\ new.cur = g.cur
  <2> HIDE DEF empty
  <2> QED
    BY <1>2, NewQuiet
<1>4. Quiet(g, white) /\ DOMAIN white = Fields /\ white.cur = g.cur
  BY <1>2, WhiteQuiet DEF makewhite, Fields
<1>5. k = new \/ k = white \/ k = g
  OBVIOUS
<1>6. Quiet(g, g)
  BY <1>2, QuietSame
<1> HIDE DEF new, white, k, K
<1>7. Quiet(g, k) /\ DOMAIN k = Fields /\ k.cur = g.cur
  BY <1>2, <1>3, <1>4, <1>5, <1>6
<1>8. Quiet(k, SetReg(k, r, s))
  BY <1>2, <1>7, SetRegQuiet
<1>9. Quiet(g, SetReg(k, r, s))
  BY <1>7, <1>8, QuietTwice
<1> QED
  BY <1>1, <1>9 DEF k

LEMMA FindupvalQuiet ==
  ASSUME NEW h, DOMAIN h = Fields, h.cur \in Threads, NEW u \in Upvalues, NEW slot
  PROVE  LET k == luaF_findupval(h, u, slot) IN Quiet(h, k) /\ DOMAIN k = Fields /\ k.cur = h.cur
<1> DEFINE p == [open |-> TRUE, th |-> h.cur, slot |-> slot, v |-> Nil]
           new == luaC_new(h, u, p)
           white == makewhite(h, u)
           k == luaF_findupval(h, u, slot)
<1>1. k = new \/ k = white \/ k = h
  BY DEF luaF_findupval
<1>2. Quiet(h, new) /\ DOMAIN new = Fields /\ new.cur = h.cur
  <2>1. u \notin Userdata
    BY Kinds
  <2> HIDE DEF p
  <2> QED
    BY <2>1, NewQuiet
<1>3. Quiet(h, white) /\ DOMAIN white = Fields /\ white.cur = h.cur
  BY WhiteQuiet DEF makewhite, Fields
<1>4. Quiet(h, h)
  BY QuietSame
<1> HIDE DEF new, white, k
<1>5. Quiet(h, k) /\ DOMAIN k = Fields /\ k.cur = h.cur
  BY <1>1, <1>2, <1>3, <1>4
<1> QED
  BY <1>5 DEF k

LEMMA NewClosureQuiet ==
  ASSUME HeapInv(g), NEW r, NewClosure(r)
  PROVE  Quiet(g, g')
<1> DEFINE P(u) == [env |-> Globals, upvals |-> {u}]
<1>1. PICK c \in Closures :
        \/ \E slot : \E u \in Upvalues :
             g' = SetReg(luaC_link(luaF_findupval(g, u, slot), c, P(u)), r, c)
        \/ \E u : g' = SetReg(luaC_link(g, c, P(u)), r, c)
  BY DEF NewClosure, Fresh, OpenAt, Open
<1>2. DOMAIN g = Fields /\ g.cur \in Threads /\ c \notin Userdata
  BY Kinds DEF HeapInv, HeapBut, Typed, Shape
<1>3. \E k, p : /\ Quiet(g, k) /\ DOMAIN k = Fields /\ k.cur = g.cur
                /\ g' = SetReg(luaC_link(k, c, p), r, c)
  <2>1. CASE \E slot : \E u \in Upvalues :
               g' = SetReg(luaC_link(luaF_findupval(g, u, slot), c, P(u)), r, c)
    <3>1. PICK slot, u : u \in Upvalues /\ g' = SetReg(luaC_link(luaF_findupval(g, u, slot), c, P(u)), r, c)
      BY <2>1
    <3> DEFINE k == luaF_findupval(g, u, slot)
    <3>2. Quiet(g, k) /\ DOMAIN k = Fields /\ k.cur = g.cur
      BY <1>2, <3>1, FindupvalQuiet
    <3> QED
      BY <3>1, <3>2
  <2>2. CASE \E u : g' = SetReg(luaC_link(g, c, P(u)), r, c)
    <3>1. Quiet(g, g)
      BY <1>2, QuietSame
    <3> QED
      BY <1>2, <2>2, <3>1
  <2> QED
    BY <1>1, <2>1, <2>2
<1>4. PICK k, p : /\ Quiet(g, k) /\ DOMAIN k = Fields /\ k.cur = g.cur
                  /\ g' = SetReg(luaC_link(k, c, p), r, c)
  BY <1>3
<1> DEFINE l == luaC_link(k, c, p)
<1>5. Quiet(k, l) /\ DOMAIN l = Fields /\ l.cur = k.cur
  BY <1>2, <1>4, NewQuiet
<1> HIDE DEF l
<1>6. Quiet(l, SetReg(l, r, c))
  BY <1>2, <1>4, <1>5, SetRegQuiet
<1>7. Quiet(g, SetReg(l, r, c))
  BY <1>4, <1>5, <1>6, QuietTwice
<1> QED
  BY <1>4, <1>7 DEF l

LEMMA LoadQuiet ==
  ASSUME HeapInv(g), NEW r, GetTable(r) \/ GetUpval(r) \/ lua_getfenv(r) \/ Forget(r)
  PROVE  Quiet(g, g')
<1>1. PICK v : g' = SetReg(g, r, v)
  BY DEF GetTable, GetUpval, lua_getfenv, Forget
<1>2. DOMAIN g = Fields /\ g.cur \in Threads
  BY DEF HeapInv, HeapBut, Typed, Shape
<1> QED
  BY <1>1, <1>2, SetRegQuiet

LEMMA SwitchQuiet ==
  ASSUME HeapInv(g), NEW r \in Slots, Resume(r) \/ Yield(r)
  PROVE  Quiet(g, g')
<1> DEFINE K(c, o, a, v) == [g EXCEPT !.cur = c, !.heap[o][a] = v]
<1>1. PICK c, o, a, v : o \in Threads /\ g' = K(c, o, a, v)
  <2>1. CASE Resume(r)
    <3>1. Regs[r] \in Threads /\ \E a \in Slots : g' = K(Regs[r], Regs[r], 1, Regs[a])
      BY <2>1 DEF Resume, Threads
    <3> HIDE DEF K
    <3> QED
      BY <3>1
  <2>2. CASE Yield(r)
    <3>1. Main \in Threads /\ \E a \in Slots : g' = K(Main, Main, a, Regs[r])
      BY <2>2 DEF Yield, Threads
    <3> HIDE DEF K
    <3> QED
      BY <3>1
  <2> QED
    BY <2>1, <2>2
<1> DEFINE k == K(c, o, a, v)
<1>2. DOMAIN g = Fields /\ o \notin Userdata
  BY <1>1, Kinds DEF HeapInv, HeapBut, Typed, Shape
<1>3. /\ DOMAIN k = Fields /\ k.gcstate = g.gcstate /\ k.udata = g.udata /\ k.tmudata = g.tmudata
      /\ k.fins = g.fins /\ k.made = g.made /\ k.late = g.late
      /\ Live(k) = Live(g) /\ \A u \in Userdata \cap Live(g) : k.heap[u] = g.heap[u]
  BY <1>2 DEF Fields, Live
<1> HIDE DEF k, K
<1>4. Quiet(g, k)
  BY <1>3, QuietSame
<1> QED
  BY <1>1, <1>4 DEF k

LEMMA SetTableQuiet ==
  ASSUME HeapInv(g), NEW r, SetTable(r)
  PROVE  Quiet(g, g')
<1>1. PICK t \in Tables : \E key :
        \/ \E p : g' = [g EXCEPT !.heap[t] = p]
        \/ \E p, v : LET keyed == IF key \in DOMAIN g.heap[t] \cup {Field} THEN g ELSE luaC_barriert(g, t, key)
                     IN g' = luaC_barriert([keyed EXCEPT !.heap[t] = p], t, v)
  BY DEF SetTable, AtHand
<1> PICK key :
        \/ \E p : g' = [g EXCEPT !.heap[t] = p]
        \/ \E p, v : LET keyed == IF key \in DOMAIN g.heap[t] \cup {Field} THEN g ELSE luaC_barriert(g, t, key)
                     IN g' = luaC_barriert([keyed EXCEPT !.heap[t] = p], t, v)
  BY <1>1
<1>2. DOMAIN g = Fields /\ t \notin Userdata /\ Quiet(g, g)
  BY Kinds, QuietSame DEF HeapInv, HeapBut, Typed, Shape
<1>3. CASE \E p : g' = [g EXCEPT !.heap[t] = p]
  BY <1>2, <1>3, StoreQuiet
<1>4. CASE \E p, v : LET keyed == IF key \in DOMAIN g.heap[t] \cup {Field} THEN g ELSE luaC_barriert(g, t, key)
                     IN g' = luaC_barriert([keyed EXCEPT !.heap[t] = p], t, v)
  <2> DEFINE keyed == IF key \in DOMAIN g.heap[t] \cup {Field} THEN g ELSE luaC_barriert(g, t, key)
  <2>1. PICK p, v : g' = luaC_barriert([keyed EXCEPT !.heap[t] = p], t, v)
    BY <1>4
  <2>2. Quiet(g, luaC_barriert(g, t, key))
    BY <1>2, BarriertQuiet
  <2>3. Quiet(g, keyed) /\ DOMAIN keyed = Fields
    BY <1>2, <2>2 DEF Quiet, Kept
  <2> HIDE DEF keyed
  <2> DEFINE k == [keyed EXCEPT !.heap[t] = p]
  <2>4. Quiet(keyed, k)
    BY <1>2, <2>3, StoreQuiet
  <2> HIDE DEF k
  <2>5. Quiet(k, luaC_barriert(k, t, v))
    <3>1. DOMAIN k = Fields
      BY <2>4 DEF Quiet, Kept
    <3> QED
      BY <3>1, BarriertQuiet
  <2>6. Quiet(g, luaC_barriert(k, t, v))
    BY <2>3, <2>4, <2>5, QuietTwice
  <2> QED
    BY <2>1, <2>6 DEF k
<1> QED
  BY <1>1, <1>3, <1>4

LEMMA SetUpvalQuiet ==
  ASSUME HeapInv(g), NEW r, SetUpval(r)
  PROVE  Quiet(g, g')
<1>1. PICK c, u : /\ c \in AtHand(Closures) /\ u \in g.heap[c].upvals
                  /\ LET uv == g.heap[u]
                         set == IF uv.open THEN [g EXCEPT !.heap[uv.th][uv.slot] = Regs[r]]
                                ELSE [g EXCEPT !.heap[u].v = Regs[r]]
                     IN g' = luaC_barrier(set, u, Regs[r])
  BY DEF SetUpval
<1>2. u \in Upvalues /\ u \in Live(g) /\ Payload(g, u)
  <2>1. Closures \in SUBSET Objects
    BY DEF Objects, Values
  <2>2. c \in Closures /\ Payload(g, c) /\ \A x \in Refs(g, c) : Good(g, x)
    BY <1>1, <2>1, AtHandGood
  <2>3. u \in Upvalues /\ u \in Refs(g, c)
    BY <1>1, <2>2, Kinds, MarkRefsOf DEF Payload, Refs
  <2> QED
    BY <2>2, <2>3 DEF Good, HeapInv, HeapBut, Typed, Payloads
<1> DEFINE uv == g.heap[u]
           set == IF uv.open THEN [g EXCEPT !.heap[uv.th][uv.slot] = Regs[r]] ELSE [g EXCEPT !.heap[u].v = Regs[r]]
<1>3. DOMAIN g = Fields /\ u \notin Userdata /\ uv.th \notin Userdata
  BY <1>2, Kinds DEF HeapInv, HeapBut, Typed, Shape, Payload
<1>4. /\ DOMAIN set = Fields /\ set.gcstate = g.gcstate /\ set.udata = g.udata /\ set.tmudata = g.tmudata
      /\ set.fins = g.fins /\ set.made = g.made /\ set.late = g.late
      /\ Live(set) = Live(g) /\ \A x \in Userdata \cap Live(g) : set.heap[x] = g.heap[x]
  BY <1>3 DEF Fields, Live
<1> HIDE DEF set
<1>5. Quiet(g, set)
  BY <1>4, QuietSame
<1>6. Quiet(set, luaC_barrier(set, u, Regs[r]))
  BY <1>4, BarrierQuiet
<1>7. Quiet(g, luaC_barrier(set, u, Regs[r]))
  BY <1>5, <1>6, QuietTwice
<1> QED
  BY <1>1, <1>7 DEF set

LEMMA SetfenvQuiet ==
  ASSUME HeapInv(g), NEW r, lua_setfenv(r)
  PROVE  Quiet(g, g')
<1>1. PICK o, v : g' = luaC_barrier([g EXCEPT !.heap[o].env = v], o, v)
  BY DEF lua_setfenv
<1> DEFINE k == [g EXCEPT !.heap[o].env = v]
<1>2. DOMAIN g = Fields /\ Payloads(g)
  BY DEF HeapInv, HeapBut, Typed, Shape
<1>3. /\ DOMAIN k = Fields /\ k.gcstate = g.gcstate /\ k.udata = g.udata /\ k.tmudata = g.tmudata
      /\ k.fins = g.fins /\ k.made = g.made /\ k.late = g.late
      /\ Live(k) = Live(g) /\ \A u \in Userdata \cap Live(g) : k.heap[u].fin = g.heap[u].fin
  BY <1>2 DEF Fields, Live, Payloads, Payload
<1> HIDE DEF k
<1>4. Quiet(g, k)
  BY <1>3, QuietSame
<1>5. Quiet(k, luaC_barrier(k, o, v))
  BY <1>3, BarrierQuiet
<1>6. Quiet(g, luaC_barrier(k, o, v))
  BY <1>4, <1>5, QuietTwice
<1> QED
  BY <1>1, <1>6 DEF k

LEMMA ProgramQuiet ==
  ASSUME HeapInv(g), Program
  PROVE  Quiet(g, g') \/ \E r \in Slots : luaS_newudata(r)
<1>1. PICK r \in Slots :
        \/ NewTable(r) \/ NewThread(r) \/ luaS_newudata(r) \/ luaS_newlstr(r) \/ NewClosure(r)
        \/ GetTable(r) \/ SetTable(r) \/ GetUpval(r) \/ SetUpval(r)
        \/ lua_getfenv(r) \/ lua_setfenv(r) \/ Forget(r) \/ Close(r) \/ Resume(r) \/ Yield(r)
  BY DEF Program
<1>2. CASE NewTable(r) \/ NewThread(r)
  BY <1>2, NewTableQuiet
<1>3. CASE luaS_newlstr(r)
  BY <1>3, NewStringQuiet
<1>4. CASE NewClosure(r)
  BY <1>4, NewClosureQuiet
<1>5. CASE GetTable(r) \/ GetUpval(r) \/ lua_getfenv(r) \/ Forget(r)
  BY <1>5, LoadQuiet
<1>6. CASE SetTable(r)
  BY <1>6, SetTableQuiet
<1>7. CASE SetUpval(r)
  BY <1>7, SetUpvalQuiet
<1>8. CASE lua_setfenv(r)
  BY <1>8, SetfenvQuiet
<1>9. CASE Close(r)
  <2>1. DOMAIN g = Fields
    BY DEF HeapInv, HeapBut, Typed, Shape
  <2> QED
    BY <1>9, <2>1, CloseQuiet DEF Close
<1>10. CASE Resume(r) \/ Yield(r)
  BY <1>10, SwitchQuiet
<1>11. CASE luaS_newudata(r)
  BY <1>11
<1> QED
  BY <1>1, <1>2, <1>3, <1>4, <1>5, <1>6, <1>7, <1>8, <1>9, <1>10, <1>11

-----------------------------------------------------------------------------
(* What changes them                                                       *)

\* A userdata has its finalizer still to come.
LEMMA NewUdataFinalizing ==
  ASSUME HeapInv(g), Finalizing(g), NEW r, luaS_newudata(r)
  PROVE  Finalizing(g') /\ g'.gcstate = g.gcstate
<1> DEFINE P == [env |-> Globals, fin |-> FALSE]
           Others(u) == DOMAIN g.made \ {u}
           Mades(u) == IF g.gcstate = "closing" THEN Others(u) ELSE Others(u) \cup {u}
           Made(u) == [x \in Mades(u) |-> IF x = u THEN Others(u) ELSE g.made[x] \ {u}]
           K(u) == [AfterMain(luaC_new(g, u, P), u) EXCEPT !.made = Made(u), !.fins[u] = 0]
<1>1. PICK u \in Userdata \ Live(g) : g' = SetReg(K(u), r, u)
  BY DEF luaS_newudata, Fresh
<1> DEFINE k == K(u)
<1>2. /\ DOMAIN g = Fields /\ Lists(g) /\ Lists(g') /\ g.cur \in Threads /\ u \in Userdata /\ u \notin Live(g)
  <2>1. HeapInv(g')
    BY NewUdataStep
  <2> QED
    BY <2>1 DEF HeapInv, HeapBut, Typed, Shape
<1>3. /\ DOMAIN k = Fields /\ k.gcstate = g.gcstate /\ k.cur = g.cur
      /\ k.udata = <<u>> \o g.udata /\ k.tmudata = g.tmudata /\ k.late = g.late
      /\ k.made = Made(u) /\ k.fins = [g.fins EXCEPT ![u] = 0]
      /\ Live(k) = Live(g) \cup {u} /\ k.heap[u] = P
      /\ \A x \in Live(g) : k.heap[x] = g.heap[x]
  <2> HIDE DEF P, Made
  <2> QED
    BY <1>2 DEF AfterMain, luaC_new, Put, Fields, Live
<1> HIDE DEF K
<1>4. ~k.heap[u].fin
  BY <1>3
<1>5. /\ DOMAIN k.made = Mades(u) /\ Mades(u) \subseteq Userdata /\ u \notin Others(u)
      /\ \A x \in Others(u) : x \in Mades(u) /\ k.made[x] = g.made[x] \ {u}
      /\ g.gcstate # "closing" => u \in Mades(u) /\ k.made[u] = Others(u)
  <2> DEFINE M == Made(u)
  <2>1. k.made = M
    BY <1>3
  <2> HIDE DEF k
  <2>2. M = [x \in Mades(u) |-> IF x = u THEN Others(u) ELSE g.made[x] \ {u}]
    OBVIOUS
  <2> HIDE DEF M
  <2>3. Mades(u) \subseteq Userdata /\ u \notin Others(u) /\ \A x \in Others(u) : x \in Mades(u) /\ x # u
    BY <1>2 DEF Finalizing
  <2>4. g.gcstate # "closing" => u \in Mades(u)
    OBVIOUS
  <2> QED
    BY <2>1, <2>2, <2>3, <2>4
<1> HIDE DEF P, Made
<1>6. /\ g.udata \in Seq(Userdata) /\ Range(g.udata) \subseteq Live(g) /\ Range(g.tmudata) \subseteq Live(g)
  BY <1>2 DEF Lists
<1>7. /\ g.fins \in [Userdata -> {0, 1}]
      /\ DOMAIN g.made \subseteq Userdata /\ Range(g.tmudata) \subseteq DOMAIN g.made
      /\ g.gcstate # "closing" => Userdata \cap Live(g) \subseteq DOMAIN g.made
  BY DEF Finalizing
<1> HIDE DEF k
<1>8. k.fins \in [Userdata -> {0, 1}] /\ k.fins[u] = 0 /\ \A x \in Userdata \ {u} : k.fins[x] = g.fins[x]
  BY <1>2, <1>3, <1>7
<1>9. DOMAIN k.made \subseteq Userdata /\ Range(k.tmudata) \subseteq DOMAIN k.made
  BY <1>2, <1>3, <1>5, <1>6, <1>7
<1>10. \A x \in Userdata \cap Live(k) : ~k.heap[x].fin \/ x \in Range(k.tmudata) => k.fins[x] = 0
  BY <1>3, <1>8 DEF Finalizing
<1>11. ASSUME NEW x \in HasGC \cap DOMAIN k.made,
              x \notin Live(k) \/ (k.heap[x].fin /\ x \notin Range(k.tmudata))
       PROVE  k.fins[x] = 1
  <2>1. x # u /\ x \in DOMAIN g.made /\ x \in Userdata
    BY <1>3, <1>4, <1>5, <1>9, <1>11
  <2>2. x \notin Live(g) \/ (g.heap[x].fin /\ x \notin Range(g.tmudata))
    BY <1>3, <1>11, <2>1
  <2> QED
    BY <1>8, <1>11, <2>1, <2>2 DEF Finalizing
<1>12. k.gcstate = "closing" => \A x \in DOMAIN k.made \cap Live(k) : k.heap[x].fin
  BY <1>3, <1>5 DEF Finalizing
<1>13. ASSUME k.gcstate # "closing"
       PROVE  /\ Userdata \cap Live(k) \subseteq DOMAIN k.made
              /\ \A x, y \in Userdata :
                   Before(k.udata, x, y) /\ ~k.heap[x].fin /\ ~k.heap[y].fin => y \in k.made[x]
  <2>1. Userdata \cap Live(k) \subseteq DOMAIN k.made
    BY <1>3, <1>5, <1>7, <1>13
  <2>2. ASSUME NEW x \in Userdata, NEW y \in Userdata, Before(k.udata, x, y), ~k.heap[x].fin, ~k.heap[y].fin
        PROVE  y \in k.made[x]
    <3>1. Before(g.udata, x, y) \/ (x = u /\ y \in Range(g.udata))
      BY <1>2, <1>3, <1>6, <2>2, BeforePrepended
    <3>2. CASE Before(g.udata, x, y)
      <4>1. x \in Range(g.udata) /\ y \in Range(g.udata)
        BY <3>2, BeforeIn
      <4>2. x \in Live(g) /\ y \in Live(g) /\ x # u /\ y # u /\ x \in Others(u)
        BY <1>2, <1>3, <1>6, <1>7, <1>13, <4>1
      <4>3. y \in g.made[x]
        BY <1>3, <1>13, <2>2, <3>2, <4>2 DEF Finalizing
      <4> QED
        BY <1>5, <4>2, <4>3
    <3>3. CASE x = u /\ y \in Range(g.udata)
      BY <1>2, <1>3, <1>5, <1>6, <1>7, <1>13, <3>3
    <3> QED
      BY <3>1, <3>2, <3>3
  <2> QED
    BY <2>1, <2>2
<1>14. ASSUME NEW x \in Userdata, NEW y \in Userdata, Before(k.tmudata, x, y)
       PROVE  x \in k.late \/ y \in k.made[x]
  <2>1. x \in Range(g.tmudata) /\ y \in Range(g.tmudata)
    BY <1>3, <1>14, BeforeIn
  <2>2. x # u /\ y # u /\ x \in Others(u)
    BY <1>2, <1>6, <1>7, <2>1
  <2>3. x \in g.late \/ y \in g.made[x]
    BY <1>3, <1>14 DEF Finalizing
  <2> QED
    BY <1>3, <1>5, <2>2, <2>3
<1>15. Finalizing(k)
  BY <1>8, <1>9, <1>10, <1>11, <1>12, <1>13, <1>14 DEF Finalizing
<1>16. Quiet(k, g')
  BY <1>1, <1>2, <1>3, SetRegQuiet DEF k
<1> QED
  BY <1>2, <1>3, <1>15, <1>16, KeptFinalizing DEF Quiet

\* A finalizer that was still to come has run, or rather begins to.
LEMMA FinalizeFinalizing ==
  ASSUME HeapInv(g), Finalizing(g), Finalize
  PROVE  Finalizing(g') /\ g'.gcstate = g.gcstate
<1> DEFINE u == Head(g.tmudata)
<1>1. PICK r \in Slots : g' = GCTM(g, r)
  BY DEF Finalize
<1>2. /\ DOMAIN g = Fields /\ Lists(g) /\ Awaiting(g) /\ g.cur \in Threads
      /\ g.tmudata \in Seq(Userdata) /\ g.tmudata # <<>> /\ g.udata \in Seq(Userdata)
      /\ Range(g.udata) \subseteq Live(g)
  BY DEF HeapInv, HeapBut, Typed, Shape, Lists, Finalize
<1>3. /\ u \in Range(g.tmudata) /\ u \in Userdata /\ Range(g.tmudata) = {u} \cup Range(Tail(g.tmudata))
      /\ u \notin Range(Tail(g.tmudata)) /\ u \in Live(g)
  <2>1. Range(g.tmudata) \subseteq Userdata \cap Live(g) /\ IsInjective(g.tmudata)
    BY <1>2 DEF Lists
  <2> QED
    BY <1>2, <2>1, WithoutHead
<1>4. g.heap[u].fin /\ g.fins[u] = 0
  BY <1>2, <1>3 DEF Awaiting, Finalizing
<1> DEFINE w == makewhite(AfterMain(g, u), u)
           k == [w EXCEPT !.tmudata = Tail(@), !.heap[g.cur][r] = u, !.fins[u] = @ + 1, !.late = @ \ {u}]
<1>5. g' = k
  BY <1>1 DEF GCTM
<1> HIDE DEF u
<1>6. /\ DOMAIN k = Fields /\ k.gcstate = g.gcstate
      /\ k.udata = <<u>> \o g.udata /\ k.tmudata = Tail(g.tmudata) /\ k.late = g.late \ {u}
      /\ k.made = g.made /\ k.fins = [g.fins EXCEPT ![u] = @ + 1]
      /\ Live(k) = Live(g) /\ \A x \in Userdata \cap Live(g) : k.heap[x] = g.heap[x]
  BY <1>2, Kinds DEF makewhite, AfterMain, Fields, Live
<1> HIDE DEF k, w
<1>7. /\ k.fins \in [Userdata -> {0, 1}] /\ k.fins[u] = 1
      /\ \A x \in Userdata \ {u} : k.fins[x] = g.fins[x]
  BY <1>3, <1>4, <1>6 DEF Finalizing
<1>8. DOMAIN k.made \subseteq Userdata /\ Range(k.tmudata) \subseteq DOMAIN k.made
  BY <1>3, <1>6 DEF Finalizing
<1>9. ASSUME NEW x \in Userdata \cap Live(k), ~k.heap[x].fin \/ x \in Range(k.tmudata)
      PROVE  k.fins[x] = 0
  <2>1. x # u /\ (~g.heap[x].fin \/ x \in Range(g.tmudata)) /\ x \in Live(g)
    BY <1>3, <1>4, <1>6, <1>9
  <2> QED
    BY <1>7, <2>1 DEF Finalizing
<1>10. ASSUME NEW x \in HasGC \cap DOMAIN k.made,
              x \notin Live(k) \/ (k.heap[x].fin /\ x \notin Range(k.tmudata))
       PROVE  k.fins[x] = 1
  <2>1. x \in Userdata
    BY Kinds
  <2>2. CASE x # u
    <3>1. x \notin Live(g) \/ (g.heap[x].fin /\ x \notin Range(g.tmudata))
      BY <1>3, <1>6, <1>10, <2>1, <2>2
    <3> QED
      BY <1>6, <1>7, <2>1, <2>2, <3>1 DEF Finalizing
  <2> QED
    BY <1>7, <2>2
<1>11. k.gcstate = "closing" => \A x \in DOMAIN k.made \cap Live(k) : k.heap[x].fin
  BY <1>6, <1>8 DEF Finalizing
<1>12. ASSUME k.gcstate # "closing", NEW x \in Userdata, NEW y \in Userdata,
              Before(k.udata, x, y), ~k.heap[x].fin, ~k.heap[y].fin
       PROVE  y \in k.made[x]
  <2>1. Before(g.udata, x, y) \/ (x = u /\ y \in Range(g.udata))
    BY <1>2, <1>3, <1>6, <1>12, BeforePrepended
  <2>2. x # u
    BY <1>3, <1>4, <1>6, <1>12
  <2>3. x \in Range(g.udata) /\ y \in Range(g.udata)
    BY <2>1, <2>2, BeforeIn
  <2> QED
    BY <1>2, <1>6, <1>12, <2>1, <2>2, <2>3 DEF Finalizing
<1>13. ASSUME NEW x \in Userdata, NEW y \in Userdata, Before(k.tmudata, x, y)
       PROVE  x \in k.late \/ y \in k.made[x]
  <2>1. x \in Range(Tail(g.tmudata)) /\ Before(g.tmudata, x, y)
    BY <1>2, <1>6, <1>13, BeforeIn, BeforeTail
  <2> QED
    BY <1>3, <1>6, <2>1 DEF Finalizing
<1>14. k.gcstate # "closing" => Userdata \cap Live(k) \subseteq DOMAIN k.made
  BY <1>6 DEF Finalizing
<1> QED
  BY <1>5, <1>6, <1>7, <1>8, <1>9, <1>10, <1>11, <1>12, <1>13, <1>14 DEF Finalizing

\* Those that come to wait were created in that order.
LEMMA SeparatedFinalizing ==
  ASSUME NEW h, Typed(h), Lists(h), Finalizing(h), h.gcstate # "closing",
         NEW dies \in SUBSET Range(h.udata), \A u \in dies : ~h.heap[u].fin
  PROVE  Finalizing(Separated(h, dies))
<1> DEFINE due == dies \cap HasGC
           k == Separated(h, dies)
<1>1. /\ h.udata \in Seq(Userdata) /\ h.tmudata \in Seq(Userdata) /\ DOMAIN h = Fields
      /\ Range(h.udata) \cup Range(h.tmudata) = Live(h) \cap Userdata
  BY DEF Lists, Typed, Shape
<1>2. /\ k.fins = h.fins /\ k.made = h.made /\ k.gcstate = h.gcstate
  BY <1>1, SeparatedKeeps
<1>3. /\ Live(k) = Live(h) /\ Range(k.tmudata) = Range(h.tmudata) \cup due
      /\ \A d \in Userdata \cap Live(h) : k.heap[d].fin <=> h.heap[d].fin \/ d \in dies
  BY SeparatedTyped DEF SameLinks
<1>4. /\ k.udata = Selected(h.udata, Userdata \ due)
      /\ k.tmudata = h.tmudata \o Selected(h.udata, due) /\ k.late = Range(h.tmudata)
  BY <1>1 DEF Separated, Fields
<1>5. Selected(h.udata, due) \in Seq(Userdata)
  BY <1>1, SelectedProperties
<1> HIDE DEF k
<1>6. dies \subseteq Userdata \cap Live(h) /\ due \subseteq Userdata \cap Live(h)
  BY <1>1
<1>7. Range(k.tmudata) \subseteq DOMAIN k.made
  BY <1>2, <1>3, <1>6 DEF Finalizing
<1>8. \A x \in Userdata \cap Live(k) : ~k.heap[x].fin \/ x \in Range(k.tmudata) => k.fins[x] = 0
  BY <1>2, <1>3, <1>6 DEF Finalizing
<1>9. ASSUME NEW x \in HasGC \cap DOMAIN k.made,
             x \notin Live(k) \/ (k.heap[x].fin /\ x \notin Range(k.tmudata))
      PROVE  k.fins[x] = 1
  <2>1. x \in Userdata
    BY Kinds
  <2>2. x \notin Live(h) \/ (h.heap[x].fin /\ x \notin Range(h.tmudata))
    BY <1>3, <1>9, <2>1
  <2> QED
    BY <1>2, <1>9, <2>2 DEF Finalizing
<1>10. ASSUME NEW x \in Userdata, NEW y \in Userdata, Before(k.udata, x, y), ~k.heap[x].fin, ~k.heap[y].fin
       PROVE  y \in k.made[x]
  <2>1. Before(h.udata, x, y)
    BY <1>1, <1>4, <1>10, BeforeSelected
  <2>2. x \in Live(h) /\ y \in Live(h)
    BY <1>1, <2>1, BeforeIn
  <2> QED
    BY <1>2, <1>3, <1>10, <2>1, <2>2 DEF Finalizing
<1>11. ASSUME NEW x \in Userdata, NEW y \in Userdata, Before(k.tmudata, x, y)
       PROVE  x \in k.late \/ y \in k.made[x]
  <2> DEFINE more == Selected(h.udata, due)
  <2>1. Before(h.tmudata, x, y) \/ Before(more, x, y) \/ x \in Range(h.tmudata)
    BY <1>1, <1>4, <1>5, <1>11, BeforeConcat
  <2>2. CASE Before(h.tmudata, x, y) \/ x \in Range(h.tmudata)
    BY <1>4, <2>2, BeforeIn
  <2>3. CASE Before(more, x, y)
    <3>1. Before(h.udata, x, y) /\ x \in due /\ y \in due
      BY <1>1, <2>3, BeforeSelected
    <3> QED
      BY <1>2, <3>1 DEF Finalizing
  <2> QED
    BY <2>1, <2>2, <2>3
<1>12. Userdata \cap Live(k) \subseteq DOMAIN k.made
  BY <1>2, <1>3 DEF Finalizing
<1>13. Finalizing(k)
  BY <1>2, <1>7, <1>8, <1>9, <1>10, <1>11, <1>12 DEF Finalizing
<1> QED
  BY <1>13 DEF k

\* The userdata that the atomic step finds dead come to wait; nothing else changes.
LEMMA AtomicFinalizing ==
  ASSUME NEW h, Ending(h), Marking(h, Range(h.tmudata)), Finalizing(h), h.gcstate = "propagate"
  PROVE  Finalizing(atomic(h))
<1> DEFINE e == Remarked(h)
           dies == {u \in Range(e.udata) : (iswhite(e, u) \/ FALSE) /\ ~e.heap[u].fin}
           s == Separated(e, dies)
           m == propagateall(marktmu(s))
           k == Flipped(cleartable(m))
<1>1. atomic(h) = k /\ luaC_separateudata(e, FALSE) = s
  BY DEF atomic, Remarked, Again, luaC_separateudata
<1>2. Ending(e) /\ SameObjects(h, e)
  BY RemarkedEnding
<1>3. /\ Ending(m) /\ Trail(m, {}) /\ m.gray = {} /\ h.cur \notin White(m) /\ SameObjects(s, m)
      /\ Range(m.tmudata) \cap White(m) = {} /\ \A u \in Userdata \cap White(m) : m.heap[u].fin
  <2>1. LET x == luaC_separateudata(Remarked(h), FALSE)
            y == propagateall(marktmu(x))
        IN /\ Ending(y) /\ Trail(y, {}) /\ y.gray = {} /\ SameObjects(x, y)
           /\ White(y) \subseteq White(h) /\ h.cur \notin White(y)
           /\ Range(y.tmudata) \cap White(y) = {} /\ \A u \in Userdata \cap White(y) : y.heap[u].fin
    BY Marked
  <2> HIDE DEF e, dies, s
  <2> QED
    BY <1>1, <2>1 DEF e
<1> HIDE DEF e
<1>4. Quiet(h, e) /\ Lists(e) /\ Typed(e)
  BY <1>2, SameObjectsQuiet DEF Ending
<1>5. Finalizing(e) /\ e.gcstate = "propagate"
  BY <1>4, KeptFinalizing DEF Quiet
<1>6. Finalizing(s) /\ s.gcstate = "propagate"
  <2>1. dies \in SUBSET Range(e.udata) /\ \A u \in dies : ~e.heap[u].fin
    OBVIOUS
  <2>2. DOMAIN e = Fields
    BY <1>4 DEF Typed, Shape
  <2> HIDE DEF dies
  <2> QED
    BY <1>4, <1>5, <2>1, <2>2, SeparatedFinalizing, SeparatedKeeps
<1> HIDE DEF s, dies
<1>7. Finalizing(m) /\ m.gcstate = "propagate" /\ Lists(m)
  <2>1. Quiet(s, m) /\ Lists(m)
    BY <1>3, SameObjectsQuiet DEF Ending
  <2> QED
    BY <1>6, <2>1, KeptFinalizing DEF Quiet
<1>8. m.cur \notin White(m)
  <2>1. m.cur = s.cur /\ e.cur = h.cur /\ DOMAIN e = Fields
    BY <1>2, <1>3 DEF SameObjects
  <2>2. s.cur = e.cur
    BY <2>1, SeparatedKeeps DEF s
  <2> QED
    BY <1>3, <2>1, <2>2
<1> HIDE DEF m
<1>9. Lists(k) /\ \A d \in Userdata \cap Live(m) : k.heap[d] = m.heap[d]
  BY <1>3, <1>8, ClearedSound
<1>10. /\ DOMAIN k = Fields /\ Live(k) = Live(m) /\ k.udata = m.udata /\ k.gcstate = "sweepstring"
       /\ k.tmudata = m.tmudata /\ k.fins = m.fins /\ k.made = m.made /\ k.late = m.late
  <2>1. DOMAIN m = Fields /\ DOMAIN m.color = Live(m)
    BY <1>3 DEF Ending, Typed, Shape
  <2> QED
    BY <2>1, FlippedKeeps
<1> HIDE DEF k
<1>11. Kept(m, k)
  BY <1>9, <1>10 DEF Kept
<1>12. Finalizing(k)
  BY <1>7, <1>9, <1>10, <1>11, KeptFinalizing
<1> QED
  BY <1>1, <1>12

\* What is freed has no finalizer still to come.
LEMMA SweptQuiet ==
  ASSUME NEW h, Healthy(h), NEW os
  PROVE  Quiet(h, Swept(h, os))
<1> DEFINE k == Swept(h, os)
           dead == {o \in os \ {Main} : isdead(h, o)}
<1>1. DOMAIN h = Fields /\ Awaiting(h) /\ Lists(h)
  BY DEF Healthy, Typed, Shape
<1>2. /\ DOMAIN k = Fields /\ Live(k) = Live(h) \ dead
      /\ \A o \in Live(h) \ dead : k.heap[o] = h.heap[o]
      /\ k.udata = Selected(h.udata, Live(h) \ dead) /\ k.gcstate = h.gcstate
      /\ k.tmudata = h.tmudata
  BY <1>1, SweptKeeps
<1>3. k.fins = h.fins /\ k.made = h.made /\ k.late = h.late
  BY <1>1, SweptFrame
<1>4. \A u \in (Userdata \cap Live(h)) \cap dead : h.heap[u].fin /\ u \notin Range(h.tmudata)
  BY <1>1 DEF Awaiting, Good
<1> HIDE DEF k, dead
<1>5. \A x, y \in Userdata : Before(k.udata, x, y) => Before(h.udata, x, y)
  <2>1. h.udata \in Seq(Userdata)
    BY <1>1 DEF Lists
  <2> QED
    BY <1>2, <2>1, BeforeSelected
<1>6. Quiet(h, k)
  BY <1>2, <1>3, <1>4, <1>5 DEF Quiet, Kept
<1> QED
  BY <1>6 DEF k

LEMMA SweeplistQuiet ==
  ASSUME NEW h, Healthy(h), NEW os
  PROVE  Quiet(h, sweeplist(h, os))
<1> DEFINE open == {u \in Open(h) : h.heap[u].th \in os}
           orphans == {u \in open : isdead(h, h.heap[u].th) /\ ~isdead(h, u)}
           none == {}
           c == Unstacked(h, orphans, none)
           all == os \cup open
           s == Swept(c, all)
           k == [s EXCEPT !.unswept = @ \ os]
<1>1. k = sweeplist(h, os)
  BY DEF sweeplist
<1>2. orphans \in SUBSET Open(h) /\ orphans \in SUBSET Upvalues /\ none \in SUBSET Upvalues /\ DOMAIN h = Fields
  BY DEF Open, Healthy, Typed, Shape
<1>3. Healthy(Unstacked(h, orphans, {}))
  <2> HIDE DEF orphans
  <2> QED
    BY <1>2, ClosedHealthy
<1>4. Healthy(c)
  BY <1>3
<1> HIDE DEF orphans, none, all
<1>5. Quiet(h, c)
  BY <1>2, UnstackedQuiet
<1> HIDE DEF c
<1>6. Quiet(c, s)
  BY <1>4, SweptQuiet
<1>7. DOMAIN s = Fields
  BY <1>6 DEF Quiet, Kept
<1> HIDE DEF s
<1>8. /\ DOMAIN k = Fields /\ k.gcstate = s.gcstate /\ k.udata = s.udata /\ k.tmudata = s.tmudata
      /\ k.fins = s.fins /\ k.made = s.made /\ k.late = s.late /\ k.heap = s.heap
  BY <1>7 DEF Fields
<1> HIDE DEF k
<1>9. Quiet(s, k)
  BY <1>8, QuietSame DEF Live
<1> QED
  BY <1>1, <1>5, <1>6, <1>9, QuietTwice

LEMMA SweepstringsQuiet ==
  ASSUME NEW h, Healthy(h), NEW lists
  PROVE  Quiet(h, sweepstrings(h, lists)) /\ Healthy(sweepstrings(h, lists))
<1> DEFINE os == {s \in Strings \cap Live(h) : Bucket[s] \in lists}
<1>1. sweepstrings(h, lists) = Swept(h, os)
  BY DEF sweepstrings
<1>2. \A u \in Open(h) : h.heap[u].th \notin os
  <2> SUFFICES ASSUME NEW u \in Open(h) PROVE h.heap[u].th \notin Strings
    OBVIOUS
  <2>1. Payload(h, u) /\ u \in Upvalues
    BY DEF Healthy, Typed, Payloads, Open
  <2> QED
    BY <2>1, Kinds DEF Payload
<1> HIDE DEF os
<1>3. Healthy(Swept(h, os))
  BY <1>2, SweptHealthy
<1> QED
  BY <1>1, <1>3, SweptQuiet

LEMMA SweepallKept ==
  ASSUME NEW h, Healthy(h)
  PROVE  Kept(h, sweepall(h))
<1> DEFINE lists == h.sweepstrgc..StrSize
           os == h.unswept
           x == sweepstrings(h, lists)
           y == sweeplist(x, os)
           k == [y EXCEPT !.gcstate = "finalize", !.sweepstrgc = StrSize + 1]
<1>1. k = sweepall(h)
  BY DEF sweepall
<1> HIDE DEF lists, os
<1>2. Quiet(h, x) /\ Healthy(x)
  BY SweepstringsQuiet
<1> HIDE DEF x
<1>3. Quiet(x, y)
  BY <1>2, SweeplistQuiet
<1> HIDE DEF y
<1>4. Kept(h, y) /\ DOMAIN y = Fields
  BY <1>2, <1>3, QuietTwice DEF Quiet, Kept
<1>5. /\ DOMAIN k = Fields /\ k.udata = y.udata /\ k.tmudata = y.tmudata
      /\ k.fins = y.fins /\ k.made = y.made /\ k.late = y.late /\ k.heap = y.heap
  BY <1>4 DEF Fields
<1> HIDE DEF k
<1>6. Kept(y, k)
  BY <1>5 DEF Kept, Live
<1>7. Kept(h, k)
  BY <1>4, <1>6, KeptTwice
<1> QED
  BY <1>1, <1>7

LEMMA MarkrootKept ==
  ASSUME NEW h, DOMAIN h = Fields
  PROVE  Kept(h, markroot(h)) /\ markroot(h).gcstate = "propagate"
<1> DEFINE b == [h EXCEPT !.gray = {}, !.grayagain = {}, !.weak = {}]
           roots == {Main, Globals}
           m == Mark(b, roots)
           k == [m EXCEPT !.gcstate = "propagate"]
<1>1. k = markroot(h)
  BY DEF markroot
<1>2. /\ DOMAIN b = Fields /\ b.gcstate = h.gcstate /\ b.udata = h.udata /\ b.tmudata = h.tmudata
      /\ b.fins = h.fins /\ b.made = h.made /\ b.late = h.late /\ b.heap = h.heap
  BY DEF Fields
<1> HIDE DEF b, roots
<1>3. Quiet(h, b) /\ Quiet(b, m)
  BY <1>2, QuietSame, MarkQuiet DEF Live
<1> HIDE DEF m
<1>4. Kept(h, m) /\ DOMAIN m = Fields
  BY <1>3, QuietTwice DEF Quiet, Kept
<1>5. /\ DOMAIN k = Fields /\ k.udata = m.udata /\ k.tmudata = m.tmudata /\ k.gcstate = "propagate"
      /\ k.fins = m.fins /\ k.made = m.made /\ k.late = m.late /\ k.heap = m.heap
  BY <1>4 DEF Fields
<1> HIDE DEF k
<1>6. Kept(m, k)
  BY <1>5 DEF Kept, Live
<1>7. Kept(h, k)
  BY <1>4, <1>6, KeptTwice
<1> QED
  BY <1>1, <1>5, <1>7

LEMMA CycleFinalizing ==
  ASSUME NEW h, HeapInv(h), Finalizing(h), h.gcstate \in {"pause", "finalize"}
  PROVE  Finalizing(sweepall(atomic(propagateall(markroot(h)))))
<1> DEFINE r == markroot(h)
           p == propagateall(r)
           a == atomic(p)
<1>1. /\ Ending(r) /\ Marking(r, Range(r.tmudata)) /\ r.gcstate = "propagate" /\ Lists(r)
      /\ Typed(r) /\ Marks(r) /\ Trail(r, r.gray \cup Live(r))
  BY MarkrootStep DEF Ending, Trail
<1>2. Kept(h, r)
  <2>1. DOMAIN h = Fields
    BY DEF HeapInv, HeapBut, Typed, Shape
  <2> QED
    BY <2>1, MarkrootKept
<1> HIDE DEF r
<1>3. Finalizing(r)
  BY <1>1, <1>2, KeptFinalizing
<1>4. Ending(p) /\ SameObjects(r, p) /\ Lists(p)
  <2> DEFINE all == Live(r)
  <2>1. Trail(r, r.gray \cup all)
    BY <1>1
  <2> HIDE DEF all
  <2> QED
    BY <1>1, <2>1, EndingPropagate DEF Ending
<1>5. Marking(p, Range(p.tmudata))
  <2> DEFINE T == Range(r.tmudata)
  <2>1. Marking(r, T) /\ p.tmudata = r.tmudata
    BY <1>1, <1>4 DEF SameObjects
  <2> HIDE DEF T
  <2>2. Marking(p, T)
    BY <1>1, <2>1, PropagateAll
  <2> QED
    BY <2>1, <2>2 DEF T
<1> HIDE DEF p
<1>6. Finalizing(p) /\ p.gcstate = "propagate"
  BY <1>1, <1>3, <1>4, SameObjectsQuiet, KeptFinalizing DEF Quiet
<1>7. Finalizing(a) /\ HeapInv(a) /\ a.gcstate = "sweepstring"
  BY <1>4, <1>5, <1>6, AtomicFinalizing, AtomicStep
<1> HIDE DEF a
<1>8. /\ Healthy(a) /\ a.sweepstrgc \in Nat /\ Unpassed(a, a.unswept, a.sweepstrgc) /\ Chains(a)
      /\ a.asserts \subseteq {"awaiting"}
  BY <1>7 DEF HeapInv, HeapBut, Healthy, Phase, Sweeping, Unpassed
<1>9. HeapInv(sweepall(a)) /\ sweepall(a).gcstate = "finalize" /\ Kept(a, sweepall(a))
  BY <1>8, SweepallStep, SweepallKept
<1>10. Finalizing(sweepall(a))
  BY <1>7, <1>9, KeptFinalizing DEF HeapInv, HeapBut
<1> QED
  BY <1>10 DEF a, p, r

LEMMA FullgcFinalizing ==
  ASSUME NEW h, HeapInv(h), Finalizing(h), h.gcstate \notin {"closing", "closed"}
  PROVE  Finalizing(luaC_fullgc(h))
<1> DEFINE unmarked == [h EXCEPT !.sweepstrgc = 1, !.unswept = h.rootgc \cup Range(h.udata),
                                 !.gray = {}, !.grayagain = {}, !.weak = {}, !.gcstate = "sweepstring"]
           swept == IF h.gcstate \in {"pause", "propagate"} THEN unmarked ELSE h
           clean == sweepall(swept)
<1>1. luaC_fullgc(h) = sweepall(atomic(propagateall(markroot(clean))))
  BY DEF luaC_fullgc
<1>2. DOMAIN h = Fields /\ h.gcstate \in {"pause", "propagate", "sweepstring", "sweep", "finalize"}
  BY DEF HeapInv, HeapBut, Typed, Shape
<1>3. /\ DOMAIN unmarked = Fields /\ unmarked.udata = h.udata /\ unmarked.tmudata = h.tmudata
      /\ unmarked.fins = h.fins /\ unmarked.made = h.made /\ unmarked.late = h.late
      /\ unmarked.heap = h.heap /\ unmarked.gcstate = "sweepstring"
  BY <1>2 DEF Fields
<1>4. /\ Healthy(unmarked) /\ unmarked.sweepstrgc = 1 /\ Unpassed(unmarked, unmarked.unswept, 1)
      /\ Chains(unmarked) /\ unmarked.asserts \subseteq {"awaiting"}
  BY Unmarked
<1>5. /\ Healthy(h) /\ h.sweepstrgc \in Nat /\ Chains(h) /\ h.asserts \subseteq {"awaiting"}
      /\ h.gcstate \in {"sweepstring", "sweep", "finalize"} => Unpassed(h, h.unswept, h.sweepstrgc)
  BY DEF HeapInv, HeapBut, Healthy, Phase, Sweeping, Unpassed
<1>6. swept = unmarked \/ (swept = h /\ h.gcstate \in {"sweepstring", "sweep", "finalize"})
  BY <1>2
<1> HIDE DEF unmarked, swept
<1>7. Kept(h, unmarked) /\ Kept(h, h)
  BY <1>2, <1>3 DEF Kept, Live
<1>8. /\ Healthy(swept) /\ swept.sweepstrgc \in Nat /\ Unpassed(swept, swept.unswept, swept.sweepstrgc)
      /\ Chains(swept) /\ swept.asserts \subseteq {"awaiting"} /\ Kept(h, swept)
  BY <1>4, <1>5, <1>6, <1>7
<1>9. HeapInv(clean) /\ clean.gcstate = "finalize" /\ Kept(swept, clean)
  BY <1>8, SweepallStep, SweepallKept
<1> HIDE DEF clean
<1>10. Kept(h, clean)
  BY <1>8, <1>9, KeptTwice
<1>11. Finalizing(clean)
  BY <1>2, <1>9, <1>10, KeptFinalizing DEF HeapInv, HeapBut
<1> QED
  BY <1>1, <1>9, <1>11, CycleFinalizing

LEMMA SinglestepFinalizing ==
  ASSUME HeapInv(g), Finalizing(g), singlestep, HeapInv(g')
  PROVE  Finalizing(g')
<1>1. Healthy(g) /\ DOMAIN g = Fields /\ Lists(g')
  BY DEF HeapInv, HeapBut, Healthy, Typed, Shape
<1>2. CASE g.gcstate = "pause" /\ g' = markroot(g)
  BY <1>1, <1>2, MarkrootKept, KeptFinalizing
<1>3. CASE g.gcstate = "propagate" /\ \E o \in g.gray : g' = propagatemark(g, o)
  <2>1. PICK o \in g.gray : g' = propagatemark(g, o)
    BY <1>3
  <2> DEFINE loose == {}
  <2>2. HeapBut(g, loose)
    BY DEF HeapInv
  <2> HIDE DEF loose
  <2>3. Ending(g) /\ Marking(g, loose)
    BY <1>3, <2>2, PropagateEnding
  <2>4. SameObjects(g, propagatemark(g, o))
    BY <2>3, PropagateMark DEF Ending
  <2> QED
    BY <1>1, <2>1, <2>4, SameObjectsQuiet, KeptFinalizing DEF Quiet
<1>4. CASE g.gcstate = "propagate" /\ g' = atomic(g)
  <2> DEFINE loose == {}
  <2>1. HeapBut(g, loose)
    BY DEF HeapInv
  <2> HIDE DEF loose
  <2>2. Ending(g) /\ Marking(g, loose) /\ g.tmudata = <<>>
    BY <1>4, <2>1, PropagateEnding
  <2>3. Range(g.tmudata) = loose
    BY <2>2 DEF Range, loose
  <2>4. Marking(g, Range(g.tmudata))
    BY <2>2, <2>3
  <2> QED
    BY <1>4, <2>2, <2>4, AtomicFinalizing
<1>5. CASE g.gcstate = "sweepstring" /\ g' = sweepstringstep(g)
  <2> DEFINE lists == {g.sweepstrgc}
             x == sweepstrings(g, lists)
             k == [x EXCEPT !.gcstate = IF g.sweepstrgc >= StrSize THEN "sweep" ELSE @, !.sweepstrgc = @ + 1]
  <2>1. g' = k
    BY <1>5 DEF sweepstringstep
  <2> HIDE DEF lists
  <2>2. Quiet(g, x) /\ DOMAIN x = Fields
    BY <1>1, SweepstringsQuiet DEF Quiet, Kept
  <2> HIDE DEF x
  <2>3. /\ DOMAIN k = Fields /\ k.gcstate \in {"sweep", x.gcstate} /\ k.udata = x.udata
        /\ k.tmudata = x.tmudata /\ k.fins = x.fins /\ k.made = x.made /\ k.late = x.late /\ k.heap = x.heap
    BY <2>2 DEF Fields
  <2> HIDE DEF k
  <2>4. Kept(x, k) /\ k.gcstate # "closing"
    BY <1>5, <2>2, <2>3 DEF Kept, Live, Quiet
  <2>5. Kept(g, k)
    BY <2>2, <2>4, KeptTwice DEF Quiet
  <2> QED
    BY <1>1, <1>5, <2>1, <2>4, <2>5, KeptFinalizing
<1>6. CASE g.gcstate = "sweep" /\ \E os \in SUBSET g.unswept \ {{}} : g' = sweepstep(g, os)
  <2>1. PICK os : g' = sweepstep(g, os)
    BY <1>6
  <2> DEFINE x == sweeplist(g, os)
             k == [x EXCEPT !.gcstate = IF x.unswept = {} THEN "finalize" ELSE @]
  <2>2. g' = k
    BY <2>1 DEF sweepstep
  <2>3. Quiet(g, x) /\ DOMAIN x = Fields
    BY <1>1, SweeplistQuiet DEF Quiet, Kept
  <2> HIDE DEF x
  <2>4. /\ DOMAIN k = Fields /\ k.gcstate \in {"finalize", x.gcstate} /\ k.udata = x.udata
        /\ k.tmudata = x.tmudata /\ k.fins = x.fins /\ k.made = x.made /\ k.late = x.late /\ k.heap = x.heap
    BY <2>3 DEF Fields
  <2> HIDE DEF k
  <2>5. Kept(x, k) /\ k.gcstate # "closing"
    BY <1>6, <2>3, <2>4 DEF Kept, Live, Quiet
  <2>6. Kept(g, k)
    BY <2>3, <2>5, KeptTwice DEF Quiet
  <2> QED
    BY <1>1, <1>6, <2>2, <2>5, <2>6, KeptFinalizing
<1>7. CASE g.gcstate = "finalize" /\ g' = [g EXCEPT !.gcstate = "pause"]
  <2> DEFINE k == [g EXCEPT !.gcstate = "pause"]
  <2>1. /\ DOMAIN k = Fields /\ k.gcstate = "pause" /\ k.udata = g.udata
        /\ k.tmudata = g.tmudata /\ k.fins = g.fins /\ k.made = g.made /\ k.late = g.late /\ k.heap = g.heap
    BY <1>1 DEF Fields
  <2> HIDE DEF k
  <2>2. Kept(g, k)
    BY <2>1 DEF Kept, Live
  <2> QED
    BY <1>1, <1>7, <2>1, <2>2, KeptFinalizing DEF k
<1> QED
  BY <1>2, <1>3, <1>4, <1>5, <1>6, <1>7 DEF singlestep

\* After lua_close all that there is has been finalized, or waits for it.
LEMMA LuaCloseFinalizing ==
  ASSUME HeapInv(g), Finalizing(g), lua_close
  PROVE  Finalizing(g')
<1> DEFINE c == luaF_close(g, Main, 1)
           dies == {u \in Range(c.udata) : (iswhite(c, u) \/ TRUE) /\ ~c.heap[u].fin}
           s == Separated(c, dies)
           k == [s EXCEPT !.heap[Main] = NoRegs, !.gcstate = "closing"]
<1>1. g' = k /\ g.gcstate # "closing"
  BY DEF lua_close, luaC_separateudata
<1>2. DOMAIN g = Fields
  BY DEF HeapInv, HeapBut, Typed, Shape
<1>3. HeapInv(c) /\ Quiet(g, c)
  <2> DEFINE first == 1
             main == Main
  <2> HIDE DEF first, main
  <2>1. LET x == luaF_close(g, main, first)
        IN HeapInv(x) /\ x.cur = g.cur /\ x.gcstate = g.gcstate /\ Stack(x) = Stack(g)
    BY CloseStep
  <2>2. Quiet(g, luaF_close(g, main, first))
    BY <1>2, CloseQuiet
  <2> QED
    BY <2>1, <2>2 DEF first, main
<1> HIDE DEF c
<1>4. Typed(c) /\ Lists(c) /\ Awaiting(c) /\ DOMAIN c = Fields
  BY <1>3 DEF HeapInv, HeapBut, Typed, Shape
<1>5. Finalizing(c) /\ c.gcstate # "closing"
  BY <1>1, <1>3, <1>4, KeptFinalizing DEF Quiet
<1>6. /\ dies \in SUBSET Range(c.udata) /\ \A u \in dies : ~c.heap[u].fin
      /\ \A u \in Range(c.udata) : c.heap[u].fin \/ u \in dies
  OBVIOUS
<1> HIDE DEF dies
<1>7. /\ Finalizing(s) /\ s.gcstate # "closing" /\ Live(s) = Live(c) /\ DOMAIN s = Fields
      /\ \A d \in Userdata \cap Live(c) : s.heap[d].fin <=> c.heap[d].fin \/ d \in dies
  BY <1>4, <1>5, <1>6, SeparatedFinalizing, SeparatedKeeps, SeparatedTyped DEF SameLinks
<1> HIDE DEF s
<1>8. \A u \in Userdata \cap Live(s) : s.heap[u].fin
  BY <1>4, <1>6, <1>7 DEF Lists, Awaiting
<1>9. /\ k.gcstate = "closing" /\ k.udata = s.udata /\ k.tmudata = s.tmudata
      /\ k.fins = s.fins /\ k.made = s.made /\ k.late = s.late
      /\ Live(k) = Live(s) /\ \A u \in Userdata : k.heap[u] = s.heap[u]
  BY <1>7, Kinds DEF Fields, Live
<1> HIDE DEF k
<1>10. HasGC \subseteq Userdata /\ DOMAIN s.made \subseteq Userdata
  BY <1>7, Kinds DEF Finalizing
<1>11. Finalizing(k)
  BY <1>7, <1>8, <1>9, <1>10 DEF Finalizing
<1> QED
  BY <1>1, <1>11

\* A closed state has called every finalizer.
AllFinalized(h) ==
  /\ h.fins \in [Userdata -> {0, 1}] /\ h.tmudata = <<>>
  /\ \A u \in HasGC \cap DOMAIN h.made : h.fins[u] = 1
FinalizersOK == HeapOK /\ (Running => Finalizing(g)) /\ (~Running => AllFinalized(g))

LEMMA InitFinalizing ==
  ASSUME Init
  PROVE  Finalizing(g)
<1> DEFINE empty == <<>>
           heap == [o \in {Main, Globals} |-> IF o = Main THEN [r \in 1..cast.registers |-> Nil] ELSE empty]
<1>1. /\ g.fins = [u \in Userdata |-> 0] /\ g.made = empty /\ g.tmudata = empty /\ g.udata = empty
      /\ g.gcstate = "pause" /\ g.heap = heap
  BY DEF Init
<1>2. DOMAIN empty = {} /\ Range(empty) = {} /\ \A x, y : ~Before(empty, x, y)
  BY DEF Range, Before
<1>3. DOMAIN heap = {Main, Globals}
  OBVIOUS
<1> HIDE DEF empty, heap
<1>4. Userdata \cap Live(g) = {}
  BY <1>1, <1>3, Kinds DEF Live
<1> QED
  BY <1>1, <1>2, <1>4 DEF Finalizing

LEMMA CloseStateFinalizing ==
  ASSUME HeapInv(g), Finalizing(g), close_state
  PROVE  AllFinalized(g')
<1>1. /\ g.tmudata = <<>> /\ g.gcstate = "closing"
      /\ g'.fins = g.fins /\ g'.made = g.made /\ g'.tmudata = g.tmudata
  <2>1. DOMAIN g = Fields
    BY DEF HeapInv, HeapBut, Typed, Shape
  <2> QED
    BY <2>1 DEF close_state, Fields
<1>2. Range(g.tmudata) = {}
  BY <1>1 DEF Range
<1>3. \A u \in HasGC \cap DOMAIN g.made : g.fins[u] = 1
  BY <1>1, <1>2 DEF Finalizing
<1> QED
  BY <1>1, <1>3 DEF AllFinalized, Finalizing

LEMMA FinalizingStep ==
  ASSUME HeapInv(g), Finalizing(g), Running, Next
  PROVE  (HeapInv(g') /\ Finalizing(g')) \/ (g'.gcstate = "closed" /\ AllFinalized(g'))
<1>1. CASE close_state
  BY <1>1, CloseStateFinalizing, CloseStateStep
<1>2. ASSUME ~close_state
      PROVE  HeapInv(g') /\ Lists(g')
  BY <1>2, HeapStep DEF HeapInv, HeapBut
<1>3. CASE Program
  <2>1. Finalizing(g')
    <3>1. CASE \E r \in Slots : luaS_newudata(r)
      BY <3>1, NewUdataFinalizing
    <3>2. CASE Quiet(g, g')
      <4>1. ~close_state
        <5>1. g'.gcstate = g.gcstate
          BY <3>2 DEF Quiet
        <5>2. close_state => g'.gcstate = "closed"
          BY CloseStateStep
        <5> QED
          BY <5>1, <5>2 DEF Running
      <4> QED
        BY <1>2, <3>2, <4>1, KeptFinalizing DEF Quiet
    <3> QED
      BY <1>3, <3>1, <3>2, ProgramQuiet
  <2> QED
    BY <1>1, <1>2, <2>1
<1>4. CASE Finalize
  BY <1>1, <1>2, <1>4, FinalizeFinalizing
<1>5. CASE singlestep
  BY <1>1, <1>2, <1>5, SinglestepFinalizing
<1>6. CASE FullCollection
  BY <1>1, <1>2, <1>6, FullgcFinalizing DEF FullCollection
<1>7. CASE lua_close
  BY <1>1, <1>2, <1>7, LuaCloseFinalizing
<1> QED
  BY <1>1, <1>3, <1>4, <1>5, <1>6, <1>7 DEF Next, Closed, Running

(* A finalizer (luaC_separateudata, GCTM) runs once in the life of its     *)
(* userdata and not after it; those that one cycle or lua_close makes wait *)
(* run in the reverse order of creation.                                   *)
THEOREM FinalizersRunOnce == Spec => []FinalizedOnce
<1>1. Init => FinalizersOK
  <2>1. Init => HeapOK /\ Running
    BY InitHeap DEF HeapOK, Running
  <2> QED
    BY <2>1, InitFinalizing DEF FinalizersOK
<1>2. FinalizersOK /\ [Next]_<<cast, g>> => FinalizersOK'
  <2> SUFFICES ASSUME FinalizersOK, [Next]_<<cast, g>> PROVE FinalizersOK'
    OBVIOUS
  <2>1. HeapOK'
    BY StateStep DEF FinalizersOK
  <2>2. CASE Running /\ Next
    <3>1. HeapInv(g) /\ Finalizing(g)
      BY <2>2 DEF FinalizersOK, HeapOK
    <3>2. (HeapInv(g') /\ Finalizing(g')) \/ (g'.gcstate = "closed" /\ AllFinalized(g'))
      BY <2>2, <3>1, FinalizingStep
    <3>3. HeapInv(g') => g'.gcstate # "closed"
      BY DEF HeapInv, HeapBut, Typed, Shape
    <3> QED
      BY <2>1, <3>2, <3>3 DEF FinalizersOK, Running
  <2>3. CASE ~Running /\ Next
    <3>1. UNCHANGED g
      BY <2>3 DEF Running, Next, Program, Finalize, singlestep, FullCollection, lua_close, close_state, Closed
    <3> QED
      BY <2>1, <2>3, <3>1 DEF FinalizersOK, Running
  <2>4. CASE UNCHANGED <<cast, g>>
    BY <2>1, <2>4 DEF FinalizersOK, Running
  <2> QED
    BY <2>2, <2>3, <2>4
<1>3. FinalizersOK => FinalizedOnce
  <2> SUFFICES ASSUME FinalizersOK PROVE FinalizedOnce
    OBVIOUS
  <2>1. g.fins \in [Userdata -> {0, 1}]
    BY DEF FinalizersOK, Finalizing, AllFinalized
  <2>2. \A u \in (HasGC \cap DOMAIN g.made) \ Live(g) : g.fins[u] = 1
    BY DEF FinalizersOK, Finalizing, AllFinalized
  <2>3. ASSUME NEW a \in DOMAIN g.tmudata, NEW b \in DOMAIN g.tmudata, a < b
        PROVE  g.tmudata[a] \in g.late \/ g.tmudata[b] \in g.made[g.tmudata[a]]
    <3>1. CASE Running
      <4>1. Before(g.tmudata, g.tmudata[a], g.tmudata[b])
        BY <2>3 DEF Before
      <4>2. g.tmudata[a] \in Userdata /\ g.tmudata[b] \in Userdata
        <5>1. g.tmudata \in Seq(Userdata)
          BY <3>1 DEF FinalizersOK, HeapOK, HeapInv, HeapBut, Lists
        <5> QED
          BY <2>3, <5>1, LenProperties, ElementOfSeq
      <4> QED
        BY <3>1, <4>1, <4>2 DEF FinalizersOK, Finalizing
    <3>2. CASE ~Running
      <4>1. g.tmudata = <<>>
        BY <3>2 DEF FinalizersOK, AllFinalized
      <4> QED
        BY <2>3, <4>1
    <3> QED
      BY <3>1, <3>2
  <2>4. \A u \in Userdata : g.fins[u] <= 1
    BY <2>1
  <2> QED
    BY <2>2, <2>3, <2>4 DEF FinalizedOnce
<1> QED
  BY <1>1, <1>2, <1>3, PTL DEF Spec

-----------------------------------------------------------------------------
(* Weak tables                                                             *)

LEMMA NewUdataState ==
  ASSUME HeapInv(g), NEW r, luaS_newudata(r)
  PROVE  g'.gcstate = g.gcstate
<1> DEFINE P == [env |-> Globals, fin |-> FALSE]
           Others(u) == DOMAIN g.made \ {u}
           Mades(u) == IF g.gcstate = "closing" THEN Others(u) ELSE Others(u) \cup {u}
           Made(u) == [x \in Mades(u) |-> IF x = u THEN Others(u) ELSE g.made[x] \ {u}]
           K(u) == [AfterMain(luaC_new(g, u, P), u) EXCEPT !.made = Made(u), !.fins[u] = 0]
<1>1. PICK u : g' = SetReg(K(u), r, u)
  BY DEF luaS_newudata
<1>2. DOMAIN g = Fields
  BY DEF HeapInv, HeapBut, Typed, Shape
<1> HIDE DEF P, Made
<1>3. K(u).gcstate = g.gcstate
  BY <1>2 DEF AfterMain, luaC_new, Put, Fields
<1>4. DOMAIN K(u) = Fields
  BY <1>2 DEF AfterMain, luaC_new, Put, Fields
<1> HIDE DEF K
<1> QED
  BY <1>1, <1>3, <1>4 DEF SetReg, Fields

LEMMA AtomicClears ==
  ASSUME NEW h, HeapInv(h), h.gcstate = "propagate", NEW t \in Tables, t \in Live(atomic(h)),
         "v" \in Mode[t], ~isdead(atomic(h), t)
  PROVE  Range(atomic(h).tmudata) \cap Range(atomic(h).heap[t]) = {}
<1> DEFINE s == luaC_separateudata(Remarked(h), FALSE)
           m == propagateall(marktmu(s))
           k == Flipped(cleartable(m))
<1>1. atomic(h) = k
  BY DEF atomic, Remarked, Again
<1>2. Ending(h) /\ Marking(h, Range(h.tmudata))
  <2> DEFINE loose == {}
  <2>1. HeapBut(h, loose)
    BY DEF HeapInv
  <2> HIDE DEF loose
  <2>2. Ending(h) /\ Marking(h, loose) /\ h.tmudata = <<>>
    BY <2>1, PropagateEnding
  <2>3. Range(h.tmudata) = loose
    BY <2>2 DEF Range, loose
  <2> QED
    BY <2>2, <2>3
<1>3. /\ Ending(m) /\ Trail(m, {}) /\ m.gray = {} /\ h.cur \notin White(m)
      /\ Range(m.tmudata) \cap White(m) = {} /\ \A u \in Userdata \cap White(m) : m.heap[u].fin
  BY <1>2, Marked
<1>4. m.cur = h.cur
  <2>1. SameObjects(s, m)
    BY <1>2, Marked
  <2>2. SameObjects(h, Remarked(h))
    BY <1>2, RemarkedEnding
  <2>3. s.cur = Remarked(h).cur
    BY <2>2, SeparatedKeeps DEF SameObjects, luaC_separateudata
  <2> QED
    BY <2>1, <2>2, <2>3 DEF SameObjects
<1> HIDE DEF m
<1>5. /\ Live(k) = Live(m)
      /\ \A x \in Tables \cap Live(m) :
           /\ ~isdead(k, x) /\ x \in Weak => x \in m.weak
           /\ x \in m.weak => k.heap[x] = Restrict(m.heap[x], DOMAIN m.heap[x] \ Cleared(m, x))
  BY <1>3, <1>4, ClearedSound
<1>6. k.tmudata = m.tmudata
  BY <1>3, FlippedKeeps DEF Ending, Typed, Shape
<1>7. k.heap[t] = Restrict(m.heap[t], DOMAIN m.heap[t] \ Cleared(m, t))
  BY <1>1, <1>5 DEF Weak
<1> HIDE DEF k
<1> SUFFICES ASSUME NEW u \in Range(m.tmudata), u \in Range(k.heap[t]) PROVE FALSE
  BY <1>1, <1>6
<1>8. PICK x \in DOMAIN m.heap[t] \ Cleared(m, t) : m.heap[t][x] = u
  BY <1>7 DEF Range, Restrict
<1>9. u \in Userdata /\ u \in Live(m) /\ m.heap[u].fin
  BY <1>3 DEF Ending, Lists
<1>10. iscleared(m, u, FALSE)
  BY <1>9, Kinds DEF iscleared
<1> QED
  BY <1>8, <1>10 DEF Cleared

(* When the atomic step ends the marking, no weak table that is kept shows *)
(* a value that waits for its finalizer (cleartable, iscleared).           *)
THEOREM WeakValuesAreCleared == Spec => WeakValuesCleared
<1>1. HeapOK /\ [Next]_<<cast, g>> =>
        [g.gcstate = "propagate" /\ g'.gcstate = "sweepstring" =>
           \A t \in Tables \cap DOMAIN g'.heap :
             "v" \in Mode[t] /\ ~isdead(g', t) => Range(g'.tmudata) \cap Range(g'.heap[t]) = {}]_g
  <2> SUFFICES ASSUME HeapOK, Next, g.gcstate = "propagate", g'.gcstate = "sweepstring",
                      NEW t \in Tables \cap DOMAIN g'.heap, "v" \in Mode[t], ~isdead(g', t)
               PROVE  Range(g'.tmudata) \cap Range(g'.heap[t]) = {}
    OBVIOUS
  <2>1. HeapInv(g)
    BY DEF HeapOK, Running
  <2>2. g' = atomic(g)
    <3>1. ~Program
      <4> SUFFICES ASSUME Program PROVE g'.gcstate = g.gcstate
        OBVIOUS
      <4>1. CASE Quiet(g, g')
        BY <4>1 DEF Quiet
      <4>2. CASE \E r \in Slots : luaS_newudata(r)
        BY <2>1, <4>2, NewUdataState
      <4> QED
        BY <2>1, <4>1, <4>2, ProgramQuiet
    <3>2. ~Finalize /\ ~lua_close /\ ~close_state /\ ~Closed
      <4>1. DOMAIN g = Fields
        BY <2>1 DEF HeapInv, HeapBut, Typed, Shape
      <4>2. lua_close => g'.gcstate = "closing"
        BY <2>1, LuaCloseStep
      <4> QED
        BY <4>2 DEF Finalize, close_state, Closed
    <3>3. ~FullCollection
      BY <2>1, FullgcStep DEF FullCollection
    <3>4. singlestep
      BY <3>1, <3>2, <3>3 DEF Next
    <3>5. ASSUME NEW o \in g.gray PROVE g' # propagatemark(g, o)
      <4> DEFINE loose == {}
      <4>1. HeapBut(g, loose)
        BY <2>1 DEF HeapInv
      <4> HIDE DEF loose
      <4>2. Ending(g) /\ Marking(g, loose)
        BY <4>1, PropagateEnding
      <4>3. propagatemark(g, o).gcstate = g.gcstate
        BY <4>2, PropagateMark DEF Ending, SameObjects
      <4> QED
        BY <4>3
    <3> QED
      BY <3>4, <3>5 DEF singlestep
  <2> QED
    BY <2>1, <2>2, AtomicClears DEF Live
<1> QED
  BY <1>1, HeapIsSound, PTL DEF Spec, WeakValuesCleared

-----------------------------------------------------------------------------
(* A full collection leaves no garbage                                     *)

\* No reference leads from S to what is not in S.
Leads(h, S) == \A o \in S \cap Live(h) : StrongRefs(h, o) \subseteq S
\* Nothing that is not in S is marked.
Within(h, S) == Live(h) \ White(h) \subseteq S /\ Leads(h, S)
\* A state of the marking.
Midway(h) == Typed(h) /\ Marks(h) /\ Marking(h, Live(h))

LEMMA StrongSame ==
  ASSUME NEW h, NEW k, k.heap = h.heap
  PROVE  Live(k) = Live(h) /\ \A o : StrongRefs(k, o) = StrongRefs(h, o)
BY SameRefs DEF StrongRefs

LEMMA WithinSame ==
  ASSUME NEW h, NEW S, Within(h, S), NEW k, k.heap = h.heap, White(h) \subseteq White(k) \cup S
  PROVE  Within(k, S)
<1>1. Live(k) = Live(h) /\ \A o : StrongRefs(k, o) = StrongRefs(h, o)
  BY StrongSame
<1> QED
  BY <1>1 DEF Within, Leads

LEMMA MarkWithin ==
  ASSUME NEW h, Midway(h), NEW S, Within(h, S), NEW vs, vs \cap White(h) \subseteq S
  PROVE  LET k == Mark(h, vs)
         IN Within(k, S) /\ Midway(k)
<1> DEFINE M == reallymarkobject(h, vs)
           k == Mark(h, vs)
           T == S \cap Live(h)
<1>1. Typed(h) /\ Marks(h) /\ Marking(h, Live(h))
  BY DEF Midway
<1>2. White(h) \subseteq Live(h) /\ Nil \notin White(h)
  <2>1. Live(h) \subseteq Objects \cup {Main}
    BY <1>1 DEF Typed, Shape
  <2> QED
    BY <2>1, Kinds DEF White
<1>3. Beneath(h, T) \cap White(h) \subseteq T
  <2> SUFFICES ASSUME NEW x \in Beneath(h, T), x \in White(h) PROVE x \in S
    BY <1>2
  <2> HIDE DEF T
  <2>1. T \in SUBSET Live(h) /\ \A o \in T : StrongRefs(h, o) \subseteq S
    BY DEF T, Within, Leads
  <2>2. x = Nil \/ \E o \in T : x \in MarkRefs(h, o)
    BY <1>1, <2>1, BeneathRefs
  <2> QED
    BY <1>2, <2>1, <2>2 DEF StrongRefs
<1>4. M \subseteq T
  <2>1. vs \cap White(h) \subseteq T
    BY <1>2
  <2> HIDE DEF T
  <2> QED
    BY <1>1, <1>3, <2>1, MarkedObjects
<1>5. Typed(k) /\ Marks(k) /\ SameObjects(h, k)
  BY <1>1, MarkTyped
<1>6. White(k) = White(h) \ M
  BY <1>1, MarkWhite
<1>7. Within(k, S)
  BY <1>4, <1>5, <1>6, WithinSame DEF SameObjects
<1>8. Marking(k, Live(k))
  <2> DEFINE all == Live(h)
  <2>1. all \ all = {} /\ Marking(h, all)
    BY <1>1
  <2> HIDE DEF all
  <2>2. Marking(k, all)
    BY <1>1, <2>1, MarkMarks
  <2>3. Live(k) = all
    BY <1>5, SameRefs DEF SameObjects, all
  <2> QED
    BY <2>2, <2>3
<1> QED
  BY <1>5, <1>7, <1>8 DEF Midway

LEMMA PropagateWithin ==
  ASSUME NEW h, Midway(h), NEW S, Within(h, S)
  PROVE  Within(propagateall(h), S)
<1> DEFINE k == propagateall(h)
           all == Live(h)
<1>1. Typed(h) /\ Marks(h) /\ Marking(h, all) /\ h.white \in {"white0", "white1"}
  BY DEF Midway, Typed, Shape
<1> HIDE DEF all
<1>2. SameObjects(h, k) /\ White(k) = White(h) \ Spread(h)
  BY <1>1, PropagateAll
<1>3. \A o \in h.gray : o \in S \cap Live(h)
  BY <1>1 DEF Marking, Within, White, isgray, iswhite
<1>4. \A o \in h.gray \cup (S \cap White(h)) : MarkRefs(h, o) \cap White(h) \subseteq S
  BY <1>3 DEF Within, Leads, StrongRefs, White
<1>5. Spread(h) \subseteq S
  BY <1>4, SpreadIsClosed
<1> QED
  BY <1>2, <1>5, WithinSame DEF SameObjects

\* A part of the marking that ends with nothing gray.
LEMMA EndingWithin ==
  ASSUME NEW h, Ending(h), NEW S, Within(h, S), NEW vs, vs \cap White(h) \subseteq S
  PROVE  LET k == propagateall(Mark(h, vs))
         IN Within(k, S) /\ Ending(k) /\ SameObjects(h, k) /\ k.gray = {}
<1> DEFINE k == propagateall(Mark(h, vs))
           all == Live(h)
           none == {}
<1>1. Trail(h, h.gray \cup all \cup none) /\ none \cap Live(h) = {}
  BY DEF Trail
<1>2. Within(k, S)
  BY MarkWithin, PropagateWithin DEF Midway, Ending
<1> HIDE DEF all, none
<1>3. \A o \in none \cap Live(h) : MarkRefs(h, o) \cap White(h) \subseteq vs
  BY <1>1
<1>4. LET x == propagateall(Mark(h, vs))
      IN /\ Ending(x) /\ Trail(x, all) /\ x.gray = {} /\ SameObjects(h, x)
         /\ White(x) \subseteq White(h) /\ vs \cap White(x) = {}
         /\ h.grayagain \subseteq x.grayagain /\ h.weak \subseteq x.weak
  BY <1>1, <1>3, EndingMark
<1> QED
  BY <1>2, <1>4

LEMMA RemarkedWithin ==
  ASSUME NEW h, Ending(h), NEW S, Within(h, S), h.cur \in S
  PROVE  Within(Remarked(h), S)
<1> DEFINE us == {x \in Open(h) : isgray(h, x)}
           vs == {UpvalValue(h, u) : u \in us}
           cur == {h.cur}
           h1 == propagateall(Mark(h, vs))
           a == Again(h1)
           h2 == propagateall(Mark(a, cur))
           b == [h2 EXCEPT !.gray = h2.grayagain, !.grayagain = {}]
           k == propagateall(b)
<1>1. k = Remarked(h)
  BY DEF Remarked, remarkupvals
<1>2. vs \cap White(h) \subseteq S
  <2> SUFFICES ASSUME NEW u \in us, UpvalValue(h, u) \in White(h) PROVE UpvalValue(h, u) \in S
    OBVIOUS
  <2>1. u \in Upvalues /\ u \in Live(h) /\ isgray(h, u)
    BY DEF Open
  <2>2. Live(h) \subseteq Objects \cup {Main} /\ h.white \in {"white0", "white1"}
    BY DEF Ending, Typed, Shape
  <2>3. u \in S
    BY <2>1, <2>2 DEF Within, White, isgray, iswhite
  <2>4. UpvalValue(h, u) # Nil
    BY <2>2, Kinds DEF White
  <2>5. UpvalValue(h, u) \in MarkRefs(h, u)
    BY <2>1, <2>4, MarkRefsOf
  <2> QED
    BY <2>1, <2>3, <2>5 DEF Within, Leads, StrongRefs
<1> HIDE DEF vs, us
<1>3. Within(h1, S) /\ Ending(h1) /\ SameObjects(h, h1) /\ h1.gray = {}
  BY <1>2, EndingWithin
<1> HIDE DEF h1
<1>4. ASSUME NEW x, Ending(x), x.gray = {}
      PROVE  /\ LET y == Again(x)
                IN Ending(y) /\ SameObjects(x, y) /\ White(y) = White(x)
             /\ LET y == [x EXCEPT !.gray = x.grayagain, !.grayagain = {}]
                IN Ending(y) /\ SameObjects(x, y) /\ White(y) = White(x)
  <2> DEFINE all == Live(x)
  <2>1. Trail(x, x.grayagain \cup x.weak \cup all)
    BY DEF Trail
  <2> HIDE DEF all
  <2> QED
    BY <1>4, <2>1, RegrayedEnding
<1>5. Ending(a) /\ SameObjects(h1, a) /\ White(a) = White(h1)
  BY <1>3, <1>4
<1> HIDE DEF a
<1>6. Within(a, S)
  BY <1>3, <1>5, WithinSame DEF SameObjects
<1>7. cur \cap White(a) \subseteq S
  OBVIOUS
<1> HIDE DEF cur
<1>8. Within(h2, S) /\ Ending(h2) /\ h2.gray = {}
  BY <1>5, <1>6, <1>7, EndingWithin
<1> HIDE DEF h2
<1>9. Ending(b) /\ SameObjects(h2, b) /\ White(b) = White(h2)
  BY <1>4, <1>8
<1> HIDE DEF b
<1>10. Within(b, S)
  BY <1>8, <1>9, WithinSame DEF SameObjects
<1>11. Within(k, S)
  BY <1>9, <1>10, PropagateWithin DEF Midway, Ending
<1> QED
  BY <1>1, <1>11

\* The atomic step marks what awaits its finalizer, and nothing that S does not have.
LEMMA MarkedWithin ==
  ASSUME NEW h, Ending(h), NEW S, Within(h, S), h.cur \in S
  PROVE  LET s == luaC_separateudata(Remarked(h), FALSE)
             k == propagateall(marktmu(s))
         IN Range(s.tmudata) \subseteq S => Within(k, S)
<1> DEFINE r == Remarked(h)
           s == luaC_separateudata(r, FALSE)
           w == Whitened(s)
           T == Range(s.tmudata)
<1>1. Ending(r) /\ Within(r, S)
  <2> DEFINE all == Live(h)
  <2>1. Marking(h, all)
    BY DEF Ending
  <2> HIDE DEF all
  <2> QED
    BY <2>1, RemarkedEnding, RemarkedWithin
<1> HIDE DEF r
<1>2. Ending(s) /\ White(s) = White(r) /\ Live(s) = Live(r) /\ T \subseteq Userdata
  BY <1>1, SeparatedEnding
<1>3. \A o \in Live(r) : StrongRefs(s, o) = StrongRefs(r, o)
  <2> DEFINE dies == {u \in Range(r.udata) : (iswhite(r, u) \/ FALSE) /\ ~r.heap[u].fin}
             d == Separated(r, dies)
  <2>1. dies \in SUBSET Range(r.udata) /\ s = d
    BY DEF luaC_separateudata
  <2> HIDE DEF dies
  <2>2. SameLinks(r, d) /\ \A o \in Live(r) \ Userdata : d.heap[o] = r.heap[o]
    BY <1>1, <2>1, SeparatedTyped DEF Ending
  <2> HIDE DEF d, s
  <2> QED
    BY <2>1, <2>2, Kinds DEF SameLinks, StrongRefs
<1> HIDE DEF s
<1>4. Within(s, S)
  BY <1>1, <1>2, <1>3 DEF Within, Leads
<1> SUFFICES ASSUME T \subseteq S PROVE Within(propagateall(marktmu(s)), S)
  BY DEF s, r
<1>5. Ending(w) /\ SameObjects(s, w) /\ White(w) = White(s) \cup T
  BY <1>2, WhitenedEnding
<1>6. marktmu(s) = Mark(w, T)
  BY DEF marktmu, Whitened
<1> HIDE DEF w
<1>7. Within(w, S) /\ T \cap White(w) \subseteq S
  BY <1>4, <1>5, WithinSame DEF SameObjects
<1> HIDE DEF T
<1> QED
  BY <1>5, <1>6, <1>7, EndingWithin

\* The strings that the weak tables show are in S as well.
LEMMA AtomicWithin ==
  ASSUME NEW h, Ending(h), Marking(h, Range(h.tmudata)), NEW S, h.cur \in S
  PROVE  LET k == atomic(h)
         IN /\ Live(k) = Live(h) /\ Range(h.tmudata) \subseteq Range(k.tmudata)
            /\ Within(h, S) /\ Range(k.tmudata) \subseteq S => \A o \in Live(k) : ~isdead(k, o) => o \in S
<1> DEFINE r == Remarked(h)
           s == luaC_separateudata(r, FALSE)
           m == propagateall(marktmu(s))
           k == Flipped(cleartable(m))
           strings == Strings \cap White(m) \cap UNION {Seen(m, t) : t \in m.weak}
<1>1. atomic(h) = k
  BY DEF atomic, Remarked, Again
<1>2. Ending(m) /\ SameObjects(s, m)
  BY Marked
<1>3. Within(h, S) /\ Range(s.tmudata) \subseteq S => Within(m, S)
  BY MarkedWithin
<1>4. Live(s) = Live(h) /\ Range(h.tmudata) \subseteq Range(s.tmudata)
  <2> DEFINE all == Live(h)
  <2>1. Marking(h, all)
    BY DEF Ending
  <2> HIDE DEF all
  <2>2. Ending(r) /\ SameObjects(h, r)
    BY <2>1, RemarkedEnding
  <2>3. Live(r) = Live(h) /\ r.tmudata = h.tmudata
    BY <2>2 DEF SameObjects, Live
  <2> HIDE DEF r
  <2>4. Live(s) = Live(r) /\ Range(r.tmudata) \subseteq Range(s.tmudata)
    BY <2>2, SeparatedEnding
  <2> QED
    BY <2>3, <2>4
<1> HIDE DEF s
<1>5. Live(m) = Live(s) /\ m.tmudata = s.tmudata
  BY <1>2 DEF SameObjects, Live
<1> HIDE DEF m
<1>6. /\ Typed(m) /\ Marking(m, Live(m)) /\ DOMAIN m = Fields /\ DOMAIN m.color = Live(m)
      /\ m.white \in {"white0", "white1"}
  BY <1>2 DEF Ending, Typed, Shape
<1>7. /\ Live(k) = Live(m) /\ k.white = otherwhite(m) /\ k.tmudata = m.tmudata
      /\ \A o \in Live(m) : k.color[o] = IF o \in strings THEN "gray" ELSE m.color[o]
  BY <1>6, FlippedKeeps
<1> HIDE DEF k, strings
<1>8. ASSUME Within(m, S), NEW o \in Live(m), ~isdead(k, o) PROVE o \in S
  <2>1. o \in strings \/ m.color[o] # m.white
    BY <1>6, <1>7, <1>8 DEF isdead, otherwhite
  <2>2. CASE m.color[o] # m.white
    <3>1. o \notin White(m)
      BY <1>6, <2>2 DEF Marking, isdead, otherwhite, White, iswhite
    <3> QED
      BY <1>8, <3>1 DEF Within
  <2>3. CASE o \in strings
    <3>1. PICK t \in m.weak : o \in Seen(m, t)
      BY <2>3 DEF strings
    <3>2. t \in Live(m) /\ isgray(m, t) /\ t \in Tables
      BY <1>6, Kinds DEF Marking
    <3>3. t \in S
      BY <1>6, <1>8, <3>2 DEF Within, White, isgray, iswhite
    <3>4. o \in (DOMAIN m.heap[t] \cup Range(m.heap[t])) \cap Strings
      BY <2>3, <3>1 DEF Seen, strings, Range
    <3> QED
      BY <1>8, <3>2, <3>3, <3>4 DEF Within, Leads, StrongRefs
  <2> QED
    BY <2>1, <2>2, <2>3
<1> QED
  BY <1>1, <1>3, <1>4, <1>5, <1>7, <1>8

\* Of a collection that begins with everything white nothing is left but what S has.
LEMMA CycleWithin ==
  ASSUME NEW h, HeapInv(h), h.gcstate \in {"pause", "finalize"},
         NEW S, Leads(h, S), {Main, Globals, h.cur} \subseteq S
  PROVE  LET f == sweepall(atomic(propagateall(markroot(h))))
         IN Range(f.tmudata) \subseteq S => Live(f) \subseteq S \cap Live(h)
<1> DEFINE b == [h EXCEPT !.gray = {}, !.grayagain = {}, !.weak = {}]
           roots == {Main, Globals}
           r == markroot(h)
           p == propagateall(r)
           a == atomic(p)
           f == sweepall(a)
<1>1. /\ Ending(r) /\ Marking(r, Range(r.tmudata)) /\ r.tmudata = h.tmudata /\ r.cur = h.cur
      /\ Typed(b) /\ Marks(b) /\ Marking(b, Live(b)) /\ b.heap = h.heap /\ White(b) = White(h)
      /\ r.heap = b.heap /\ White(r) = White(Mark(b, roots))
  BY MarkrootStep
<1> HIDE DEF r, b
<1>2. Typed(r) /\ Marks(r) /\ Trail(r, r.gray \cup Live(r))
  BY <1>1 DEF Ending, Trail
<1>3. Ending(p) /\ SameObjects(r, p)
  <2> DEFINE all == Live(r)
  <2>1. Trail(r, r.gray \cup all)
    BY <1>2
  <2> HIDE DEF all
  <2> QED
    BY <1>1, <2>1, EndingPropagate
<1>4. Marking(p, Range(r.tmudata))
  <2> DEFINE T == Range(r.tmudata)
  <2>1. Marking(r, T)
    BY <1>1
  <2> HIDE DEF T
  <2>2. Marking(p, T)
    BY <1>2, <2>1, PropagateAll
  <2> QED
    BY <2>2 DEF T
<1>5. Marking(p, Range(p.tmudata)) /\ p.tmudata = h.tmudata /\ p.cur = h.cur /\ Live(p) = Live(h)
  <2>1. Live(r) = Live(h)
    BY <1>1 DEF Live
  <2> QED
    BY <1>1, <1>3, <1>4, <2>1 DEF SameObjects, Live
<1>6. Range(h.tmudata) \subseteq S => Within(p, S)
  <2> SUFFICES ASSUME Range(h.tmudata) \subseteq S PROVE Within(p, S)
    OBVIOUS
  <2>1. Live(h) \ White(h) \subseteq S
    BY DEF HeapInv, HeapBut, Typed, Shape, Phase, White, iswhite
  <2>2. Within(b, S)
    <3>1. Within(h, S)
      BY <2>1 DEF Within
    <3> QED
      BY <1>1, <3>1, WithinSame
  <2>3. roots \cap White(b) \subseteq S
    OBVIOUS
  <2> HIDE DEF roots
  <2>4. Within(Mark(b, roots), S)
    BY <1>1, <2>2, <2>3, MarkWithin DEF Midway
  <2>5. r.heap = Mark(b, roots).heap
    BY <1>1, MarkTyped DEF SameObjects
  <2>6. Within(r, S)
    BY <1>1, <2>4, <2>5, WithinSame
  <2> QED
    BY <1>1, <2>6, PropagateWithin DEF Midway, Ending
<1> HIDE DEF p
<1>7. HeapInv(a) /\ a.gcstate = "sweepstring"
  BY <1>3, <1>5, AtomicStep
<1>8. p.cur \in S
  BY <1>5
<1>9. /\ Live(a) = Live(p) /\ Range(p.tmudata) \subseteq Range(a.tmudata)
      /\ Within(p, S) /\ Range(a.tmudata) \subseteq S => \A o \in Live(a) : ~isdead(a, o) => o \in S
  BY <1>3, <1>5, <1>8, AtomicWithin
<1> HIDE DEF a
<1>10. /\ Healthy(a) /\ a.sweepstrgc \in Nat /\ Unpassed(a, a.unswept, a.sweepstrgc) /\ Chains(a)
       /\ a.asserts \subseteq {"awaiting"}
  BY <1>7 DEF HeapInv, HeapBut, Healthy, Phase, Sweeping, Unpassed
<1>11. HeapInv(f) /\ f.gcstate = "finalize" /\ Remains(a, f) /\ SameStep(a, f)
  BY <1>10, SweepallStep
<1> HIDE DEF f
<1>12. f.tmudata = a.tmudata
  BY <1>11 DEF SameStep
<1>13. \A o \in Live(f) : ~isdead(f, o)
  BY <1>11 DEF HeapInv, HeapBut, Phase, Awaiting, Good, Typed, Shape, isdead, otherwhite
<1>14. \A o \in Live(f) : o \in Live(a) /\ ~isdead(a, o)
  BY <1>11, <1>13 DEF Remains
<1> QED
  BY <1>5, <1>6, <1>9, <1>12, <1>14 DEF f, a, p, r

LEMMA FullgcWithin ==
  ASSUME NEW h, HeapInv(h), h.gcstate \notin {"closing", "closed"},
         NEW S, Leads(h, S), {Main, Globals, h.cur} \subseteq S
  PROVE  LET f == luaC_fullgc(h)
         IN Range(f.tmudata) \subseteq S => Live(f) \subseteq S \cap Live(h)
<1> DEFINE unmarked == [h EXCEPT !.sweepstrgc = 1, !.unswept = h.rootgc \cup Range(h.udata),
                                 !.gray = {}, !.grayagain = {}, !.weak = {}, !.gcstate = "sweepstring"]
           swept == IF h.gcstate \in {"pause", "propagate"} THEN unmarked ELSE h
           clean == sweepall(swept)
<1>1. luaC_fullgc(h) = sweepall(atomic(propagateall(markroot(clean))))
  BY DEF luaC_fullgc
<1>2. HeapInv(clean) /\ clean.gcstate = "finalize" /\ Remains(swept, clean) /\ SameStep(swept, clean)
  BY FullgcClean
<1>3. swept.heap = h.heap /\ swept.color = h.color /\ swept.white = h.white /\ swept.cur = h.cur
  BY DEF HeapInv, HeapBut, Typed, Shape, Fields
<1> HIDE DEF swept, clean
<1>4. Remains(h, clean) /\ clean.cur = h.cur
  BY <1>2, <1>3, RemainsSame, RemainsTwice DEF SameStep
<1>5. \A o \in Live(clean) : o \in Live(h) /\ StrongRefs(clean, o) = StrongRefs(h, o)
  BY <1>4, Kinds DEF Remains, StrongRefs
<1>6. Leads(clean, S) /\ {Main, Globals, clean.cur} \subseteq S
  BY <1>4, <1>5 DEF Leads
<1> QED
  BY <1>1, <1>2, <1>5, <1>6, CycleWithin

(* A full collection (luaC_fullgc) leaves nothing but what the roots, and  *)
(* the userdata that now wait for their finalizers, could reach before it. *)
THEOREM AllGarbageIsCollected == Spec => CollectsAllGarbage
<1>1. HeapOK /\ [Next]_<<cast, g>> =>
        [g'.gcstate = "finalize" /\ FullCollection =>
           DOMAIN g'.heap \subseteq ReachedFrom(g, {Main, Globals, g.cur} \cup Range(g'.tmudata))]_g
  <2> SUFFICES ASSUME HeapOK, FullCollection, NEW o \in Live(g')
               PROVE  o \in ReachedFrom(g, {Main, Globals, g.cur} \cup Range(g'.tmudata))
    BY DEF Live
  <2> DEFINE roots == {Main, Globals, g.cur} \cup Range(g'.tmudata)
             all == Live(g) \cup roots \cup UNION {StrongRefs(g, x) : x \in Live(g)}
  <2>1. HeapInv(g) /\ g.gcstate \notin {"closing", "closed"} /\ g' = luaC_fullgc(g)
    BY DEF HeapOK, Running, FullCollection
  <2>2. ASSUME NEW S, Leads(g, S), roots \subseteq S PROVE o \in S /\ o \in Live(g)
    <3>1. Range(g'.tmudata) \subseteq S => Live(g') \subseteq S \cap Live(g)
      BY <2>1, <2>2, FullgcWithin
    <3> QED
      BY <2>2, <3>1
  <2>3. o \in all
    <3>1. Leads(g, all) /\ roots \subseteq all
      BY DEF Leads
    <3> QED
      BY <2>2, <3>1
  <2>4. \A S \in {roots \cup more : more \in SUBSET (all \ roots)} :
          (\A x \in S \cap Live(g) : StrongRefs(g, x) \subseteq S) => o \in S
    BY <2>2 DEF Leads
  <2> QED
    BY <2>3, <2>4 DEF ReachedFrom
<1> QED
  BY <1>1, HeapIsSound, PTL DEF Spec, CollectsAllGarbage
=============================================================================
