---------------------------- MODULE NoticeProofs ----------------------------
(***************************************************************************)
(* Proofs about notices, for any handlers, any number of additions and any *)
(* depth: none is lost, and no handler fails more often within itself than *)
(* it has been added.                                                      *)
(***************************************************************************)
EXTENDS Notice, SequenceTheorems, FiniteSetTheorems, TLAPS

-----------------------------------------------------------------------------
(* The invariant                                                           *)

\* What runs or has failed is a handler.
Known == \A n \in DOMAIN calls :
           calls[n].at \in {"handler", "failed"} => calls[n].v \in Handler

\* A notice that somebody claims to have shown has been shown.
Told == \A n \in DOMAIN calls :
          calls[n].noticedp \/ calls[n].at \in {"box", "end"} => calls[n].told

\* The notices of a stack c, whose handler h has failed.
Failures(c, h) == {n \in DOMAIN c : c[n].at = "failed" /\ c[n].v = h}

\* A handler that runs may fail once more, besides its failures within which it
\* was called.  It was in the list then, and may be no longer.
MayFail(c, a) ==
  \A n \in DOMAIN c :
    c[n].at = "handler" => Cardinality({m \in Failures(c, c[n].v) : m < n}) < a[c[n].v]

NoticeInv == TypeOK /\ Known /\ Told /\ RecursionEnds /\ MayFail(calls, added)

-----------------------------------------------------------------------------
(* Counting                                                                *)

\* A set is not larger than one that it has an injection into.
LEMMA NotMore ==
  ASSUME NEW S, NEW T, IsFiniteSet(T), NEW f \in [S -> T],
         \A x, y \in S : f[x] = f[y] => x = y
  PROVE  IsFiniteSet(S) /\ Cardinality(S) <= Cardinality(T)
<1>1. f \in Injection(S, T)
  BY DEF Injection, IsInjective
<1> QED
  BY <1>1, FS_Injection

Places(s, h) == {k \in DOMAIN s : s[k] = h}

\* The places in a list are counted by a natural number.
LEMMA PlacesFinite ==
  ASSUME NEW s \in Seq(Handler), NEW h
  PROVE  IsFiniteSet(Places(s, h)) /\ Cardinality(Places(s, h)) \in Nat
<1>1. DOMAIN s = 1..Len(s) /\ Len(s) \in Nat
  BY LenProperties
<1>2. IsFiniteSet(DOMAIN s)
  BY <1>1, FS_Interval
<1>3. IsFiniteSet(Places(s, h))
  BY <1>2, FS_Subset DEF Places
<1> QED
  BY <1>3, FS_CardinalityType

\* A handler that is removed has one place less, the others have no more.
LEMMA RemovedPlaces ==
  ASSUME NEW s \in Seq(Handler), NEW i \in DOMAIN s,
         NEW t, t = [k \in 1..Len(s) - 1 |-> s[IF k < i THEN k ELSE k + 1]]
  PROVE  /\ t \in Seq(Handler)
         /\ \A h : Cardinality(Places(t, h)) <= Cardinality(Places(s, h))
         /\ Cardinality(Places(t, s[i])) + 1 <= Cardinality(Places(s, s[i]))
<1>1. Len(s) \in Nat /\ DOMAIN s = 1..Len(s) /\ Len(s) - 1 \in Nat
  BY LenProperties
<1> DEFINE n == Len(s) - 1
           g == [k \in 1..n |-> IF k < i THEN k ELSE k + 1]
<1>2. /\ g \in [1..n -> DOMAIN s \ {i}]
      /\ \A j, k \in 1..n : g[j] = g[k] => j = k
  BY <1>1
<1>3. \A k \in 1..n : t[k] = s[g[k]]
  OBVIOUS
<1>4. DOMAIN t = 1..n
  OBVIOUS
<1>5. t \in Seq(Handler)
  <2>1. \A k \in 1..n : s[g[k]] \in Handler
    BY <1>1, <1>2, ElementOfSeq
  <2>2. t \in [1..n -> Handler]
    BY <1>3, <1>4, <2>1
  <2> QED
    BY <1>1, <2>2, SeqDef
<1> HIDE DEF g, n
<1>6. ASSUME NEW h PROVE Cardinality(Places(t, h)) <= Cardinality(Places(s, h) \ {i})
  <2> DEFINE S == Places(t, h)
             T == Places(s, h) \ {i}
             f == [k \in S |-> g[k]]
  <2>1. IsFiniteSet(T)
    BY PlacesFinite, FS_RemoveElement
  <2>2. f \in [S -> T] /\ \A x, y \in S : f[x] = f[y] => x = y
    <3>1. \A x \in S : x \in 1..n /\ t[x] = h
      BY <1>4 DEF Places
    <3>2. \A x \in S : g[x] \in DOMAIN s \ {i} /\ s[g[x]] = h
      BY <1>2, <1>3, <3>1
    <3>3. \A x \in S : g[x] \in T
      BY <3>2 DEF Places
    <3> QED
      BY <1>2, <3>1, <3>3
  <2> HIDE DEF S, T, f
  <2>3. Cardinality(S) <= Cardinality(T)
    BY <2>1, <2>2, NotMore
  <2> QED
    BY <2>3 DEF S, T
<1>7. ASSUME NEW h
      PROVE  Cardinality(Places(s, h) \ {i}) =
               IF s[i] = h THEN Cardinality(Places(s, h)) - 1 ELSE Cardinality(Places(s, h))
  <2>1. i \in Places(s, h) <=> s[i] = h
    BY DEF Places
  <2> QED
    BY <2>1, PlacesFinite, FS_RemoveElement
<1>8. ASSUME NEW h
      PROVE  /\ Cardinality(Places(t, h)) <= Cardinality(Places(s, h))
             /\ s[i] = h => Cardinality(Places(t, h)) + 1 <= Cardinality(Places(s, h))
  <2>1. Cardinality(Places(t, h)) \in Nat /\ Cardinality(Places(s, h)) \in Nat
    BY <1>5, PlacesFinite
  <2> DEFINE a == Cardinality(Places(t, h))
             b == Cardinality(Places(s, h))
             c == Cardinality(Places(s, h) \ {i})
  <2>2. a \in Nat /\ b \in Nat /\ a <= c /\ c = IF s[i] = h THEN b - 1 ELSE b
    BY <1>6, <1>7, <2>1
  <2> HIDE DEF a, b, c
  <2>3. a <= b /\ (s[i] = h => a + 1 <= b)
    BY <2>2
  <2> QED
    BY <2>3 DEF a, b
<1> QED
  BY <1>5, <1>8

\* A handler that is added has at most one place more, the others have no more.
LEMMA AddedPlaces ==
  ASSUME NEW s \in Seq(Handler), NEW g \in Handler, NEW t, t = <<g>> \o s
  PROVE  /\ t \in Seq(Handler)
         /\ \A h : Cardinality(Places(t, h)) <=
                    IF h = g THEN Cardinality(Places(s, h)) + 1 ELSE Cardinality(Places(s, h))
<1>1. /\ <<g>> \in Seq(Handler) /\ Len(<<g>>) = 1 /\ <<g>>[1] = g
      /\ Len(s) \in Nat /\ DOMAIN s = 1..Len(s)
  BY LenProperties
<1>2. /\ t \in Seq(Handler) /\ Len(t) = 1 + Len(s)
      /\ \A k \in 1..1 + Len(s) : t[k] = IF k <= 1 THEN g ELSE s[k - 1]
  BY <1>1, ConcatProperties
<1>3. DOMAIN t = 1..1 + Len(s)
  BY <1>2, LenProperties
<1>4. ASSUME NEW h PROVE Cardinality(Places(t, h) \ {1}) <= Cardinality(Places(s, h))
  <2> DEFINE S == Places(t, h) \ {1}
             T == Places(s, h)
             f == [k \in S |-> k - 1]
  <2>1. IsFiniteSet(T)
    BY PlacesFinite
  <2>2. f \in [S -> T] /\ \A x, y \in S : f[x] = f[y] => x = y
    BY <1>1, <1>2, <1>3 DEF Places
  <2> HIDE DEF S, T, f
  <2>3. Cardinality(S) <= Cardinality(T)
    BY <2>1, <2>2, NotMore
  <2> QED
    BY <2>3 DEF S, T
<1>5. ASSUME NEW h
      PROVE  Cardinality(Places(t, h)) <=
               IF h = g THEN Cardinality(Places(s, h)) + 1 ELSE Cardinality(Places(s, h))
  <2>1. 1 \in Places(t, h) => h = g
    BY <1>2 DEF Places
  <2>2. Cardinality(Places(t, h) \ {1}) =
          IF 1 \in Places(t, h) THEN Cardinality(Places(t, h)) - 1
          ELSE Cardinality(Places(t, h))
    BY <1>2, PlacesFinite, FS_RemoveElement
  <2>3. Cardinality(Places(t, h)) \in Nat /\ Cardinality(Places(s, h)) \in Nat
    BY <1>2, PlacesFinite
  <2> DEFINE a == Cardinality(Places(t, h))
             b == Cardinality(Places(s, h))
             c == Cardinality(Places(t, h) \ {1})
  <2>4. a \in Nat /\ b \in Nat /\ c <= b /\ (c = a \/ (h = g /\ c = a - 1))
    BY <1>4, <2>1, <2>2, <2>3
  <2> HIDE DEF a, b, c
  <2>5. a <= IF h = g THEN b + 1 ELSE b
    BY <2>4
  <2> QED
    BY <2>5 DEF a, b
<1> QED
  BY <1>2, <1>5

-----------------------------------------------------------------------------
(* The stack of notices                                                    *)

\* What TypeOK says of the notices.
LEMMA CallsTyped ==
  ASSUME TypeOK
  PROVE  /\ calls \in Seq(Call) /\ Len(calls) \in Nat /\ DOMAIN calls = 1..Len(calls)
         /\ \A n \in DOMAIN calls : calls[n] \in Call
         /\ calls # <<>> => /\ Len(calls) \in DOMAIN calls /\ Len(calls) # 0
                            /\ Top = calls[Len(calls)] /\ Top \in Call
<1>1. calls \in Seq(Call)
  BY DEF TypeOK
<1>2. Len(calls) \in Nat /\ DOMAIN calls = 1..Len(calls)
  BY <1>1, LenProperties
<1>3. calls # <<>> => Len(calls) # 0
  BY <1>1, EmptySeq
<1> QED
  BY <1>1, <1>2, <1>3, ElementOfSeq DEF Top

\* The innermost of a stack of notices changes.
LEMMA Changed ==
  ASSUME NEW c \in Seq(Call), c # <<>>, NEW x \in Call,
         NEW d, d = [c EXCEPT ![Len(c)] = x]
  PROVE  /\ d \in Seq(Call) /\ Len(d) = Len(c) /\ DOMAIN d = DOMAIN c
         /\ Len(c) \in DOMAIN c /\ d[Len(c)] = x
         /\ \A n \in DOMAIN c : n # Len(c) => d[n] = c[n]
<1> PICK l : l = Len(c)
  OBVIOUS
<1>1. l \in 1..Len(c) /\ DOMAIN c = 1..Len(c)
  BY EmptySeq, LenProperties
<1>2. /\ d \in Seq(Call) /\ Len(d) = Len(c)
      /\ \A j \in 1..Len(c) : d[j] = IF j = l THEN x ELSE c[j]
  BY <1>1, ExceptSeq
<1>3. DOMAIN d = 1..Len(c)
  BY <1>2, LenProperties
<1> QED
  BY <1>1, <1>2, <1>3

\* What is left of a stack below a place.
LEMMA Cut ==
  ASSUME NEW c \in Seq(Call), NEW n \in 0..Len(c), NEW d, d = SubSeq(c, 1, n)
  PROVE  /\ d \in Seq(Call) /\ Len(d) = n /\ DOMAIN d = 1..n
         /\ \A k \in DOMAIN d : k \in DOMAIN c /\ d[k] = c[k]
<1>1. Len(c) \in Nat /\ DOMAIN c = 1..Len(c)
  BY LenProperties
<1>2. \A i \in 1..n : i \in 1..Len(c) /\ 1 + i - 1 = i
  BY <1>1
<1>3. d \in Seq(Call) /\ Len(d) = n /\ \A i \in 1..n : d[i] = c[i]
  BY <1>1, <1>2, SubSeqProperties
<1>4. DOMAIN d = 1..n
  BY <1>3, LenProperties
<1> QED
  BY <1>1, <1>2, <1>3, <1>4

\* A notice is put on a stack.
LEMMA Pushed ==
  ASSUME NEW c \in Seq(Call), NEW x \in Call, NEW d, d = Append(c, x)
  PROVE  /\ d \in Seq(Call) /\ Len(d) = Len(c) + 1 /\ DOMAIN d = 1..Len(c) + 1
         /\ d[Len(c) + 1] = x
         /\ \A n \in DOMAIN d : n = Len(c) + 1 \/ (n \in DOMAIN c /\ d[n] = c[n])
<1>1. /\ d \in Seq(Call) /\ Len(d) = Len(c) + 1
      /\ \A i \in 1..Len(c) : d[i] = c[i]
  BY AppendProperties
<1>2. Len(c) \in Nat /\ DOMAIN c = 1..Len(c) /\ DOMAIN d = 1..Len(c) + 1
  BY <1>1, LenProperties
<1>3. d[Len(c) + 1] = x
  BY AppendProperties
<1>4. \A n \in 1..Len(c) + 1 : n = Len(c) + 1 \/ n \in 1..Len(c)
  BY <1>2
<1> QED
  BY <1>1, <1>2, <1>3, <1>4

\* A notice says that it was shown only if it was.
Honest(x) == x.noticedp \/ x.at \in {"box", "end"} => x.told

\* What a handler that runs or has failed is.
Sane(x) == x.at \in {"handler", "failed"} => x.v \in Handler

-----------------------------------------------------------------------------
(* The failures of a handler                                               *)

\* RecursionEnds, for any stack of notices c, list l and additions a.
Counted(c, l, a) ==
  \A h \in Handler : Cardinality(Failures(c, h)) + Cardinality(Places(l, h)) <= a[h]

\* No notice of d calls a handler that it did not call in c.
Quieter(c, d) ==
  \A n \in DOMAIN d :
    d[n].at \in {"handler", "failed"} =>
      n \in DOMAIN c /\ d[n].at = c[n].at /\ d[n].v = c[n].v /\ d[n].v \in Handler

\* From l and a to k and b, places come with additions only.
Afforded(l, k, a, b) ==
  \A h \in Handler :
    /\ a[h] <= b[h]
    /\ Cardinality(Places(k, h)) + a[h] <= Cardinality(Places(l, h)) + b[h]

\* k is l without a place of h, if there was one.
Released(l, k, h) ==
  /\ \A g : Cardinality(Places(k, g)) <= Cardinality(Places(l, g))
  /\ \/ Cardinality(Places(k, h)) + 1 <= Cardinality(Places(l, h))
     \/ Places(k, h) = {}

\* In d the innermost notice of c has failed; what is within it has not.
FailedIn(c, d) ==
  \A n \in DOMAIN d :
    d[n].at \in {"handler", "failed"} =>
      /\ n \in DOMAIN c
      /\ n # Len(c) => d[n] = c[n]
      /\ n = Len(c) => d[n].at = "failed" /\ d[n].v = c[n].v

\* What a notice calls is a handler.
AllSane(c) == \A n \in DOMAIN c : Sane(c[n])

\* Sets of notices of a stack are counted by natural numbers.
LEMMA NoticesFinite ==
  ASSUME NEW c \in Seq(Call), NEW S, S \subseteq DOMAIN c
  PROVE  /\ IsFiniteSet(S) /\ Cardinality(S) \in Nat
         /\ \A T : T \subseteq S => IsFiniteSet(T) /\ Cardinality(T) \in Nat
                                    /\ Cardinality(T) <= Cardinality(S)
<1>1. DOMAIN c = 1..Len(c) /\ Len(c) \in Nat
  BY LenProperties
<1>2. IsFiniteSet(DOMAIN c)
  BY <1>1, FS_Interval
<1>3. IsFiniteSet(S)
  BY <1>2, FS_Subset
<1>4. ASSUME NEW T, T \subseteq S
      PROVE  IsFiniteSet(T) /\ Cardinality(T) \in Nat /\ Cardinality(T) <= Cardinality(S)
  BY <1>3, <1>4, FS_Subset, FS_CardinalityType
<1> QED
  BY <1>3, <1>4, FS_CardinalityType

\* Notices begin and end, handlers return, are added and removed.
LEMMA Calmer ==
  ASSUME NEW c \in Seq(Call), NEW d \in Seq(Call),
         NEW l \in Seq(Handler), NEW k \in Seq(Handler),
         NEW a \in [Handler -> Nat], NEW b \in [Handler -> Nat],
         Afforded(l, k, a, b), Quieter(c, d), Counted(c, l, a), MayFail(c, a)
  PROVE  Counted(d, k, b) /\ MayFail(d, b)
<1>1. \A h : Failures(d, h) \subseteq Failures(c, h) /\ Failures(c, h) \subseteq DOMAIN c
  BY DEF Failures, Quieter
<1>2. ASSUME NEW h \in Handler
      PROVE  Cardinality(Failures(d, h)) + Cardinality(Places(k, h)) <= b[h]
  <2> DEFINE x == Cardinality(Failures(d, h))
             y == Cardinality(Failures(c, h))
             p == Cardinality(Places(k, h))
             q == Cardinality(Places(l, h))
  <2>1. x \in Nat /\ y \in Nat /\ x <= y
    BY <1>1, NoticesFinite
  <2>2. p \in Nat /\ q \in Nat
    BY PlacesFinite
  <2>3. y + q <= a[h] /\ p + a[h] <= q + b[h] /\ a[h] \in Nat /\ b[h] \in Nat
    BY DEF Counted, Afforded
  <2> HIDE DEF x, y, p, q
  <2>4. x + p <= b[h]
    BY <2>1, <2>2, <2>3
  <2> QED
    BY <2>4 DEF x, p
<1>3. ASSUME NEW n \in DOMAIN d, d[n].at = "handler"
      PROVE  Cardinality({m \in Failures(d, d[n].v) : m < n}) < b[d[n].v]
  <2> DEFINE S == {m \in Failures(d, d[n].v) : m < n}
             T == {m \in Failures(c, c[n].v) : m < n}
  <2>1. n \in DOMAIN c /\ c[n].at = "handler" /\ d[n].v = c[n].v /\ d[n].v \in Handler
    BY <1>3 DEF Quieter
  <2>2. S \subseteq T /\ T \subseteq DOMAIN c
    BY <1>1, <2>1
  <2>3. Cardinality(T) < a[d[n].v]
    BY <2>1 DEF MayFail
  <2> HIDE DEF S, T
  <2>4. Cardinality(S) \in Nat /\ Cardinality(T) \in Nat /\ Cardinality(S) <= Cardinality(T)
    BY <2>2, NoticesFinite
  <2>5. a[d[n].v] <= b[d[n].v] /\ a[d[n].v] \in Nat /\ b[d[n].v] \in Nat
    BY <2>1 DEF Afforded
  <2>6. Cardinality(S) < b[d[n].v]
    BY <2>3, <2>4, <2>5
  <2> QED
    BY <2>6 DEF S
<1> QED
  BY <1>2, <1>3 DEF Counted, MayFail

\* A handler of the list is called.
LEMMA MayBeCalled ==
  ASSUME NEW c \in Seq(Call), NEW d \in Seq(Call), NEW l \in Seq(Handler),
         NEW a \in [Handler -> Nat], NEW n \in DOMAIN c, DOMAIN d = DOMAIN c,
         d[n].at = "handler", d[n].v \in Handler, Places(l, d[n].v) # {},
         \A m \in DOMAIN c : m # n => d[m] = c[m],
         AllSane(c), Counted(c, l, a), MayFail(c, a)
  PROVE  Counted(d, l, a) /\ MayFail(d, a)
<1>1. \A h : Failures(d, h) \subseteq Failures(c, h) /\ Failures(c, h) \subseteq DOMAIN c
  BY DEF Failures
<1>2. ASSUME NEW h \in Handler
      PROVE  Cardinality(Failures(d, h)) + Cardinality(Places(l, h)) <= a[h]
  <2> DEFINE x == Cardinality(Failures(d, h))
             y == Cardinality(Failures(c, h))
             q == Cardinality(Places(l, h))
  <2>1. x \in Nat /\ y \in Nat /\ x <= y
    BY <1>1, NoticesFinite
  <2>2. q \in Nat
    BY PlacesFinite
  <2>3. y + q <= a[h] /\ a[h] \in Nat
    BY DEF Counted
  <2> HIDE DEF x, y, q
  <2>4. x + q <= a[h]
    BY <2>1, <2>2, <2>3
  <2> QED
    BY <2>4 DEF x, q
<1>3. ASSUME NEW m \in DOMAIN d, d[m].at = "handler"
      PROVE  Cardinality({j \in Failures(d, d[m].v) : j < m}) < a[d[m].v]
  <2> DEFINE S == {j \in Failures(d, d[m].v) : j < m}
             T == {j \in Failures(c, c[m].v) : j < m}
  <2>1. CASE m # n
    <3>1. d[m] = c[m] /\ m \in DOMAIN c
      BY <2>1
    <3>2. S \subseteq T /\ T \subseteq DOMAIN c
      BY <1>1, <3>1
    <3>3. Cardinality(T) < a[d[m].v]
      BY <1>3, <3>1 DEF MayFail
    <3> HIDE DEF S, T
    <3>4. Cardinality(S) \in Nat /\ Cardinality(T) \in Nat /\ Cardinality(S) <= Cardinality(T)
      BY <3>2, NoticesFinite
    <3>5. a[d[m].v] \in Nat
      BY <1>3, <3>1 DEF AllSane, Sane
    <3>6. Cardinality(S) < a[d[m].v]
      BY <3>3, <3>4, <3>5
    <3> QED
      BY <3>6 DEF S
  <2>2. CASE m = n
    <3> PICK h \in Handler : h = d[n].v
      OBVIOUS
    <3> DEFINE y == Cardinality(Failures(c, h))
               q == Cardinality(Places(l, h))
    <3>1. S \subseteq Failures(c, h)
      BY <1>1, <2>2
    <3> HIDE DEF S
    <3>2. Cardinality(S) \in Nat /\ y \in Nat /\ Cardinality(S) <= y
      BY <1>1, <3>1, NoticesFinite
    <3>3. q \in Nat /\ q # 0
      BY PlacesFinite, FS_EmptySet
    <3>4. y + q <= a[h] /\ a[h] \in Nat
      BY DEF Counted
    <3> HIDE DEF y, q
    <3>5. Cardinality(S) < a[h]
      BY <3>2, <3>3, <3>4
    <3> QED
      BY <2>2, <3>5 DEF S
  <2> QED
    BY <2>1, <2>2
<1> QED
  BY <1>2, <1>3 DEF Counted, MayFail

\* The handler that runs fails, and is removed if it is in the list.
LEMMA MayFailOnce ==
  ASSUME NEW c \in Seq(Call), NEW d \in Seq(Call),
         NEW l \in Seq(Handler), NEW k \in Seq(Handler), NEW a \in [Handler -> Nat],
         c # <<>>, NEW h \in Handler, c[Len(c)].at = "handler", c[Len(c)].v = h,
         Released(l, k, h), FailedIn(c, d), AllSane(c), Counted(c, l, a), MayFail(c, a)
  PROVE  Counted(d, k, a) /\ MayFail(d, a)
<1> PICK n : n = Len(c)
  OBVIOUS
<1>1. DOMAIN c = 1..n /\ n \in Nat /\ n \in DOMAIN c
  BY EmptySeq, LenProperties
<1>2. /\ \A g : g # h => Failures(d, g) \subseteq Failures(c, g)
      /\ Failures(d, h) \subseteq Failures(c, h) \cup {n}
      /\ \A g : Failures(c, g) \subseteq DOMAIN c /\ n \notin Failures(c, h)
  BY DEF Failures, FailedIn
<1>3. ASSUME NEW g \in Handler
      PROVE  Cardinality(Failures(d, g)) + Cardinality(Places(k, g)) <= a[g]
  <2> DEFINE x == Cardinality(Failures(d, g))
             y == Cardinality(Failures(c, g))
             p == Cardinality(Places(k, g))
             q == Cardinality(Places(l, g))
  <2>1. y \in Nat /\ p \in Nat /\ q \in Nat /\ p <= q /\ y + q <= a[g] /\ a[g] \in Nat
    BY <1>2, NoticesFinite, PlacesFinite DEF Counted, Released
  <2>2. CASE g # h
    <3>1. x \in Nat /\ x <= y
      BY <1>2, <2>2, NoticesFinite
    <3> HIDE DEF x, y, p, q
    <3>2. x + p <= a[g]
      BY <2>1, <3>1
    <3> QED
      BY <3>2 DEF x, p
  <2>3. CASE g = h
    <3>1. /\ IsFiniteSet(Failures(c, h) \cup {n})
          /\ Cardinality(Failures(c, h) \cup {n}) = y + 1
      <4>1. IsFiniteSet(Failures(c, h)) /\ n \notin Failures(c, h)
        BY <1>2, NoticesFinite
      <4> QED
        BY <2>3, <4>1, FS_AddElement
    <3>2. x \in Nat /\ x <= y + 1
      BY <1>2, <2>3, <3>1, FS_Subset, FS_CardinalityType
    <3>3. CASE p + 1 <= q
      <4> HIDE DEF x, y, p, q
      <4>1. x + p <= a[g]
        BY <2>1, <3>2, <3>3
      <4> QED
        BY <4>1 DEF x, p
    <3>4. CASE Places(k, h) = {}
      <4>1. p = 0
        BY <2>3, <3>4, FS_EmptySet
      <4>2. {m \in Failures(c, c[n].v) : m < n} = Failures(c, h)
        BY <1>1, <1>2
      <4>3. y < a[g]
        BY <1>1, <2>3, <4>2 DEF MayFail
      <4> HIDE DEF x, y, p, q
      <4>4. x + p <= a[g]
        BY <2>1, <3>2, <4>1, <4>3
      <4> QED
        BY <4>4 DEF x, p
    <3> QED
      BY <2>3, <3>3, <3>4 DEF Released
  <2> QED
    BY <2>2, <2>3
<1>4. ASSUME NEW m \in DOMAIN d, d[m].at = "handler"
      PROVE  Cardinality({j \in Failures(d, d[m].v) : j < m}) < a[d[m].v]
  <2> DEFINE S == {j \in Failures(d, d[m].v) : j < m}
             T == {j \in Failures(c, c[m].v) : j < m}
  <2>1. m \in DOMAIN c /\ m # n /\ d[m] = c[m] /\ d[m].v \in Handler
    BY <1>4 DEF FailedIn, AllSane, Sane
  <2>2. m < n
    BY <1>1, <2>1
  <2>3. S \subseteq T /\ T \subseteq DOMAIN c
    <3>1. ASSUME NEW j \in S PROVE j \in T
      <4>1. j \in Failures(d, d[m].v) /\ j < m
        OBVIOUS
      <4>2. j \in DOMAIN c
        BY <4>1 DEF Failures, FailedIn
      <4>3. j # n
        BY <1>1, <2>1, <2>2, <4>1, <4>2
      <4>4. j \in Failures(c, c[m].v)
        BY <2>1, <4>1, <4>3 DEF Failures, FailedIn
      <4> QED
        BY <4>1, <4>4
    <3> QED
      BY <1>2, <3>1
  <2>4. Cardinality(T) < a[d[m].v]
    BY <1>4, <2>1 DEF MayFail
  <2> HIDE DEF S, T
  <2>5. Cardinality(S) \in Nat /\ Cardinality(T) \in Nat /\ Cardinality(S) <= Cardinality(T)
    BY <2>3, NoticesFinite
  <2>6. a[d[m].v] \in Nat
    BY <2>1
  <2>7. Cardinality(S) < a[d[m].v]
    BY <2>4, <2>5, <2>6
  <2> QED
    BY <2>7 DEF S
<1> QED
  BY <1>3, <1>4 DEF Counted, MayFail

-----------------------------------------------------------------------------
(* The steps                                                               *)

\* What the invariant says.
LEMMA Unfolded ==
  ASSUME NoticeInv
  PROVE  /\ TypeOK /\ notice_handler_list \in Seq(Handler)
         /\ added \in [Handler -> Nat] /\ added \in [Handler -> 0..MaxAdds]
         /\ \A n \in DOMAIN calls : Honest(calls[n]) /\ Sane(calls[n])
         /\ Counted(calls, notice_handler_list, added) /\ MayFail(calls, added)
<1>1. TypeOK /\ notice_handler_list \in Seq(Handler) /\ added \in [Handler -> 0..MaxAdds]
  BY DEF NoticeInv, TypeOK
<1>2. added \in [Handler -> Nat]
  BY <1>1, BoundAssumption
<1>3. \A n \in DOMAIN calls : Honest(calls[n]) /\ Sane(calls[n])
  BY DEF NoticeInv, Told, Known, Honest, Sane
<1>4. Counted(calls, notice_handler_list, added)
  BY DEF NoticeInv, RecursionEnds, Counted, FailuresOf, PlacesOf, Failures, Places
<1> QED
  BY <1>1, <1>2, <1>3, <1>4 DEF NoticeInv

\* What has to be shown of a step.
LEMMA Folded ==
  ASSUME calls' \in Seq(Call), notice_handler_list' \in Seq(Handler), running' \in BOOLEAN,
         added' \in [Handler -> 0..MaxAdds],
         \A n \in DOMAIN calls' : Honest(calls'[n]) /\ Sane(calls'[n]),
         Counted(calls', notice_handler_list', added'), MayFail(calls', added')
  PROVE  NoticeInv'
<1>1. TypeOK'
  BY DEF TypeOK
<1>2. Told' /\ Known'
  BY DEF Told, Known, Honest, Sane
<1>3. RecursionEnds'
  BY DEF RecursionEnds, Counted, FailuresOf, PlacesOf, Failures, Places
<1> QED
  BY <1>1, <1>2, <1>3 DEF NoticeInv

\* A step after which no notice calls a handler that did not call it before.
LEMMA CalmStep ==
  ASSUME NoticeInv, running' \in BOOLEAN, calls' \in Seq(Call),
         notice_handler_list' \in Seq(Handler), UNCHANGED added,
         \A h \in Handler : Cardinality(Places(notice_handler_list', h))
                             <= Cardinality(Places(notice_handler_list, h)),
         \A n \in DOMAIN calls' :
           \/ n \in DOMAIN calls /\ calls'[n] = calls[n]
           \/ Honest(calls'[n]) /\ calls'[n].at \notin {"handler", "failed"}
  PROVE  NoticeInv'
<1>1. /\ TypeOK /\ notice_handler_list \in Seq(Handler)
      /\ added \in [Handler -> Nat] /\ added \in [Handler -> 0..MaxAdds]
      /\ \A n \in DOMAIN calls : Honest(calls[n]) /\ Sane(calls[n])
      /\ Counted(calls, notice_handler_list, added) /\ MayFail(calls, added)
  BY Unfolded
<1>2. calls \in Seq(Call)
  BY <1>1 DEF TypeOK
<1> PICK d : d = calls'
  OBVIOUS
<1> PICK k : k = notice_handler_list'
  OBVIOUS
<1>3. \A n \in DOMAIN d : Honest(d[n]) /\ Sane(d[n])
  BY <1>1 DEF Sane
<1>4. Counted(d, k, added) /\ MayFail(d, added)
  <2>1. d \in Seq(Call) /\ k \in Seq(Handler)
    OBVIOUS
  <2>2. Afforded(notice_handler_list, k, added, added)
    <3> SUFFICES ASSUME NEW h \in Handler
                 PROVE  /\ added[h] <= added[h]
                        /\ Cardinality(Places(k, h)) + added[h]
                             <= Cardinality(Places(notice_handler_list, h)) + added[h]
      BY DEF Afforded
    <3> DEFINE p == Cardinality(Places(k, h))
               q == Cardinality(Places(notice_handler_list, h))
    <3>1. p \in Nat /\ q \in Nat /\ p <= q /\ added[h] \in Nat
      BY <1>1, <2>1, PlacesFinite
    <3> HIDE DEF p, q
    <3>2. p + added[h] <= q + added[h] /\ added[h] <= added[h]
      BY <3>1
    <3> QED
      BY <3>2 DEF p, q
  <2>3. Quieter(calls, d)
    BY <1>1 DEF Sane, Quieter
  <2> QED
    BY ONLY <1>1, <1>2, <2>1, <2>2, <2>3, Calmer
<1>5. calls' = d /\ notice_handler_list' = k /\ added' = added
  OBVIOUS
<1> QED
  BY <1>1, <1>3, <1>4, <1>5, Folded

\* The innermost notice goes on without calling a handler.
LEMMA TopGoesOn ==
  ASSUME NoticeInv, calls # <<>>, NEW x \in Call, calls' = [calls EXCEPT ![Len(calls)] = x],
         Honest(x), x.at \notin {"handler", "failed"},
         UNCHANGED <<notice_handler_list, running, added>>
  PROVE  NoticeInv'
<1>1. TypeOK /\ calls \in Seq(Call) /\ notice_handler_list \in Seq(Handler)
      /\ running \in BOOLEAN
  BY DEF NoticeInv, TypeOK
<1> PICK d : d = [calls EXCEPT ![Len(calls)] = x]
  OBVIOUS
<1>2. /\ d \in Seq(Call) /\ DOMAIN d = DOMAIN calls
      /\ d[Len(calls)] = x
      /\ \A n \in DOMAIN calls : n # Len(calls) => d[n] = calls[n]
  BY <1>1, Changed
<1>3. \A h \in Handler : Cardinality(Places(notice_handler_list, h))
                          <= Cardinality(Places(notice_handler_list, h))
  BY <1>1, PlacesFinite
<1> QED
  BY <1>1, <1>2, <1>3, CalmStep

\* Removing a handler removes one of its places, or it has none.
LEMMA Removes ==
  ASSUME notice_handler_list \in Seq(Handler), NEW h \in Handler, remove_notice_handler(h)
  PROVE  /\ notice_handler_list' \in Seq(Handler)
         /\ \A g : Cardinality(Places(notice_handler_list', g))
                    <= Cardinality(Places(notice_handler_list, g))
         /\ \/ Cardinality(Places(notice_handler_list', h)) + 1
                 <= Cardinality(Places(notice_handler_list, h))
            \/ Places(notice_handler_list', h) = {}
<1> PICK t : t = notice_handler_list'
  OBVIOUS
<1>1. CASE \E i \in DOMAIN notice_handler_list :
             /\ notice_handler_list[i] = h
             /\ t = [k \in 1..Len(notice_handler_list) - 1 |->
                       notice_handler_list[IF k < i THEN k ELSE k + 1]]
  <2>1. PICK i \in DOMAIN notice_handler_list :
             /\ notice_handler_list[i] = h
             /\ t = [k \in 1..Len(notice_handler_list) - 1 |->
                       notice_handler_list[IF k < i THEN k ELSE k + 1]]
    BY <1>1
  <2>2. /\ t \in Seq(Handler)
        /\ \A g : Cardinality(Places(t, g)) <= Cardinality(Places(notice_handler_list, g))
        /\ Cardinality(Places(t, notice_handler_list[i])) + 1
             <= Cardinality(Places(notice_handler_list, notice_handler_list[i]))
    BY <2>1, RemovedPlaces
  <2> QED
    BY <2>1, <2>2
<1>2. CASE /\ \A i \in DOMAIN notice_handler_list : notice_handler_list[i] # h
           /\ t = notice_handler_list
  <2>1. Places(t, h) = {}
    BY <1>2 DEF Places
  <2>2. \A g : Cardinality(Places(t, g)) <= Cardinality(Places(t, g))
    BY <1>2, PlacesFinite
  <2> QED
    BY <1>2, <2>1, <2>2
<1> QED
  BY <1>1, <1>2 DEF remove_notice_handler, IsFirst

\* The list and the stack after the innermost notice's handler has failed.
LEMMA FailsKeeps ==
  ASSUME NoticeInv, HandlerFails
  PROVE  NoticeInv'
<1>1. /\ TypeOK /\ notice_handler_list \in Seq(Handler) /\ running \in BOOLEAN
      /\ added \in [Handler -> Nat] /\ added \in [Handler -> 0..MaxAdds]
      /\ \A n \in DOMAIN calls : Honest(calls[n]) /\ Sane(calls[n])
      /\ Counted(calls, notice_handler_list, added) /\ MayFail(calls, added)
  BY Unfolded DEF TypeOK
<1>2. /\ calls \in Seq(Call) /\ calls # <<>> /\ Len(calls) \in DOMAIN calls
      /\ Top = calls[Len(calls)] /\ Top \in Call /\ Top.at = "handler"
      /\ DOMAIN calls = 1..Len(calls) /\ Len(calls) \in Nat
  BY <1>1, CallsTyped DEF HandlerFails, At
<1> PICK h : h = Top.v
  OBVIOUS
<1>3. h \in Handler
  BY <1>1, <1>2 DEF Sane
<1> PICK k : k = notice_handler_list'
  OBVIOUS
<1>4. /\ k \in Seq(Handler)
      /\ \A g : Cardinality(Places(k, g)) <= Cardinality(Places(notice_handler_list, g))
      /\ \/ Cardinality(Places(k, h)) + 1 <= Cardinality(Places(notice_handler_list, h))
         \/ Places(k, h) = {}
  BY <1>1, <1>3, Removes DEF HandlerFails
<1> PICK x : x = [Top EXCEPT !.at = "failed"]
  OBVIOUS
<1>5. /\ x \in Call /\ Honest(x) /\ x.at = "failed" /\ x.v = h
  <2>1. Honest(Top)
    BY <1>1, <1>2
  <2> QED
    BY <1>2, <2>1 DEF Call, Honest
<1> PICK c : c = [calls EXCEPT ![Len(calls)] = x]
  OBVIOUS
<1>6. /\ c \in Seq(Call) /\ Len(c) = Len(calls) /\ DOMAIN c = DOMAIN calls
      /\ c[Len(calls)] = x
      /\ \A n \in DOMAIN calls : n # Len(calls) => c[n] = calls[n]
  BY <1>2, <1>5, Changed
<1>7. [calls EXCEPT ![Len(calls)].at = "failed"] = c
  BY <1>2
<1> PICK y : y = Begun(TRUE)
  OBVIOUS
<1>8. y \in Call /\ y.at = "loop" /\ y.noticedp = FALSE
  BY DEF Begun, Call
<1> PICK d : d = Append(c, y)
  OBVIOUS
<1>13. /\ d \in Seq(Call) /\ DOMAIN d = 1..Len(c) + 1 /\ d[Len(c) + 1] = y
       /\ \A n \in DOMAIN d : n = Len(c) + 1 \/ (n \in DOMAIN c /\ d[n] = c[n])
  <2>1. c \in Seq(Call) /\ y \in Call /\ d = Append(c, y)
    BY <1>6, <1>8
  <2> QED
    BY ONLY <2>1, Pushed
<1> PICK l : l = Len(calls)
  OBVIOUS
<1>9. /\ d \in Seq(Call) /\ d[l + 1] = y /\ l # l + 1
      /\ \A n \in DOMAIN d : n = l + 1 \/ (n \in DOMAIN calls /\ d[n] = c[n])
  <2>1. l \in Nat /\ l # l + 1
    BY <1>2
  <2>2. Len(c) = l /\ DOMAIN c = DOMAIN calls
    BY <1>6
  <2> QED
    BY ONLY <1>13, <2>1, <2>2
<1>14. l \in DOMAIN calls /\ c[l] = x /\ \A n \in DOMAIN calls : n # l => c[n] = calls[n]
  BY <1>2, <1>6
<1>10. \A n \in DOMAIN d : Honest(d[n]) /\ Sane(d[n])
  BY ONLY <1>1, <1>3, <1>5, <1>8, <1>9, <1>14 DEF Honest, Sane
<1>11. Counted(d, k, added) /\ MayFail(d, added)
  <2>1. FailedIn(calls, d)
    <3>1. c[l].at = "failed" /\ c[l].v = calls[l].v /\ l = Len(calls)
      BY <1>2, <1>5, <1>14
    <3> QED
      BY ONLY <1>8, <1>9, <1>14, <3>1 DEF FailedIn
  <2>2. AllSane(calls)
    BY <1>1 DEF AllSane
  <2>3. calls[Len(calls)].at = "handler" /\ calls[Len(calls)].v = h
    BY <1>2
  <2>4. Released(notice_handler_list, k, h)
    BY <1>4 DEF Released
  <2> QED
    BY ONLY <1>1, <1>2, <1>3, <1>4, <1>9, <2>1, <2>2, <2>3, <2>4, MayFailOnce
<1>12. calls' = d /\ notice_handler_list' = k /\ added' = added /\ running' = running
  BY <1>7 DEF HandlerFails
<1>15. calls' \in Seq(Call) /\ notice_handler_list' \in Seq(Handler)
  BY ONLY <1>4, <1>9, <1>12
<1>16. running' \in BOOLEAN /\ added' \in [Handler -> 0..MaxAdds]
  BY ONLY <1>1, <1>12
<1>17. \A n \in DOMAIN calls' : Honest(calls'[n]) /\ Sane(calls'[n])
  BY ONLY <1>10, <1>12
<1>18. Counted(calls', notice_handler_list', added') /\ MayFail(calls', added')
  BY ONLY <1>11, <1>12
<1> QED
  BY ONLY <1>15, <1>16, <1>17, <1>18, Folded

\* A handler is called.
LEMMA CallKeeps ==
  ASSUME NoticeInv, CallHandler
  PROVE  NoticeInv'
<1>1. /\ TypeOK /\ notice_handler_list \in Seq(Handler) /\ running \in BOOLEAN
      /\ added \in [Handler -> Nat] /\ added \in [Handler -> 0..MaxAdds]
      /\ \A n \in DOMAIN calls : Honest(calls[n]) /\ Sane(calls[n])
      /\ Counted(calls, notice_handler_list, added) /\ MayFail(calls, added)
  BY Unfolded DEF TypeOK
<1>2. /\ calls \in Seq(Call) /\ calls # <<>> /\ Len(calls) \in DOMAIN calls
      /\ Top = calls[Len(calls)] /\ Top \in Call /\ Top.at = "loop"
      /\ Top.i < Len(notice_handler_list)
  BY <1>1, CallsTyped DEF CallHandler, At
<1> PICK k : k = Top.i + 1
  OBVIOUS
<1>3. k \in DOMAIN notice_handler_list /\ k \in Nat
  <2>1. Top.i \in Nat
    BY <1>2 DEF Call
  <2>2. DOMAIN notice_handler_list = 1..Len(notice_handler_list) /\ Len(notice_handler_list) \in Nat
    BY <1>1, LenProperties
  <2> QED
    BY <1>2, <2>1, <2>2
<1> PICK h : h = notice_handler_list[k]
  OBVIOUS
<1>4. h \in Handler /\ Places(notice_handler_list, h) # {}
  <2>1. k \in Places(notice_handler_list, h)
    BY <1>3 DEF Places
  <2> QED
    BY <1>1, <1>3, <2>1, ElementOfSeq, LenProperties
<1> PICK x : x = [Top EXCEPT !.i = k, !.v = h, !.at = "handler"]
  OBVIOUS
<1>5. /\ x \in Call /\ Honest(x) /\ Sane(x) /\ x.at = "handler" /\ x.v = h
  <2>1. Honest(Top)
    BY <1>1, <1>2
  <2> QED
    BY <1>2, <1>3, <1>4, <2>1 DEF Call, Honest, Sane
<1> PICK d : d = [calls EXCEPT ![Len(calls)] = x]
  OBVIOUS
<1>6. /\ d \in Seq(Call) /\ DOMAIN d = DOMAIN calls
      /\ d[Len(calls)] = x
      /\ \A n \in DOMAIN calls : n # Len(calls) => d[n] = calls[n]
  BY <1>2, <1>5, Changed
<1>7. calls' = d /\ UNCHANGED <<notice_handler_list, running, added>>
  BY <1>2 DEF CallHandler
<1>8. \A n \in DOMAIN d : Honest(d[n]) /\ Sane(d[n])
  BY <1>1, <1>5, <1>6
<1>9. Counted(d, notice_handler_list, added) /\ MayFail(d, added)
  <2> PICK n \in DOMAIN calls : n = Len(calls)
    BY <1>2
  <2>1. d[n].at = "handler" /\ d[n].v \in Handler /\ Places(notice_handler_list, d[n].v) # {}
    BY <1>4, <1>5, <1>6
  <2>2. \A m \in DOMAIN calls : m # n => d[m] = calls[m]
    BY <1>6
  <2>3. AllSane(calls)
    BY <1>1 DEF AllSane
  <2> QED
    BY <1>1, <1>2, <1>6, <2>1, <2>2, <2>3, MayBeCalled
<1> QED
  BY <1>1, <1>6, <1>7, <1>8, <1>9, Folded

\* A handler is added: it has a place more, and has been added once more.
LEMMA AddKeeps ==
  ASSUME NoticeInv, NEW g \in Handler, add_notice_handler(g)
  PROVE  NoticeInv'
<1>1. /\ TypeOK /\ notice_handler_list \in Seq(Handler) /\ running \in BOOLEAN
      /\ added \in [Handler -> Nat] /\ added \in [Handler -> 0..MaxAdds]
      /\ \A n \in DOMAIN calls : Honest(calls[n]) /\ Sane(calls[n])
      /\ Counted(calls, notice_handler_list, added) /\ MayFail(calls, added)
      /\ calls \in Seq(Call)
  BY Unfolded DEF TypeOK
<1> PICK k : k = <<g>> \o notice_handler_list
  OBVIOUS
<1> PICK b : b = [added EXCEPT ![g] = @ + 1]
  OBVIOUS
<1>2. calls' = calls /\ notice_handler_list' = k /\ added' = b /\ running' = running
  BY DEF add_notice_handler
<1>3. /\ k \in Seq(Handler)
      /\ \A h : Cardinality(Places(k, h)) <=
                IF h = g THEN Cardinality(Places(notice_handler_list, h)) + 1
                ELSE Cardinality(Places(notice_handler_list, h))
  BY <1>1, AddedPlaces
<1>4. b \in [Handler -> 0..MaxAdds] /\ b \in [Handler -> Nat]
  BY <1>1, BoundAssumption DEF add_notice_handler
<1>5. Afforded(notice_handler_list, k, added, b)
  <2> SUFFICES ASSUME NEW h \in Handler
               PROVE  /\ added[h] <= b[h]
                      /\ Cardinality(Places(k, h)) + added[h]
                           <= Cardinality(Places(notice_handler_list, h)) + b[h]
    BY DEF Afforded
  <2> DEFINE p == Cardinality(Places(k, h))
             q == Cardinality(Places(notice_handler_list, h))
  <2>1. p \in Nat /\ q \in Nat /\ added[h] \in Nat
    BY <1>1, <1>3, PlacesFinite
  <2>2. p <= (IF h = g THEN q + 1 ELSE q) /\ b[h] = (IF h = g THEN added[h] + 1 ELSE added[h])
    BY <1>1, <1>3
  <2> HIDE DEF p, q
  <2>3. added[h] <= b[h] /\ p + added[h] <= q + b[h]
    BY <2>1, <2>2
  <2> QED
    BY <2>3 DEF p, q
<1>6. Quieter(calls, calls)
  BY <1>1 DEF Quieter, Sane
<1>7. Counted(calls, k, b) /\ MayFail(calls, b)
  BY ONLY <1>1, <1>3, <1>4, <1>5, <1>6, Calmer
<1> QED
  BY <1>1, <1>2, <1>3, <1>4, <1>7, Folded

\* A handler raises something that is no string: notices end, none begins.
LEMMA FailsOddlyKeeps ==
  ASSUME NoticeInv, HandlerFailsOddly
  PROVE  NoticeInv'
<1>1. /\ TypeOK /\ notice_handler_list \in Seq(Handler) /\ running \in BOOLEAN
      /\ calls \in Seq(Call) /\ UNCHANGED added
  BY DEF NoticeInv, TypeOK, HandlerFailsOddly
<1>2. Top.v \in Handler
  <2>1. /\ calls # <<>> /\ Len(calls) \in DOMAIN calls /\ Top = calls[Len(calls)]
        /\ Top.at = "handler"
    BY <1>1, CallsTyped DEF HandlerFailsOddly, At
  <2> QED
    BY <2>1 DEF NoticeInv, Known
<1>3. /\ notice_handler_list' \in Seq(Handler)
      /\ \A h \in Handler : Cardinality(Places(notice_handler_list', h))
                             <= Cardinality(Places(notice_handler_list, h))
  <2>1. remove_notice_handler(Top.v)
    BY DEF HandlerFailsOddly
  <2> QED
    BY <1>1, <1>2, <2>1, Removes
<1>4. CASE \E n \in 0..Len(calls) - 1 : calls' = SubSeq(calls, 1, n) /\ UNCHANGED running
  <2>1. PICK n \in 0..Len(calls) - 1 : calls' = SubSeq(calls, 1, n) /\ UNCHANGED running
    BY <1>4
  <2>2. n \in 0..Len(calls)
    BY <1>1, CallsTyped
  <2> PICK d : d = SubSeq(calls, 1, n)
    OBVIOUS
  <2>3. d \in Seq(Call) /\ \A k \in DOMAIN d : k \in DOMAIN calls /\ d[k] = calls[k]
    BY <1>1, <2>2, Cut
  <2> QED
    BY <1>1, <1>3, <2>1, <2>3, CalmStep
<1>5. CASE calls' = <<>> /\ running' = FALSE
  <2>1. calls' \in Seq(Call) /\ DOMAIN calls' = {}
    BY <1>5
  <2> QED
    BY <1>1, <1>3, <1>5, <2>1, CalmStep
<1> QED
  BY <1>4, <1>5 DEF HandlerFailsOddly

\* A script removes a handler.
LEMMA RemoveKeeps ==
  ASSUME NoticeInv, NEW g \in Handler, ScriptRemoves(g)
  PROVE  NoticeInv'
<1>1. /\ TypeOK /\ notice_handler_list \in Seq(Handler) /\ running \in BOOLEAN
      /\ calls \in Seq(Call) /\ UNCHANGED <<calls, running, added>>
      /\ remove_notice_handler(g)
  BY DEF NoticeInv, TypeOK, ScriptRemoves
<1>2. /\ notice_handler_list' \in Seq(Handler)
      /\ \A h \in Handler : Cardinality(Places(notice_handler_list', h))
                             <= Cardinality(Places(notice_handler_list, h))
  BY <1>1, Removes
<1> QED
  BY <1>1, <1>2, CalmStep

\* A notice begins.
LEMMA NoticeKeeps ==
  ASSUME NoticeInv, Crj_Notice
  PROVE  NoticeInv'
<1>1. /\ TypeOK /\ notice_handler_list \in Seq(Handler) /\ running \in BOOLEAN
      /\ calls \in Seq(Call) /\ UNCHANGED <<notice_handler_list, running, added>>
  BY DEF NoticeInv, TypeOK, Crj_Notice
<1> PICK y : y = Begun(FALSE)
  OBVIOUS
<1>2. y \in Call /\ y.at = "loop" /\ y.noticedp = FALSE
  BY DEF Begun, Call
<1> PICK d : d = Append(calls, y)
  OBVIOUS
<1>3. /\ d \in Seq(Call) /\ d[Len(calls) + 1] = y
      /\ \A n \in DOMAIN d : n = Len(calls) + 1 \/ (n \in DOMAIN calls /\ d[n] = calls[n])
  <2>1. calls \in Seq(Call) /\ y \in Call /\ d = Append(calls, y)
    BY <1>1, <1>2
  <2> QED
    BY ONLY <2>1, Pushed
<1>4. \A h \in Handler : Cardinality(Places(notice_handler_list, h))
                          <= Cardinality(Places(notice_handler_list, h))
  BY <1>1, PlacesFinite
<1>5. \A n \in DOMAIN d : \/ n \in DOMAIN calls /\ d[n] = calls[n]
                          \/ Honest(d[n]) /\ d[n].at \notin {"handler", "failed"}
  BY <1>2, <1>3 DEF Honest
<1>6. calls' = d
  BY DEF Crj_Notice
<1> QED
  BY <1>1, <1>3, <1>4, <1>5, <1>6, CalmStep

\* A notice ends; the one whose handler's failure it told of ends next.
LEMMA EndKeeps ==
  ASSUME NoticeInv, EndNotice
  PROVE  NoticeInv'
<1>1. /\ TypeOK /\ notice_handler_list \in Seq(Handler) /\ running \in BOOLEAN
      /\ calls \in Seq(Call) /\ UNCHANGED <<notice_handler_list, running, added>>
  BY DEF NoticeInv, TypeOK, EndNotice
<1>2. /\ calls # <<>> /\ Len(calls) \in Nat /\ Len(calls) # 0 /\ Len(calls) \in DOMAIN calls
      /\ Top = calls[Len(calls)] /\ Top \in Call /\ Top.at = "end"
  BY <1>1, CallsTyped DEF EndNotice, At
<1>3. Top.told = TRUE
  <2>1. Top.told
    BY <1>2 DEF NoticeInv, Told
  <2>2. Top.told \in BOOLEAN
    BY <1>2 DEF Call
  <2> QED
    BY <2>1, <2>2
<1>4. Len(calls) - 1 \in 0..Len(calls)
  BY <1>2
<1> PICK c : c = Pop
  OBVIOUS
<1>5. c \in Seq(Call) /\ \A n \in DOMAIN c : n \in DOMAIN calls /\ c[n] = calls[n]
  <2> PICK n : n = Len(calls) - 1
    OBVIOUS
  <2>1. c = SubSeq(calls, 1, n) /\ n \in 0..Len(calls)
    BY <1>4 DEF Pop
  <2> QED
    BY ONLY <1>1, <2>1, Cut
<1>6. \A h \in Handler : Cardinality(Places(notice_handler_list, h))
                          <= Cardinality(Places(notice_handler_list, h))
  BY <1>1, PlacesFinite
<1>7. CASE calls' = c
  BY <1>1, <1>5, <1>6, <1>7, CalmStep
<1>8. CASE c # <<>> /\ calls' = [c EXCEPT ![Len(c)].at = "end", ![Len(c)].told = @ \/ Top.told]
  <2> PICK l : l = Len(c)
    OBVIOUS
  <2>1. l \in DOMAIN c /\ c[l] \in Call
    BY <1>5, <1>8, EmptySeq, LenProperties, ElementOfSeq
  <2> PICK x : x = [c[l] EXCEPT !.at = "end", !.told = TRUE]
    OBVIOUS
  <2>2. x \in Call /\ Honest(x) /\ x.at = "end"
    BY <2>1 DEF Call, Honest
  <2> PICK d : d = [c EXCEPT ![l] = x]
    OBVIOUS
  <2>3. calls' = d
    <3>1. (c[l].told \/ Top.told) = TRUE
      BY <1>3
    <3> QED
      BY <1>8, <2>1, <3>1
  <2>4. /\ d \in Seq(Call) /\ DOMAIN d = DOMAIN c /\ d[l] = x
        /\ \A n \in DOMAIN c : n # l => d[n] = c[n]
    <3>1. c \in Seq(Call) /\ c # <<>> /\ x \in Call /\ d = [c EXCEPT ![Len(c)] = x] /\ l = Len(c)
      BY <1>5, <1>8, <2>2
    <3> QED
      BY ONLY <3>1, Changed
  <2>5. \A n \in DOMAIN d : \/ n \in DOMAIN calls /\ d[n] = calls[n]
                            \/ Honest(d[n]) /\ d[n].at \notin {"handler", "failed"}
    BY <1>5, <2>2, <2>4
  <2> QED
    BY <1>1, <1>6, <2>3, <2>4, <2>5, CalmStep
<1>9. CASE c = <<>> /\ calls' = [c EXCEPT ![Len(c)].at = "end", ![Len(c)].told = @ \/ Top.told]
  <2>1. calls' \in Seq(Call) /\ DOMAIN calls' = {}
    <3>1. DOMAIN c = {}
      BY <1>9
    <3> PICK t : t = calls'
      OBVIOUS
    <3>2. t = [n \in DOMAIN c |-> t[n]] /\ DOMAIN t = {}
      BY <1>9, <3>1
    <3>3. t \in [1..0 -> Call]
      BY <3>1, <3>2
    <3>4. t \in Seq(Call)
      BY <3>3, SeqDef
    <3> QED
      BY <3>2, <3>4
  <2> QED
    BY <1>1, <1>6, <2>1, CalmStep
<1> QED
  BY <1>7, <1>8, <1>9 DEF EndNotice

\* The innermost notice's handler returns, or the end of the list is reached, or
\* the message box is closed.
LEMMA GoesOnKeeps ==
  ASSUME NoticeInv, HandlerReturns \/ DefaultHandler \/ DismissBox
  PROVE  NoticeInv'
<1>1. /\ TypeOK /\ calls # <<>> /\ UNCHANGED <<notice_handler_list, running, added>>
  BY DEF NoticeInv, HandlerReturns, DefaultHandler, DismissBox, At
<1> PICK l : l = Len(calls)
  OBVIOUS
<1>2. Top \in Call /\ Top = calls[l] /\ Honest(Top) /\ l \in DOMAIN calls
      /\ Top.noticedp \in BOOLEAN /\ Top.told \in BOOLEAN
  BY <1>1, CallsTyped DEF NoticeInv, Told, Honest, Call
<1>3. CASE HandlerReturns
  <2>1. PICK displays \in BOOLEAN, keeps \in BOOLEAN :
          calls' = [calls EXCEPT ![l].at = "loop",
                                 ![l].noticedp = displays \/ (@ /\ keeps),
                                 ![l].told = @ \/ displays]
    BY <1>3 DEF HandlerReturns
  <2> PICK x : x = [Top EXCEPT !.at = "loop",
                               !.noticedp = displays \/ (Top.noticedp /\ keeps),
                               !.told = Top.told \/ displays]
    OBVIOUS
  <2>2. x \in Call /\ x.at = "loop"
    BY <1>2 DEF Call
  <2>3. Honest(x)
    <3>1. (x.noticedp <=> displays \/ (Top.noticedp /\ keeps)) /\ (x.told <=> Top.told \/ displays)
      BY <1>2 DEF Call
    <3> QED
      BY <1>2, <2>2, <3>1 DEF Honest
  <2>4. calls' = [calls EXCEPT ![Len(calls)] = x]
    BY <1>2, <2>1
  <2> QED
    BY <1>1, <2>2, <2>3, <2>4, TopGoesOn
<1>4. CASE DefaultHandler
  <2> PICK x : x = [Top EXCEPT !.at = IF Top.noticedp THEN "end" ELSE "box",
                               !.told = Top.told \/ ~Top.noticedp]
    OBVIOUS
  <2>2. x \in Call /\ x.at \in {"end", "box"}
    BY <1>2 DEF Call
  <2>3. Honest(x)
    <3>1. (x.noticedp <=> Top.noticedp) /\ (x.told <=> Top.told \/ ~Top.noticedp)
      BY <1>2 DEF Call
    <3> QED
      BY <1>2, <2>2, <3>1 DEF Honest
  <2>4. calls' = [calls EXCEPT ![Len(calls)] = x]
    BY <1>2, <1>4 DEF DefaultHandler
  <2> QED
    BY <1>1, <2>2, <2>3, <2>4, TopGoesOn
<1>5. CASE DismissBox
  <2> PICK x : x = [Top EXCEPT !.at = "end"]
    OBVIOUS
  <2>2. x \in Call /\ x.at = "end" /\ x.told = Top.told /\ Top.at = "box"
    BY <1>2, <1>5 DEF Call, DismissBox, At
  <2>3. Honest(x)
    BY <1>2, <2>2 DEF Honest
  <2>4. calls' = [calls EXCEPT ![Len(calls)] = x]
    BY <1>2, <1>5 DEF DismissBox
  <2> QED
    BY <1>1, <2>2, <2>3, <2>4, TopGoesOn
<1> QED
  BY <1>3, <1>4, <1>5

\* Every step keeps the invariant.
LEMMA NoticeInvNext ==
  ASSUME NoticeInv, [Next]_vars
  PROVE  NoticeInv'
<1>1. CASE UNCHANGED vars
  BY <1>1 DEF vars, NoticeInv, TypeOK, Known, Told, RecursionEnds, FailuresOf, PlacesOf,
              MayFail, Failures
<1>2. ASSUME NEW handler \in Handler, add_notice_handler(handler) \/ ScriptRemoves(handler)
      PROVE  NoticeInv'
  BY <1>2, AddKeeps, RemoveKeeps
<1> QED
  BY <1>1, <1>2, NoticeKeeps, CallKeeps, GoesOnKeeps, FailsKeeps, FailsOddlyKeeps, EndKeeps
     DEF Next, Ended

-----------------------------------------------------------------------------
(* The theorems                                                            *)

\* The invariant of the notice service.
THEOREM NoticeInvariance == Spec => []NoticeInv
<1>1. Init => NoticeInv
  <2> SUFFICES ASSUME Init PROVE NoticeInv
    OBVIOUS
  <2>1. /\ calls = <<>> /\ notice_handler_list = <<>> /\ running = TRUE
        /\ added = [h \in Handler |-> 0] /\ DOMAIN calls = {} /\ DOMAIN notice_handler_list = {}
    BY DEF Init
  <2>2. TypeOK
    BY <2>1, BoundAssumption DEF TypeOK
  <2>3. Known /\ Told /\ MayFail(calls, added)
    BY <2>1 DEF Known, Told, MayFail
  <2>4. RecursionEnds
    <3> SUFFICES ASSUME NEW h \in Handler
                 PROVE  Cardinality(FailuresOf(h)) + Cardinality(PlacesOf(h)) <= added[h]
      BY DEF RecursionEnds
    <3>1. FailuresOf(h) = {} /\ PlacesOf(h) = {}
      BY <2>1 DEF FailuresOf, PlacesOf
    <3>2. Cardinality(FailuresOf(h)) = 0 /\ Cardinality(PlacesOf(h)) = 0
      BY <3>1, FS_EmptySet
    <3> QED
      BY <2>1, <3>2
  <2> QED
    BY <2>2, <2>3, <2>4 DEF NoticeInv
<1>2. NoticeInv /\ [Next]_vars => NoticeInv'
  BY NoticeInvNext
<1> QED
  BY <1>1, <1>2, PTL DEF Spec

\* No handler has more failures under way than it has been added times, however
\* notices are nested and the list changes: the recursion that its failures are
\* notices, too, has an end.
THEOREM FailuresAreBounded == Spec => []RecursionEnds
<1>1. NoticeInv => RecursionEnds
  BY DEF NoticeInv
<1> QED
  BY <1>1, NoticeInvariance, PTL

\* Every notice that ends has reached the user, whatever handlers say, whoever
\* fails and whatever is added and removed meanwhile.
THEOREM NoNoticeIsLost == Spec => NoticeReachesUser
<1>1. NoticeInv /\ [Next]_vars => [EndNotice => Top.told]_vars
  <2> SUFFICES ASSUME NoticeInv, EndNotice PROVE Top.told
    OBVIOUS
  <2>1. Len(calls) \in DOMAIN calls /\ Top = calls[Len(calls)] /\ Top.at = "end"
    BY CallsTyped DEF NoticeInv, EndNotice, At
  <2> QED
    BY <2>1 DEF NoticeInv, Told
<1> QED
  BY <1>1, NoticeInvariance, PTL DEF Spec, NoticeReachesUser

=============================================================================
