--------------------------- MODULE WindowsProofs ---------------------------
(***************************************************************************)
(* Proofs that ui.window keeps its properties, that a window which was     *)
(* maximized and restored is where it was, and that moves arrive: for any  *)
(* windows, monitors, moves and bounds.                                    *)
(***************************************************************************)
EXTENDS Windows, SequenceTheorems, WellFoundedInduction, TLAPS

-----------------------------------------------------------------------------
(* The least and the greatest of finitely many numbers.                    *)

\* A set of natural numbers has a least one.
LEMMA Least ==
  ASSUME NEW S \in SUBSET Nat, S # {}
  PROVE  \E x \in S : \A y \in S : x <= y
<1> DEFINE R == {ss \in Nat \X Nat : ss[1] < ss[2]}
<1>1. IsWellFoundedOn(R, Nat)
  <2>1. R = OpToRel(<, Nat)
    BY Zenon DEF OpToRel
  <2> QED
    BY Zenon, <2>1, NatLessThanWellFounded
<1>2. PICK m \in S : \A y \in S : ~ (<<y, m>> \in R)
  BY <1>1, WFMin, Zenon
<1>3. \A y \in S : ~ (y < m)
  BY <1>2
<1> QED
  BY <1>3

\* So have finitely many integers.
LEMMA LeastOf ==
  ASSUME NEW n \in Nat, n # 0, NEW f \in [1..n -> Int]
  PROVE  \E i \in 1..n : \A j \in 1..n : f[i] <= f[j]
<1> DEFINE Has(k) == \E i \in 1..k : \A j \in 1..k : f[i] <= f[j]
           T == {k \in 1..n : ~Has(k)}
<1>0. n \in 1..n
  OBVIOUS
<1> SUFFICES ASSUME T # {} PROVE FALSE
  <2>1. n \notin T => Has(n)
    BY <1>0
  <2> QED
    BY <2>1
<1>1. T \in SUBSET Nat
  OBVIOUS
<1>2. PICK k \in T : \A y \in T : k <= y
  BY <1>1, Least
<1>3. k \in 1..n /\ ~Has(k)
  BY <1>2
<1>4. CASE k = 1
  BY <1>3, <1>4
<1>5. CASE k # 1
  <2>0. k - 1 \in 1..n /\ ~(k <= k - 1)
    BY <1>3, <1>5
  <2>1. k - 1 \in 1..n /\ k - 1 \notin T
    BY <1>2, <2>0
  <2>2. PICK i \in 1..(k - 1) : \A j \in 1..(k - 1) : f[i] <= f[j]
    BY <2>1
  <2>3. CASE f[i] <= f[k]
    <3>1. \A j \in 1..k : f[i] <= f[j]
      BY <1>3, <2>2, <2>3
    <3>2. i \in 1..k
      BY <1>3, <2>2
    <3> QED
      BY <1>3, <3>1, <3>2
  <2>4. CASE ~(f[i] <= f[k])
    <3>1. k \in 1..n /\ k \in 1..k
      BY <1>3
    <3>2. f[k] \in Int /\ \A j \in 1..(k - 1) : f[j] \in Int
      BY <2>0
    <3>3. i \in 1..(k - 1) /\ f[k] < f[i]
      BY <2>2, <2>4, <3>2
    <3>4. ASSUME NEW j \in 1..(k - 1) PROVE f[k] <= f[j]
      <4>1. f[i] <= f[j] /\ f[i] \in Int /\ f[j] \in Int /\ f[k] \in Int
        BY <2>2, <3>2
      <4> QED
        BY ONLY <3>3, <4>1
    <3>5. ASSUME NEW j \in 1..k PROVE f[k] <= f[j]
      <4>1. CASE j = k
        BY <3>2, <4>1
      <4>2. CASE j # k
        <5>1. j \in 1..(k - 1)
          BY <3>1, <4>2
        <5> QED
          BY <3>4, <5>1
      <4> QED
        BY <4>1, <4>2
    <3> QED
      BY <1>3, <3>1, <3>5
  <2> QED
    BY <2>3, <2>4
<1> QED
  BY <1>4, <1>5

\* And finitely many integers have a greatest one.
LEMMA GreatestOf ==
  ASSUME NEW n \in Nat, n # 0, NEW f \in [1..n -> Int]
  PROVE  \E i \in 1..n : \A j \in 1..n : f[i] >= f[j]
<1> DEFINE g == [i \in 1..n |-> 0 - f[i]]
<1>1. g \in [1..n -> Int]
  OBVIOUS
<1>2. PICK i \in 1..n : \A j \in 1..n : g[i] <= g[j]
  BY <1>1, LeastOf
<1>3. \A j \in 1..n : f[i] >= f[j]
  BY <1>2
<1> QED
  BY <1>3

\* What Min and Max yield of a set that has a least or a greatest element.
LEMMA MinIs ==
  ASSUME NEW S \in SUBSET Int, NEW x \in S, \A y \in S : x <= y
  PROVE  Min(S) = x
<1>1. Min(S) \in S /\ \A y \in S : Min(S) <= y
  BY DEF Min
<1>2. Min(S) <= x /\ x <= Min(S) /\ Min(S) \in Int
  BY <1>1
<1> QED
  BY <1>2

\* The greatest element of a set of integers that has one.
LEMMA MaxIs ==
  ASSUME NEW S \in SUBSET Int, NEW x \in S, \A y \in S : x >= y
  PROVE  Max(S) = x
<1>1. Max(S) \in S /\ \A y \in S : Max(S) >= y
  BY DEF Max
<1>2. Max(S) <= x /\ x <= Max(S) /\ Max(S) \in Int
  BY <1>1
<1> QED
  BY <1>2

-----------------------------------------------------------------------------
(* The list of properties.                                                 *)

Value == {nil, unknown} \cup BOOLEAN \cup Rectangle
Entry == [hwnd : Hwnd, properties : [Key -> Value]]

\* Found and Properties of a list t, when the windows al exist.
FoundIn(t, al, h) == Min({Len(t) + 1} \cup {i \in DOMAIN t : t[i].hwnd = h /\ h \in al})
Lookup(t, al, h) ==
  IF FoundIn(t, al, h) \in DOMAIN t THEN t[FoundIn(t, al, h)].properties ELSE Nothing

\* The search ends at the first entry of the window, if there is one.
LEMMA FoundFirst ==
  ASSUME NEW t \in Seq(Entry), NEW al, NEW h
  PROVE  /\ FoundIn(t, al, h) \in 1..Len(t) + 1
         /\ FoundIn(t, al, h) \in 1..Len(t) => h \in al /\ t[FoundIn(t, al, h)].hwnd = h
         /\ \A j \in 1..Len(t) : j < FoundIn(t, al, h) => ~(t[j].hwnd = h /\ h \in al)
<1> DEFINE l == Len(t)
           S == {l + 1} \cup {i \in DOMAIN t : t[i].hwnd = h /\ h \in al}
<1>1. l \in Nat /\ DOMAIN t = 1..l
  BY LenProperties
<1>2. S \in SUBSET Nat /\ S # {} /\ S \in SUBSET Int
  BY <1>1
<1>3. PICK x \in S : \A y \in S : x <= y
  BY <1>2, Least
<1>4. FoundIn(t, al, h) = x
  <2>1. Min(S) = x
    BY <1>2, <1>3, MinIs
  <2> QED
    BY <2>1 DEF FoundIn
<1>5. x <= l + 1 /\ x \in 1..l + 1
  BY <1>1, <1>2, <1>3
<1>6. x \in 1..l => h \in al /\ t[x].hwnd = h
  BY <1>1, <1>3
<1>7. \A j \in 1..l : j < x => ~(t[j].hwnd = h /\ h \in al)
  BY <1>1, <1>3, <1>5
<1> QED
  BY <1>1, <1>4, <1>5, <1>6, <1>7

\* What the search finds of a window that exists and has entries,
LEMMA LookupAt ==
  ASSUME NEW t \in Seq(Entry), NEW al, NEW h \in al, NEW i \in 1..Len(t), t[i].hwnd = h,
         \A j \in 1..Len(t) : j < i => t[j].hwnd # h
  PROVE  FoundIn(t, al, h) = i /\ Lookup(t, al, h) = t[i].properties
<1>1. Len(t) \in Nat /\ DOMAIN t = 1..Len(t)
  BY LenProperties
<1> PICK f : f = FoundIn(t, al, h)
  OBVIOUS
<1>2. /\ f \in 1..Len(t) + 1
      /\ f \in 1..Len(t) => t[f].hwnd = h
      /\ \A j \in 1..Len(t) : j < f => t[j].hwnd # h
  BY FoundFirst
<1>3. ~(i < f) /\ ~(f < i)
  BY <1>1, <1>2
<1>4. f = i
  BY <1>1, <1>2, <1>3
<1> QED
  BY <1>1, <1>4 DEF Lookup

\* and of one that has none.
LEMMA LookupNone ==
  ASSUME NEW t \in Seq(Entry), NEW al, NEW h,
         \A j \in 1..Len(t) : t[j].hwnd # h
  PROVE  FoundIn(t, al, h) = Len(t) + 1 /\ Lookup(t, al, h) = Nothing
<1>1. Len(t) \in Nat /\ DOMAIN t = 1..Len(t)
  BY LenProperties
<1> PICK f : f = FoundIn(t, al, h)
  OBVIOUS
<1>2. f \in 1..Len(t) + 1 /\ f \notin 1..Len(t)
  BY FoundFirst
<1>3. f = Len(t) + 1 /\ f \notin DOMAIN t
  BY <1>1, <1>2
<1> QED
  BY <1>3 DEF Lookup

\* Nothing is found of a window that is gone.
LEMMA LookupDead ==
  ASSUME NEW t \in Seq(Entry), NEW al, NEW h, h \notin al
  PROVE  FoundIn(t, al, h) = Len(t) + 1 /\ Lookup(t, al, h) = Nothing
<1>1. Len(t) \in Nat /\ DOMAIN t = 1..Len(t)
  BY LenProperties
<1> PICK f : f = FoundIn(t, al, h)
  OBVIOUS
<1>2. f \in 1..Len(t) + 1 /\ f \notin 1..Len(t)
  BY FoundFirst
<1>3. f = Len(t) + 1 /\ f \notin DOMAIN t
  BY <1>1, <1>2
<1> QED
  BY <1>3 DEF Lookup

\* A window has a first entry or none.
LEMMA FirstOrNone ==
  ASSUME NEW t \in Seq(Entry), NEW h
  PROVE  \/ \A j \in 1..Len(t) : t[j].hwnd # h
         \/ \E i \in 1..Len(t) : t[i].hwnd = h /\ \A j \in 1..Len(t) : j < i => t[j].hwnd # h
<1> SUFFICES ASSUME \E j \in 1..Len(t) : t[j].hwnd = h
             PROVE  \E i \in 1..Len(t) : t[i].hwnd = h /\ \A j \in 1..Len(t) : j < i => t[j].hwnd # h
  OBVIOUS
<1> DEFINE S == {j \in 1..Len(t) : t[j].hwnd = h}
<1>1. S \in SUBSET Nat /\ S # {} /\ Len(t) \in Nat
  BY LenProperties
<1>2. PICK i \in S : \A j \in S : i <= j
  BY <1>1, Least
<1>3. \A j \in 1..Len(t) : j < i => j \notin S
  BY <1>1, <1>2
<1> QED
  BY <1>2, <1>3

\* A list t without some entries of windows that are gone.
Selects(t, al, s) ==
  \E n \in Nat : \E from \in [1..n -> DOMAIN t] :
    /\ \A j, k \in 1..n : j < k => from[j] < from[k]
    /\ \A i \in DOMAIN t : t[i].hwnd \in al => \E k \in 1..n : from[k] = i
    /\ s = [k \in 1..n |-> t[from[k]]]

\* Of the windows that exist the same is found in it.
LEMMA SelectionKeeps ==
  ASSUME NEW t \in Seq(Entry), NEW al, NEW s, Selects(t, al, s)
  PROVE  /\ s \in Seq(Entry)
         /\ \A k \in 1..Len(s) : \E i \in 1..Len(t) : s[k] = t[i]
         /\ \A h \in al : Lookup(s, al, h) = Lookup(t, al, h)
<1>1. Len(t) \in Nat /\ DOMAIN t = 1..Len(t) /\ \A i \in 1..Len(t) : t[i] \in Entry
  BY LenProperties, ElementOfSeq
<1>2. PICK n \in Nat : \E from \in [1..n -> DOMAIN t] :
        /\ \A j, k \in 1..n : j < k => from[j] < from[k]
        /\ \A i \in DOMAIN t : t[i].hwnd \in al => \E k \in 1..n : from[k] = i
        /\ s = [k \in 1..n |-> t[from[k]]]
  BY DEF Selects
<1>3. PICK from \in [1..n -> DOMAIN t] :
        /\ \A j, k \in 1..n : j < k => from[j] < from[k]
        /\ \A i \in DOMAIN t : t[i].hwnd \in al => \E k \in 1..n : from[k] = i
        /\ s = [k \in 1..n |-> t[from[k]]]
  BY <1>2
<1>4. s \in [1..n -> Entry] /\ \A k \in 1..n : from[k] \in 1..Len(t) /\ s[k] = t[from[k]]
  BY <1>1, <1>3
<1>5. s \in Seq(Entry) /\ Len(s) = n
  BY <1>4, SeqDef, LenProperties
<1>6. ASSUME NEW h \in al PROVE Lookup(s, al, h) = Lookup(t, al, h)
  <2>1. CASE \A j \in 1..Len(t) : t[j].hwnd # h
    <3>1. \A k \in 1..Len(s) : s[k].hwnd # h
      BY <1>4, <1>5, <2>1
    <3> QED
      BY <1>5, <2>1, <3>1, LookupNone
  <2>2. CASE \E j \in 1..Len(t) : t[j].hwnd = h
    <3>1. PICK i \in 1..Len(t) : t[i].hwnd = h /\ \A j \in 1..Len(t) : j < i => t[j].hwnd # h
      BY <2>2, FirstOrNone
    <3>2. PICK k \in 1..n : from[k] = i
      BY <1>1, <1>3, <3>1
    <3>3. s[k] = t[i] /\ s[k].hwnd = h
      BY <1>4, <3>1, <3>2
    <3>4. ASSUME NEW j \in 1..Len(s), j < k PROVE s[j].hwnd # h
      <4>1. from[j] < i /\ from[j] \in 1..Len(t)
        BY <1>3, <1>4, <1>5, <3>2, <3>4
      <4> QED
        BY <1>4, <1>5, <3>1, <4>1
    <3>5. Lookup(s, al, h) = s[k].properties
      <4>1. k \in 1..Len(s) /\ s \in Seq(Entry) /\ h \in al
        BY <1>5, <1>6
      <4>2. s[k].hwnd = h /\ \A j \in 1..Len(s) : j < k => s[j].hwnd # h
        BY <3>3, <3>4
      <4> QED
        BY ONLY <4>1, <4>2, LookupAt
    <3>6. Lookup(t, al, h) = t[i].properties
      BY <3>1, LookupAt
    <3> QED
      BY <3>3, <3>5, <3>6
  <2> QED
    BY <2>1, <2>2
<1> QED
  BY <1>4, <1>5, <1>6

\* The list with new properties of a window: only those of the window differ.
LEMMA WithKeeps ==
  ASSUME hwnd_table \in Seq(Entry), NEW hwnd \in Hwnd, hwnd \in alive,
         NEW p \in [Key -> Value], NEW t, t = With(hwnd, p)
  PROVE  /\ t \in Seq(Entry)
         /\ \A k \in 1..Len(t) : \/ t[k] = [hwnd |-> hwnd, properties |-> p]
                                 \/ \E i \in 1..Len(hwnd_table) : t[k] = hwnd_table[i]
         /\ Lookup(t, alive, hwnd) = p
         /\ \A h \in alive : h # hwnd => Lookup(t, alive, h) = Lookup(hwnd_table, alive, h)
<1> PICK e, f, l : /\ e = [hwnd |-> hwnd, properties |-> p]
                   /\ f = FoundIn(hwnd_table, alive, hwnd) /\ l = Len(hwnd_table)
  OBVIOUS
<1>1. /\ l \in Nat /\ DOMAIN hwnd_table = 1..l /\ e \in Entry
      /\ e.hwnd = hwnd /\ e.properties = p
  BY LenProperties DEF Entry
<1>2. /\ f \in 1..l + 1
      /\ f \in 1..l => hwnd_table[f].hwnd = hwnd
      /\ \A j \in 1..l : j < f => hwnd_table[j].hwnd # hwnd
  BY FoundFirst
<1>3. Found(hwnd) = f
  BY DEF Found, FoundIn
<1>4. CASE f \in 1..l
  <2>1. t = [hwnd_table EXCEPT ![f] = e]
    BY <1>1, <1>3, <1>4 DEF With, Knows
  <2>2. /\ t \in Seq(Entry) /\ Len(t) = l /\ t[f] = e
        /\ \A k \in 1..l : k # f => t[k] = hwnd_table[k]
    BY <1>1, <1>4, <2>1, ExceptSeq
  <2>3. \A k \in 1..l : t[k].hwnd = hwnd_table[k].hwnd
    BY <1>1, <1>2, <1>4, <2>2
  <2>4. Lookup(t, alive, hwnd) = p
    <3>1. f \in 1..Len(t) /\ t[f].hwnd = hwnd /\ t[f].properties = p
      BY <1>1, <1>4, <2>2
    <3>2. \A j \in 1..Len(t) : j < f => t[j].hwnd # hwnd
      BY <1>2, <2>2, <2>3
    <3>3. t \in Seq(Entry) /\ hwnd \in alive
      BY <2>2
    <3> QED
      BY ONLY <3>1, <3>2, <3>3, LookupAt
  <2>5. ASSUME NEW h \in alive, h # hwnd
        PROVE  Lookup(t, alive, h) = Lookup(hwnd_table, alive, h)
    <3>1. CASE \A j \in 1..l : hwnd_table[j].hwnd # h
      <4>1. \A j \in 1..Len(t) : t[j].hwnd # h
        BY <2>2, <2>3, <3>1
      <4> QED
        BY <2>2, <3>1, <4>1, LookupNone
    <3>2. CASE \E i \in 1..l : hwnd_table[i].hwnd = h /\ \A j \in 1..l : j < i => hwnd_table[j].hwnd # h
      <4>1. PICK i \in 1..l : hwnd_table[i].hwnd = h /\ \A j \in 1..l : j < i => hwnd_table[j].hwnd # h
        BY <3>2
      <4>2. i # f
        BY <1>2, <2>5, <4>1
      <4>3. t[i] = hwnd_table[i] /\ t[i].hwnd = h /\ \A j \in 1..Len(t) : j < i => t[j].hwnd # h
        BY <2>2, <2>3, <4>1, <4>2
      <4>4. Lookup(t, alive, h) = t[i].properties
        BY ONLY <2>2, <2>5, <4>1, <4>3, LookupAt
      <4>5. Lookup(hwnd_table, alive, h) = hwnd_table[i].properties
        BY <4>1, LookupAt
      <4> QED
        BY <4>3, <4>4, <4>5
    <3> QED
      BY <3>1, <3>2, FirstOrNone
  <2> QED
    BY <2>2, <2>4, <2>5
<1>5. CASE f = l + 1
  <2>1. t = Append(hwnd_table, e)
    BY <1>1, <1>3, <1>5 DEF With, Knows
  <2>2. /\ t \in Seq(Entry) /\ Len(t) = l + 1 /\ t[l + 1] = e
        /\ \A k \in 1..l : t[k] = hwnd_table[k]
    BY <1>1, <2>1, AppendProperties
  <2>3. \A j \in 1..l : hwnd_table[j].hwnd # hwnd
    BY <1>1, <1>2, <1>5
  <2>4. Lookup(t, alive, hwnd) = p
    <3>1. l + 1 \in 1..Len(t) /\ t[l + 1].hwnd = hwnd /\ t[l + 1].properties = p
      BY <1>1, <2>2
    <3>2. \A j \in 1..Len(t) : j < l + 1 => t[j].hwnd # hwnd
      BY <1>1, <2>2, <2>3
    <3> QED
      BY <2>2, <3>1, <3>2, LookupAt
  <2>5. ASSUME NEW h \in alive, h # hwnd
        PROVE  Lookup(t, alive, h) = Lookup(hwnd_table, alive, h)
    <3>1. CASE \A j \in 1..l : hwnd_table[j].hwnd # h
      <4>1. \A j \in 1..Len(t) : t[j].hwnd # h
        BY <1>1, <2>2, <2>5, <3>1
      <4> QED
        BY <2>2, <3>1, <4>1, LookupNone
    <3>2. CASE \E i \in 1..l : hwnd_table[i].hwnd = h /\ \A j \in 1..l : j < i => hwnd_table[j].hwnd # h
      <4>1. PICK i \in 1..l : hwnd_table[i].hwnd = h /\ \A j \in 1..l : j < i => hwnd_table[j].hwnd # h
        BY <3>2
      <4>3. i \in 1..Len(t) /\ t[i] = hwnd_table[i] /\ t[i].hwnd = h
            /\ \A j \in 1..Len(t) : j < i => t[j].hwnd # h
        BY <1>1, <2>2, <4>1
      <4>4. Lookup(t, alive, h) = t[i].properties
        BY ONLY <2>2, <2>5, <4>3, LookupAt
      <4>5. Lookup(hwnd_table, alive, h) = hwnd_table[i].properties
        BY <4>1, LookupAt
      <4> QED
        BY <4>3, <4>4, <4>5
    <3> QED
      BY <3>1, <3>2, FirstOrNone
  <2>6. \A k \in 1..Len(t) : k \in 1..l \/ k = l + 1
    BY <1>1, <2>2
  <2> QED
    BY <2>2, <2>4, <2>5, <2>6
<1> QED
  BY <1>1, <1>2, <1>4, <1>5

\* The windows that are moved have placements as their work areas.
Decent(e) ==
  e.hwnd \in Movable => \A a \in axes : e.properties[workarea(a)] \in {nil} \cup Rectangle

TableInv ==
  /\ alive \subseteq Hwnd
  /\ hwnd_table \in Seq(Entry)
  /\ \A i \in 1..Len(hwnd_table) : Decent(hwnd_table[i])
  /\ given \in [Hwnd -> [Key -> Value]]

\* A window without properties has none of them.
LEMMA NothingDecent ==
  /\ Nothing \in [Key -> Value]
  /\ \A a \in axes : Nothing[workarea(a)] = nil
BY KeyAssumption DEF Nothing, Value

\* What is found of a window.
LEMMA Looked ==
  ASSUME TableInv, NEW h
  PROVE  /\ Properties(h) = Lookup(hwnd_table, alive, h)
         /\ Properties(h) \in [Key -> Value]
         /\ h \in Movable => \A a \in axes : Properties(h)[workarea(a)] \in {nil} \cup Rectangle
         /\ h \notin alive => Properties(h) = Nothing
<1> PICK f, t : f = FoundIn(hwnd_table, alive, h) /\ t = hwnd_table
  OBVIOUS
<1>1. Found(h) = f
  BY DEF Found, FoundIn
<1>2. Properties(h) = Lookup(hwnd_table, alive, h)
  BY <1>1 DEF Properties, Knows, Lookup
<1>3. t \in Seq(Entry) /\ DOMAIN t = 1..Len(t) /\ \A i \in 1..Len(t) : t[i] \in Entry /\ Decent(t[i])
  BY LenProperties, ElementOfSeq DEF TableInv
<1>4. CASE f \in 1..Len(t)
  <2>1. t[f].hwnd = h /\ h \in alive
    BY <1>3, <1>4, FoundFirst
  <2>2. Properties(h) = t[f].properties
    BY <1>2, <1>3, <1>4 DEF Lookup
  <2> QED
    BY <1>2, <1>3, <1>4, <2>1, <2>2 DEF Entry, Decent
<1>5. CASE f \notin 1..Len(t)
  <2>1. Properties(h) = Nothing
    BY <1>2, <1>3, <1>5 DEF Lookup
  <2> QED
    BY <1>2, <2>1, NothingDecent
<1> QED
  BY <1>4, <1>5

\* The list that a search leaves.
LEMMA SearchSelects ==
  ASSUME NEW hwnd, NEW list \in Seq(Entry), Searched(hwnd, list)
  PROVE  Selects(list, alive, hwnd_table')
<1>1. Len(list) \in Nat /\ 0..Len(list) \subseteq Nat
  BY LenProperties
<1>2. PICK n \in 0..Len(list) : \E from \in [1..n -> DOMAIN list] :
        /\ \A j, k \in 1..n : j < k => from[j] < from[k]
        /\ {from[k] : k \in 1..n} = {i \in DOMAIN list : i < Found(hwnd) => list[i].hwnd \in alive}
        /\ hwnd_table' = [k \in 1..n |-> list[from[k]]]
  BY DEF Searched
<1>3. PICK from \in [1..n -> DOMAIN list] :
        /\ \A j, k \in 1..n : j < k => from[j] < from[k]
        /\ {from[k] : k \in 1..n} = {i \in DOMAIN list : i < Found(hwnd) => list[i].hwnd \in alive}
        /\ hwnd_table' = [k \in 1..n |-> list[from[k]]]
  BY <1>2
<1>4. \A i \in DOMAIN list : list[i].hwnd \in alive => \E k \in 1..n : from[k] = i
  BY <1>3
<1> QED
  BY <1>1, <1>3, <1>4 DEF Selects

\* Looking for properties changes none of a window that exists.
LEMMA SearchKeeps ==
  ASSUME TableInv, NEW hwnd, NEW list \in Seq(Entry), Searched(hwnd, list), alive' = alive,
         \A i \in 1..Len(list) : Decent(list[i]), given' \in [Hwnd -> [Key -> Value]]
  PROVE  /\ TableInv'
         /\ \A h \in alive : Properties(h)' = Lookup(list, alive, h)
<1> PICK s : s = hwnd_table'
  OBVIOUS
<1>1. Selects(list, alive, s)
  BY SearchSelects
<1>2. /\ s \in Seq(Entry)
      /\ \A k \in 1..Len(s) : \E i \in 1..Len(list) : s[k] = list[i]
      /\ \A h \in alive : Lookup(s, alive, h) = Lookup(list, alive, h)
  BY <1>1, SelectionKeeps
<1>3. \A k \in 1..Len(s) : Decent(s[k])
  BY <1>2
<1>4. TableInv'
  BY <1>2, <1>3 DEF TableInv, Decent
<1>5. ASSUME NEW h \in alive PROVE Properties(h)' = Lookup(s, alive, h)
  BY DEF Properties, Knows, Found, Lookup, FoundIn, Nothing
<1> QED
  BY <1>2, <1>4, <1>5

\* Reading a property changes none.
LEMMA Gets ==
  ASSUME TableInv, NEW hwnd, Get(hwnd), alive' = alive
  PROVE  /\ TableInv' /\ given' = given
         /\ \A h \in alive : Properties(h)' = Properties(h)
<1>1. /\ hwnd_table \in Seq(Entry) /\ Searched(hwnd, hwnd_table) /\ given' = given
      /\ \A i \in 1..Len(hwnd_table) : Decent(hwnd_table[i])
      /\ given' \in [Hwnd -> [Key -> Value]]
  BY DEF TableInv, Get
<1>2. TableInv' /\ \A h \in alive : Properties(h)' = Lookup(hwnd_table, alive, h)
  BY <1>1, SearchKeeps
<1> QED
  BY <1>1, <1>2, Looked

\* A property of a window that exists is set, and no other.
LEMMA WithSets ==
  ASSUME TableInv, NEW hwnd \in Hwnd, hwnd \in alive, NEW key \in Key, NEW v \in Value,
         hwnd \in Movable /\ key \in {workarea(a) : a \in axes} => v \in {nil} \cup Rectangle,
         Searched(hwnd, With(hwnd, [Properties(hwnd) EXCEPT ![key] = v])), alive' = alive,
         given' = [given EXCEPT ![hwnd][key] = v]
  PROVE  /\ TableInv'
         /\ Properties(hwnd)' = [Properties(hwnd) EXCEPT ![key] = v]
         /\ \A h \in alive : h # hwnd => Properties(h)' = Properties(h)
<1> PICK p : p = [Properties(hwnd) EXCEPT ![key] = v]
  OBVIOUS
<1> PICK t : t = With(hwnd, p)
  OBVIOUS
<1>1. /\ Properties(hwnd) \in [Key -> Value]
      /\ hwnd \in Movable => \A a \in axes : Properties(hwnd)[workarea(a)] \in {nil} \cup Rectangle
  BY Looked
<1>2. /\ p \in [Key -> Value]
      /\ hwnd \in Movable => \A a \in axes : p[workarea(a)] \in {nil} \cup Rectangle
  BY <1>1, KeyAssumption
<1>3. /\ t \in Seq(Entry)
      /\ \A k \in 1..Len(t) : \/ t[k] = [hwnd |-> hwnd, properties |-> p]
                              \/ \E i \in 1..Len(hwnd_table) : t[k] = hwnd_table[i]
      /\ Lookup(t, alive, hwnd) = p
      /\ \A h \in alive : h # hwnd => Lookup(t, alive, h) = Lookup(hwnd_table, alive, h)
  <2>1. hwnd_table \in Seq(Entry) /\ hwnd \in Hwnd /\ hwnd \in alive /\ t = With(hwnd, p)
    BY DEF TableInv
  <2> QED
    BY ONLY <1>2, <2>1, WithKeeps
<1>4. ASSUME NEW k \in 1..Len(t) PROVE Decent(t[k])
  <2>1. CASE t[k] = [hwnd |-> hwnd, properties |-> p]
    <3> PICK e : e = [hwnd |-> hwnd, properties |-> p]
      OBVIOUS
    <3>1. e.hwnd = hwnd /\ e.properties = p /\ t[k] = e
      BY <2>1
    <3>2. Decent(e)
      BY ONLY <1>2, <3>1 DEF Decent
    <3> QED
      BY ONLY <3>1, <3>2
  <2>2. CASE \E i \in 1..Len(hwnd_table) : t[k] = hwnd_table[i]
    BY <2>2 DEF TableInv
  <2> QED
    BY <1>3, <2>1, <2>2
<1>5. given' \in [Hwnd -> [Key -> Value]]
  BY DEF TableInv
<1>6. TableInv' /\ \A h \in alive : Properties(h)' = Lookup(t, alive, h)
  BY <1>3, <1>4, <1>5, SearchKeeps
<1>7. \A h \in alive : Properties(h) = Lookup(hwnd_table, alive, h)
  BY Looked
<1> QED
  BY ONLY <1>3, <1>6, <1>7, hwnd \in alive,
     p = [Properties(hwnd) EXCEPT ![key] = v]

\* Setting one changes no other, and none at all if the window is gone,
LEMMA Sets ==
  ASSUME TableInv, NEW hwnd \in Hwnd, NEW key \in Key, NEW v \in Value,
         hwnd \in Movable /\ key \in {workarea(a) : a \in axes} => v \in {nil} \cup Rectangle,
         set_property(hwnd, key, v), alive' = alive
  PROVE  /\ TableInv'
         /\ hwnd \in alive => Properties(hwnd)' = [Properties(hwnd) EXCEPT ![key] = v]
         /\ \A h \in alive : h # hwnd => Properties(h)' = Properties(h)
         /\ given' = IF hwnd \in alive THEN [given EXCEPT ![hwnd][key] = v] ELSE given
<1>1. CASE hwnd \in alive
  <2>1. /\ Searched(hwnd, With(hwnd, [Properties(hwnd) EXCEPT ![key] = v]))
        /\ given' = [given EXCEPT ![hwnd][key] = v]
    BY <1>1 DEF set_property, GivenNow
  <2> QED
    BY <1>1, <2>1, WithSets
<1>2. CASE hwnd \notin alive
  <2>1. hwnd_table' = hwnd_table /\ given' = given
    BY <1>2 DEF set_property, GivenNow
  <2>2. TableInv'
    BY <2>1 DEF TableInv, Decent
  <2>3. \A h \in alive : Properties(h)' = Properties(h)
    BY <2>1 DEF Properties, Knows, Found, Nothing
  <2> QED
    BY <1>2, <2>1, <2>2, <2>3
<1> QED
  BY <1>1, <1>2

\* and so does removing it, whether the window is in the list or not.
LEMMA Removes ==
  ASSUME TableInv, NEW hwnd \in Hwnd, NEW key \in Key, remove_property(hwnd, key), alive' = alive
  PROVE  /\ TableInv'
         /\ hwnd \in alive => Properties(hwnd)' = [Properties(hwnd) EXCEPT ![key] = nil]
         /\ \A h \in alive : h # hwnd => Properties(h)' = Properties(h)
         /\ given' = IF hwnd \in alive THEN [given EXCEPT ![hwnd][key] = nil] ELSE given
<1>1. given' = IF hwnd \in alive THEN [given EXCEPT ![hwnd][key] = nil] ELSE given
  BY DEF remove_property, GivenNow
<1>2. nil \in Value
  BY DEF Value
<1>3. CASE Knows(hwnd)
  <2>1. hwnd \in alive
    <3>1. hwnd_table \in Seq(Entry) /\ DOMAIN hwnd_table = 1..Len(hwnd_table)
      BY LenProperties DEF TableInv
    <3>2. FoundIn(hwnd_table, alive, hwnd) \in 1..Len(hwnd_table)
      BY <1>3, <3>1 DEF Knows, Found, FoundIn
    <3> QED
      BY <3>1, <3>2, FoundFirst
  <2>2. Searched(hwnd, With(hwnd, [Properties(hwnd) EXCEPT ![key] = nil]))
    BY <1>3 DEF remove_property
  <2>3. given' = [given EXCEPT ![hwnd][key] = nil]
    BY <1>1, <2>1
  <2>4. TableInv /\ hwnd \in Hwnd /\ key \in Key /\ alive' = alive /\ nil \in {nil} \cup Rectangle
    OBVIOUS
  <2>5. /\ TableInv'
        /\ Properties(hwnd)' = [Properties(hwnd) EXCEPT ![key] = nil]
        /\ \A h \in alive : h # hwnd => Properties(h)' = Properties(h)
    BY ONLY <1>2, <2>1, <2>2, <2>3, <2>4, WithSets
  <2> QED
    BY <1>1, <2>5
<1>4. CASE ~Knows(hwnd)
  <2>1. Searched(hwnd, hwnd_table)
    BY <1>4 DEF remove_property
  <2>2. /\ hwnd_table \in Seq(Entry) /\ \A i \in 1..Len(hwnd_table) : Decent(hwnd_table[i])
        /\ given' \in [Hwnd -> [Key -> Value]]
    BY <1>1, <1>2 DEF TableInv
  <2>3. TableInv' /\ \A h \in alive : Properties(h)' = Properties(h)
    <3>1. TableInv' /\ \A h \in alive : Properties(h)' = Lookup(hwnd_table, alive, h)
      BY <2>1, <2>2, SearchKeeps
    <3> QED
      BY <3>1, Looked
  <2>4. Properties(hwnd) = [Properties(hwnd) EXCEPT ![key] = nil]
    <3>1. Properties(hwnd) = Nothing
      BY <1>4 DEF Properties
    <3> QED
      BY <3>1 DEF Nothing
  <2> QED
    BY <1>1, <2>3, <2>4
<1> QED
  BY <1>3, <1>4

-----------------------------------------------------------------------------
(* The properties are kept.                                                *)

\* Nobody has been given anything since the last window with its handle went.
GoneAreUnknown == \A h \in Hwnd \ alive : given[h] = [k \in Key |-> unknown]

KeptInv == TableInv /\ GoneAreUnknown /\ PropertiesKept

\* At first, no window has properties.
LEMMA KeptInit == Init => KeptInv
<1> SUFFICES ASSUME Init PROVE KeptInv
  OBVIOUS
<1>1. hwnd_table = <<>> /\ alive = Hwnd /\ given = [h \in Hwnd |-> Nothing]
  BY DEF Init
<1>2. hwnd_table \in Seq(Entry) /\ Len(hwnd_table) = 0
  BY <1>1, EmptySeq
<1>3. TableInv
  BY <1>1, <1>2, NothingDecent DEF TableInv
<1>4. ASSUME NEW h \in alive PROVE Properties(h) = Nothing
  <2>0. \A j \in 1..Len(hwnd_table) : hwnd_table[j].hwnd # h
    BY ONLY <1>2
  <2>1. Lookup(hwnd_table, alive, h) = Nothing
    BY ONLY <1>2, <2>0, LookupNone
  <2> QED
    BY <1>3, <2>1, Looked
<1>5. PropertiesKept
  BY <1>1, <1>4 DEF PropertiesKept, get_property
<1> QED
  BY <1>1, <1>3, <1>5 DEF KeptInv, GoneAreUnknown

\* What the steps of scripts do to the properties: nothing, or one is set.
Untouched(h) == Properties(h)' = Properties(h)
SetTo(hwnd, key, v) ==
  /\ given' = [given EXCEPT ![hwnd][key] = v]
  /\ Properties(hwnd)' = [Properties(hwnd) EXCEPT ![key] = v]
  /\ \A h \in alive : h # hwnd => Untouched(h)
TableStep ==
  /\ TableInv'
  /\ \/ given' = given /\ \A h \in alive : Untouched(h)
     \/ \E hwnd \in alive, key \in Key, v \in Value : SetTo(hwnd, key, v)

\* A step of a script leaves each window the properties that it was given.
LEMMA KeptByTable ==
  ASSUME KeptInv, TableStep, alive' = alive
  PROVE  KeptInv'
<1>1. TableInv /\ TableInv' /\ GoneAreUnknown /\ PropertiesKept /\ alive \subseteq Hwnd
  BY DEF KeptInv, TableStep, TableInv
<1>2. given \in [Hwnd -> [Key -> Value]]
  BY <1>1 DEF TableInv
<1>3. CASE given' = given /\ \A h \in alive : Untouched(h)
  BY <1>1, <1>3 DEF KeptInv, GoneAreUnknown, PropertiesKept, get_property, Untouched
<1>4. CASE \E hwnd \in alive, key \in Key, v \in Value : SetTo(hwnd, key, v)
  <2>1. PICK hwnd \in alive, key \in Key, v \in Value : SetTo(hwnd, key, v)
    BY <1>4
  <2>2. /\ given' = [given EXCEPT ![hwnd][key] = v]
        /\ Properties(hwnd)' = [Properties(hwnd) EXCEPT ![key] = v]
        /\ \A h \in alive : h # hwnd => Untouched(h)
    BY <2>1 DEF SetTo
  <2>3. GoneAreUnknown'
    BY <1>1, <1>2, <2>2 DEF GoneAreUnknown
  <2>4. Properties(hwnd) \in [Key -> Value]
    BY <1>1, Looked
  <2>5. ASSUME NEW h \in alive, NEW k \in Key, given'[h][k] # unknown
        PROVE  Properties(h)'[k] = given'[h][k]
    <3>1. CASE h = hwnd
      BY <1>1, <1>2, <2>2, <2>4, <2>5, <3>1 DEF PropertiesKept, get_property
    <3>2. CASE h # hwnd
      BY <1>1, <1>2, <2>2, <2>5, <3>2 DEF PropertiesKept, get_property, Untouched
    <3> QED
      BY <3>1, <3>2
  <2> QED
    BY <1>1, <2>3, <2>5 DEF KeptInv, PropertiesKept, get_property
<1> QED
  BY <1>3, <1>4 DEF TableStep

-----------------------------------------------------------------------------
(* Geometry.                                                               *)

\* There is a monitor, and work areas do not begin before their monitors.
LEMMA LayoutFacts ==
  ASSUME layout \in Layouts
  PROVE  /\ Len(layout) \in Nat /\ Len(layout) # 0 /\ DOMAIN layout = 1..Len(layout)
         /\ 1 \in DOMAIN layout
         /\ \A n \in DOMAIN layout :
              /\ layout[n] \in Monitor
              /\ layout[n].placement \in Rectangle /\ layout[n].workarea \in Rectangle
              /\ layout[n].workarea.x >= layout[n].placement.x
              /\ layout[n].workarea.y >= layout[n].placement.y
<1>1. layout \in Seq(Monitor) /\ layout # <<>>
  BY LayoutAssumption
<1>2. /\ Len(layout) \in Nat /\ Len(layout) # 0 /\ DOMAIN layout = 1..Len(layout)
      /\ \A n \in 1..Len(layout) : layout[n] \in Monitor
  BY <1>1, LenProperties, EmptySeq, ElementOfSeq
<1>3. \A n \in DOMAIN layout : /\ layout[n].workarea.x >= layout[n].placement.x
                               /\ layout[n].workarea.y >= layout[n].placement.y
  BY LayoutAssumption
<1> QED
  BY <1>2, <1>3 DEF Monitor

\* The left edges of the monitors have a least one, and so on.
LEMMA Edges ==
  ASSUME layout \in Layouts
  PROVE  /\ VirtualScreen.x \in Int /\ VirtualScreen.y \in Int
         /\ VirtualScreen.w \in Int /\ VirtualScreen.h \in Int
         /\ \A n \in DOMAIN layout : /\ VirtualScreen.x <= layout[n].placement.x
                                     /\ VirtualScreen.y <= layout[n].placement.y
<1> PICK l : l = Len(layout)
  OBVIOUS
<1>1. /\ l \in Nat /\ l # 0 /\ DOMAIN layout = 1..l
      /\ \A n \in 1..l : layout[n].placement \in Rectangle
  BY LayoutFacts
<1>2. \A n \in 1..l : /\ layout[n].placement.x \in Int /\ layout[n].placement.y \in Int
                      /\ layout[n].placement.w \in Nat /\ layout[n].placement.h \in Nat
                      /\ Right(layout[n].placement) \in Int /\ Bottom(layout[n].placement) \in Int
  BY <1>1 DEF Rectangle, Right, Bottom
<1> DEFINE monitor == {layout[n].placement : n \in DOMAIN layout}
           left == Min({m.x : m \in monitor})
           top == Min({m.y : m \in monitor})
           right == Max({Right(m) : m \in monitor})
           bottom == Max({Bottom(m) : m \in monitor})
<1>3. left \in Int /\ \A n \in 1..l : left <= layout[n].placement.x
  <2> DEFINE f == [n \in 1..l |-> layout[n].placement.x]
             S == {m.x : m \in monitor}
  <2>1. f \in [1..l -> Int]
    BY <1>2
  <2>2. PICK i \in 1..l : \A j \in 1..l : f[i] <= f[j]
    BY <1>1, <2>1, LeastOf
  <2>3. S \in SUBSET Int /\ f[i] \in S /\ \A y \in S : f[i] <= y
    BY <1>1, <1>2, <2>2
  <2>4. Min(S) = f[i]
    BY <2>3, MinIs
  <2> QED
    BY <1>2, <2>2, <2>4
<1>4. top \in Int /\ \A n \in 1..l : top <= layout[n].placement.y
  <2> DEFINE f == [n \in 1..l |-> layout[n].placement.y]
             S == {m.y : m \in monitor}
  <2>1. f \in [1..l -> Int]
    BY <1>2
  <2>2. PICK i \in 1..l : \A j \in 1..l : f[i] <= f[j]
    BY <1>1, <2>1, LeastOf
  <2>3. S \in SUBSET Int /\ f[i] \in S /\ \A y \in S : f[i] <= y
    BY <1>1, <1>2, <2>2
  <2>4. Min(S) = f[i]
    BY <2>3, MinIs
  <2> QED
    BY <1>2, <2>2, <2>4
<1>5. right \in Int
  <2> DEFINE f == [n \in 1..l |-> Right(layout[n].placement)]
             S == {Right(m) : m \in monitor}
  <2>1. f \in [1..l -> Int]
    BY <1>2
  <2>2. PICK i \in 1..l : \A j \in 1..l : f[i] >= f[j]
    BY <1>1, <2>1, GreatestOf
  <2>3. S \in SUBSET Int /\ f[i] \in S /\ \A y \in S : f[i] >= y
    BY <1>1, <1>2, <2>2
  <2>4. Max(S) = f[i]
    BY <2>3, MaxIs
  <2> QED
    BY <1>2, <2>2, <2>4
<1>6. bottom \in Int
  <2> DEFINE f == [n \in 1..l |-> Bottom(layout[n].placement)]
             S == {Bottom(m) : m \in monitor}
  <2>1. f \in [1..l -> Int]
    BY <1>2
  <2>2. PICK i \in 1..l : \A j \in 1..l : f[i] >= f[j]
    BY <1>1, <2>1, GreatestOf
  <2>3. S \in SUBSET Int /\ f[i] \in S /\ \A y \in S : f[i] >= y
    BY <1>1, <1>2, <2>2
  <2>4. Max(S) = f[i]
    BY <2>3, MaxIs
  <2> QED
    BY <1>2, <2>2, <2>4
<1> HIDE DEF left, top, right, bottom
<1>7. /\ VirtualScreen.x = left /\ VirtualScreen.y = top
      /\ VirtualScreen.w = right - left /\ VirtualScreen.h = bottom - top
  BY DEF VirtualScreen, Rect, left, top, right, bottom
<1> QED
  BY <1>1, <1>3, <1>4, <1>5, <1>6, <1>7

\* convert yields a coordinate, whatever it is asked for.
LEMMA ConvertsToInt ==
  ASSUME NEW t \in Distance, NEW d \in Int, NEW wx \in Int, NEW ww \in Int, NEW m \in Int,
         NEW mw \in Int, NEW v \in Int, NEW vw \in Int
  PROVE  convert(t, d, wx, ww, m, mw, v, vw) \in Int
<1> PICK b, bw : b = (IF t.vscreen THEN v ELSE m) /\ bw = (IF t.vscreen THEN vw ELSE mw)
  OBVIOUS
<1>1. b \in Int /\ bw \in Int
  OBVIOUS
<1> PICK p : p = bw * d
  OBVIOUS
<1>2. p \in Int
  BY <1>1
<1> PICK dx : dx = (IF t.percent THEN p \div 100 ELSE d)
  OBVIOUS
<1>3. dx \in Int
  BY ONLY <1>2, dx = (IF t.percent THEN p \div 100 ELSE d), d \in Int
<1>4. convert(t, d, wx, ww, m, mw, v, vw) =
        CASE t.coordinate = "a" -> b + (IF 0 <= dx THEN 0 ELSE bw - ww + 1) + dx
          [] t.coordinate = "c" -> b + (bw \div 2) - (ww \div 2) + dx
          [] t.coordinate = "r" -> wx + dx
  BY DEF convert
<1>5. t.coordinate \in {"a", "c", "r"}
  BY DEF Distance
<1>6. CASE t.coordinate = "a"
  BY ONLY <1>1, <1>3, <1>4, <1>6, ww \in Int
<1>7. CASE t.coordinate = "c"
  <2>1. bw \div 2 \in Int /\ ww \div 2 \in Int
    BY ONLY <1>1, ww \in Int
  <2> QED
    BY ONLY <1>1, <1>3, <1>4, <1>7, <2>1, ww \in Int
<1>8. CASE t.coordinate = "r"
  BY ONLY <1>3, <1>4, <1>8, wx \in Int
<1> QED
  BY <1>5, <1>6, <1>7, <1>8

\* What convert yields of pixels from an edge, and from the centre.
LEMMA Converted ==
  ASSUME NEW t \in Distance, ~t.percent, NEW d \in Int, NEW wx \in Int, NEW ww \in Int,
         NEW m \in Int, NEW mw \in Int, NEW v \in Int, NEW vw \in Int,
         NEW b \in Int, b = (IF t.vscreen THEN v ELSE m),
         NEW bw \in Int, bw = (IF t.vscreen THEN vw ELSE mw)
  PROVE  /\ t.coordinate = "a" /\ 0 <= d => convert(t, d, wx, ww, m, mw, v, vw) = b + d
         /\ t.coordinate = "a" /\ d = -1 => convert(t, d, wx, ww, m, mw, v, vw) + ww = b + bw
         /\ t.coordinate = "c" /\ d = 0 =>
              convert(t, d, wx, ww, m, mw, v, vw) = b + (bw \div 2) - (ww \div 2)
<1> PICK c : c = convert(t, d, wx, ww, m, mw, v, vw)
  OBVIOUS
<1>1. c = CASE t.coordinate = "a" -> b + (IF 0 <= d THEN 0 ELSE bw - ww + 1) + d
            [] t.coordinate = "c" -> b + (bw \div 2) - (ww \div 2) + d
            [] t.coordinate = "r" -> wx + d
  BY DEF convert
<1>2. ASSUME t.coordinate = "a", 0 <= d PROVE c = b + d
  BY ONLY <1>1, <1>2, b \in Int, bw \in Int, ww \in Int, d \in Int
<1>3. ASSUME t.coordinate = "a", d = -1 PROVE c + ww = b + bw
  BY ONLY <1>1, <1>3, b \in Int, bw \in Int, ww \in Int, d \in Int
<1>4. ASSUME t.coordinate = "c", d = 0 PROVE c = b + (bw \div 2) - (ww \div 2)
  <2>1. bw \div 2 \in Int /\ ww \div 2 \in Int
    BY ONLY bw \in Int, ww \in Int
  <2> QED
    BY ONLY <1>1, <1>4, <2>1, b \in Int, d \in Int
<1> QED
  BY <1>2, <1>3, <1>4

\* So that an edge, or the middle, is reached.
LEMMA ConvertReaches ==
  ASSUME NEW t \in Distance, NEW d \in Int, NEW wx \in Int, NEW ww \in Int,
         NEW m \in Int, NEW mw \in Int, NEW v \in Int, NEW vw \in Int,
         NEW b \in Int, b = (IF t.vscreen THEN v ELSE m),
         NEW bw \in Int, bw = (IF t.vscreen THEN vw ELSE mw)
  PROVE  Reaches(t, d, convert(t, d, wx, ww, m, mw, v, vw), ww, b, bw)
<1> SUFFICES ASSUME ~t.percent PROVE Reaches(t, d, convert(t, d, wx, ww, m, mw, v, vw), ww, b, bw)
  BY DEF Reaches
<1> PICK c : c = convert(t, d, wx, ww, m, mw, v, vw)
  OBVIOUS
<1>1. /\ t.coordinate = "a" /\ 0 <= d => c = b + d
      /\ t.coordinate = "a" /\ d = -1 => c + ww = b + bw
      /\ t.coordinate = "c" /\ d = 0 => c = b + (bw \div 2) - (ww \div 2)
  BY Converted
<1>2. t.coordinate = "a" /\ d = 0 => c = b
  BY ONLY <1>1, b \in Int, d \in Int
<1>3. ASSUME t.coordinate = "c", d = 0 PROVE (c - b) - ((b + bw) - (c + ww)) \in -1..1
  <2>1. c = b + (bw \div 2) - (ww \div 2)
    BY <1>1, <1>3
  <2> QED
    BY ONLY <2>1, b \in Int, bw \in Int, ww \in Int
<1> QED
  BY <1>1, <1>2, <1>3 DEF Reaches

\* Where a window is moved to.
LEMMA MovedIsPosition ==
  ASSUME layout \in Layouts, NEW r \in Rectangle, NEW m \in Rectangle, NEW a \in Argument
  PROVE  Moved(r, m, a) \in Position
<1>1. /\ a.tx \in Distance /\ a.ty \in Distance /\ a.dx \in Int /\ a.dy \in Int
      /\ r.x \in Int /\ r.y \in Int /\ r.w \in Int /\ r.h \in Int
      /\ m.x \in Int /\ m.y \in Int /\ m.w \in Int /\ m.h \in Int
  BY DEF Argument, Rectangle
<1>2. /\ VirtualScreen.x \in Int /\ VirtualScreen.y \in Int
      /\ VirtualScreen.w \in Int /\ VirtualScreen.h \in Int
  BY Edges
<1>3. convert(a.tx, a.dx, r.x, r.w, m.x, m.w, VirtualScreen.x, VirtualScreen.w) \in Int
  BY <1>1, <1>2, ConvertsToInt
<1>4. convert(a.ty, a.dy, r.y, r.h, m.y, m.h, VirtualScreen.y, VirtualScreen.h) \in Int
  BY <1>1, <1>2, ConvertsToInt
<1> QED
  BY <1>3, <1>4 DEF Moved, Position

\* It comes to the edge or the middle that it was moved to,
LEMMA MovedReaches ==
  ASSUME layout \in Layouts, NEW r \in Rectangle, NEW m \in Rectangle, NEW a \in Argument
  PROVE  LET Of(t) == IF t.vscreen THEN VirtualScreen ELSE m
         IN  /\ Reaches(a.tx, a.dx, Moved(r, m, a).x, r.w, Of(a.tx).x, Of(a.tx).w)
             /\ Reaches(a.ty, a.dy, Moved(r, m, a).y, r.h, Of(a.ty).y, Of(a.ty).h)
<1>1. /\ a.tx \in Distance /\ a.ty \in Distance /\ a.dx \in Int /\ a.dy \in Int
      /\ r.x \in Int /\ r.y \in Int /\ r.w \in Int /\ r.h \in Int
      /\ m.x \in Int /\ m.y \in Int /\ m.w \in Int /\ m.h \in Int
  BY DEF Argument, Rectangle
<1>2. /\ VirtualScreen.x \in Int /\ VirtualScreen.y \in Int
      /\ VirtualScreen.w \in Int /\ VirtualScreen.h \in Int
  BY Edges
<1> DEFINE Of(t) == IF t.vscreen THEN VirtualScreen ELSE m
<1>3. Reaches(a.tx, a.dx, Moved(r, m, a).x, r.w, Of(a.tx).x, Of(a.tx).w)
  <2>1. /\ Of(a.tx).x \in Int /\ Of(a.tx).w \in Int
        /\ Of(a.tx).x = (IF a.tx.vscreen THEN VirtualScreen.x ELSE m.x)
        /\ Of(a.tx).w = (IF a.tx.vscreen THEN VirtualScreen.w ELSE m.w)
    BY <1>1, <1>2
  <2>2. Moved(r, m, a).x = convert(a.tx, a.dx, r.x, r.w, m.x, m.w, VirtualScreen.x, VirtualScreen.w)
    BY DEF Moved
  <2> HIDE DEF Of
  <2> QED
    BY ONLY <1>1, <1>2, <2>1, <2>2, ConvertReaches
<1>4. Reaches(a.ty, a.dy, Moved(r, m, a).y, r.h, Of(a.ty).y, Of(a.ty).h)
  <2>1. /\ Of(a.ty).y \in Int /\ Of(a.ty).h \in Int
        /\ Of(a.ty).y = (IF a.ty.vscreen THEN VirtualScreen.y ELSE m.y)
        /\ Of(a.ty).h = (IF a.ty.vscreen THEN VirtualScreen.h ELSE m.h)
    BY <1>1, <1>2
  <2>2. Moved(r, m, a).y = convert(a.ty, a.dy, r.y, r.h, m.y, m.h, VirtualScreen.y, VirtualScreen.h)
    BY DEF Moved
  <2> HIDE DEF Of
  <2> QED
    BY ONLY <1>1, <1>2, <2>1, <2>2, ConvertReaches
<1> QED
  BY <1>3, <1>4

\* and move('A', 'A', x, y) to x and y, if they are not negative and the virtual
\* screen begins at 0, 0.
LEMMA MovedExactly ==
  ASSUME layout \in Layouts, Origin, NEW r \in Rectangle, NEW m \in Rectangle,
         NEW a \in Argument, a.tx = A, a.ty = A
  PROVE  /\ a.dx >= 0 => Moved(r, m, a).x = a.dx
         /\ a.dy >= 0 => Moved(r, m, a).y = a.dy
<1>1. /\ a.dx \in Int /\ a.dy \in Int
      /\ r.x \in Int /\ r.y \in Int /\ r.w \in Int /\ r.h \in Int
      /\ m.x \in Int /\ m.y \in Int /\ m.w \in Int /\ m.h \in Int
  BY DEF Argument, Rectangle
<1>2. /\ VirtualScreen.x = 0 /\ VirtualScreen.y = 0
      /\ VirtualScreen.w \in Int /\ VirtualScreen.h \in Int
  BY Edges DEF Origin
<1>3. A \in Distance /\ ~A.percent /\ A.vscreen /\ A.coordinate = "a"
  BY DEF A, Distance
<1>4. ASSUME a.dx >= 0 PROVE Moved(r, m, a).x = a.dx
  <2> PICK c : c = convert(A, a.dx, r.x, r.w, m.x, m.w, 0, VirtualScreen.w)
    OBVIOUS
  <2>1. c = 0 + a.dx
    <3>1. 0 <= a.dx
      BY <1>1, <1>4
    <3>2. 0 \in Int /\ 0 = (IF A.vscreen THEN 0 ELSE m.x)
          /\ VirtualScreen.w = (IF A.vscreen THEN VirtualScreen.w ELSE m.w)
      BY <1>3
    <3> QED
      BY ONLY <1>1, <1>2, <1>3, <3>1, <3>2, Converted,
              c = convert(A, a.dx, r.x, r.w, m.x, m.w, 0, VirtualScreen.w)
  <2>2. Moved(r, m, a).x = c
    BY <1>2 DEF Moved
  <2> QED
    BY <1>1, <2>1, <2>2
<1>5. ASSUME a.dy >= 0 PROVE Moved(r, m, a).y = a.dy
  <2> PICK c : c = convert(A, a.dy, r.y, r.h, m.y, m.h, 0, VirtualScreen.h)
    OBVIOUS
  <2>1. c = 0 + a.dy
    <3>1. 0 <= a.dy
      BY <1>1, <1>5
    <3>2. 0 \in Int /\ 0 = (IF A.vscreen THEN 0 ELSE m.y)
          /\ VirtualScreen.h = (IF A.vscreen THEN VirtualScreen.h ELSE m.h)
      BY <1>3
    <3> QED
      BY ONLY <1>1, <1>2, <1>3, <3>1, <3>2, Converted,
              c = convert(A, a.dy, r.y, r.h, m.y, m.h, 0, VirtualScreen.h)
  <2>2. Moved(r, m, a).y = c
    BY <1>2 DEF Moved
  <2> QED
    BY <1>1, <2>1, <2>2
<1> QED
  BY <1>4, <1>5

\* A window that is pulled back is inside of its monitor if it is not too large.
LEMMA FittedInside ==
  ASSUME NEW r \in Rectangle, NEW src \in Rectangle, NEW dest \in Rectangle
  PROVE  /\ Fitted(r, src, dest) \in Position
         /\ Fitted(r, src, dest).x >= dest.x /\ Fitted(r, src, dest).y >= dest.y
         /\ r.w <= dest.w => Fitted(r, src, dest).x + r.w <= Right(dest)
         /\ r.h <= dest.h => Fitted(r, src, dest).y + r.h <= Bottom(dest)
<1>1. /\ r.x \in Int /\ r.y \in Int /\ r.w \in Int /\ r.h \in Int
      /\ src.x \in Int /\ src.y \in Int
      /\ dest.x \in Int /\ dest.y \in Int /\ dest.w \in Int /\ dest.h \in Int
  BY DEF Rectangle
<1>2. /\ Right(dest) = dest.x + dest.w /\ Bottom(dest) = dest.y + dest.h
  BY DEF Right, Bottom
<1>3. /\ Fitted(r, src, dest).x =
           Larger(dest.x, Smaller(r.x + (dest.x - src.x), Right(dest) - r.w))
      /\ Fitted(r, src, dest).y =
           Larger(dest.y, Smaller(r.y + (dest.y - src.y), Bottom(dest) - r.h))
  BY DEF Fitted
<1>4. Fitted(r, src, dest).x \in Int /\ Fitted(r, src, dest).y \in Int
  BY <1>1, <1>2, <1>3 DEF Larger, Smaller
<1>5. Fitted(r, src, dest) \in Position
  BY <1>4 DEF Fitted, Position
<1>6. Fitted(r, src, dest).x >= dest.x /\ Fitted(r, src, dest).y >= dest.y
  BY <1>1, <1>2, <1>3 DEF Larger, Smaller
<1>7. r.w <= dest.w => Fitted(r, src, dest).x + r.w <= Right(dest)
  BY <1>1, <1>2, <1>3 DEF Larger, Smaller
<1>8. r.h <= dest.h => Fitted(r, src, dest).y + r.h <= Bottom(dest)
  BY <1>1, <1>2, <1>3 DEF Larger, Smaller
<1> QED
  BY <1>5, <1>6, <1>7, <1>8

-----------------------------------------------------------------------------
(* Types.                                                                  *)

Goal == [m : Nat] \cup [m : Nat, arguments : Argument]

Call ==
  [at : {"idle", "set", "place", "keep", "area", "find", "fit", "move", "resize"},
   op : axes \cup {"none", "move", "monitor"}, hwnd : Hwnd \cup {nil}, zoomed : BOOLEAN,
   r : Rectangle \cup {nil}, m : Nat, dest : Nat, size : Size \cup {nil},
   arguments : Argument \cup {nil}]

\* What a call has read and computed when it is at each of its places.
CallInv ==
  /\ call \in Call
  /\ ~At("idle") => target \in Movable
  /\ call.at \in {"set", "place", "keep", "area"} => axis \in axes /\ call.m = 0
  /\ call.at \in {"keep", "area"} => call.r \in Rectangle
  /\ At("area") => ~call.zoomed
  /\ At("find") => call.op \in {"move", "monitor"} /\ call.size = nil
  /\ At("fit") => call.op = "monitor" /\ call.size = nil /\ call.m \in DOMAIN layout
  /\ call.at \in {"find", "fit", "move"} /\ call.op = "monitor" => call.dest \in DOMAIN layout
  /\ At("find") /\ call.op = "move" => call.arguments \in Argument
  /\ At("move") =>
       /\ call.arguments \in Argument
       /\ \/ call.op \in axes /\ call.size \in Size /\ call.m = 0
          \/ call.op \in {"move", "monitor"} /\ call.size = nil /\ call.m \in DOMAIN layout
  /\ At("resize") => call.op \in axes /\ call.size \in Size

StateInv ==
  /\ layout \in Layouts
  /\ placement \in [Hwnd -> Rectangle \cup {nil}]
  /\ \A h \in alive : placement[h] \in Rectangle
  /\ requests \in [Hwnd -> Seq(Position \cup Size)]
  /\ \A h \in Hwnd \ alive : requests[h] = <<>>
  /\ before \in [Hwnd -> Rectangle \cup {nil}]
  /\ goal \in [Hwnd -> Goal \cup {nil}]

Typed == TableInv /\ StateInv /\ CallInv

\* Between calls, nothing is called.
LEMMA IdleTyped == Idle \in Call /\ Idle.at = "idle"
BY DEF Idle, Call

\* The initial state is typed.
LEMMA InitTyped == Init => Typed
<1> SUFFICES ASSUME Init PROVE Typed
  OBVIOUS
<1>1. TableInv
  BY KeptInit DEF KeptInv
<1>2. StateInv
  <2>1. \A h \in Hwnd : placement[h] \in Rectangle
    BY WindowAssumption DEF Init
  <2>2. placement \in [Hwnd -> Rectangle \cup {nil}]
    BY <2>1, WindowAssumption DEF Init
  <2>3. <<>> \in Seq(Position \cup Size)
    BY EmptySeq
  <2> QED
    BY <2>1, <2>2, <2>3 DEF Init, StateInv
<1>3. CallInv
  BY IdleTyped DEF Init, CallInv, At
<1> QED
  BY <1>1, <1>2, <1>3 DEF Typed

\* What the functions of scripts leave alone.
ByScript == UNCHANGED <<layout, alive, changes>>

\* The properties are those of the list.
LEMMA TableSame ==
  ASSUME TableInv, UNCHANGED <<hwnd_table, given, alive>>
  PROVE  TableInv' /\ \A h : Properties(h)' = Properties(h)
<1>1. TableInv'
  BY DEF TableInv, Decent
<1>2. \A h : Properties(h)' = Properties(h)
  BY DEF Properties, Knows, Found, Nothing
<1> QED
  BY <1>1, <1>2

\* A toggle begins: it has read whether the window is maximized.
LEMMA MaximizeTyped ==
  ASSUME Typed, ByScript, NEW hwnd \in Movable, NEW a \in axes, maximize(hwnd, a)
  PROVE  /\ Typed'
         /\ given' = given /\ \A h \in alive : Untouched(h)
         /\ call'.at = "set" /\ call'.op = a /\ call'.hwnd = hwnd /\ call'.zoomed = Zoomed(hwnd, a)
<1>1. /\ Get(hwnd) /\ hwnd \in Hwnd
      /\ call' = [Idle EXCEPT !.at = "set", !.op = a, !.hwnd = hwnd, !.zoomed = Zoomed(hwnd, a)]
      /\ before' = [before EXCEPT ![hwnd] =
            IF ~Still(hwnd) THEN nil
            ELSE IF Zoomed(hwnd, "v") \/ Zoomed(hwnd, "h") THEN @ ELSE placement[hwnd]]
      /\ goal' = [goal EXCEPT ![hwnd] = nil]
      /\ UNCHANGED <<placement, requests, layout, alive>>
  BY WindowAssumption DEF maximize, ByScript
<1>2. TableInv' /\ given' = given /\ \A h \in alive : Untouched(h)
  BY <1>1, Gets DEF Typed, Untouched
<1>3. Zoomed(hwnd, a) \in BOOLEAN
  BY DEF Zoomed
<1>4. /\ call' \in Call /\ call'.at = "set" /\ call'.op = a /\ call'.hwnd = hwnd
      /\ call'.zoomed = Zoomed(hwnd, a) /\ call'.m = 0
  BY <1>1, <1>3 DEF Idle, Call
<1>5. CallInv'
  BY <1>4 DEF CallInv, At, target, axis
<1>6. StateInv'
  BY <1>1 DEF Typed, StateInv
<1> QED
  BY <1>2, <1>4, <1>5, <1>6 DEF Typed

\* The call, when it is under way.
LEMMA CallTyped ==
  ASSUME Typed
  PROVE  /\ call \in Call
         /\ ~At("idle") => target \in Movable /\ target \in Hwnd
         /\ DOMAIN layout = 1..Len(layout) /\ DOMAIN layout \subseteq Nat /\ 1 \in DOMAIN layout
         /\ \A n \in DOMAIN layout : layout[n].workarea \in Rectangle
<1>1. layout \in Layouts /\ call \in Call /\ (~At("idle") => target \in Movable)
  BY DEF Typed, StateInv, CallInv
<1> QED
  BY <1>1, WindowAssumption, LayoutFacts

\* The keys of ui.window differ.
LEMMA KeysDiffer ==
  /\ \A a \in axes : zoomedp(a) \in Key /\ workarea(a) \in Key
  /\ \A a, b \in axes : zoomedp(a) # workarea(b)
  /\ \A a, b \in axes : a # b => zoomedp(a) # zoomedp(b) /\ workarea(a) # workarea(b)
<1>1. \A a \in axes : zoomedp(a) \in Key /\ workarea(a) \in Key
  BY KeyAssumption
<1>2. ASSUME NEW a \in axes, NEW b \in axes PROVE zoomedp(a) # workarea(b)
  <2>1. zoomedp(a)[2] = "zoomedp" /\ workarea(b)[2] = "workarea"
    BY DEF zoomedp, workarea
  <2> QED
    BY <2>1
<1>3. ASSUME NEW a \in axes, NEW b \in axes, a # b
      PROVE  zoomedp(a) # zoomedp(b) /\ workarea(a) # workarea(b)
  <2>1. zoomedp(a)[1] = a /\ workarea(a)[1] = a /\ zoomedp(b)[1] = b /\ workarea(b)[1] = b
    BY DEF zoomedp, workarea
  <2> QED
    BY <1>3, <2>1
<1> QED
  BY <1>1, <1>2, <1>3

\* What is read of the placement of a window.
LEMMA PlacementRead ==
  ASSUME Typed, NEW h
  PROVE  get_placement(h) \subseteq Rectangle
BY WindowAssumption DEF get_placement, Typed, StateInv

\* It sets the flag,
LEMMA SetZoomedTyped ==
  ASSUME Typed, ByScript, SetZoomed, NEW w, w = target
  PROVE  /\ Typed'
         /\ w \in alive => Properties(w)' = [Properties(w) EXCEPT ![zoomedp(axis)] = ~call.zoomed]
         /\ \A h \in alive : h # w => Untouched(h)
         /\ TableStep
<1>1. /\ At("set") /\ axis \in axes /\ w \in Hwnd /\ call \in Call /\ alive' = alive
      /\ set_property(w, zoomedp(axis), ~call.zoomed)
      /\ call' = [call EXCEPT !.at = "place"]
      /\ UNCHANGED <<placement, requests, before, goal, layout>>
  BY CallTyped DEF SetZoomed, ByScript, Typed, CallInv, At
<1> PICK k, v : k = zoomedp(axis) /\ v = ~call.zoomed
  OBVIOUS
<1>2. k \in Key /\ v \in Value /\ k \notin {workarea(a) : a \in axes}
  <2>1. v \in BOOLEAN
    OBVIOUS
  <2>2. k \in Key /\ \A a \in axes : k # workarea(a)
    BY <1>1, KeysDiffer
  <2> QED
    BY <2>1, <2>2 DEF Value
<1>3. /\ TableInv'
      /\ w \in alive => Properties(w)' = [Properties(w) EXCEPT ![k] = v]
      /\ \A h \in alive : h # w => Properties(h)' = Properties(h)
      /\ given' = IF w \in alive THEN [given EXCEPT ![w][k] = v] ELSE given
  <2>1. set_property(w, k, v) /\ TableInv
    BY <1>1 DEF Typed
  <2> QED
    BY ONLY <1>1, <1>2, <2>1, Sets
<1>4. TableStep
  <2>1. CASE w \in alive
    <3>1. SetTo(w, k, v)
      BY <1>3, <2>1 DEF Untouched, SetTo
    <3> QED
      BY ONLY <1>2, <1>3, <2>1, <3>1 DEF TableStep
  <2>2. CASE w \notin alive
    BY <1>3, <2>2 DEF TableStep, Untouched
  <2> QED
    BY <2>1, <2>2
<1>5. CallInv'
  BY <1>1 DEF Typed, CallInv, At, target, axis, Call
<1>6. StateInv'
  BY <1>1 DEF Typed, StateInv
<1> QED
  BY <1>3, <1>4, <1>5, <1>6 DEF Typed, Untouched

\* reads the placement of the window
LEMMA PlaceTyped ==
  ASSUME Typed, ByScript, Place
  PROVE  Typed' /\ TableStep /\ \A h \in alive : Untouched(h)
<1>1. /\ At("place") /\ call \in Call /\ alive' = alive
      /\ UNCHANGED <<hwnd_table, given, placement, requests, before, goal, layout>>
  BY CallTyped DEF Place, ByScript
<1>2. PICK r \in get_placement(target) : call' = [call EXCEPT !.at = "keep", !.r = r]
  BY DEF Place
<1>3. r \in Rectangle
  BY <1>2, PlacementRead
<1>4. TableInv' /\ \A h \in alive : Untouched(h)
  BY <1>1, TableSame DEF Typed, Untouched
<1>5. CallInv'
  BY <1>1, <1>2, <1>3 DEF Typed, CallInv, At, target, axis, Call
<1>6. StateInv'
  BY <1>1 DEF Typed, StateInv
<1> QED
  BY <1>1, <1>4, <1>5, <1>6 DEF Typed, TableStep

\* and keeps it, if it maximizes.
LEMMA KeepTyped ==
  ASSUME Typed, ByScript, Keep, NEW w, w = target
  PROVE  /\ Typed'
         /\ w \in alive => Properties(w)' = [Properties(w) EXCEPT ![workarea(axis)] = call.r]
         /\ \A h \in alive : h # w => Untouched(h)
         /\ TableStep
<1>1. /\ At("keep") /\ axis \in axes /\ w \in Hwnd /\ call \in Call /\ alive' = alive
      /\ set_property(w, workarea(axis), call.r) /\ call.r \in Rectangle /\ ~call.zoomed
      /\ call' = [call EXCEPT !.at = "area"]
      /\ UNCHANGED <<placement, requests, before, goal, layout>>
  BY CallTyped DEF Keep, ByScript, Typed, CallInv, At
<1> PICK k, v : k = workarea(axis) /\ v = call.r
  OBVIOUS
<1>2. k \in Key /\ v \in Value /\ v \in {nil} \cup Rectangle
  BY <1>1, KeysDiffer DEF Value
<1>3. /\ TableInv'
      /\ w \in alive => Properties(w)' = [Properties(w) EXCEPT ![k] = v]
      /\ \A h \in alive : h # w => Properties(h)' = Properties(h)
      /\ given' = IF w \in alive THEN [given EXCEPT ![w][k] = v] ELSE given
  <2>1. set_property(w, k, v) /\ TableInv
    BY <1>1 DEF Typed
  <2> QED
    BY ONLY <1>1, <1>2, <2>1, Sets
<1>4. TableStep
  <2>1. CASE w \in alive
    <3>1. SetTo(w, k, v)
      BY <1>3, <2>1 DEF Untouched, SetTo
    <3> QED
      BY ONLY <1>2, <1>3, <2>1, <3>1 DEF TableStep
  <2>2. CASE w \notin alive
    BY <1>3, <2>2 DEF TableStep, Untouched
  <2> QED
    BY <2>1, <2>2
<1>5. CallInv'
  BY <1>1 DEF Typed, CallInv, At, target, axis, Call
<1>6. StateInv'
  BY <1>1 DEF Typed, StateInv
<1> QED
  BY <1>3, <1>4, <1>5, <1>6 DEF Typed, Untouched

\* Along changes one axis and leaves the other.
LEMMA AlongIsRectangle ==
  ASSUME call.r \in Rectangle, NEW r \in Rectangle
  PROVE  /\ Along(r) \in Rectangle
         /\ axis = "v" => /\ Along(r).x = call.r.x /\ Along(r).w = call.r.w
                          /\ Along(r).y = r.y /\ Along(r).h = r.h
         /\ axis # "v" => /\ Along(r).x = r.x /\ Along(r).w = r.w
                          /\ Along(r).y = call.r.y /\ Along(r).h = call.r.h
BY DEF Along, Rectangle

\* What move and resize are called with.
LEMMA ChangeTyped ==
  ASSUME call \in Call, NEW r \in Rectangle
  PROVE  /\ Change(r) \in Call /\ Change(r).at = "move"
         /\ Change(r).op = call.op /\ Change(r).hwnd = call.hwnd /\ Change(r).m = call.m
         /\ Change(r).arguments \in Argument
         /\ Change(r).arguments.tx = A /\ Change(r).arguments.ty = A
         /\ Change(r).arguments.dx = r.x /\ Change(r).arguments.dy = r.y
         /\ Change(r).size \in Size /\ Change(r).size.w = r.w /\ Change(r).size.h = r.h
<1> PICK b, z : b = Absolute(r) /\ z = [w |-> r.w, h |-> r.h]
  OBVIOUS
<1>1. /\ b \in Argument /\ b.tx = A /\ b.ty = A /\ b.dx = r.x /\ b.dy = r.y
      /\ z \in Size /\ z.w = r.w /\ z.h = r.h
  BY DEF Absolute, A, Argument, Distance, Rectangle, Size
<1>2. Change(r) = [call EXCEPT !.at = "move", !.arguments = b, !.size = z]
  BY DEF Change
<1> QED
  BY <1>1, <1>2 DEF Call

\* A step that neither reads nor changes the properties.
Elsewhere == UNCHANGED <<hwnd_table, given, alive, layout>>

\* It leaves each window its properties.
LEMMA ElsewhereTable ==
  ASSUME Typed, Elsewhere
  PROVE  TableInv' /\ TableStep /\ \A h \in alive : Untouched(h)
<1>1. TableInv' /\ given' = given /\ \A h \in alive : Untouched(h)
  BY TableSame DEF Typed, Untouched, Elsewhere
<1> QED
  BY <1>1 DEF TableStep

\* The toggle goes on to move the window to the work area
LEMMA MaximizeToTyped ==
  ASSUME Typed, ByScript, MaximizeTo
  PROVE  Typed' /\ Elsewhere
<1>1. /\ At("area") /\ axis \in axes /\ call.r \in Rectangle /\ call \in Call /\ call.m = 0
      /\ UNCHANGED <<placement, requests, before, goal>> /\ Elsewhere
  BY CallTyped DEF MaximizeTo, ByScript, Typed, CallInv, At, Elsewhere
<1>2. PICK n \in monitors(target) : call' = Change(Along(layout[n].workarea))
  BY DEF MaximizeTo
<1>3. n \in DOMAIN layout
  BY DEF monitors, find_by_window
<1>4. Along(layout[n].workarea) \in Rectangle
  BY <1>1, <1>3, CallTyped, AlongIsRectangle
<1>5. /\ call' \in Call /\ call'.at = "move" /\ call'.op = call.op /\ call'.hwnd = call.hwnd
      /\ call'.m = call.m /\ call'.arguments \in Argument /\ call'.size \in Size
  BY <1>1, <1>2, <1>4, ChangeTyped
<1>6. StateInv'
  BY <1>1 DEF Typed, StateInv, Elsewhere
<1>7. target \in Movable
  BY <1>1, CallTyped DEF At
<1>8. CallInv'
  BY <1>1, <1>5, <1>7 DEF CallInv, At, target, axis, axes
<1> QED
  BY <1>1, <1>6, <1>8, ElsewhereTable DEF Typed

\* or to what was kept.
LEMMA RestoreTyped ==
  ASSUME Typed, ByScript, Restore, NEW w, w = target
  PROVE  /\ Typed' /\ TableStep /\ \A h \in alive : Untouched(h)
<1>1. /\ At("keep") /\ axis \in axes /\ call.r \in Rectangle /\ call \in Call /\ call.m = 0
      /\ Get(w) /\ w \in Hwnd /\ w \in Movable /\ alive' = alive /\ layout' = layout
      /\ UNCHANGED <<placement, requests, before, goal>>
  BY CallTyped DEF Restore, ByScript, Typed, CallInv, At
<1>2. TableInv' /\ given' = given /\ \A h \in alive : Untouched(h)
  BY <1>1, Gets DEF Typed, Untouched
<1> PICK kept : kept = get_property(w, workarea(axis))
  OBVIOUS
<1>3. call' = IF kept = nil THEN Idle ELSE Change(Along(kept))
  BY DEF Restore
<1>4. kept \in {nil} \cup Rectangle
  BY <1>1, Looked DEF Typed, get_property
<1>5. CASE kept = nil
  <2>1. CallInv'
    BY <1>3, <1>5, IdleTyped DEF CallInv, At
  <2> QED
    BY <1>1, <1>2, <2>1 DEF Typed, StateInv, TableStep
<1>6. CASE kept # nil
  <2>1. Along(kept) \in Rectangle
    BY <1>1, <1>4, <1>6, AlongIsRectangle
  <2>2. /\ call' \in Call /\ call'.at = "move" /\ call'.op = call.op /\ call'.hwnd = call.hwnd
        /\ call'.m = call.m /\ call'.arguments \in Argument /\ call'.size \in Size
    BY <1>1, <1>3, <1>6, <2>1, ChangeTyped
  <2>3. CallInv'
    BY <1>1, <2>2 DEF CallInv, At, target, axis, axes
  <2>4. StateInv'
    BY <1>1 DEF Typed, StateInv
  <2> QED
    BY <1>2, <2>3, <2>4 DEF Typed, TableStep
<1> QED
  BY <1>5, <1>6

\* A move to another monitor begins: there is one.
LEMMA NextMonitorTyped ==
  ASSUME Typed, ByScript, NEW hwnd \in Movable, NEW delta \in 0..1, move_to_next_monitor(hwnd, delta)
  PROVE  Typed' /\ Elsewhere
<1>1. /\ hwnd \in Hwnd
      /\ before' = [before EXCEPT ![hwnd] = nil] /\ goal' = [goal EXCEPT ![hwnd] = nil]
      /\ UNCHANGED <<placement, requests>> /\ Elsewhere
  BY WindowAssumption DEF move_to_next_monitor, ByScript, Elsewhere
<1>2. PICK n \in monitors(hwnd) :
        call' = [Idle EXCEPT !.at = "find", !.op = "monitor", !.hwnd = hwnd,
                             !.dest = find_next_monitor(delta, n)]
  BY DEF move_to_next_monitor
<1>3. n \in DOMAIN layout
  BY DEF monitors, find_by_window
<1> PICK dest : dest = find_next_monitor(delta, n)
  OBVIOUS
<1>4. dest \in DOMAIN layout /\ dest \in Nat
  <2> PICK l : l = Len(layout)
    OBVIOUS
  <2>1. l \in Nat /\ l # 0 /\ DOMAIN layout = 1..l
    BY LayoutFacts DEF Typed, StateInv
  <2> PICK k : k = (n - 1) + delta
    OBVIOUS
  <2>2. k \in Int
    BY <1>3, <2>1
  <2>3. k % l \in 0..l - 1
    BY ONLY <2>1, <2>2
  <2>4. dest = 1 + (k % l)
    BY DEF find_next_monitor
  <2> QED
    BY <2>1, <2>3, <2>4
<1>5. /\ call' \in Call /\ call'.at = "find" /\ call'.op = "monitor" /\ call'.hwnd = hwnd
      /\ call'.dest = dest /\ call'.size = nil
  BY <1>1, <1>2, <1>4 DEF Idle, Call
<1>6. CallInv'
  BY <1>1, <1>4, <1>5 DEF CallInv, At, target, axis, axes, Elsewhere
<1>7. StateInv'
  BY <1>1 DEF Typed, StateInv, Elsewhere
<1> QED
  BY <1>1, <1>6, <1>7, ElsewhereTable DEF Typed

\* A move begins.
LEMMA MoveCallTyped ==
  ASSUME Typed, ByScript, NEW hwnd \in Movable, NEW a \in Moves, move(hwnd, a)
  PROVE  Typed' /\ Elsewhere
<1>1. /\ hwnd \in Hwnd /\ a \in Argument
      /\ call' = [Idle EXCEPT !.at = "find", !.op = "move", !.hwnd = hwnd, !.arguments = a]
      /\ before' = [before EXCEPT ![hwnd] = nil] /\ goal' = [goal EXCEPT ![hwnd] = nil]
      /\ UNCHANGED <<placement, requests>> /\ Elsewhere
  BY WindowAssumption DEF move, ByScript, Elsewhere
<1>2. /\ call' \in Call /\ call'.at = "find" /\ call'.op = "move" /\ call'.hwnd = hwnd
      /\ call'.arguments = a /\ call'.size = nil
  BY <1>1 DEF Idle, Call
<1>3. CallInv'
  BY <1>1, <1>2 DEF CallInv, At, target, axis, axes
<1>4. StateInv'
  BY <1>1 DEF Typed, StateInv, Elsewhere
<1> QED
  BY <1>1, <1>3, <1>4, ElsewhereTable DEF Typed

\* The monitor that is found is one.
LEMMA FindTyped ==
  ASSUME Typed, ByScript, FindMonitor
  PROVE  Typed' /\ Elsewhere
<1>1. /\ At("find") /\ call \in Call /\ target \in Movable /\ target \in Hwnd /\ CallInv
      /\ UNCHANGED <<placement, requests, before>> /\ Elsewhere
  BY CallTyped DEF FindMonitor, ByScript, Elsewhere, At, Typed
<1>2. PICK n \in monitors(target) :
        /\ call' = [call EXCEPT !.at = IF call.op = "move" THEN "move" ELSE "fit", !.m = n]
        /\ goal' = [goal EXCEPT ![target] =
             IF ~Still(target) THEN nil
             ELSE IF call.op = "move" THEN [m |-> n, arguments |-> call.arguments]
                                      ELSE [m |-> call.dest]]
  BY DEF FindMonitor
<1>3. n \in DOMAIN layout /\ n \in Nat
  BY CallTyped DEF monitors, find_by_window
<1>4. CallInv'
  BY <1>1, <1>2, <1>3 DEF CallInv, At, target, axis, axes, Elsewhere, Call
<1>5. goal' \in [Hwnd -> Goal \cup {nil}]
  <2>1. call.op = "move" => [m |-> n, arguments |-> call.arguments] \in Goal
    BY <1>1, <1>3 DEF Goal, CallInv, At
  <2>2. [m |-> call.dest] \in Goal
    BY <1>1 DEF Goal, Call
  <2> QED
    BY <1>1, <1>2, <2>1, <2>2 DEF Typed, StateInv
<1>6. StateInv'
  BY <1>1, <1>5 DEF Typed, StateInv, Elsewhere
<1> QED
  BY <1>1, <1>4, <1>6, ElsewhereTable DEF Typed

\* What the window is pulled back to becomes the arguments of move.
LEMMA FitTyped ==
  ASSUME Typed, ByScript, Fit
  PROVE  /\ Typed' /\ Elsewhere
         /\ target \in alive =>
              /\ call'.arguments = Absolute(Fitted(placement[target], layout[call.m].workarea,
                                                   layout[call.dest].workarea))
         /\ call'.at = "move" /\ call'.op = "monitor" /\ call'.hwnd = target
         /\ call'.m = call.m /\ call'.dest = call.dest /\ call'.size = nil
<1>1. /\ At("fit") /\ call \in Call /\ CallInv
      /\ UNCHANGED <<placement, requests, before, goal>> /\ Elsewhere
  BY CallTyped DEF Fit, ByScript, Elsewhere, At, Typed
<1> PICK src, dest : src = layout[call.m].workarea /\ dest = layout[call.dest].workarea
  OBVIOUS
<1>2. PICK r \in get_placement(target) :
        call' = [call EXCEPT !.at = "move", !.arguments = Absolute(Fitted(r, src, dest))]
  BY DEF Fit
<1>3. r \in Rectangle /\ src \in Rectangle /\ dest \in Rectangle
  BY <1>1, PlacementRead, CallTyped DEF CallInv, At
<1> PICK p : p = Fitted(r, src, dest)
  OBVIOUS
<1>4. p \in Position
  BY <1>3, FittedInside
<1>5. Absolute(p) \in Argument
  BY <1>4 DEF Absolute, A, Argument, Distance, Position
<1>6. /\ call' \in Call /\ call'.at = "move" /\ call'.op = call.op /\ call'.hwnd = call.hwnd
      /\ call'.m = call.m /\ call'.dest = call.dest /\ call'.size = call.size
      /\ call'.arguments = Absolute(p)
  BY <1>1, <1>2, <1>5 DEF Call
<1>7. CallInv'
  BY <1>1, <1>5, <1>6 DEF CallInv, At, target, axis, axes, Elsewhere
<1>8. StateInv'
  BY <1>1 DEF Typed, StateInv, Elsewhere
<1>9. target \in alive => r = placement[target]
  BY <1>2 DEF get_placement
<1> QED
  BY <1>1, <1>6, <1>7, <1>8, <1>9, ElsewhereTable DEF Typed, CallInv, At, target

\* A request waits behind the others, if the window exists.
LEMMA RequestTyped ==
  ASSUME StateInv, NEW w \in Hwnd, w = target, NEW q \in Position \cup Size, Request(q)
  PROVE  /\ requests' = IF w \in alive THEN [requests EXCEPT ![w] = Append(requests[w], q)]
                                       ELSE requests
         /\ requests' \in [Hwnd -> Seq(Position \cup Size)]
         /\ \A h \in Hwnd \ alive : requests'[h] = <<>>
<1>1. requests \in [Hwnd -> Seq(Position \cup Size)] /\ \A h \in Hwnd \ alive : requests[h] = <<>>
  BY DEF StateInv
<1>2. Append(requests[w], q) \in Seq(Position \cup Size)
  BY <1>1, AppendProperties
<1>3. requests' = IF w \in alive THEN [requests EXCEPT ![w] = Append(requests[w], q)] ELSE requests
  BY DEF Request
<1> QED
  BY <1>1, <1>2, <1>3

\* The window is asked for a position,
LEMMA MoveTyped ==
  ASSUME Typed, ByScript, Move, NEW w, w = target
  PROVE  /\ Typed' /\ Elsewhere
         /\ \E r \in get_placement(w) :
              LET q == Moved(r, layout[Larger(call.m, 1)].workarea, call.arguments)
              IN  /\ q \in Position
                  /\ requests' = IF w \in alive
                                 THEN [requests EXCEPT ![w] = Append(requests[w], q)] ELSE requests
         /\ call' = IF call.size = nil THEN Idle ELSE [call EXCEPT !.at = "resize"]
<1>1. /\ At("move") /\ call \in Call /\ CallInv /\ w \in Hwnd /\ StateInv
      /\ UNCHANGED <<placement, before, goal>> /\ Elsewhere
      /\ call' = IF call.size = nil THEN Idle ELSE [call EXCEPT !.at = "resize"]
  BY CallTyped DEF Move, ByScript, Elsewhere, At, Typed
<1>2. PICK r \in get_placement(w) :
        Request(Moved(r, layout[Larger(call.m, 1)].workarea, call.arguments))
  BY DEF Move
<1> PICK n : n = Larger(call.m, 1)
  OBVIOUS
<1>3. n \in DOMAIN layout
  <2> PICK l : l = Len(layout)
    OBVIOUS
  <2>1. l \in Nat /\ l # 0 /\ DOMAIN layout = 1..l
    BY LayoutFacts DEF Typed, StateInv
  <2>2. call.m = 0 \/ call.m \in 1..l
    BY <1>1, <2>1 DEF CallInv, At
  <2> QED
    BY ONLY <2>1, <2>2, n = Larger(call.m, 1) DEF Larger
<1> PICK q : q = Moved(r, layout[n].workarea, call.arguments)
  OBVIOUS
<1>4. q \in Position
  <2>1. r \in Rectangle /\ layout[n].workarea \in Rectangle /\ call.arguments \in Argument
        /\ layout \in Layouts
    BY <1>1, <1>3, PlacementRead, CallTyped DEF CallInv, At, StateInv
  <2> QED
    BY <2>1, MovedIsPosition
<1>5. /\ requests' = IF w \in alive THEN [requests EXCEPT ![w] = Append(requests[w], q)]
                                    ELSE requests
      /\ requests' \in [Hwnd -> Seq(Position \cup Size)]
      /\ \A h \in Hwnd \ alive : requests'[h] = <<>>
  BY <1>1, <1>2, <1>4, RequestTyped
<1>6. StateInv'
  BY <1>1, <1>5 DEF StateInv, Elsewhere
<1>7. CallInv'
  <2>1. CASE call.size = nil
    BY <1>1, <2>1, IdleTyped DEF CallInv, At
  <2>2. CASE call.size # nil
    <3>1. /\ call' \in Call /\ call'.at = "resize" /\ call'.op = call.op
          /\ call'.hwnd = call.hwnd /\ call'.size = call.size
      BY <1>1, <2>2 DEF Call
    <3> QED
      BY <1>1, <2>2, <3>1 DEF CallInv, At, target, axis, axes
  <2> QED
    BY <2>1, <2>2
<1> QED
  BY <1>1, <1>4, <1>5, <1>6, <1>7, ElsewhereTable DEF Typed

\* and, by a toggle, for a size.
LEMMA ResizeTyped ==
  ASSUME Typed, ByScript, Resize, NEW w, w = target
  PROVE  /\ Typed' /\ Elsewhere /\ call.size \in Size /\ call' = Idle
         /\ requests' = IF w \in alive THEN [requests EXCEPT ![w] = Append(requests[w], call.size)]
                                       ELSE requests
<1>1. /\ At("resize") /\ call \in Call /\ CallInv /\ w \in Hwnd /\ StateInv
      /\ UNCHANGED <<placement, before, goal>> /\ Elsewhere
      /\ call' = Idle /\ Request(call.size)
  BY CallTyped DEF Resize, ByScript, Elsewhere, At, Typed
<1>2. call.size \in Size
  BY <1>1 DEF CallInv, At
<1>3. /\ requests' = IF w \in alive THEN [requests EXCEPT ![w] = Append(requests[w], call.size)]
                                    ELSE requests
      /\ requests' \in [Hwnd -> Seq(Position \cup Size)]
      /\ \A h \in Hwnd \ alive : requests'[h] = <<>>
  BY <1>1, <1>2, RequestTyped
<1>4. StateInv'
  BY <1>1, <1>3 DEF StateInv, Elsewhere
<1>5. CallInv'
  BY <1>1, IdleTyped DEF CallInv, At
<1> QED
  BY <1>1, <1>2, <1>3, <1>4, <1>5, ElsewhereTable DEF Typed

\* Scripts have properties of windows that are not moved.
LEMMA ScriptTyped ==
  ASSUME Typed, ByScript, NEW hwnd \in Hwnd \ Movable, NEW key \in ScriptKey, Script(hwnd, key)
  PROVE  Typed' /\ TableStep /\ \A h \in alive : h # hwnd => Untouched(h)
<1>1. /\ hwnd \in Hwnd /\ hwnd \notin Movable /\ key \in Key
      /\ set_property(hwnd, key, TRUE) \/ remove_property(hwnd, key)
      /\ alive' = alive /\ layout' = layout /\ TableInv
      /\ UNCHANGED <<placement, requests, call, before, goal>>
  BY KeyAssumption DEF Script, ByScript, Typed
<1>2. TRUE \in Value /\ nil \in Value
  BY DEF Value
<1>3. \E v \in Value :
        /\ TableInv'
        /\ hwnd \in alive => Properties(hwnd)' = [Properties(hwnd) EXCEPT ![key] = v]
        /\ \A h \in alive : h # hwnd => Properties(h)' = Properties(h)
        /\ given' = IF hwnd \in alive THEN [given EXCEPT ![hwnd][key] = v] ELSE given
  <2>1. CASE set_property(hwnd, key, TRUE)
    BY <1>1, <1>2, <2>1, Sets
  <2>2. CASE remove_property(hwnd, key)
    BY <1>1, <1>2, <2>2, Removes
  <2> QED
    BY <1>1, <2>1, <2>2
<1>4. PICK v \in Value :
        /\ TableInv'
        /\ hwnd \in alive => Properties(hwnd)' = [Properties(hwnd) EXCEPT ![key] = v]
        /\ \A h \in alive : h # hwnd => Properties(h)' = Properties(h)
        /\ given' = IF hwnd \in alive THEN [given EXCEPT ![hwnd][key] = v] ELSE given
  BY <1>3
<1>5. TableStep
  <2>1. CASE hwnd \in alive
    <3>1. SetTo(hwnd, key, v)
      BY <1>4, <2>1 DEF Untouched, SetTo
    <3> QED
      BY ONLY <1>1, <1>4, <2>1, <3>1 DEF TableStep
  <2>2. CASE hwnd \notin alive
    BY <1>4, <2>2 DEF TableStep, Untouched
  <2> QED
    BY <2>1, <2>2
<1>6. CallInv' /\ StateInv'
  BY <1>1 DEF Typed, CallInv, StateInv, At, target, axis
<1> QED
  BY <1>4, <1>5, <1>6 DEF Typed, Untouched

\* What other processes and the user leave alone.
ByOthers == UNCHANGED <<layout, hwnd_table, call, calls>>

\* What a window has depends on no other window that exists.
LEMMA OthersTable ==
  ASSUME KeptInv, ByOthers, alive' \subseteq Hwnd, given' \in [Hwnd -> [Key -> Value]],
         \A h \in alive \cap alive' : given'[h] = given[h],
         \A h \in Hwnd : h \notin alive \/ h \notin alive' => given'[h] = [k \in Key |-> unknown]
  PROVE  /\ KeptInv'
         /\ \A h \in alive \cap alive' : Untouched(h)
<1>1. TableInv'
  BY DEF KeptInv, TableInv, Decent, ByOthers
<1>2. GoneAreUnknown'
  BY DEF GoneAreUnknown
<1>3. ASSUME NEW h \in alive \cap alive' PROVE Untouched(h)
  BY DEF Untouched, Properties, Knows, Found, Nothing, ByOthers
<1>4. PropertiesKept'
  <2> SUFFICES ASSUME NEW h \in alive', NEW k \in Key, given'[h][k] # unknown
               PROVE  Properties(h)'[k] = given'[h][k]
    BY DEF PropertiesKept, get_property
  <2>1. h \in Hwnd /\ h \in alive
    OBVIOUS
  <2>2. Properties(h)' = Properties(h) /\ given'[h] = given[h]
    BY <1>3, <2>1 DEF Untouched
  <2> QED
    BY <2>1, <2>2 DEF KeptInv, PropertiesKept, get_property
<1> QED
  BY <1>1, <1>2, <1>3, <1>4 DEF KeptInv

\* A window that obeys changes its position or its size.
LEMMA ProcessedIsRectangle ==
  ASSUME NEW r \in Rectangle, NEW q \in Position \cup Size
  PROVE  /\ Processed(r, q) \in Rectangle
         /\ q \in Position => /\ "x" \in DOMAIN q
                              /\ Processed(r, q).x = q.x /\ Processed(r, q).y = q.y
                              /\ Processed(r, q).w = r.w /\ Processed(r, q).h = r.h
         /\ q \in Size => /\ "x" \notin DOMAIN q
                          /\ Processed(r, q).x = r.x /\ Processed(r, q).y = r.y
                          /\ Processed(r, q).w = q.w /\ Processed(r, q).h = q.h
<1>1. CASE q \in Position
  <2>1. "x" \in DOMAIN q /\ q \notin Size
    BY <1>1 DEF Position, Size
  <2> QED
    BY <1>1, <2>1 DEF Processed, Rectangle, Position
<1>2. CASE q \in Size
  <2>1. "x" \notin DOMAIN q /\ q \notin Position
    BY <1>2 DEF Position, Size
  <2> QED
    BY <1>2, <2>1 DEF Processed, Rectangle, Size
<1> QED
  BY <1>1, <1>2

\* A window with requests exists, and obeys one.
LEMMA ProcessTyped ==
  ASSUME Typed, KeptInv, ByOthers, NEW hwnd \in Hwnd, Process(hwnd)
  PROVE  /\ Typed' /\ KeptInv' /\ Elsewhere
         /\ hwnd \in alive /\ Head(requests[hwnd]) \in Position \cup Size
<1>1. /\ requests[hwnd] # <<>>
      /\ placement' = [placement EXCEPT ![hwnd] = Processed(placement[hwnd], Head(requests[hwnd]))]
      /\ requests' = [requests EXCEPT ![hwnd] = Tail(requests[hwnd])]
      /\ UNCHANGED <<alive, given, before, goal, layout, call, hwnd_table>>
  BY DEF Process, ByOthers
<1> PICK s : s = requests[hwnd]
  OBVIOUS
<1>2. StateInv /\ CallInv /\ TableInv
  BY DEF Typed
<1>3. s \in Seq(Position \cup Size) /\ s # <<>>
  BY <1>1, <1>2 DEF StateInv
<1>4. Head(s) \in Position \cup Size /\ Tail(s) \in Seq(Position \cup Size)
  BY <1>3, HeadTailProperties
<1>5. hwnd \in alive
  BY <1>1, <1>2 DEF StateInv
<1>6. Processed(placement[hwnd], Head(s)) \in Rectangle
  BY <1>2, <1>4, <1>5, ProcessedIsRectangle DEF StateInv
<1>7. StateInv'
  BY <1>1, <1>2, <1>4, <1>5, <1>6 DEF StateInv
<1>8. CallInv'
  BY <1>1, <1>2 DEF CallInv, At, target, axis
<1>9. KeptInv'
  <2>1. /\ alive' \subseteq Hwnd /\ given' \in [Hwnd -> [Key -> Value]]
        /\ \A h \in alive \cap alive' : given'[h] = given[h]
        /\ \A h \in Hwnd : h \notin alive \/ h \notin alive' => given'[h] = [k \in Key |-> unknown]
    BY <1>1, <1>2 DEF TableInv, KeptInv, GoneAreUnknown
  <2> QED
    BY <2>1, OthersTable
<1> QED
  BY <1>1, <1>4, <1>5, <1>7, <1>8, <1>9 DEF Typed, KeptInv, Elsewhere

\* The user moves a window.
LEMMA UserTyped ==
  ASSUME Typed, KeptInv, ByOthers, NEW hwnd \in Hwnd, NEW r \in Rectangle, UserMoves(hwnd, r)
  PROVE  Typed' /\ KeptInv' /\ Elsewhere
<1>1. /\ hwnd \in alive
      /\ placement' = [placement EXCEPT ![hwnd] = r]
      /\ before' = [before EXCEPT ![hwnd] = nil]
      /\ goal' = [goal EXCEPT ![hwnd] = nil]
      /\ UNCHANGED <<alive, given, requests, layout, call, hwnd_table>>
  BY DEF UserMoves, Changed, ByOthers
<1>2. StateInv /\ CallInv /\ TableInv
  BY DEF Typed
<1>3. StateInv'
  BY <1>1, <1>2 DEF StateInv
<1>4. CallInv'
  BY <1>1, <1>2 DEF CallInv, At, target, axis
<1>5. KeptInv'
  <2>1. /\ alive' \subseteq Hwnd /\ given' \in [Hwnd -> [Key -> Value]]
        /\ \A h \in alive \cap alive' : given'[h] = given[h]
        /\ \A h \in Hwnd : h \notin alive \/ h \notin alive' => given'[h] = [k \in Key |-> unknown]
    BY <1>1, <1>2 DEF TableInv, KeptInv, GoneAreUnknown
  <2> QED
    BY <2>1, OthersTable
<1> QED
  BY <1>1, <1>3, <1>4, <1>5 DEF Typed, KeptInv, Elsewhere

\* A window appears; what it inherits is not known to be its own.
LEMMA CreatedTyped ==
  ASSUME Typed, KeptInv, ByOthers, NEW hwnd \in Hwnd, NEW r \in Rectangle, Created(hwnd, r)
  PROVE  Typed' /\ KeptInv' /\ \A h \in alive : Untouched(h)
<1>1. /\ hwnd \notin alive /\ alive' = alive \cup {hwnd}
      /\ placement' = [placement EXCEPT ![hwnd] = r]
      /\ before' = [before EXCEPT ![hwnd] = nil]
      /\ goal' = [goal EXCEPT ![hwnd] = nil]
      /\ UNCHANGED <<given, requests, layout, call, hwnd_table>>
  BY DEF Created, Changed, ByOthers
<1>2. StateInv /\ CallInv /\ TableInv
  BY DEF Typed
<1>3. StateInv'
  BY <1>1, <1>2 DEF StateInv
<1>4. CallInv'
  BY <1>1, <1>2 DEF CallInv, At, target, axis
<1>5. KeptInv' /\ \A h \in alive \cap alive' : Untouched(h)
  <2>1. /\ alive' \subseteq Hwnd /\ given' \in [Hwnd -> [Key -> Value]]
        /\ \A h \in alive \cap alive' : given'[h] = given[h]
        /\ \A h \in Hwnd : h \notin alive \/ h \notin alive' => given'[h] = [k \in Key |-> unknown]
    BY <1>1, <1>2 DEF TableInv, KeptInv, GoneAreUnknown
  <2> QED
    BY <2>1, OthersTable
<1> QED
  BY <1>1, <1>3, <1>4, <1>5 DEF Typed, KeptInv

\* A window goes; the next with its handle knows nothing.
LEMMA DiesTyped ==
  ASSUME Typed, KeptInv, ByOthers, NEW hwnd \in Hwnd, Dies(hwnd)
  PROVE  Typed' /\ KeptInv' /\ \A h \in alive' : Untouched(h)
<1>1. /\ hwnd \in alive /\ alive' = alive \ {hwnd}
      /\ placement' = [placement EXCEPT ![hwnd] = nil]
      /\ before' = [before EXCEPT ![hwnd] = nil]
      /\ goal' = [goal EXCEPT ![hwnd] = nil]
      /\ given' = [given EXCEPT ![hwnd] = [k \in Key |-> unknown]]
      /\ requests' = [requests EXCEPT ![hwnd] = <<>>]
      /\ UNCHANGED <<layout, call, hwnd_table>>
  BY DEF Dies, Changed, ByOthers
<1>2. StateInv /\ CallInv /\ TableInv
  BY DEF Typed
<1>3. StateInv'
  BY <1>1, <1>2, EmptySeq DEF StateInv
<1>4. CallInv'
  BY <1>1, <1>2 DEF CallInv, At, target, axis
<1>5. KeptInv' /\ \A h \in alive \cap alive' : Untouched(h)
  <2> PICK u : u = [k \in Key |-> unknown]
    OBVIOUS
  <2>1. u \in [Key -> Value]
    BY DEF Value
  <2>2. given' \in [Hwnd -> [Key -> Value]]
    BY <1>1, <1>2, <2>1 DEF TableInv
  <2>3. /\ alive' \subseteq Hwnd
        /\ \A h \in alive \cap alive' : given'[h] = given[h]
        /\ \A h \in Hwnd : h \notin alive \/ h \notin alive' => given'[h] = u
    BY <1>1, <1>2 DEF TableInv, KeptInv, GoneAreUnknown
  <2> QED
    BY <2>2, <2>3, OthersTable
<1> QED
  BY <1>1, <1>3, <1>4, <1>5 DEF Typed, KeptInv

CountInv == calls \in 0..MaxCalls /\ changes \in 0..MaxChanges

\* The bounds are kept.
LEMMA CountKept ==
  ASSUME CountInv, [Next]_vars
  PROVE  CountInv'
<1>1. /\ calls \in Nat /\ calls <= MaxCalls /\ changes \in Nat /\ changes <= MaxChanges
      /\ MaxCalls \in Nat /\ MaxChanges \in Nat
      /\ \A kind \in {"toggle", "move", "property", "early"} : Cost[kind] \in Nat
  BY BoundAssumption DEF CountInv
<1>2. ASSUME NEW kind \in {"toggle", "move", "property"}, Called(kind) PROVE calls' \in 0..MaxCalls
  <2> PICK c, e : c = Cost[kind] /\ e = (IF Pending THEN Cost["early"] ELSE 0)
    OBVIOUS
  <2>1. c \in Nat /\ e \in Nat
    BY <1>1
  <2>2. calls' = calls + c + e /\ calls' <= MaxCalls
    BY <1>2 DEF Called
  <2> QED
    BY <1>1, <2>1, <2>2
<1>3. CASE UNCHANGED <<layout, alive, changes>> /\ calls' = calls
  BY <1>3 DEF CountInv
<1>4. CASE UNCHANGED <<layout, alive, changes>> /\ \E kind \in {"toggle", "move", "property"} : Called(kind)
  BY <1>2, <1>4 DEF CountInv
<1>5. CASE calls' = calls /\ changes' = changes
  BY <1>5 DEF CountInv
<1>6. CASE calls' = calls /\ \E h \in Hwnd : \E r : Changed(h, r)
  BY <1>1, <1>6 DEF Changed, CountInv
<1>7. CASE vars' = vars
  BY <1>7 DEF CountInv, vars
<1>8. CASE Next
  BY <1>3, <1>4, <1>5, <1>6, <1>8
     DEF Next, maximize, move_to_next_monitor, move, Script, SetZoomed, Place, Keep, Restore,
         MaximizeTo, FindMonitor, Fit, Move, Resize, Process, UserMoves, Dies, Created
<1> QED
  BY <1>7, <1>8

\* A step elsewhere keeps the properties.
LEMMA KeptByElsewhere ==
  ASSUME Typed, KeptInv, Elsewhere
  PROVE  KeptInv'
<1>1. TableStep /\ alive' = alive
  BY ElsewhereTable DEF Elsewhere
<1> QED
  BY <1>1, KeptByTable

\* Every step of a call keeps the types and the properties.
LEMMA ScriptsType ==
  ASSUME Typed, KeptInv, ByScript,
         \/ \E hwnd \in Movable : \/ \E a \in axes : maximize(hwnd, a)
                                  \/ \E delta \in 0..1 : move_to_next_monitor(hwnd, delta)
                                  \/ \E a \in Moves : move(hwnd, a)
         \/ \E hwnd \in Hwnd \ Movable, key \in ScriptKey : Script(hwnd, key)
         \/ SetZoomed \/ Place \/ Keep \/ Restore \/ MaximizeTo \/ FindMonitor \/ Fit
         \/ Move \/ Resize
  PROVE  Typed' /\ KeptInv'
<1>1. ASSUME NEW hwnd \in Movable, NEW a \in axes, maximize(hwnd, a) PROVE Typed' /\ KeptInv'
  <2>1. Typed' /\ given' = given /\ \A h \in alive : Untouched(h)
    BY <1>1, MaximizeTyped
  <2>2. TableStep /\ alive' = alive
    BY <2>1 DEF TableStep, Typed, ByScript
  <2> QED
    BY <2>1, <2>2, KeptByTable
<1>2. ASSUME NEW hwnd \in Movable, NEW delta \in 0..1, move_to_next_monitor(hwnd, delta)
      PROVE  Typed' /\ KeptInv'
  BY <1>2, NextMonitorTyped, KeptByElsewhere
<1>3. ASSUME NEW hwnd \in Movable, NEW a \in Moves, move(hwnd, a) PROVE Typed' /\ KeptInv'
  BY <1>3, MoveCallTyped, KeptByElsewhere
<1>4. ASSUME NEW hwnd \in Hwnd \ Movable, NEW key \in ScriptKey, Script(hwnd, key)
      PROVE  Typed' /\ KeptInv'
  BY <1>4, ScriptTyped, KeptByTable DEF ByScript
<1> PICK w : w = target
  OBVIOUS
<1>5. CASE SetZoomed
  BY <1>5, SetZoomedTyped, KeptByTable DEF ByScript
<1>6. CASE Place
  BY <1>6, PlaceTyped, KeptByTable DEF ByScript
<1>7. CASE Keep
  BY <1>7, KeepTyped, KeptByTable DEF ByScript
<1>8. CASE Restore
  BY <1>8, RestoreTyped, KeptByTable DEF ByScript
<1>9. CASE MaximizeTo
  BY <1>9, MaximizeToTyped, KeptByElsewhere
<1>10. CASE FindMonitor
  BY <1>10, FindTyped, KeptByElsewhere
<1>11. CASE Fit
  BY <1>11, FitTyped, KeptByElsewhere
<1>12. CASE Move
  BY <1>12, MoveTyped, KeptByElsewhere
<1>13. CASE Resize
  BY <1>13, ResizeTyped, KeptByElsewhere
<1> QED
  BY <1>1, <1>2, <1>3, <1>4, <1>5, <1>6, <1>7, <1>8, <1>9, <1>10, <1>11, <1>12, <1>13

\* Windows appear where the user puts windows.
LEMMA NewPlacement ==
  ASSUME NEW hwnd, NEW r \in IF hwnd \in Movable THEN Placements ELSE {Anywhere}
  PROVE  r \in Rectangle
BY WindowAssumption DEF Anywhere

\* Every step does.
LEMMA TypesKept ==
  ASSUME Typed, KeptInv, [Next]_vars
  PROVE  Typed' /\ KeptInv'
<1>1. ASSUME vars' = vars PROVE Typed' /\ KeptInv'
  <2>1. Elsewhere /\ UNCHANGED <<placement, requests, call, before, goal>>
    BY <1>1 DEF vars, Elsewhere
  <2>2. StateInv' /\ CallInv'
    BY <2>1 DEF Typed, StateInv, CallInv, At, target, axis, Elsewhere
  <2> QED
    BY <2>1, <2>2, KeptByElsewhere, ElsewhereTable DEF Typed
<1>2. ASSUME NEW hwnd \in Hwnd, ByOthers,
             \/ Process(hwnd)
             \/ \E r \in IF hwnd \in Movable THEN Placements ELSE {Anywhere} :
                  UserMoves(hwnd, r) \/ Created(hwnd, r)
             \/ Dies(hwnd)
      PROVE  Typed' /\ KeptInv'
  BY <1>2, ProcessTyped, UserTyped, CreatedTyped, DiesTyped, NewPlacement
<1>3. CASE Next
  BY <1>2, <1>3, ScriptsType DEF Next, ByScript, ByOthers
<1> QED
  BY <1>1, <1>3

\* Hence they hold always.
LEMMA TypesInvariant == Spec => [](Typed /\ KeptInv /\ CountInv)
<1>1. Init => Typed /\ KeptInv /\ CountInv
  BY InitTyped, KeptInit, BoundAssumption DEF Init, CountInv
<1>2. Typed /\ KeptInv /\ CountInv /\ [Next]_vars => (Typed /\ KeptInv /\ CountInv)'
  BY TypesKept, CountKept
<1> QED
  BY <1>1, <1>2, PTL DEF Spec

\* Whatever the monitors and the windows: the list holds entries of windows
\* (window.lua:223-289), windows have placements and are asked for positions and sizes.
THEOREM TypeCorrect == Spec => []TypeOK
<1>1. Typed /\ CountInv => TypeOK
  <2> SUFFICES ASSUME Typed, CountInv PROVE TypeOK
    OBVIOUS
  <2>1. TableInv /\ StateInv /\ CallInv
    BY DEF Typed
  <2>2. hwnd_table \in Seq(Entry) /\ DOMAIN hwnd_table = 1..Len(hwnd_table)
    BY <2>1, LenProperties DEF TableInv
  <2>3. \A i \in DOMAIN hwnd_table : hwnd_table[i] \in Entry
    BY <2>2, ElementOfSeq
  <2>4. TableTypeOK
    BY <2>1, <2>3 DEF TableTypeOK, TableInv, Entry
  <2> QED
    BY <2>1, <2>4 DEF TypeOK, StateInv, CallInv, Call, CountInv
<1> QED
  BY <1>1, TypesInvariant, PTL

\* For any windows and any keys: a window has the properties it was given,
\* though a search removes entries on its way (window.lua:236-288).
THEOREM PropertiesStay == Spec => []PropertiesKept
<1>1. KeptInv => PropertiesKept
  BY DEF KeptInv
<1> QED
  BY <1>1, TypesInvariant, PTL

-----------------------------------------------------------------------------
(* What is toggled off comes back.  Along each axis, either the window is    *)
(* maximized and what was kept is as the window was, or the window is, or it *)
(* becomes by what has been asked for and by what the call will ask for.     *)

\* The coordinate and the size along an axis.
Pos(a, r) == IF a = "v" THEN r.y ELSE r.x
Ext(a, r) == IF a = "v" THEN r.h ELSE r.w

\* A window at p that has not been told s comes to the position of b, to its size.
PositionComes(a, s, p, b) ==
  /\ \A i \in 1..Len(s) : s[i] \in Position => Pos(a, s[i]) = Pos(a, b)
  /\ Pos(a, p) = Pos(a, b) \/ \E i \in 1..Len(s) : s[i] \in Position
SizeComes(a, s, p, b) ==
  /\ \A i \in 1..Len(s) : s[i] \in Size => Ext(a, s[i]) = Ext(a, b)
  /\ Ext(a, p) = Ext(a, b) \/ \E i \in 1..Len(s) : s[i] \in Size

\* A window without requests comes where it is.
LEMMA NothingToCome ==
  ASSUME NEW a, NEW p, NEW b
  PROVE  /\ PositionComes(a, <<>>, p, b) <=> Pos(a, p) = Pos(a, b)
         /\ SizeComes(a, <<>>, p, b) <=> Ext(a, p) = Ext(a, b)
<1>1. Len(<<>>) = 0
  OBVIOUS
<1> QED
  BY <1>1 DEF PositionComes, SizeComes

\* A request is for a position or for a size.
LEMMA NeitherBoth == Position \cap Size = {}
<1> SUFFICES ASSUME NEW q \in Position, q \in Size PROVE FALSE
  OBVIOUS
<1>1. "x" \in DOMAIN q
  BY DEF Position
<1>2. "x" \notin DOMAIN q
  BY DEF Size
<1> QED
  BY <1>1, <1>2

\* What is asked for first comes.
LEMMA PositionAsked ==
  ASSUME NEW a, NEW p, NEW b, NEW q \in Position, Pos(a, q) = Pos(a, b)
  PROVE  PositionComes(a, Append(<<>>, q), p, b)
<1> PICK s : s = Append(<<>>, q)
  OBVIOUS
<1>1. Len(s) = 1 /\ s[1] = q
  OBVIOUS
<1>2. PositionComes(a, s, p, b)
  BY ONLY <1>1, q \in Position, Pos(a, q) = Pos(a, b) DEF PositionComes
<1> QED
  BY <1>2

\* A size that is asked for does not change the position, and comes.
LEMMA SizeAsked ==
  ASSUME NEW a, NEW p, NEW b, NEW s \in Seq(Position \cup Size), NEW q \in Size
  PROVE  /\ PositionComes(a, s, p, b) => PositionComes(a, Append(s, q), p, b)
         /\ (\A i \in 1..Len(s) : s[i] \in Position) /\ Ext(a, q) = Ext(a, b)
               => SizeComes(a, Append(s, q), p, b)
<1> PICK t : t = Append(s, q)
  OBVIOUS
<1> PICK l : l = Len(s)
  OBVIOUS
<1>1. l \in Nat /\ Len(t) = l + 1 /\ t[l + 1] = q /\ \A i \in 1..l : t[i] = s[i]
  BY AppendProperties, LenProperties
<1>2. \A i \in 1..Len(t) : i \in 1..l \/ i = l + 1
  BY <1>1
<1>3. \A i \in 1..l : i \in 1..Len(t)
  BY <1>1
<1>4. q \notin Position /\ \A i \in 1..l : s[i] \in Position => s[i] \notin Size
  BY NeitherBoth
<1>5. PositionComes(a, s, p, b) => PositionComes(a, t, p, b)
  BY ONLY <1>1, <1>2, <1>3, <1>4, l = Len(s) DEF PositionComes
<1>6. (\A i \in 1..l : s[i] \in Position) /\ Ext(a, q) = Ext(a, b) => SizeComes(a, t, p, b)
  <2> SUFFICES ASSUME \A i \in 1..l : s[i] \in Position, Ext(a, q) = Ext(a, b)
               PROVE  SizeComes(a, t, p, b)
    OBVIOUS
  <2>1. l + 1 \in 1..Len(t) /\ t[l + 1] \in Size
    BY <1>1
  <2>2. \A i \in 1..Len(t) : t[i] \in Size => t[i] = q
    BY <1>1, <1>2, <1>4
  <2> QED
    BY ONLY <2>1, <2>2, Ext(a, q) = Ext(a, b) DEF SizeComes
<1> QED
  BY <1>5, <1>6

\* It comes there although the first request has been processed.
LEMMA ComesNearer ==
  ASSUME NEW a, NEW p \in Rectangle, NEW b, NEW s \in Seq(Position \cup Size), s # <<>>
  PROVE  /\ PositionComes(a, s, p, b) => PositionComes(a, Tail(s), Processed(p, Head(s)), b)
         /\ SizeComes(a, s, p, b) => SizeComes(a, Tail(s), Processed(p, Head(s)), b)
         /\ (\A i \in 1..Len(s) : s[i] \in Position)
               => \A i \in 1..Len(Tail(s)) : Tail(s)[i] \in Position
<1> PICK t, q, l, r : t = Tail(s) /\ q = Head(s) /\ l = Len(s) /\ r = Processed(p, q)
  OBVIOUS
<1>1. /\ l \in Nat /\ l >= 1 /\ Len(t) = l - 1 /\ q = s[1] /\ q \in Position \cup Size
      /\ \A i \in 1..l - 1 : t[i] = s[i + 1]
  BY HeadTailProperties, LenProperties, EmptySeq
<1>2. \A i \in 1..Len(t) : i + 1 \in 1..l /\ t[i] = s[i + 1]
  BY <1>1
<1>3. \A i \in 1..l : i = 1 \/ (i - 1 \in 1..Len(t) /\ t[i - 1] = s[i])
  BY <1>1
<1>4. /\ q \in Position => /\ q \notin Size
                           /\ r.x = q.x /\ r.y = q.y /\ r.w = p.w /\ r.h = p.h
      /\ q \in Size => r.x = p.x /\ r.y = p.y /\ r.w = q.w /\ r.h = q.h
  BY <1>1, ProcessedIsRectangle, NeitherBoth
<1>5. /\ q \in Position => Pos(a, r) = Pos(a, q) /\ Ext(a, r) = Ext(a, p)
      /\ q \in Size => Pos(a, r) = Pos(a, p) /\ Ext(a, r) = Ext(a, q)
  BY <1>4 DEF Pos, Ext
<1>6. 1 \in 1..l
  BY <1>1
<1>7. PositionComes(a, s, p, b) => PositionComes(a, t, r, b)
  <2> SUFFICES ASSUME PositionComes(a, s, p, b) PROVE PositionComes(a, t, r, b)
    OBVIOUS
  <2>1. \A i \in 1..Len(t) : t[i] \in Position => Pos(a, t[i]) = Pos(a, b)
    BY <1>2 DEF PositionComes
  <2>2. CASE q \in Position
    BY <1>1, <1>5, <1>6, <2>1, <2>2 DEF PositionComes
  <2>3. CASE q \in Size
    <3>1. q \notin Position
      BY <2>3, NeitherBoth
    <3>2. CASE Pos(a, p) = Pos(a, b)
      BY <1>5, <2>1, <2>3, <3>2 DEF PositionComes
    <3>3. CASE \E i \in 1..l : s[i] \in Position
      <4>1. PICK i \in 1..l : s[i] \in Position
        BY <3>3
      <4>2. i # 1
        BY <1>1, <3>1, <4>1
      <4> QED
        BY <1>3, <2>1, <4>1, <4>2 DEF PositionComes
    <3> QED
      BY <3>2, <3>3 DEF PositionComes
  <2> QED
    BY <1>1, <2>2, <2>3
<1>8. SizeComes(a, s, p, b) => SizeComes(a, t, r, b)
  <2> SUFFICES ASSUME SizeComes(a, s, p, b) PROVE SizeComes(a, t, r, b)
    OBVIOUS
  <2>1. \A i \in 1..Len(t) : t[i] \in Size => Ext(a, t[i]) = Ext(a, b)
    BY <1>2 DEF SizeComes
  <2>2. CASE q \in Size
    BY <1>1, <1>5, <1>6, <2>1, <2>2 DEF SizeComes
  <2>3. CASE q \in Position
    <3>1. q \notin Size
      BY <2>3, NeitherBoth
    <3>2. CASE Ext(a, p) = Ext(a, b)
      BY <1>5, <2>1, <2>3, <3>2 DEF SizeComes
    <3>3. CASE \E i \in 1..l : s[i] \in Size
      <4>1. PICK i \in 1..l : s[i] \in Size
        BY <3>3
      <4>2. i # 1
        BY <1>1, <3>1, <4>1
      <4> QED
        BY <1>3, <2>1, <4>1, <4>2 DEF SizeComes
    <3> QED
      BY <3>2, <3>3 DEF SizeComes
  <2> QED
    BY <1>1, <2>2, <2>3
<1> QED
  BY <1>2, <1>7, <1>8

\* The call that runs moves this window.
Calling(h) == ~At("idle") /\ target = h

Kept(h, a) == get_property(h, workarea(a))

\* Where move restores exactly.
Exact(h) == Origin /\ before[h].x >= 0 /\ before[h].y >= 0

\* While a toggle has changed the flag only, the window is as the flag was.
ZoomedYet(h, a) == IF Calling(h) /\ call.at \in {"place", "keep"} /\ a = axis THEN call.zoomed
                   ELSE Zoomed(h, a)

\* A window that has not been changed since it was toggled is changed by toggles only.
Toggle(h) ==
  /\ axis \in axes
  /\ ~At("resize") => requests[h] = <<>>
  /\ At("set") => call.zoomed = Zoomed(h, axis)
  /\ call.at \in {"place", "keep"} => Zoomed(h, axis) = ~call.zoomed
  /\ At("area") => Zoomed(h, axis)
  /\ call.at \in {"keep", "area"} => call.r = placement[h]
  /\ At("move") => call.arguments.tx = A /\ call.arguments.ty = A
  /\ At("resize") => \A i \in 1..Len(requests[h]) : requests[h][i] \in Position

Asked == [x |-> call.arguments.dx, y |-> call.arguments.dy]

ComesBack(h, a) ==
  IF ZoomedYet(h, a)
  THEN /\ Kept(h, a) \in Rectangle
       /\ Pos(a, Kept(h, a)) = Pos(a, before[h]) /\ Ext(a, Kept(h, a)) = Ext(a, before[h])
  ELSE /\ IF Calling(h) /\ At("move")
          THEN Pos(a, Asked) = Pos(a, before[h])
          ELSE PositionComes(a, requests[h], placement[h], before[h])
       /\ IF Calling(h) /\ call.at \in {"move", "resize"}
          THEN Ext(a, call.size) = Ext(a, before[h])
          ELSE SizeComes(a, requests[h], placement[h], before[h])

Restores(h) ==
  /\ h \in alive /\ h \in Movable /\ before[h] \in Rectangle
  /\ Calling(h) => Toggle(h)
  /\ Exact(h) => \A a \in axes : ComesBack(h, a)

RestoreInv == \A h \in Hwnd : before[h] # nil => Restores(h)

\* The virtual screen depends on the monitors alone.
LEMMA ScreenSame == ASSUME layout' = layout PROVE VirtualScreen' = VirtualScreen /\ Origin' = Origin
BY DEF VirtualScreen, Rect, Origin

\* Nothing changes for this window.
LEMMA Unmoved ==
  ASSUME NEW h \in Hwnd, Restores(h), Untouched(h), h \in alive', layout' = layout,
         placement'[h] = placement[h], requests'[h] = requests[h], before'[h] = before[h],
         call' = call \/ (~Calling(h) /\ ~Calling(h)')
  PROVE  Restores(h)'
<1>1. Exact(h)' = Exact(h)
  BY ScreenSame DEF Exact
<1>2. \A a : Zoomed(h, a)' = Zoomed(h, a) /\ Kept(h, a)' = Kept(h, a)
  BY DEF Zoomed, Kept, get_property, Untouched
<1>3. CASE call' = call
  <2>1. /\ Calling(h)' = Calling(h) /\ axis' = axis /\ Asked' = Asked
        /\ \A p : At(p)' = At(p)
    BY <1>3 DEF Calling, At, target, axis, Asked
  <2>2. Toggle(h)' = Toggle(h)
    BY <1>2, <1>3, <2>1 DEF Toggle, axis
  <2>3. \A a \in axes : ComesBack(h, a)' = ComesBack(h, a)
    BY <1>2, <1>3, <2>1 DEF ComesBack, ZoomedYet, axis
  <2> QED
    BY <1>1, <2>1, <2>2, <2>3 DEF Restores
<1>4. CASE ~Calling(h) /\ ~Calling(h)'
  <2>1. \A a \in axes : ComesBack(h, a)' = ComesBack(h, a)
    BY <1>2, <1>4 DEF ComesBack, ZoomedYet
  <2> QED
    BY <1>1, <1>4, <2>1 DEF Restores
<1> QED
  BY <1>3, <1>4

\* A call that moves another window.
LEMMA OtherCalled ==
  ASSUME NEW h \in Hwnd, ~Calling(h), call'.at = "idle" \/ call'.hwnd # h
  PROVE  ~Calling(h)'
BY DEF Calling, At, target

\* At the start of a call no other one runs.
LEMMA MaximizeRestores ==
  ASSUME Typed, ByScript, NEW hwnd \in Movable, NEW a \in axes, maximize(hwnd, a),
         NEW h \in Hwnd, before[h] # nil => Restores(h), before'[h] # nil
  PROVE  Restores(h)'
<1>1. /\ At("idle") /\ ~Calling(h)
      /\ before' = [before EXCEPT ![hwnd] =
            IF ~Still(hwnd) THEN nil
            ELSE IF Zoomed(hwnd, "v") \/ Zoomed(hwnd, "h") THEN before[hwnd] ELSE placement[hwnd]]
      /\ UNCHANGED <<placement, requests, layout, alive>>
  BY DEF maximize, ByScript, Called, Calling
<1>2. /\ \A g \in alive : Untouched(g)
      /\ call'.at = "set" /\ call'.op = a /\ call'.hwnd = hwnd /\ call'.zoomed = Zoomed(hwnd, a)
  BY MaximizeTyped
<1>3. before \in [Hwnd -> Rectangle \cup {nil}] /\ \A g \in alive : placement[g] \in Rectangle
  BY DEF Typed, StateInv
<1>4. CASE h # hwnd
  <2>1. before'[h] = before[h] /\ Restores(h) /\ h \in alive
    BY <1>1, <1>3, <1>4 DEF Restores
  <2>2. ~Calling(h)'
    BY <1>1, <1>2, <1>4, OtherCalled
  <2> QED
    BY <1>1, <1>2, <2>1, <2>2, Unmoved
<1>5. CASE h = hwnd
  <2>1. Still(h) /\ h \in alive /\ requests[h] = <<>> /\ h \in Movable
    BY <1>1, <1>3, <1>5 DEF Still
  <2>2. \A b : Zoomed(h, b)' = Zoomed(h, b) /\ Kept(h, b)' = Kept(h, b)
    BY <1>2, <2>1 DEF Zoomed, Kept, get_property, Untouched
  <2>3. Calling(h)' /\ axis' = a /\ At("set")'
    BY <1>2, <1>5 DEF Calling, At, target, axis
  <2>4. Toggle(h)'
    BY <1>1, <1>2, <1>5, <2>1, <2>2, <2>3 DEF Toggle, At, axis
  <2>5. \A b : ZoomedYet(h, b)' = Zoomed(h, b) /\ ZoomedYet(h, b) = Zoomed(h, b)
    BY <1>1, <1>2, <2>2 DEF ZoomedYet
  <2>6. CASE Zoomed(h, "v") \/ Zoomed(h, "h")
    <3>1. before'[h] = before[h] /\ Restores(h)
      BY <1>1, <1>3, <1>5, <2>1, <2>6
    <3>2. Exact(h)' = Exact(h)
      BY <1>1, <3>1, ScreenSame DEF Exact
    <3>3. \A b \in axes : ComesBack(h, b) => ComesBack(h, b)'
      BY <1>1, <1>2, <2>2, <2>3, <2>5, <3>1 DEF ComesBack, At
    <3> QED
      BY <1>1, <2>1, <2>4, <3>1, <3>2, <3>3 DEF Restores
  <2>7. CASE ~Zoomed(h, "v") /\ ~Zoomed(h, "h")
    <3>1. before'[h] = placement[h] /\ before'[h] \in Rectangle
      BY <1>1, <1>3, <1>5, <2>1, <2>7
    <3>2. ASSUME NEW b \in axes PROVE ComesBack(h, b)'
      <4>1. ~ZoomedYet(h, b)'
        BY <2>5, <2>7 DEF axes
      <4>2. /\ PositionComes(b, requests'[h], placement'[h], before'[h])
            /\ SizeComes(b, requests'[h], placement'[h], before'[h])
        BY <1>1, <2>1, <3>1, NothingToCome
      <4> QED
        BY <1>2, <4>1, <4>2 DEF ComesBack, At
    <3> QED
      BY <1>1, <2>1, <2>4, <3>1, <3>2 DEF Restores
  <2> QED
    BY <2>6, <2>7
<1> QED
  BY <1>4, <1>5

\* The steps of a toggle.
LEMMA SetZoomedRestores ==
  ASSUME Typed, ByScript, SetZoomed, NEW h \in Hwnd, h = target, Restores(h)
  PROVE  Restores(h)'
<1>1. /\ At("set") /\ Calling(h) /\ h \in alive /\ h \in Movable /\ Toggle(h) /\ call \in Call
      /\ requests[h] = <<>> /\ call.zoomed = Zoomed(h, axis)
      /\ call' = [call EXCEPT !.at = "place"]
      /\ UNCHANGED <<placement, requests, before, layout, alive>>
  BY CallTyped DEF SetZoomed, Restores, Calling, Toggle, At, ByScript
<1> PICK k, v, x : k = zoomedp(axis) /\ v = ~call.zoomed /\ x = axis
  OBVIOUS
<1>2. Properties(h)' = [Properties(h) EXCEPT ![k] = v]
  BY <1>1, SetZoomedTyped
<1>3. /\ k \in Key /\ x \in axes
      /\ \A b \in axes : k # workarea(b) /\ (b # x => k # zoomedp(b)) /\ zoomedp(b) \in Key
  BY <1>1, KeysDiffer DEF Toggle
<1>4. Properties(h) \in [Key -> Value]
  BY Looked DEF Typed
<1>5. /\ Properties(h)'[k] = v
      /\ \A b \in axes : b # x => Zoomed(h, b)' = Zoomed(h, b)
      /\ \A b \in axes : Kept(h, b)' = Kept(h, b)
  BY <1>2, <1>3, <1>4, KeysDiffer DEF Zoomed, Kept, get_property
<1>6. Zoomed(h, x)' = v
  <2>1. v \in BOOLEAN
    OBVIOUS
  <2> QED
    BY <1>5, <2>1 DEF Zoomed, get_property
<1>7. At("place")' /\ Calling(h)' /\ axis' = x /\ call'.zoomed = call.zoomed
  BY <1>1 DEF At, Calling, target, axis, Call
<1>8. Toggle(h)'
  BY <1>1, <1>3, <1>6, <1>7 DEF Toggle, At
<1>9. \A b \in axes : ZoomedYet(h, b)' = ZoomedYet(h, b)
  <2>1. \A b \in axes : ZoomedYet(h, b) = Zoomed(h, b)
    BY <1>1 DEF ZoomedYet, At
  <2>2. ZoomedYet(h, x)' = call.zoomed
    BY <1>7 DEF ZoomedYet, At
  <2>3. \A b \in axes : b # x => ZoomedYet(h, b)' = Zoomed(h, b)
    BY <1>5, <1>7 DEF ZoomedYet, At
  <2> QED
    BY <1>1, <2>1, <2>2, <2>3
<1>10. \A b \in axes : ComesBack(h, b) => ComesBack(h, b)'
  BY <1>1, <1>5, <1>7, <1>9 DEF ComesBack, At
<1>11. Exact(h)' = Exact(h)
  BY <1>1, ScreenSame DEF Exact
<1> QED
  BY <1>1, <1>8, <1>10, <1>11 DEF Restores

\* It reads where the window is.
LEMMA PlaceRestores ==
  ASSUME Typed, ByScript, Place, NEW h \in Hwnd, h = target, Restores(h)
  PROVE  Restores(h)'
<1>1. /\ At("place") /\ Calling(h) /\ h \in alive /\ h \in Movable /\ Toggle(h) /\ call \in Call
      /\ requests[h] = <<>>
      /\ UNCHANGED <<placement, requests, before, layout, alive>>
  BY CallTyped DEF Place, Restores, Calling, Toggle, At, ByScript
<1>2. call' = [call EXCEPT !.at = "keep", !.r = placement[h]]
  BY <1>1 DEF Place, get_placement
<1>3. \A b : Zoomed(h, b)' = Zoomed(h, b) /\ Kept(h, b)' = Kept(h, b)
  BY <1>1, PlaceTyped DEF Zoomed, Kept, get_property, Untouched
<1>4. At("keep")' /\ Calling(h)' /\ axis' = axis /\ call'.zoomed = call.zoomed /\ call'.r = placement[h]
  BY <1>1, <1>2 DEF At, Calling, target, axis, Call
<1>5. Toggle(h)'
  BY <1>1, <1>3, <1>4 DEF Toggle, At
<1>6. \A b \in axes : ZoomedYet(h, b)' = ZoomedYet(h, b)
  BY <1>1, <1>3, <1>4 DEF ZoomedYet, At
<1>7. \A b \in axes : ComesBack(h, b) => ComesBack(h, b)'
  BY <1>1, <1>3, <1>4, <1>6 DEF ComesBack, At
<1>8. Exact(h)' = Exact(h)
  BY <1>1, ScreenSame DEF Exact
<1> QED
  BY <1>1, <1>5, <1>7, <1>8 DEF Restores

\* What is kept is as the window was.
LEMMA KeepRestores ==
  ASSUME Typed, ByScript, Keep, NEW h \in Hwnd, h = target, Restores(h)
  PROVE  Restores(h)'
<1>1. /\ At("keep") /\ Calling(h) /\ h \in alive /\ h \in Movable /\ Toggle(h) /\ call \in Call
      /\ requests[h] = <<>> /\ ~call.zoomed /\ call.r = placement[h] /\ Zoomed(h, axis)
      /\ call' = [call EXCEPT !.at = "area"]
      /\ UNCHANGED <<placement, requests, before, layout, alive>>
      /\ placement[h] \in Rectangle
  BY CallTyped DEF Keep, Restores, Calling, Toggle, At, ByScript, Typed, StateInv
<1> PICK k, x, r : k = workarea(axis) /\ x = axis /\ r = placement[h]
  OBVIOUS
<1>2. Properties(h)' = [Properties(h) EXCEPT ![k] = r]
  BY <1>1, KeepTyped
<1>3. /\ k \in Key /\ x \in axes
      /\ \A b \in axes : k # zoomedp(b) /\ (b # x => k # workarea(b))
  BY <1>1, KeysDiffer DEF Toggle
<1>4. Properties(h) \in [Key -> Value]
  BY Looked DEF Typed
<1>5. /\ Kept(h, x)' = r
      /\ \A b \in axes : b # x => Kept(h, b)' = Kept(h, b)
      /\ \A b \in axes : Zoomed(h, b)' = Zoomed(h, b)
  BY <1>2, <1>3, <1>4, KeysDiffer DEF Zoomed, Kept, get_property
<1>6. At("area")' /\ Calling(h)' /\ axis' = x /\ call'.zoomed = call.zoomed /\ call'.r = r
  BY <1>1 DEF At, Calling, target, axis, Call
<1>7. Toggle(h)'
  BY <1>1, <1>3, <1>5, <1>6 DEF Toggle, At
<1>8. ASSUME NEW b \in axes, ComesBack(h, b) PROVE ComesBack(h, b)'
  <2>1. ZoomedYet(h, b)' = Zoomed(h, b)
    BY <1>5, <1>6 DEF ZoomedYet, At
  <2>2. CASE b = x
    <3>1. ~ZoomedYet(h, x)
      BY <1>1 DEF ZoomedYet, At
    <3>2. /\ PositionComes(x, <<>>, placement[h], before[h])
          /\ SizeComes(x, <<>>, placement[h], before[h])
      BY <1>1, <1>8, <2>2, <3>1 DEF ComesBack, At
    <3>3. Pos(x, r) = Pos(x, before[h]) /\ Ext(x, r) = Ext(x, before[h])
      BY <3>2, NothingToCome
    <3> QED
      BY <1>1, <1>5, <2>1, <2>2, <3>3 DEF ComesBack
  <2>3. CASE b # x
    <3>1. ZoomedYet(h, b) = Zoomed(h, b)
      BY <2>3 DEF ZoomedYet
    <3> QED
      BY <1>1, <1>5, <1>6, <1>8, <2>1, <2>3, <3>1 DEF ComesBack, At
  <2> QED
    BY <2>2, <2>3
<1>9. Exact(h)' = Exact(h)
  BY <1>1, ScreenSame DEF Exact
<1> QED
  BY <1>1, <1>7, <1>8, <1>9 DEF Restores

\* What a toggle asks for: across its axis, what the window is.
LEMMA ChangeRestores ==
  ASSUME Typed, NEW h \in Hwnd, h = target, Restores(h), NEW r \in Rectangle,
         call.at \in {"keep", "area"}, call.r = placement[h], call' = Change(Along(r)),
         UNCHANGED <<placement, requests, before, layout, alive>>, Untouched(h),
         Exact(h) => IF Zoomed(h, axis) THEN ComesBack(h, axis) /\ ZoomedYet(h, axis)
                     ELSE Pos(axis, r) = Pos(axis, before[h]) /\ Ext(axis, r) = Ext(axis, before[h])
  PROVE  Restores(h)'
<1>1. /\ Calling(h) /\ h \in alive /\ h \in Movable /\ Toggle(h) /\ call \in Call
      /\ requests[h] = <<>> /\ axis \in axes /\ placement[h] \in Rectangle
  BY CallTyped DEF Restores, Calling, Toggle, At, Typed, StateInv
<1> PICK t, x : t = Along(r) /\ x = axis
  OBVIOUS
<1>2. /\ t \in Rectangle
      /\ \A b \in axes : /\ Pos(b, t) = IF b = x THEN Pos(b, r) ELSE Pos(b, placement[h])
                         /\ Ext(b, t) = IF b = x THEN Ext(b, r) ELSE Ext(b, placement[h])
  <2>1. /\ t \in Rectangle
        /\ x = "v" => /\ t.x = placement[h].x /\ t.w = placement[h].w
                      /\ t.y = r.y /\ t.h = r.h
        /\ x # "v" => /\ t.x = r.x /\ t.w = r.w
                      /\ t.y = placement[h].y /\ t.h = placement[h].h
    BY <1>1, AlongIsRectangle
  <2> QED
    BY <1>1, <2>1 DEF Pos, Ext, axes
<1>3. /\ call'.at = "move" /\ call'.op = call.op /\ call'.hwnd = call.hwnd
      /\ call'.arguments.tx = A /\ call'.arguments.ty = A
      /\ call'.arguments.dx = t.x /\ call'.arguments.dy = t.y
      /\ call'.size.w = t.w /\ call'.size.h = t.h
  BY <1>1, <1>2, ChangeTyped
<1>4. /\ At("move")' /\ Calling(h)' /\ axis' = x
      /\ \A b \in axes : Pos(b, Asked') = Pos(b, t) /\ Ext(b, call'.size) = Ext(b, t)
  BY <1>1, <1>3 DEF At, Calling, target, axis, Asked, Pos, Ext
<1>5. \A b : Zoomed(h, b)' = Zoomed(h, b) /\ Kept(h, b)' = Kept(h, b)
  BY DEF Zoomed, Kept, get_property, Untouched
<1>6. Toggle(h)'
  BY <1>1, <1>3, <1>4, <1>5 DEF Toggle, At
<1>7. ASSUME Exact(h), NEW b \in axes PROVE ComesBack(h, b)'
  <2>1. ZoomedYet(h, b)' = Zoomed(h, b) /\ (b # x => ZoomedYet(h, b) = Zoomed(h, b))
    BY <1>3, <1>5 DEF ZoomedYet
  <2>2. ComesBack(h, b)
    BY <1>7 DEF Restores
  <2>3. CASE Zoomed(h, b)
    <3>1. ZoomedYet(h, b)
      BY <1>1, <1>7, <2>1, <2>3
    <3> QED
      BY <1>5, <2>1, <2>2, <2>3, <3>1 DEF ComesBack
  <2>4. CASE ~Zoomed(h, b)
    <3>1. Pos(b, t) = Pos(b, before[h]) /\ Ext(b, t) = Ext(b, before[h])
      <4>1. CASE b = x
        BY <1>2, <1>7, <2>4, <4>1
      <4>2. CASE b # x
        <5>1. /\ PositionComes(b, <<>>, placement[h], before[h])
              /\ SizeComes(b, <<>>, placement[h], before[h])
          BY <1>1, <2>1, <2>2, <2>4, <4>2 DEF ComesBack, At
        <5>2. Pos(b, placement[h]) = Pos(b, before[h]) /\ Ext(b, placement[h]) = Ext(b, before[h])
          BY <5>1, NothingToCome
        <5> QED
          BY <1>2, <4>2, <5>2
      <4> QED
        BY <4>1, <4>2
    <3> QED
      BY <1>3, <1>4, <2>1, <2>4, <3>1 DEF ComesBack
  <2> QED
    BY <2>3, <2>4
<1>8. Exact(h)' = Exact(h)
  BY ScreenSame DEF Exact
<1> QED
  BY <1>1, <1>6, <1>7, <1>8 DEF Restores

\* It maximizes
LEMMA MaximizeToRestores ==
  ASSUME Typed, ByScript, MaximizeTo, NEW h \in Hwnd, h = target, Restores(h)
  PROVE  Restores(h)'
<1>1. /\ At("area") /\ Calling(h) /\ h \in alive /\ Toggle(h) /\ Zoomed(h, axis)
      /\ call.r = placement[h] /\ axis \in axes
      /\ UNCHANGED <<placement, requests, before, layout, alive>>
  BY DEF MaximizeTo, Restores, Calling, Toggle, At, ByScript
<1>2. PICK n \in monitors(target) : call' = Change(Along(layout[n].workarea))
  BY DEF MaximizeTo
<1>3. layout[n].workarea \in Rectangle
  BY CallTyped DEF monitors, find_by_window
<1>4. Untouched(h)
  BY <1>1, MaximizeToTyped, ElsewhereTable
<1>5. ZoomedYet(h, axis)
  BY <1>1 DEF ZoomedYet, At
<1>6. Exact(h) => ComesBack(h, axis)
  BY <1>1 DEF Restores
<1>7. call.at \in {"keep", "area"}
  BY <1>1 DEF At
<1> QED
  BY <1>1, <1>2, <1>3, <1>4, <1>5, <1>6, <1>7, ChangeRestores

\* or restores; where it is exact, something was kept.
LEMMA RestoreRestores ==
  ASSUME Typed, ByScript, Restore, NEW h \in Hwnd, h = target, Restores(h)
  PROVE  Restores(h)'
<1>1. /\ At("keep") /\ Calling(h) /\ h \in alive /\ h \in Movable /\ Toggle(h) /\ call.zoomed
      /\ ~Zoomed(h, axis) /\ call.r = placement[h] /\ axis \in axes
      /\ UNCHANGED <<placement, requests, before, layout, alive>>
  BY DEF Restore, Restores, Calling, Toggle, At, ByScript
<1> PICK kept : kept = get_property(h, workarea(axis))
  OBVIOUS
<1>2. call' = IF kept = nil THEN Idle ELSE Change(Along(kept))
  BY DEF Restore
<1>3. kept \in {nil} \cup Rectangle
  BY <1>1, Looked DEF Typed, get_property
<1>4. Untouched(h)
  BY <1>1, RestoreTyped
<1>5. Exact(h) => /\ kept \in Rectangle
                  /\ Pos(axis, kept) = Pos(axis, before[h]) /\ Ext(axis, kept) = Ext(axis, before[h])
  <2>1. ZoomedYet(h, axis)
    BY <1>1 DEF ZoomedYet, At
  <2>2. Exact(h) => ComesBack(h, axis)
    BY <1>1 DEF Restores
  <2> QED
    BY <2>1, <2>2 DEF ComesBack, Kept
<1>6. CASE kept = nil
  <2>1. ~Exact(h)
    BY <1>5, <1>6, NilAssumption
  <2>2. ~Exact(h)'
    BY <1>1, <2>1, ScreenSame DEF Exact
  <2>3. ~Calling(h)'
    BY <1>2, <1>6, IdleTyped DEF Calling, At
  <2> QED
    BY <1>1, <2>2, <2>3 DEF Restores
<1>7. CASE kept # nil
  <2>1. call' = Change(Along(kept)) /\ kept \in Rectangle /\ call.at \in {"keep", "area"}
    BY <1>1, <1>2, <1>3, <1>7 DEF At
  <2> QED
    BY <1>1, <1>4, <1>5, <2>1, ChangeRestores
<1> QED
  BY <1>6, <1>7

\* The position asked for is exactly that of the arguments
LEMMA MoveRestores ==
  ASSUME Typed, ByScript, Move, NEW h \in Hwnd, h = target, Restores(h)
  PROVE  Restores(h)'
<1>1. /\ At("move") /\ Calling(h) /\ h \in alive /\ h \in Movable /\ Toggle(h) /\ call \in Call
      /\ CallInv /\ requests[h] = <<>> /\ axis \in axes
      /\ call.arguments.tx = A /\ call.arguments.ty = A /\ call.arguments \in Argument
      /\ layout \in Layouts /\ placement[h] \in Rectangle /\ requests \in [Hwnd -> Seq(Position \cup Size)]
      /\ UNCHANGED <<placement, before, layout, alive>>
  BY CallTyped DEF Move, Restores, Calling, Toggle, At, ByScript, Typed, StateInv, CallInv
<1> PICK m, g : m = layout[Larger(call.m, 1)].workarea /\ g = call.arguments
  OBVIOUS
<1> PICK q : q = Moved(placement[h], m, g)
  OBVIOUS
<1>2. q \in Position /\ requests' = [requests EXCEPT ![h] = Append(<<>>, q)]
  BY <1>1, MoveTyped DEF get_placement
<1>3. call' = [call EXCEPT !.at = "resize"]
  <2>1. call.size # nil
    BY <1>1, NilAssumption DEF CallInv, axis, axes
  <2> QED
    BY <2>1, MoveTyped
<1>4. At("resize")' /\ Calling(h)' /\ axis' = axis /\ call'.size = call.size
  BY <1>1, <1>3 DEF At, Calling, target, axis, Call
<1>5. requests'[h] = Append(<<>>, q)
  BY <1>1, <1>2
<1>6. Toggle(h)'
  <2> PICK s : s = requests'[h]
    OBVIOUS
  <2>1. Len(s) = 1 /\ s[1] = q
    BY <1>5
  <2>2. \A i \in 1..Len(s) : s[i] \in Position
    BY <1>2, <2>1
  <2> QED
    BY <1>1, <1>4, <2>2 DEF Toggle, At
<1>7. Untouched(h)
  BY <1>1, MoveTyped, ElsewhereTable
<1>8. \A b : Zoomed(h, b)' = Zoomed(h, b) /\ Kept(h, b)' = Kept(h, b)
  BY <1>7 DEF Zoomed, Kept, get_property, Untouched
<1>9. \A b : ZoomedYet(h, b)' = Zoomed(h, b) /\ ZoomedYet(h, b) = Zoomed(h, b)
  BY <1>1, <1>4, <1>8 DEF ZoomedYet, At
<1>10. m \in Rectangle
  <2> PICK l, n : l = Len(layout) /\ n = Larger(call.m, 1)
    OBVIOUS
  <2>1. l \in Nat /\ l # 0 /\ DOMAIN layout = 1..l
    BY <1>1, LayoutFacts
  <2>2. call.m = 0 \/ call.m \in 1..l
    BY <1>1, <2>1 DEF CallInv, At
  <2>3. n \in DOMAIN layout
    BY <2>1, <2>2 DEF Larger
  <2> QED
    BY <2>3, CallTyped
<1>11. ASSUME Exact(h), NEW b \in axes PROVE ComesBack(h, b)'
  <2>1. ComesBack(h, b)
    BY <1>11 DEF Restores
  <2>2. CASE Zoomed(h, b)
    BY <1>1, <1>8, <1>9, <2>1, <2>2 DEF ComesBack
  <2>3. CASE ~Zoomed(h, b)
    <3>1. Pos(b, Asked) = Pos(b, before[h]) /\ Ext(b, call.size) = Ext(b, before[h])
      BY <1>1, <1>9, <2>1, <2>3 DEF ComesBack, At
    <3>2. Pos(b, q) = Pos(b, before[h])
      <4>1. (g.dx >= 0 => q.x = g.dx) /\ (g.dy >= 0 => q.y = g.dy)
        BY <1>1, <1>10, <1>11, MovedExactly DEF Exact
      <4> QED
        BY <1>11, <3>1, <4>1 DEF Exact, Pos, Asked
    <3>3. PositionComes(b, requests'[h], placement[h], before[h])
      BY <1>2, <1>5, <3>2, PositionAsked
    <3> QED
      BY <1>1, <1>4, <1>9, <2>3, <3>1, <3>3 DEF ComesBack, At
  <2> QED
    BY <2>2, <2>3
<1>12. Exact(h)' = Exact(h)
  BY <1>1, ScreenSame DEF Exact
<1> QED
  BY <1>1, <1>6, <1>11, <1>12 DEF Restores

\* and the size comes after it.
LEMMA ResizeRestores ==
  ASSUME Typed, ByScript, Resize, NEW h \in Hwnd, h = target, Restores(h)
  PROVE  Restores(h)'
<1>1. /\ At("resize") /\ Calling(h) /\ h \in alive /\ h \in Movable /\ Toggle(h)
      /\ requests \in [Hwnd -> Seq(Position \cup Size)]
      /\ \A i \in 1..Len(requests[h]) : requests[h][i] \in Position
      /\ UNCHANGED <<placement, before, layout, alive>>
  BY DEF Resize, Restores, Calling, Toggle, At, ByScript, Typed, StateInv
<1> PICK s, q : s = requests[h] /\ q = call.size
  OBVIOUS
<1>2. q \in Size /\ call' = Idle /\ requests' = [requests EXCEPT ![h] = Append(s, q)]
  BY <1>1, ResizeTyped
<1>3. requests'[h] = Append(s, q) /\ s \in Seq(Position \cup Size)
  BY <1>1, <1>2
<1>4. ~Calling(h)'
  BY <1>2, IdleTyped DEF Calling, At
<1>5. Untouched(h)
  BY <1>1, ResizeTyped, ElsewhereTable
<1>6. \A b : Zoomed(h, b)' = Zoomed(h, b) /\ Kept(h, b)' = Kept(h, b)
  BY <1>5 DEF Zoomed, Kept, get_property, Untouched
<1>7. \A b : ZoomedYet(h, b)' = Zoomed(h, b) /\ ZoomedYet(h, b) = Zoomed(h, b)
  BY <1>1, <1>4, <1>6 DEF ZoomedYet, At
<1>8. ASSUME Exact(h), NEW b \in axes PROVE ComesBack(h, b)'
  <2>1. ComesBack(h, b)
    BY <1>8 DEF Restores
  <2>2. CASE Zoomed(h, b)
    BY <1>1, <1>6, <1>7, <2>1, <2>2 DEF ComesBack
  <2>3. CASE ~Zoomed(h, b)
    <3>1. PositionComes(b, s, placement[h], before[h]) /\ Ext(b, q) = Ext(b, before[h])
      BY <1>1, <1>7, <2>1, <2>3 DEF ComesBack, At
    <3>2. /\ PositionComes(b, Append(s, q), placement[h], before[h])
          /\ SizeComes(b, Append(s, q), placement[h], before[h])
      BY <1>1, <1>2, <1>3, <3>1, SizeAsked
    <3> QED
      BY <1>1, <1>3, <1>4, <1>7, <2>3, <3>2 DEF ComesBack
  <2> QED
    BY <2>2, <2>3
<1>9. Exact(h)' = Exact(h)
  BY <1>1, ScreenSame DEF Exact
<1> QED
  BY <1>1, <1>4, <1>8, <1>9 DEF Restores

\* The window obeys.
LEMMA ProcessRestores ==
  ASSUME Typed, KeptInv, ByOthers, NEW h \in Hwnd, Process(h), Restores(h)
  PROVE  Restores(h)'
<1> PICK s : s = requests[h]
  OBVIOUS
<1>1. /\ s # <<>> /\ s \in Seq(Position \cup Size) /\ placement[h] \in Rectangle
      /\ h \in alive /\ h \in Movable
      /\ placement'[h] = Processed(placement[h], Head(s)) /\ requests'[h] = Tail(s)
      /\ UNCHANGED <<alive, before, layout, call>>
  BY DEF Process, Typed, StateInv, ByOthers, Restores
<1>2. Untouched(h)
  BY <1>1, ProcessTyped, ElsewhereTable
<1>3. \A b : Zoomed(h, b)' = Zoomed(h, b) /\ Kept(h, b)' = Kept(h, b)
  BY <1>2 DEF Zoomed, Kept, get_property, Untouched
<1>4. Calling(h) => At("resize") /\ Toggle(h) /\ \A i \in 1..Len(s) : s[i] \in Position
  BY <1>1 DEF Restores, Toggle
<1>5. (\A i \in 1..Len(s) : s[i] \in Position) => \A i \in 1..Len(Tail(s)) : Tail(s)[i] \in Position
  BY <1>1, ComesNearer
<1>6. /\ Calling(h)' = Calling(h) /\ axis' = axis /\ \A p : At(p)' = At(p)
  BY <1>1 DEF Calling, At, target, axis
<1>7. Calling(h)' => Toggle(h)'
  BY <1>1, <1>3, <1>4, <1>5, <1>6 DEF Toggle, At
<1>8. \A b : ZoomedYet(h, b)' = ZoomedYet(h, b)
  BY <1>1, <1>3, <1>6 DEF ZoomedYet
<1>9. ASSUME Exact(h), NEW b \in axes PROVE ComesBack(h, b)'
  <2>1. ComesBack(h, b)
    BY <1>9 DEF Restores
  <2>2. CASE ZoomedYet(h, b)
    BY <1>1, <1>3, <1>8, <2>1, <2>2 DEF ComesBack
  <2>3. CASE ~ZoomedYet(h, b)
    <3>1. PositionComes(b, s, placement[h], before[h])
      BY <1>4, <2>1, <2>3 DEF ComesBack, At
    <3>2. PositionComes(b, requests'[h], placement'[h], before[h])
      BY <1>1, <3>1, ComesNearer
    <3>3. CASE Calling(h)
      BY <1>1, <1>4, <1>6, <1>8, <2>1, <2>3, <3>2, <3>3 DEF ComesBack, At
    <3>4. CASE ~Calling(h)
      <4>1. SizeComes(b, s, placement[h], before[h])
        BY <2>1, <2>3, <3>4 DEF ComesBack
      <4>2. SizeComes(b, requests'[h], placement'[h], before[h])
        BY <1>1, <4>1, ComesNearer
      <4> QED
        BY <1>1, <1>6, <1>8, <2>3, <3>2, <3>4, <4>2 DEF ComesBack
    <3> QED
      BY <3>3, <3>4
  <2> QED
    BY <2>2, <2>3
<1>10. Exact(h)' = Exact(h)
  BY <1>1, ScreenSame DEF Exact
<1> QED
  BY <1>1, <1>7, <1>9, <1>10 DEF Restores

\* A step of a call leaves the other windows alone.
LEMMA OthersInCall ==
  ASSUME Typed, ByScript, ~At("idle"), NEW w, w = target,
         SetZoomed \/ Place \/ Keep \/ Restore \/ MaximizeTo \/ FindMonitor \/ Fit \/ Move \/ Resize,
         NEW h \in alive, h # w
  PROVE  /\ Untouched(h) /\ ~Calling(h) /\ ~Calling(h)' /\ h \in alive' /\ layout' = layout
         /\ placement'[h] = placement[h] /\ requests'[h] = requests[h]
         /\ before'[h] = before[h] /\ goal'[h] = goal[h]
<1>1. /\ ~Calling(h) /\ h \in alive' /\ layout' = layout /\ w \in Hwnd /\ h \in Hwnd /\ call \in Call
      /\ call.hwnd = w
      /\ requests \in [Hwnd -> Seq(Position \cup Size)]
      /\ goal \in [Hwnd -> Goal \cup {nil}]
  BY CallTyped DEF Calling, target, ByScript, Typed, TableInv, StateInv
<1>2. Untouched(h)
  BY SetZoomedTyped, PlaceTyped, KeepTyped, RestoreTyped, MaximizeToTyped, FindTyped, FitTyped,
     MoveTyped, ResizeTyped, ElsewhereTable
<1>3. placement' = placement /\ before' = before
  BY DEF SetZoomed, Place, Keep, Restore, MaximizeTo, FindMonitor, Fit, Move, Resize
<1>4. requests'[h] = requests[h]
  BY <1>1, MoveTyped, ResizeTyped
     DEF SetZoomed, Place, Keep, Restore, MaximizeTo, FindMonitor, Fit
<1>5. goal'[h] = goal[h]
  BY <1>1 DEF SetZoomed, Place, Keep, Restore, MaximizeTo, FindMonitor, Fit, Move, Resize
<1>6. call'.at = "idle" \/ call'.hwnd = w
  <2>1. CASE SetZoomed
    BY <1>1, <2>1 DEF SetZoomed, Call
  <2>2. CASE Place
    BY <1>1, <2>2 DEF Place, Call
  <2>3. CASE Keep
    BY <1>1, <2>3 DEF Keep, Call
  <2>4. CASE Restore
    BY <1>1, <2>4, IdleTyped DEF Restore, Change, Call
  <2>5. CASE MaximizeTo
    BY <1>1, <2>5 DEF MaximizeTo, Change, Call
  <2>6. CASE FindMonitor
    BY <1>1, <2>6 DEF FindMonitor, Call
  <2>7. CASE Fit
    BY <1>1, <2>7 DEF Fit, Call
  <2>8. CASE Move
    BY <1>1, <2>8, IdleTyped DEF Move, Call
  <2>9. CASE Resize
    BY <2>9, IdleTyped DEF Resize
  <2> QED
    BY <2>1, <2>2, <2>3, <2>4, <2>5, <2>6, <2>7, <2>8, <2>9
<1>7. ~Calling(h)'
  BY <1>1, <1>6, OtherCalled
<1> QED
  BY <1>1, <1>2, <1>3, <1>4, <1>5, <1>7

\* A window that is moved may be anywhere.
LEMMA MoveBegins ==
  ASSUME Typed, ByScript, NEW hwnd \in Movable, NEW h \in alive,
         \/ \E delta \in 0..1 : move_to_next_monitor(hwnd, delta)
         \/ \E a \in Moves : move(hwnd, a)
  PROVE  /\ Untouched(h) /\ ~Calling(h) /\ h \in alive' /\ layout' = layout
         /\ placement'[h] = placement[h] /\ requests'[h] = requests[h]
         /\ h = hwnd => before'[h] = nil /\ goal'[h] = nil
         /\ h # hwnd => before'[h] = before[h] /\ goal'[h] = goal[h] /\ ~Calling(h)'
<1>1. /\ At("idle") /\ UNCHANGED <<placement, requests>>
      /\ before' = [before EXCEPT ![hwnd] = nil] /\ goal' = [goal EXCEPT ![hwnd] = nil]
      /\ call'.hwnd = hwnd
  BY DEF move_to_next_monitor, move, Called, Idle
<1>2. Untouched(h)
  BY NextMonitorTyped, MoveCallTyped, ElsewhereTable
<1>3. ~Calling(h) /\ h \in alive' /\ layout' = layout /\ h \in Hwnd
  BY <1>1 DEF Calling, ByScript, Typed, TableInv
<1>4. h # hwnd => ~Calling(h)'
  BY <1>1, <1>3, OtherCalled
<1>5. before \in [Hwnd -> Rectangle \cup {nil}] /\ goal \in [Hwnd -> Goal \cup {nil}]
  BY DEF Typed, StateInv
<1> QED
  BY <1>1, <1>2, <1>3, <1>4, <1>5

\* Every step of a call,
LEMMA ScriptsRestore ==
  ASSUME Typed, ByScript, RestoreInv, NEW h \in Hwnd, before'[h] # nil,
         \/ \E hwnd \in Movable : \/ \E a \in axes : maximize(hwnd, a)
                                  \/ \E delta \in 0..1 : move_to_next_monitor(hwnd, delta)
                                  \/ \E a \in Moves : move(hwnd, a)
         \/ \E hwnd \in Hwnd \ Movable, key \in ScriptKey : Script(hwnd, key)
         \/ SetZoomed \/ Place \/ Keep \/ Restore \/ MaximizeTo \/ FindMonitor \/ Fit
         \/ Move \/ Resize
  PROVE  Restores(h)'
<1>0. before[h] # nil => Restores(h) /\ h \in alive
  BY DEF RestoreInv, Restores
<1>1. ASSUME NEW hwnd \in Movable, NEW a \in axes, maximize(hwnd, a) PROVE Restores(h)'
  BY <1>0, <1>1, MaximizeRestores
<1>2. ASSUME NEW hwnd \in Movable,
             \/ \E delta \in 0..1 : move_to_next_monitor(hwnd, delta)
             \/ \E a \in Moves : move(hwnd, a)
      PROVE  Restores(h)'
  <2>1. before' = [before EXCEPT ![hwnd] = nil] /\ before \in [Hwnd -> Rectangle \cup {nil}]
    BY <1>2 DEF move_to_next_monitor, move, Typed, StateInv
  <2>2. h # hwnd /\ before[h] # nil
    BY <2>1
  <2>3. Restores(h) /\ h \in alive
    BY <1>0, <2>2
  <2>4. /\ Untouched(h) /\ ~Calling(h) /\ h \in alive' /\ layout' = layout /\ ~Calling(h)'
        /\ placement'[h] = placement[h] /\ requests'[h] = requests[h] /\ before'[h] = before[h]
    BY <1>2, <2>2, <2>3, MoveBegins
  <2> QED
    BY <2>3, <2>4, Unmoved
<1>3. ASSUME NEW hwnd \in Hwnd \ Movable, NEW key \in ScriptKey, Script(hwnd, key)
      PROVE  Restores(h)'
  <2>1. UNCHANGED <<placement, requests, call, before, layout, alive>>
    BY <1>3 DEF Script, ByScript
  <2>2. Restores(h) /\ h \in alive /\ h \in Movable
    BY <1>0, <2>1 DEF Restores
  <2>3. Untouched(h)
    BY <1>3, <2>2, ScriptTyped
  <2> QED
    BY <2>1, <2>2, <2>3, Unmoved
<1>4. CASE SetZoomed \/ Place \/ Keep \/ Restore \/ MaximizeTo \/ FindMonitor \/ Fit \/ Move \/ Resize
  <2>1. before' = before /\ ~At("idle")
    BY <1>4 DEF SetZoomed, Place, Keep, Restore, MaximizeTo, FindMonitor, Fit, Move, Resize, At
  <2>2. Restores(h) /\ h \in alive
    BY <1>0, <2>1
  <2> PICK w : w = target
    OBVIOUS
  <2>3. CASE h = w
    <3>1. Toggle(h)
      BY <2>1, <2>2, <2>3 DEF Restores, Calling
    <3>2. ~FindMonitor /\ ~Fit
      BY <3>1 DEF Toggle, Typed, CallInv, FindMonitor, Fit, At, axis, axes
    <3> QED
      BY <1>4, <2>2, <2>3, <3>2, SetZoomedRestores, PlaceRestores, KeepRestores, RestoreRestores,
         MaximizeToRestores, MoveRestores, ResizeRestores
  <2>4. CASE h # w
    <3>1. /\ Untouched(h) /\ ~Calling(h) /\ ~Calling(h)' /\ h \in alive' /\ layout' = layout
          /\ placement'[h] = placement[h] /\ requests'[h] = requests[h] /\ before'[h] = before[h]
      BY <1>4, <2>1, <2>2, <2>4, OthersInCall
    <3> QED
      BY <2>2, <3>1, Unmoved
  <2> QED
    BY <2>3, <2>4
<1> QED
  BY <1>1, <1>2, <1>3, <1>4

\* What others do to other windows, or to this one.
LEMMA OthersElsewhere ==
  ASSUME Typed, KeptInv, ByOthers, NEW hwnd \in Hwnd, NEW h \in alive,
         \/ h # hwnd /\ Process(hwnd)
         \/ \E r \in IF hwnd \in Movable THEN Placements ELSE {Anywhere} :
              UserMoves(hwnd, r) \/ Created(hwnd, r)
         \/ Dies(hwnd)
  PROVE  \/ before'[h] = nil /\ goal'[h] = nil
         \/ /\ Untouched(h) /\ h \in alive' /\ layout' = layout /\ call' = call
            /\ placement'[h] = placement[h] /\ requests'[h] = requests[h]
            /\ before'[h] = before[h] /\ goal'[h] = goal[h]
<1>0. /\ h \in Hwnd /\ layout' = layout /\ call' = call
      /\ placement \in [Hwnd -> Rectangle \cup {nil}] /\ requests \in [Hwnd -> Seq(Position \cup Size)]
      /\ before \in [Hwnd -> Rectangle \cup {nil}] /\ goal \in [Hwnd -> Goal \cup {nil}]
  BY DEF Typed, StateInv, TableInv, ByOthers
<1>1. CASE h # hwnd /\ Process(hwnd)
  BY <1>0, <1>1, ProcessTyped, ElsewhereTable DEF Process
<1>2. ASSUME NEW r \in IF hwnd \in Movable THEN Placements ELSE {Anywhere}, UserMoves(hwnd, r)
      PROVE  \/ before'[h] = nil /\ goal'[h] = nil
             \/ /\ Untouched(h) /\ h \in alive'
                /\ placement'[h] = placement[h] /\ requests'[h] = requests[h]
                /\ before'[h] = before[h] /\ goal'[h] = goal[h]
  <2>1. Untouched(h)
    BY <1>2, NewPlacement, UserTyped, ElsewhereTable
  <2> QED
    BY <1>0, <1>2, <2>1 DEF UserMoves, Changed
<1>3. ASSUME NEW r \in IF hwnd \in Movable THEN Placements ELSE {Anywhere}, Created(hwnd, r)
      PROVE  /\ Untouched(h) /\ h \in alive'
             /\ placement'[h] = placement[h] /\ requests'[h] = requests[h]
             /\ before'[h] = before[h] /\ goal'[h] = goal[h]
  <2>1. Untouched(h)
    BY <1>3, NewPlacement, CreatedTyped
  <2> QED
    BY <1>0, <1>3, <2>1 DEF Created, Changed
<1>4. CASE Dies(hwnd)
  <2>1. CASE h = hwnd
    BY <1>0, <1>4, <2>1 DEF Dies, Changed
  <2>2. CASE h # hwnd
    <3>1. h \in alive'
      BY <1>4, <2>2 DEF Dies
    <3>2. Untouched(h)
      BY <1>4, <3>1, DiesTyped
    <3> QED
      BY <1>0, <1>4, <2>2, <3>1, <3>2 DEF Dies, Changed
  <2> QED
    BY <2>1, <2>2
<1> QED
  BY <1>0, <1>1, <1>2, <1>3, <1>4

\* Nobody has a history that is not there.
LEMMA HistoryComes ==
  ASSUME Typed, ByOthers, NEW hwnd \in Hwnd, NEW h \in Hwnd,
         \/ Process(hwnd)
         \/ \E r \in IF hwnd \in Movable THEN Placements ELSE {Anywhere} :
              UserMoves(hwnd, r) \/ Created(hwnd, r)
         \/ Dies(hwnd)
  PROVE  /\ before'[h] # nil => before[h] # nil
         /\ goal'[h] # nil => goal[h] # nil
<1>1. before \in [Hwnd -> Rectangle \cup {nil}] /\ goal \in [Hwnd -> Goal \cup {nil}]
  BY DEF Typed, StateInv
<1> QED
  BY <1>1 DEF Process, UserMoves, Created, Dies, Changed

\* and every step at all, keeps what is needed to come back.
LEMMA RestoreKept ==
  ASSUME Typed, KeptInv, RestoreInv, [Next]_vars
  PROVE  RestoreInv'
<1> SUFFICES ASSUME NEW h \in Hwnd, before'[h] # nil PROVE Restores(h)'
  BY DEF RestoreInv
<1>0. before[h] # nil => Restores(h) /\ h \in alive
  BY DEF RestoreInv, Restores
<1>1. CASE vars' = vars
  <2>1. UNCHANGED <<placement, requests, before, layout, call, alive>>
    BY <1>1 DEF vars
  <2>2. Restores(h) /\ h \in alive
    BY <1>0, <2>1
  <2>3. Elsewhere
    BY <1>1 DEF Elsewhere, vars
  <2>4. Untouched(h)
    BY <2>2, <2>3, ElsewhereTable
  <2> QED
    BY <2>1, <2>2, <2>4, Unmoved
<1>2. ASSUME NEW hwnd \in Hwnd, ByOthers,
             \/ Process(hwnd)
             \/ \E r \in IF hwnd \in Movable THEN Placements ELSE {Anywhere} :
                  UserMoves(hwnd, r) \/ Created(hwnd, r)
             \/ Dies(hwnd)
      PROVE  Restores(h)'
  <2>1. before[h] # nil
    BY <1>2, HistoryComes
  <2>2. Restores(h) /\ h \in alive
    BY <1>0, <2>1
  <2>3. CASE h = hwnd /\ Process(hwnd)
    BY <1>2, <2>2, <2>3, ProcessRestores
  <2>4. CASE ~(h = hwnd /\ Process(hwnd))
    <3>1. /\ Untouched(h) /\ h \in alive' /\ layout' = layout /\ call' = call
          /\ placement'[h] = placement[h] /\ requests'[h] = requests[h] /\ before'[h] = before[h]
      BY <1>2, <2>2, <2>4, OthersElsewhere
    <3> QED
      BY <2>2, <3>1, Unmoved
  <2> QED
    BY <2>3, <2>4
<1>3. CASE Next
  BY <1>2, <1>3, ScriptsRestore DEF Next, ByScript, ByOthers
<1> QED
  BY <1>1, <1>3

\* For any monitors and windows: what is maximized and restored along both axes, in
\* whatever order, is where it was (window.lua:83-121).
THEOREM RestoreStaysExact == Spec => []RestoreIsExact
<1>1. Init => RestoreInv
  BY DEF Init, RestoreInv
<1>2. Typed /\ KeptInv /\ CountInv /\ RestoreInv /\ [Next]_vars => RestoreInv'
  BY RestoreKept
<1>3. Typed /\ RestoreInv => RestoreIsExact
  <2> SUFFICES ASSUME Typed, RestoreInv, NEW h \in alive,
                      At("idle") /\ Still(h) /\ before[h] # nil /\ Origin,
                      ~Zoomed(h, "v") /\ ~Zoomed(h, "h"), before[h].x >= 0, before[h].y >= 0
               PROVE  placement[h] = before[h]
    BY DEF RestoreIsExact
  <2>1. h \in Hwnd /\ Restores(h) /\ Exact(h) /\ requests[h] = <<>> /\ placement[h] \in Rectangle
    BY DEF Typed, TableInv, StateInv, RestoreInv, Exact, Still
  <2>2. ASSUME NEW a \in axes
        PROVE  Pos(a, placement[h]) = Pos(a, before[h]) /\ Ext(a, placement[h]) = Ext(a, before[h])
    <3>1. ComesBack(h, a) /\ ~ZoomedYet(h, a) /\ ~Calling(h)
      BY <2>1 DEF Restores, ZoomedYet, Calling, axes
    <3>2. /\ PositionComes(a, <<>>, placement[h], before[h])
          /\ SizeComes(a, <<>>, placement[h], before[h])
      BY <2>1, <3>1 DEF ComesBack
    <3> QED
      BY <3>2, NothingToCome
  <2>3. "v" \in axes /\ "h" \in axes
    BY DEF axes
  <2>4. /\ placement[h].x = before[h].x /\ placement[h].y = before[h].y
        /\ placement[h].w = before[h].w /\ placement[h].h = before[h].h
    BY <2>2, <2>3 DEF Pos, Ext
  <2>5. before[h] \in Rectangle
    BY <2>1 DEF Restores
  <2> QED
    BY <2>1, <2>4, <2>5 DEF Rectangle
<1> QED
  BY <1>1, <1>2, <1>3, TypesInvariant, PTL DEF Spec

-----------------------------------------------------------------------------
(* What is moved arrives.  It has been asked for one position since, or for  *)
(* none, and it is, or will be, where it has to be.                          *)

ByRequest(h) == "arguments" \in DOMAIN goal[h]
Destination(h) == layout[goal[h].m].workarea
Against(h, t) == IF t.vscreen THEN VirtualScreen ELSE Destination(h)

Arrives(h, r) ==
  IF ByRequest(h)
  THEN LET a == goal[h].arguments
       IN  /\ Reaches(a.tx, a.dx, r.x, r.w, Against(h, a.tx).x, Against(h, a.tx).w)
           /\ Reaches(a.ty, a.dy, r.y, r.h, Against(h, a.ty).y, Against(h, a.ty).h)
  ELSE Origin /\ r.w <= Destination(h).w /\ r.h <= Destination(h).h => Inside(r, Destination(h))

\* The call is about to ask the window, if it is moved to be at g.
Asking(h) ==
  /\ requests[h] = <<>>
  /\ IF ByRequest(h)
     THEN At("move") /\ call.op = "move" /\ call.m = goal[h].m /\ call.arguments = goal[h].arguments
     ELSE /\ call.at \in {"fit", "move"} /\ call.op = "monitor" /\ call.dest = goal[h].m
          /\ At("move") => \E n \in DOMAIN layout :
               call.arguments = Absolute(Fitted(placement[h], layout[n].workarea, Destination(h)))

Arriving(h) ==
  /\ h \in alive /\ h \in Movable
  /\ goal[h].m \in DOMAIN layout
  /\ IF Calling(h)
     THEN Asking(h)
     ELSE \/ requests[h] = <<>> /\ Arrives(h, placement[h])
          \/ \E q \in Position : /\ requests[h] = Append(<<>>, q)
                                 /\ Arrives(h, Processed(placement[h], q))

GoalInv == \A h \in Hwnd : goal[h] # nil => Arriving(h)

\* A goal is of its type.
LEMMA GoalTyped ==
  ASSUME Typed, NEW h \in Hwnd, goal[h] # nil
  PROVE  /\ goal[h] \in Goal
         /\ ByRequest(h) => goal[h].arguments \in Argument
BY DEF Typed, StateInv, Goal, ByRequest

\* Nothing changes for this window.
LEMMA StillArriving ==
  ASSUME NEW h \in Hwnd, Arriving(h), h \in alive', layout' = layout,
         placement'[h] = placement[h], requests'[h] = requests[h], goal'[h] = goal[h],
         call' = call \/ (~Calling(h) /\ ~Calling(h)')
  PROVE  Arriving(h)'
<1>1. /\ ByRequest(h)' = ByRequest(h) /\ Destination(h)' = Destination(h)
      /\ Origin' = Origin /\ VirtualScreen' = VirtualScreen
  BY ScreenSame DEF ByRequest, Destination
<1>2. \A t : Against(h, t)' = Against(h, t)
  BY <1>1 DEF Against
<1>3. \A r : Arrives(h, r)' = Arrives(h, r)
  BY <1>1, <1>2 DEF Arrives
<1>4. CASE call' = call
  <2>1. Calling(h)' = Calling(h) /\ Asking(h)' = Asking(h)
    BY <1>1, <1>4 DEF Calling, At, target, Asking
  <2> QED
    BY <1>3, <2>1 DEF Arriving
<1>5. CASE ~Calling(h) /\ ~Calling(h)'
  BY <1>3, <1>5 DEF Arriving
<1> QED
  BY <1>4, <1>5

\* The monitor is found: the window has a goal if it has no requests left.
LEMMA FindArrives ==
  ASSUME Typed, ByScript, FindMonitor, NEW h \in Hwnd, h = target, goal'[h] # nil
  PROVE  Arriving(h)'
<1>1. /\ At("find") /\ call \in Call /\ CallInv /\ h \in Movable /\ goal \in [Hwnd -> Goal \cup {nil}]
      /\ UNCHANGED <<placement, requests, layout, alive>>
      /\ call.op \in {"move", "monitor"}
      /\ call.op = "monitor" => call.dest \in DOMAIN layout
  BY CallTyped DEF FindMonitor, ByScript, At, Typed, StateInv, CallInv
<1>2. PICK n \in monitors(h) :
        /\ call' = [call EXCEPT !.at = IF call.op = "move" THEN "move" ELSE "fit", !.m = n]
        /\ goal' = [goal EXCEPT ![h] =
             IF ~Still(h) THEN nil
             ELSE IF call.op = "move" THEN [m |-> n, arguments |-> call.arguments]
                                      ELSE [m |-> call.dest]]
  BY DEF FindMonitor
<1>3. n \in DOMAIN layout
  BY DEF monitors, find_by_window
<1>4. Still(h) /\ h \in alive' /\ requests'[h] = <<>>
  BY <1>1, <1>2 DEF Still
<1>5. /\ call'.hwnd = h /\ call'.op = call.op /\ call'.m = n /\ call'.dest = call.dest
      /\ call'.arguments = call.arguments
      /\ call'.at = IF call.op = "move" THEN "move" ELSE "fit"
  BY <1>1, <1>2 DEF Call, target
<1>6. Calling(h)'
  BY <1>5 DEF Calling, At, target
<1>7. CASE call.op = "move"
  <2> PICK g : g = [m |-> n, arguments |-> call.arguments]
    OBVIOUS
  <2>1. goal'[h] = g /\ g.m = n /\ g.arguments = call.arguments /\ "arguments" \in DOMAIN g
    BY <1>1, <1>2, <1>4, <1>7
  <2>2. Asking(h)'
    BY <1>4, <1>5, <1>7, <2>1 DEF Asking, ByRequest, At
  <2> QED
    BY <1>1, <1>3, <1>4, <1>6, <2>1, <2>2 DEF Arriving
<1>8. CASE call.op = "monitor"
  <2> PICK g : g = [m |-> call.dest]
    OBVIOUS
  <2>1. goal'[h] = g /\ g.m = call.dest /\ "arguments" \notin DOMAIN g
    BY <1>1, <1>2, <1>4, <1>8
  <2>2. Asking(h)'
    BY <1>4, <1>5, <1>8, <2>1 DEF Asking, ByRequest, At
  <2> QED
    BY <1>1, <1>4, <1>6, <1>8, <2>1, <2>2 DEF Arriving
<1> QED
  BY <1>1, <1>7, <1>8

\* The arguments are those of a window that is pulled back into the monitor.
LEMMA FitArrives ==
  ASSUME Typed, ByScript, Fit, NEW h \in Hwnd, h = target, goal[h] # nil, Arriving(h)
  PROVE  Arriving(h)'
<1>1. /\ At("fit") /\ Calling(h) /\ CallInv /\ Asking(h) /\ h \in alive /\ h \in Movable
      /\ goal[h].m \in DOMAIN layout /\ call.m \in DOMAIN layout
      /\ UNCHANGED <<placement, requests, layout, alive, goal>>
  BY DEF Fit, ByScript, At, Typed, CallInv, Arriving, Calling
<1>2. ~ByRequest(h) /\ call.dest = goal[h].m /\ requests[h] = <<>>
  BY <1>1 DEF Asking, At
<1>3. /\ call'.arguments = Absolute(Fitted(placement[h], layout[call.m].workarea,
                                           layout[call.dest].workarea))
      /\ call'.at = "move" /\ call'.op = "monitor" /\ call'.hwnd = h /\ call'.dest = call.dest
  BY <1>1, FitTyped
<1>4. Calling(h)' /\ ~ByRequest(h)' /\ Destination(h)' = layout[call.dest].workarea
  BY <1>1, <1>2, <1>3 DEF Calling, At, target, ByRequest, Destination
<1>5. Asking(h)'
  BY <1>1, <1>2, <1>3, <1>4 DEF Asking
<1> QED
  BY <1>1, <1>4, <1>5 DEF Arriving

\* It is asked for where it has to be.
LEMMA MoveArrives ==
  ASSUME Typed, ByScript, Move, NEW h \in Hwnd, h = target, goal[h] # nil, Arriving(h)
  PROVE  Arriving(h)'
<1>1. /\ At("move") /\ Calling(h) /\ CallInv /\ Asking(h) /\ h \in alive /\ h \in Movable
      /\ goal[h].m \in DOMAIN layout /\ requests[h] = <<>>
      /\ layout \in Layouts /\ placement[h] \in Rectangle
      /\ requests \in [Hwnd -> Seq(Position \cup Size)]
      /\ UNCHANGED <<placement, layout, alive, goal>>
      /\ call.op \in {"move", "monitor"} /\ call.arguments \in Argument
      /\ call.size = nil /\ call.m \in DOMAIN layout
  BY DEF Move, ByScript, At, Typed, StateInv, CallInv, Arriving, Asking, Calling, axes
<1> PICK m, g, r : m = layout[call.m].workarea /\ g = call.arguments /\ r = placement[h]
  OBVIOUS
<1> PICK q : q = Moved(r, m, g)
  OBVIOUS
<1>2. Larger(call.m, 1) = call.m
  <2>1. DOMAIN layout = 1..Len(layout) /\ Len(layout) \in Nat
    BY <1>1, LayoutFacts
  <2> QED
    BY <1>1, <2>1 DEF Larger
<1>3. q \in Position /\ requests' = [requests EXCEPT ![h] = Append(<<>>, q)] /\ call' = Idle
  BY <1>1, <1>2, MoveTyped DEF get_placement
<1>4. requests'[h] = Append(<<>>, q) /\ ~Calling(h)'
  BY <1>1, <1>3, IdleTyped DEF Calling, At
<1> PICK p : p = Processed(r, q)
  OBVIOUS
<1>5. p \in Rectangle /\ p.x = q.x /\ p.y = q.y /\ p.w = r.w /\ p.h = r.h
  BY <1>1, <1>3, ProcessedIsRectangle
<1>6. m \in Rectangle /\ Destination(h) \in Rectangle /\ g \in Argument
  BY <1>1, CallTyped DEF Destination
<1>7. Arrives(h, p)
  <2>1. CASE ByRequest(h)
    <3>1. g = goal[h].arguments /\ m = Destination(h)
      BY <1>1, <2>1 DEF Asking, Destination
    <3>2. /\ Reaches(g.tx, g.dx, q.x, r.w, Against(h, g.tx).x, Against(h, g.tx).w)
          /\ Reaches(g.ty, g.dy, q.y, r.h, Against(h, g.ty).y, Against(h, g.ty).h)
      BY <1>1, <1>6, <3>1, MovedReaches DEF Against
    <3> QED
      BY <1>5, <2>1, <3>1, <3>2 DEF Arrives
  <2>2. CASE ~ByRequest(h)
    <3> PICK d : d = Destination(h)
      OBVIOUS
    <3> SUFFICES ASSUME Origin, p.w <= d.w, p.h <= d.h PROVE Inside(p, d)
      BY <2>2 DEF Arrives
    <3>1. PICK n \in DOMAIN layout : g = Absolute(Fitted(r, layout[n].workarea, d))
      BY <1>1, <2>2 DEF Asking
    <3> PICK src : src = layout[n].workarea
      OBVIOUS
    <3> PICK f : f = Fitted(r, src, d)
      OBVIOUS
    <3>2. src \in Rectangle /\ d \in Rectangle
      BY <1>6, CallTyped
    <3>3. /\ f \in Position /\ f.x >= d.x /\ f.y >= d.y
          /\ r.w <= d.w => f.x + r.w <= Right(d)
          /\ r.h <= d.h => f.y + r.h <= Bottom(d)
      BY <1>1, <3>2, FittedInside
    <3>4. d.x >= 0 /\ d.y >= 0
      <4> PICK k, e : k = goal[h].m /\ e = layout[k].placement
        OBVIOUS
      <4>1. d.x >= e.x /\ d.y >= e.y /\ e \in Rectangle
        BY <1>1, LayoutFacts DEF Destination
      <4>2. VirtualScreen.x <= e.x /\ VirtualScreen.y <= e.y
        BY <1>1, Edges
      <4>3. 0 <= e.x /\ 0 <= e.y
        BY <4>2 DEF Origin
      <4> QED
        BY <3>2, <4>1, <4>3 DEF Rectangle
    <3>5. g.tx = A /\ g.ty = A /\ g.dx = f.x /\ g.dy = f.y
      BY <3>1 DEF Absolute
    <3>6. f.x >= 0 /\ f.y >= 0
      BY <3>2, <3>3, <3>4 DEF Position, Rectangle
    <3>7. q.x = f.x /\ q.y = f.y
      BY <1>1, <1>6, <3>5, <3>6, MovedExactly
    <3> QED
      BY <1>5, <3>2, <3>3, <3>7 DEF Inside, Right, Bottom, Rectangle, Position
  <2> QED
    BY <2>1, <2>2
<1>8. Arrives(h, p)' = Arrives(h, p)
  <2>1. /\ ByRequest(h)' = ByRequest(h) /\ Destination(h)' = Destination(h)
        /\ Origin' = Origin /\ VirtualScreen' = VirtualScreen
    BY <1>1, ScreenSame DEF ByRequest, Destination
  <2>2. \A t : Against(h, t)' = Against(h, t)
    BY <2>1 DEF Against
  <2> QED
    BY <1>1, <2>1, <2>2 DEF Arrives
<1> QED
  BY <1>1, <1>3, <1>4, <1>7, <1>8 DEF Arriving

\* The window obeys.
LEMMA ProcessArrives ==
  ASSUME Typed, ByOthers, NEW h \in Hwnd, Process(h), Arriving(h)
  PROVE  Arriving(h)'
<1> PICK s : s = requests[h]
  OBVIOUS
<1>1. /\ s # <<>> /\ h \in alive /\ h \in Movable /\ goal[h].m \in DOMAIN layout
      /\ placement'[h] = Processed(placement[h], Head(s)) /\ requests'[h] = Tail(s)
      /\ UNCHANGED <<alive, goal, layout, call>>
  BY DEF Process, Typed, StateInv, ByOthers, Arriving
<1>2. ~Calling(h)
  BY <1>1 DEF Arriving, Asking
<1>3. ~Calling(h)'
  BY <1>1, <1>2 DEF Calling, At, target
<1>4. PICK q \in Position : s = Append(<<>>, q) /\ Arrives(h, Processed(placement[h], q))
  BY <1>1, <1>2 DEF Arriving
<1>5. Head(s) = q /\ Tail(s) = <<>>
  BY <1>4
<1>6. /\ ByRequest(h)' = ByRequest(h) /\ Destination(h)' = Destination(h)
      /\ Origin' = Origin /\ VirtualScreen' = VirtualScreen
  BY <1>1, ScreenSame DEF ByRequest, Destination
<1>7. \A t : Against(h, t)' = Against(h, t)
  BY <1>6 DEF Against
<1> PICK p : p = Processed(placement[h], q)
  OBVIOUS
<1>8. Arrives(h, p)' = Arrives(h, p)
  <2>1. goal' = goal
    BY <1>1
  <2>2. goal'[h] = goal[h]
    BY <2>1
  <2>3. CASE ByRequest(h)
    BY ONLY <1>6, <1>7, <2>2, <2>3 DEF Arrives
  <2>4. CASE ~ByRequest(h)
    BY ONLY <1>6, <2>4 DEF Arrives
  <2> QED
    BY ONLY <2>3, <2>4
<1>9. Arrives(h, p)' /\ placement'[h] = p /\ requests'[h] = <<>>
  BY <1>1, <1>4, <1>5, <1>8
<1>10. Arrives(h, placement[h])'
  BY ONLY <1>9 DEF Arrives
<1> QED
  BY <1>1, <1>3, <1>9, <1>10 DEF Arriving

\* Every step of a call,
LEMMA ScriptsArrive ==
  ASSUME Typed, ByScript, GoalInv, NEW h \in Hwnd, goal'[h] # nil,
         \/ \E hwnd \in Movable : \/ \E a \in axes : maximize(hwnd, a)
                                  \/ \E delta \in 0..1 : move_to_next_monitor(hwnd, delta)
                                  \/ \E a \in Moves : move(hwnd, a)
         \/ \E hwnd \in Hwnd \ Movable, key \in ScriptKey : Script(hwnd, key)
         \/ SetZoomed \/ Place \/ Keep \/ Restore \/ MaximizeTo \/ FindMonitor \/ Fit
         \/ Move \/ Resize
  PROVE  Arriving(h)'
<1>0. goal[h] # nil => Arriving(h) /\ h \in alive
  BY DEF GoalInv, Arriving
<1>1. ASSUME NEW hwnd \in Movable, NEW a \in axes, maximize(hwnd, a) PROVE Arriving(h)'
  <2>1. /\ At("idle") /\ goal' = [goal EXCEPT ![hwnd] = nil] /\ call'.hwnd = hwnd
        /\ UNCHANGED <<placement, requests, layout, alive>> /\ goal \in [Hwnd -> Goal \cup {nil}]
    BY <1>1, MaximizeTyped DEF maximize, Called, ByScript, Typed, StateInv
  <2>2. h # hwnd /\ goal'[h] = goal[h]
    BY <2>1
  <2>3. ~Calling(h)
    BY <2>1 DEF Calling
  <2>4. ~Calling(h)'
    BY <2>1, <2>2, <2>3, OtherCalled
  <2> QED
    BY <1>0, <2>1, <2>2, <2>3, <2>4, StillArriving
<1>2. ASSUME NEW hwnd \in Movable,
             \/ \E delta \in 0..1 : move_to_next_monitor(hwnd, delta)
             \/ \E a \in Moves : move(hwnd, a)
      PROVE  Arriving(h)'
  <2>1. goal' = [goal EXCEPT ![hwnd] = nil] /\ goal \in [Hwnd -> Goal \cup {nil}]
    BY <1>2 DEF move_to_next_monitor, move, Typed, StateInv
  <2>2. h # hwnd /\ goal[h] # nil
    BY <2>1
  <2>3. Arriving(h) /\ h \in alive
    BY <1>0, <2>2
  <2>4. /\ ~Calling(h) /\ h \in alive' /\ layout' = layout /\ ~Calling(h)'
        /\ placement'[h] = placement[h] /\ requests'[h] = requests[h] /\ goal'[h] = goal[h]
    BY <1>2, <2>2, <2>3, MoveBegins
  <2> QED
    BY <2>3, <2>4, StillArriving
<1>3. ASSUME NEW hwnd \in Hwnd \ Movable, NEW key \in ScriptKey, Script(hwnd, key)
      PROVE  Arriving(h)'
  <2>1. UNCHANGED <<placement, requests, call, goal, layout, alive>>
    BY <1>3 DEF Script, ByScript
  <2>2. Arriving(h) /\ h \in alive
    BY <1>0, <2>1
  <2> QED
    BY <2>1, <2>2, StillArriving
<1>4. CASE SetZoomed \/ Place \/ Keep \/ Restore \/ MaximizeTo \/ FindMonitor \/ Fit \/ Move \/ Resize
  <2>1. ~At("idle") /\ target \in Movable
    BY <1>4, CallTyped
       DEF SetZoomed, Place, Keep, Restore, MaximizeTo, FindMonitor, Fit, Move, Resize, At
  <2> PICK w : w = target
    OBVIOUS
  <2>2. CASE h = w
    <3>1. CASE FindMonitor
      BY <2>2, <3>1, FindArrives
    <3>2. CASE ~FindMonitor
      <4>1. goal' = goal
        BY <1>4, <3>2 DEF SetZoomed, Place, Keep, Restore, MaximizeTo, Fit, Move, Resize
      <4>2. Arriving(h) /\ Calling(h) /\ goal[h] # nil
        BY <1>0, <2>1, <2>2, <4>1 DEF Calling
      <4>3. call.at \in {"fit", "move"}
        BY <4>2 DEF Arriving, Asking, At
      <4>4. Fit \/ Move
        BY <1>4, <3>2, <4>3 DEF SetZoomed, Place, Keep, Restore, MaximizeTo, Resize, At
      <4> QED
        BY <2>2, <4>2, <4>4, FitArrives, MoveArrives
    <3> QED
      BY <3>1, <3>2
  <2>3. CASE h # w
    <3>1. goal'[h] = goal[h]
      <4>1. goal \in [Hwnd -> Goal \cup {nil}]
        BY DEF Typed, StateInv
      <4> QED
        BY <1>4, <2>3, <4>1
           DEF SetZoomed, Place, Keep, Restore, MaximizeTo, FindMonitor, Fit, Move, Resize
    <3>2. Arriving(h) /\ h \in alive
      BY <1>0, <3>1
    <3>3. /\ ~Calling(h) /\ ~Calling(h)' /\ h \in alive' /\ layout' = layout
          /\ placement'[h] = placement[h] /\ requests'[h] = requests[h]
      BY <1>4, <2>1, <2>3, <3>2, OthersInCall
    <3> QED
      BY <3>1, <3>2, <3>3, StillArriving
  <2> QED
    BY <2>2, <2>3
<1> QED
  BY <1>1, <1>2, <1>3, <1>4

\* and every step at all, keeps the window on its way.
LEMMA GoalKept ==
  ASSUME Typed, KeptInv, GoalInv, [Next]_vars
  PROVE  GoalInv'
<1> SUFFICES ASSUME NEW h \in Hwnd, goal'[h] # nil PROVE Arriving(h)'
  BY DEF GoalInv
<1>0. goal[h] # nil => Arriving(h) /\ h \in alive
  BY DEF GoalInv, Arriving
<1>1. CASE vars' = vars
  <2>1. UNCHANGED <<placement, requests, goal, layout, call, alive>>
    BY <1>1 DEF vars
  <2> QED
    BY <1>0, <2>1, StillArriving
<1>2. ASSUME NEW hwnd \in Hwnd, ByOthers,
             \/ Process(hwnd)
             \/ \E r \in IF hwnd \in Movable THEN Placements ELSE {Anywhere} :
                  UserMoves(hwnd, r) \/ Created(hwnd, r)
             \/ Dies(hwnd)
      PROVE  Arriving(h)'
  <2>1. goal[h] # nil
    BY <1>2, HistoryComes
  <2>2. Arriving(h) /\ h \in alive
    BY <1>0, <2>1
  <2>3. CASE h = hwnd /\ Process(hwnd)
    BY <1>2, <2>2, <2>3, ProcessArrives
  <2>4. CASE ~(h = hwnd /\ Process(hwnd))
    <3>1. /\ h \in alive' /\ layout' = layout /\ call' = call
          /\ placement'[h] = placement[h] /\ requests'[h] = requests[h] /\ goal'[h] = goal[h]
      BY <1>2, <2>2, <2>4, OthersElsewhere
    <3> QED
      BY <2>2, <3>1, StillArriving
  <2> QED
    BY <2>3, <2>4
<1>3. CASE Next
  BY <1>2, <1>3, ScriptsArrive DEF Next, ByScript, ByOthers
<1> QED
  BY <1>1, <1>3

\* A window that has done what it was asked and that nobody else has moved is at the
\* edge, in the middle or inside of the monitor it was moved to, for any windows and
\* arguments and any monitors as LayoutAssumption has them; inside of another monitor
\* only within a virtual screen that begins at 0, 0 (window.lua:25-71, 128-176).
THEOREM MovesDoArrive == Spec => []MovesArrive
<1>1. Init => GoalInv
  BY DEF Init, GoalInv
<1>2. Typed /\ KeptInv /\ CountInv /\ GoalInv /\ [Next]_vars => GoalInv'
  BY GoalKept
<1>3. Typed /\ GoalInv => MovesArrive
  <2> SUFFICES ASSUME Typed, GoalInv PROVE MovesArrive
    OBVIOUS
  <2>1. ASSUME NEW h \in alive, At("idle"), Still(h), goal[h] # nil
        PROVE  Arrives(h, placement[h])
    <3>1. h \in Hwnd /\ requests[h] = <<>> /\ Arriving(h) /\ ~Calling(h)
      BY <2>1 DEF Typed, TableInv, GoalInv, Still, Calling
    <3>2. \A q : Append(<<>>, q) # <<>>
      OBVIOUS
    <3> QED
      BY <3>1, <3>2 DEF Arriving
  <2>2. MovedInside
    BY <2>1 DEF MovedInside, Arrives, ByRequest, Destination
  <2>3. SnapsToEdges
    BY <2>1 DEF SnapsToEdges, Arrives, ByRequest, Destination, Against
  <2> QED
    BY <2>2, <2>3 DEF MovesArrive
<1> QED
  BY <1>1, <1>2, <1>3, TypesInvariant, PTL DEF Spec
=============================================================================
