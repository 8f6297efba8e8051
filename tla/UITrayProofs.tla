---------------------------- MODULE UITrayProofs ----------------------------
(***************************************************************************)
(* Proofs about the tray and its window: no icon is shown twice or lost,   *)
(* subscribers are given the right index, and the cursor stays on an icon, *)
(* for every set of icons, every message and every depth of publishes.     *)
(***************************************************************************)
EXTENDS UITray, SequenceTheorems, FiniteSetTheorems, TLAPS

-----------------------------------------------------------------------------
(* The invariant                                                           *)

\* No two icons are the same.
Unique(s) == \A i, j \in DOMAIN s : s[i].key = s[j].key => i = j

\* The icons of a sequence.
KeysOf(s) == {s[i].key : i \in DOMAIN s}

\* A publish that the tray has not changed under knows where its icon is.
WellInformed ==
  \A n \in DOMAIN calls :
    calls[n].event # "NIM_DELETE" /\ calls[n].about # NoKey /\ ~calls[n].changed
      => /\ calls[n].icon_index \in DOMAIN icons
         /\ icons[calls[n].icon_index].key = calls[n].about

\* What runs within a publish is one of its subscribers.
Called == \A n \in 1..Len(calls) - 1 : calls[n].turn # 0

TrayInv == TypeOK /\ Unique(icons) /\ WellInformed /\ Called

UIInv == TrayInv /\ UITypeOK /\ CursorInRange

-----------------------------------------------------------------------------
(* Sequences of icons                                                      *)

\* t has the elements of s that g says, each once.
Selects(g, s, t) ==
  /\ g \in [1..Len(t) -> 1..Len(s)]
  /\ \A j, k \in 1..Len(t) : g[j] = g[k] => j = k
  /\ \A k \in 1..Len(t) : t[k] = s[g[k]]

\* A selection shows no icon twice.
LEMMA SelectionUnique ==
  ASSUME NEW s \in Seq(Icon), NEW t \in Seq(Icon), NEW g, Selects(g, s, t), Unique(s)
  PROVE  Unique(t)
<1>1. DOMAIN s = 1..Len(s) /\ DOMAIN t = 1..Len(t)
  BY LenProperties
<1> QED
  BY <1>1 DEF Selects, Unique

\* A selection that is as long as the whole is a reordering, and loses nothing.
LEMMA ReorderingLosesNothing ==
  ASSUME NEW s \in Seq(Icon), NEW t \in Seq(Icon), NEW g, Selects(g, s, t),
         Len(t) = Len(s)
  PROVE  KeysOf(s) = KeysOf(t)
<1>1. DOMAIN s = 1..Len(s) /\ DOMAIN t = 1..Len(s) /\ Len(s) \in Nat
  BY LenProperties
<1>2. /\ g \in [1..Len(s) -> 1..Len(s)]
      /\ \A j, k \in 1..Len(s) : g[j] = g[k] => j = k
  BY DEF Selects
<1>3. g \in Injection(1..Len(s), 1..Len(s))
  BY <1>2 DEF Injection, IsInjective
<1>4. IsFiniteSet(1..Len(s))
  BY <1>1, FS_Interval
<1>5. g \in Surjection(1..Len(s), 1..Len(s))
  BY <1>3, <1>4, FS_Injection
<1>6. \A i \in 1..Len(s) : \E k \in 1..Len(s) : g[k] = i
  BY <1>5 DEF Surjection
<1>7. \A k \in 1..Len(s) : t[k] = s[g[k]]
  BY DEF Selects
<1>8. ASSUME NEW i \in DOMAIN s
      PROVE  \E k \in DOMAIN t : s[i].key = t[k].key
  <2>1. PICK k \in 1..Len(s) : g[k] = i
    BY <1>1, <1>6, <1>8
  <2>2. t[k] = s[i]
    BY <1>7, <2>1
  <2> QED
    BY <1>1, <2>2
<1>9. ASSUME NEW k \in DOMAIN t
      PROVE  \E i \in DOMAIN s : s[i].key = t[k].key
  BY <1>1, <1>2, <1>7, <1>9
<1> DEFINE A == {s[i].key : i \in DOMAIN s}
           B == {t[k].key : k \in DOMAIN t}
<1>10. ASSUME NEW x \in A PROVE x \in B
  <2>1. PICK i \in DOMAIN s : x = s[i].key
    BY <1>10
  <2>2. PICK k \in DOMAIN t : s[i].key = t[k].key
    BY <1>8
  <2> QED
    BY <2>1, <2>2
<1>11. ASSUME NEW x \in B PROVE x \in A
  <2>1. PICK k \in DOMAIN t : x = t[k].key
    BY <1>11
  <2>2. PICK i \in DOMAIN s : s[i].key = t[k].key
    BY <1>9
  <2> QED
    BY <2>1, <2>2
<1>12. A = B
  <2> HIDE DEF A, B
  <2> QED
    BY <1>10, <1>11
<1> QED
  BY <1>12 DEF KeysOf

\* A function on 1..n is a sequence of length n.
LEMMA IsSequence ==
  ASSUME NEW S, NEW n \in Nat, NEW t \in [1..n -> S]
  PROVE  t \in Seq(S) /\ Len(t) = n
<1>1. t \in Seq(S)
  BY SeqDef
<1>2. Len(t) \in Nat /\ 1..Len(t) = 1..n
  BY <1>1, LenProperties
<1> QED
  BY <1>1, <1>2

\* A function on 1..n that takes its values from a sequence of icons is one.
LEMMA Selected ==
  ASSUME NEW s \in Seq(Icon), NEW n \in Nat, NEW g \in [1..n -> 1..Len(s)],
         \A j, k \in 1..n : g[j] = g[k] => j = k,
         NEW t, t = [k \in 1..n |-> s[g[k]]]
  PROVE  t \in Seq(Icon) /\ Len(t) = n /\ Selects(g, s, t)
<1>1. \A k \in 1..n : s[g[k]] \in Icon
  BY ElementOfSeq
<1>2. t \in [1..n -> Icon]
  BY <1>1
<1>3. t \in Seq(Icon) /\ Len(t) = n
  BY <1>2, IsSequence
<1> QED
  BY <1>3 DEF Selects

\* An icon comes last.
LEMMA AddedLast ==
  ASSUME NEW s \in Seq(Icon), NEW icon \in Icon, NEW t, t = Append(s, icon),
         \A i \in DOMAIN s : s[i].key # icon.key
  PROVE  /\ t \in Seq(Icon) /\ Len(t) = Len(s) + 1
         /\ Len(s) + 1 \in DOMAIN t /\ t[Len(s) + 1] = icon
         /\ Unique(s) => Unique(t)
         /\ KeysOf(s) \subseteq KeysOf(t)
<1>1. Len(s) \in Nat /\ DOMAIN s = 1..Len(s)
  BY LenProperties
<1>2. /\ t \in Seq(Icon) /\ Len(t) = Len(s) + 1 /\ t[Len(s) + 1] = icon
      /\ \A k \in 1..Len(s) : t[k] = s[k]
  BY AppendProperties
<1>3. DOMAIN t = 1..Len(s) + 1
  BY <1>2, LenProperties
<1>4. \A k \in 1..Len(s) + 1 : k = Len(s) + 1 \/ k \in DOMAIN s
  BY <1>1
<1>5. DOMAIN s \subseteq DOMAIN t /\ Len(s) + 1 \in DOMAIN t
  BY <1>1, <1>3
<1>6. Unique(s) => Unique(t)
  BY <1>1, <1>2, <1>3, <1>4 DEF Unique
<1>7. KeysOf(s) \subseteq KeysOf(t)
  BY <1>1, <1>2, <1>5 DEF KeysOf
<1> QED
  BY <1>2, <1>5, <1>6, <1>7

\* An icon is removed.
LEMMA Removed ==
  ASSUME NEW s \in Seq(Icon), NEW i \in 1..Len(s), NEW t, t = RemovedAt(s, i)
  PROVE  /\ t \in Seq(Icon) /\ Len(t) = Len(s) - 1
         /\ \E g : Selects(g, s, t)
         /\ \A x \in KeysOf(s) \ KeysOf(t) : x = s[i].key
<1> DEFINE n == Len(s) - 1
           g == [k \in 1..n |-> IF k < i THEN k ELSE k + 1]
<1>1. Len(s) \in Nat /\ DOMAIN s = 1..Len(s) /\ n \in Nat
  BY LenProperties
<1>2. g \in [1..n -> 1..Len(s)] /\ \A j, k \in 1..n : g[j] = g[k] => j = k
  BY <1>1
<1>3. t = [k \in 1..n |-> s[g[k]]]
  BY DEF RemovedAt
<1>4. \A k \in 1..Len(s) : k # i => \E j \in 1..n : g[j] = k
  <2> SUFFICES ASSUME NEW k \in 1..Len(s), k # i
               PROVE  \E j \in 1..n : g[j] = k
    OBVIOUS
  <2>1. CASE k < i
    <3>1. k \in 1..n /\ g[k] = k
      BY <1>1, <2>1
    <3> QED
      BY <3>1
  <2>2. CASE k > i
    <3>1. k - 1 \in 1..n /\ g[k - 1] = k
      BY <1>1, <2>2
    <3> QED
      BY <3>1
  <2> QED
    BY <2>1, <2>2
<1> HIDE DEF g, n
<1>5. t \in Seq(Icon) /\ Len(t) = n /\ Selects(g, s, t)
  BY <1>1, <1>2, <1>3, Selected
<1>6. DOMAIN t = 1..n /\ \A k \in 1..n : t[k] = s[g[k]]
  BY <1>3
<1>7. ASSUME NEW k \in DOMAIN s, s[k].key # s[i].key
      PROVE  \E j \in DOMAIN t : s[k].key = t[j].key
  <2>1. PICK j \in 1..n : g[j] = k
    BY <1>1, <1>4, <1>7
  <2>2. t[j] = s[k]
    BY <1>6, <2>1
  <2> QED
    BY <1>6, <2>2
<1>8. ASSUME NEW x \in KeysOf(s) \ KeysOf(t)
      PROVE  x = s[i].key
  <2>1. PICK k \in DOMAIN s : x = s[k].key
    BY <1>8 DEF KeysOf
  <2>2. ~ \E j \in DOMAIN t : x = t[j].key
    BY <1>8 DEF KeysOf
  <2> QED
    BY <1>7, <2>1, <2>2
<1> QED
  BY <1>5, <1>8 DEF n

\* An icon is moved.
LEMMA IsReordered ==
  ASSUME NEW s \in Seq(Icon), NEW i \in 1..Len(s), NEW d \in 1..Len(s),
         NEW t, t = Moved(s, i, d)
  PROVE  t \in Seq(Icon) /\ Len(t) = Len(s) /\ \E g : Selects(g, s, t)
<1> DEFINE n == Len(s)
           g == [k \in 1..n |-> IF k = d THEN i
                                ELSE IF i <= k /\ k < d THEN k + 1
                                ELSE IF d < k /\ k <= i THEN k - 1
                                ELSE k]
<1>1. n \in Nat /\ i \in 1..n /\ d \in 1..n
  BY LenProperties
<1>2. g \in [1..n -> 1..n] /\ \A j, k \in 1..n : g[j] = g[k] => j = k
  <2> HIDE DEF n
  <2> QED
    BY <1>1
<1>3. t = [k \in 1..n |-> s[g[k]]]
  <2>1. t = [k \in 1..n |-> IF k = d THEN s[i]
                            ELSE IF i <= k /\ k < d THEN s[k + 1]
                            ELSE IF d < k /\ k <= i THEN s[k - 1]
                            ELSE s[k]]
    BY DEF Moved
  <2> HIDE DEF n
  <2> QED
    BY <2>1
<1> HIDE DEF g
<1>4. g \in [1..n -> 1..Len(s)]
  BY <1>2
<1> HIDE DEF n
<1>5. t \in Seq(Icon) /\ Len(t) = n /\ Selects(g, s, t)
  BY <1>1, <1>2, <1>3, <1>4, Selected
<1> QED
  BY <1>5 DEF n

\* The fields of icons change, but not what they are.
LEMMA Changed ==
  ASSUME NEW s \in Seq(Icon), NEW t \in Seq(Icon), Len(t) = Len(s),
         \A k \in 1..Len(s) : t[k].key = s[k].key
  PROVE  /\ DOMAIN t = DOMAIN s
         /\ Unique(s) => Unique(t)
         /\ KeysOf(s) = KeysOf(t)
<1>1. DOMAIN s = 1..Len(s) /\ DOMAIN t = DOMAIN s
  BY LenProperties
<1>2. KeysOf(s) = KeysOf(t)
  BY <1>1 DEF KeysOf
<1> QED
  BY <1>1, <1>2 DEF Unique

-----------------------------------------------------------------------------
(* Publishing                                                              *)

Events == {"NIM_ADD", "NIM_DELETE", "NIM_MODIFY"}

\* What TypeOK says of the publishes.
LEMMA CallsTyped ==
  ASSUME TypeOK
  PROVE  /\ calls \in Seq(Call) /\ Len(calls) \in Nat /\ DOMAIN calls = 1..Len(calls)
         /\ \A n \in DOMAIN calls : calls[n] \in Call
         /\ calls # <<>> =>
              Len(calls) \in DOMAIN calls /\ Len(calls) # 0 /\ Top = calls[Len(calls)]
<1>1. calls \in Seq(Call)
  BY DEF TypeOK
<1>2. Len(calls) \in Nat /\ DOMAIN calls = 1..Len(calls)
  BY <1>1, LenProperties
<1>3. calls # <<>> => Len(calls) # 0
  BY <1>1, EmptySeq
<1> QED
  BY <1>1, <1>2, <1>3, ElementOfSeq DEF Top

\* A publish begins: those in progress learn that the tray has changed.
LEMMA Publishes ==
  ASSUME TypeOK, NEW e \in Events, NEW x \in Nat, NEW F \in SUBSET Flags,
         NEW a \in Key \cup {NoKey}, NEW o \in Nat, NEW c, c = Published(e, x, F, a, o)
  PROVE  /\ c \in Seq(Call) /\ Len(c) = Len(calls) + 1 /\ DOMAIN c = 1..Len(calls) + 1
         /\ c[Len(calls) + 1] =
              [event |-> e, icon_index |-> x, flags |-> F, turn |-> 0, old |-> o,
               overwritten |-> FALSE, about |-> a, changed |-> FALSE]
         /\ \A n \in DOMAIN calls :
              /\ n \in DOMAIN c /\ n # Len(calls) + 1
              /\ c[n].changed
              /\ c[n].event = calls[n].event /\ c[n].turn = calls[n].turn
<1> DEFINE old == [n \in DOMAIN calls |->
                     [calls[n] EXCEPT !.changed = TRUE,
                                      !.overwritten = @ \/ e = "NIM_ADD"]]
           new == [event |-> e, icon_index |-> x, flags |-> F, turn |-> 0, old |-> o,
                   overwritten |-> FALSE, about |-> a, changed |-> FALSE]
<1>1. /\ Len(calls) \in Nat /\ DOMAIN calls = 1..Len(calls)
      /\ \A n \in DOMAIN calls : calls[n] \in Call
  BY CallsTyped
<1>2. new \in Call
  BY CountAssumption DEF Call, Events
<1>3. \A n \in DOMAIN calls :
        old[n] \in Call /\ old[n].changed
        /\ old[n].event = calls[n].event /\ old[n].turn = calls[n].turn
  <2> SUFFICES ASSUME NEW n \in DOMAIN calls
               PROVE  /\ [calls[n] EXCEPT !.changed = TRUE,
                                          !.overwritten = @ \/ e = "NIM_ADD"] \in Call
                      /\ old[n].changed
                      /\ old[n].event = calls[n].event /\ old[n].turn = calls[n].turn
    OBVIOUS
  <2>1. calls[n] \in Call
    BY <1>1
  <2> QED
    BY <2>1 DEF Call
<1>4. old \in [1..Len(calls) -> Call]
  BY <1>1, <1>3
<1>5. c = Append(old, new)
  BY DEF Published
<1> HIDE DEF old, new
<1>6. old \in Seq(Call) /\ Len(old) = Len(calls)
  BY <1>1, <1>4, IsSequence
<1>7. /\ c \in Seq(Call) /\ Len(c) = Len(calls) + 1
      /\ c[Len(calls) + 1] = new
      /\ \A n \in 1..Len(calls) : c[n] = old[n]
  BY <1>2, <1>5, <1>6, AppendProperties
<1>8. DOMAIN c = 1..Len(calls) + 1
  BY <1>7, LenProperties
<1>9. \A n \in DOMAIN calls : n \in DOMAIN c /\ n # Len(calls) + 1
  BY <1>1, <1>8
<1> QED
  BY <1>1, <1>3, <1>7, <1>8, <1>9 DEF new

\* It is the innermost.
LEMMA PublishedIsTop ==
  ASSUME TypeOK, NEW e \in Events, NEW x \in Nat, NEW F \in SUBSET Flags,
         NEW a \in Key \cup {NoKey}, NEW o \in Nat, calls' = Published(e, x, F, a, o)
  PROVE  Top'.event = e /\ Top'.about = a
<1>1. /\ Len(calls') = Len(calls) + 1
      /\ calls'[Len(calls) + 1] =
           [event |-> e, icon_index |-> x, flags |-> F, turn |-> 0, old |-> o,
            overwritten |-> FALSE, about |-> a, changed |-> FALSE]
  BY Publishes
<1> QED
  BY <1>1 DEF Top

\* The invariant of the publishes after one has begun for a change of the tray.
LEMMA PublishKeeps ==
  ASSUME TypeOK, Called, OthersRun,
         NEW e \in Events, NEW x \in Nat, NEW F \in SUBSET Flags,
         NEW a \in Key \cup {NoKey}, NEW o \in Nat, calls' = Published(e, x, F, a, o),
         \/ e = "NIM_DELETE"
         \/ a = NoKey
         \/ x \in DOMAIN icons' /\ icons'[x].key = a
  PROVE  calls' \in Seq(Call) /\ WellInformed' /\ Called'
<1> DEFINE l == Len(calls) + 1
<1>1. /\ calls' \in Seq(Call) /\ Len(calls') = l /\ DOMAIN calls' = 1..l
      /\ calls'[l] = [event |-> e, icon_index |-> x, flags |-> F, turn |-> 0, old |-> o,
                      overwritten |-> FALSE, about |-> a, changed |-> FALSE]
      /\ \A n \in DOMAIN calls :
           calls'[n].changed /\ calls'[n].turn = calls[n].turn
  BY Publishes
<1>2. /\ Len(calls) \in Nat /\ DOMAIN calls = 1..Len(calls)
      /\ calls # <<>> => Len(calls) \in DOMAIN calls /\ Top = calls[Len(calls)]
  BY CallsTyped
<1>3. \A n \in 1..l : n = l \/ n \in DOMAIN calls
  BY <1>2
<1>4. WellInformed'
  BY <1>1, <1>3 DEF WellInformed
<1>5. \A n \in DOMAIN calls : calls[n].turn # 0
  <2> SUFFICES ASSUME NEW n \in DOMAIN calls
               PROVE  calls[n].turn # 0
    OBVIOUS
  <2>1. n = Len(calls) \/ n \in 1..Len(calls) - 1
    BY <1>2
  <2>2. calls # <<>>
    BY <1>2
  <2> QED
    BY <1>2, <2>1, <2>2 DEF Called, OthersRun
<1>6. \A n \in 1..l - 1 : n \in DOMAIN calls
  BY <1>2
<1>7. Called'
  BY <1>1, <1>5, <1>6 DEF Called
<1> QED
  BY <1>1, <1>4, <1>7

-----------------------------------------------------------------------------
(* Changes of the tray                                                     *)

\* A publish begins that is well informed, and tells of a deletion if there are
\* fewer icons now.
Announces ==
  \E e \in Events, x \in Nat, F \in SUBSET Flags, a \in Key \cup {NoKey}, o \in Nat :
    /\ calls' = Published(e, x, F, a, o)
    /\ e = "NIM_DELETE" \/ a = NoKey \/ (x \in DOMAIN icons' /\ icons'[x].key = a)
    /\ Len(icons') < Len(icons) => e = "NIM_DELETE"

\* What every change of the tray is like.
Changes ==
  /\ OthersRun /\ UNCHANGED <<alive, memory>>
  /\ icons' \in Seq(Icon) /\ Unique(icons')
  /\ Announces
  /\ LostForAReason

\* Nothing is lost when all that were shown still are.
LEMMA AllShown ==
  ASSUME Shown \subseteq Shown'
  PROVE  LostForAReason
BY DEF LostForAReason

\* What TypeOK says of the icons.
LEMMA IconsTyped ==
  ASSUME TypeOK
  PROVE  /\ icons \in Seq(Icon) /\ Len(icons) \in Nat /\ DOMAIN icons = 1..Len(icons)
         /\ count = Len(icons)
         /\ \A i \in DOMAIN icons : icons[i] \in Icon /\ icons[i].key \in Key
<1>1. icons \in Seq(Icon)
  BY DEF TypeOK
<1>2. Len(icons) \in Nat /\ DOMAIN icons = 1..Len(icons)
  BY <1>1, LenProperties
<1>3. \A i \in DOMAIN icons : icons[i] \in Icon
  BY <1>1, <1>2, ElementOfSeq
<1> QED
  BY <1>1, <1>2, <1>3 DEF count, Icon

\* What programs send makes icons.
LEMMA IconOfNid ==
  ASSUME NEW nid \in Nid
  PROVE  /\ nid.key \in Key
         /\ TrayIcon_New(nid) \in Icon /\ TrayIcon_New(nid).key = nid.key
         /\ \A icon \in Icon : Updated(icon, nid) \in Icon /\ Updated(icon, nid).key = icon.key
<1>1. nid \in NidType
  BY NidAssumption
<1>2. \A icon \in Icon : Updated(icon, nid) \in Icon /\ Updated(icon, nid).key = icon.key
  BY <1>1 DEF NidType, Icon, Updated
<1>3. nid.key \in Key
  BY <1>1 DEF NidType
<1>4. [key |-> nid.key, hIcon |-> NULL, uCallbackMessage |-> WM_NULL,
       szTip |-> Empty, szInfo |-> Empty, szInfoTitle |-> Empty] \in Icon
  BY <1>3, NullAssumption DEF Icon
<1> QED
  BY <1>2, <1>3, <1>4 DEF TrayIcon_New

\* NIM_ADD.
LEMMA AddChanges ==
  ASSUME TypeOK, Unique(icons), OthersRun, NEW nid \in Nid, AddIcon(nid),
         UNCHANGED <<alive, memory>>
  PROVE  Changes
<1> PICK icon : icon = TrayIcon_New(nid)
  OBVIOUS
<1>1. icon \in Icon /\ icon.key = nid.key /\ nid.key \in Key
  BY IconOfNid
<1>2. icons \in Seq(Icon) /\ Len(icons) \in Nat /\ count = Len(icons)
  BY IconsTyped
<1>3. \A i \in DOMAIN icons : icons[i].key # icon.key
  BY <1>1 DEF AddIcon, Addable, FindIconIndex
<1>4. icons' = Append(icons, icon) /\ calls' = Published("NIM_ADD", Len(icons) + 1, Flags, nid.key, 0)
  BY <1>2 DEF AddIcon, publish
<1> PICK t : t = Append(icons, icon)
  OBVIOUS
<1>8. /\ t \in Seq(Icon) /\ Len(t) = Len(icons) + 1
      /\ Len(icons) + 1 \in DOMAIN t /\ t[Len(icons) + 1] = icon
      /\ Unique(icons) => Unique(t)
      /\ KeysOf(icons) \subseteq KeysOf(t)
  BY <1>1, <1>2, <1>3, AddedLast, Zenon
<1>9. icons' = t
  BY <1>4
<1>5. /\ icons' \in Seq(Icon) /\ Len(icons') = Len(icons) + 1
      /\ Len(icons) + 1 \in DOMAIN icons' /\ icons'[Len(icons) + 1] = icon
      /\ Unique(icons')
      /\ KeysOf(icons) \subseteq KeysOf(icons')
  BY <1>8, <1>9
<1>6. Announces
  <2>1. "NIM_ADD" \in Events /\ Len(icons) + 1 \in Nat /\ Flags \in SUBSET Flags
        /\ nid.key \in Key \cup {NoKey} /\ 0 \in Nat
    BY <1>1, <1>2 DEF Events
  <2>2. ~(Len(icons') < Len(icons))
    BY <1>2, <1>5
  <2>3. Len(icons) + 1 \in DOMAIN icons' /\ icons'[Len(icons) + 1].key = nid.key
    BY <1>1, <1>5
  <2> QED
    BY <1>4, <2>1, <2>2, <2>3 DEF Announces
<1>7. LostForAReason
  BY <1>5, AllShown DEF Shown, KeysOf
<1> QED
  BY <1>5, <1>6, <1>7 DEF Changes

\* NIM_MODIFY.
LEMMA UpdateChanges ==
  ASSUME TypeOK, Unique(icons), OthersRun, NEW nid \in Nid, UpdateIcon(nid),
         UNCHANGED <<alive, memory>>
  PROVE  Changes
<1>1. PICK i \in FindIconIndex(nid.key) :
        /\ icons' = [icons EXCEPT ![i] = Updated(icons[i], nid)]
        /\ calls' = Published("NIM_MODIFY", i, UpdateFlags(icons[i], nid), nid.key, 0)
  BY DEF UpdateIcon, publish
<1>2. /\ icons \in Seq(Icon) /\ Len(icons) \in Nat /\ DOMAIN icons = 1..Len(icons)
      /\ \A k \in DOMAIN icons : icons[k] \in Icon
  BY IconsTyped
<1>3. i \in 1..Len(icons) /\ icons[i].key = nid.key
  BY <1>1, <1>2 DEF FindIconIndex
<1> PICK icon : icon = Updated(icons[i], nid)
  OBVIOUS
<1>4. icon \in Icon /\ icon.key = icons[i].key /\ nid.key \in Key
  BY <1>2, <1>3, IconOfNid
<1>5. icons' = [icons EXCEPT ![i] = icon]
  BY <1>1
<1> PICK t : t = [icons EXCEPT ![i] = icon]
  OBVIOUS
<1>11. /\ t \in Seq(Icon) /\ Len(t) = Len(icons)
       /\ \A j \in 1..Len(icons) : t[j] = IF j = i THEN icon ELSE icons[j]
  BY <1>2, <1>3, <1>4, ExceptSeq
<1>12. \A k \in 1..Len(icons) : t[k].key = icons[k].key
  BY <1>4, <1>11
<1>9. /\ DOMAIN t = DOMAIN icons
      /\ Unique(icons) => Unique(t)
      /\ KeysOf(icons) = KeysOf(t)
  BY <1>2, <1>11, <1>12, Changed
<1>10. icons' = t
  BY <1>5
<1>6. /\ icons' \in Seq(Icon) /\ Len(icons') = Len(icons) /\ DOMAIN icons' = DOMAIN icons
      /\ \A k \in 1..Len(icons) : icons'[k].key = icons[k].key
      /\ Unique(icons')
      /\ KeysOf(icons) = KeysOf(icons')
  BY <1>9, <1>10, <1>11, <1>12
<1>7. Announces
  <2>1. "NIM_MODIFY" \in Events /\ i \in Nat /\ nid.key \in Key \cup {NoKey} /\ 0 \in Nat
    BY <1>3, <1>4 DEF Events
  <2>2. UpdateFlags(icons[i], nid) \in SUBSET Flags
    BY DEF UpdateFlags
  <2>3. ~(Len(icons') < Len(icons))
    BY <1>2, <1>6
  <2>4. i \in DOMAIN icons' /\ icons'[i].key = nid.key
    BY <1>2, <1>3, <1>6
  <2> QED
    BY <1>1, <2>1, <2>2, <2>3, <2>4 DEF Announces
<1>8. LostForAReason
  BY <1>6, AllShown DEF Shown, KeysOf
<1> QED
  BY <1>6, <1>7, <1>8 DEF Changes

\* What a publish says that is about no icon, or about one that is gone.
LEMMA Uninformed ==
  ASSUME NEW e \in Events, NEW x \in Nat, NEW a \in Key \cup {NoKey}, NEW o \in Nat,
         calls' = Published(e, x, {}, a, o),
         e = "NIM_DELETE" \/ (a = NoKey /\ Len(icons') = Len(icons) /\ Len(icons) \in Nat)
  PROVE  Announces
<1>1. Len(icons') < Len(icons) => e = "NIM_DELETE"
  OBVIOUS
<1>2. {} \in SUBSET Flags
  OBVIOUS
<1> QED
  BY <1>1, <1>2 DEF Announces

\* NIM_DELETE.
LEMMA RemoveChanges ==
  ASSUME TypeOK, Unique(icons), NEW nid \in Nid, NotifyDelete(nid)
  PROVE  Changes
<1>1. PICK i \in FindIconIndex(nid.key) :
        /\ icons' = RemovedAt(icons, i)
        /\ calls' = Published("NIM_DELETE", 0, {}, nid.key, 0)
  BY DEF NotifyDelete, RemoveIcon, publish
<1>2. icons \in Seq(Icon) /\ DOMAIN icons = 1..Len(icons)
  BY IconsTyped
<1>3. i \in 1..Len(icons) /\ icons[i].key = nid.key
  BY <1>1, <1>2 DEF FindIconIndex
<1> PICK t : t = RemovedAt(icons, i)
  OBVIOUS
<1>8. /\ t \in Seq(Icon)
      /\ \E g : Selects(g, icons, t)
      /\ \A x \in KeysOf(icons) \ KeysOf(t) : x = icons[i].key
  BY <1>2, <1>3, Removed, Zenon
<1>9. icons' = t
  BY <1>1
<1>10. Unique(t)
  BY <1>2, <1>8, SelectionUnique
<1>4. icons' \in Seq(Icon) /\ Unique(icons')
  BY <1>8, <1>9, <1>10
<1>6. Announces
  BY <1>1, Uninformed, IconOfNid DEF Events
<1>7. LostForAReason
  <2>1. Shown = KeysOf(icons) /\ Shown' = KeysOf(t)
    BY <1>9 DEF Shown, KeysOf
  <2>2. \A x \in Shown \ Shown' : nid.key = x
    BY <1>3, <1>8, <2>1
  <2> HIDE DEF NotifyDelete
  <2> QED
    BY <2>2 DEF LostForAReason
<1> QED
  BY <1>4, <1>6, <1>7 DEF Changes, NotifyDelete

\* NIM_MODIFY, of an icon or of what becomes one.
LEMMA ModifyChanges ==
  ASSUME TypeOK, Unique(icons), NEW nid \in Nid, NotifyModify(nid)
  PROVE  Changes
<1>1. OthersRun /\ UNCHANGED <<alive, memory>>
  BY DEF NotifyModify
<1>2. UpdateIcon(nid) \/ AddIcon(nid)
  BY DEF NotifyModify
<1> QED
  BY <1>1, <1>2, UpdateChanges, AddChanges

\* Cleaning.
LEMMA CleanChanges ==
  ASSUME TypeOK, Unique(icons), NEW index, clean_icon(index)
  PROVE  Changes
<1>1. /\ icons \in Seq(Icon) /\ Len(icons) \in Nat /\ DOMAIN icons = 1..Len(icons)
      /\ count = Len(icons)
  BY IconsTyped
<1>2. PICK n \in 0..count : \E from \in [1..n -> 1..count] :
        /\ \A j, k \in 1..n : j < k => from[j] < from[k]
        /\ {from[k] : k \in 1..n} = {i \in 1..count : Valid(i)}
        /\ icons' = [k \in 1..n |-> icons[from[k]]]
  BY DEF clean_icon, CleanIcons
<1>3. PICK from \in [1..n -> 1..count] :
        /\ \A j, k \in 1..n : j < k => from[j] < from[k]
        /\ {from[k] : k \in 1..n} = {i \in 1..count : Valid(i)}
        /\ icons' = [k \in 1..n |-> icons[from[k]]]
  BY <1>2
<1> PICK t : t = [k \in 1..n |-> icons[from[k]]]
  OBVIOUS
<1>4. icons' = t
  BY <1>3
<1>5. n \in Nat /\ from \in [1..n -> 1..Len(icons)]
  BY <1>1, <1>3
<1>6. \A j, k \in 1..n : from[j] = from[k] => j = k
  <2> SUFFICES ASSUME NEW j \in 1..n, NEW k \in 1..n, j # k
               PROVE  from[j] # from[k]
    OBVIOUS
  <2>1. from[j] \in Int /\ from[k] \in Int /\ j \in Int /\ k \in Int
    BY <1>5
  <2>2. j < k \/ k < j
    BY <2>1
  <2>3. from[j] < from[k] \/ from[k] < from[j]
    BY <1>3, <2>2
  <2> QED
    BY <2>1, <2>3
<1>7. t \in Seq(Icon) /\ Len(t) = n /\ Selects(from, icons, t)
  <2>1. t = [k \in 1..n |-> icons[from[k]]]
    OBVIOUS
  <2>2. n \in Nat
    BY <1>5
  <2>3. from \in [1..n -> 1..Len(icons)]
    BY <1>5
  <2>4. icons \in Seq(Icon)
    BY <1>1
  <2> QED
    BY <1>6, <2>1, <2>2, <2>3, <2>4, Selected
<1>8. Unique(t)
  BY <1>1, <1>7, SelectionUnique
<1>9. Announces
  <2>1. calls' = Published("NIM_DELETE", 0, {}, NoKey, 0)
    BY DEF clean_icon, publish
  <2> QED
    BY <2>1, Uninformed DEF Events
<1>10. LostForAReason
  <2>1. Shown = KeysOf(icons) /\ Shown' = KeysOf(t)
    BY <1>4 DEF Shown, KeysOf
  <2>2. ASSUME NEW x \in KeysOf(icons) \ KeysOf(t)
        PROVE  owner[x] \notin alive
    <3>1. PICK i \in 1..count : x = icons[i].key
      BY <1>1, <2>2 DEF KeysOf
    <3>2. SUFFICES ASSUME Valid(i) PROVE FALSE
      BY <3>1 DEF Valid
    <3>3. PICK k \in 1..n : from[k] = i
      BY <1>3, <3>2
    <3>4. k \in DOMAIN t /\ t[k].key = x
      BY <3>1, <3>3
    <3> QED
      BY <2>2, <3>4 DEF KeysOf
  <2> QED
    BY <2>1, <2>2 DEF LostForAReason
<1> QED
  BY <1>4, <1>7, <1>8, <1>9, <1>10 DEF Changes, clean_icon

\* What a change is like that only reorders the icons.
LEMMA ReorderingChanges ==
  ASSUME TypeOK, Unique(icons), OthersRun, UNCHANGED <<alive, memory>>,
         NEW t \in Seq(Icon), NEW g, Selects(g, icons, t), Len(t) = Len(icons),
         icons' = t, publish("NIM_MODIFY", 1, {}, NoKey)
  PROVE  Changes
<1>1. icons \in Seq(Icon) /\ Len(icons) \in Nat
  BY IconsTyped
<1>2. Unique(t) /\ KeysOf(icons) = KeysOf(t)
  BY <1>1, SelectionUnique, ReorderingLosesNothing
<1>3. Announces
  <2>1. calls' = Published("NIM_MODIFY", 1, {}, NoKey, 0)
    BY DEF publish
  <2> QED
    BY <1>1, <2>1, Uninformed DEF Events
<1>4. LostForAReason
  BY <1>2, AllShown DEF Shown, KeysOf
<1> QED
  BY <1>2, <1>3, <1>4 DEF Changes

\* Moving.
LEMMA MoveChanges ==
  ASSUME TypeOK, Unique(icons), NEW index \in Int, NEW dest \in Int,
         move_icon(index, dest)
  PROVE  Changes
<1>1. /\ icons \in Seq(Icon) /\ Len(icons) \in Nat /\ count = Len(icons)
  BY IconsTyped
<1>2. Adjusted(index) \in 1..Len(icons) /\ Adjusted(dest) \in 1..Len(icons)
  BY <1>1 DEF move_icon, ValidIndex, Adjusted
<1> PICK t : t = Moved(icons, Adjusted(index), Adjusted(dest))
  OBVIOUS
<1>3. t \in Seq(Icon) /\ Len(t) = Len(icons) /\ \E g : Selects(g, icons, t)
  BY <1>1, <1>2, IsReordered
<1>4. /\ OthersRun /\ UNCHANGED <<alive, memory>> /\ icons' = t
      /\ publish("NIM_MODIFY", 1, {}, NoKey)
  BY DEF move_icon
<1> QED
  BY <1>3, <1>4, ReorderingChanges

\* Sorting.
LEMMA SortChanges ==
  ASSUME TypeOK, Unique(icons), sort_icons
  PROVE  Changes
<1>1. /\ icons \in Seq(Icon) /\ Len(icons) \in Nat /\ count = Len(icons)
  BY IconsTyped
<1>2. PICK f \in [1..count -> 1..count] :
        /\ \A j, k \in 1..count : f[j] = f[k] => j = k
        /\ icons' = [k \in 1..count |-> icons[f[k]]]
  BY DEF sort_icons
<1> PICK t : t = [k \in 1..count |-> icons[f[k]]]
  OBVIOUS
<1>3. t \in Seq(Icon) /\ Len(t) = Len(icons) /\ Selects(f, icons, t)
  <2>1. /\ f \in [1..Len(icons) -> 1..Len(icons)]
        /\ \A j, k \in 1..Len(icons) : f[j] = f[k] => j = k
        /\ t = [k \in 1..Len(icons) |-> icons[f[k]]]
    BY <1>1, <1>2
  <2> QED
    BY <1>1, <2>1, Selected
<1>4. /\ OthersRun /\ UNCHANGED <<alive, memory>> /\ icons' = t
      /\ publish("NIM_MODIFY", 1, {}, NoKey)
  BY <1>2 DEF sort_icons
<1> QED
  BY <1>3, <1>4, ReorderingChanges

\* Resetting.
LEMMA ResetChanges ==
  ASSUME TypeOK, reset_icons
  PROVE  Changes
<1>1. OthersRun /\ UNCHANGED <<alive, memory>> /\ icons' = <<>>
      /\ calls' = Published("NIM_DELETE", 0, {}, NoKey, count)
  BY DEF reset_icons
<1>2. Len(icons) \in Nat /\ count = Len(icons)
  BY IconsTyped
<1>3. icons' \in Seq(Icon) /\ Unique(icons')
  <2>1. Unique(<<>>)
    BY DEF Unique
  <2> QED
    BY <1>1, <2>1
<1>4. "NIM_DELETE" \in Events /\ 0 \in Nat /\ {} \in SUBSET Flags /\ NoKey \in Key \cup {NoKey}
      /\ count \in Nat
  BY <1>2 DEF Events
<1>5. Announces
  BY <1>1, <1>4, Uninformed
<1>7. Top'.event = "NIM_DELETE" /\ Top'.about = NoKey
  BY <1>1, <1>4, PublishedIsTop
<1>8. LostForAReason
  BY <1>1, <1>7 DEF LostForAReason
<1> QED
  BY <1>1, <1>3, <1>5, <1>8 DEF Changes

-----------------------------------------------------------------------------
(* The tray and its publishes                                              *)

\* A change of the tray keeps the invariant.
LEMMA ChangesKeep ==
  ASSUME TrayInv, Changes
  PROVE  TrayInv'
<1>1. TypeOK /\ Called /\ OthersRun
  BY DEF TrayInv, Changes
<1>2. PICK e \in Events, x \in Nat, F \in SUBSET Flags, a \in Key \cup {NoKey}, o \in Nat :
        /\ calls' = Published(e, x, F, a, o)
        /\ e = "NIM_DELETE" \/ a = NoKey \/ (x \in DOMAIN icons' /\ icons'[x].key = a)
  BY DEF Changes, Announces
<1>3. calls' \in Seq(Call) /\ WellInformed' /\ Called'
  BY <1>1, <1>2, PublishKeeps
<1>4. TypeOK'
  BY <1>1, <1>3 DEF Changes, TypeOK
<1> QED
  BY <1>3, <1>4 DEF Changes, TrayInv

\* A window that dies takes no icon with it yet.
LEMMA DeathKeeps ==
  ASSUME TrayInv, NEW w, WindowDies(w)
  PROVE  TrayInv'
BY DEF TrayInv, WindowDies, TypeOK, WellInformed, Called

\* The next subscriber is called.
LEMMA CallNextCalls ==
  ASSUME TypeOK, CallNext
  PROVE  /\ calls' \in Seq(Call) /\ Len(calls') = Len(calls) /\ DOMAIN calls' = DOMAIN calls
         /\ Len(calls) \in DOMAIN calls
         /\ \A n \in DOMAIN calls :
              calls'[n] = IF n = Len(calls) THEN [calls[n] EXCEPT !.turn = @ + 1]
                          ELSE calls[n]
         /\ calls'[Len(calls)].turn = Top.turn + 1
<1> PICK l : l = Len(calls)
  OBVIOUS
<1>1. /\ calls \in Seq(Call) /\ l \in DOMAIN calls /\ Top = calls[l] /\ calls[l] \in Call
      /\ DOMAIN calls = 1..l
  BY CallsTyped DEF CallNext
<1> PICK c : c = [calls[l] EXCEPT !.turn = @ + 1]
  OBVIOUS
<1>2. Top.turn < Subscribers
  BY DEF CallNext
<1>3. c \in Call /\ c.turn = Top.turn + 1
  <2>1. calls[l].turn \in 0..Subscribers /\ calls[l].turn < Subscribers
    BY <1>1, <1>2 DEF Call
  <2>2. calls[l].turn + 1 \in 0..Subscribers
    BY <2>1, CountAssumption
  <2> QED
    BY <1>1, <2>2 DEF Call
<1>4. calls' = [calls EXCEPT ![l] = c]
  BY DEF CallNext
<1> PICK t : t = [calls EXCEPT ![l] = c]
  OBVIOUS
<1>5. /\ t \in Seq(Call) /\ Len(t) = Len(calls)
      /\ \A j \in 1..Len(calls) : t[j] = IF j = l THEN c ELSE calls[j]
  BY <1>1, <1>3, ExceptSeq
<1>6. DOMAIN t = DOMAIN calls
  BY <1>1, <1>5, LenProperties
<1> QED
  BY <1>1, <1>3, <1>4, <1>5, <1>6

\* Calling a subscriber keeps the invariant.
LEMMA CallNextKeeps ==
  ASSUME TrayInv, CallNext
  PROVE  TrayInv'
<1>1. TypeOK /\ CallNext
  BY DEF TrayInv
<1>2. /\ calls' \in Seq(Call) /\ Len(calls') = Len(calls) /\ DOMAIN calls' = DOMAIN calls
      /\ \A n \in DOMAIN calls :
           calls'[n] = IF n = Len(calls) THEN [calls[n] EXCEPT !.turn = @ + 1]
                       ELSE calls[n]
  BY <1>1, CallNextCalls
<1>3. /\ Len(calls) \in Nat /\ DOMAIN calls = 1..Len(calls)
      /\ \A n \in DOMAIN calls : calls[n] \in Call
  BY <1>1, CallsTyped
<1>4. UNCHANGED <<icons, alive, memory>>
  BY DEF CallNext
<1>5. TypeOK'
  BY <1>1, <1>2, <1>4 DEF TypeOK
<1>6. Unique(icons')
  BY <1>4 DEF TrayInv
<1>7. WellInformed'
  <2> SUFFICES ASSUME NEW n \in DOMAIN calls, calls'[n].event # "NIM_DELETE",
                      calls'[n].about # NoKey, ~calls'[n].changed
               PROVE  /\ calls'[n].icon_index \in DOMAIN icons
                      /\ icons[calls'[n].icon_index].key = calls'[n].about
    BY <1>2, <1>4 DEF WellInformed
  <2>1. /\ calls'[n].event = calls[n].event /\ calls'[n].about = calls[n].about
        /\ calls'[n].changed = calls[n].changed
        /\ calls'[n].icon_index = calls[n].icon_index
    BY <1>2, <1>3 DEF Call
  <2> QED
    BY <2>1 DEF TrayInv, WellInformed
<1>8. Called'
  <2>1. \A n \in 1..Len(calls) - 1 : n \in DOMAIN calls /\ n # Len(calls)
    <3> PICK l : l = Len(calls)
      OBVIOUS
    <3>1. \A n \in 1..l - 1 : n \in 1..l /\ n # l
      BY <1>3
    <3> QED
      BY <1>3, <3>1
  <2> QED
    BY <1>2, <2>1 DEF TrayInv, Called
<1> QED
  BY <1>5, <1>6, <1>7, <1>8 DEF TrayInv

\* The innermost publish ends.
LEMMA EndPublishCalls ==
  ASSUME TypeOK, EndPublish
  PROVE  /\ calls' \in Seq(Call) /\ Len(calls') = Len(calls) - 1
         /\ DOMAIN calls' = 1..Len(calls) - 1
         /\ \A n \in DOMAIN calls' : n \in DOMAIN calls /\ calls'[n] = calls[n]
         /\ \A n \in DOMAIN calls : n = Len(calls) \/ n \in DOMAIN calls'
<1> PICK l : l = Len(calls)
  OBVIOUS
<1>1. /\ calls \in Seq(Call) /\ l \in Nat /\ l # 0 /\ DOMAIN calls = 1..l
  BY CallsTyped DEF EndPublish
<1> PICK t : t = SubSeq(calls, 1, l - 1)
  OBVIOUS
<1>2. calls' = t
  BY DEF EndPublish
<1>3. l - 1 \in 0..Len(calls)
  BY <1>1
<1>4. /\ t \in Seq(Call) /\ Len(t) = l - 1
      /\ \A i \in 1..l - 1 : t[i] = calls[i]
  <2>1. \A i \in 1..l - 1 : i \in 1..Len(calls)
    BY <1>1
  <2>2. \A i \in 1..l - 1 : 1 + i - 1 = i
    OBVIOUS
  <2> QED
    BY <1>1, <2>1, <2>2, SubSeqProperties
<1>5. DOMAIN t = 1..l - 1
  BY <1>4, LenProperties
<1> QED
  BY <1>1, <1>2, <1>4, <1>5

\* Ending a publish keeps the invariant.
LEMMA EndPublishKeeps ==
  ASSUME TrayInv, EndPublish
  PROVE  TrayInv'
<1>1. TypeOK /\ EndPublish
  BY DEF TrayInv
<1>2. /\ calls' \in Seq(Call) /\ Len(calls') = Len(calls) - 1
      /\ \A n \in DOMAIN calls' : n \in DOMAIN calls /\ calls'[n] = calls[n]
      /\ DOMAIN calls' = 1..Len(calls) - 1
  BY <1>1, EndPublishCalls
<1>3. Len(calls) \in Nat
  BY <1>1, CallsTyped
<1>4. UNCHANGED <<icons, alive>> /\ memory' \in {"ok", "corrupt"}
  BY DEF EndPublish
<1>5. TypeOK'
  BY <1>1, <1>2, <1>4 DEF TypeOK
<1>6. Unique(icons') /\ WellInformed'
  BY <1>2, <1>4 DEF TrayInv, WellInformed
<1>7. Called'
  <2>1. \A n \in 1..(Len(calls) - 1) - 1 : n \in 1..Len(calls) - 1
    BY <1>3
  <2> QED
    BY <1>2, <2>1 DEF TrayInv, Called
<1> QED
  BY <1>5, <1>6, <1>7 DEF TrayInv

\* The steps that the commands of the window take on the tray.
LEMMA CleanAtChanges ==
  ASSUME TrayInv, NEW c, CleanAt(c)
  PROVE  Changes \/ UNCHANGED vars
<1>1. CASE clean_icon(c + 1)
  BY <1>1, CleanChanges DEF TrayInv
<1>2. CASE UNCHANGED vars
  BY <1>2
<1> QED
  BY <1>1, <1>2 DEF CleanAt

\* What happens to the tray otherwise.
LEMMA TrayStepChanges ==
  ASSUME TrayInv, TrayStep
  PROVE  Changes \/ \E w \in Window : WindowDies(w)
<1>1. TypeOK /\ Unique(icons)
  BY DEF TrayInv
<1>2. Index \subseteq Int
  BY DEF Index
<1>3. \A nid \in Nid : NotifyAdd(nid) => Changes
  BY <1>1, AddChanges DEF NotifyAdd
<1>4. \A nid \in Nid : NotifyDelete(nid) => Changes
  BY <1>1, RemoveChanges
<1>5. \A nid \in Nid : NotifyModify(nid) => Changes
  BY <1>1, ModifyChanges
<1>6. \A index \in Index : clean_icon(index) => Changes
  BY <1>1, CleanChanges
<1>7. \A index, dest \in Index : move_icon(index, dest) => Changes
  BY <1>1, <1>2, MoveChanges
<1>8. (reset_icons => Changes) /\ (sort_icons => Changes)
  BY <1>1, ResetChanges, SortChanges
<1> QED
  BY <1>3, <1>4, <1>5, <1>6, <1>7, <1>8 DEF TrayStep

\* The command that moves an icon.
LEMMA IconMoveChanges ==
  ASSUME TrayInv, ICON_MOVE
  PROVE  Changes
<1>1. TypeOK /\ Unique(icons)
  BY DEF TrayInv
<1>2. PICK way \in {<<cursor + 1, cursor + 2>>, <<cursor + 1, cursor>>,
                    <<cursor + 1, 1>>, <<cursor + 1, -1>>, <<-1, 1>>, <<1, -1>>} :
        move_icon(way[1], way[2])
  BY DEF ICON_MOVE
<1>3. count \in Nat
  BY <1>1, IconsTyped
<1>4. way[1] \in Int /\ way[2] \in Int
  BY <1>2, <1>3 DEF move_icon, ValidIndex
<1> QED
  BY <1>1, <1>2, <1>4, MoveChanges

\* What each step of the window is to the tray.
LEMMA StepsOfTheTray ==
  ASSUME TrayInv, [UINext]_uivars
  PROVE  \/ Changes
         \/ \E w \in Window : WindowDies(w)
         \/ CallNext
         \/ EndPublish
         \/ UNCHANGED <<icons, alive, calls>> /\ memory' \in {"ok", "corrupt"}
<1>1. memory \in {"ok", "corrupt"}
  BY DEF TrayInv, TypeOK
<1>3. CASE TrayStep
  BY <1>3, TrayStepChanges
<1>4. CASE Subscriber
  BY <1>4 DEF Subscriber
<1>5. CASE PublishEnds
  BY <1>5 DEF PublishEnds
<1>6. CASE TrayUpdate
  BY <1>1, <1>6 DEF TrayUpdate
<1>7. CASE CursorCommand
  <2>1. PICK c : CursorTo(c)
    BY <1>7 DEF CursorCommand, CURSOR_NEXT, CURSOR_PREV, CURSOR_FIRST, CURSOR_LAST
  <2>2. CleanAt(c)
    BY <2>1 DEF CursorTo
  <2> QED
    BY <1>1, <2>2, CleanAtChanges DEF vars
<1>8. CASE SEND_CLICK
  BY <1>1, <1>8 DEF SEND_CLICK
<1>9. CASE ICON_MOVE
  BY <1>9, IconMoveChanges
<1>10. CASE CMD_SHOW
  BY <1>1, <1>10 DEF CMD_SHOW
<1>11. CASE CMD_HIDE
  BY <1>1, <1>11 DEF CMD_HIDE
<1>12. CASE UNCHANGED uivars
  BY <1>1, <1>12 DEF uivars
<1> QED
  BY <1>3, <1>4, <1>5, <1>6, <1>7, <1>8, <1>9, <1>10, <1>11, <1>12 DEF UINext

\* Every step keeps the invariant.
LEMMA TrayInvNext ==
  ASSUME TrayInv, [UINext]_uivars
  PROVE  TrayInv'
<1>1. CASE Changes
  BY <1>1, ChangesKeep
<1>2. CASE \E w \in Window : WindowDies(w)
  BY <1>2, DeathKeeps
<1>3. CASE CallNext
  BY <1>3, CallNextKeeps
<1>4. CASE EndPublish
  BY <1>4, EndPublishKeeps
<1>5. CASE UNCHANGED <<icons, alive, calls>> /\ memory' \in {"ok", "corrupt"}
  BY <1>5 DEF TrayInv, TypeOK, WellInformed, Called
<1> QED
  BY <1>1, <1>2, <1>3, <1>4, <1>5, StepsOfTheTray

\* There are no icons to begin with.
LEMMA TrayInvInit ==
  ASSUME UIInit
  PROVE  TrayInv
<1>1. icons = <<>> /\ calls = <<>> /\ memory = "ok" /\ alive = Window
  BY DEF UIInit, Init
<1>2. TypeOK
  BY <1>1 DEF TypeOK
<1>3. DOMAIN icons = {} /\ DOMAIN calls = {} /\ 1..Len(calls) - 1 = {}
  BY <1>1
<1> QED
  BY <1>2, <1>3 DEF TrayInv, Unique, WellInformed, Called

\* The tray is consistent, and its publishes know what they are about.
THEOREM TrayInvariance == UISpec => []TrayInv
<1>1. UIInit => TrayInv
  BY TrayInvInit
<1>2. TrayInv /\ [UINext]_uivars => TrayInv'
  BY TrayInvNext
<1> QED
  BY <1>1, <1>2, PTL DEF UISpec

\* However icons are announced, moved, sorted, cleaned and reset, and however
\* deeply changes are published within changes, the index a subscriber is given
\* is that of the icon, if the tray has not changed since.
THEOREM IndexStaysAccurate == UISpec => []IndexIsAccurate
<1>1. TrayInv => IndexIsAccurate
  <2> SUFFICES ASSUME TrayInv, NEW n \in DOMAIN calls, calls[n].event # "NIM_DELETE",
                      calls[n].about # NoKey, ~calls[n].changed
               PROVE  {i \in DOMAIN icons : icons[i].key = calls[n].about}
                        = {calls[n].icon_index}
    BY DEF IndexIsAccurate
  <2>1. /\ calls[n].icon_index \in DOMAIN icons
        /\ icons[calls[n].icon_index].key = calls[n].about
    BY DEF TrayInv, WellInformed
  <2>2. \A i \in DOMAIN icons : icons[i].key = calls[n].about => i = calls[n].icon_index
    BY <2>1 DEF TrayInv, Unique
  <2> QED
    BY <2>1, <2>2
<1> QED
  BY <1>1, TrayInvariance, PTL

\* No icon is lost but for a reason.
THEOREM IconsAreKept == UISpec => NothingLost
<1>1. TrayInv /\ [UINext]_uivars => [LostForAReason]_vars
  <2> SUFFICES ASSUME TrayInv, [UINext]_uivars
               PROVE  LostForAReason \/ UNCHANGED vars
    OBVIOUS
  <2>1. CASE Changes
    BY <2>1 DEF Changes
  <2>2. CASE icons' = icons
    BY <2>2, AllShown DEF Shown
  <2>3. CASE CallNext \/ EndPublish \/ \E w \in Window : WindowDies(w)
    <3>1. icons' = icons
      BY <2>3 DEF CallNext, EndPublish, WindowDies
    <3> QED
      BY <2>2, <3>1
  <2> QED
    BY <2>1, <2>2, <2>3, StepsOfTheTray
<1> QED
  BY <1>1, TrayInvariance, PTL DEF UISpec, NothingLost

-----------------------------------------------------------------------------
(* The cursor.  ui.tray loads before any script can subscribe, and is the  *)
(* first of the subscribers: UISubscriber = 1.  Every publish that has let *)
(* other code run has then been through ui.tray.                           *)

\* When a key is pressed, no news of a deletion is under way.
LEMMA NothingUnderWay ==
  ASSUME TrayInv, UISubscriber = 1, Retrieving, updates = <<>>
  PROVE  ~Announced
<1>1. TypeOK /\ Called
  BY DEF TrayInv
<1>2. /\ Len(calls) \in Nat /\ DOMAIN calls = 1..Len(calls)
      /\ \A n \in DOMAIN calls : calls[n] \in Call
      /\ calls # <<>> => Len(calls) \in DOMAIN calls /\ Top = calls[Len(calls)]
  BY <1>1, CallsTyped
<1>3. \A n \in DOMAIN calls : ~(calls[n].turn < 1)
  <2> SUFFICES ASSUME NEW n \in DOMAIN calls PROVE ~(calls[n].turn < 1)
    OBVIOUS
  <2> PICK l : l = Len(calls)
    OBVIOUS
  <2>1. calls # <<>>
    BY <1>2
  <2>2. n = l \/ n \in 1..l - 1
    BY <1>2
  <2>3. calls[n].turn # 0
    BY <1>1, <1>2, <2>1, <2>2 DEF Called, Retrieving
  <2>4. calls[n].turn \in 0..Subscribers
    BY <1>2 DEF Call
  <2> QED
    BY <2>3, <2>4, CountAssumption
<1>4. DOMAIN updates = {}
  OBVIOUS
<1> QED
  BY <1>3, <1>4 DEF Announced

\* A change of the tray that takes icons away is announced, and does not stop
\* earlier announcements.
LEMMA ShrinkingIsAnnounced ==
  ASSUME TrayInv, Changes, updates' = updates,
         Announced \/ Len(icons') < Len(icons)
  PROVE  Announced'
<1>1. TypeOK /\ UISubscriber > 0
  BY UISubscriberAssumption, CountAssumption DEF TrayInv
<1>2. PICK e \in Events, x \in Nat, F \in SUBSET Flags, a \in Key \cup {NoKey}, o \in Nat :
        /\ calls' = Published(e, x, F, a, o)
        /\ Len(icons') < Len(icons) => e = "NIM_DELETE"
  BY DEF Changes, Announces
<1> PICK c : c = Published(e, x, F, a, o)
  OBVIOUS
<1>3. /\ DOMAIN c = 1..Len(calls) + 1
      /\ c[Len(calls) + 1] =
           [event |-> e, icon_index |-> x, flags |-> F, turn |-> 0, old |-> o,
            overwritten |-> FALSE, about |-> a, changed |-> FALSE]
      /\ \A n \in DOMAIN calls :
           /\ n \in DOMAIN c
           /\ c[n].event = calls[n].event /\ c[n].turn = calls[n].turn
  BY <1>1, Publishes
<1>4. Len(calls) \in Nat
  BY <1>1, CallsTyped
<1>5. calls' = c
  BY <1>2
<1>6. CASE \E n \in DOMAIN updates : updates[n] = "NIM_DELETE"
  BY <1>6 DEF Announced
<1>7. CASE \E n \in DOMAIN calls : calls[n].event = "NIM_DELETE" /\ calls[n].turn < UISubscriber
  BY <1>3, <1>5, <1>7 DEF Announced
<1>8. CASE Len(icons') < Len(icons)
  <2> PICK l : l = Len(calls) + 1
    OBVIOUS
  <2>1. l \in DOMAIN c
    BY <1>3, <1>4
  <2>2. c[l].event = "NIM_DELETE" /\ c[l].turn = 0
    BY <1>2, <1>3, <1>8
  <2>3. c[l].turn < UISubscriber
    BY <1>1, <2>2
  <2> QED
    BY <1>5, <2>1, <2>2, <2>3 DEF Announced
<1> QED
  BY <1>6, <1>7, <1>8 DEF Announced

\* What is in range stays so when the tray changes.
LEMMA ChangesInRange ==
  ASSUME TrayInv, Changes \/ UNCHANGED <<icons, calls>>, updates' = updates,
         cursor' = CURSOR_INVALID
           \/ (cursor' \in Nat /\ (cursor' < count \/ Announced))
  PROVE  CursorInRange'
<1>1. CASE UNCHANGED <<icons, calls>>
  BY <1>1 DEF CursorInRange, Announced, count
<1>2. CASE Changes
  <2>1. Len(icons) \in Nat /\ count = Len(icons)
    BY IconsTyped DEF TrayInv
  <2>2. icons' \in Seq(Icon)
    BY <1>2 DEF Changes
  <2>3. Len(icons') \in Nat /\ count' = Len(icons')
    BY <2>2, LenProperties DEF count
  <2>4. CASE Announced \/ Len(icons') < Len(icons)
    BY <1>2, <2>4, ShrinkingIsAnnounced DEF CursorInRange
  <2>5. CASE cursor' = CURSOR_INVALID
    BY <2>5 DEF CursorInRange
  <2>6. CASE cursor' \in Nat /\ cursor' < count /\ ~(Len(icons') < Len(icons))
    BY <2>1, <2>3, <2>6 DEF CursorInRange
  <2> QED
    BY <2>4, <2>5, <2>6
<1> QED
  BY <1>1, <1>2

\* A subscriber is called: ui.tray's posts the news it is told.
LEMMA SubscriberInRange ==
  ASSUME UIInv, Subscriber
  PROVE  UITypeOK' /\ CursorInRange'
<1>1. /\ TypeOK /\ TypeOK' /\ CallNext /\ UNCHANGED <<icons, cursor, visible>>
      /\ updates \in Seq(Events) /\ cursor \in Nat \cup {CURSOR_INVALID} /\ visible \in BOOLEAN
  BY CallNextKeeps DEF UIInv, TrayInv, UITypeOK, Subscriber, CallNext, Events
<1>2. /\ DOMAIN calls' = DOMAIN calls /\ Len(calls) \in DOMAIN calls
      /\ \A n \in DOMAIN calls :
           calls'[n] = IF n = Len(calls) THEN [calls[n] EXCEPT !.turn = @ + 1]
                       ELSE calls[n]
      /\ calls'[Len(calls)].turn = Top.turn + 1
  BY <1>1, CallNextCalls
<1>3. /\ \A n \in DOMAIN calls : calls[n] \in Call
      /\ Top = calls[Len(calls)]
  BY <1>1, CallsTyped DEF CallNext
<1>4. Top.event \in Events /\ Top.turn \in Nat
  BY <1>2, <1>3, CountAssumption DEF Call, Events
<1>5. updates' = updates \/ (Top.turn + 1 = UISubscriber /\ updates' = Append(updates, Top.event))
  BY DEF Subscriber
<1>6. /\ updates' \in Seq(Events)
      /\ \A n \in DOMAIN updates : n \in DOMAIN updates' /\ updates'[n] = updates[n]
  <2>1. CASE updates' = updates
    BY <1>1, <2>1
  <2>2. CASE updates' = Append(updates, Top.event)
    <3>1. /\ updates' \in Seq(Events) /\ Len(updates') = Len(updates) + 1
          /\ \A n \in 1..Len(updates) : updates'[n] = updates[n]
      BY <1>1, <1>4, <2>2, AppendProperties
    <3>2. DOMAIN updates = 1..Len(updates) /\ DOMAIN updates' = 1..Len(updates) + 1
          /\ Len(updates) \in Nat
      BY <1>1, <3>1, LenProperties
    <3> QED
      BY <3>1, <3>2
  <2> QED
    BY <1>5, <2>1, <2>2
<1>7. UITypeOK'
  BY <1>1, <1>6 DEF UITypeOK, Events
<1>8. ASSUME Announced PROVE Announced'
  <2>1. CASE \E n \in DOMAIN updates : updates[n] = "NIM_DELETE"
    BY <1>6, <2>1 DEF Announced
  <2>2. ASSUME NEW n \in DOMAIN calls, calls[n].event = "NIM_DELETE", calls[n].turn < UISubscriber
        PROVE  Announced'
    <3>1. calls'[n].event = calls[n].event
      BY <1>2, <1>3 DEF Call
    <3>2. CASE n # Len(calls)
      BY <1>2, <2>2, <3>2 DEF Announced
    <3>3. CASE n = Len(calls) /\ Top.turn + 1 # UISubscriber
      <4>1. Top.turn + 1 < UISubscriber
        BY <1>3, <1>4, <2>2, <3>3, UISubscriberAssumption, CountAssumption
      <4>2. calls'[n].turn < UISubscriber
        BY <1>2, <3>3, <4>1
      <4> QED
        BY <1>2, <2>2, <3>1, <4>2 DEF Announced
    <3>4. CASE n = Len(calls) /\ Top.turn + 1 = UISubscriber
      <4>1. updates' = Append(updates, "NIM_DELETE")
        BY <1>3, <2>2, <3>4 DEF Subscriber
      <4> PICK m : m = Len(updates) + 1
        OBVIOUS
      <4>2. /\ updates' \in Seq(Events) /\ Len(updates') = m /\ updates'[m] = "NIM_DELETE"
            /\ m \in Nat /\ m > 0
        BY <1>1, <4>1, AppendProperties, LenProperties DEF Events
      <4>3. m \in DOMAIN updates'
        BY <4>2, LenProperties
      <4> QED
        BY <4>2, <4>3 DEF Announced
    <3> QED
      BY <3>2, <3>3, <3>4
  <2> QED
    BY <1>8, <2>1, <2>2 DEF Announced
<1>9. CursorInRange'
  BY <1>1, <1>8 DEF UIInv, CursorInRange, count
<1> QED
  BY <1>7, <1>9

\* A publish ends that has been through every subscriber.
LEMMA EndInRange ==
  ASSUME UIInv, PublishEnds
  PROVE  UITypeOK' /\ CursorInRange'
<1>1. /\ TypeOK /\ TypeOK' /\ EndPublish /\ UNCHANGED <<icons, cursor, visible, updates>>
  BY EndPublishKeeps DEF UIInv, TrayInv, PublishEnds, EndPublish
<1>2. /\ \A n \in DOMAIN calls' : n \in DOMAIN calls /\ calls'[n] = calls[n]
      /\ \A n \in DOMAIN calls : n = Len(calls) \/ n \in DOMAIN calls'
  BY <1>1, EndPublishCalls
<1>3. calls[Len(calls)].turn = Subscribers
  BY <1>1, CallsTyped DEF EndPublish
<1>4. ~(Subscribers < UISubscriber)
  BY UISubscriberAssumption, CountAssumption
<1>5. Announced => Announced'
  BY <1>1, <1>2, <1>3, <1>4 DEF Announced
<1> QED
  BY <1>1, <1>5 DEF UIInv, UITypeOK, CursorInRange, count

\* ui.tray hears of a change.
LEMMA UpdateInRange ==
  ASSUME UIInv, TrayUpdate
  PROVE  UITypeOK' /\ CursorInRange'
<1>1. /\ TypeOK /\ UNCHANGED <<icons, alive, calls, memory, visible>>
      /\ updates \in Seq(Events) /\ updates # <<>> /\ updates' = Tail(updates)
      /\ cursor \in Nat \cup {CURSOR_INVALID} /\ visible \in BOOLEAN
      /\ cursor' = IF Head(updates) = "NIM_DELETE" THEN Clamped(cursor) ELSE cursor
  BY DEF UIInv, TrayInv, UITypeOK, TrayUpdate, Events
<1>2. count \in Nat /\ count' = count
  BY <1>1, IconsTyped DEF count
<1>3. TypeOK'
  BY <1>1 DEF TypeOK
<1> PICK m : m = Len(updates)
  OBVIOUS
<1>4. /\ updates' \in Seq(Events) /\ DOMAIN updates = 1..m /\ m \in Nat
      /\ DOMAIN updates' = 1..m - 1 /\ Head(updates) = updates[1]
      /\ \A n \in 1..m - 1 : updates'[n] = updates[n + 1]
  <2>1. /\ Tail(updates) \in Seq(Events) /\ Len(Tail(updates)) = m - 1
        /\ \A n \in 1..m - 1 : Tail(updates)[n] = updates[n + 1]
        /\ Head(updates) = updates[1]
    BY <1>1, HeadTailProperties
  <2> QED
    BY <1>1, <2>1, LenProperties
<1>5. CASE Head(updates) = "NIM_DELETE"
  <2>1. cursor' = Clamped(cursor)
    BY <1>1, <1>5
  <2>2. \/ cursor' = CURSOR_INVALID
        \/ cursor' \in Nat /\ cursor' < count
    BY <1>1, <1>2, <2>1 DEF Clamped, CURSOR_INVALID
  <2> QED
    BY <1>1, <1>2, <1>3, <1>4, <2>2 DEF UITypeOK, CursorInRange, Events, CURSOR_INVALID
<1>6. CASE Head(updates) # "NIM_DELETE"
  <2>1. cursor' = cursor
    BY <1>1, <1>6
  <2>2. Announced => Announced'
    <3>1. ASSUME NEW n \in DOMAIN updates, updates[n] = "NIM_DELETE"
          PROVE  Announced'
      <4>1. n \in 1..m /\ n # 1
        BY <1>4, <1>6, <3>1
      <4> PICK k : k = n - 1
        OBVIOUS
      <4>2. k \in 1..m - 1 /\ k + 1 = n
        BY <1>4, <4>1
      <4>3. updates'[k] = "NIM_DELETE" /\ k \in DOMAIN updates'
        BY <1>4, <3>1, <4>2
      <4> QED
        BY <4>3 DEF Announced
    <3>2. CASE \E n \in DOMAIN calls : calls[n].event = "NIM_DELETE" /\ calls[n].turn < UISubscriber
      BY <1>1, <3>2 DEF Announced
    <3> QED
      BY <3>1, <3>2 DEF Announced
  <2> QED
    BY <1>1, <1>2, <1>3, <1>4, <2>1, <2>2 DEF UIInv, UITypeOK, CursorInRange, Events
<1> QED
  BY <1>5, <1>6

\* A cursor command.
LEMMA CommandInRange ==
  ASSUME UIInv, UISubscriber = 1, CursorCommand
  PROVE  UITypeOK' /\ CursorInRange'
<1>1. TrayInv /\ TypeOK /\ KeyPressed /\ cursor \in Nat \cup {CURSOR_INVALID}
  BY DEF UIInv, TrayInv, UITypeOK, CursorCommand, CURSOR_NEXT, CURSOR_PREV,
         CURSOR_FIRST, CURSOR_LAST, CursorTo
<1>2. count \in Nat
  BY <1>1, IconsTyped
<1>3. ~Announced
  BY <1>1, NothingUnderWay DEF KeyPressed
<1>4. cursor # CURSOR_INVALID => cursor \in Nat /\ cursor < count
  BY <1>1, <1>3 DEF UIInv, CursorInRange
<1>5. PICK c \in {CURSOR_INVALID} \cup 0..count - 1 : CursorTo(c)
  <2> HIDE DEF count
  <2>1. CASE CURSOR_NEXT
    <3>1. PICK c : /\ CursorTo(c)
                   /\ c = IF cursor = CURSOR_INVALID THEN FirstOrNone
                          ELSE IF count <= cursor + 1 THEN cursor + 1 - count
                          ELSE cursor + 1
      BY <2>1 DEF CURSOR_NEXT
    <3>2. c \in {CURSOR_INVALID} \cup 0..count - 1
      BY <1>2, <1>4, <3>1 DEF FirstOrNone
    <3> QED
      BY <3>1, <3>2
  <2>2. CASE CURSOR_PREV
    <3>1. PICK c : /\ CursorTo(c)
                   /\ c = IF cursor = CURSOR_INVALID THEN LastOrNone
                          ELSE IF cursor - 1 < 0 THEN cursor - 1 + count
                          ELSE cursor - 1
      BY <2>2 DEF CURSOR_PREV
    <3>2. c \in {CURSOR_INVALID} \cup 0..count - 1
      BY <1>2, <1>4, <3>1 DEF LastOrNone
    <3> QED
      BY <3>1, <3>2
  <2>3. CASE CURSOR_FIRST
    <3>1. PICK c : /\ CursorTo(c)
                   /\ c = IF cursor = CURSOR_INVALID THEN FirstOrNone ELSE 0
      BY <2>3 DEF CURSOR_FIRST
    <3>2. c \in {CURSOR_INVALID} \cup 0..count - 1
      BY <1>2, <1>4, <3>1 DEF FirstOrNone
    <3> QED
      BY <3>1, <3>2
  <2>4. CASE CURSOR_LAST
    <3>1. PICK c : /\ CursorTo(c)
                   /\ c = IF cursor = CURSOR_INVALID THEN LastOrNone ELSE count - 1
      BY <2>4 DEF CURSOR_LAST
    <3>2. c \in {CURSOR_INVALID} \cup 0..count - 1
      BY <1>2, <1>4, <3>1 DEF LastOrNone
    <3> QED
      BY <3>1, <3>2
  <2> QED
    BY <2>1, <2>2, <2>3, <2>4 DEF CursorCommand
<1>6. cursor' = c /\ CleanAt(c) /\ UNCHANGED <<visible, updates>>
  BY <1>5 DEF CursorTo
<1>7. cursor' = CURSOR_INVALID \/ (cursor' \in Nat /\ cursor' < count)
  BY <1>2, <1>5, <1>6
<1>8. Changes \/ UNCHANGED <<icons, alive, calls, memory>>
  BY <1>1, <1>6, CleanAtChanges DEF vars
<1>9. CursorInRange'
  BY <1>1, <1>6, <1>7, <1>8, ChangesInRange
<1>10. TypeOK'
  <2>1. CASE Changes
    BY <1>1, <2>1, ChangesKeep DEF TrayInv
  <2>2. CASE UNCHANGED <<icons, alive, calls, memory>>
    BY <1>1, <2>2 DEF TypeOK
  <2> QED
    BY <1>8, <2>1, <2>2
<1> QED
  BY <1>6, <1>7, <1>9, <1>10 DEF UIInv, UITypeOK

\* Every step keeps the cursor in range.
LEMMA UIInvNext ==
  ASSUME UIInv, UISubscriber = 1, [UINext]_uivars
  PROVE  UIInv'
<1>1. TrayInv /\ TrayInv'
  BY TrayInvNext DEF UIInv
<1>2. /\ TypeOK' /\ cursor \in Nat \cup {CURSOR_INVALID} /\ visible \in BOOLEAN
      /\ updates \in Seq({"NIM_ADD", "NIM_DELETE", "NIM_MODIFY"})
  BY <1>1 DEF UIInv, TrayInv, UITypeOK
<1>3. cursor = CURSOR_INVALID \/ (cursor \in Nat /\ (cursor < count \/ Announced))
  BY <1>2 DEF UIInv, CursorInRange
<1>4. ASSUME Changes \/ UNCHANGED <<icons, calls>>, updates' = updates, visible' \in BOOLEAN,
             cursor' = cursor \/ cursor' = CURSOR_INVALID
      PROVE  UIInv'
  <2>1. CursorInRange'
    BY <1>1, <1>3, <1>4, ChangesInRange
  <2> QED
    BY <1>1, <1>2, <1>4, <2>1 DEF UIInv, UITypeOK
<1>5. CASE TrayStep
  <2>1. UNCHANGED <<cursor, visible, updates>>
    BY <1>5 DEF TrayStep
  <2>2. Changes \/ UNCHANGED <<icons, calls>>
    BY <1>1, <1>5, TrayStepChanges DEF WindowDies
  <2> QED
    BY <1>2, <1>4, <2>1, <2>2
<1>6. CASE Subscriber
  BY <1>1, <1>6, SubscriberInRange DEF UIInv
<1>7. CASE PublishEnds
  BY <1>1, <1>7, EndInRange DEF UIInv
<1>8. CASE TrayUpdate
  BY <1>1, <1>8, UpdateInRange DEF UIInv
<1>9. CASE CursorCommand
  BY <1>1, <1>9, CommandInRange DEF UIInv
<1>10. CASE SEND_CLICK
  BY <1>4, <1>10 DEF SEND_CLICK
<1>11. CASE ICON_MOVE
  <2>1. UNCHANGED <<cursor, visible, updates>> /\ Changes
    BY <1>1, <1>11, IconMoveChanges DEF ICON_MOVE
  <2> QED
    BY <1>2, <1>4, <2>1
<1>12. CASE CMD_SHOW
  BY <1>4, <1>12 DEF CMD_SHOW
<1>13. CASE CMD_HIDE
  BY <1>4, <1>13 DEF CMD_HIDE
<1>14. CASE UNCHANGED uivars
  BY <1>2, <1>4, <1>14 DEF uivars
<1> QED
  BY <1>5, <1>6, <1>7, <1>8, <1>9, <1>10, <1>11, <1>12, <1>13, <1>14 DEF UINext

\* The invariant of the tray and its window.
THEOREM UIInvariance ==
  ASSUME UISubscriber = 1
  PROVE  UISpec => []UIInv
<1>1. UIInit => UIInv
  <2> SUFFICES ASSUME UIInit PROVE UIInv
    OBVIOUS
  <2>1. TrayInv
    BY TrayInvInit
  <2>2. cursor = CURSOR_INVALID /\ visible = FALSE /\ updates = <<>>
    BY DEF UIInit
  <2>3. updates \in Seq({"NIM_ADD", "NIM_DELETE", "NIM_MODIFY"})
    BY <2>2
  <2> QED
    BY <2>1, <2>2, <2>3 DEF UIInv, UITypeOK, TrayInv, CursorInRange
<1>2. UIInv /\ [UINext]_uivars => UIInv'
  BY UIInvNext
<1> QED
  BY <1>1, <1>2, PTL DEF UISpec

\* ui.tray is the first to subscribe, so the cursor is on an icon unless the
\* tray has shrunk and word of it is still under way.
THEOREM CursorStaysInRange ==
  ASSUME UISubscriber = 1
  PROVE  UISpec => []CursorInRange
<1>1. UIInv => CursorInRange
  BY DEF UIInv
<1> QED
  BY <1>1, UIInvariance, PTL

\* A click is sent to the window of an icon that is in the tray: the cursor is
\* read without a test of its range, and needs none.
THEOREM ClicksHit ==
  ASSUME UISubscriber = 1
  PROVE  UISpec => ClickHitsIcon
<1>1. UIInv /\ [UINext]_uivars
        => [SEND_CLICK => cursor \in 0..count - 1]_uivars
  <2> SUFFICES ASSUME UIInv, SEND_CLICK
               PROVE  cursor \in 0..count - 1
    OBVIOUS
  <2>1. TrayInv /\ TypeOK /\ Retrieving /\ updates = <<>> /\ cursor # CURSOR_INVALID
        /\ cursor \in Nat \cup {CURSOR_INVALID}
    BY DEF UIInv, TrayInv, UITypeOK, SEND_CLICK, KeyPressed
  <2>2. count \in Nat
    BY <2>1, IconsTyped
  <2>3. ~Announced
    BY <2>1, NothingUnderWay
  <2> QED
    BY <2>1, <2>2, <2>3 DEF UIInv, CursorInRange
<1> QED
  BY <1>1, UIInvariance, PTL DEF UISpec, ClickHitsIcon

=============================================================================
