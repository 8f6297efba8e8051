---------------------------- MODULE ShellProofs ----------------------------
(***************************************************************************)
(* Proofs about the two parts of the shell library that work through lists *)
(* which others change meanwhile. The subscribers of shell.tray, for any   *)
(* subscriptions, any depth of publishes and any limits of errors: publish *)
(* calls nobody twice and says whom it may skip, and a subscriber is       *)
(* dropped for enough errors only. And the startup programs, for any       *)
(* number of threads, values and ends of cereja: none is deleted before it *)
(* was executed.                                                           *)
(***************************************************************************)
EXTENDS Subscribers, StartupPrograms, SequenceTheorems, FiniteSetTheorems,
        WellFoundedInduction, TLAPS

-----------------------------------------------------------------------------
(* The subscribers: the invariant                                          *)

\* The list l has subscriptions that were made, each once.
Listed(l, made) ==
  /\ \A k \in DOMAIN l : l[k] \in made
  /\ \A j, k \in DOMAIN l : l[j] = l[k] => j = k

\* Whom a publish f has called is not behind its index in the list l, and at the
\* index only the one it is calling.  With neither cause to skip, the others up
\* to the index were called, too.
Called(f, l) ==
  /\ \A k \in DOMAIN l : l[k] \in f.called =>
       /\ k <= Passed(f)
       /\ f.at \in {"calling", "error"} /\ k = f.i => l[k] = f.v
  /\ ~f.disturbed /\ ~f.doubled =>
       /\ Passed(f) <= Len(l)
       /\ \A k \in DOMAIN l : k <= Passed(f) => l[k] \in f.called

\* A publish f knows only subscribers that subscribed.
Knows(f, made) ==
  /\ f.called \subseteq made
  /\ f.at # "test" => f.v \in made

PublishInv ==
  /\ Listed(subscribers, used)
  /\ \A n \in DOMAIN publishing :
       Knows(publishing[n], used) /\ Called(publishing[n], subscribers)

\* The last c of the errors e fell within the minute that began at time t with the
\* first of them.
Counted(e, c, t) ==
  /\ c <= Len(e)
  /\ c = 0 => t = 0 /\ e = <<>>
  /\ \A k \in DOMAIN e :
       /\ k > Len(e) - c => e[k] \in t .. t + AUTO_UNSUBSCRIBING_TIME - 1
       /\ k <= Len(e) - c + 1 => e[k] <= t

\* Of the errors e before the last c only so many as do not make a subscriber go
\* fell within the minute before t.
Spread(e, c, t) ==
  \A k \in DOMAIN e :
    k <= Len(e) - c - AUTO_UNSUBSCRIBING_COUNT + 2 => e[k] + AUTO_UNSUBSCRIBING_TIME <= t

Sole(id, made) == \A other \in made : procedure[other] = procedure[id] => other = id

ErrorInv ==
  /\ AUTO_UNSUBSCRIBING_TIME <= clock
  /\ \A id \in Id :
       /\ error_time[id] <= clock
       /\ id \notin used => error_count[id] = 0
       /\ Counted(errors[id], error_count[id], error_time[id])
       /\ \A k \in DOMAIN errors[id] : errors[id][k] <= clock
       /\ Sole(id, used) /\ (\E k \in DOMAIN subscribers : subscribers[k] = id) =>
            /\ error_count[id] < AUTO_UNSUBSCRIBING_COUNT
            /\ Spread(errors[id], error_count[id], error_time[id])

SubscribersInv == TypeOK /\ PublishInv /\ ErrorInv

-----------------------------------------------------------------------------
(* Lists and stacks                                                        *)

\* A set of natural numbers has a least one.
LEMMA LeastNumber ==
  ASSUME NEW S \in SUBSET Nat, S # {}
  PROVE  \E x \in S : \A y \in S : x <= y
<1> DEFINE R == {ss \in Nat \X Nat : ss[1] < ss[2]}
<1>1. IsWellFoundedOn(R, Nat)
  <2>1. R = OpToRel(<, Nat)
    BY Zenon DEF OpToRel
  <2> HIDE DEF R
  <2> QED
    BY <2>1, NatLessThanWellFounded, Zenon
<1>2. PICK m \in S : \A y \in S : ~ (<<y, m>> \in R)
  <2> HIDE DEF R
  <2> QED
    BY <1>1, WFMin, Zenon
<1>3. \A y \in S : ~ (y < m)
  BY <1>2
<1> QED
  BY <1>3

\* A selection of a list, in order: it has each once, too.
LEMMA Selection ==
  ASSUME NEW l \in Seq(Id), NEW made, Listed(l, made), NEW n \in Nat,
         NEW from \in [1..n -> DOMAIN l], \A j, k \in 1..n : j < k => from[j] < from[k],
         NEW t, t = [k \in 1..n |-> l[from[k]]]
  PROVE  t \in Seq(Id) /\ DOMAIN t = 1..n /\ Listed(t, made)
<1>1. DOMAIN l = 1..Len(l) /\ Len(l) \in Nat
  BY LenProperties
<1>2. \A k \in 1..n : t[k] = l[from[k]] /\ t[k] \in Id
  BY ElementOfSeq
<1>3. t \in [1..n -> Id]
  BY <1>2
<1>4. t \in Seq(Id)
  BY <1>3, SeqDef
<1>5. \A j, k \in 1..n : from[j] = from[k] => j = k
  BY <1>1
<1> QED
  BY <1>2, <1>4, <1>5 DEF Listed

\* The numbers to n stand for those to m that are not gone, in order.
Chosen(m, n, gone, from) ==
  /\ m \in Nat /\ n \in Nat /\ from \in [1..n -> 1..m]
  /\ \A j, k \in 1..n : j < k => from[j] < from[k]
  /\ \A k \in 1..n : from[k] \notin gone
  /\ \A p \in 1..m : p \notin gone => \E k \in 1..n : from[k] = p

\* None is behind its old place; before the first that is gone it is at it, and
\* behind that one it is not.
MovedUp(m, n, gone, from) ==
  /\ \A k \in 1..n : k <= from[k]
  /\ \A p \in gone, k \in 1..n : p \in 1..k => k < from[k]
  /\ \A i \in 0..m : (\A p \in gone : p \in 1..m => i < p) =>
       i <= n /\ \A k \in 1..i : from[k] = k

LEMMA Enumeration ==
  ASSUME NEW m, NEW n, NEW gone, NEW from, Chosen(m, n, gone, from)
  PROVE  MovedUp(m, n, gone, from)
<1> USE DEF Chosen
<1>1. ASSUME NEW k \in 1..n PROVE k <= from[k]
  <2> SUFFICES ASSUME ~(k <= from[k]) PROVE FALSE
    OBVIOUS
  <2> DEFINE S == {j \in 1..n : from[j] < j}
  <2>1. S \subseteq Nat /\ k \in S
    OBVIOUS
  <2>2. PICK j \in S : \A h \in S : j <= h
    BY <2>1, LeastNumber
  <2>3. j # 1 /\ j - 1 \in 1..n /\ j - 1 < j
    OBVIOUS
  <2>4. from[j - 1] < from[j] /\ from[j] < j
    BY <2>3
  <2>5. j - 1 \in S
    BY <2>3, <2>4
  <2> QED
    BY <2>2, <2>3, <2>5
<1>2. ASSUME NEW p \in gone, NEW k \in 1..n, p \in 1..k PROVE k < from[k]
  <2> SUFFICES ASSUME ~(k < from[k]) PROVE FALSE
    BY <1>1
  <2> DEFINE S == {j \in p..n : from[j] <= j}
  <2>1. S \subseteq Nat /\ k \in S
    BY <1>2
  <2>2. PICK j \in S : \A h \in S : j <= h
    BY <2>1, LeastNumber
  <2>3. j \in 1..n /\ from[j] = j
    BY <1>1, <1>2
  <2>4. j # p
    BY <2>3
  <2>5. j - 1 \in 1..n /\ j - 1 \in p..n
    BY <1>2, <2>4
  <2>6. from[j - 1] < from[j]
    BY <2>3, <2>5
  <2>7. j - 1 \in S
    BY <2>3, <2>5, <2>6
  <2> QED
    BY <2>2, <2>7
<1>3. ASSUME NEW i \in 0..m, \A p \in gone : p \in 1..m => i < p
      PROVE  i <= n /\ \A k \in 1..i : from[k] = k
  <2>1. \A q \in 1..i : \E k \in 1..n : from[k] = q
    <3>1. \A q \in 1..i : q \in 1..m /\ q \notin gone
      BY <1>3
    <3> QED
      BY <3>1
  <2>2. ASSUME NEW k \in 1..n, k <= i PROVE from[k] = k
    <3> SUFFICES ASSUME from[k] # k PROVE FALSE
      OBVIOUS
    <3> DEFINE S == {j \in 1..n : from[j] # j}
    <3>1. S \subseteq Nat /\ k \in S
      OBVIOUS
    <3>2. PICK j \in S : \A h \in S : j <= h
      BY <3>1, LeastNumber
    <3>3. j \in 1..i /\ j < from[j]
      BY <1>1, <2>2, <3>1, <3>2
    <3>4. PICK h \in 1..n : from[h] = j
      BY <2>1, <3>3
    <3>5. h # j /\ h <= j
      BY <1>1, <3>3, <3>4
    <3>6. h \notin S
      BY <3>2, <3>5
    <3> QED
      BY <3>4, <3>5, <3>6
  <2>3. i <= n
    <3> SUFFICES ASSUME i > 0 PROVE i <= n
      OBVIOUS
    <3>1. PICK k \in 1..n : from[k] = i
      BY <2>1
    <3>2. k <= i
      BY <1>1, <3>1
    <3> QED
      BY <2>2, <3>1, <3>2
  <2> QED
    BY <2>2, <2>3
<1> QED
  BY <1>1, <1>2, <1>3 DEF MovedUp

\* Of two neighbours that match at least one is dropped.
LEMMA NeighbourIsDropped ==
  ASSUME NEW l \in Seq(Id), NEW specifier, NEW p \in DOMAIN l, Matches(l[p], specifier),
         p \notin Dropped(l, specifier)
  PROVE  p - 1 \in Dropped(l, specifier) /\ p - 1 \in 1..p
<1>1. DOMAIN l = 1..Len(l) /\ Len(l) \in Nat
  BY LenProperties
<1> DEFINE R == {q \in 1..p : \A k \in q..p : Matches(l[k], specifier)}
<1>2. R \subseteq Nat /\ p \in R
  BY <1>1
<1>3. PICK q \in R : \A h \in R : q <= h
  BY <1>2, LeastNumber
<1>4. q \in 1..p /\ \A k \in q..p : Matches(l[k], specifier)
  OBVIOUS
<1>5. q = 1 \/ ~Matches(l[q - 1], specifier)
  <2> SUFFICES ASSUME q # 1, Matches(l[q - 1], specifier) PROVE FALSE
    OBVIOUS
  <2>1. q - 1 \in 1..p /\ \A k \in (q - 1)..p : k = q - 1 \/ k \in q..p
    BY <1>1, <1>4
  <2>2. q - 1 \in R
    BY <1>4, <2>1
  <2> QED
    BY <1>3, <1>4, <2>2
<1>6. (p - q) % 2 # 0
  BY <1>4, <1>5 DEF Dropped
<1>7. p - q \in Nat /\ p # q /\ (p - 1 - q) % 2 = 0
  BY <1>1, <1>4, <1>6
<1>8. p - 1 \in DOMAIN l /\ q \in 1..p - 1 /\ \A k \in q..p - 1 : Matches(l[k], specifier)
  BY <1>1, <1>4, <1>7
<1> QED
  BY <1>1, <1>5, <1>7, <1>8 DEF Dropped

\* Who unsubscribes by its procedure alone is dropped.
LEMMA SoleIsDropped ==
  ASSUME NEW l \in Seq(Id), NEW made \in SUBSET Id, Listed(l, made),
         NEW p \in DOMAIN l, Sole(l[p], made)
  PROVE  p \in Dropped(l, procedure[l[p]])
<1>1. DOMAIN l = 1..Len(l) /\ Len(l) \in Nat
  BY LenProperties
<1>2. Matches(l[p], procedure[l[p]])
  BY DEF Matches
<1>3. p = 1 \/ ~Matches(l[p - 1], procedure[l[p]])
  <2> SUFFICES ASSUME p # 1 PROVE ~Matches(l[p - 1], procedure[l[p]])
    OBVIOUS
  <2>1. p - 1 \in DOMAIN l /\ p - 1 # p
    BY <1>1
  <2> PICK q : q = p - 1
    OBVIOUS
  <2>2. l[q] \in made /\ l[p] \in made /\ l[q] # l[p]
    BY <2>1 DEF Listed
  <2>3. procedure[l[q]] # procedure[l[p]]
    BY <2>2 DEF Sole
  <2>4. group_name[l[q]] # procedure[l[p]]
    BY <2>2, SpecifierAssumption
  <2> QED
    BY <2>3, <2>4 DEF Matches
<1>4. p \in 1..p /\ (p - p) % 2 = 0 /\ \A k \in p..p : k = p
  BY <1>1
<1> QED
  BY <1>2, <1>3, <1>4 DEF Dropped

\* The innermost of a stack of publishes changes.
LEMMA Changed ==
  ASSUME NEW c \in Seq(Publish), c # <<>>, NEW x \in Publish,
         NEW d, d = [c EXCEPT ![Len(c)] = x]
  PROVE  /\ d \in Seq(Publish) /\ Len(d) = Len(c) /\ DOMAIN d = DOMAIN c
         /\ Len(c) \in DOMAIN c /\ d[Len(c)] = x
         /\ \A n \in DOMAIN c : n # Len(c) => d[n] = c[n]
<1> PICK l : l = Len(c)
  OBVIOUS
<1>1. l \in 1..Len(c) /\ DOMAIN c = 1..Len(c)
  BY EmptySeq, LenProperties
<1>2. /\ d \in Seq(Publish) /\ Len(d) = Len(c)
      /\ \A j \in 1..Len(c) : d[j] = IF j = l THEN x ELSE c[j]
  BY <1>1, ExceptSeq
<1>3. DOMAIN d = 1..Len(c)
  BY <1>2, LenProperties
<1> QED
  BY <1>1, <1>2, <1>3

\* What is left of a stack below a place.
LEMMA Cut ==
  ASSUME NEW c \in Seq(Publish), NEW n \in 0..Len(c), NEW d, d = SubSeq(c, 1, n)
  PROVE  /\ d \in Seq(Publish) /\ Len(d) = n /\ DOMAIN d = 1..n
         /\ \A k \in DOMAIN d : k \in DOMAIN c /\ d[k] = c[k]
<1>1. Len(c) \in Nat /\ DOMAIN c = 1..Len(c)
  BY LenProperties
<1>2. \A i \in 1..n : i \in 1..Len(c) /\ 1 + i - 1 = i
  BY <1>1
<1>3. d \in Seq(Publish) /\ Len(d) = n /\ \A i \in 1..n : d[i] = c[i]
  BY <1>1, <1>2, SubSeqProperties
<1>4. DOMAIN d = 1..n
  BY <1>3, LenProperties
<1> QED
  BY <1>1, <1>2, <1>3, <1>4

\* A publish is put on a stack.
LEMMA Pushed ==
  ASSUME NEW c \in Seq(Publish), NEW x \in Publish, NEW d, d = Append(c, x)
  PROVE  /\ d \in Seq(Publish) /\ Len(d) = Len(c) + 1 /\ DOMAIN d = 1..Len(c) + 1
         /\ d[Len(c) + 1] = x
         /\ \A n \in DOMAIN d : n = Len(c) + 1 \/ (n \in DOMAIN c /\ d[n] = c[n])
<1>1. /\ d \in Seq(Publish) /\ Len(d) = Len(c) + 1
      /\ \A i \in 1..Len(c) : d[i] = c[i]
  BY AppendProperties
<1>2. Len(c) \in Nat /\ DOMAIN c = 1..Len(c) /\ DOMAIN d = 1..Len(c) + 1
  BY <1>1, LenProperties
<1>3. d[Len(c) + 1] = x
  BY AppendProperties
<1>4. \A n \in 1..Len(c) + 1 : n = Len(c) + 1 \/ n \in 1..Len(c)
  BY <1>2
<1> QED
  BY <1>1, <1>2, <1>3, <1>4

-----------------------------------------------------------------------------
(* What changes publishes only                                             *)

\* What is known of the variables.
LEMMA Typed ==
  ASSUME SubscribersInv
  PROVE  /\ subscribers \in Seq(Id) /\ Len(subscribers) \in Nat
         /\ DOMAIN subscribers = 1..Len(subscribers)
         /\ publishing \in Seq(Publish) /\ Len(publishing) \in Nat
         /\ DOMAIN publishing = 1..Len(publishing)
         /\ used \subseteq Id /\ alive \in BOOLEAN /\ clock \in Time
         /\ Listed(subscribers, used)
         /\ \A n \in DOMAIN publishing :
              /\ publishing[n] \in Publish
              /\ Knows(publishing[n], used) /\ Called(publishing[n], subscribers)
         /\ publishing # <<>> => /\ Len(publishing) \in DOMAIN publishing
                                 /\ Top = publishing[Len(publishing)]
<1>1. subscribers \in Seq(Id) /\ publishing \in Seq(Publish)
  BY DEF SubscribersInv, TypeOK
<1>2. publishing # <<>> => Len(publishing) # 0
  BY <1>1, EmptySeq
<1>3. /\ Len(publishing) \in Nat /\ DOMAIN publishing = 1..Len(publishing)
      /\ Len(subscribers) \in Nat /\ DOMAIN subscribers = 1..Len(subscribers)
  BY <1>1, LenProperties
<1>4. \A n \in DOMAIN publishing : publishing[n] \in Publish
  BY <1>1, <1>3, ElementOfSeq
<1> QED
  BY <1>1, <1>2, <1>3, <1>4 DEF SubscribersInv, PublishInv, TypeOK, Top

\* A publish that has what the invariant says of publishes.
Sound(f) == Knows(f, used) /\ Called(f, subscribers)

\* Publishes come, go and go on.
LEMMA StackStep ==
  ASSUME SubscribersInv, publishing' \in Seq(Publish), alive' \in BOOLEAN,
         UNCHANGED <<subscribers, used, error_time, error_count, clock, errors>>,
         \A n \in DOMAIN publishing' :
           \/ n \in DOMAIN publishing /\ publishing'[n] = publishing[n]
           \/ Sound(publishing'[n])
  PROVE  SubscribersInv'
<1>1. TypeOK'
  BY DEF SubscribersInv, TypeOK
<1>2. ASSUME NEW n \in DOMAIN publishing'
      PROVE  Knows(publishing'[n], used') /\ Called(publishing'[n], subscribers')
  BY <1>2, Typed DEF Sound
<1>3. Listed(subscribers', used')
  BY Typed
<1>4. ErrorInv'
  BY DEF SubscribersInv, ErrorInv, Counted, Spread, Sole
<1> QED
  BY <1>1, <1>2, <1>3, <1>4 DEF SubscribersInv, PublishInv

\* The innermost publish goes on.
LEMMA TopGoesOn ==
  ASSUME SubscribersInv, publishing # <<>>, NEW x \in Publish, Sound(x),
         publishing' = [publishing EXCEPT ![Len(publishing)] = x],
         UNCHANGED <<subscribers, used, error_time, error_count, clock, alive, errors>>
  PROVE  SubscribersInv'
<1>1. publishing \in Seq(Publish) /\ alive \in BOOLEAN
  BY Typed
<1> PICK d : d = [publishing EXCEPT ![Len(publishing)] = x]
  OBVIOUS
<1>2. /\ d \in Seq(Publish) /\ DOMAIN d = DOMAIN publishing /\ d[Len(publishing)] = x
      /\ \A n \in DOMAIN publishing : n # Len(publishing) => d[n] = publishing[n]
  BY <1>1, Changed
<1>3. \A n \in DOMAIN d : (n \in DOMAIN publishing /\ d[n] = publishing[n]) \/ Sound(d[n])
  BY <1>2
<1>4. publishing' = d
  OBVIOUS
<1> QED
  BY <1>1, <1>2, <1>3, <1>4, StackStep

\* A publish begins.
LEMMA PublishKeeps ==
  ASSUME SubscribersInv, publish
  PROVE  SubscribersInv'
<1> PICK x : x = [at |-> "test", i |-> 1, v |-> NoId, called |-> {}, disturbed |-> FALSE,
                doubled |-> FALSE]
  OBVIOUS
<1>1. x \in Publish /\ x.called = {} /\ x.at = "test" /\ x.i = 1
  BY DEF Publish
<1>2. Sound(x)
  BY <1>1, Typed DEF Sound, Knows, Called, Passed
<1> PICK d : d = Append(publishing, x)
  OBVIOUS
<1>3. /\ publishing \in Seq(Publish) /\ publishing' = d /\ alive' \in BOOLEAN
      /\ UNCHANGED <<subscribers, used, error_time, error_count, clock, errors>>
  BY Typed DEF publish
<1>4. /\ d \in Seq(Publish) /\ d[Len(publishing) + 1] = x
      /\ \A n \in DOMAIN d : n = Len(publishing) + 1 \/ (n \in DOMAIN publishing /\ d[n] = publishing[n])
  <2>1. publishing \in Seq(Publish) /\ x \in Publish /\ d = Append(publishing, x)
    BY <1>1, <1>3
  <2> QED
    BY ONLY <2>1, Pushed
<1> QED
  BY <1>2, <1>3, <1>4, StackStep

\* A publish ends, or an error ends some of them.
LEMMA EndKeeps ==
  ASSUME SubscribersInv, EndPublish \/ SubscriberFailsOddly
  PROVE  SubscribersInv'
<1>1. /\ publishing \in Seq(Publish) /\ Len(publishing) \in Nat
      /\ Len(publishing) \in 1..Len(publishing)
      /\ UNCHANGED <<subscribers, used, error_time, error_count, clock, errors>>
      /\ alive \in BOOLEAN
  BY Typed DEF EndPublish, SubscriberFailsOddly
<1>2. ASSUME NEW n \in 0..Len(publishing), publishing' = SubSeq(publishing, 1, n),
             alive' \in BOOLEAN
      PROVE  SubscribersInv'
  <2> PICK d : d = SubSeq(publishing, 1, n)
    OBVIOUS
  <2>1. d \in Seq(Publish) /\ \A k \in DOMAIN d : k \in DOMAIN publishing /\ d[k] = publishing[k]
    BY <1>1, Cut
  <2> QED
    BY <1>1, <1>2, <2>1, StackStep
<1>3. CASE EndPublish
  <2> PICK n : n = Len(publishing) - 1
    OBVIOUS
  <2>1. n \in 0..Len(publishing) /\ publishing' = SubSeq(publishing, 1, n) /\ alive' \in BOOLEAN
    BY <1>1, <1>3 DEF EndPublish
  <2> QED
    BY <1>2, <2>1
<1>4. CASE SubscriberFailsOddly
  <2> PICK outer : outer = {k \in 1..Len(publishing) - 1 : publishing[k].at = "calling"}
    OBVIOUS
  <2>1. CASE publishing' = <<>> /\ alive' = FALSE
    <3>1. publishing' \in Seq(Publish) /\ DOMAIN publishing' = {}
      BY <2>1
    <3>2. alive' \in BOOLEAN
      BY <2>1
    <3> QED
      BY <1>1, <3>1, <3>2, StackStep
  <2>2. CASE alive' = alive /\ \E k \in outer : publishing' = SubSeq(publishing, 1, k)
    <3>1. PICK k \in outer : publishing' = SubSeq(publishing, 1, k)
      BY <2>2
    <3>2. k \in 0..Len(publishing) /\ alive' \in BOOLEAN
      BY <1>1, <2>2
    <3> QED
      BY <1>2, <3>1, <3>2
  <2> QED
    BY <1>4, <2>1, <2>2 DEF SubscriberFailsOddly
<1> QED
  BY <1>3, <1>4

\* A subscriber is called.
LEMMA CallKeeps ==
  ASSUME SubscribersInv, CallSubscriber
  PROVE  SubscribersInv'
<1> PICK o : o = Top
  OBVIOUS
<1>1. /\ o \in Publish /\ Knows(o, used) /\ Called(o, subscribers) /\ o.at = "test"
      /\ publishing # <<>> /\ o = publishing[Len(publishing)]
      /\ Len(publishing) \in DOMAIN publishing
      /\ o.i <= Len(subscribers)
      /\ UNCHANGED <<subscribers, used, error_time, error_count, clock, alive, errors>>
  BY Typed DEF CallSubscriber
<1>2. /\ subscribers \in Seq(Id) /\ DOMAIN subscribers = 1..Len(subscribers)
      /\ Len(subscribers) \in Nat /\ Listed(subscribers, used) /\ used \subseteq Id
  BY Typed
<1>3. o.i \in DOMAIN subscribers /\ o.i \in Nat /\ o.i # 0 /\ o.called \subseteq Id
      /\ o.disturbed \in BOOLEAN /\ o.doubled \in BOOLEAN
  BY <1>1, <1>2 DEF Publish
<1> PICK id : id = subscribers[o.i]
  OBVIOUS
<1>4. id \in Id /\ id \in used
  BY <1>2, <1>3 DEF Listed
<1> PICK x : x = [o EXCEPT !.at = "calling", !.v = id, !.called = o.called \cup {id}]
  OBVIOUS
<1>5. /\ x \in Publish /\ x.at = "calling" /\ x.v = id /\ x.i = o.i
      /\ x.called = o.called \cup {id} /\ x.disturbed = o.disturbed /\ x.doubled = o.doubled
  BY <1>1, <1>3, <1>4 DEF Publish
<1>6. Knows(x, used)
  BY <1>1, <1>4, <1>5 DEF Knows
<1>7. ASSUME NEW k \in DOMAIN subscribers
      PROVE  /\ subscribers[k] \in x.called => k <= o.i /\ (k = o.i => subscribers[k] = id)
             /\ ~o.disturbed /\ ~o.doubled /\ k <= o.i => subscribers[k] \in x.called
  <2>1. /\ subscribers[k] \in o.called => k <= o.i - 1
        /\ ~o.disturbed /\ ~o.doubled /\ k <= o.i - 1 => subscribers[k] \in o.called
    BY <1>1 DEF Called, Passed
  <2>2. subscribers[k] = id <=> k = o.i
    BY <1>2, <1>3 DEF Listed
  <2> QED
    BY <1>2, <1>3, <1>5, <2>1, <2>2
<1>8. Called(x, subscribers)
  BY <1>1, <1>5, <1>7 DEF Called, Passed
<1>9. publishing' = [publishing EXCEPT ![Len(publishing)] = x]
  BY <1>1 DEF CallSubscriber
<1> QED
  BY <1>1, <1>5, <1>6, <1>8, <1>9, TopGoesOn DEF Sound

\* A subscriber returns or fails, or publish goes on behind one it has dropped.
LEMMA ReturnKeeps ==
  ASSUME SubscribersInv, SubscriberReturns \/ SubscriberFails \/ AfterDrop
  PROVE  SubscribersInv'
<1> PICK o : o = Top
  OBVIOUS
<1>1. /\ o \in Publish /\ Knows(o, used) /\ Called(o, subscribers)
      /\ publishing # <<>> /\ o = publishing[Len(publishing)]
      /\ Len(publishing) \in DOMAIN publishing
      /\ UNCHANGED <<subscribers, used, error_time, error_count, clock, alive, errors>>
  BY Typed DEF SubscriberReturns, SubscriberFails, AfterDrop
<1>2. o.i \in Nat \ {0}
  BY <1>1 DEF Publish
<1>3. ASSUME NEW a \in {"test", "error"}, NEW i \in Nat \ {0},
             publishing' = Goto(publishing, a, i),
             \/ o.at = "calling" /\ i = IF a = "test" THEN o.i + 1 ELSE o.i
             \/ o.at = "dropped" /\ a = "test" /\ i = o.i
      PROVE  SubscribersInv'
  <2> PICK x : x = [o EXCEPT !.at = a, !.i = i]
    OBVIOUS
  <2>1. /\ x \in Publish /\ x.at = a /\ x.i = i /\ x.v = o.v /\ x.called = o.called
        /\ x.disturbed = o.disturbed /\ x.doubled = o.doubled
    BY <1>1 DEF Publish
  <2>2. Knows(x, used)
    BY <1>1, <1>3, <2>1 DEF Knows
  <2>3. Passed(x) = Passed(o)
    BY <1>2, <1>3, <2>1 DEF Passed
  <2>4. Called(x, subscribers)
    BY <1>1, <1>3, <2>1, <2>3 DEF Called
  <2>5. publishing' = [publishing EXCEPT ![Len(publishing)] = x]
    BY <1>1, <1>3 DEF Goto
  <2> QED
    BY <1>1, <2>1, <2>2, <2>4, <2>5, TopGoesOn DEF Sound
<1>4. CASE SubscriberReturns
  <2>1. o.at = "calling" /\ publishing' = Goto(publishing, "test", o.i + 1)
    BY <1>4 DEF SubscriberReturns
  <2> QED
    BY <1>2, <1>3, <2>1
<1>5. CASE SubscriberFails
  <2>1. o.at = "calling" /\ publishing' = Goto(publishing, "error", o.i)
    BY <1>5 DEF SubscriberFails
  <2> QED
    BY <1>2, <1>3, <2>1
<1>6. CASE AfterDrop
  <2>1. o.at = "dropped" /\ publishing' = Goto(publishing, "test", o.i)
    BY <1>6 DEF AfterDrop
  <2> QED
    BY <1>2, <1>3, <2>1
<1> QED
  BY <1>4, <1>5, <1>6

-----------------------------------------------------------------------------
(* What changes the list                                                   *)

\* A new subscriber is behind all that a publish has called.
LEMMA SubscribeKeeps ==
  ASSUME SubscribersInv, NEW id \in Id, subscribe(id)
  PROVE  SubscribersInv'
<1>1. /\ id \notin used /\ used' = used \cup {id} /\ subscribers' = Append(subscribers, id)
      /\ UNCHANGED <<error_time, error_count, publishing, clock, alive, errors>>
  BY DEF subscribe
<1>2. /\ subscribers \in Seq(Id) /\ DOMAIN subscribers = 1..Len(subscribers)
      /\ Len(subscribers) \in Nat /\ Listed(subscribers, used) /\ used \subseteq Id
      /\ publishing \in Seq(Publish) /\ DOMAIN publishing = 1..Len(publishing)
  BY Typed
<1> PICK l : l = Append(subscribers, id)
  OBVIOUS
<1>3. /\ l \in Seq(Id) /\ Len(l) = Len(subscribers) + 1
      /\ \A k \in 1..Len(subscribers) : l[k] = subscribers[k]
      /\ l[Len(subscribers) + 1] = id
  BY <1>2, AppendProperties
<1>4. DOMAIN l = 1..Len(subscribers) + 1
  BY <1>3, LenProperties
<1>5. Listed(l, used')
  <2>1. \A k \in DOMAIN l :
          \/ k \in DOMAIN subscribers /\ l[k] = subscribers[k]
          \/ k = Len(subscribers) + 1 /\ l[k] = id
    BY <1>2, <1>3, <1>4
  <2>2. \A k \in DOMAIN subscribers : subscribers[k] \in used /\ subscribers[k] # id
    BY <1>1, <1>2 DEF Listed
  <2> QED
    BY <1>1, <1>2, <2>1, <2>2 DEF Listed
<1>6. ASSUME NEW n \in DOMAIN publishing
      PROVE  Knows(publishing[n], used') /\ Called(publishing[n], l)
  <2> PICK f : f = publishing[n]
    OBVIOUS
  <2>1. f \in Publish /\ Knows(f, used) /\ Called(f, subscribers)
    BY Typed
  <2>2. Knows(f, used')
    BY <1>1, <2>1 DEF Knows
  <2>3. id \notin f.called
    BY <1>1, <2>1 DEF Knows
  <2>4. Passed(f) \in Int
    BY <2>1 DEF Passed, Publish
  <2>5. Called(f, l)
    BY <1>2, <1>3, <1>4, <2>1, <2>3, <2>4 DEF Called
  <2> QED
    BY <2>2, <2>5
<1>7. TypeOK'
  BY <1>1, <1>3 DEF SubscribersInv, TypeOK
<1>8. ErrorInv'
  <2> SUFFICES ASSUME NEW i \in Id, Sole(i, used'), NEW k \in DOMAIN l, l[k] = i
      PROVE  /\ error_count[i] < AUTO_UNSUBSCRIBING_COUNT
             /\ Spread(errors[i], error_count[i], error_time[i])
    BY <1>1 DEF SubscribersInv, ErrorInv, Counted, Spread, Sole
  <2>1. CASE i = id
    <3>1. error_count[i] = 0 /\ Counted(errors[i], error_count[i], error_time[i])
      BY <1>1, <2>1 DEF SubscribersInv, ErrorInv
    <3>2. DOMAIN errors[i] = {}
      BY <3>1 DEF Counted
    <3> QED
      BY <3>1, <3>2, TimeAssumption DEF Spread
  <2>2. CASE i # id
    <3>1. k \in DOMAIN subscribers /\ subscribers[k] = i
      BY <1>2, <1>3, <1>4, <2>2
    <3>2. Sole(i, used)
      BY <1>1 DEF Sole
    <3> QED
      BY <3>1, <3>2 DEF SubscribersInv, ErrorInv
  <2> QED
    BY <2>1, <2>2
<1> QED
  BY <1>1, <1>5, <1>6, <1>7, <1>8 DEF SubscribersInv, PublishInv

\* What is left of the list l as t without the places in gone, which from remembers.
Leaves(l, t, gone, from) ==
  /\ Chosen(Len(l), Len(t), gone, from) /\ MovedUp(Len(l), Len(t), gone, from)
  /\ \A k \in 1..Len(t) : t[k] = l[from[k]]

\* What unsubscribe leaves.
LEMMA Unsubscribed ==
  ASSUME SubscribersInv, NEW specifier, RemoveMatching(specifier)
  PROVE  /\ subscribers' \in Seq(Id) /\ Listed(subscribers', used)
         /\ DOMAIN subscribers' = 1..Len(subscribers') /\ Len(subscribers') \in Nat
         /\ \E from : Leaves(subscribers, subscribers', Dropped(subscribers, specifier), from)
<1> PICK gone : gone = Dropped(subscribers, specifier)
  OBVIOUS
<1> PICK m : m = Len(subscribers)
  OBVIOUS
<1>1. /\ subscribers \in Seq(Id) /\ Listed(subscribers, used)
      /\ DOMAIN subscribers = 1..m /\ m \in Nat
  BY Typed
<1>2. PICK n \in 0..m : \E from \in [1..n -> DOMAIN subscribers] :
        /\ \A j, k \in 1..n : j < k => from[j] < from[k]
        /\ {from[k] : k \in 1..n} = DOMAIN subscribers \ gone
        /\ subscribers' = [k \in 1..n |-> subscribers[from[k]]]
  BY DEF RemoveMatching
<1>3. PICK from \in [1..n -> 1..m] :
        /\ \A j, k \in 1..n : j < k => from[j] < from[k]
        /\ {from[k] : k \in 1..n} = 1..m \ gone
        /\ subscribers' = [k \in 1..n |-> subscribers[from[k]]]
  BY <1>1, <1>2
<1> PICK t : t = [k \in 1..n |-> subscribers[from[k]]]
  OBVIOUS
<1>4. n \in Nat /\ from \in [1..n -> DOMAIN subscribers]
  BY <1>1, <1>2
<1>5. t \in Seq(Id) /\ DOMAIN t = 1..n /\ Listed(t, used)
  <2>1. /\ subscribers \in Seq(Id) /\ Listed(subscribers, used) /\ n \in Nat
        /\ from \in [1..n -> DOMAIN subscribers]
        /\ \A j, k \in 1..n : j < k => from[j] < from[k]
        /\ t = [k \in 1..n |-> subscribers[from[k]]]
    BY <1>1, <1>3, <1>4
  <2> QED
    BY ONLY <2>1, Selection
<1>6. Len(t) = n
  BY <1>4, <1>5, LenProperties
<1>7. Chosen(m, n, gone, from)
  BY <1>1, <1>3, <1>4 DEF Chosen
<1>8. MovedUp(m, n, gone, from)
  BY <1>7, Enumeration
<1>9. Leaves(subscribers, t, gone, from)
  BY <1>3, <1>6, <1>7, <1>8 DEF Leaves
<1> QED
  BY <1>3, <1>4, <1>5, <1>6, <1>9

\* A stack whose publishes are disturbed, if they are.
LEMMA DisturbedStack ==
  ASSUME SubscribersInv, NEW gone, NEW d, d = Disturbed(publishing, gone)
  PROVE  /\ d \in Seq(Publish) /\ DOMAIN d = DOMAIN publishing /\ Len(d) = Len(publishing)
         /\ \A n \in DOMAIN publishing :
              /\ d[n].v = publishing[n].v /\ d[n].called = publishing[n].called
              /\ d[n].at = publishing[n].at /\ d[n].i = publishing[n].i
              /\ d[n].doubled = publishing[n].doubled
              /\ ~d[n].disturbed => /\ ~publishing[n].disturbed
                                    /\ \A p \in gone : ~(p <= Passed(publishing[n]))
<1>1. /\ publishing \in Seq(Publish) /\ DOMAIN publishing = 1..Len(publishing)
      /\ Len(publishing) \in Nat /\ \A n \in DOMAIN publishing : publishing[n] \in Publish
  BY Typed
<1>2. DOMAIN d = DOMAIN publishing
  BY DEF Disturbed
<1>3. ASSUME NEW n \in DOMAIN publishing
      PROVE  /\ d[n] \in Publish
             /\ d[n].v = publishing[n].v /\ d[n].called = publishing[n].called
             /\ d[n].at = publishing[n].at /\ d[n].i = publishing[n].i
             /\ d[n].doubled = publishing[n].doubled
             /\ ~d[n].disturbed => /\ ~publishing[n].disturbed
                                   /\ \A p \in gone : ~(p <= Passed(publishing[n]))
  <2> PICK f : f = publishing[n]
    OBVIOUS
  <2> PICK b : b = (f.disturbed \/ \E p \in gone : p <= Passed(f))
    OBVIOUS
  <2>1. d[n] = [f EXCEPT !.disturbed = b] /\ f \in Publish
    BY <1>1 DEF Disturbed
  <2>2. b \in BOOLEAN
    OBVIOUS
  <2>3. /\ d[n] \in Publish /\ d[n].disturbed = b
        /\ d[n].v = f.v /\ d[n].called = f.called /\ d[n].at = f.at /\ d[n].i = f.i
        /\ d[n].doubled = f.doubled
    BY <2>1, <2>2 DEF Publish
  <2> QED
    BY <2>3
<1>4. d = [n \in 1..Len(publishing) |-> d[n]]
  BY <1>1 DEF Disturbed
<1>5. d \in [1..Len(publishing) -> Publish]
  BY <1>1, <1>3, <1>4
<1>6. d \in Seq(Publish)
  BY <1>1, <1>5, SeqDef
<1>7. Len(d) = Len(publishing)
  BY <1>1, <1>2, <1>6, LenProperties
<1> QED
  BY <1>2, <1>3, <1>6, <1>7

\* A publish whose list loses places, disturbed if it has passed one of them.
LEMMA CalledOfLess ==
  ASSUME NEW l \in Seq(Id), NEW t \in Seq(Id), NEW gone, NEW from, Leaves(l, t, gone, from),
         NEW f \in Publish, Called(f, l),
         NEW g, g.v = f.v, g.called = f.called, g.at = f.at, g.i = f.i, g.doubled = f.doubled,
         ~g.disturbed => ~f.disturbed /\ \A p \in gone : ~(p <= Passed(f))
  PROVE  Called(g, t)
<1>1. /\ DOMAIN l = 1..Len(l) /\ Len(l) \in Nat /\ DOMAIN t = 1..Len(t) /\ Len(t) \in Nat
  BY LenProperties
<1>2. /\ f.i \in Nat \ {0} /\ Passed(f) \in Nat /\ Passed(g) = Passed(f)
      /\ f.at \in {"calling", "error"} => Passed(f) = f.i
  BY DEF Publish, Passed
<1>3. ASSUME NEW k \in DOMAIN t, t[k] \in f.called
      PROVE  k <= Passed(f) /\ (f.at \in {"calling", "error"} /\ k = f.i => t[k] = f.v)
  <2>1. t[k] = l[from[k]] /\ from[k] \in DOMAIN l /\ k <= from[k] /\ from[k] \in Nat /\ k \in Nat
    BY <1>1 DEF Leaves, Chosen, MovedUp
  <2>2. from[k] <= Passed(f) /\ (f.at \in {"calling", "error"} /\ from[k] = f.i => t[k] = f.v)
    BY <1>3, <2>1 DEF Called
  <2> QED
    BY <1>2, <2>1, <2>2
<1>4. ASSUME ~g.disturbed, ~g.doubled
      PROVE  Passed(f) <= Len(t) /\ \A k \in DOMAIN t : k <= Passed(f) => t[k] \in f.called
  <2>1. /\ Passed(f) <= Len(l) /\ \A p \in gone : ~(p <= Passed(f))
        /\ \A k \in DOMAIN l : k <= Passed(f) => l[k] \in f.called
    BY <1>4 DEF Called
  <2>2. Passed(f) \in 0..Len(l) /\ \A p \in gone : p \in 1..Len(l) => Passed(f) < p
    BY <1>1, <1>2, <2>1
  <2>3. Passed(f) <= Len(t) /\ \A k \in 1..Passed(f) : from[k] = k
    BY <2>2 DEF Leaves, Chosen, MovedUp
  <2>4. ASSUME NEW k \in DOMAIN t, k <= Passed(f) PROVE t[k] \in f.called
    <3>1. k \in 1..Passed(f) /\ k \in DOMAIN l
      BY <1>1, <1>2, <2>1, <2>4
    <3>2. t[k] = l[k]
      BY <1>1, <2>3, <3>1 DEF Leaves, Chosen, MovedUp
    <3> QED
      BY <2>1, <2>4, <3>1, <3>2
  <2> QED
    BY <2>3, <2>4
<1> QED
  BY <1>2, <1>3, <1>4 DEF Called

\* Subscribers are unsubscribed: publishes in progress may be disturbed.
LEMMA UnsubscribeKeeps ==
  ASSUME SubscribersInv, NEW specifier, unsubscribe(specifier)
  PROVE  SubscribersInv'
<1> PICK gone : gone = Dropped(subscribers, specifier)
  OBVIOUS
<1> PICK d : d = Disturbed(publishing, gone)
  OBVIOUS
<1>1. /\ UNCHANGED <<used, error_time, error_count, clock, alive, errors>>
      /\ RemoveMatching(specifier) /\ publishing' = d
  BY DEF unsubscribe
<1>2. /\ subscribers' \in Seq(Id) /\ Listed(subscribers', used)
      /\ DOMAIN subscribers' = 1..Len(subscribers')
      /\ \E from : Leaves(subscribers, subscribers', gone, from)
  BY <1>1, Unsubscribed
<1>3. PICK from : Leaves(subscribers, subscribers', gone, from)
  BY <1>2
<1>4. /\ d \in Seq(Publish) /\ DOMAIN d = DOMAIN publishing
      /\ \A n \in DOMAIN publishing :
           /\ d[n].v = publishing[n].v /\ d[n].called = publishing[n].called
           /\ d[n].at = publishing[n].at /\ d[n].i = publishing[n].i
           /\ d[n].doubled = publishing[n].doubled
           /\ ~d[n].disturbed => /\ ~publishing[n].disturbed
                                 /\ \A p \in gone : ~(p <= Passed(publishing[n]))
  BY DisturbedStack
<1>5. ASSUME NEW n \in DOMAIN d
      PROVE  Knows(d[n], used) /\ Called(d[n], subscribers')
  <2>1. publishing[n] \in Publish /\ Knows(publishing[n], used) /\ Called(publishing[n], subscribers)
    BY <1>4, Typed
  <2>2. Knows(d[n], used)
    BY <1>4, <2>1 DEF Knows
  <2>3. Called(d[n], subscribers')
    <3> PICK f, g, t : f = publishing[n] /\ g = d[n] /\ t = subscribers'
      OBVIOUS
    <3>1. /\ subscribers \in Seq(Id) /\ t \in Seq(Id) /\ Leaves(subscribers, t, gone, from)
          /\ f \in Publish /\ Called(f, subscribers)
          /\ g.v = f.v /\ g.called = f.called /\ g.at = f.at /\ g.i = f.i /\ g.doubled = f.doubled
          /\ ~g.disturbed => ~f.disturbed /\ \A p \in gone : ~(p <= Passed(f))
      BY <1>2, <1>3, <1>4, <2>1, Typed
    <3>2. Called(g, t)
      BY ONLY <3>1, CalledOfLess
    <3> QED
      BY <3>2
  <2> QED
    BY <2>2, <2>3
<1>6. ErrorInv'
  <2>1. \A id : (\E k \in DOMAIN subscribers' : subscribers'[k] = id) =>
                 \E k \in DOMAIN subscribers : subscribers[k] = id
    BY <1>2, <1>3, Typed DEF Leaves, Chosen, MovedUp
  <2> QED
    BY <1>1, <2>1 DEF SubscribersInv, ErrorInv, Counted, Spread, Sole
<1>7. TypeOK'
  BY <1>1, <1>2, <1>4 DEF SubscribersInv, TypeOK
<1> QED
  BY <1>1, <1>2, <1>5, <1>6, <1>7 DEF SubscribersInv, PublishInv

-----------------------------------------------------------------------------
(* What counts errors                                                      *)

\* With one more error now, the errors counted are the last and within a minute.
\* Those before stay as spread as they were, if there were not too many.
LEMMA OneMore ==
  ASSUME NEW e \in Seq(Time), NEW c \in Nat, NEW t \in Time, Counted(e, c, t),
         t <= clock, clock \in Time, AUTO_UNSUBSCRIBING_TIME <= clock,
         \A k \in DOMAIN e : e[k] <= clock,
         NEW f, f = Append(e, clock), NEW n, NEW u,
         \/ clock - t < AUTO_UNSUBSCRIBING_TIME /\ n = c + 1 /\ u = t
         \/ ~(clock - t < AUTO_UNSUBSCRIBING_TIME) /\ n = 1 /\ u = clock
  PROVE  /\ f \in Seq(Time) /\ n \in Nat /\ u \in Time /\ u <= clock /\ Counted(f, n, u)
         /\ \A k \in DOMAIN f : f[k] <= clock
         /\ c < AUTO_UNSUBSCRIBING_COUNT /\ Spread(e, c, t) => Spread(f, n, u)
<1>1. /\ f \in Seq(Time) /\ Len(f) = Len(e) + 1 /\ f[Len(e) + 1] = clock
      /\ \A k \in 1..Len(e) : f[k] = e[k]
  BY AppendProperties
<1>2. /\ Len(e) \in Nat /\ DOMAIN e = 1..Len(e) /\ DOMAIN f = 1..Len(e) + 1
  BY <1>1, LenProperties
<1>3. /\ AUTO_UNSUBSCRIBING_TIME \in Nat /\ AUTO_UNSUBSCRIBING_TIME > 0 /\ clock \in Nat /\ t \in Nat
      /\ AUTO_UNSUBSCRIBING_COUNT \in Nat /\ AUTO_UNSUBSCRIBING_COUNT >= 2
      /\ \A k \in 1..Len(e) : e[k] \in Nat
  BY <1>2, TimeAssumption, ElementOfSeq DEF Time
<1>4. clock \in u .. u + AUTO_UNSUBSCRIBING_TIME - 1 /\ u <= clock
  BY <1>3
<1>5. /\ c <= Len(e) /\ (c = 0 => t = 0)
      /\ \A k \in 1..Len(e) : /\ k > Len(e) - c => e[k] \in t .. t + AUTO_UNSUBSCRIBING_TIME - 1
                              /\ k <= Len(e) - c + 1 => e[k] <= t
  BY <1>2 DEF Counted
<1>6. n <= Len(e) + 1 /\ n \in Nat /\ n # 0
  BY <1>2, <1>5
<1>7. ASSUME NEW k \in 1..Len(e) + 1, k > Len(e) + 1 - n
      PROVE  f[k] \in u .. u + AUTO_UNSUBSCRIBING_TIME - 1
  <2>1. CASE k = Len(e) + 1
    BY <1>1, <1>4, <2>1
  <2>2. CASE k \in 1..Len(e)
    <3>1. u = t /\ k > Len(e) - c
      BY <1>2, <1>7, <2>2
    <3> QED
      BY <1>1, <1>5, <2>2, <3>1
  <2> QED
    BY <1>2, <2>1, <2>2
<1>8. ASSUME NEW k \in 1..Len(e) + 1 PROVE f[k] <= clock
  <2>1. CASE k = Len(e) + 1
    BY <1>1, <1>3, <2>1
  <2>2. CASE k \in 1..Len(e)
    BY <1>1, <1>2, <2>2
  <2> QED
    BY <1>2, <2>1, <2>2
<1>9. ASSUME NEW k \in 1..Len(e) + 1, k <= Len(e) + 1 - n + 1 PROVE f[k] <= u
  <2>1. CASE u = clock
    BY <1>8, <2>1
  <2>2. CASE clock - t < AUTO_UNSUBSCRIBING_TIME /\ n = c + 1 /\ u = t
    <3>1. c # 0
      BY <1>3, <1>5, <2>2
    <3>2. k \in 1..Len(e) /\ k <= Len(e) - c + 1
      BY <1>2, <1>9, <2>2, <3>1
    <3> QED
      BY <1>1, <1>5, <2>2, <3>2
  <2> QED
    BY <2>1, <2>2
<1>10. Counted(f, n, u)
  BY <1>1, <1>2, <1>6, <1>7, <1>9 DEF Counted
<1>11. ASSUME c < AUTO_UNSUBSCRIBING_COUNT, Spread(e, c, t), NEW k \in 1..Len(e) + 1,
              k <= Len(e) + 1 - n - AUTO_UNSUBSCRIBING_COUNT + 2
       PROVE  f[k] + AUTO_UNSUBSCRIBING_TIME <= u
  <2>1. k \in 1..Len(e) /\ f[k] = e[k] /\ e[k] \in Nat
    BY <1>1, <1>2, <1>3, <1>6, <1>11
  <2>2. CASE clock - t < AUTO_UNSUBSCRIBING_TIME /\ n = c + 1 /\ u = t
    <3>1. k <= Len(e) - c - AUTO_UNSUBSCRIBING_COUNT + 2
      BY <1>2, <1>3, <1>11, <2>2
    <3> QED
      BY <1>2, <1>11, <2>1, <2>2, <3>1 DEF Spread
  <2>3. CASE ~(clock - t < AUTO_UNSUBSCRIBING_TIME) /\ n = 1 /\ u = clock
    <3>1. k <= Len(e) - c + 1
      BY <1>2, <1>3, <1>11, <2>3
    <3>2. e[k] <= t
      BY <1>5, <2>1, <3>1
    <3> QED
      BY <1>3, <2>1, <2>3, <3>2
  <2> QED
    BY <2>2, <2>3
<1>12. c < AUTO_UNSUBSCRIBING_COUNT /\ Spread(e, c, t) => Spread(f, n, u)
  BY <1>1, <1>2, <1>3, <1>6, <1>11 DEF Spread
<1> QED
  BY <1>1, <1>2, <1>3, <1>4, <1>6, <1>8, <1>10, <1>12

\* What is known of recorded errors, for every subscription.
ErrorsKnown ==
  \A i \in Id : /\ error_time[i] <= clock
                /\ i \notin used => error_count[i] = 0
                /\ Counted(errors[i], error_count[i], error_time[i])
                /\ \A k \in DOMAIN errors[i] : errors[i][k] <= clock

\* An error is recorded; with too many, it is one too many now.
LEMMA Recording ==
  ASSUME SubscribersInv, NEW id \in used, RecordError(id), UNCHANGED <<used, clock>>
  PROVE  /\ error_count' \in [Id -> Nat] /\ error_time' \in [Id -> Time]
         /\ errors' \in [Id -> Seq(Time)] /\ ErrorsKnown'
         /\ \A i \in Id : i # id => /\ error_count'[i] = error_count[i]
                                    /\ error_time'[i] = error_time[i]
                                    /\ errors'[i] = errors[i]
         /\ error_count'[id] >= AUTO_UNSUBSCRIBING_COUNT <=> TooMany(id)
         /\ error_count[id] < AUTO_UNSUBSCRIBING_COUNT
            /\ Spread(errors[id], error_count[id], error_time[id])
              => Spread(errors'[id], error_count'[id], error_time'[id])
<1>1. /\ id \in Id /\ clock \in Time /\ AUTO_UNSUBSCRIBING_TIME <= clock
      /\ error_count \in [Id -> Nat] /\ error_time \in [Id -> Time]
      /\ errors \in [Id -> Seq(Time)] /\ ErrorsKnown
  BY Typed DEF SubscribersInv, TypeOK, ErrorInv, ErrorsKnown
<1> PICK n : n = IF Recent(id) THEN error_count[id] + 1 ELSE 1
  OBVIOUS
<1> PICK u : u = IF Recent(id) THEN error_time[id] ELSE clock
  OBVIOUS
<1> PICK f : f = Append(errors[id], clock)
  OBVIOUS
<1>2. /\ error_count' = [error_count EXCEPT ![id] = n]
      /\ error_time' = [error_time EXCEPT ![id] = u]
      /\ errors' = [errors EXCEPT ![id] = f]
  BY DEF RecordError
<1>3. /\ errors[id] \in Seq(Time) /\ error_count[id] \in Nat /\ error_time[id] \in Time
      /\ Counted(errors[id], error_count[id], error_time[id]) /\ error_time[id] <= clock
      /\ \A k \in DOMAIN errors[id] : errors[id][k] <= clock
  BY <1>1 DEF ErrorsKnown
<1>4. \/ clock - error_time[id] < AUTO_UNSUBSCRIBING_TIME /\ n = error_count[id] + 1 /\ u = error_time[id]
      \/ ~(clock - error_time[id] < AUTO_UNSUBSCRIBING_TIME) /\ n = 1 /\ u = clock
  BY DEF Recent
<1>5. /\ f \in Seq(Time) /\ n \in Nat /\ u \in Time /\ u <= clock /\ Counted(f, n, u)
      /\ \A k \in DOMAIN f : f[k] <= clock
      /\ error_count[id] < AUTO_UNSUBSCRIBING_COUNT
         /\ Spread(errors[id], error_count[id], error_time[id]) => Spread(f, n, u)
  <2> PICK e : e = errors[id]
    OBVIOUS
  <2> PICK c : c = error_count[id]
    OBVIOUS
  <2> PICK t : t = error_time[id]
    OBVIOUS
  <2>1. /\ e \in Seq(Time) /\ c \in Nat /\ t \in Time /\ Counted(e, c, t) /\ t <= clock
        /\ clock \in Time /\ AUTO_UNSUBSCRIBING_TIME <= clock
        /\ \A k \in DOMAIN e : e[k] <= clock
        /\ f = Append(e, clock)
        /\ \/ clock - t < AUTO_UNSUBSCRIBING_TIME /\ n = c + 1 /\ u = t
           \/ ~(clock - t < AUTO_UNSUBSCRIBING_TIME) /\ n = 1 /\ u = clock
    BY <1>1, <1>3, <1>4
  <2>2. /\ f \in Seq(Time) /\ n \in Nat /\ u \in Time /\ u <= clock /\ Counted(f, n, u)
        /\ \A k \in DOMAIN f : f[k] <= clock
        /\ c < AUTO_UNSUBSCRIBING_COUNT /\ Spread(e, c, t) => Spread(f, n, u)
    BY ONLY <2>1, OneMore
  <2> QED
    BY <2>2
<1>6. /\ error_count'[id] = n /\ error_time'[id] = u /\ errors'[id] = f
      /\ \A i \in Id : i # id => /\ error_count'[i] = error_count[i]
                               /\ error_time'[i] = error_time[i] /\ errors'[i] = errors[i]
  BY <1>1, <1>2
<1>7. /\ error_count' \in [Id -> Nat] /\ error_time' \in [Id -> Time]
      /\ errors' \in [Id -> Seq(Time)]
  BY <1>1, <1>2, <1>5
<1>8. n >= AUTO_UNSUBSCRIBING_COUNT <=> TooMany(id)
  BY <1>3, TimeAssumption DEF TooMany
<1>9. ErrorsKnown'
  <2>1. ASSUME NEW i \in Id
        PROVE  /\ error_time'[i] <= clock
               /\ i \notin used => error_count'[i] = 0
               /\ Counted(errors'[i], error_count'[i], error_time'[i])
               /\ \A k \in DOMAIN errors'[i] : errors'[i][k] <= clock
    <3>1. CASE i = id
      BY <1>5, <1>6, <3>1
    <3>2. CASE i # id
      BY <1>1, <1>6, <3>2 DEF ErrorsKnown
    <3> QED
      BY <3>1, <3>2
  <2> QED
    BY <2>1 DEF ErrorsKnown, Counted
<1> QED
  BY <1>5, <1>6, <1>7, <1>8, <1>9

\* The error of a subscriber that has not had too many is counted.
LEMMA CountKeeps ==
  ASSUME SubscribersInv, CountError
  PROVE  SubscribersInv'
<1> PICK o : o = Top
  OBVIOUS
<1>1. /\ o \in Publish /\ Knows(o, used) /\ Called(o, subscribers)
      /\ publishing # <<>> /\ o = publishing[Len(publishing)] /\ publishing \in Seq(Publish)
      /\ Len(publishing) \in DOMAIN publishing /\ o.at = "error"
      /\ ~TooMany(o.v) /\ RecordError(o.v) /\ publishing' = Goto(publishing, "test", o.i + 1)
      /\ UNCHANGED <<subscribers, used, clock, alive>>
  BY Typed DEF CountError
<1>2. o.i \in Nat \ {0} /\ o.v \in used
  BY <1>1 DEF Publish, Knows
<1> PICK i : i = o.i + 1
  OBVIOUS
<1> PICK x : x = [o EXCEPT !.at = "test", !.i = i]
  OBVIOUS
<1>3. /\ x \in Publish /\ x.at = "test" /\ x.i = o.i + 1 /\ x.called = o.called
      /\ x.disturbed = o.disturbed
  <2>1. i \in Nat \ {0}
    BY <1>2
  <2> QED
    BY <1>1, <2>1 DEF Publish
<1>4. Knows(x, used) /\ Called(x, subscribers)
  <2>1. Passed(x) = Passed(o)
    BY <1>1, <1>2, <1>3 DEF Passed
  <2> QED
    BY <1>1, <1>3, <2>1 DEF Knows, Called
<1> PICK d : d = [publishing EXCEPT ![Len(publishing)] = x]
  OBVIOUS
<1>5. publishing' = d
  BY <1>1 DEF Goto
<1>6. /\ d \in Seq(Publish) /\ DOMAIN d = DOMAIN publishing /\ d[Len(publishing)] = x
      /\ \A n \in DOMAIN publishing : n # Len(publishing) => d[n] = publishing[n]
  BY <1>1, <1>3, Changed
<1>7. PublishInv'
  <2>1. \A n \in DOMAIN d : Knows(d[n], used) /\ Called(d[n], subscribers)
    BY <1>4, <1>6, Typed
  <2> QED
    BY <1>1, <1>5, <2>1, Typed DEF PublishInv
<1>8. /\ error_count' \in [Id -> Nat] /\ error_time' \in [Id -> Time]
      /\ errors' \in [Id -> Seq(Time)] /\ ErrorsKnown'
      /\ \A id \in Id : id # o.v => /\ error_count'[id] = error_count[id]
                                    /\ error_time'[id] = error_time[id]
                                    /\ errors'[id] = errors[id]
      /\ error_count'[o.v] >= AUTO_UNSUBSCRIBING_COUNT <=> TooMany(o.v)
      /\ error_count[o.v] < AUTO_UNSUBSCRIBING_COUNT
         /\ Spread(errors[o.v], error_count[o.v], error_time[o.v])
           => Spread(errors'[o.v], error_count'[o.v], error_time'[o.v])
  BY <1>1, <1>2, Recording
<1>9. ErrorInv'
  <2>1. ASSUME NEW id \in Id, Sole(id, used), NEW k \in DOMAIN subscribers, subscribers[k] = id
        PROVE  /\ error_count'[id] < AUTO_UNSUBSCRIBING_COUNT
               /\ Spread(errors'[id], error_count'[id], error_time'[id])
    <3>1. /\ error_count[id] < AUTO_UNSUBSCRIBING_COUNT
          /\ Spread(errors[id], error_count[id], error_time[id])
      BY <2>1 DEF SubscribersInv, ErrorInv
    <3>2. CASE id = o.v
      <4>1. error_count'[id] \in Nat /\ ~(error_count'[id] >= AUTO_UNSUBSCRIBING_COUNT)
        BY <1>1, <1>8, <3>2
      <4>2. error_count'[id] < AUTO_UNSUBSCRIBING_COUNT
        BY <4>1, TimeAssumption
      <4> QED
        BY <1>8, <3>1, <3>2, <4>2
    <3>3. CASE id # o.v
      BY <1>8, <3>1, <3>3
    <3> QED
      BY <3>2, <3>3
  <2> QED
    BY <1>1, <1>8, <2>1 DEF SubscribersInv, ErrorInv, ErrorsKnown, Counted, Spread, Sole
<1>10. TypeOK'
  BY <1>1, <1>5, <1>6, <1>8 DEF SubscribersInv, TypeOK
<1> QED
  BY <1>7, <1>9, <1>10 DEF SubscribersInv

\* The publish that drops the one it called last goes on with the one behind it.
LEMMA CalledAfterDrop ==
  ASSUME NEW l \in Seq(Id), Listed(l, used), used \subseteq Id, NEW t \in Seq(Id),
         NEW o \in Publish, Called(o, l), o.at = "error", o.v \in used,
         NEW gone, gone = Dropped(l, procedure[o.v]), NEW from, Leaves(l, t, gone, from),
         NEW x, x.at = "dropped", x.i = o.i, x.called = o.called,
         x.disturbed = o.disturbed,
         ~x.doubled =>
           ~o.doubled /\ \A k \in DOMAIN l : k < o.i /\ l[k] # o.v => procedure[l[k]] # procedure[o.v]
  PROVE  Called(x, t)
<1>1. /\ DOMAIN l = 1..Len(l) /\ Len(l) \in Nat /\ DOMAIN t = 1..Len(t) /\ Len(t) \in Nat
  BY LenProperties
<1>2. o.i \in Nat \ {0} /\ Passed(o) = o.i /\ Passed(x) = o.i - 1 /\ o.i - 1 \in Nat
  BY DEF Publish, Passed
<1>3. ASSUME NEW k \in DOMAIN t, t[k] \in o.called PROVE k <= o.i - 1
  <2>1. /\ t[k] = l[from[k]] /\ from[k] \in DOMAIN l /\ from[k] \notin gone
        /\ k <= from[k] /\ from[k] \in Nat /\ k \in Nat
    BY <1>1 DEF Leaves, Chosen, MovedUp
  <2>2. from[k] <= o.i /\ (from[k] = o.i => l[from[k]] = o.v)
    BY <1>2, <1>3, <2>1 DEF Called
  <2> SUFFICES ASSUME k = o.i PROVE FALSE
    BY <1>2, <2>1, <2>2
  <2>3. from[k] = k /\ l[k] = o.v /\ k \in DOMAIN l
    BY <1>2, <2>1, <2>2
  <2>4. Matches(l[k], procedure[o.v]) /\ k \notin Dropped(l, procedure[o.v])
    BY <2>1, <2>3 DEF Matches
  <2>5. k - 1 \in gone /\ k - 1 \in 1..k
    BY <2>3, <2>4, NeighbourIsDropped
  <2> QED
    BY <1>1, <2>3, <2>5 DEF Leaves, Chosen, MovedUp
<1>4. ASSUME ~x.disturbed, ~x.doubled
      PROVE  o.i - 1 <= Len(t) /\ \A k \in DOMAIN t : k <= o.i - 1 => t[k] \in o.called
  <2>1. o.i <= Len(l) /\ \A k \in DOMAIN l : k <= o.i => l[k] \in o.called
    BY <1>2, <1>4 DEF Called
  <2>2. l[o.i] = o.v /\ o.i \in DOMAIN l
    BY <1>1, <1>2, <2>1 DEF Called
  <2>3. ASSUME NEW p \in gone, p \in 1..Len(l) PROVE o.i - 1 < p
    <3> SUFFICES ASSUME p < o.i PROVE FALSE
      BY <1>2, <2>3
    <3>1. l[p] # o.v
      BY <1>1, <2>2, <2>3 DEF Listed
    <3>2. procedure[l[p]] # procedure[o.v] /\ l[p] \in Id /\ o.v \in Id
      BY <1>1, <1>4, <2>3, <3>1, ElementOfSeq
    <3>3. ~Matches(l[p], procedure[o.v])
      BY <3>2, SpecifierAssumption DEF Matches
    <3>4. Matches(l[p], procedure[o.v])
      <4>1. PICK q \in 1..p : \A k \in q..p : Matches(l[k], procedure[o.v])
        BY DEF Dropped
      <4>2. p \in q..p
        BY <2>3, <4>1
      <4> QED
        BY <4>1, <4>2
    <3> QED
      BY <3>3, <3>4
  <2>4. o.i - 1 \in 0..Len(l)
    BY <1>1, <1>2, <2>1
  <2>5. o.i - 1 <= Len(t) /\ \A k \in 1..o.i - 1 : from[k] = k
    BY <2>3, <2>4 DEF Leaves, Chosen, MovedUp
  <2>6. ASSUME NEW k \in DOMAIN t, k <= o.i - 1 PROVE t[k] \in o.called
    <3>1. k \in 1..o.i - 1 /\ k \in DOMAIN l /\ k <= o.i
      BY <1>1, <1>2, <2>1, <2>6
    <3>2. t[k] = l[k]
      BY <1>1, <2>5, <3>1 DEF Leaves, Chosen, MovedUp
    <3> QED
      BY <2>1, <3>1, <3>2
  <2> QED
    BY <2>5, <2>6
<1> QED
  BY <1>2, <1>3, <1>4 DEF Called

\* A subscriber with too many errors is dropped.
LEMMA AutoUnsubscribeKeeps ==
  ASSUME SubscribersInv, AutoUnsubscribe
  PROVE  SubscribersInv'
<1> PICK o : o = Top
  OBVIOUS
<1> PICK l : l = Len(publishing)
  OBVIOUS
<1> PICK gone : gone = Dropped(subscribers, procedure[o.v])
  OBVIOUS
<1> PICK b : b = (o.doubled \/ \E k \in DOMAIN subscribers :
                    k < o.i /\ subscribers[k] # o.v /\ procedure[subscribers[k]] = procedure[o.v])
  OBVIOUS
<1> PICK stack : stack = Disturbed(publishing, gone)
  OBVIOUS
<1>1. /\ o \in Publish /\ Knows(o, used) /\ Called(o, subscribers)
      /\ publishing # <<>> /\ o = publishing[l] /\ publishing \in Seq(Publish)
      /\ l \in DOMAIN publishing /\ DOMAIN publishing = 1..l /\ o.at = "error"
      /\ RecordError(o.v) /\ RemoveMatching(procedure[o.v])
      /\ UNCHANGED <<used, clock, alive>>
  BY Typed DEF AutoUnsubscribe
<1>2. /\ o.i \in Nat \ {0} /\ o.v \in used /\ used \subseteq Id /\ o.v \in Id
      /\ o.disturbed \in BOOLEAN /\ o.doubled \in BOOLEAN /\ b \in BOOLEAN
  BY <1>1, Typed DEF Publish, Knows
<1>3. /\ subscribers' \in Seq(Id) /\ Listed(subscribers', used)
      /\ DOMAIN subscribers' = 1..Len(subscribers')
      /\ \E from : Leaves(subscribers, subscribers', gone, from)
  BY <1>1, Unsubscribed
<1> PICK from : Leaves(subscribers, subscribers', gone, from)
  BY <1>3
<1>4. /\ stack \in Seq(Publish) /\ DOMAIN stack = 1..l /\ Len(stack) = l
      /\ \A n \in 1..l :
           /\ stack[n].v = publishing[n].v /\ stack[n].called = publishing[n].called
           /\ stack[n].at = publishing[n].at /\ stack[n].i = publishing[n].i
           /\ stack[n].doubled = publishing[n].doubled
           /\ ~stack[n].disturbed => /\ ~publishing[n].disturbed
                                     /\ \A p \in gone : ~(p <= Passed(publishing[n]))
  <2>1. SubscribersInv /\ stack = Disturbed(publishing, gone)
    OBVIOUS
  <2>2. /\ stack \in Seq(Publish) /\ DOMAIN stack = DOMAIN publishing
        /\ Len(stack) = Len(publishing)
        /\ \A n \in DOMAIN publishing :
             /\ stack[n].v = publishing[n].v /\ stack[n].called = publishing[n].called
             /\ stack[n].at = publishing[n].at /\ stack[n].i = publishing[n].i
             /\ stack[n].doubled = publishing[n].doubled
             /\ ~stack[n].disturbed => /\ ~publishing[n].disturbed
                                       /\ \A p \in gone : ~(p <= Passed(publishing[n]))
    BY ONLY <2>1, DisturbedStack
  <2> QED
    BY <1>1, <2>2
<1> PICK x : x = [stack[l] EXCEPT !.at = "dropped", !.i = o.i, !.disturbed = o.disturbed,
                                  !.doubled = b]
  OBVIOUS
<1>5. /\ x \in Publish /\ x.at = "dropped" /\ x.i = o.i /\ x.v = o.v /\ x.called = o.called
      /\ x.disturbed = o.disturbed /\ x.doubled = b
  <2>1. stack[l] \in Publish /\ stack[l].v = o.v /\ stack[l].called = o.called
    BY <1>1, <1>4, ElementOfSeq
  <2> PICK w : w = stack[l]
    OBVIOUS
  <2>2. /\ w \in Publish /\ w.v = o.v /\ w.called = o.called /\ o.i \in Nat \ {0}
        /\ o.disturbed \in BOOLEAN /\ b \in BOOLEAN
        /\ x = [w EXCEPT !.at = "dropped", !.i = o.i, !.disturbed = o.disturbed, !.doubled = b]
    BY <1>2, <2>1
  <2> QED
    BY ONLY <2>2 DEF Publish
<1>6. Knows(x, used)
  BY <1>1, <1>2, <1>5 DEF Knows
<1>7. Called(x, subscribers')
  <2> PICK t : t = subscribers'
    OBVIOUS
  <2>1. /\ subscribers \in Seq(Id) /\ Listed(subscribers, used) /\ used \subseteq Id
        /\ t \in Seq(Id) /\ o \in Publish /\ Called(o, subscribers) /\ o.at = "error"
        /\ o.v \in used /\ gone = Dropped(subscribers, procedure[o.v])
        /\ Leaves(subscribers, t, gone, from)
        /\ x.at = "dropped" /\ x.i = o.i /\ x.called = o.called /\ x.disturbed = o.disturbed
        /\ ~x.doubled =>
             /\ ~o.doubled
             /\ \A k \in DOMAIN subscribers :
                  k < o.i /\ subscribers[k] # o.v => procedure[subscribers[k]] # procedure[o.v]
    BY <1>1, <1>2, <1>3, <1>5, Typed
  <2>2. Called(x, t)
    BY ONLY <2>1, CalledAfterDrop
  <2> QED
    BY <2>2
<1> PICK d : d = [stack EXCEPT ![l] = x]
  OBVIOUS
<1>8. publishing' = d
  <2>1. Goto(stack, "dropped", o.i) = [stack EXCEPT ![l].at = "dropped", ![l].i = o.i]
    BY <1>4 DEF Goto
  <2>2. stack[l].doubled = o.doubled
    BY <1>1, <1>4
  <2>3. b = (o.doubled \/ \E k \in {k \in DOMAIN subscribers : k < o.i /\ subscribers[k] # o.v} :
               procedure[subscribers[k]] = procedure[o.v])
    OBVIOUS
  <2>4. publishing' = [Goto(stack, "dropped", o.i) EXCEPT ![l].disturbed = o.disturbed,
                                                          ![l].doubled = b]
    <3>1. /\ publishing' = [Goto(stack, "dropped", o.i) EXCEPT
                              ![l].disturbed = o.disturbed, ![l].doubled = @ \/
                                \E k \in {k \in DOMAIN subscribers : k < o.i /\ subscribers[k] # o.v} :
                                  procedure[subscribers[k]] = procedure[o.v]]
      BY DEF AutoUnsubscribe
    <3> PICK w : w = Goto(stack, "dropped", o.i)
      OBVIOUS
    <3>2. l \in DOMAIN w /\ w[l].doubled = o.doubled
      <4>1. w = [stack EXCEPT ![l].at = "dropped", ![l].i = o.i]
        BY <2>1
      <4>2. l \in DOMAIN stack /\ stack[l] \in Publish
        BY <1>1, <1>4, ElementOfSeq
      <4> QED
        BY <2>2, <4>1, <4>2 DEF Publish
    <3> QED
      BY <2>3, <3>1, <3>2
  <2> QED
    BY <1>1, <1>4, <2>1, <2>4
<1>9. d \in Seq(Publish) /\ DOMAIN d = 1..l /\ d[l] = x /\ \A n \in 1..l : n # l => d[n] = stack[n]
  <2>1. stack \in Seq(Publish) /\ l \in 1..Len(stack) /\ x \in Publish
    BY <1>1, <1>4, <1>5
  <2>2. /\ d \in Seq(Publish)
        /\ \A n \in 1..Len(stack) : d[n] = IF n = l THEN x ELSE stack[n]
    BY ONLY <2>1, d = [stack EXCEPT ![l] = x], ExceptSeq
  <2> QED
    BY <1>4, <2>1, <2>2
<1>10. PublishInv'
  <2>1. ASSUME NEW n \in 1..l PROVE Knows(d[n], used) /\ Called(d[n], subscribers')
    <3>1. CASE n = l
      BY <1>6, <1>7, <1>9, <3>1
    <3>2. CASE n # l
      <4>1. /\ d[n] = stack[n] /\ publishing[n] \in Publish
            /\ Knows(publishing[n], used) /\ Called(publishing[n], subscribers)
        BY <1>1, <1>9, <3>2, Typed
      <4>2. Knows(stack[n], used)
        BY <1>4, <4>1 DEF Knows
      <4>3. Called(stack[n], subscribers')
        <5> PICK f, g, t : f = publishing[n] /\ g = stack[n] /\ t = subscribers'
          OBVIOUS
        <5>1. /\ subscribers \in Seq(Id) /\ t \in Seq(Id) /\ Leaves(subscribers, t, gone, from)
              /\ f \in Publish /\ Called(f, subscribers)
              /\ g.v = f.v /\ g.called = f.called /\ g.at = f.at /\ g.i = f.i
              /\ g.doubled = f.doubled
              /\ ~g.disturbed => ~f.disturbed /\ \A p \in gone : ~(p <= Passed(f))
          BY <1>3, <1>4, <4>1, Typed
        <5>2. Called(g, t)
          BY ONLY <5>1, CalledOfLess
        <5> QED
          BY <5>2
      <4> QED
        BY <4>1, <4>2, <4>3
    <3> QED
      BY <3>1, <3>2
  <2> QED
    BY <1>1, <1>3, <1>8, <1>9, <2>1 DEF PublishInv
<1>11. /\ error_count' \in [Id -> Nat] /\ error_time' \in [Id -> Time]
       /\ errors' \in [Id -> Seq(Time)] /\ ErrorsKnown'
       /\ \A id \in Id : id # o.v => /\ error_count'[id] = error_count[id]
                                     /\ error_time'[id] = error_time[id]
                                     /\ errors'[id] = errors[id]
  BY <1>1, <1>2, Recording
<1>12. ErrorInv'
  <2>1. ASSUME NEW id \in Id, Sole(id, used), NEW k \in DOMAIN subscribers', subscribers'[k] = id
        PROVE  /\ error_count'[id] < AUTO_UNSUBSCRIBING_COUNT
               /\ Spread(errors'[id], error_count'[id], error_time'[id])
    <3>1. PICK p \in DOMAIN subscribers : subscribers[p] = id /\ p \notin gone
      BY <1>3, <2>1, Typed DEF Leaves, Chosen, MovedUp
    <3>2. /\ error_count[id] < AUTO_UNSUBSCRIBING_COUNT
          /\ Spread(errors[id], error_count[id], error_time[id])
      BY <2>1, <3>1 DEF SubscribersInv, ErrorInv
    <3>3. CASE id # o.v
      BY <1>11, <3>2, <3>3
    <3>4. CASE id = o.v
      <4>1. subscribers \in Seq(Id) /\ used \in SUBSET Id /\ Listed(subscribers, used)
        BY Typed
      <4>2. p \in Dropped(subscribers, procedure[subscribers[p]])
        BY <2>1, <3>1, <4>1, SoleIsDropped
      <4> QED
        BY <3>1, <3>4, <4>2
    <3> QED
      BY <3>3, <3>4
  <2> QED
    BY <1>1, <1>11, <2>1 DEF SubscribersInv, ErrorInv, ErrorsKnown, Counted, Spread, Sole
<1>13. TypeOK'
  BY <1>1, <1>3, <1>8, <1>9, <1>11 DEF SubscribersInv, TypeOK
<1> QED
  BY <1>10, <1>12, <1>13 DEF SubscribersInv

-----------------------------------------------------------------------------
(* The theorems                                                            *)

\* Every step keeps the invariant.
LEMMA SubscribersInvNext ==
  ASSUME SubscribersInv, [Next]_vars
  PROVE  SubscribersInv'
<1>1. CASE UNCHANGED vars \/ Ended
  <2>1. UNCHANGED <<subscribers, used, error_time, error_count, publishing, clock, alive, errors>>
    BY <1>1 DEF vars, Ended
  <2>2. TypeOK'
    BY <2>1 DEF SubscribersInv, TypeOK
  <2>3. PublishInv'
    BY <2>1 DEF SubscribersInv, PublishInv, Listed, Knows, Called, Passed
  <2>4. ErrorInv'
    BY <2>1 DEF SubscribersInv, ErrorInv, Counted, Spread, Sole
  <2> QED
    BY <2>2, <2>3, <2>4 DEF SubscribersInv
<1>2. ASSUME NEW id \in Id, subscribe(id) PROVE SubscribersInv'
  BY <1>2, SubscribeKeeps
<1>3. ASSUME NEW specifier \in Specifiers, unsubscribe(specifier) PROVE SubscribersInv'
  BY <1>3, UnsubscribeKeeps
<1>4. CASE Tick
  <2>1. /\ clock \in Time /\ MaxTime \in Nat /\ clock < MaxTime /\ clock' = clock + 1
        /\ UNCHANGED <<subscribers, used, error_time, error_count, publishing, alive, errors>>
    BY <1>4, Typed, TimeAssumption DEF Tick
  <2>2. clock' \in Time /\ clock < clock'
    BY <2>1 DEF Time
  <2>3. TypeOK'
    BY <2>1, <2>2 DEF SubscribersInv, TypeOK
  <2>4. PublishInv'
    BY <2>1 DEF SubscribersInv, PublishInv, Listed, Knows, Called, Passed
  <2>5. /\ AUTO_UNSUBSCRIBING_TIME <= clock'
        /\ \A id \in Id : error_time[id] <= clock' /\ \A k \in DOMAIN errors[id] : errors[id][k] <= clock'
    <3>1. /\ AUTO_UNSUBSCRIBING_TIME \in Nat /\ AUTO_UNSUBSCRIBING_TIME <= clock
          /\ clock \in Nat /\ clock' \in Nat
      BY <2>1, <2>2, TimeAssumption DEF SubscribersInv, ErrorInv, Time
    <3>2. ASSUME NEW id \in Id
          PROVE  /\ error_time[id] \in Nat /\ error_time[id] <= clock
                 /\ \A k \in DOMAIN errors[id] : errors[id][k] \in Nat /\ errors[id][k] <= clock
      <4>1. errors[id] \in Seq(Time) /\ error_time[id] \in Time
        BY DEF SubscribersInv, TypeOK
      <4>2. \A k \in DOMAIN errors[id] : errors[id][k] \in Time
        BY <4>1, ElementOfSeq, LenProperties
      <4> QED
        BY <4>1, <4>2 DEF SubscribersInv, ErrorInv, Time
    <3> QED
      BY <2>2, <3>1, <3>2
  <2>6. ErrorInv'
    BY <2>1, <2>5 DEF SubscribersInv, ErrorInv, Counted, Spread, Sole
  <2> QED
    BY <2>3, <2>4, <2>6 DEF SubscribersInv
<1> QED
  BY <1>1, <1>2, <1>3, <1>4, PublishKeeps, EndKeeps, CallKeeps, ReturnKeeps, CountKeeps,
     AutoUnsubscribeKeeps DEF Next

\* The invariant of the subscribers.
THEOREM SubscribersInvariance == Spec => []SubscribersInv
<1>1. Init => SubscribersInv
  <2> SUFFICES ASSUME Init PROVE SubscribersInv
    OBVIOUS
  <2>1. /\ AUTO_UNSUBSCRIBING_TIME \in Nat /\ MaxTime \in Nat
        /\ AUTO_UNSUBSCRIBING_TIME <= MaxTime /\ AUTO_UNSUBSCRIBING_COUNT \in Nat \ {0, 1}
    BY TimeAssumption
  <2>2. 0 \in Time /\ AUTO_UNSUBSCRIBING_TIME \in Time
    BY <2>1 DEF Time
  <2>3. /\ subscribers = <<>> /\ publishing = <<>> /\ used = {} /\ alive = TRUE
        /\ clock = AUTO_UNSUBSCRIBING_TIME
        /\ \A id \in Id : error_time[id] = 0 /\ error_count[id] = 0 /\ errors[id] = <<>>
    BY DEF Init
  <2>4. TypeOK
    BY <2>2 DEF Init, TypeOK
  <2>5. PublishInv
    BY <2>3 DEF PublishInv, Listed
  <2>6. ErrorInv
    <3> SUFFICES ASSUME NEW id \in Id
        PROVE  /\ error_time[id] <= clock /\ error_count[id] = 0 /\ DOMAIN errors[id] = {}
               /\ Counted(errors[id], error_count[id], error_time[id])
      BY <2>1, <2>3 DEF ErrorInv
    <3>1. error_time[id] <= clock /\ error_count[id] = 0 /\ errors[id] = <<>> /\ error_time[id] = 0
      BY <2>1, <2>3
    <3>2. DOMAIN errors[id] = {} /\ Len(errors[id]) = 0
      BY <3>1
    <3> QED
      BY <3>1, <3>2 DEF Counted
  <2> QED
    BY <2>4, <2>5, <2>6 DEF SubscribersInv
<1>2. SubscribersInv /\ [Next]_vars => SubscribersInv'
  BY SubscribersInvNext
<1> QED
  BY <1>1, <1>2, PTL DEF Spec

\* publish calls nobody twice.  It calls every subscriber, whoever subscribes, fails
\* and is dropped meanwhile, unless somebody else takes one that it had called from
\* the list, or it drops a procedure that it had called for an earlier one, too.
THEOREM PublishSkipsNobody == Spec => []NobodySkipped
<1>1. SubscribersInv => NobodySkipped
  BY DEF SubscribersInv, PublishInv, Called, NobodySkipped
<1> QED
  BY <1>1, SubscribersInvariance, PTL

\* With as many errors counted as the limit, so many fell within a minute.
LEMMA CountedSoon ==
  ASSUME NEW e \in Seq(Time), NEW c \in Nat, NEW t \in Time, Counted(e, c, t),
         c >= AUTO_UNSUBSCRIBING_COUNT
  PROVE  WithinMinute(e, AUTO_UNSUBSCRIBING_COUNT)
<1>1. /\ DOMAIN e = 1..Len(e) /\ Len(e) \in Nat /\ t \in Nat
      /\ AUTO_UNSUBSCRIBING_COUNT \in Nat /\ AUTO_UNSUBSCRIBING_COUNT >= 2
      /\ AUTO_UNSUBSCRIBING_TIME \in Nat
  BY LenProperties, TimeAssumption DEF Time
<1>2. c <= Len(e)
  BY DEF Counted
<1> PICK k : k = Len(e) - AUTO_UNSUBSCRIBING_COUNT + 1
  OBVIOUS
<1>3. k \in DOMAIN e /\ k > Len(e) - c /\ Len(e) \in DOMAIN e /\ Len(e) > Len(e) - c
  BY <1>1, <1>2
<1>4. /\ e[k] \in t .. t + AUTO_UNSUBSCRIBING_TIME - 1
      /\ e[Len(e)] \in t .. t + AUTO_UNSUBSCRIBING_TIME - 1
  BY <1>3 DEF Counted
<1> QED
  BY <1>1, <1>2, <1>4 DEF WithinMinute

\* With fewer, and those before spread, not so many fell within one.
LEMMA SpreadOut ==
  ASSUME NEW e \in Seq(Time), NEW c \in Nat, NEW t \in Time, Counted(e, c, t),
         c < AUTO_UNSUBSCRIBING_COUNT, Spread(e, c, t)
  PROVE  ~WithinMinute(e, 2 * AUTO_UNSUBSCRIBING_COUNT - 2)
<1>1. /\ DOMAIN e = 1..Len(e) /\ Len(e) \in Nat /\ t \in Nat
      /\ AUTO_UNSUBSCRIBING_COUNT \in Nat /\ AUTO_UNSUBSCRIBING_COUNT >= 2
      /\ AUTO_UNSUBSCRIBING_TIME \in Nat /\ AUTO_UNSUBSCRIBING_TIME > 0
  BY LenProperties, TimeAssumption DEF Time
<1> SUFFICES ASSUME Len(e) >= 2 * AUTO_UNSUBSCRIBING_COUNT - 2
    PROVE  ~(e[Len(e)] - e[Len(e) - (2 * AUTO_UNSUBSCRIBING_COUNT - 2) + 1]
               < AUTO_UNSUBSCRIBING_TIME)
  BY DEF WithinMinute
<1> PICK k : k = Len(e) - (2 * AUTO_UNSUBSCRIBING_COUNT - 2) + 1
  OBVIOUS
<1>2. Len(e) \in DOMAIN e /\ k \in DOMAIN e /\ k <= Len(e) - c - AUTO_UNSUBSCRIBING_COUNT + 2
  BY <1>1
<1>3. e[k] + AUTO_UNSUBSCRIBING_TIME <= t
  BY <1>2 DEF Spread
<1>4. c # 0
  <2> SUFFICES ASSUME c = 0 PROVE FALSE
    OBVIOUS
  <2>1. e = <<>>
    BY DEF Counted
  <2> QED
    BY <1>1, <2>1
<1>5. e[Len(e)] \in t .. t + AUTO_UNSUBSCRIBING_TIME - 1
  <2>1. Len(e) > Len(e) - c
    BY <1>1, <1>4
  <2> QED
    BY <1>2, <2>1 DEF Counted
<1>6. e[k] \in Nat
  <2>1. e[k] \in Time
    BY <1>1, <1>2, ElementOfSeq
  <2> QED
    BY <2>1 DEF Time
<1> QED
  BY <1>1, <1>3, <1>5, <1>6

\* A step that records an error drops its procedure with enough of them, and nothing
\* else.
LEMMA ErrorStep ==
  ASSUME SubscribersInv, SubscribersInv', CountError \/ AutoUnsubscribe, NEW id \in Id
  PROVE  DropIsJustified(id)
<1> PICK o : o = Top
  OBVIOUS
<1> SUFFICES ASSUME errors'[id] # errors[id] PROVE DropIsJustified(id)
  BY DEF DropIsJustified
<1>1. /\ publishing # <<>> /\ o.at = "error" /\ Knows(o, used) /\ RecordError(o.v)
      /\ UNCHANGED <<used, clock>> /\ used \subseteq Id
  BY Typed DEF CountError, AutoUnsubscribe
<1>2. o.v \in used
  BY <1>1 DEF Knows
<1>3. id = o.v /\ (error_count'[o.v] >= AUTO_UNSUBSCRIBING_COUNT <=> TooMany(o.v))
  BY <1>1, <1>2, Recording
<1>4. /\ errors'[id] \in Seq(Time) /\ error_count'[id] \in Nat /\ error_time'[id] \in Time
      /\ Counted(errors'[id], error_count'[id], error_time'[id])
      /\ Sole(id, used) /\ (\E k \in DOMAIN subscribers' : subscribers'[k] = id) =>
           /\ error_count'[id] < AUTO_UNSUBSCRIBING_COUNT
           /\ Spread(errors'[id], error_count'[id], error_time'[id])
  BY <1>1 DEF SubscribersInv, TypeOK, ErrorInv, Counted, Spread, Sole
<1> PICK e, c, t : e = errors'[id] /\ c = error_count'[id] /\ t = error_time'[id]
  OBVIOUS
<1>5. subscribers' # subscribers => WithinMinute(errors'[id], AUTO_UNSUBSCRIBING_COUNT)
  <2> SUFFICES ASSUME subscribers' # subscribers
      PROVE  WithinMinute(e, AUTO_UNSUBSCRIBING_COUNT)
    OBVIOUS
  <2>1. TooMany(o.v)
    BY DEF CountError, AutoUnsubscribe
  <2>2. e \in Seq(Time) /\ c \in Nat /\ t \in Time /\ Counted(e, c, t) /\ c >= AUTO_UNSUBSCRIBING_COUNT
    BY <1>3, <1>4, <2>1
  <2> QED
    BY ONLY <2>2, CountedSoon
<1>6. ASSUME NEW p \in DOMAIN subscribers,
             ~ \E k \in DOMAIN subscribers' : subscribers'[k] = subscribers[p]
      PROVE  procedure[subscribers[p]] = procedure[id]
  <2>1. RemoveMatching(procedure[o.v])
    BY <1>6 DEF CountError, AutoUnsubscribe
  <2> PICK gone : gone = Dropped(subscribers, procedure[o.v])
    OBVIOUS
  <2>2. /\ DOMAIN subscribers' = 1..Len(subscribers') /\ DOMAIN subscribers = 1..Len(subscribers)
        /\ \E from : Leaves(subscribers, subscribers', gone, from)
    BY <2>1, Typed, Unsubscribed
  <2>3. p \in gone
    BY <1>6, <2>2 DEF Leaves, Chosen, MovedUp
  <2>4. PICK q \in 1..p : \A k \in q..p : Matches(subscribers[k], procedure[o.v])
    BY <2>3 DEF Dropped
  <2>5. Matches(subscribers[p], procedure[o.v]) /\ subscribers[p] \in Id /\ o.v \in Id
    BY <1>1, <1>2, <2>2, <2>4, Typed, ElementOfSeq
  <2> QED
    BY <1>3, <2>5, SpecifierAssumption DEF Matches
<1>7. ASSUME \E k \in DOMAIN subscribers' : subscribers'[k] = id,
             \A other \in used \ {id} : procedure[other] # procedure[id]
      PROVE  ~WithinMinute(errors'[id], 2 * AUTO_UNSUBSCRIBING_COUNT - 2)
  <2>1. Sole(id, used)
    BY <1>7 DEF Sole
  <2>2. /\ e \in Seq(Time) /\ c \in Nat /\ t \in Time /\ Counted(e, c, t)
        /\ c < AUTO_UNSUBSCRIBING_COUNT /\ Spread(e, c, t)
    BY <1>4, <1>7, <2>1
  <2>3. ~WithinMinute(e, 2 * AUTO_UNSUBSCRIBING_COUNT - 2)
    BY ONLY <2>2, SpreadOut
  <2> QED
    BY <2>3
<1> QED
  BY <1>5, <1>6, <1>7 DEF DropIsJustified

\* A subscriber is dropped only with as many errors within a minute as the limit, and
\* only its procedure goes; with two less than twice the limit it is gone, unless its
\* procedure was subscribed more than once.
THEOREM DropsHaveCause == Spec => DropsAreJustified
<1>1. ASSUME SubscribersInv, SubscribersInv', [Next]_vars
      PROVE  [\A id \in Id : DropIsJustified(id)]_vars
  <2>1. CASE CountError \/ AutoUnsubscribe
    BY <1>1, <2>1, ErrorStep
  <2>2. CASE ~(CountError \/ AutoUnsubscribe)
    <3>1. errors' = errors
      BY <1>1, <2>2 DEF vars, Next, subscribe, unsubscribe, publish, EndPublish, CallSubscriber,
         SubscriberReturns, SubscriberFails, SubscriberFailsOddly, AfterDrop, Tick, Ended
    <3> QED
      BY <3>1 DEF DropIsJustified
  <2> QED
    BY <2>1, <2>2
<1>2. SubscribersInv /\ SubscribersInv' /\ [Next]_vars => [\A id \in Id : DropIsJustified(id)]_vars
  BY <1>1
<1> QED
  BY <1>2, SubscribersInvariance, PTL DEF Spec, DropsAreJustified

-----------------------------------------------------------------------------
(* The startup programs: the invariant                                     *)

Reading == {"enum", "wait"}
Deleting == {"delete", "remove"}

\* A thread x that is at the values of a key is at a step of the plan, and only
\* those of the RunOnce keys are deleted.
Placed(x) ==
  /\ x.at \notin {"idle", "done"} => x.n \in 1..Len(Plan)
  /\ x.at = "open" => x.i = 0
  /\ x.at \in Reading \cup Deleting => Plan[x.n].key \in Key
  /\ x.at \in Deleting => Plan[x.n].delete
  /\ x.at \in {"wait", "remove"} => x.v \in Val
  /\ x.at = "remove" => Deletable(x.v)

\* Those of the first m values of a list that may be deleted are in done.
Handled(s, m, done) ==
  \A k \in DOMAIN s : k <= m /\ Deletable(s[k]) => s[k] \in done

\* How far a thread x, at a key whose values are deleted, relies on it that they
\* have been executed, by itself or by another thread.
Relies(x, values, done) ==
  /\ x.at \in Reading /\ Plan[x.n].delete => Handled(values[Plan[x.n].key], x.i, done)
  /\ x.at \in Deleting => Handled(values[Plan[x.n].key], Len(values[Plan[x.n].key]), done)

StartupInv ==
  /\ StartupTypeOK
  /\ \A t \in Thread : Placed(thread[t])
  /\ NothingLost
  /\ disturbed \/ \A t \in Thread : Relies(thread[t], registry, executed)

Threads ==
  [at : {"idle", "open", "enum", "wait", "files", "delete", "remove", "done"},
   n : 0..Len(Plan), i : Nat, v : Val \cup {NoVal}, todo : SUBSET File]

-----------------------------------------------------------------------------
(* Lists and the plan                                                      *)

\* The plan has six steps; those that are no folders have a key.
LEMMA PlanFacts ==
  /\ Len(Plan) = 6 /\ Plan[1].delete
  /\ \A n \in 1..6 : /\ Plan[n].delete \in BOOLEAN
                     /\ Plan[n].folder \in BOOLEAN
                     /\ ~Plan[n].folder => Plan[n].key \in Key
<1>1. "LM_RunOnce" \in Key /\ "LM_Run" \in Key /\ "CU_Run" \in Key /\ "CU_RunOnce" \in Key
  BY DEF Key
<1>2. Len(Plan) = 6
  BY DEF Plan
<1>3. Plan[1].delete = TRUE /\ Plan[1].folder = FALSE /\ Plan[1].key \in Key
  <2>1. Plan[1] = Items("LM_RunOnce", TRUE, TRUE)
    BY DEF Plan
  <2> QED
    BY <1>1, <2>1 DEF Items
<1>4. Plan[2].delete = FALSE /\ Plan[2].folder = FALSE /\ Plan[2].key \in Key
  <2>1. Plan[2] = Items("LM_Run", FALSE, FALSE)
    BY DEF Plan
  <2> QED
    BY <1>1, <2>1 DEF Items
<1>5. Plan[3].delete = FALSE /\ Plan[3].folder = FALSE /\ Plan[3].key \in Key
  <2>1. Plan[3] = Items("CU_Run", FALSE, FALSE)
    BY DEF Plan
  <2> QED
    BY <1>1, <2>1 DEF Items
<1>6. Plan[4].delete = FALSE /\ Plan[4].folder = TRUE
  <2>1. Plan[4] = Folder
    BY DEF Plan
  <2> QED
    BY <2>1 DEF Folder
<1>7. Plan[5].delete = FALSE /\ Plan[5].folder = TRUE
  <2>1. Plan[5] = Folder
    BY DEF Plan
  <2> QED
    BY <2>1 DEF Folder
<1>8. Plan[6].delete = TRUE /\ Plan[6].folder = FALSE /\ Plan[6].key \in Key
  <2>1. Plan[6] = Items("CU_RunOnce", TRUE, FALSE)
    BY DEF Plan
  <2> QED
    BY <1>1, <2>1 DEF Items
<1>9. \A n \in 1..6 : n \in {1, 2, 3, 4, 5, 6}
  OBVIOUS
<1> QED
  BY <1>2, <1>3, <1>4, <1>5, <1>6, <1>7, <1>8, <1>9

\* A list without a value is a list of others of its values.
LEMMA WithoutValueFacts ==
  ASSUME NEW s \in Seq(Val), NEW v
  PROVE  WithoutValue(s, v) \in Seq(Val) /\ ValuesIn(WithoutValue(s, v)) \subseteq ValuesIn(s)
<1>1. DOMAIN s = 1..Len(s) /\ Len(s) \in Nat
  BY LenProperties
<1>2. CASE v \notin ValuesIn(s)
  BY <1>2 DEF WithoutValue
<1>3. CASE v \in ValuesIn(s)
  <2> PICK i : i = CHOOSE k \in DOMAIN s : s[k] = v
    OBVIOUS
  <2>1. i \in DOMAIN s
    BY <1>3 DEF ValuesIn
  <2> PICK t : t = [k \in 1..Len(s) - 1 |-> s[IF k < i THEN k ELSE k + 1]]
    OBVIOUS
  <2>2. Len(s) - 1 \in Nat
    BY <1>1, <2>1
  <2>3. \A k \in 1..Len(s) - 1 : (IF k < i THEN k ELSE k + 1) \in DOMAIN s
    BY <1>1, <2>1
  <2>4. \A k \in 1..Len(s) - 1 : t[k] \in Val /\ t[k] \in ValuesIn(s)
    BY <2>3, ElementOfSeq DEF ValuesIn
  <2>5. t \in [1..Len(s) - 1 -> Val]
    BY <2>4
  <2>6. t \in Seq(Val) /\ ValuesIn(t) \subseteq ValuesIn(s)
    BY <2>2, <2>4, <2>5, SeqDef DEF ValuesIn
  <2>7. WithoutValue(s, v) = t
    BY <1>3 DEF WithoutValue
  <2> QED
    BY <2>6, <2>7
<1> QED
  BY <1>2, <1>3

\* With a value put into it, a list is a list.
LEMMA PutFacts ==
  ASSUME NEW s \in Seq(Val), NEW v \in Val, NEW i \in 0..Len(s)
  PROVE  SubSeq(s, 1, i) \o <<v>> \o SubSeq(s, i + 1, Len(s)) \in Seq(Val)
<1>1. Len(s) \in Nat
  BY LenProperties
<1>2. SubSeq(s, 1, i) \in Seq(Val)
  BY <1>1, SubSeqProperties
<1>3. SubSeq(s, i + 1, Len(s)) \in Seq(Val)
  BY <1>1, SubSeqProperties
<1>4. <<v>> \in Seq(Val)
  OBVIOUS
<1>5. SubSeq(s, 1, i) \o <<v>> \in Seq(Val)
  BY <1>2, <1>4, ConcatProperties
<1> QED
  BY <1>3, <1>5, ConcatProperties

\* More programs have been executed, and of the values fewer are left: what was
\* handled is.
LEMMA AllHandled ==
  ASSUME NEW s \in Seq(Val), NEW u \in Seq(Val), ValuesIn(u) \subseteq ValuesIn(s),
         NEW done, NEW more, done \subseteq more, Handled(s, Len(s), done), NEW m
  PROVE  Handled(u, m, more)
<1>1. DOMAIN s = 1..Len(s) /\ Len(s) \in Nat
  BY LenProperties
<1>2. \A j \in DOMAIN s : Deletable(s[j]) => s[j] \in more
  BY <1>1 DEF Handled
<1>3. ASSUME NEW k \in DOMAIN u, Deletable(u[k]) PROVE u[k] \in more
  <2>1. PICK j \in DOMAIN s : u[k] = s[j]
    BY DEF ValuesIn
  <2> QED
    BY <1>2, <1>3, <2>1
<1> QED
  BY <1>3 DEF Handled

-----------------------------------------------------------------------------
(* The steps of a thread                                                   *)

\* A step that takes one thread to x and leaves the keys as they are keeps the
\* invariant if x does.
LEMMA ThreadGoesOn ==
  ASSUME StartupInv, NEW t \in Thread, NEW x \in Threads, Placed(x),
         thread' = [thread EXCEPT ![t] = x],
         UNCHANGED <<registry, lost, changes, sessions>>,
         running' \subseteq Thread \X Val,
         executed \subseteq executed', executed' \subseteq Val,
         disturbed' \in BOOLEAN, disturbed => disturbed',
         disturbed' \/ Relies(x, registry, executed')
  PROVE  StartupInv'
<1>1. /\ StartupTypeOK /\ thread \in [Thread -> Threads]
      /\ \A u \in Thread : Placed(thread[u])
      /\ NothingLost
      /\ disturbed \/ \A u \in Thread : Relies(thread[u], registry, executed)
  BY DEF StartupInv, StartupTypeOK, Threads
<1>2. /\ thread' \in [Thread -> Threads]
      /\ \A u \in Thread : thread'[u] = IF u = t THEN x ELSE thread[u]
  BY <1>1
<1>3. StartupTypeOK'
  BY <1>1, <1>2 DEF StartupTypeOK, Threads
<1>4. \A u \in Thread : Placed(thread'[u])
  BY <1>1, <1>2
<1>5. NothingLost'
  BY <1>1 DEF NothingLost
<1>6. ASSUME ~disturbed', NEW u \in Thread
      PROVE  Relies(thread'[u], registry', executed')
  <2>1. CASE u = t
    BY <1>2, <1>6, <2>1
  <2>2. CASE u # t
    <3>1. Relies(thread[u], registry, executed)
      BY <1>1, <1>6
    <3>2. Relies(thread[u], registry, executed')
      BY <3>1 DEF Relies, Handled
    <3> QED
      BY <1>2, <2>2, <3>2
  <2> QED
    BY <2>1, <2>2
<1> QED
  BY <1>3, <1>4, <1>5, <1>6 DEF StartupInv

\* A thread goes on with the next step of the plan, or is done.
LEMMA Proceeds ==
  ASSUME StartupInv, NEW t \in Thread, Proceed(t),
         UNCHANGED <<registry, running, executed, lost, changes, sessions>>,
         disturbed' \in BOOLEAN, disturbed => disturbed'
  PROVE  StartupInv'
<1>1. thread[t].n \in 0..Len(Plan) /\ running \subseteq Thread \X Val /\ executed \subseteq Val
  BY DEF StartupInv, StartupTypeOK
<1> PICK x : x = IF thread[t].n = Len(Plan) THEN [Idle EXCEPT !.at = "done"]
                 ELSE [Idle EXCEPT !.at = "open", !.n = thread[t].n + 1]
  OBVIOUS
<1>2. /\ x \in Threads /\ x.at \in {"open", "done"}
      /\ x.at = "open" => x.n \in 1..Len(Plan) /\ x.i = 0
  <2>1. CASE thread[t].n = Len(Plan)
    BY <2>1, PlanFacts DEF Idle, Threads
  <2>2. CASE thread[t].n # Len(Plan)
    <3> PICK n : n = thread[t].n + 1
      OBVIOUS
    <3>1. x = [at |-> "open", n |-> n, i |-> 0, v |-> NoVal, todo |-> {}]
      BY <2>2 DEF Idle
    <3>2. n \in 1..Len(Plan) /\ n \in 0..Len(Plan)
      BY <1>1, <2>2, PlanFacts
    <3>3. x.at = "open" /\ x.n = n /\ x.i = 0
      BY ONLY <3>1
    <3>4. {} \in SUBSET File /\ NoVal \in Val \cup {NoVal} /\ 0 \in Nat
      OBVIOUS
    <3>5. [at |-> "open", n |-> n, i |-> 0, v |-> NoVal, todo |-> {}] \in Threads
      BY <3>2, <3>4 DEF Threads
    <3> QED
      BY <3>1, <3>2, <3>3, <3>5
  <2> QED
    BY <2>1, <2>2
<1>3. Placed(x)
  BY <1>2 DEF Placed, Reading, Deleting
<1>4. Relies(x, registry, executed')
  BY <1>2 DEF Relies, Reading, Deleting
<1>5. thread' = [thread EXCEPT ![t] = x]
  BY DEF Proceed
<1> QED
  BY <1>1, <1>2, <1>3, <1>4, <1>5, ThreadGoesOn

\* What is known of a thread.
LEMMA ThreadFacts ==
  ASSUME StartupInv, NEW t \in Thread
  PROVE  /\ thread[t] \in Threads /\ Placed(thread[t])
         /\ thread \in [Thread -> Threads] /\ registry \in [Key -> Seq(Val)]
         /\ running \subseteq Thread \X Val /\ executed \subseteq Val /\ disturbed \in BOOLEAN
         /\ disturbed \/ Relies(thread[t], registry, executed)
BY DEF StartupInv, StartupTypeOK, Threads

\* A key is opened, or a folder.
LEMMA OpenKeeps ==
  ASSUME StartupInv, NEW t \in Thread, UNCHANGED <<changes, sessions>>,
         Open(t) \/ OpenFails(t) \/ OpenFolder(t) \/ run_startup_programs(t)
  PROVE  StartupInv'
<1>1. /\ thread[t] \in Threads /\ Placed(thread[t]) /\ disturbed \in BOOLEAN
      /\ registry \in [Key -> Seq(Val)]
      /\ running \subseteq Thread \X Val /\ executed \subseteq Val
  BY ThreadFacts
<1>2. UNCHANGED <<registry, running, executed, lost, disturbed, changes, sessions>>
  BY DEF Open, OpenFails, OpenFolder, run_startup_programs
<1>3. CASE Proceed(t)
  BY <1>1, <1>2, <1>3, Proceeds
<1>4. CASE Open(t)
  <2> PICK x : x = [thread[t] EXCEPT !.at = "enum"]
    OBVIOUS
  <2>1. x \in Threads /\ x.at = "enum" /\ x.n = thread[t].n /\ x.i = thread[t].i
    BY <1>1 DEF Threads
  <2>2. thread' = [thread EXCEPT ![t] = x] /\ thread[t].at = "open" /\ ~Plan[thread[t].n].folder
    BY <1>4 DEF Open, GoesTo, At, Step
  <2>3. x.n \in 1..Len(Plan) /\ x.i = 0 /\ Plan[x.n].key \in Key
    BY <1>1, <2>1, <2>2, PlanFacts DEF Placed
  <2>4. Placed(x)
    BY <2>1, <2>3 DEF Placed, Reading, Deleting
  <2>5. registry[Plan[x.n].key] \in Seq(Val)
    BY <1>1, <2>3
  <2>6. Relies(x, registry, executed')
    BY <2>1, <2>3, <2>5, LenProperties DEF Relies, Handled, Reading, Deleting
  <2> QED
    BY <1>1, <1>2, <2>1, <2>2, <2>4, <2>6, ThreadGoesOn
<1>5. CASE thread' = [thread EXCEPT ![t].at = "files", ![t].todo = File] /\ thread[t].at = "open"
  <2> PICK x : x = [thread[t] EXCEPT !.at = "files", !.todo = File]
    OBVIOUS
  <2>1. x \in Threads /\ x.at = "files" /\ x.n = thread[t].n
    BY <1>1 DEF Threads
  <2>2. thread' = [thread EXCEPT ![t] = x]
    BY <1>5
  <2>3. Placed(x) /\ Relies(x, registry, executed')
    BY <1>1, <1>5, <2>1 DEF Placed, Relies, Reading, Deleting
  <2> QED
    BY <1>1, <1>2, <2>1, <2>2, <2>3, ThreadGoesOn
<1> QED
  BY <1>3, <1>4, <1>5 DEF OpenFails, OpenFolder, run_startup_programs, At

\* Values are read: executed or skipped, one after the other, until the end.
LEMMA ReadingKeeps ==
  ASSUME StartupInv, NEW t \in Thread, UNCHANGED <<changes, sessions>>,
         Execute(t) \/ Waited(t) \/ SkipValue(t)
  PROVE  StartupInv'
<1>1. /\ thread[t] \in Threads /\ Placed(thread[t]) /\ registry \in [Key -> Seq(Val)]
      /\ running \subseteq Thread \X Val /\ executed \subseteq Val /\ disturbed \in BOOLEAN
      /\ disturbed \/ Relies(thread[t], registry, executed)
  BY ThreadFacts
<1> PICK o : o = thread[t]
  OBVIOUS
<1> PICK s : s = registry[Plan[o.n].key]
  OBVIOUS
<1>2. /\ o \in Threads /\ Placed(o) /\ o.at \in Reading /\ o.i \in Nat
      /\ s = Values(t) /\ s \in Seq(Val) /\ Len(s) \in Nat /\ DOMAIN s = 1..Len(s)
  <2>1. o.at \in Reading
    BY DEF Execute, Waited, SkipValue, At, Reading
  <2>2. Plan[o.n].key \in Key
    BY <1>1, <2>1 DEF Placed
  <2> QED
    BY <1>1, <2>1, <2>2, LenProperties DEF Values, Step, Threads
<1>3. ASSUME NEW x \in Threads, x.n = o.n, x.at \in Reading, Placed(x),
             NEW more, executed \subseteq more, x.i \in {o.i, o.i + 1},
             x.i = o.i + 1 /\ o.i < Len(s) => ~Deletable(s[o.i + 1]) \/ s[o.i + 1] \in more
      PROVE  disturbed \/ Relies(x, registry, more)
  <2> SUFFICES ASSUME ~disturbed, Plan[x.n].delete PROVE Handled(s, x.i, more)
    BY <1>3 DEF Relies, Reading, Deleting
  <2>1. Handled(s, o.i, executed)
    BY <1>1, <1>2, <1>3 DEF Relies
  <2> QED
    BY <1>2, <1>3, <2>1 DEF Handled
<1>4. CASE Execute(t)
  <2> PICK v : v = s[o.i + 1]
    OBVIOUS
  <2>1. /\ v = Entry(t) /\ v \in Val /\ o.at = "enum"
        /\ executed' = executed \cup {v} /\ UNCHANGED <<registry, lost, disturbed>>
        /\ running' \in {running, running \cup {<<t, v>>}}
    BY <1>2, <1>4, ElementOfSeq DEF Execute, Entry, At
  <2> PICK a : a = IF Step(t).wait THEN "wait" ELSE "enum"
    OBVIOUS
  <2> PICK x : x = [o EXCEPT !.i = @ + 1, !.v = v, !.at = a]
    OBVIOUS
  <2>2. /\ x \in Threads /\ x.n = o.n /\ x.i = o.i + 1 /\ x.v = v /\ x.at \in Reading
    <3>1. a \in {"wait", "enum"}
      OBVIOUS
    <3>2. x.n = o.n /\ x.i = o.i + 1 /\ x.v = v /\ x.at = a
      BY <1>2 DEF Threads
    <3> PICK i : i = o.i + 1
      OBVIOUS
    <3>3. i \in Nat /\ x = [o EXCEPT !.i = i, !.v = v, !.at = a]
      BY <1>2
    <3>4. x \in Threads
      BY <1>2, <2>1, <3>1, <3>3 DEF Threads
    <3> QED
      BY <3>1, <3>2, <3>4 DEF Reading
  <2>3. Placed(x)
    BY <1>2, <2>1, <2>2 DEF Placed, Reading, Deleting
  <2>4. thread' = [thread EXCEPT ![t] = x]
    BY <1>4, <2>1 DEF Execute
  <2>5. v \in executed' /\ executed \subseteq executed' /\ executed' \subseteq Val
        /\ running' \subseteq Thread \X Val
    BY <1>1, <2>1
  <2>6. disturbed' \/ Relies(x, registry, executed')
    BY <1>3, <2>1, <2>2, <2>3, <2>5
  <2> QED
    BY <1>1, <2>1, <2>2, <2>3, <2>4, <2>5, <2>6, ThreadGoesOn
<1>5. CASE Waited(t)
  <2> PICK x : x = [o EXCEPT !.at = "enum"]
    OBVIOUS
  <2>1. UNCHANGED <<registry, running, executed, lost, disturbed>> /\ o.at = "wait"
    BY <1>5 DEF Waited, At
  <2>2. /\ x \in Threads /\ x.n = o.n /\ x.i = o.i /\ x.v = o.v /\ x.at = "enum"
        /\ x.at \in Reading
    BY <1>2 DEF Threads, Reading
  <2>3. Placed(x)
    BY <1>2, <2>1, <2>2 DEF Placed, Reading, Deleting
  <2>4. thread' = [thread EXCEPT ![t] = x]
    BY <1>5 DEF Waited, GoesTo
  <2>5. disturbed' \/ Relies(x, registry, executed')
    <3>1. x.i # o.i + 1 /\ executed \subseteq executed'
      BY <1>2, <2>1, <2>2
    <3> QED
      BY <1>3, <2>1, <2>2, <2>3, <3>1
  <2> QED
    BY <1>1, <2>1, <2>2, <2>3, <2>4, <2>5, ThreadGoesOn
<1>6. CASE SkipValue(t)
  <2> PICK x : x = [o EXCEPT !.i = @ + 1]
    OBVIOUS
  <2>1. UNCHANGED <<registry, running, executed, lost, disturbed>> /\ o.at = "enum"
        /\ ~Deletable(s[o.i + 1])
    BY <1>2, <1>6 DEF SkipValue, At, Entry, Deletable
  <2>2. /\ x \in Threads /\ x.n = o.n /\ x.i = o.i + 1 /\ x.at = "enum" /\ x.at \in Reading
    BY <1>2, <2>1 DEF Threads, Reading
  <2>3. Placed(x)
    BY <1>2, <2>1, <2>2 DEF Placed, Reading, Deleting
  <2>4. thread' = [thread EXCEPT ![t] = x]
    BY <1>6 DEF SkipValue
  <2>5. disturbed' \/ Relies(x, registry, executed')
    BY <1>2, <1>3, <2>1, <2>2, <2>3
  <2> QED
    BY <1>1, <2>1, <2>2, <2>3, <2>4, <2>5, ThreadGoesOn
<1> QED
  BY <1>4, <1>5, <1>6

\* The values of a key have been read to the end, or to one that is too long.
LEMMA EnumEndsKeeps ==
  ASSUME StartupInv, NEW t \in Thread, UNCHANGED <<changes, sessions>>, EnumEnds(t)
  PROVE  StartupInv'
<1>1. /\ thread[t] \in Threads /\ Placed(thread[t]) /\ registry \in [Key -> Seq(Val)]
      /\ running \subseteq Thread \X Val /\ executed \subseteq Val /\ disturbed \in BOOLEAN
      /\ disturbed \/ Relies(thread[t], registry, executed)
  BY ThreadFacts
<1> PICK o : o = thread[t]
  OBVIOUS
<1> PICK s : s = registry[Plan[o.n].key]
  OBVIOUS
<1>2. /\ UNCHANGED <<registry, running, executed, lost>> /\ o.at = "enum" /\ o.at \in Reading
      /\ disturbed' \in BOOLEAN /\ (disturbed => disturbed') /\ s = Values(t)
      /\ Plan[o.n].delete /\ o.i < Len(s) => disturbed'
  BY <1>1 DEF EnumEnds, At, Values, Step, Reading
<1>3. /\ Plan[o.n].key \in Key /\ s \in Seq(Val) /\ Len(s) \in Nat /\ DOMAIN s = 1..Len(s)
      /\ o.i \in Nat
  <2>1. Plan[o.n].key \in Key
    BY <1>1, <1>2 DEF Placed
  <2>2. s \in Seq(Val) /\ o.i \in Nat
    BY <1>1, <2>1 DEF Threads
  <2> QED
    BY <2>1, <2>2, LenProperties
<1>4. CASE Proceed(t)
  BY <1>2, <1>4, Proceeds
<1>5. CASE Plan[o.n].delete /\ thread' = GoesTo(t, "delete")
  <2> PICK x : x = [o EXCEPT !.at = "delete"]
    OBVIOUS
  <2>1. x \in Threads /\ x.n = o.n /\ x.at = "delete"
    BY <1>1 DEF Threads
  <2>2. Placed(x)
    BY <1>1, <1>2, <1>3, <1>5, <2>1 DEF Placed, Reading, Deleting
  <2>3. thread' = [thread EXCEPT ![t] = x]
    BY <1>5 DEF GoesTo
  <2>4. ASSUME ~disturbed' PROVE Handled(s, Len(s), executed')
    <3>1. Handled(s, o.i, executed) /\ Len(s) <= o.i
      BY <1>1, <1>2, <1>3, <1>5, <2>4 DEF Relies
    <3> QED
      BY <1>2, <1>3, <3>1 DEF Handled
  <2>5. disturbed' \/ Relies(x, registry, executed')
    BY <2>1, <2>4 DEF Relies, Reading, Deleting
  <2> QED
    BY <1>1, <1>2, <2>1, <2>2, <2>3, <2>5, ThreadGoesOn
<1> QED
  BY <1>4, <1>5 DEF EnumEnds, Step

\* A folder, or the deletion of a key's values, goes on or ends.
LEMMA WalkKeeps ==
  ASSUME StartupInv, NEW t \in Thread, UNCHANGED <<changes, sessions>>,
         DeleteFirst(t) \/ DeleteEnds(t) \/ ShellExecute(t) \/ FolderEnds(t)
  PROVE  StartupInv'
<1>1. /\ thread[t] \in Threads /\ Placed(thread[t]) /\ registry \in [Key -> Seq(Val)]
      /\ running \subseteq Thread \X Val /\ executed \subseteq Val /\ disturbed \in BOOLEAN
      /\ disturbed \/ Relies(thread[t], registry, executed)
  BY ThreadFacts
<1> PICK o : o = thread[t]
  OBVIOUS
<1>2. UNCHANGED <<registry, running, executed, lost, disturbed, changes, sessions>>
  BY DEF DeleteFirst, DeleteEnds, ShellExecute, FolderEnds
<1>3. CASE Proceed(t)
  BY <1>1, <1>2, <1>3, Proceeds
<1>4. CASE DeleteFirst(t)
  <2> PICK v : v = Head(Values(t))
    OBVIOUS
  <2>1. o.at = "delete" /\ Values(t) # <<>> /\ Deletable(v) /\ o.at \in Deleting
    BY <1>4 DEF DeleteFirst, At, Deleting
  <2>2. Plan[o.n].key \in Key /\ Values(t) = registry[Plan[o.n].key]
    BY <1>1, <2>1 DEF Placed, Values, Step
  <2>3. v \in Val
    BY <1>1, <2>1, <2>2, HeadTailProperties
  <2> PICK x : x = [o EXCEPT !.at = "remove", !.v = v]
    OBVIOUS
  <2>4. x \in Threads /\ x.n = o.n /\ x.at = "remove" /\ x.v = v /\ x.at \in Deleting
    BY <1>1, <2>3 DEF Threads, Deleting
  <2>5. Placed(x)
    BY <1>1, <2>1, <2>2, <2>3, <2>4 DEF Placed, Reading, Deleting
  <2>6. disturbed \/ Relies(x, registry, executed)
    BY <1>1, <2>1, <2>4 DEF Relies, Reading, Deleting
  <2>7. thread' = [thread EXCEPT ![t] = x]
    BY <1>4 DEF DeleteFirst
  <2> QED
    BY <1>1, <1>2, <2>4, <2>5, <2>6, <2>7, ThreadGoesOn
<1>5. CASE ShellExecute(t)
  <2>1. PICK f \in o.todo : thread' = [thread EXCEPT ![t].todo = @ \ {f}]
    BY <1>5 DEF ShellExecute
  <2> PICK x : x = [o EXCEPT !.todo = o.todo \ {f}]
    OBVIOUS
  <2>2. x \in Threads /\ x.n = o.n /\ x.at = o.at /\ o.at = "files"
    BY <1>1, <1>5 DEF Threads, ShellExecute, At
  <2>3. Placed(x) /\ Relies(x, registry, executed)
    BY <1>1, <2>2 DEF Placed, Relies, Reading, Deleting
  <2>4. thread' = [thread EXCEPT ![t] = x]
    BY <2>1
  <2> QED
    BY <1>1, <1>2, <2>2, <2>3, <2>4, ThreadGoesOn
<1> QED
  BY <1>3, <1>4, <1>5 DEF DeleteEnds, FolderEnds

\* A value is deleted.  It was executed, like all that are left of its key, or
\* somebody has disturbed.
LEMMA DeleteKeeps ==
  ASSUME StartupInv, NEW t \in Thread, UNCHANGED <<changes, sessions>>, RegDeleteValue(t)
  PROVE  StartupInv'
<1>1. /\ thread[t] \in Threads /\ Placed(thread[t]) /\ registry \in [Key -> Seq(Val)]
      /\ thread \in [Thread -> Threads]
      /\ running \subseteq Thread \X Val /\ executed \subseteq Val /\ disturbed \in BOOLEAN
      /\ disturbed \/ Relies(thread[t], registry, executed)
  BY ThreadFacts
<1> PICK o : o = thread[t]
  OBVIOUS
<1> PICK key : key = Plan[o.n].key
  OBVIOUS
<1> PICK s : s = registry[key]
  OBVIOUS
<1> PICK u : u = WithoutValue(s, o.v)
  OBVIOUS
<1>2. /\ o.at = "remove" /\ o.at \in Deleting
      /\ thread' = [thread EXCEPT ![t].at = "delete"]
      /\ registry' = [registry EXCEPT ![key] = u]
      /\ lost' = IF o.v \in ValuesIn(s) \ executed THEN lost \cup {o.v} ELSE lost
      /\ UNCHANGED <<running, executed, disturbed, changes, sessions>>
  BY DEF RegDeleteValue, At, GoesTo, Values, Step, Deleting
<1>3. key \in Key /\ s \in Seq(Val) /\ Deletable(o.v) /\ o.v \in Val /\ Plan[o.n].delete
  BY <1>1, <1>2 DEF Placed
<1>4. u \in Seq(Val) /\ ValuesIn(u) \subseteq ValuesIn(s)
  BY <1>3, WithoutValueFacts
<1>5. registry' \in [Key -> Seq(Val)] /\ registry'[key] = u
      /\ \A k \in Key : k # key => registry'[k] = registry[k]
  BY <1>1, <1>2, <1>3, <1>4
<1> PICK x : x = [o EXCEPT !.at = "delete"]
  OBVIOUS
<1>6. x \in Threads /\ x.n = o.n /\ x.at = "delete" /\ x.v = o.v /\ x.at \in Deleting
  BY <1>1 DEF Threads, Deleting
<1>7. /\ thread' \in [Thread -> Threads]
      /\ \A w \in Thread : thread'[w] = IF w = t THEN x ELSE thread[w]
  BY <1>1, <1>2, <1>6
<1>8. Placed(x)
  BY <1>1, <1>2, <1>3, <1>6 DEF Placed, Reading, Deleting
<1>9. \A w \in Thread : Placed(thread'[w])
  BY <1>7, <1>8 DEF StartupInv
<1>10. disturbed \/ Handled(s, Len(s), executed)
  BY <1>1, <1>2 DEF Relies
<1>11. disturbed \/ o.v \notin ValuesIn(s) \ executed
  <2>1. DOMAIN s = 1..Len(s) /\ Len(s) \in Nat
    BY <1>3, LenProperties
  <2>2. ASSUME ~disturbed, o.v \in ValuesIn(s) PROVE o.v \in executed
    <3>1. PICK k \in DOMAIN s : s[k] = o.v
      BY <2>2 DEF ValuesIn
    <3>2. Deletable(s[k]) /\ k <= Len(s)
      BY <1>3, <2>1, <3>1
    <3>3. s[k] \in executed
      BY <1>10, <2>2, <3>2 DEF Handled
    <3> QED
      BY <3>1, <3>3
  <2> QED
    BY <1>1, <2>2
<1>12. lost' \subseteq Val /\ NothingLost'
  BY <1>2, <1>3, <1>11 DEF StartupInv, StartupTypeOK, NothingLost
<1>13. StartupTypeOK'
  BY <1>2, <1>5, <1>7, <1>12 DEF StartupInv, StartupTypeOK, Threads
<1>14. ASSUME ~disturbed', NEW w \in Thread
       PROVE  Relies(thread'[w], registry', executed')
  <2>1. \A m : Handled(u, m, executed)
    BY <1>2, <1>3, <1>4, <1>10, <1>14, AllHandled
  <2>2. CASE w = t
    BY <1>2, <1>5, <1>6, <1>7, <2>1, <2>2 DEF Relies
  <2>3. CASE w # t /\ Plan[thread[w].n].key = key
    BY <1>2, <1>5, <1>7, <2>1, <2>3 DEF Relies
  <2>4. CASE w # t /\ Plan[thread[w].n].key # key
    <3>1. Relies(thread[w], registry, executed) /\ Placed(thread[w])
      BY <1>2, <1>14 DEF StartupInv
    <3>2. thread[w].at \in Reading \cup Deleting => Plan[thread[w].n].key \in Key
      BY <3>1 DEF Placed
    <3> QED
      BY <1>2, <1>5, <1>7, <2>4, <3>1, <3>2 DEF Relies
  <2> QED
    BY <2>2, <2>3, <2>4
<1> QED
  BY <1>9, <1>12, <1>13, <1>14 DEF StartupInv

-----------------------------------------------------------------------------
(* The steps of the others                                                 *)

\* Whoever else changes a key in which all threads rely on what they have seen
\* disturbs them.
LEMMA OthersKeep ==
  ASSUME StartupInv, NEW key \in Key, NEW u \in Seq(Val), registry' = [registry EXCEPT ![key] = u],
         disturbed' = (disturbed \/ Busy(key)), executed' \subseteq Val,
         \A k \in Key \ {key} : \A w \in ValuesIn(registry[k]) : w \in executed => w \in executed',
         UNCHANGED <<thread, running, lost, sessions>>, changes' \in 0..MaxChanges
  PROVE  StartupInv'
<1>1. /\ StartupTypeOK /\ thread \in [Thread -> Threads] /\ registry \in [Key -> Seq(Val)]
      /\ disturbed \in BOOLEAN
      /\ \A t \in Thread : Placed(thread[t])
      /\ NothingLost
      /\ disturbed \/ \A t \in Thread : Relies(thread[t], registry, executed)
  BY DEF StartupInv, StartupTypeOK, Threads
<1>2. /\ registry' \in [Key -> Seq(Val)] /\ disturbed' \in BOOLEAN
      /\ \A k \in Key : k # key => registry'[k] = registry[k]
  BY <1>1
<1>3. StartupTypeOK'
  BY <1>1, <1>2 DEF StartupTypeOK
<1>4. ASSUME ~disturbed', NEW t \in Thread
      PROVE  Relies(thread[t], registry', executed')
  <2>1. CASE thread[t].at \notin Reading \cup Deleting
    BY <2>1 DEF Relies
  <2>2. CASE thread[t].at \in Reading \cup Deleting
    <3> PICK k : k = Plan[thread[t].n].key
      OBVIOUS
    <3>1. k \in Key /\ k # key
      <4>1. k \in Key
        BY <1>1, <2>2 DEF Placed
      <4>2. ~Busy(key)
        BY <1>4
      <4>3. thread[t].at \in {"enum", "wait", "delete", "remove"}
        BY <2>2 DEF Reading, Deleting
      <4> QED
        BY <4>1, <4>2, <4>3 DEF Busy, Step
    <3>2. Relies(thread[t], registry, executed) /\ registry'[k] = registry[k]
      BY <1>1, <1>2, <1>4, <3>1
    <3>3. \A m : Handled(registry[k], m, executed) => Handled(registry[k], m, executed')
      BY <3>1 DEF Handled, ValuesIn
    <3> QED
      BY <3>2, <3>3 DEF Relies
  <2> QED
    BY <2>1, <2>2
<1> QED
  BY <1>1, <1>3, <1>4 DEF StartupInv, NothingLost

\* Another program puts a value into a key.
LEMMA PutKeeps ==
  ASSUME StartupInv, NEW key \in Key, NEW v \in Val, Put(key, v)
  PROVE  StartupInv'
<1>1. /\ registry \in [Key -> Seq(Val)] /\ executed \subseteq Val /\ changes \in 0..MaxChanges
      /\ MaxChanges \in Nat
  BY BoundAssumption DEF StartupInv, StartupTypeOK
<1>2. PICK i \in 0..Len(registry[key]) :
        registry' = [registry EXCEPT ![key] = SubSeq(@, 1, i) \o <<v>> \o SubSeq(@, i + 1, Len(@))]
  BY DEF Put
<1> PICK s : s = registry[key]
  OBVIOUS
<1> PICK u : u = SubSeq(s, 1, i) \o <<v>> \o SubSeq(s, i + 1, Len(s))
  OBVIOUS
<1>3. s \in Seq(Val) /\ i \in 0..Len(s)
  BY <1>1
<1>4. u \in Seq(Val)
  BY <1>3, PutFacts
<1>5. /\ \A k \in Key : v \notin ValuesIn(registry[k])
      /\ executed' = executed \ {v} /\ changes < MaxChanges /\ changes' = changes + 1
      /\ disturbed' = (disturbed \/ Busy(key))
      /\ UNCHANGED <<thread, running, lost, sessions>>
  BY DEF Put
<1>6. /\ executed' \subseteq Val /\ changes' \in 0..MaxChanges
      /\ \A k \in Key \ {key} : \A w \in ValuesIn(registry[k]) : w \in executed => w \in executed'
  BY <1>1, <1>5
<1>7. registry' = [registry EXCEPT ![key] = u]
  BY <1>2
<1> QED
  BY <1>4, <1>5, <1>6, <1>7, OthersKeep

\* Another program removes a value.
LEMMA RemoveKeeps ==
  ASSUME StartupInv, NEW key \in Key, NEW v \in Val, Remove(key, v)
  PROVE  StartupInv'
<1>1. /\ registry \in [Key -> Seq(Val)] /\ executed \subseteq Val /\ changes \in 0..MaxChanges
      /\ MaxChanges \in Nat
  BY BoundAssumption DEF StartupInv, StartupTypeOK
<1> PICK u : u = WithoutValue(registry[key], v)
  OBVIOUS
<1>2. /\ registry' = [registry EXCEPT ![key] = u] /\ u \in Seq(Val)
      /\ disturbed' = (disturbed \/ Busy(key))
      /\ UNCHANGED <<thread, running, executed, lost, sessions>>
  BY <1>1, WithoutValueFacts DEF Remove
<1>3. changes' \in 0..MaxChanges
  BY <1>1 DEF Remove
<1>4. \A k \in Key \ {key} : \A w \in ValuesIn(registry[k]) : w \in executed => w \in executed'
  BY <1>2
<1> QED
  BY <1>1, <1>2, <1>3, <1>4, OthersKeep

\* cereja ends, and its threads with it.
LEMMA ThreadEndKeeps ==
  ASSUME StartupInv, SessionEnds
  PROVE  StartupInv'
<1>1. /\ StartupTypeOK /\ sessions \in 0..MaxSessions /\ MaxSessions \in Nat
      /\ UNCHANGED <<registry, executed, lost, disturbed, changes>>
      /\ running' = {} /\ thread' = [t \in Thread |-> Idle] /\ NothingLost
  BY BoundAssumption DEF StartupInv, StartupTypeOK, SessionEnds
<1>2. sessions' \in 0..MaxSessions
  BY <1>1 DEF SessionEnds
<1>3. Idle \in Threads /\ Idle.at = "idle"
  BY PlanFacts DEF Idle, Threads
<1>4. StartupTypeOK'
  BY <1>1, <1>2, <1>3 DEF StartupTypeOK, Threads
<1>5. \A t \in Thread : Placed(thread'[t]) /\ Relies(thread'[t], registry', executed')
  BY <1>1, <1>3 DEF Placed, Relies, Reading, Deleting
<1> QED
  BY <1>1, <1>4, <1>5 DEF StartupInv, NothingLost

\* Every step keeps the invariant.
LEMMA StartupInvNext ==
  ASSUME StartupInv, [StartupNext]_startup_vars
  PROVE  StartupInv'
<1>1. CASE UNCHANGED startup_vars
  BY <1>1 DEF startup_vars, StartupInv, StartupTypeOK, NothingLost
<1>2. ASSUME NEW t \in Thread, ThreadStep(t) PROVE StartupInv'
  BY <1>2, OpenKeeps, ReadingKeeps, EnumEndsKeeps, WalkKeeps, DeleteKeeps DEF ThreadStep
<1>3. ASSUME NEW t \in Thread, run_startup_programs(t), UNCHANGED <<changes, sessions>>
      PROVE  StartupInv'
  BY <1>3, OpenKeeps
<1>4. CASE ProgramEnds
  <2>1. UNCHANGED <<registry, thread, executed, lost, disturbed, changes, sessions>>
        /\ running' \subseteq running
    BY <1>4 DEF ProgramEnds
  <2>2. StartupTypeOK'
    BY <2>1 DEF StartupInv, StartupTypeOK
  <2> QED
    BY <2>1, <2>2 DEF StartupInv, NothingLost
<1>5. ASSUME NEW key \in {"LM_RunOnce", "CU_RunOnce"}, NEW v \in Val, Put(key, v) \/ Remove(key, v)
      PROVE  StartupInv'
  <2>1. key \in Key
    BY DEF Key
  <2> QED
    BY <1>5, <2>1, PutKeeps, RemoveKeeps
<1> QED
  BY <1>1, <1>2, <1>3, <1>4, <1>5, ThreadEndKeeps DEF StartupNext

-----------------------------------------------------------------------------
(* The theorems                                                            *)

\* The invariant of the startup programs.
THEOREM StartupInvariance == StartupSpec => []StartupInv
<1>1. StartupInit => StartupInv
  <2> SUFFICES ASSUME StartupInit PROVE StartupInv
    OBVIOUS
  <2>1. Idle \in Threads /\ Idle.at = "idle"
    BY PlanFacts DEF Idle, Threads
  <2>2. StartupTypeOK
    <3>1. registry \in [Key -> Seq(Val)]
      BY ValAssumption DEF StartupInit
    <3>2. thread \in [Thread -> Threads]
      BY <2>1 DEF StartupInit
    <3>3. changes \in 0..MaxChanges /\ sessions \in 0..MaxSessions
      BY BoundAssumption DEF StartupInit
    <3> QED
      BY <3>1, <3>2, <3>3 DEF StartupInit, StartupTypeOK, Threads
  <2>3. \A t \in Thread : Placed(thread[t]) /\ Relies(thread[t], registry, executed)
    BY <2>1 DEF StartupInit, Placed, Relies, Reading, Deleting
  <2> QED
    BY <2>2, <2>3 DEF StartupInit, StartupInv, NothingLost
<1>2. StartupInv /\ [StartupNext]_startup_vars => StartupInv'
  BY StartupInvNext
<1> QED
  BY <1>1, <1>2, PTL DEF StartupSpec

\* No value of a RunOnce key is deleted before it was executed, by however many
\* threads and whenever cereja ends, if nobody else changes a key at which a
\* thread is and all values can be read.
THEOREM NothingIsLost == StartupSpec => []NothingLost
<1>1. StartupInv => NothingLost
  BY DEF StartupInv
<1> QED
  BY <1>1, StartupInvariance, PTL
=============================================================================
