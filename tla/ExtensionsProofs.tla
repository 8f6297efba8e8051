-------------------------- MODULE ExtensionsProofs --------------------------
(***************************************************************************)
(* Proofs about Extensions: what has been loaded is there, the hook of     *)
(* shell.tray is its own, and the order of unloading is harmless, for      *)
(* every set of modules, whatever they need, and every depth.              *)
(***************************************************************************)
EXTENDS Extensions, SequenceTheorems, FiniteSetTheorems, WellFoundedInduction, TLAPS

Frame == [mod : Mod, chunk : BOOLEAN, i : Nat, at : Place]

\* Where the loading of an extension has begun and not ended.
Loadings == {"loading", "hook", "com"}

-----------------------------------------------------------------------------
(* The invariant                                                           *)

\* The hook exists while shell.tray runs besides the Explorer it was set for, and
\* its handle is in the shared section; what refuses a hook clears the handle.
HookInv ==
  /\ HookIsOurs
  /\ hooked => g_HHook
  /\ refusals > 0 => ~g_HHook

\* Nothing is left of a process that has ended.
OffInv ==
  state = "off" =>
    /\ stack = <<>> /\ up = {} /\ ~box /\ memory = "ok"
    /\ package_loaded = [m \in Mod |-> "nil"]
    /\ loaded_extensions = [m \in Mod |-> "nil"]

\* Only a chunk that requires and a frame that lets messages in have others above.
Beneath == \A k \in 1..Len(stack) - 1 : stack[k].at \in {"needs", "box", "com"}

\* What a frame at each place means.
Placing ==
  \A k \in DOMAIN stack :
    /\ stack[k].at \in {"needs", "box", "own", "rest"} => stack[k].chunk
    /\ stack[k].at \in Loadings => loaded_extensions[stack[k].mod] = "true"
    /\ stack[k].at \in {"loading", "hook"} => stack[k].mod \notin up
    /\ stack[k].at = "hook" => stack[k].mod = tray /\ another
    /\ stack[k].at = "com" => stack[k].mod = tray /\ tray \in up

\* The placeholder of an extension stands for one call.
OneLoading ==
  /\ \A j, k \in DOMAIN stack :
       /\ stack[j].at \in Loadings /\ stack[k].at \in Loadings
       /\ stack[j].mod = stack[k].mod
       => j = k
  /\ \A m \in Mod :
       loaded_extensions[m] = "true"
         => \E k \in DOMAIN stack : stack[k].mod = m /\ stack[k].at \in Loadings

\* The table of extensions knows what is up.
Registered ==
  \A m \in Mod : /\ loaded_extensions[m] = "hmodule" => m \in up
                 /\ m \in up => loaded_extensions[m] # "nil"

LoadInv == Beneath /\ Placing /\ OneLoading /\ Registered

RunningInv == state = "running" => LoadInv /\ ~box /\ memory = "ok"

\* Everything that is up has still to be unloaded; the message box of a failed
\* unloading is open only if the Explorer that was hooked has ended.
UnloadingInv ==
  state = "unloading" =>
    /\ up \subseteq pending
    /\ \A m \in pending : loaded_extensions[m] = "hmodule" => m \in up
    /\ box \/ memory = "corrupt" => another /\ ~same

ExtensionsInv ==
  TypeOK /\ HookInv /\ OffInv /\ RunningInv /\ UnloadingInv

-----------------------------------------------------------------------------
(* What a module that has been required can rely on                        *)

\* A module that others need calls module() when it has loaded its extension, or
\* never; or if it calls module() first, it needs nothing and shows no message box:
\* as shell.tray, and as ui.key and ui.monitor do.
NeedsAreSimple ==
  \A m \in Mod : \A j \in DOMAIN Needs[m] :
    LET n == Needs[m][j]
    IN  ModuleCall[n] = "first" => Needs[n] = <<>> /\ n \notin Chatty

\* A chunk that has others above it while it requires needs one.
Waiting ==
  \A k \in 1..Len(stack) - 1 : stack[k].at = "needs" => Needs[stack[k].mod] # <<>>

\* A module in package.loaded has its extension, unless its chunk is still on its
\* way there: a module that calls module() first from its beginning, the others only
\* while they load the extension.
Partial(m) ==
  IF ModuleCall[m] = "first" THEN {"needs", "box", "own", "loading", "hook"}
  ELSE {"loading", "hook"}

ChunksAt(m, places) ==
  {k \in DOMAIN stack : stack[k].chunk /\ stack[k].mod = m /\ stack[k].at \in places}

ReliableIs(m) ==
  package_loaded[m] = "module" =>
    /\ ChunksAt(m, Partial(m)) = {} => m \in up
    /\ ChunksAt(m, Place) = {} => \A j \in DOMAIN Needs[m] : Needs[m][j] \in up

Reliable == \A m \in Mod : ReliableIs(m)

\* A chunk goes on when what it needs is up, and ends when its own extension is.
OnItsWay(f) ==
  /\ f.i <= Len(Needs[f.mod])
  /\ f.chunk => \A j \in 1..f.i : Needs[f.mod][j] \in up
  /\ f.chunk /\ f.at # "needs" => f.i = Len(Needs[f.mod])
  /\ f.at = "box" => f.mod \in Chatty
  /\ f.at = "rest" => f.mod \in up

Progress == \A k \in DOMAIN stack : OnItsWay(stack[k])

Works == Waiting /\ Reliable /\ Progress

WorkInv == state = "running" => Works

-----------------------------------------------------------------------------
(* Stacks                                                                  *)

\* The place of the top frame, or how much of what it needs it has, changes.
LEMMA TopChanges ==
  ASSUME NEW s \in Seq(Frame), s # <<>>, NEW f \in Frame, NEW t,
         t = [s EXCEPT ![Len(s)] = f]
  PROVE  /\ Len(s) \in Nat \ {0} /\ s[Len(s)] \in Frame
         /\ t \in Seq(Frame) /\ Len(t) = Len(s)
         /\ t[Len(s)] = f
         /\ \A k \in 1..Len(s) - 1 : t[k] = s[k]
<1>1. Len(s) \in Nat \ {0} /\ s[Len(s)] \in Frame
  BY EmptySeq, LenProperties, ElementOfSeq
<1>2. Len(s) \in 1..Len(s)
  BY <1>1
<1>3. /\ t \in Seq(Frame) /\ Len(t) = Len(s)
      /\ \A j \in 1..Len(s) : t[j] = IF j = Len(s) THEN f ELSE s[j]
  <2> DEFINE i == Len(s)
  <2>1. i \in 1..Len(s)
    BY <1>2
  <2> HIDE DEF i
  <2>2. /\ [s EXCEPT ![i] = f] \in Seq(Frame)
        /\ Len([s EXCEPT ![i] = f]) = Len(s)
        /\ \A j \in 1..Len(s) : [s EXCEPT ![i] = f][j] = IF j = i THEN f ELSE s[j]
    BY <2>1, ExceptSeq
  <2> QED
    BY <2>2 DEF i
<1>4. \A k \in 1..Len(s) - 1 : k \in 1..Len(s) /\ k # Len(s)
  BY <1>1
<1>5. t[Len(s)] = f
  BY <1>2, <1>3
<1>6. \A k \in 1..Len(s) - 1 : t[k] = s[k]
  BY <1>3, <1>4
<1> QED
  BY <1>1, <1>3, <1>5, <1>6, Zenon

\* A frame goes on top.
LEMMA Pushed ==
  ASSUME NEW s \in Seq(Frame), NEW f \in Frame, NEW t, t = Append(s, f)
  PROVE  /\ Len(s) \in Nat
         /\ t \in Seq(Frame) /\ Len(t) = Len(s) + 1
         /\ t[Len(s) + 1] = f
         /\ \A k \in 1..Len(s) : t[k] = s[k]
BY AppendProperties, LenProperties

\* Only the lower frames stay.
LEMMA Cut ==
  ASSUME NEW s \in Seq(Frame), NEW n \in 0..Len(s), NEW t, t = SubSeq(s, 1, n)
  PROVE  /\ Len(s) \in Nat
         /\ t \in Seq(Frame) /\ Len(t) = n
         /\ \A k \in 1..n : t[k] = s[k]
<1>1. Len(s) \in Nat
  BY LenProperties
<1>2. \A k \in 1..n : s[k] \in Frame
  BY <1>1, ElementOfSeq
<1>3. t \in Seq(Frame) /\ Len(t) = n /\ \A k \in 1..n : t[k] = s[1 + k - 1]
  BY <1>1, <1>2, SubSeqProperties
<1> QED
  BY <1>1, <1>3

\* A set of natural numbers below a bound has a greatest element.
LEMMA Greatest ==
  ASSUME NEW n \in Nat, NEW S \in SUBSET (0..n), S # {}
  PROVE  \E x \in S : \A y \in S : x >= y
<1> DEFINE T == {n - x : x \in S}
           R == {ss \in Nat \X Nat : ss[1] < ss[2]}
<1>1. T \subseteq Nat /\ T # {}
  <2>1. \A x \in S : x \in Int /\ 0 <= x /\ x <= n
    OBVIOUS
  <2>2. \A x \in S : n - x \in Nat
    BY <2>1
  <2> QED
    BY <2>2
<1>2. IsWellFoundedOn(R, Nat)
  <2>1. R = OpToRel(<, Nat)
    BY Zenon DEF OpToRel
  <2> QED
    BY Zenon, <2>1, NatLessThanWellFounded
<1>3. PICK m \in T : \A y \in T : ~ (<<y, m>> \in R)
  BY <1>1, <1>2, WFMin, Zenon
<1>4. \A y \in T : ~ (y < m)
  BY <1>1, <1>3
<1>5. PICK x \in S : m = n - x
  BY <1>3
<1>6. \A y \in S : n - y \in T
  OBVIOUS
<1> HIDE DEF T, R
<1>7. \A y \in S : ~ (n - y < n - x)
  BY <1>4, <1>5, <1>6
<1>8. \A y \in S : y \in Int
  OBVIOUS
<1> QED
  BY <1>7, <1>8

\* An error keeps the frames up to the highest one below the top that lets messages
\* in.
LEMMA KeptFrames ==
  ASSUME stack \in Seq(Frame), stack # <<>>
  PROVE  /\ Len(stack) \in Nat \ {0}
         /\ Kept \in 0..Len(stack) - 1
         /\ \A k \in 1..Len(stack) - 1 : Pumping(stack[k]) => k <= Kept
<1> DEFINE S == {0} \cup {k \in 1..Len(stack) - 1 : Pumping(stack[k])}
<1>1. Len(stack) \in Nat \ {0}
  BY EmptySeq, LenProperties
<1>2. S \in SUBSET (0..Len(stack) - 1) /\ S # {}
  BY <1>1
<1> HIDE DEF S
<1>3. \E x \in S : \A y \in S : x >= y
  <2>1. Len(stack) - 1 \in Nat
    BY <1>1
  <2> QED
    BY <1>2, <2>1, Greatest, Zenon
<1> USE DEF S
<1>4. Max(S) \in S /\ \A y \in S : Max(S) >= y
  BY <1>3 DEF Max
<1>5. Kept = Max(S)
  BY DEF Kept
<1> QED
  BY <1>1, <1>2, <1>4, <1>5

-----------------------------------------------------------------------------
(* Types                                                                   *)

\* What TypeOK says of the stack, in terms of frames.
LEMMA Typed ==
  ASSUME TypeOK
  PROVE  /\ stack \in Seq(Frame) /\ DOMAIN stack = 1..Len(stack) /\ Len(stack) \in Nat
         /\ \A k \in 1..Len(stack) : stack[k] \in Frame
         /\ stack # <<>> => /\ Len(stack) \in 1..Len(stack)
                            /\ Top \in Frame /\ Top = stack[Len(stack)]
<1>1. stack \in Seq(Frame)
  BY DEF TypeOK, Frame
<1>2. DOMAIN stack = 1..Len(stack) /\ Len(stack) \in Nat
  BY <1>1, LenProperties
<1>3. \A k \in 1..Len(stack) : stack[k] \in Frame
  BY <1>1, ElementOfSeq
<1>4. stack # <<>> => Len(stack) # 0
  BY <1>1, EmptySeq
<1> QED
  BY <1>1, <1>2, <1>3, <1>4 DEF Top

\* The top frame goes to another place.
LEMMA Goes ==
  ASSUME TypeOK, stack # <<>>, NEW place \in Place, NEW t, t = Goto(place)
  PROVE  /\ t \in Seq(Frame) /\ Len(t) = Len(stack)
         /\ t[Len(stack)] = [Top EXCEPT !.at = place]
         /\ \A k \in 1..Len(stack) - 1 : t[k] = stack[k]
<1>1. stack \in Seq(Frame) /\ Top \in Frame /\ Top = stack[Len(stack)]
  BY Typed
<1>2. [Top EXCEPT !.at = place] \in Frame
  BY <1>1 DEF Frame
<1>3. t = [stack EXCEPT ![Len(stack)] = [Top EXCEPT !.at = place]]
  BY <1>1 DEF Goto
<1> QED
  BY <1>1, <1>2, <1>3, TopChanges

-----------------------------------------------------------------------------
(* What keeps the invariant while modules are loaded                       *)

\* The invariant of the stack after a step, from what the step has done to it: the
\* lower frames stay, the top frame f is new, or has changed.
LEMMA NewTop ==
  ASSUME TypeOK, LoadInv,
         stack' \in Seq(Frame), Len(stack') \in Nat \ {0},
         NEW f \in Frame, stack'[Len(stack')] = f,
         Len(stack') - 1 <= Len(stack),
         \A k \in 1..Len(stack') - 1 : stack'[k] = stack[k],
         stack # <<>> /\ Len(stack') = Len(stack) + 1 => Top.at \in {"needs", "box", "com"}
  PROVE  Beneath'
<1> QED
  BY Typed DEF Beneath, LoadInv

\* The indices of a stack that has grown by one frame, or whose top has changed.
LEMMA Indices ==
  ASSUME NEW n \in Nat, NEW o \in Nat, n = o + 1 \/ n = o, n # 0
  PROVE  /\ \A k \in 1..n : k # n => k \in 1..o /\ k \in 1..n - 1
         /\ \A k \in 1..o : k = n \/ k \in 1..n - 1
         /\ \A k \in 1..o : k \in 1..n
         /\ n \in 1..n
         /\ n = o + 1 => \A k \in 1..o : k # n
OBVIOUS

\* How the frames of such a stack correspond to those before.
LEMMA Frames1 ==
  ASSUME TypeOK,
         stack' \in Seq(Frame), Len(stack') \in Nat \ {0},
         \A k \in 1..Len(stack') - 1 : stack'[k] = stack[k],
         Len(stack') = Len(stack) + 1 \/ Len(stack') = Len(stack)
  PROVE  /\ DOMAIN stack' = 1..Len(stack') /\ Len(stack') \in DOMAIN stack'
         /\ \A k \in DOMAIN stack' : k # Len(stack') =>
              k \in DOMAIN stack /\ stack'[k] = stack[k] /\ stack[k] \in Frame
         /\ \A k \in DOMAIN stack : k \in DOMAIN stack' /\ stack[k] \in Frame
         /\ \A k \in DOMAIN stack : k = Len(stack') \/ stack'[k] = stack[k]
         /\ Len(stack') = Len(stack) + 1 =>
              \A k \in DOMAIN stack : k # Len(stack')
<1>1. /\ DOMAIN stack = 1..Len(stack) /\ Len(stack) \in Nat
      /\ \A k \in 1..Len(stack) : stack[k] \in Frame
  BY Typed
<1>2. DOMAIN stack' = 1..Len(stack')
  BY LenProperties
<1> DEFINE n == Len(stack')
           o == Len(stack)
<1>3. n \in Nat /\ o \in Nat /\ (n = o + 1 \/ n = o) /\ n # 0
  BY <1>1
<1> HIDE DEF n, o
<1>4. /\ \A k \in 1..n : k # n => k \in 1..o /\ k \in 1..n - 1
      /\ \A k \in 1..o : k = n \/ k \in 1..n - 1
      /\ \A k \in 1..o : k \in 1..n
      /\ n \in 1..n
      /\ n = o + 1 => \A k \in 1..o : k # n
  BY <1>3, Indices
<1> USE DEF n, o
<1> QED
  BY <1>1, <1>2, <1>4, Zenon

\* A frame comes, or the top frame goes, to a place outside of the loading of an
\* extension.
LEMMA QuietTop ==
  ASSUME TypeOK, LoadInv,
         stack' \in Seq(Frame), Len(stack') \in Nat \ {0},
         NEW f \in Frame, f.at \in {"needs", "box", "own", "rest"}, f.chunk,
         stack'[Len(stack')] = f,
         \A k \in 1..Len(stack') - 1 : stack'[k] = stack[k],
         \/ /\ Len(stack') = Len(stack) + 1
            /\ stack # <<>> => Top.at \in {"needs", "box", "com"}
         \/ /\ Len(stack') = Len(stack)
            /\ stack # <<>> /\ Top.at \notin Loadings,
         UNCHANGED <<loaded_extensions, up, another>>
  PROVE  LoadInv'
<1>1. /\ Len(stack) \in Nat
      /\ stack # <<>> => Len(stack) \in DOMAIN stack /\ Top = stack[Len(stack)]
  BY Typed
<1>2. Beneath'
  BY <1>1, NewTop
<1>3. /\ Len(stack') \in DOMAIN stack'
      /\ \A k \in DOMAIN stack' : k # Len(stack') =>
           k \in DOMAIN stack /\ stack'[k] = stack[k]
      /\ \A k \in DOMAIN stack : k \in DOMAIN stack'
      /\ \A k \in DOMAIN stack : k = Len(stack') \/ stack'[k] = stack[k]
      /\ Len(stack') = Len(stack) + 1 => \A k \in DOMAIN stack : k # Len(stack')
  BY Frames1
<1>4. Placing'
  BY <1>3 DEF LoadInv, Placing, Loadings
<1>5. \A k \in DOMAIN stack' :
        stack'[k].at \in Loadings => k \in DOMAIN stack /\ stack'[k] = stack[k]
  BY <1>3 DEF Loadings
<1>6. \A k \in DOMAIN stack :
        stack[k].at \in Loadings => k \in DOMAIN stack' /\ stack'[k] = stack[k]
  BY <1>1, <1>3
<1>7. OneLoading'
  BY <1>5, <1>6 DEF LoadInv, OneLoading
<1>8. Registered'
  BY DEF LoadInv, Registered
<1> QED
  BY <1>2, <1>4, <1>7, <1>8 DEF LoadInv

\* The loading of an extension that is neither loaded nor being loaded begins.
LEMMA LoadingTop ==
  ASSUME TypeOK, LoadInv,
         stack' \in Seq(Frame), Len(stack') \in Nat \ {0},
         NEW f \in Frame, f.at = "loading",
         stack'[Len(stack')] = f,
         \A k \in 1..Len(stack') - 1 : stack'[k] = stack[k],
         \/ /\ Len(stack') = Len(stack) + 1
            /\ stack # <<>> => Top.at \in {"needs", "box", "com"}
         \/ /\ Len(stack') = Len(stack)
            /\ stack # <<>> /\ Top.at \notin Loadings,
         loaded_extensions[f.mod] = "nil",
         loaded_extensions' = [loaded_extensions EXCEPT ![f.mod] = "true"],
         UNCHANGED <<up, another>>
  PROVE  LoadInv'
<1>1. /\ Len(stack) \in Nat
      /\ stack # <<>> => Len(stack) \in DOMAIN stack /\ Top = stack[Len(stack)]
  BY Typed
<1>2. Beneath'
  BY <1>1, NewTop
<1>3. /\ Len(stack') \in DOMAIN stack'
      /\ \A k \in DOMAIN stack' : k # Len(stack') =>
           k \in DOMAIN stack /\ stack'[k] = stack[k] /\ stack[k] \in Frame
      /\ \A k \in DOMAIN stack : k \in DOMAIN stack' /\ stack[k] \in Frame
      /\ \A k \in DOMAIN stack : k = Len(stack') \/ stack'[k] = stack[k]
      /\ Len(stack') = Len(stack) + 1 => \A k \in DOMAIN stack : k # Len(stack')
  BY Frames1
<1>4. /\ f.mod \in Mod /\ f.mod \notin up
      /\ \A m \in Mod : loaded_extensions'[m]
           = IF m = f.mod THEN "true" ELSE loaded_extensions[m]
  BY DEF TypeOK, Frame, LoadInv, Registered
<1>5. \A k \in DOMAIN stack :
        stack[k].at \in Loadings => k # Len(stack') /\ stack'[k] = stack[k]
  BY <1>1, <1>3
<1>6. \A k \in DOMAIN stack :
        stack[k].at \in Loadings => stack[k].mod \in Mod /\ stack[k].mod # f.mod
  BY <1>3 DEF LoadInv, Placing, Frame
<1>7. Placing'
  <2> SUFFICES ASSUME NEW k \in DOMAIN stack'
               PROVE  Placing!(k)'
    BY DEF Placing
  <2>1. CASE k = Len(stack')
    BY <1>4, <2>1
  <2>2. CASE k # Len(stack')
    <3>1. k \in DOMAIN stack /\ stack'[k] = stack[k] /\ stack[k].mod \in Mod
      BY <1>3, <2>2 DEF Frame
    <3>2. Placing!(k)
      BY <3>1 DEF LoadInv, Placing
    <3> QED
      BY <1>4, <3>1, <3>2
  <2> QED
    BY <2>1, <2>2
<1>8. OneLoading'
  <2>1. \A j, k \in DOMAIN stack' :
          /\ stack'[j].at \in Loadings /\ stack'[k].at \in Loadings
          /\ stack'[j].mod = stack'[k].mod
          => j = k
    BY <1>3, <1>6 DEF LoadInv, OneLoading
  <2>2. ASSUME NEW m \in Mod, loaded_extensions'[m] = "true"
        PROVE  \E k \in DOMAIN stack' : stack'[k].mod = m /\ stack'[k].at \in Loadings
    <3>1. CASE m = f.mod
      BY <1>3, <3>1 DEF Loadings
    <3>2. CASE m # f.mod
      <4>1. PICK k \in DOMAIN stack : stack[k].mod = m /\ stack[k].at \in Loadings
        BY <1>4, <2>2, <3>2 DEF LoadInv, OneLoading
      <4> QED
        BY <1>3, <1>5, <4>1
    <3> QED
      BY <3>1, <3>2
  <2> QED
    BY <2>1, <2>2 DEF OneLoading
<1>9. Registered'
  BY <1>4 DEF LoadInv, Registered
<1> QED
  BY <1>2, <1>7, <1>8, <1>9 DEF LoadInv

\* shell.tray has asked for another shell: it goes on to hook it, or is up.
LEMMA AskedTop ==
  ASSUME TypeOK, LoadInv, stack # <<>>, Top.at = "loading", Top.mod = tray,
         NEW place \in {"hook", "com"}, stack' = Goto(place),
         place = "hook" => another' /\ up' = up,
         place = "com" => up' = up \cup {tray},
         UNCHANGED loaded_extensions
  PROVE  LoadInv'
<1> DEFINE n == Len(stack)
<1>1. /\ n \in Nat /\ n # 0 /\ n \in DOMAIN stack /\ Top = stack[n] /\ Top \in Frame
      /\ \A k \in DOMAIN stack : stack[k] \in Frame
  BY Typed
<1>2. /\ stack' \in Seq(Frame) /\ Len(stack') = n
      /\ stack'[n] = [Top EXCEPT !.at = place]
      /\ \A k \in 1..n - 1 : stack'[k] = stack[k]
  <2>1. place \in Place
    BY DEF Place
  <2> QED
    BY <2>1, Goes
<1>3. /\ DOMAIN stack' = DOMAIN stack
      /\ \A k \in DOMAIN stack : k # n => stack'[k] = stack[k] /\ k \in 1..n - 1
  BY <1>1, <1>2, Typed, LenProperties
<1> HIDE DEF n
<1>4. /\ stack'[n].at = place /\ stack'[n].mod = tray /\ stack'[n].chunk = Top.chunk
  BY <1>1, <1>2 DEF Frame
<1>5. /\ loaded_extensions[tray] = "true" /\ tray \notin up
      /\ \A k \in DOMAIN stack : k # n => stack[k].at # "com" /\ stack[k].at \in {"needs", "box"}
  <2>1. Placing!(n)
    BY <1>1 DEF LoadInv, Placing
  <2>2. \A k \in DOMAIN stack : k # n => stack[k].at \in {"needs", "box", "com"}
    BY <1>3 DEF LoadInv, Beneath, n
  <2>3. \A k \in DOMAIN stack : stack[k].at = "com" => stack[k].mod = tray
    BY DEF LoadInv, Placing
  <2>4. \A k \in DOMAIN stack : k # n => stack[k].at # "com"
    BY <1>1, <2>3 DEF LoadInv, OneLoading, Loadings
  <2> QED
    BY <1>1, <2>1, <2>2, <2>4 DEF Loadings
<1>6. Beneath'
  BY <1>2, <1>3, <1>5 DEF LoadInv, Beneath, n
<1>7. Placing'
  BY <1>3, <1>4, <1>5 DEF LoadInv, Placing, Loadings
<1>8. \A k \in DOMAIN stack :
        /\ stack'[k].mod = stack[k].mod
        /\ stack'[k].at \in Loadings <=> stack[k].at \in Loadings
  BY <1>1, <1>3, <1>4 DEF Loadings
<1>9. OneLoading'
  BY <1>3, <1>8 DEF LoadInv, OneLoading
<1>10. Registered'
  BY <1>5 DEF LoadInv, Registered
<1> QED
  BY <1>6, <1>7, <1>9, <1>10 DEF LoadInv

\* The extension at the top is loaded, and its chunk goes on.
LEMMA LoadedTop ==
  ASSUME TypeOK, LoadInv, stack # <<>>, Top.at \in Loadings, Top.chunk,
         stack' = Goto("rest"),
         loaded_extensions' = [loaded_extensions EXCEPT ![Top.mod] = "hmodule"],
         up' = up \cup {Top.mod},
         UNCHANGED another
  PROVE  LoadInv'
<1> DEFINE n == Len(stack)
<1>1. /\ n \in Nat /\ n # 0 /\ n \in DOMAIN stack /\ Top = stack[n] /\ Top \in Frame
      /\ \A k \in DOMAIN stack : stack[k] \in Frame
  BY Typed
<1>2. /\ stack' \in Seq(Frame) /\ Len(stack') = n
      /\ stack'[n] = [Top EXCEPT !.at = "rest"]
      /\ \A k \in 1..n - 1 : stack'[k] = stack[k]
  <2>1. "rest" \in Place
    BY DEF Place
  <2> QED
    BY <2>1, Goes
<1>3. /\ DOMAIN stack' = DOMAIN stack
      /\ \A k \in DOMAIN stack : k # n => stack'[k] = stack[k] /\ k \in 1..n - 1
  BY <1>1, <1>2, Typed, LenProperties
<1> HIDE DEF n
<1>4. /\ stack'[n].at = "rest" /\ stack'[n].chunk
      /\ Top.mod \in Mod
      /\ \A m \in Mod : loaded_extensions'[m]
           = IF m = Top.mod THEN "hmodule" ELSE loaded_extensions[m]
  BY <1>1, <1>2 DEF Frame, TypeOK
<1>5. \A k \in DOMAIN stack : k # n =>
        /\ stack[k].at \in {"needs", "box", "com"}
        /\ stack[k].at \in Loadings => stack[k].mod # Top.mod
        /\ stack[k].mod \in Mod
  BY <1>1, <1>3 DEF LoadInv, Beneath, OneLoading, Frame, n
<1>6. Beneath'
  BY <1>2, <1>3, <1>5 DEF LoadInv, Beneath, n
<1>7. Placing'
  <2> SUFFICES ASSUME NEW k \in DOMAIN stack'
               PROVE  Placing!(k)'
    BY DEF Placing
  <2>1. CASE k = n
    BY <1>4, <2>1 DEF Loadings
  <2>2. CASE k # n
    <3>1. stack'[k] = stack[k] /\ Placing!(k)
      BY <1>3, <2>2 DEF LoadInv, Placing
    <3> QED
      BY <1>3, <1>4, <1>5, <2>2, <3>1 DEF Loadings
  <2> QED
    BY <2>1, <2>2
<1>8. OneLoading'
  <2>1. \A k \in DOMAIN stack :
          stack'[k].at \in Loadings => k # n /\ stack'[k] = stack[k]
    BY <1>3, <1>4 DEF Loadings
  <2>2. \A j, k \in DOMAIN stack' :
          /\ stack'[j].at \in Loadings /\ stack'[k].at \in Loadings
          /\ stack'[j].mod = stack'[k].mod
          => j = k
    BY <1>3, <2>1 DEF LoadInv, OneLoading
  <2>3. ASSUME NEW m \in Mod, loaded_extensions'[m] = "true"
        PROVE  \E k \in DOMAIN stack' : stack'[k].mod = m /\ stack'[k].at \in Loadings
    <3>1. m # Top.mod /\ loaded_extensions[m] = "true"
      BY <1>4, <2>3
    <3>2. PICK k \in DOMAIN stack : stack[k].mod = m /\ stack[k].at \in Loadings
      BY <3>1 DEF LoadInv, OneLoading
    <3> QED
      BY <1>1, <1>3, <3>1, <3>2
  <2> QED
    BY <2>2, <2>3 DEF OneLoading
<1>9. Registered'
  BY <1>4 DEF LoadInv, Registered
<1> QED
  BY <1>6, <1>7, <1>8, <1>9 DEF LoadInv

\* The top frame goes, and others that wait for it: not the ones that let messages
\* in.  If it was loading an extension, that is loaded now, or not loaded.
LEMMA Shorter ==
  ASSUME TypeOK, LoadInv, stack # <<>>,
         NEW n \in 0..Len(stack) - 1, stack' = SubSeq(stack, 1, n),
         \A k \in 1..Len(stack) - 1 : stack[k].at = "com" => k <= n,
         \A m \in Mod : ~(Top.at \in Loadings /\ m = Top.mod)
           => loaded_extensions'[m] = loaded_extensions[m],
         Top.at \in Loadings =>
           \/ loaded_extensions'[Top.mod] = "nil" /\ Top.mod \notin up'
           \/ loaded_extensions'[Top.mod] = "hmodule" /\ Top.mod \in up',
         up' = up \/ (Top.at \in Loadings /\ up' = up \cup {Top.mod}),
         UNCHANGED another
  PROVE  LoadInv'
<1> DEFINE o == Len(stack)
<1>1. /\ o \in Nat /\ o # 0 /\ DOMAIN stack = 1..o /\ o \in DOMAIN stack
      /\ Top = stack[o] /\ Top \in Frame
      /\ \A k \in DOMAIN stack : stack[k] \in Frame
  BY Typed
<1>2. n \in Nat /\ n < o /\ n \in 0..o
  BY <1>1
<1>3. stack' \in Seq(Frame) /\ Len(stack') = n /\ \A k \in 1..n : stack'[k] = stack[k]
  BY <1>2, Cut, Typed
<1>4. DOMAIN stack' = 1..n
  BY <1>3, LenProperties
<1> HIDE DEF o
<1>5. /\ \A k \in 1..n : k \in 1..o /\ k # o
      /\ \A k \in 1..o : k # o => k \in 1..o - 1
      /\ \A k \in 1..o - 1 : k <= n => k \in 1..n
  <2>1. o \in Nat /\ n \in Nat /\ n < o
    BY <1>1, <1>2
  <2> QED
    BY <2>1
<1>6. \A k \in 1..o : k # o => stack[k].at \in {"needs", "box", "com"}
  BY <1>5 DEF LoadInv, Beneath, o
<1>7. \A k \in 1..o : k # o /\ stack[k].at \in Loadings => k \in 1..n
  BY <1>5, <1>6 DEF Loadings, o
<1>8. \A k \in 1..n : Top.at \in Loadings /\ stack[k].at \in Loadings => stack[k].mod # Top.mod
  BY <1>1, <1>5 DEF LoadInv, OneLoading
<1>9. Beneath'
  <2>1. \A k \in 1..n - 1 : k \in 1..n
    BY <1>2
  <2> QED
    BY <1>3, <1>5, <1>6, <2>1 DEF Beneath
<1>10. Placing'
  <2> SUFFICES ASSUME NEW k \in 1..n
               PROVE  Placing!(k)'
    BY <1>4 DEF Placing
  <2>1. /\ stack'[k] = stack[k] /\ k \in DOMAIN stack /\ stack[k].mod \in Mod
        /\ stack[k].at \in {"needs", "box", "com"}
    BY <1>1, <1>3, <1>5, <1>6 DEF Frame
  <2>2. Placing!(k)
    BY <2>1 DEF LoadInv, Placing
  <2>3. stack[k].at \in Loadings => loaded_extensions'[stack[k].mod] = "true"
    BY <1>8, <2>1, <2>2
  <2>4. up \subseteq up'
    OBVIOUS
  <2> QED
    BY <2>1, <2>2, <2>3, <2>4
<1>11. OneLoading'
  <2>1. \A j, k \in DOMAIN stack' :
          /\ stack'[j].at \in Loadings /\ stack'[k].at \in Loadings
          /\ stack'[j].mod = stack'[k].mod
          => j = k
    BY <1>1, <1>3, <1>4, <1>5 DEF LoadInv, OneLoading
  <2>2. ASSUME NEW m \in Mod, loaded_extensions'[m] = "true"
        PROVE  \E k \in DOMAIN stack' : stack'[k].mod = m /\ stack'[k].at \in Loadings
    <3>1. ~(Top.at \in Loadings /\ m = Top.mod) /\ loaded_extensions[m] = "true"
      BY <2>2
    <3>2. PICK k \in DOMAIN stack : stack[k].mod = m /\ stack[k].at \in Loadings
      BY <3>1 DEF LoadInv, OneLoading
    <3>3. k # o
      BY <1>1, <3>1, <3>2
    <3> QED
      BY <1>1, <1>3, <1>4, <1>7, <3>2, <3>3
  <2> QED
    BY <2>1, <2>2 DEF OneLoading
<1>12. Registered'
  <2>1. Top.mod \in Mod
    BY <1>1 DEF Frame
  <2> QED
    BY <2>1 DEF LoadInv, Registered
<1> QED
  BY <1>9, <1>10, <1>11, <1>12 DEF LoadInv

\* An error while a script, or the code of an extension, runs.
LEMMA Unwinds ==
  ASSUME TypeOK, LoadInv, stack # <<>>, Top.at # "com",
         Unwind, UNCHANGED <<up, another>>
  PROVE  stack' \in Seq(Frame) /\ LoadInv'
<1> DEFINE o == Len(stack)
<1>1. /\ o \in Nat /\ o # 0 /\ DOMAIN stack = 1..o /\ o \in DOMAIN stack
      /\ Top = stack[o] /\ Top \in Frame /\ stack \in Seq(Frame)
  BY Typed
<1>2. /\ Kept \in 0..o - 1 /\ stack' = SubSeq(stack, 1, Kept)
      /\ \A k \in 1..o - 1 : stack[k].at = "com" => k <= Kept
  BY <1>1, KeptFrames DEF Unwind, Pumping
<1>3. Top \in Ended
  <2>1. o \in Kept + 1..o
    BY <1>1, <1>2
  <2> QED
    BY <1>1, <2>1 DEF Ended
<1>4. \A f \in Ended : f.at \in {"loading", "hook"} => f = Top
  <2>1. \A k \in Kept + 1..o : k = o \/ k \in 1..o - 1
    <3>1. o \in Nat /\ Kept \in Nat
      BY <1>1, <1>2
    <3> HIDE DEF o
    <3> QED
      BY <3>1
  <2> QED
    BY <1>1, <2>1 DEF Ended, LoadInv, Beneath
<1>5. \A m \in Mod : loaded_extensions'[m] =
        IF \E f \in Ended : f.at \in {"loading", "hook"} /\ f.mod = m
        THEN "nil" ELSE loaded_extensions[m]
  BY DEF Unwind
<1>6. \A m \in Mod : ~(Top.at \in Loadings /\ m = Top.mod)
        => loaded_extensions'[m] = loaded_extensions[m]
  BY <1>4, <1>5 DEF Loadings
<1>7. Top.at \in Loadings => loaded_extensions'[Top.mod] = "nil" /\ Top.mod \notin up'
  <2> SUFFICES ASSUME Top.at \in Loadings
               PROVE  loaded_extensions'[Top.mod] = "nil" /\ Top.mod \notin up'
    OBVIOUS
  <2>1. Top.at \in {"loading", "hook"} /\ Top.mod \in Mod
    BY <1>1 DEF Loadings, Frame
  <2>2. Top.mod \notin up
    BY <1>1, <2>1 DEF LoadInv, Placing
  <2> QED
    BY <1>3, <1>5, <2>1, <2>2
<1>8. LoadInv'
  BY <1>2, <1>6, <1>7, Shorter
<1>9. Kept \in 0..o
  BY <1>1, <1>2
<1> QED
  BY <1>1, <1>2, <1>8, <1>9, Cut

\* The chunk of a module begins, for a script or for a chunk that requires it.
LEMMA Enters ==
  ASSUME TypeOK, LoadInv, NEW m \in Mod, Enter(m),
         stack # <<>> => Top.at \in {"needs", "box", "com"},
         UNCHANGED <<up, another>>
  PROVE  stack' \in Seq(Frame) /\ LoadInv'
<1> DEFINE f == [mod |-> m, chunk |-> TRUE, i |-> 0, at |-> "needs"]
<1>1. f \in Frame
  BY DEF Frame, Place
<1>2. f.at = "needs" /\ f.chunk
  OBVIOUS
<1>3. stack' = Append(stack, f) /\ UNCHANGED loaded_extensions
  BY DEF Enter
<1> HIDE DEF f
<1>4. /\ Len(stack) \in Nat /\ stack' \in Seq(Frame) /\ Len(stack') = Len(stack) + 1
      /\ stack'[Len(stack) + 1] = f
      /\ \A k \in 1..Len(stack) : stack'[k] = stack[k]
  BY <1>1, <1>3, Typed, Pushed
<1>5. /\ Len(stack') \in Nat \ {0} /\ stack'[Len(stack')] = f
      /\ \A k \in 1..Len(stack') - 1 : stack'[k] = stack[k]
  BY <1>4
<1> QED
  BY <1>1, <1>2, <1>3, <1>4, <1>5, QuietTop

\* The chunk at the top goes on to another place outside of a loading.
LEMMA GoesOn ==
  ASSUME TypeOK, LoadInv, stack # <<>>, Top.at \notin Loadings,
         NEW place \in {"box", "own", "rest"}, stack' = Goto(place),
         UNCHANGED <<loaded_extensions, up, another>>
  PROVE  stack' \in Seq(Frame) /\ LoadInv'
<1> DEFINE f == [Top EXCEPT !.at = place]
<1>1. /\ Len(stack) \in Nat \ {0} /\ Len(stack) \in DOMAIN stack
      /\ Top \in Frame /\ Top = stack[Len(stack)]
  BY Typed
<1>2. place \in Place
  BY DEF Place
<1>3. Top.chunk
  BY <1>1 DEF Frame, Place, Loadings, LoadInv, Placing
<1>4. f \in Frame /\ f.at = place /\ f.chunk
  BY <1>1, <1>2, <1>3 DEF Frame
<1>5. /\ stack' \in Seq(Frame) /\ Len(stack') = Len(stack)
      /\ stack'[Len(stack)] = f
      /\ \A k \in 1..Len(stack) - 1 : stack'[k] = stack[k]
  BY <1>2, Goes
<1> HIDE DEF f
<1>6. f.at \in {"needs", "box", "own", "rest"}
  BY <1>4
<1> QED
  BY <1>1, <1>4, <1>5, <1>6, QuietTop

\* The chunk at the top has one more of the modules it needs.
LEMMA RequiredKeeps ==
  ASSUME TypeOK, LoadInv, Required, UNCHANGED <<up, another>>
  PROVE  /\ stack' \in Seq(Frame) /\ LoadInv'
         /\ stack # <<>> /\ Len(stack') = Len(stack) /\ Len(stack) \in Nat \ {0}
         /\ stack'[Len(stack)] = [Top EXCEPT !.i = @ + 1]
         /\ \A k \in 1..Len(stack) - 1 : stack'[k] = stack[k]
<1> DEFINE f == [Top EXCEPT !.i = @ + 1]
<1>1. stack # <<>> /\ Top.at = "needs"
  BY DEF Required, Needing, At
<1>2. /\ Len(stack) \in Nat \ {0} /\ Len(stack) \in DOMAIN stack
      /\ Top \in Frame /\ Top = stack[Len(stack)] /\ stack \in Seq(Frame)
  BY <1>1, Typed
<1>3. Top.chunk
  BY <1>1, <1>2 DEF LoadInv, Placing
<1>4. f \in Frame /\ f.at = "needs" /\ f.chunk
  BY <1>1, <1>2, <1>3 DEF Frame
<1>5. stack' = [stack EXCEPT ![Len(stack)] = f]
  BY <1>2 DEF Required
<1>6. UNCHANGED loaded_extensions
  BY DEF Required
<1> HIDE DEF f
<1>7. /\ stack' \in Seq(Frame) /\ Len(stack') = Len(stack)
      /\ stack'[Len(stack)] = f
      /\ \A k \in 1..Len(stack) - 1 : stack'[k] = stack[k]
  BY <1>1, <1>2, <1>4, <1>5, TopChanges
<1>8. f.at \in {"needs", "box", "own", "rest"} /\ Top.at \notin Loadings
  BY <1>1, <1>4 DEF Loadings
<1>9. LoadInv'
  BY <1>1, <1>2, <1>4, <1>6, <1>7, <1>8, QuietTop
<1> QED
  BY <1>1, <1>2, <1>7, <1>9 DEF f

-----------------------------------------------------------------------------
(* Every step that loads                                                   *)

\* A script runs only above frames that let messages in.
LEMMA ScriptTop ==
  ASSUME ScriptsRun
  PROVE  state = "running" /\ (stack # <<>> => Top.at \in {"box", "com"})
BY DEF ScriptsRun, Pumping

\* The top frame goes with its chunk, or with the call of a script.
LEMMA Pops ==
  ASSUME TypeOK, LoadInv, stack # <<>>, Top.at # "com" \/ ~Top.chunk,
         stack' = SubSeq(stack, 1, Len(stack) - 1)
  PROVE  /\ stack' \in Seq(Frame) /\ Len(stack) - 1 \in 0..Len(stack) - 1
         /\ \A k \in 1..Len(stack) - 1 : stack[k].at = "com" => k <= Len(stack) - 1
<1>1. stack \in Seq(Frame) /\ Len(stack) \in Nat \ {0}
  BY Typed
<1>2. Len(stack) - 1 \in 0..Len(stack)
  BY <1>1
<1> QED
  BY <1>1, <1>2, Cut

\* require, module() and load_extension.
LEMMA RequireKeeps ==
  ASSUME TypeOK, LoadInv, Require
  PROVE  stack' \in Seq(Frame) /\ LoadInv'
<1> USE DEF Require
<1>1. ASSUME NEW m \in Mod, ScriptRequires(m)
      PROVE  stack' \in Seq(Frame) /\ LoadInv'
  BY <1>1, ScriptTop, Enters DEF ScriptRequires
<1>2. ASSUME NEW m \in Mod, ScriptLoops(m)
      PROVE  stack' \in Seq(Frame) /\ LoadInv'
  BY <1>2, Typed DEF ScriptLoops, LoadInv, Beneath, Placing, OneLoading, Registered
<1>3. ASSUME NEW m \in Mod, ScriptLoads(m)
      PROVE  stack' \in Seq(Frame) /\ LoadInv'
  <2> DEFINE f == [mod |-> m, chunk |-> FALSE, i |-> 0, at |-> "loading"]
  <2>1. f \in Frame /\ f.at = "loading" /\ f.mod = m
    BY DEF Frame, Place
  <2>2. /\ stack' = Append(stack, f)
        /\ loaded_extensions[m] = "nil"
        /\ loaded_extensions' = [loaded_extensions EXCEPT ![m] = "true"]
    BY <1>3 DEF ScriptLoads, Placed
  <2> HIDE DEF f
  <2>3. /\ Len(stack) \in Nat /\ stack' \in Seq(Frame) /\ Len(stack') = Len(stack) + 1
        /\ stack'[Len(stack) + 1] = f
        /\ \A k \in 1..Len(stack) : stack'[k] = stack[k]
    BY <2>1, <2>2, Typed, Pushed
  <2>4. /\ Len(stack') \in Nat \ {0} /\ stack'[Len(stack')] = f
        /\ \A k \in 1..Len(stack') - 1 : stack'[k] = stack[k]
    BY <2>3
  <2>5. stack # <<>> => Top.at \in {"needs", "box", "com"}
    BY <1>3, ScriptTop DEF ScriptLoads
  <2> QED
    BY <2>1, <2>2, <2>3, <2>4, <2>5, LoadingTop
<1>4. CASE ModuleRequires
  <2>1. stack # <<>> /\ Top.at = "needs" /\ Top.i < Len(Needs[Top.mod]) /\ Enter(NextNeed)
    BY <1>4 DEF ModuleRequires, Needing, At
  <2>2. Top \in Frame
    BY <2>1, Typed
  <2>3. NextNeed \in Mod
    <3>1. Needs[Top.mod] \in Seq(Mod) /\ Top.i \in Nat
      BY <2>2, ModAssumption DEF Frame
    <3>2. Top.i + 1 \in 1..Len(Needs[Top.mod])
      BY <2>1, <3>1, LenProperties
    <3> QED
      BY <3>1, <3>2, ElementOfSeq DEF NextNeed
  <2> QED
    BY <2>1, <2>3, Enters
<1>5. CASE Required
  BY <1>5, RequiredKeeps
<1>6. CASE ModuleLoops
  <2>1. stack # <<>> /\ Top.at = "needs" /\ stack' = SubSeq(stack, 1, Kept)
    BY <1>6 DEF ModuleLoops, Needing, At
  <2>2. /\ Kept \in 0..Len(stack) - 1 /\ Len(stack) \in Nat \ {0} /\ stack \in Seq(Frame)
        /\ \A k \in 1..Len(stack) - 1 : stack[k].at = "com" => k <= Kept
    BY <2>1, Typed, KeptFrames DEF Pumping
  <2>3. UNCHANGED loaded_extensions /\ Top.at \notin Loadings
    BY <1>6, <2>1 DEF ModuleLoops, Loadings
  <2>4. LoadInv'
    BY <2>1, <2>2, <2>3, Shorter
  <2>5. Kept \in 0..Len(stack)
    BY <2>2
  <2> QED
    BY <2>1, <2>2, <2>4, <2>5, Cut
<1>7. CASE HasNeeds \/ DismissBox \/ AlreadyLoaded
  <2>1. /\ stack # <<>> /\ Top.at \in {"needs", "box", "own"}
        /\ UNCHANGED loaded_extensions
        /\ \E place \in {"box", "own", "rest"} : stack' = Goto(place)
    BY <1>7 DEF HasNeeds, DismissBox, AlreadyLoaded, At
  <2>2. Top.at \notin Loadings
    BY <2>1 DEF Loadings
  <2> QED
    BY <2>1, <2>2, GoesOn
<1>8. CASE ChunkFails
  BY <1>8, Unwinds DEF ChunkFails, At
<1>9. CASE ChunkEnds
  <2>1. /\ stack # <<>> /\ Top.at = "rest" /\ stack' = SubSeq(stack, 1, Len(stack) - 1)
        /\ UNCHANGED loaded_extensions
    BY <1>9 DEF ChunkEnds, At
  <2>2. Top.at \notin Loadings
    BY <2>1 DEF Loadings
  <2> QED
    BY <2>1, <2>2, Pops, Shorter
<1>10. CASE load_extension
  <2>1. /\ stack # <<>> /\ Top.at = "own" /\ stack' = Goto("loading")
        /\ loaded_extensions[Top.mod] = "nil"
        /\ loaded_extensions' = [loaded_extensions EXCEPT ![Top.mod] = "true"]
    BY <1>10 DEF load_extension, At, Placed
  <2> DEFINE f == [Top EXCEPT !.at = "loading"]
  <2>2. Len(stack) \in Nat \ {0} /\ Top \in Frame
    BY <2>1, Typed
  <2>3. "loading" \in Place
    BY DEF Place
  <2>4. f \in Frame /\ f.at = "loading" /\ f.mod = Top.mod
    BY <2>2, <2>3 DEF Frame
  <2>5. /\ stack' \in Seq(Frame) /\ Len(stack') = Len(stack)
        /\ stack'[Len(stack)] = f
        /\ \A k \in 1..Len(stack) - 1 : stack'[k] = stack[k]
    BY <2>1, <2>3, Goes
  <2> HIDE DEF f
  <2>6. Top.at \notin Loadings
    BY <2>1 DEF Loadings
  <2> QED
    BY <2>1, <2>2, <2>4, <2>5, <2>6, LoadingTop
<1> QED
  BY <1>1, <1>2, <1>3, <1>4, <1>5, <1>6, <1>7, <1>8, <1>9, <1>10

\* What ends the loading of an extension that has been created.
LEMMA LoadedKeeps ==
  ASSUME TypeOK, LoadInv, stack # <<>>, Top.at \in Loadings, Loaded,
         up' = up \cup {Top.mod}, UNCHANGED another
  PROVE  stack' \in Seq(Frame) /\ LoadInv'
<1>1. loaded_extensions' = [loaded_extensions EXCEPT ![Top.mod] = "hmodule"]
  BY DEF Loaded
<1>2. CASE Top.chunk
  <2>1. stack' = Goto("rest")
    BY <1>2 DEF Loaded
  <2>2. stack' \in Seq(Frame)
    BY <2>1, Goes DEF Place
  <2> QED
    BY <1>1, <1>2, <2>1, <2>2, LoadedTop
<1>3. CASE ~Top.chunk
  <2>1. stack' = SubSeq(stack, 1, Len(stack) - 1)
    BY <1>3 DEF Loaded
  <2>2. /\ \A m \in Mod : m # Top.mod => loaded_extensions'[m] = loaded_extensions[m]
        /\ loaded_extensions'[Top.mod] = "hmodule" /\ Top.mod \in up'
    BY <1>1, Typed DEF TypeOK, Frame
  <2> QED
    BY <1>3, <2>1, <2>2, Pops, Shorter
<1> QED
  BY <1>2, <1>3

\* Crj_ExtMain.
LEMMA LoadKeeps ==
  ASSUME TypeOK, LoadInv, Load
  PROVE  stack' \in Seq(Frame) /\ LoadInv'
<1>1. CASE Create
  BY <1>1, LoadedKeeps DEF Create, At, Loadings
<1>2. CASE CreateFails
  BY <1>2, Unwinds DEF CreateFails, At
<1>3. CASE AskForShell
  <2>1. /\ stack # <<>> /\ Top.at = "loading" /\ Top.mod = tray
        /\ UNCHANGED loaded_extensions
    BY <1>3 DEF AskForShell, At
  <2>2. CASE explorer
    <3>1. stack' = Goto("hook") /\ up' = up /\ another'
      BY <1>3, <2>2 DEF AskForShell
    <3>2. stack' \in Seq(Frame)
      BY <2>1, <3>1, Goes DEF Place
    <3> QED
      BY <2>1, <3>1, <3>2, AskedTop
  <2>3. CASE ~explorer
    <3>1. stack' = Goto("com") /\ up' = up \cup {tray}
      BY <1>3, <2>3 DEF AskForShell
    <3>2. stack' \in Seq(Frame)
      BY <2>1, <3>1, Goes DEF Place
    <3> QED
      BY <2>1, <3>1, <3>2, AskedTop
  <2> QED
    BY <2>2, <2>3
<1>4. CASE CreateHooked
  <2>1. stack # <<>> /\ Top.at = "hook" /\ Loaded /\ up' = up \cup {tray} /\ UNCHANGED another
    BY <1>4 DEF CreateHooked, At
  <2>2. Top.mod = tray
    BY <2>1, Typed DEF LoadInv, Placing
  <2> QED
    BY <2>1, <2>2, LoadedKeeps DEF Loadings
<1>5. CASE CreateHookedFails
  BY <1>5, Unwinds DEF CreateHookedFails, At
<1>6. CASE ComEnds
  <2>1. stack # <<>> /\ Top.at = "com" /\ Loaded /\ UNCHANGED <<up, another>>
    BY <1>6 DEF ComEnds, At
  <2>2. Top.mod = tray /\ tray \in up
    BY <2>1, Typed DEF LoadInv, Placing
  <2> QED
    BY <2>1, <2>2, LoadedKeeps DEF Loadings
<1> QED
  BY <1>1, <1>2, <1>3, <1>4, <1>5, <1>6 DEF Load

-----------------------------------------------------------------------------
(* Every step                                                              *)

\* The types, once that of the stack is known.
LEMMA TypeNext ==
  ASSUME TypeOK, [Next]_vars, stack' \in Seq(Frame)
  PROVE  TypeOK'
<1>1. stack' \in Seq([mod : Mod, chunk : BOOLEAN, i : Nat, at : Place])
  BY DEF Frame
<1>2. /\ package_loaded' \in [Mod -> {"nil", "sentinel", "module"}]
      /\ loaded_extensions' \in [Mod -> {"nil", "true", "hmodule"}]
  <2>1. CASE Require
    BY <2>1 DEF Require, TypeOK, ScriptRequires, ScriptLoops, ScriptLoads, ModuleRequires,
                Enter, Required, ModuleLoops, HasNeeds, DismissBox, ChunkFails, Unwind,
                ChunkEnds, AlreadyLoaded, load_extension, ModuleCalled, Placed
  <2>2. CASE Load
    BY <2>2 DEF Load, TypeOK, Create, CreateFails, AskForShell, CreateHooked,
                CreateHookedFails, ComEnds, Loaded, Unwind
  <2>3. CASE Start \/ BeginUnload \/ Paint \/ DismissUnload \/ UNCHANGED vars
    BY <2>3 DEF TypeOK, Start, BeginUnload, Paint, DismissUnload, vars, loadVars
  <2>4. CASE Exit \/ Killed
    BY <2>4 DEF TypeOK, Exit, Killed, Reset
  <2>5. ASSUME NEW m \in Mod, Unload(m) \/ UnloadPlaceholder(m)
        PROVE  <1>2
    BY <2>5 DEF TypeOK, Unload, UnloadPlaceholder, Reset, loadVars
  <2>6. CASE ExplorerStep /\ UNCHANGED <<state, loadVars, up, another, pending, box, memory>>
    BY <2>6 DEF TypeOK, loadVars
  <2> QED
    BY <2>1, <2>2, <2>3, <2>4, <2>5, <2>6 DEF Next
<1>3. HookTypeOK'
  <2>1. HookTypeOK
    BY DEF TypeOK
  <2>2. CASE UNCHANGED hookVars
    BY <2>1, <2>2 DEF HookTypeOK, hookVars
  <2>3. CASE Hook_Start \/ Hook_StartRefused \/ Hook_End
    <3>1. CASE Hook_Start
      BY <2>1, <3>1 DEF HookTypeOK, Hook_Start
    <3>2. CASE Hook_StartRefused
      <4>1. refusals' \in Nat
        BY <2>1, <3>2 DEF HookTypeOK, Hook_StartRefused
      <4>2. /\ explorer' \in BOOLEAN /\ g_HHook' \in BOOLEAN /\ hooked' \in BOOLEAN
            /\ same' \in BOOLEAN /\ mapped' \in SUBSET {"cereja", "explorer"}
        BY <2>1, <3>2, Zenon DEF HookTypeOK, Hook_StartRefused, Detach
      <4> QED
        BY <4>1, <4>2 DEF HookTypeOK
    <3>3. CASE Hook_End
      BY <2>1, <3>3 DEF HookTypeOK, Hook_End, Detach
    <3> QED
      BY <2>3, <3>1, <3>2, <3>3
  <2>4. CASE Vanish("cereja") /\ refusals' = 0 /\ UNCHANGED <<explorer, same>>
    BY <2>1, <2>4 DEF HookTypeOK, Vanish
  <2>5. CASE ExplorerStep
    BY <2>1, <2>5 DEF HookTypeOK, ExplorerStep, ExplorerMaps, ExplorerUnmaps, ExplorerExits,
                      ExplorerCrashes, ExplorerStarts, Detach, Vanish
  <2> QED
    BY <2>2, <2>3, <2>4, <2>5 DEF Next, Require, Load, Create, CreateFails, AskForShell,
       CreateHooked, CreateHookedFails, ComEnds, Start, BeginUnload, Paint, DismissUnload,
       Exit, Killed, Unload, UnloadPlaceholder, Hook_StartFails, vars
<1>4. /\ state' \in {"off", "running", "unloading"}
      /\ up' \subseteq Mod /\ another' \in BOOLEAN /\ pending' \subseteq Mod
      /\ box' \in BOOLEAN /\ memory' \in {"ok", "corrupt"}
  <2>1. CASE Require
    BY <2>1 DEF Require, TypeOK
  <2>2. CASE Load
    <3>1. stack # <<>> => Top.mod \in Mod
      BY Typed DEF Frame
    <3> QED
      BY <2>2, <3>1, ModAssumption
      DEF Load, TypeOK, HookTypeOK, Create, CreateFails, AskForShell, CreateHooked,
          CreateHookedFails, ComEnds, At
  <2>3. CASE Start \/ BeginUnload \/ Paint \/ DismissUnload \/ UNCHANGED vars
    BY <2>3 DEF TypeOK, Start, BeginUnload, Paint, DismissUnload, vars, loadVars
  <2>4. CASE Exit \/ Killed
    BY <2>4 DEF TypeOK, Exit, Killed, Reset
  <2>5. ASSUME NEW m \in Mod, Unload(m) \/ UnloadPlaceholder(m)
        PROVE  <1>4
    BY <2>5 DEF TypeOK, Unload, UnloadPlaceholder, Reset, UnhookFails, HookTypeOK
  <2>6. CASE ExplorerStep /\ UNCHANGED <<state, loadVars, up, another, pending, box, memory>>
    BY <2>6 DEF TypeOK
  <2> QED
    BY <2>1, <2>2, <2>3, <2>4, <2>5, <2>6 DEF Next
<1> QED
  BY <1>1, <1>2, <1>3, <1>4 DEF TypeOK

\* Explorer's process takes the hook with it, and never brings one.
LEMMA ExplorerKeeps ==
  ASSUME HookTypeOK, HookInv, ExplorerStep, UNCHANGED <<up, another>>
  PROVE  HookInv' /\ (same' => same)
<1> USE DEF HookTypeOK, HookInv, HookIsOurs
<1>1. CASE ExplorerMaps
  BY <1>1 DEF ExplorerMaps
<1>2. CASE ExplorerUnmaps
  BY <1>2 DEF ExplorerUnmaps, Detach
<1>3. CASE ExplorerExits
  BY <1>3 DEF ExplorerExits, Detach
<1>4. CASE ExplorerCrashes
  BY <1>4 DEF ExplorerCrashes, Vanish
<1>5. CASE ExplorerStarts
  BY <1>5 DEF ExplorerStarts
<1> QED
  BY <1>1, <1>2, <1>3, <1>4, <1>5 DEF ExplorerStep

\* Hook_Start makes the hook that shell.tray needs; a refusal or an error leaves none.
LEMMA LoadKeepsHook ==
  ASSUME TypeOK, HookInv, LoadInv, Load
  PROVE  HookInv'
<1>1. CASE Create
  BY <1>1, ModAssumption DEF Create, HookInv, HookIsOurs, hookVars
<1>2. CASE CreateFails \/ ComEnds
  BY <1>2 DEF CreateFails, ComEnds, HookInv, HookIsOurs, hookVars
<1>3. CASE AskForShell
  <2>1. tray \notin up
    BY <1>3, Typed DEF AskForShell, At, LoadInv, Placing
  <2> QED
    BY <1>3, <2>1 DEF AskForShell, HookInv, HookIsOurs, hookVars
<1>4. CASE CreateHooked \/ CreateHookedFails
  <2>1. Top.mod = tray /\ another /\ tray \notin up /\ UNCHANGED another
    BY <1>4, Typed DEF CreateHooked, CreateHookedFails, At, LoadInv, Placing
  <2>2. CASE CreateHooked
    BY <2>1, <2>2 DEF CreateHooked, Hook_Start, HookInv, HookIsOurs
  <2>3. CASE CreateHookedFails
    BY <2>1, <2>3 DEF CreateHookedFails, Hook_StartRefused, Hook_StartFails, Detach,
                      HookInv, HookIsOurs, TypeOK, HookTypeOK, hookVars
  <2> QED
    BY <1>4, <2>2, <2>3
<1> QED
  BY <1>1, <1>2, <1>3, <1>4 DEF Load

\* What Reset leaves of the process that ends.
LEMMA Resets ==
  ASSUME Reset
  PROVE  /\ state' = "off" /\ stack' \in Seq(Frame) /\ up' = {}
         /\ OffInv' /\ RunningInv' /\ UnloadingInv'
<1>1. <<>> \in Seq(Frame)
  BY EmptySeq
<1>2. state' = "off" /\ stack' = <<>> /\ up' = {} /\ ~box' /\ memory' = "ok"
  BY DEF Reset
<1>3. OffInv'
  BY <1>2 DEF Reset, OffInv
<1> QED
  BY <1>1, <1>2, <1>3 DEF RunningInv, UnloadingInv

\* Every step keeps the invariant.
LEMMA ExtensionsInvNext ==
  ASSUME ExtensionsInv, [Next]_vars
  PROVE  ExtensionsInv'
<1> USE DEF ExtensionsInv
<1> SUFFICES stack' \in Seq(Frame) /\ HookInv' /\ OffInv' /\ RunningInv' /\ UnloadingInv'
  BY TypeNext
<1>0. HookTypeOK /\ stack \in Seq(Frame)
  BY Typed DEF TypeOK
<1>1. CASE Require
  <2>1. state = "running" /\ UNCHANGED <<state, up, another, box, memory, hookVars>>
    BY <1>1 DEF Require, ScriptRequires, ScriptLoops, ScriptLoads, ModuleRequires, Required,
                ModuleLoops, HasNeeds, DismissBox, ChunkFails, ChunkEnds, AlreadyLoaded,
                load_extension, ScriptsRun, Needing, At
  <2>2. stack' \in Seq(Frame) /\ LoadInv'
    BY <1>1, <2>1, RequireKeeps DEF RunningInv
  <2>3. HookInv'
    BY <2>1 DEF HookInv, HookIsOurs, hookVars
  <2> QED
    BY <2>1, <2>2, <2>3 DEF OffInv, RunningInv, UnloadingInv
<1>2. CASE Load
  <2>1. state = "running" /\ UNCHANGED <<state, box, memory>>
    BY <1>2 DEF Load, Create, CreateFails, AskForShell, CreateHooked, CreateHookedFails,
                ComEnds, At
  <2>2. stack' \in Seq(Frame) /\ LoadInv'
    BY <1>2, <2>1, LoadKeeps DEF RunningInv
  <2>3. HookInv'
    BY <1>2, <2>1, LoadKeepsHook DEF RunningInv
  <2> QED
    BY <2>1, <2>2, <2>3 DEF OffInv, RunningInv, UnloadingInv
<1>3. CASE Start
  <2>1. /\ stack = <<>> /\ up = {} /\ memory = "ok" /\ ~box
        /\ loaded_extensions = [m \in Mod |-> "nil"]
        /\ state' = "running"
        /\ UNCHANGED <<stack, loaded_extensions, up, another, box, memory, hookVars>>
    BY <1>3 DEF Start, OffInv, loadVars
  <2> QED
    BY <2>1, <1>0 DEF OffInv, RunningInv, UnloadingInv, LoadInv, Beneath, Placing,
                      OneLoading, Registered, HookInv, HookIsOurs, hookVars
<1>4. CASE BeginUnload
  <2>1. /\ state = "running" /\ state' = "unloading"
        /\ pending' = {m \in Mod : loaded_extensions[m] # "nil"}
        /\ UNCHANGED <<stack, loaded_extensions, up, another, box, memory, hookVars>>
    BY <1>4, ScriptTop DEF BeginUnload, loadVars
  <2>2. up \subseteq Mod
    BY DEF TypeOK
  <2>3. UnloadingInv'
    BY <2>1, <2>2 DEF UnloadingInv, RunningInv, LoadInv, Registered
  <2> QED
    BY <2>1, <2>3, <1>0 DEF OffInv, RunningInv, HookInv, HookIsOurs, hookVars
<1>5. CASE Paint \/ DismissUnload
  <2>1. /\ state = "unloading"
        /\ UNCHANGED <<state, stack, loaded_extensions, up, another, pending, hookVars>>
    BY <1>5 DEF Paint, DismissUnload, loadVars
  \* While COM ends, shell.tray is there; otherwise its message box is open.
  <2>2. box' \/ memory' = "corrupt" => box \/ memory = "corrupt"
    <3>1. CASE Paint /\ ~box
      <4>1. ComSaves
        BY <3>1 DEF Paint
      <4>2. tray \in up
        BY <2>1, <4>1 DEF ComSaves, UnloadingInv
      <4> QED
        BY <3>1, <4>2 DEF Paint
    <3> QED
      BY <1>5, <3>1 DEF Paint, DismissUnload
  <2>3. UnloadingInv'
    BY <2>1, <2>2 DEF UnloadingInv, hookVars
  <2> QED
    BY <2>1, <2>3, <1>0 DEF OffInv, RunningInv, HookInv, HookIsOurs, hookVars
<1>6. CASE Exit
  <2>1. up = {} /\ Reset /\ UNCHANGED hookVars
    BY <1>6 DEF Exit, Unloading, UnloadingInv
  <2>2. HookInv'
    BY <2>1, Resets DEF HookInv, HookIsOurs, hookVars
  <2> QED
    BY <2>1, <2>2, Resets
<1>7. ASSUME Reset, Vanish("cereja"), refusals' = 0
      PROVE  stack' \in Seq(Frame) /\ HookInv' /\ OffInv' /\ RunningInv' /\ UnloadingInv'
  <2>1. HookInv'
    BY <1>7, Resets DEF Vanish, HookInv, HookIsOurs
  <2> QED
    BY <1>7, <2>1, Resets
<1>8. CASE Killed
  BY <1>7, <1>8 DEF Killed
<1>9. ASSUME NEW m \in Mod, UnloadPlaceholder(m)
      PROVE  stack' \in Seq(Frame) /\ HookInv' /\ OffInv' /\ RunningInv' /\ UnloadingInv'
  BY <1>7, <1>9 DEF UnloadPlaceholder
<1>10. ASSUME NEW m \in Mod, Unload(m)
       PROVE  stack' \in Seq(Frame) /\ HookInv' /\ OffInv' /\ RunningInv' /\ UnloadingInv'
  <2>1. /\ state = "unloading" /\ ~box /\ m \in pending /\ m \in up
        /\ pending' = pending \ {m} /\ up' = up \ {m}
        /\ UNCHANGED <<state, stack, loaded_extensions, another, memory>>
    BY <1>10 DEF Unload, Unloading, UnloadingInv, loadVars
  <2>2. CASE m = tray /\ another
    <3>1. /\ mapped' = mapped \ {"cereja"} /\ ~g_HHook' /\ ~hooked'
          /\ UNCHANGED <<refusals, same>> /\ box' = ~(g_HHook /\ hooked)
      BY <1>10, <2>2 DEF Unload, Hook_End, Detach, UnhookFails
    <3>2. box' => ~same'
      BY <2>1, <2>2, <3>1 DEF HookInv, HookIsOurs
    <3>3. HookInv'
      BY <2>1, <2>2, <3>1 DEF HookInv, HookIsOurs
    <3>4. UnloadingInv'
      BY <2>1, <2>2, <3>1, <3>2 DEF UnloadingInv
    <3> QED
      BY <1>0, <2>1, <3>3, <3>4 DEF OffInv, RunningInv
  <2>3. CASE ~(m = tray /\ another)
    <3>1. UNCHANGED <<hookVars, box>>
      BY <1>10, <2>3 DEF Unload
    <3>2. HookInv'
      BY <2>1, <2>3, <3>1 DEF HookInv, HookIsOurs, hookVars
    <3>3. UnloadingInv'
      BY <2>1, <3>1 DEF UnloadingInv, hookVars
    <3> QED
      BY <1>0, <2>1, <3>2, <3>3 DEF OffInv, RunningInv
  <2> QED
    BY <2>2, <2>3
<1>11. CASE ExplorerStep /\ UNCHANGED <<state, loadVars, up, another, pending, box, memory>>
  <2>1. HookInv' /\ (same' => same)
    BY <1>0, <1>11, ExplorerKeeps
  <2> QED
    BY <1>0, <1>11, <2>1 DEF loadVars, OffInv, RunningInv, UnloadingInv, LoadInv, Beneath,
                            Placing, OneLoading, Registered
<1>12. CASE UNCHANGED vars
  BY <1>0, <1>12 DEF vars, loadVars, hookVars, OffInv, RunningInv, UnloadingInv, LoadInv,
                    Beneath, Placing, OneLoading, Registered, HookInv, HookIsOurs
<1> QED
  BY <1>1, <1>2, <1>3, <1>4, <1>5, <1>6, <1>8, <1>9, <1>10, <1>11, <1>12 DEF Next

-----------------------------------------------------------------------------
(* Theorems                                                                *)

\* The process does not run, and nothing hooks Explorer.
LEMMA ExtensionsInvInit == Init => ExtensionsInv
<1> SUFFICES ASSUME Init PROVE ExtensionsInv
  OBVIOUS
<1>1. <<>> \in Seq([mod : Mod, chunk : BOOLEAN, i : Nat, at : Place])
  BY EmptySeq
<1>2. TypeOK
  BY <1>1 DEF Init, HookInit, TypeOK, HookTypeOK
<1>3. HookInv /\ OffInv /\ RunningInv /\ UnloadingInv
  BY DEF Init, HookInit, HookInv, HookIsOurs, OffInv, RunningInv, UnloadingInv
<1> QED
  BY <1>2, <1>3 DEF ExtensionsInv

\* What every state of the loading and unloading of extensions satisfies.
THEOREM ExtensionsInvariance == Spec => []ExtensionsInv
BY ExtensionsInvInit, ExtensionsInvNext, PTL DEF Spec

\* Every variable keeps its type.
THEOREM TypeCorrect == Spec => []TypeOK
<1>1. ExtensionsInv => TypeOK
  BY DEF ExtensionsInv
<1> QED
  BY <1>1, ExtensionsInvariance, PTL

\* While shell.tray runs besides the Explorer it has hooked it gets its messages,
\* no hook outlives it, and a handle left in the shared section refuses one start
\* at most (tray-hook.c:47-76, tray.c:449-527, 606-689).
THEOREM HookBelongsToTray == Spec => []HookIsOurs
<1>1. ExtensionsInv => HookIsOurs
  BY DEF ExtensionsInv, HookInv
<1> QED
  BY <1>1, ExtensionsInvariance, PTL

\* In whatever order extensions are unloaded, data of shell.tray is used after its
\* end only if the Explorer that was hooked has ended besides cereja
\* (builtins.c:328, tray.c:508-527).
THEOREM OrderDoesNotMatter == Spec => []OrderIsHarmless
<1>1. ExtensionsInv => OrderIsHarmless
  BY DEF ExtensionsInv, OffInv, RunningInv, UnloadingInv, OrderIsHarmless, TypeOK
<1> QED
  BY <1>1, ExtensionsInvariance, PTL

-----------------------------------------------------------------------------
(* What require returns                                                    *)

\* What a module needs is a sequence of modules.
LEMMA NeedsTyped ==
  ASSUME NEW m \in Mod
  PROVE  /\ Needs[m] \in Seq(Mod) /\ Len(Needs[m]) \in Nat
         /\ DOMAIN Needs[m] = 1..Len(Needs[m])
         /\ \A j \in 1..Len(Needs[m]) : Needs[m][j] \in Mod
         /\ Needs[m] = <<>> => Len(Needs[m]) = 0
<1>1. Needs[m] \in Seq(Mod)
  BY ModAssumption
<1> QED
  BY <1>1, LenProperties, ElementOfSeq, EmptySeq

\* A module of which every chunk stays where it is is as reliable as before.
LEMMA StaysReliable ==
  ASSUME NEW m \in Mod, ReliableIs(m), up \subseteq up',
         package_loaded'[m] = "module" => package_loaded[m] = "module",
         \A k \in DOMAIN stack : stack[k].chunk /\ stack[k].mod = m
           => k \in DOMAIN stack' /\ stack'[k] = stack[k]
  PROVE  ReliableIs(m)'
<1>1. ChunksAt(m, Partial(m))' = {} => ChunksAt(m, Partial(m)) = {}
  BY DEF ChunksAt, Partial
<1>2. ChunksAt(m, Place)' = {} => ChunksAt(m, Place) = {}
  BY DEF ChunksAt
<1> QED
  BY <1>1, <1>2 DEF ReliableIs

\* A module whose chunk is at the top of the stack after a step is reliable if it is
\* up, if its chunk is on its way there, or if that was so before and the chunk does
\* not count: module() comes late, or never, and the chunk was not at its loading.
LEMMA TopReliable ==
  ASSUME TypeOK, stack' \in Seq(Frame), stack' # <<>>,
         NEW f \in Frame, f.chunk, stack'[Len(stack')] = f,
         \/ f.mod \in up'
         \/ f.at \in Partial(f.mod)
         \/ /\ package_loaded'[f.mod] = package_loaded[f.mod]
            /\ ReliableIs(f.mod) /\ up \subseteq up'
            /\ stack # <<>> /\ Top.at \notin Partial(f.mod)
            /\ Len(stack') = Len(stack)
            /\ \A k \in 1..Len(stack) - 1 : stack'[k] = stack[k]
  PROVE  ReliableIs(f.mod)'
<1>1. Len(stack') \in Nat \ {0} /\ DOMAIN stack' = 1..Len(stack') /\ Len(stack') \in DOMAIN stack'
  BY LenProperties, EmptySeq
<1>2. ChunksAt(f.mod, Place)' # {}
  BY <1>1 DEF ChunksAt, Frame
<1>3. CASE f.mod \in up'
  BY <1>2, <1>3 DEF ReliableIs
<1>4. CASE f.at \in Partial(f.mod)
  <2>1. ChunksAt(f.mod, Partial(f.mod))' # {}
    BY <1>1, <1>4 DEF ChunksAt, Partial
  <2> QED
    BY <1>2, <2>1 DEF ReliableIs
<1>5. CASE /\ package_loaded'[f.mod] = package_loaded[f.mod]
           /\ ReliableIs(f.mod) /\ up \subseteq up'
           /\ stack # <<>> /\ Top.at \notin Partial(f.mod)
           /\ Len(stack') = Len(stack)
           /\ \A k \in 1..Len(stack) - 1 : stack'[k] = stack[k]
  <2>1. DOMAIN stack' = DOMAIN stack /\ Top = stack[Len(stack)]
    BY <1>1, <1>5, Typed
  <2>2. \A k \in DOMAIN stack : k # Len(stack) => stack'[k] = stack[k]
    BY <1>1, <1>5, <2>1, Frames1
  <2>3. ChunksAt(f.mod, Partial(f.mod)) \subseteq ChunksAt(f.mod, Partial(f.mod))'
    BY <1>5, <2>1, <2>2 DEF ChunksAt, Partial
  <2> QED
    BY <1>2, <1>5, <2>3 DEF ReliableIs
<1> QED
  BY <1>3, <1>4, <1>5

\* What is loaded, or being loaded by somebody else, is up.
LEMMA LoadedIsUp ==
  ASSUME TypeOK, LoadInv, stack # <<>>, Top.at \notin Loadings,
         loaded_extensions[Top.mod] # "nil"
  PROVE  Top.mod \in up
<1>1. Top \in Frame /\ Top = stack[Len(stack)] /\ Len(stack) \in DOMAIN stack
  BY Typed
<1>2. Top.mod \in Mod
  BY <1>1 DEF Frame
<1>3. CASE loaded_extensions[Top.mod] = "hmodule"
  BY <1>2, <1>3 DEF LoadInv, Registered
<1>4. CASE loaded_extensions[Top.mod] = "true"
  <2>1. PICK k \in DOMAIN stack : stack[k].mod = Top.mod /\ stack[k].at \in Loadings
    BY <1>2, <1>4 DEF LoadInv, OneLoading
  <2>2. k \in 1..Len(stack) - 1
    <3>1. Len(stack) \in Nat /\ k \in 1..Len(stack)
      BY Typed
    <3>2. k # Len(stack)
      BY <1>1, <2>1
    <3> QED
      BY <3>1, <3>2
  <2>3. stack[k].at = "com"
    BY <2>1, <2>2 DEF LoadInv, Beneath, Loadings
  <2> QED
    BY <2>1, <2>3 DEF LoadInv, Placing
<1> QED
  BY <1>2, <1>3, <1>4 DEF TypeOK

\* The value that require finds for a module that is needed stands for an extension
\* that is there.
LEMMA NeededIsUp ==
  ASSUME TypeOK, LoadInv, Waiting, Reliable, Progress, NeedsAreSimple,
         Needing, package_loaded[NextNeed] = "module"
  PROVE  NextNeed \in up
<1>1. stack # <<>> /\ Top.at = "needs" /\ Top.i < Len(Needs[Top.mod])
  BY DEF Needing, At
<1>2. /\ Len(stack) \in Nat \ {0} /\ DOMAIN stack = 1..Len(stack)
      /\ Top \in Frame /\ Top = stack[Len(stack)]
      /\ \A k \in DOMAIN stack : stack[k] \in Frame
  BY <1>1, Typed
<1>3. Top.mod \in Mod /\ Top.i \in Nat
  BY <1>2 DEF Frame
<1>4. /\ Top.i + 1 \in DOMAIN Needs[Top.mod] /\ NextNeed \in Mod
      /\ Needs[Top.mod] # <<>>
  BY <1>1, <1>3, NeedsTyped DEF NextNeed
<1>5. ASSUME NEW k \in ChunksAt(NextNeed, Partial(NextNeed))
      PROVE  FALSE
  <2>1. k \in DOMAIN stack /\ stack[k].mod = NextNeed /\ stack[k].at \in Partial(NextNeed)
    BY <1>5 DEF ChunksAt
  <2>2. CASE k = Len(stack)
    <3>1. Top.mod = NextNeed /\ "needs" \in Partial(NextNeed)
      BY <1>1, <1>2, <2>1, <2>2
    <3>2. ModuleCall[NextNeed] = "first"
      BY <3>1 DEF Partial
    <3>3. Needs[NextNeed] = <<>>
      BY <1>3, <1>4, <3>2 DEF NeedsAreSimple, NextNeed
    <3> QED
      BY <1>4, <3>1, <3>3
  <2>3. CASE k # Len(stack)
    <3>1. k \in 1..Len(stack) - 1
      BY <1>2, <2>1, <2>3
    <3>2. stack[k].at \in {"needs", "box"}
      BY <2>1, <3>1 DEF LoadInv, Beneath, Partial
    <3>3. ModuleCall[NextNeed] = "first"
      BY <2>1, <3>2 DEF Partial
    <3>4. Needs[NextNeed] = <<>> /\ NextNeed \notin Chatty
      BY <1>3, <1>4, <3>3 DEF NeedsAreSimple, NextNeed
    <3>5. stack[k].at = "needs" => Needs[NextNeed] # <<>>
      BY <2>1, <3>1 DEF Waiting
    <3>6. stack[k].at = "box" => NextNeed \in Chatty
      BY <2>1 DEF Progress, OnItsWay
    <3> QED
      BY <3>2, <3>4, <3>5, <3>6
  <2> QED
    BY <2>2, <2>3
<1>6. ChunksAt(NextNeed, Partial(NextNeed)) = {}
  BY <1>5
<1> QED
  BY <1>4, <1>6 DEF Reliable, ReliableIs

\* A step that puts a frame on the stack, or changes the top one.
LEMMA TopWorks ==
  ASSUME TypeOK, Works,
         stack' \in Seq(Frame), Len(stack') \in Nat \ {0},
         NEW f \in Frame, stack'[Len(stack')] = f,
         \A k \in 1..Len(stack') - 1 : stack'[k] = stack[k],
         up \subseteq up',
         \/ /\ Len(stack') = Len(stack) + 1
            /\ stack # <<>> /\ Top.at = "needs" => Needs[Top.mod] # <<>>
         \/ /\ Len(stack') = Len(stack) /\ stack # <<>>
            /\ Top.mod = f.mod /\ Top.chunk = f.chunk,
         OnItsWay(f)',
         \A m \in Mod : m # f.mod \/ ~f.chunk
           => (package_loaded'[m] = "module" => package_loaded[m] = "module"),
         f.chunk => ReliableIs(f.mod)'
  PROVE  Works'
<1>1. /\ Len(stack) \in Nat /\ DOMAIN stack = 1..Len(stack)
      /\ stack # <<>> => Len(stack) \in DOMAIN stack /\ Top = stack[Len(stack)]
  BY Typed
<1>2. /\ DOMAIN stack' = 1..Len(stack') /\ Len(stack') \in DOMAIN stack'
      /\ \A k \in DOMAIN stack' : k # Len(stack') =>
           k \in DOMAIN stack /\ stack'[k] = stack[k]
      /\ \A k \in DOMAIN stack : k \in DOMAIN stack'
      /\ \A k \in DOMAIN stack : k = Len(stack') \/ stack'[k] = stack[k]
      /\ Len(stack') = Len(stack) + 1 => \A k \in DOMAIN stack : k # Len(stack')
  BY Frames1
<1>3. \A g : OnItsWay(g) => OnItsWay(g)'
  BY DEF OnItsWay
<1>4. Progress'
  BY <1>2, <1>3 DEF Works, Progress
<1>5. Waiting'
  <2> SUFFICES ASSUME NEW k \in 1..Len(stack') - 1, stack[k].at = "needs"
               PROVE  Needs[stack[k].mod] # <<>>
    BY DEF Waiting
  <2>1. CASE k \in 1..Len(stack) - 1
    BY <2>1 DEF Works, Waiting
  <2>2. CASE k \notin 1..Len(stack) - 1
    <3>1. /\ k = Len(stack) /\ Len(stack') = Len(stack) + 1 /\ Len(stack) # 0
          /\ Len(stack') # Len(stack)
      <4> DEFINE n == Len(stack')
                 o == Len(stack)
      <4>1. n \in Nat /\ o \in Nat /\ (n = o + 1 \/ n = o) /\ k \in 1..n - 1 /\ k \notin 1..o - 1
        BY <1>1, <2>2
      <4> HIDE DEF n, o
      <4>2. k = o /\ n = o + 1 /\ o # 0 /\ n # o
        BY <4>1
      <4> QED
        BY <4>2 DEF n, o
    <3>2. stack # <<>>
      BY <3>1, Typed, EmptySeq
    <3>3. Top.at = "needs" /\ Top.mod = stack[k].mod
      BY <1>1, <3>1, <3>2
    <3> QED
      BY <3>1, <3>2, <3>3
  <2> QED
    BY <2>1, <2>2
<1>6. ASSUME NEW m \in Mod
      PROVE  ReliableIs(m)'
  <2>1. CASE m = f.mod /\ f.chunk
    BY <2>1
  <2>2. CASE ~(m = f.mod /\ f.chunk)
    <3>1. \A k \in DOMAIN stack : stack[k].chunk /\ stack[k].mod = m
            => k \in DOMAIN stack' /\ stack'[k] = stack[k]
      BY <1>1, <1>2, <2>2
    <3>2. ReliableIs(m)
      BY DEF Works, Reliable
    <3> QED
      BY <2>2, <3>1, <3>2, StaysReliable
  <2> QED
    BY <2>1, <2>2
<1> QED
  BY <1>4, <1>5, <1>6 DEF Works, Reliable

\* A step that takes frames off the stack.
LEMMA ShorterWorks ==
  ASSUME TypeOK, Works, stack # <<>>,
         NEW n \in 0..Len(stack) - 1, stack' = SubSeq(stack, 1, n),
         up \subseteq up',
         \A m \in Mod :
           \/ /\ package_loaded'[m] = "module" => package_loaded[m] = "module"
              /\ \A k \in n + 1..Len(stack) : ~(stack[k].chunk /\ stack[k].mod = m)
           \/ ReliableIs(m)'
  PROVE  Works'
<1>1. /\ Len(stack) \in Nat \ {0} /\ DOMAIN stack = 1..Len(stack) /\ stack \in Seq(Frame)
  BY Typed
<1>2. n \in Nat /\ n < Len(stack) /\ n \in 0..Len(stack)
  BY <1>1
<1>3. Len(stack') = n /\ stack' \in Seq(Frame) /\ \A k \in 1..n : stack'[k] = stack[k]
  BY <1>1, <1>2, Cut
<1>4. DOMAIN stack' = 1..n
  BY <1>3, LenProperties
<1>5. /\ \A k \in 1..n : k \in 1..Len(stack)
      /\ \A k \in 1..n - 1 : k \in 1..Len(stack) - 1 /\ k \in 1..n
      /\ \A k \in 1..Len(stack) : k \in 1..n \/ k \in n + 1..Len(stack)
  BY <1>1, <1>2
<1>6. \A g : OnItsWay(g) => OnItsWay(g)'
  BY DEF OnItsWay
<1>7. Progress'
  BY <1>1, <1>3, <1>4, <1>5, <1>6 DEF Works, Progress
<1>8. Waiting'
  BY <1>3, <1>5 DEF Works, Waiting
<1>9. ASSUME NEW m \in Mod, package_loaded'[m] = "module" => package_loaded[m] = "module",
             \A k \in n + 1..Len(stack) : ~(stack[k].chunk /\ stack[k].mod = m)
      PROVE  ReliableIs(m)'
  <2>1. \A k \in DOMAIN stack : stack[k].chunk /\ stack[k].mod = m
          => k \in DOMAIN stack' /\ stack'[k] = stack[k]
    BY <1>1, <1>3, <1>4, <1>5, <1>9
  <2> QED
    BY <1>9, <2>1, StaysReliable DEF Works, Reliable
<1> QED
  BY <1>7, <1>8, <1>9 DEF Works, Reliable

\* A module that is not in package.loaded promises nothing.
LEMMA Forgotten ==
  ASSUME NEW m \in Mod, package_loaded'[m] # "module"
  PROVE  ReliableIs(m)'
BY DEF ReliableIs

\* The chunk of a module begins.
LEMMA EntersWorks ==
  ASSUME TypeOK, LoadInv, Works, NEW m \in Mod, Enter(m),
         stack # <<>> /\ Top.at = "needs" => Needs[Top.mod] # <<>>,
         UNCHANGED up
  PROVE  Works'
<1> DEFINE f == [mod |-> m, chunk |-> TRUE, i |-> 0, at |-> "needs"]
<1>1. /\ f \in Frame /\ f.mod = m /\ f.chunk /\ f.at = "needs" /\ f.i = 0
  BY DEF Frame, Place
<1>2. /\ stack' = Append(stack, f)
      /\ package_loaded' = [package_loaded EXCEPT
                             ![m] = IF ModuleCall[m] = "first" THEN "module" ELSE "sentinel"]
  BY DEF Enter
<1> HIDE DEF f
<1>3. /\ Len(stack) \in Nat /\ stack' \in Seq(Frame) /\ Len(stack') = Len(stack) + 1
      /\ stack'[Len(stack) + 1] = f
      /\ \A k \in 1..Len(stack) : stack'[k] = stack[k]
  BY <1>1, <1>2, Typed, Pushed
<1>4. /\ Len(stack') \in Nat \ {0} /\ stack'[Len(stack')] = f
      /\ \A k \in 1..Len(stack') - 1 : stack'[k] = stack[k]
  BY <1>3
<1>5. OnItsWay(f)'
  BY <1>1, NeedsTyped DEF OnItsWay
<1>6. ReliableIs(m)'
  <2>1. CASE ModuleCall[m] = "first"
    <3>1. f.at \in Partial(f.mod)
      BY <1>1, <2>1 DEF Partial
    <3>2. stack' # <<>>
      BY <1>4, EmptySeq
    <3> QED
      BY <1>1, <1>3, <1>4, <3>1, <3>2, TopReliable
  <2>2. CASE ModuleCall[m] # "first"
    <3>1. package_loaded'[m] # "module"
      BY <1>2, <2>2 DEF TypeOK
    <3> QED
      BY <3>1, Forgotten
  <2> QED
    BY <2>1, <2>2
<1>7. \A x \in Mod : x # m => package_loaded'[x] = package_loaded[x]
  BY <1>2 DEF TypeOK
<1> QED
  BY <1>1, <1>3, <1>4, <1>5, <1>6, <1>7, TopWorks

\* An error.
LEMMA UnwindWorks ==
  ASSUME TypeOK, Works, stack # <<>>, stack' = SubSeq(stack, 1, Kept), UNCHANGED up,
         \A m \in Mod :
           \/ package_loaded'[m] = "nil"
           \/ /\ package_loaded'[m] = package_loaded[m]
              /\ ~ \E f \in Ended : f.chunk /\ f.mod = m
  PROVE  Works'
<1>1. Kept \in 0..Len(stack) - 1
  BY Typed, KeptFrames
<1>2. ASSUME NEW m \in Mod
      PROVE  \/ /\ package_loaded'[m] = "module" => package_loaded[m] = "module"
                /\ \A k \in Kept + 1..Len(stack) : ~(stack[k].chunk /\ stack[k].mod = m)
             \/ ReliableIs(m)'
  <2>1. CASE package_loaded'[m] = "nil"
    BY <2>1, Forgotten
  <2>2. CASE /\ package_loaded'[m] = package_loaded[m]
             /\ ~ \E f \in Ended : f.chunk /\ f.mod = m
    BY <2>2 DEF Ended
  <2> QED
    BY <2>1, <2>2
<1> QED
  BY <1>1, <1>2, ShorterWorks

\* The chunk at the top goes on to another place.
LEMMA GoesOnWorks ==
  ASSUME TypeOK, Works, stack # <<>>,
         NEW place \in Place, stack' = Goto(place), up \subseteq up',
         NEW f, f = [Top EXCEPT !.at = place], OnItsWay(f)',
         \A m \in Mod : m # Top.mod \/ ~Top.chunk
           => (package_loaded'[m] = "module" => package_loaded[m] = "module"),
         Top.chunk =>
           \/ Top.mod \in up'
           \/ place \in Partial(Top.mod)
           \/ /\ package_loaded'[Top.mod] = package_loaded[Top.mod]
              /\ Top.at \notin Partial(Top.mod)
  PROVE  Works'
<1>1. /\ Len(stack) \in Nat \ {0} /\ Len(stack) \in DOMAIN stack
      /\ Top \in Frame /\ Top = stack[Len(stack)]
  BY Typed
<1>2. /\ f \in Frame /\ f.at = place /\ f.chunk = Top.chunk /\ f.mod = Top.mod
      /\ f.mod \in Mod
  BY <1>1 DEF Frame
<1>3. /\ stack' \in Seq(Frame) /\ Len(stack') = Len(stack)
      /\ stack'[Len(stack)] = f
      /\ \A k \in 1..Len(stack) - 1 : stack'[k] = stack[k]
  BY Goes
<1>5. /\ stack' # <<>> /\ Len(stack') \in Nat \ {0} /\ stack'[Len(stack')] = f
      /\ \A k \in 1..Len(stack') - 1 : stack'[k] = stack[k]
  BY <1>1, <1>3, EmptySeq
<1>6. ReliableIs(f.mod)
  BY <1>2 DEF Works, Reliable
<1>7. ASSUME f.chunk PROVE ReliableIs(f.mod)'
  <2>1. \/ f.mod \in up'
        \/ f.at \in Partial(f.mod)
        \/ /\ package_loaded'[f.mod] = package_loaded[f.mod]
           /\ Top.at \notin Partial(f.mod)
    BY <1>2, <1>7
  <2> QED
    BY <1>2, <1>3, <1>5, <1>6, <1>7, <2>1, TopReliable
<1>8. \A m \in Mod : m # f.mod \/ ~f.chunk
        => (package_loaded'[m] = "module" => package_loaded[m] = "module")
  BY <1>2
<1> QED
  BY <1>2, <1>3, <1>5, <1>7, <1>8, TopWorks

\* The chunk at the top has one more of the modules it needs.
LEMMA RequiredWorks ==
  ASSUME TypeOK, LoadInv, Works, NeedsAreSimple, Required,
         UNCHANGED <<up, another>>
  PROVE  Works'
<1> PICK f : f = [Top EXCEPT !.i = @ + 1]
  OBVIOUS
<1>1. /\ Needing /\ package_loaded[NextNeed] = "module"
      /\ stack # <<>> /\ Top.at = "needs" /\ Top.i < Len(Needs[Top.mod])
      /\ UNCHANGED package_loaded
  BY DEF Required, Needing, At
<1>2. /\ stack' \in Seq(Frame) /\ Len(stack') = Len(stack) /\ Len(stack) \in Nat \ {0}
      /\ stack'[Len(stack)] = f
      /\ \A k \in 1..Len(stack) - 1 : stack'[k] = stack[k]
  BY RequiredKeeps
<1>3. Top \in Frame /\ Top = stack[Len(stack)] /\ Len(stack) \in DOMAIN stack
  BY <1>1, Typed
<1>4. /\ f \in Frame /\ f.at = "needs" /\ f.chunk = Top.chunk /\ f.mod = Top.mod
      /\ f.i = Top.i + 1 /\ Top.i \in Nat /\ Top.mod \in Mod
  BY <1>1, <1>3 DEF Frame
<1>5. Needs[Top.mod][Top.i + 1] \in up
  BY <1>1, NeededIsUp DEF Works, NextNeed
<1>6. OnItsWay(Top)
  BY <1>3 DEF Works, Progress
<1>7. OnItsWay(f)'
  <2>1. f.i <= Len(Needs[f.mod])
    BY <1>1, <1>4, NeedsTyped
  <2>2. ASSUME f.chunk, NEW j \in 1..f.i PROVE Needs[f.mod][j] \in up'
    <3>1. CASE j = Top.i + 1
      BY <1>4, <1>5, <3>1
    <3>2. CASE j # Top.i + 1
      <4>1. j \in 1..Top.i
        BY <1>4, <2>2, <3>2
      <4> QED
        BY <1>4, <1>6, <2>2, <4>1 DEF OnItsWay
    <3> QED
      BY <3>1, <3>2
  <2>3. f.at = "needs"
    BY <1>4
  <2> QED
    BY <2>1, <2>2, <2>3 DEF OnItsWay
<1>8. /\ stack' # <<>> /\ Len(stack') \in Nat \ {0} /\ stack'[Len(stack')] = f
      /\ \A k \in 1..Len(stack') - 1 : stack'[k] = stack[k]
  BY <1>2, EmptySeq
<1>9. ASSUME f.chunk PROVE ReliableIs(f.mod)'
  <2>1. ReliableIs(f.mod)
    BY <1>4 DEF Works, Reliable
  <2>2. f.at \in Partial(f.mod) \/ Top.at \notin Partial(f.mod)
    BY <1>1, <1>4
  <2>3. package_loaded'[f.mod] = package_loaded[f.mod] /\ up \subseteq up' /\ stack # <<>>
    BY <1>1
  <2> QED
    BY <1>2, <1>4, <1>8, <1>9, <2>1, <2>2, <2>3, TopReliable
<1>10. \A m \in Mod : package_loaded'[m] = "module" => package_loaded[m] = "module"
  BY <1>1
<1>11. up \subseteq up'
  OBVIOUS
<1> QED
  BY <1>1, <1>2, <1>4, <1>7, <1>8, <1>9, <1>10, <1>11, TopWorks

\* require, module() and load_extension.
LEMMA RequireWorks ==
  ASSUME TypeOK, LoadInv, Works, NeedsAreSimple, Require
  PROVE  Works'
<1> USE DEF Require
<1>0. UNCHANGED <<up, another>>
  OBVIOUS
<1>1. ASSUME NEW m \in Mod, ScriptRequires(m)
      PROVE  Works'
  BY <1>1, ScriptTop, EntersWorks DEF ScriptRequires
<1>2. ASSUME NEW m \in Mod, ScriptLoops(m)
      PROVE  Works'
  <2>1. UNCHANGED <<stack, up>>
    BY <1>2 DEF ScriptLoops
  <2>2. ASSUME NEW x \in Mod
        PROVE  ReliableIs(x)'
    <3>1. package_loaded'[x] = "module" => package_loaded[x] = "module"
      BY <1>2 DEF ScriptLoops, TypeOK
    <3>2. ReliableIs(x) /\ up \subseteq up'
      BY <2>1 DEF Works, Reliable
    <3> QED
      BY <2>1, <3>1, <3>2, StaysReliable
  <2> QED
    BY <2>1, <2>2 DEF Works, Waiting, Reliable, Progress, OnItsWay
<1>3. ASSUME NEW m \in Mod, ScriptLoads(m)
      PROVE  Works'
  <2> PICK f : f = [mod |-> m, chunk |-> FALSE, i |-> 0, at |-> "loading"]
    OBVIOUS
  <2>1. f \in Frame /\ f.at = "loading" /\ f.mod = m /\ ~f.chunk /\ f.i = 0
    BY DEF Frame, Place
  <2>2. stack' = Append(stack, f) /\ UNCHANGED <<package_loaded, up>>
    BY <1>3 DEF ScriptLoads
  <2>3. /\ Len(stack) \in Nat /\ stack' \in Seq(Frame) /\ Len(stack') = Len(stack) + 1
        /\ stack'[Len(stack) + 1] = f
        /\ \A k \in 1..Len(stack) : stack'[k] = stack[k]
    BY <2>1, <2>2, Typed, Pushed
  <2>4. /\ Len(stack') \in Nat \ {0} /\ stack'[Len(stack')] = f
        /\ \A k \in 1..Len(stack') - 1 : stack'[k] = stack[k]
    BY <2>3
  <2>5. stack # <<>> => Top.at # "needs"
    BY <1>3, ScriptTop DEF ScriptLoads
  <2>6. OnItsWay(f)'
    BY <2>1, NeedsTyped DEF OnItsWay
  <2> QED
    BY <2>1, <2>2, <2>3, <2>4, <2>5, <2>6, TopWorks
<1>4. CASE ModuleRequires
  <2>1. stack # <<>> /\ Top.at = "needs" /\ Top.i < Len(Needs[Top.mod]) /\ Enter(NextNeed)
    BY <1>4 DEF ModuleRequires, Needing, At
  <2>2. Top.mod \in Mod /\ Top.i \in Nat
    BY <2>1, Typed DEF Frame
  <2>3. NextNeed \in Mod /\ Needs[Top.mod] # <<>>
    <3>1. Top.i + 1 \in 1..Len(Needs[Top.mod])
      BY <2>1, <2>2, NeedsTyped
    <3> QED
      BY <2>1, <2>2, <3>1, NeedsTyped DEF NextNeed
  <2> QED
    BY <2>1, <2>3, EntersWorks
<1>5. CASE Required
  BY <1>0, <1>5, RequiredWorks
<1>6. CASE ModuleLoops
  <2>1. stack # <<>> /\ stack' = SubSeq(stack, 1, Kept)
    BY <1>6 DEF ModuleLoops, Needing, At
  <2>2. \A m \in Mod :
          \/ package_loaded'[m] = "nil"
          \/ /\ package_loaded'[m] = package_loaded[m]
             /\ ~ \E f \in Ended : f.chunk /\ f.mod = m
    BY <1>6 DEF ModuleLoops
  <2> QED
    BY <2>1, <2>2, UnwindWorks
<1>7. CASE ChunkFails
  <2>1. stack # <<>> /\ stack' = SubSeq(stack, 1, Kept)
    BY <1>7 DEF ChunkFails, At, Unwind
  <2>2. \A m \in Mod :
          \/ package_loaded'[m] = "nil"
          \/ /\ package_loaded'[m] = package_loaded[m]
             /\ ~ \E f \in Ended : f.chunk /\ f.mod = m
    BY <1>7 DEF ChunkFails, Unwind
  <2> QED
    BY <2>1, <2>2, UnwindWorks
<1>8. ASSUME stack # <<>>
      PROVE  /\ Top \in Frame /\ Top.mod \in Mod /\ OnItsWay(Top)
             /\ Top.at \in {"needs", "box", "own", "rest"} => Top.chunk
             /\ Top.at = "loading" => Top.mod \notin up
  <2>1. Top \in Frame /\ Top = stack[Len(stack)] /\ Len(stack) \in DOMAIN stack
    BY <1>8, Typed
  <2> QED
    BY <2>1 DEF Frame, Works, Progress, LoadInv, Placing
<1>9. CASE HasNeeds
  <2> PICK place : place = IF Top.mod \in Chatty THEN "box" ELSE "own"
    OBVIOUS
  <2>1. /\ stack # <<>> /\ Top.at = "needs" /\ Top.i = Len(Needs[Top.mod])
        /\ stack' = Goto(place) /\ UNCHANGED package_loaded
    BY <1>9 DEF HasNeeds, At
  <2>2. place \in Place
    BY DEF Place
  <2> PICK f : f = [Top EXCEPT !.at = place]
    OBVIOUS
  <2>3. f.mod = Top.mod /\ f.i = Top.i /\ f.at = place /\ f.chunk = Top.chunk
    BY <1>8, <2>1 DEF Frame
  <2>4. OnItsWay(f)'
    BY <1>8, <2>1, <2>3 DEF OnItsWay
  <2>5. place \in Partial(Top.mod) \/ Top.at \notin Partial(Top.mod)
    BY <2>1 DEF Partial
  <2> QED
    BY <2>1, <2>2, <2>4, <2>5, GoesOnWorks
<1>10. CASE DismissBox
  <2>1. /\ stack # <<>> /\ Top.at = "box" /\ stack' = Goto("own") /\ UNCHANGED package_loaded
    BY <1>10 DEF DismissBox, At
  <2>2. "own" \in Place
    BY DEF Place
  <2> PICK f : f = [Top EXCEPT !.at = "own"]
    OBVIOUS
  <2>3. f.mod = Top.mod /\ f.i = Top.i /\ f.at = "own" /\ f.chunk = Top.chunk
    BY <1>8, <2>1 DEF Frame
  <2>4. OnItsWay(f)'
    BY <1>8, <2>1, <2>3 DEF OnItsWay
  <2>5. "own" \in Partial(Top.mod) \/ Top.at \notin Partial(Top.mod)
    BY <2>1 DEF Partial
  <2> QED
    BY <2>1, <2>2, <2>4, <2>5, GoesOnWorks
<1>11. CASE AlreadyLoaded
  <2>1. /\ stack # <<>> /\ Top.at = "own" /\ stack' = Goto("rest")
        /\ loaded_extensions[Top.mod] # "nil"
        /\ package_loaded' = ModuleCalled(Top.mod)
    BY <1>11 DEF AlreadyLoaded, At
  <2>2. "rest" \in Place
    BY DEF Place
  <2> PICK f : f = [Top EXCEPT !.at = "rest"]
    OBVIOUS
  <2>3. f.mod = Top.mod /\ f.i = Top.i /\ f.at = "rest" /\ f.chunk = Top.chunk
    BY <1>8, <2>1 DEF Frame
  <2>4. Top.mod \in up
    BY <2>1, LoadedIsUp DEF Loadings
  <2>5. OnItsWay(f)'
    BY <1>8, <2>1, <2>3, <2>4 DEF OnItsWay
  <2>6. \A m \in Mod : m # Top.mod => package_loaded'[m] = package_loaded[m]
    BY <2>1 DEF ModuleCalled, TypeOK
  <2> QED
    BY <1>8, <2>1, <2>2, <2>4, <2>5, <2>6, GoesOnWorks
<1>12. CASE load_extension
  <2>1. /\ stack # <<>> /\ Top.at = "own" /\ stack' = Goto("loading")
        /\ package_loaded' = ModuleCalled(Top.mod)
    BY <1>12 DEF load_extension, At
  <2>2. "loading" \in Place
    BY DEF Place
  <2> PICK f : f = [Top EXCEPT !.at = "loading"]
    OBVIOUS
  <2>3. f.mod = Top.mod /\ f.i = Top.i /\ f.at = "loading" /\ f.chunk = Top.chunk
    BY <1>8, <2>1 DEF Frame
  <2>4. OnItsWay(f)'
    BY <1>8, <2>1, <2>3 DEF OnItsWay
  <2>5. \A m \in Mod : m # Top.mod => package_loaded'[m] = package_loaded[m]
    BY <2>1 DEF ModuleCalled, TypeOK
  <2>6. "loading" \in Partial(Top.mod)
    BY DEF Partial
  <2> QED
    BY <1>8, <2>1, <2>2, <2>4, <2>5, <2>6, GoesOnWorks
<1>13. CASE ChunkEnds
  <2>1. /\ stack # <<>> /\ Top.at = "rest" /\ stack' = SubSeq(stack, 1, Len(stack) - 1)
        /\ package_loaded' = [package_loaded EXCEPT
                               ![Top.mod] = IF @ = "sentinel" THEN "module" ELSE @]
    BY <1>13 DEF ChunkEnds, At
  <2>2. Len(stack) \in Nat \ {0} /\ Len(stack) - 1 \in 0..Len(stack) - 1
    BY <2>1, Typed
  <2>3. ASSUME NEW m \in Mod
        PROVE  \/ /\ package_loaded'[m] = "module" => package_loaded[m] = "module"
                  /\ \A k \in (Len(stack) - 1) + 1..Len(stack) :
                       ~(stack[k].chunk /\ stack[k].mod = m)
               \/ ReliableIs(m)'
    <3>1. CASE m = Top.mod
      <4>1. m \in up' /\ Top.i = Len(Needs[m]) /\ \A j \in 1..Top.i : Needs[m][j] \in up'
        BY <1>8, <2>1, <3>1 DEF OnItsWay
      <4>2. \A j \in DOMAIN Needs[m] : Needs[m][j] \in up'
        BY <4>1, NeedsTyped
      <4> QED
        BY <4>1, <4>2 DEF ReliableIs
    <3>2. CASE m # Top.mod
      <4>1. package_loaded'[m] = package_loaded[m]
        BY <2>1, <3>2 DEF TypeOK
      <4>2. \A k \in (Len(stack) - 1) + 1..Len(stack) : k = Len(stack)
        BY <2>2
      <4> QED
        BY <2>1, <3>2, <4>1, <4>2, Typed
    <3> QED
      BY <3>1, <3>2
  <2>4. up \subseteq up'
    OBVIOUS
  <2> QED
    BY <2>1, <2>2, <2>3, <2>4, ShorterWorks
<1> QED
  BY <1>1, <1>2, <1>3, <1>4, <1>5, <1>6, <1>7, <1>9, <1>10, <1>11, <1>12, <1>13

\* What ends the loading of an extension that has been created.
LEMMA LoadedWorks ==
  ASSUME TypeOK, LoadInv, Works, stack # <<>>, Top.at \in Loadings, Loaded,
         up' = up \cup {Top.mod}
  PROVE  Works'
<1>1. /\ Top \in Frame /\ Top.mod \in Mod /\ OnItsWay(Top)
      /\ Len(stack) \in Nat \ {0} /\ Top = stack[Len(stack)]
  BY Typed DEF Frame, Works, Progress
<1>2. UNCHANGED package_loaded
  BY DEF Loaded
<1>3. CASE Top.chunk
  <2>1. stack' = Goto("rest") /\ "rest" \in Place
    BY <1>3 DEF Loaded, Place
  <2> PICK f : f = [Top EXCEPT !.at = "rest"]
    OBVIOUS
  <2>2. f.mod = Top.mod /\ f.i = Top.i /\ f.at = "rest" /\ f.chunk = Top.chunk
    BY <1>1 DEF Frame
  <2>3. Top.at # "needs"
    BY DEF Loadings
  <2>4. OnItsWay(f)'
    BY <1>1, <2>2, <2>3 DEF OnItsWay
  <2> QED
    BY <1>1, <1>2, <2>1, <2>4, GoesOnWorks
<1>4. CASE ~Top.chunk
  <2>1. stack' = SubSeq(stack, 1, Len(stack) - 1) /\ Len(stack) - 1 \in 0..Len(stack) - 1
    BY <1>1, <1>4 DEF Loaded
  <2>2. \A k \in (Len(stack) - 1) + 1..Len(stack) : k = Len(stack)
    BY <1>1
  <2>3. \A m \in Mod :
          /\ package_loaded'[m] = "module" => package_loaded[m] = "module"
          /\ \A k \in (Len(stack) - 1) + 1..Len(stack) : ~(stack[k].chunk /\ stack[k].mod = m)
    BY <1>1, <1>2, <1>4, <2>2
  <2>4. up \subseteq up'
    OBVIOUS
  <2> QED
    BY <2>1, <2>3, <2>4, ShorterWorks
<1> QED
  BY <1>3, <1>4

\* Crj_ExtMain.
LEMMA LoadWorks ==
  ASSUME TypeOK, LoadInv, Works, Load
  PROVE  Works'
<1>1. CASE Create
  BY <1>1, LoadedWorks DEF Create, At, Loadings
<1>2. CASE CreateFails \/ CreateHookedFails
  <2>1. stack # <<>> /\ Unwind /\ UNCHANGED up
    BY <1>2 DEF CreateFails, CreateHookedFails, At
  <2>2. stack' = SubSeq(stack, 1, Kept)
    BY <2>1 DEF Unwind
  <2>3. \A m \in Mod :
          \/ package_loaded'[m] = "nil"
          \/ /\ package_loaded'[m] = package_loaded[m]
             /\ ~ \E f \in Ended : f.chunk /\ f.mod = m
    BY <2>1 DEF Unwind
  <2> QED
    BY <2>1, <2>2, <2>3, UnwindWorks
<1>3. CASE AskForShell
  <2> PICK place : place = IF explorer THEN "hook" ELSE "com"
    OBVIOUS
  <2>1. /\ stack # <<>> /\ Top.at = "loading" /\ Top.mod = tray
        /\ stack' = Goto(place) /\ UNCHANGED package_loaded
        /\ up \subseteq up' /\ (place = "com" => tray \in up')
    BY <1>3 DEF AskForShell, At
  <2>2. place \in Place /\ (place = "hook" \/ place = "com")
    BY DEF Place
  <2>3. /\ Top \in Frame /\ OnItsWay(Top)
    BY <2>1, Typed DEF Works, Progress
  <2> PICK f : f = [Top EXCEPT !.at = place]
    OBVIOUS
  <2>4. f.mod = Top.mod /\ f.i = Top.i /\ f.at = place /\ f.chunk = Top.chunk
    BY <2>3 DEF Frame
  <2>5. OnItsWay(f)'
    BY <2>1, <2>2, <2>3, <2>4 DEF OnItsWay
  <2>6. Top.mod \in up' \/ place \in Partial(Top.mod)
    BY <2>1, <2>2 DEF Partial
  <2> QED
    BY <2>1, <2>2, <2>5, <2>6, GoesOnWorks
<1>4. CASE CreateHooked
  <2>1. stack # <<>> /\ Top.at = "hook" /\ Loaded /\ up' = up \cup {tray}
    BY <1>4 DEF CreateHooked, At
  <2>2. Top.mod = tray
    BY <2>1, Typed DEF LoadInv, Placing
  <2> QED
    BY <2>1, <2>2, LoadedWorks DEF Loadings
<1>5. CASE ComEnds
  <2>1. stack # <<>> /\ Top.at = "com" /\ Loaded /\ UNCHANGED up
    BY <1>5 DEF ComEnds, At
  <2>2. Top.mod = tray /\ tray \in up
    BY <2>1, Typed DEF LoadInv, Placing
  <2> QED
    BY <2>1, <2>2, LoadedWorks DEF Loadings
<1> QED
  BY <1>1, <1>2, <1>3, <1>4, <1>5 DEF Load

\* Every step.
LEMMA WorkInvNext ==
  ASSUME ExtensionsInv, WorkInv, NeedsAreSimple, [Next]_vars
  PROVE  WorkInv'
<1>1. TypeOK /\ (state = "running" => LoadInv /\ Works)
  BY DEF ExtensionsInv, RunningInv, WorkInv
<1>2. CASE Require
  <2>1. state = "running"
    BY <1>2 DEF Require, ScriptRequires, ScriptLoops, ScriptLoads, ModuleRequires, Required,
                ModuleLoops, HasNeeds, DismissBox, ChunkFails, ChunkEnds, AlreadyLoaded,
                load_extension, ScriptsRun, Needing, At
  <2> QED
    BY <1>1, <1>2, <2>1, RequireWorks DEF WorkInv
<1>3. CASE Load
  <2>1. state = "running"
    BY <1>3 DEF Load, Create, CreateFails, AskForShell, CreateHooked, CreateHookedFails,
                ComEnds, At
  <2> QED
    BY <1>1, <1>3, <2>1, LoadWorks DEF WorkInv
<1>4. CASE Start
  <2>1. /\ stack' = <<>> /\ package_loaded' = [m \in Mod |-> "nil"]
    BY <1>4 DEF Start, ExtensionsInv, OffInv, loadVars
  <2> QED
    BY <2>1 DEF WorkInv, Works, Waiting, Reliable, ReliableIs, Progress
<1>5. ASSUME state' # "running" PROVE WorkInv'
  BY <1>5 DEF WorkInv
<1>6. CASE BeginUnload \/ Paint \/ DismissUnload \/ Exit \/ Killed
  BY <1>5, <1>6 DEF BeginUnload, Paint, DismissUnload, Exit, Killed, Reset
<1>7. ASSUME NEW m \in Mod, Unload(m) \/ UnloadPlaceholder(m)
      PROVE  WorkInv'
  BY <1>5, <1>7 DEF Unload, UnloadPlaceholder, Unloading, Reset
<1>8. CASE UNCHANGED <<state, loadVars, up>>
  BY <1>8 DEF loadVars, WorkInv, Works, Waiting, Reliable, ReliableIs, ChunksAt, Progress,
              OnItsWay, Partial
<1> QED
  BY <1>2, <1>3, <1>4, <1>6, <1>7, <1>8 DEF Next, vars

\* What the invariants say of the modules that require has returned and of the
\* placeholders.
LEMMA WorkingModules ==
  ASSUME ExtensionsInv, WorkInv
  PROVE  CompleteModulesWork
<1> SUFFICES ASSUME state = "running"
             PROVE  PlaceholderIsLoading /\ ModulesWork
  BY DEF CompleteModulesWork, PlaceholderIsLoading, ModulesWork
<1>1. TypeOK /\ LoadInv /\ Works
  BY DEF ExtensionsInv, RunningInv, WorkInv
<1>2. ASSUME NEW m \in Mod
      PROVE  IF loaded_extensions[m] = "true"
             THEN Cardinality(Frames(m, Loadings)) = 1 ELSE Frames(m, Loadings) = {}
  <2>1. CASE loaded_extensions[m] = "true"
    <3>1. PICK k \in DOMAIN stack : stack[k].mod = m /\ stack[k].at \in Loadings
      BY <1>1, <2>1 DEF LoadInv, OneLoading
    <3>2. Frames(m, Loadings) = {k}
      BY <1>1, <3>1 DEF LoadInv, OneLoading, Frames
    <3> QED
      BY <2>1, <3>2, FS_Singleton
  <2>2. CASE loaded_extensions[m] # "true"
    BY <1>1, <2>2 DEF LoadInv, Placing, Frames
  <2> QED
    BY <2>1, <2>2
<1>3. PlaceholderIsLoading
  BY <1>2 DEF PlaceholderIsLoading, Loadings
<1>4. ASSUME NEW m \in Mod, package_loaded[m] = "module", Frames(m, Place) = {}
      PROVE  m \in up /\ \A k \in DOMAIN Needs[m] : Needs[m][k] \in up
  <2>1. ChunksAt(m, Partial(m)) = {} /\ ChunksAt(m, Place) = {}
    BY <1>4 DEF ChunksAt, Frames, Partial, Place
  <2> QED
    BY <1>1, <1>4, <2>1 DEF Works, Reliable, ReliableIs
<1>5. ModulesWork
  BY <1>4 DEF ModulesWork
<1> QED
  BY <1>3, <1>5

\* What require returns without an error works, whatever failed before and whatever
\* scripts required meanwhile; an extension is loaded once at a time, and can be
\* loaded again when it has failed (libcereja.lua:29-50, 160-172).  It takes that a
\* module that others need does not call module() too early.
THEOREM ModulesThatReturnWork ==
  ASSUME NeedsAreSimple
  PROVE  Spec => []CompleteModulesWork
<1>1. Init => WorkInv
  BY DEF Init, WorkInv
<1>2. ExtensionsInv /\ WorkInv /\ [Next]_vars => WorkInv'
  BY WorkInvNext
<1>3. ExtensionsInv /\ WorkInv => CompleteModulesWork
  BY WorkingModules
<1> QED
  BY <1>1, <1>2, <1>3, ExtensionsInvariance, PTL DEF Spec

=============================================================================
