-------------------------- MODULE LifecycleProofs --------------------------
(***************************************************************************)
(* Proofs about Lifecycle for every set of processes and every bound.      *)
(***************************************************************************)
EXTENDS Lifecycle, SequenceTheorems, TLAPS

\* What dropping the top frame of a stack leaves.
LEMMA PoppedFrames ==
  ASSUME TypeOK, NEW p \in Proc, frames[p] # <<>>
  PROVE  /\ Popped(p) \in Seq(Frame)
         /\ Len(Popped(p)) = Len(frames[p]) - 1
         /\ \A i \in 1..Len(frames[p]) - 1 : Popped(p)[i] = frames[p][i]
         /\ Len(frames[p]) \in Nat \ {0}
         /\ Top(p) \in Frame
<1> DEFINE s == frames[p]  n == Len(s) - 1
<1>1. s \in Seq(Frame) /\ s # <<>>
  BY DEF TypeOK
<1>2. Len(s) \in Nat \ {0} /\ \A i \in 1..Len(s) : s[i] \in Frame
  BY <1>1, EmptySeq, LenProperties
<1>3. n \in Int /\ \A i \in 1..n : s[i] \in Frame
  BY <1>2
<1>4. /\ SubSeq(s, 1, n) \in Seq(Frame)
      /\ Len(SubSeq(s, 1, n)) = IF 1 <= n THEN n - 1 + 1 ELSE 0
      /\ \A i \in 1 .. n - 1 + 1 : SubSeq(s, 1, n)[i] = s[1 + i - 1]
  <2> HIDE DEF n, s
  <2> QED BY <1>3, SubSeqProperties
<1>5. \A i \in 1..n : 1 + i - 1 = i /\ i \in 1 .. n - 1 + 1
  BY <1>2
<1> QED
  BY <1>2, <1>4, <1>5 DEF Popped, Top

\* The stack that a window procedure or a dialog box leaves when it is entered.
LEMMA PushedFrames ==
  ASSUME TypeOK, NEW p \in Proc, NEW f \in Frame
  PROVE  /\ Append(frames[p], f) \in Seq(Frame)
         /\ Len(Append(frames[p], f)) = Len(frames[p]) + 1
         /\ \A i \in 1..Len(frames[p]) : Append(frames[p], f)[i] = frames[p][i]
         /\ Append(frames[p], f)[Len(frames[p]) + 1] = f
         /\ Len(frames[p]) \in Nat
<1>1. frames[p] \in Seq(Frame)
  BY DEF TypeOK
<1> QED
  BY <1>1, AppendProperties, LenProperties

\* The operators every end of a window or of a process is built from.
LEMMA ReturnTyped ==
  ASSUME TypeOK, NEW S, NEW st \in Outcome, Return(S, st)
  PROVE  script' \in [Proc -> Outcome]
BY DEF Return, TypeOK

\* Moving a process on, and releasing others, keeps every program counter typed.
LEMMA GoTyped ==
  ASSUME TypeOK, NEW p \in Proc, NEW l \in Location, NEW S, Go(p, l, S)
  PROVE  pc' \in [Proc -> Location]
BY DEF Go, TypeOK, Location

\* Destroying a window keeps what it writes typed.
LEMMA DestroyWindowTyped ==
  ASSUME TypeOK, NEW p \in Proc, DestroyWindow(p)
  PROVE  /\ windows' \subseteq Proc
         /\ hotkey' \in Proc \cup {NoProc}
         /\ inbox' \in [Proc -> Seq(Proc \cup {NoProc})]
         /\ exits' \in [Proc -> Nat]
<1>1. <<>> \in Seq(Proc \cup {NoProc})
  BY EmptySeq
<1> QED
  BY <1>1 DEF DestroyWindow, TypeOK

\* Leaving a window procedure or a dialog keeps the stacks typed.
LEMMA PopTyped ==
  ASSUME TypeOK, NEW p \in Proc, frames[p] # <<>>, Pop(p)
  PROVE  frames' \in [Proc -> Seq(Frame)]
BY PoppedFrames DEF Pop, TypeOK

\* Entering one does, too.
LEMMA PushTyped ==
  ASSUME TypeOK, NEW p \in Proc, NEW kind, NEW from,
         \/ kind \in {"notice", "confirm", "logout"} /\ from = NoProc
         \/ kind = "exec" /\ from \in Proc \cup {NoProc},
         Push(p, kind, from)
  PROVE  frames' \in [Proc -> Seq(Frame)]
<1>1. [kind |-> kind, from |-> from] \in Frame
  BY DEF Frame
<1> QED
  BY <1>1, PushedFrames DEF Push, Pushed, TypeOK

\* What a blocked sender that is killed leaves in a queue.
LEMMA AbandonedQueue ==
  ASSUME TypeOK, NEW p \in Proc, SenderKilled(p), NEW w \in Proc
  PROVE  /\ inbox'[w] \in Seq(Proc \cup {NoProc})
         /\ DOMAIN inbox'[w] = DOMAIN inbox[w]
         /\ \A i \in DOMAIN inbox[w] :
              inbox'[w][i] = IF inbox[w][i] = p THEN NoProc ELSE inbox[w][i]
<1> DEFINE senders == Proc \cup {NoProc}
<1>1. inbox'[w] = [i \in DOMAIN inbox[w] |->
                     IF inbox[w][i] = p THEN NoProc ELSE inbox[w][i]]
  BY DEF SenderKilled
<1>2. inbox[w] \in Seq(senders) /\ NoProc \in senders
  BY DEF TypeOK
<1> HIDE DEF senders
<1>3. Len(inbox[w]) \in Nat /\ inbox[w] \in [1..Len(inbox[w]) -> senders]
  BY <1>2, LenProperties
<1>4. inbox'[w] \in [1..Len(inbox[w]) -> senders]
  BY <1>1, <1>2, <1>3
<1>5. inbox'[w] \in Seq(senders)
  BY <1>3, <1>4, SeqDef
<1> QED
  BY <1>1, <1>5 DEF senders

\* What it leaves in a stack.
LEMMA AbandonedStack ==
  ASSUME TypeOK, NEW p \in Proc, SenderKilled(p), NEW w \in Proc
  PROVE  /\ frames'[w] \in Seq(Frame)
         /\ DOMAIN frames'[w] = DOMAIN frames[w]
         /\ \A i \in DOMAIN frames[w] :
              frames'[w][i].from = IF frames[w][i].from = p THEN NoProc
                                   ELSE frames[w][i].from
<1> DEFINE left(f) == [f EXCEPT !.from = IF @ = p THEN NoProc ELSE @]
<1>1. frames'[w] = [i \in DOMAIN frames[w] |-> left(frames[w][i])]
  BY DEF SenderKilled
<1>2. frames[w] \in Seq(Frame)
  BY DEF TypeOK
<1>3. Len(frames[w]) \in Nat /\ frames[w] \in [1..Len(frames[w]) -> Frame]
  BY <1>2, LenProperties
<1>4. \A f \in Frame : /\ left(f) \in Frame
                      /\ left(f).from = IF f.from = p THEN NoProc ELSE f.from
  BY DEF Frame
<1> HIDE DEF left
<1>5. frames'[w] \in [1..Len(frames[w]) -> Frame]
  BY <1>1, <1>3, <1>4
<1>6. frames'[w] \in Seq(Frame)
  BY <1>3, <1>5, SeqDef
<1>7. ASSUME NEW i \in DOMAIN frames[w]
      PROVE  frames'[w][i].from = IF frames[w][i].from = p THEN NoProc
                                  ELSE frames[w][i].from
  BY <1>1, <1>3, <1>4
<1>8. DOMAIN frames'[w] = DOMAIN frames[w]
  BY <1>1
<1> QED
  BY <1>6, <1>7, <1>8

\* Queues and stacks keep their types.
LEMMA AbandonedTyped ==
  ASSUME TypeOK, NEW p \in Proc, SenderKilled(p)
  PROVE  inbox' \in [Proc -> Seq(Proc \cup {NoProc})] /\ frames' \in [Proc -> Seq(Frame)]
<1>1. \A w \in Proc : inbox'[w] \in Seq(Proc \cup {NoProc}) /\ frames'[w] \in Seq(Frame)
  BY AbandonedQueue, AbandonedStack
<1>2. DOMAIN inbox' = Proc /\ inbox' = [w \in Proc |-> inbox'[w]]
  BY DEF SenderKilled
<1>3. DOMAIN frames' = Proc /\ frames' = [w \in Proc |-> frames'[w]]
  BY DEF SenderKilled
<1> QED
  BY <1>1, <1>2, <1>3

-----------------------------------------------------------------------------
(* Type correctness                                                        *)

\* The initial state is typed.
LEMMA TypeInit == Init => TypeOK
<1>1. <<>> \in Seq(Frame) /\ <<>> \in Seq(Proc \cup {NoProc})
  BY EmptySeq
<1> QED
  BY <1>1 DEF Init, TypeOK, Location, Outcome, Status

\* Every step of every process keeps the variables typed.
LEMMA TypeNext == TypeOK /\ [Next]_vars => TypeOK'
<1> SUFFICES ASSUME TypeOK, [Next]_vars
             PROVE  TypeOK'
  OBVIOUS
<1>1. ASSUME NEW p \in Proc, Step(p)
      PROVE  TypeOK'
  <2> {"sent", "send", "options", "find", "startup", "create", "pre", "login",
       "logout", "loop", "closing", "unload", "zombie", "exited"}
      \subseteq Location
    BY DEF Location, Serving, Scripts
  <2> {"success", "denied", "failure", "killed"} \subseteq Status
    BY DEF Status
  <2> {"unsent", "pending", "running", "ran", "lost"} \subseteq Outcome
    BY DEF Outcome
  <2>1. CASE OptionsEnd(p)
    <3>1. pc' \in [Proc -> Location] /\ status' \in [Proc -> Status]
      BY <2>1 DEF OptionsEnd, TypeOK
    <3> QED
      BY <2>1, <3>1 DEF OptionsEnd, TypeOK
  <2>2. CASE SendScript(p)
    <3>1. ASSUME NEW w \in Proc  PROVE Append(inbox[w], p) \in Seq(Proc \cup {NoProc})
      <4>1. inbox[w] \in Seq(Proc \cup {NoProc}) /\ p \in Proc \cup {NoProc}
        BY DEF TypeOK
      <4> QED
        BY <4>1, AppendProperties
    <3>2. CASE windows = {}
      <4>1. /\ pc' = [pc EXCEPT ![p] = "options"]
            /\ script' = [script EXCEPT ![p] = "unsent"]
            /\ inbox' = inbox
        BY <2>2, <3>2 DEF SendScript
      <4>2. pc' \in [Proc -> Location] /\ script' \in [Proc -> Outcome]
        BY <4>1 DEF TypeOK
      <4> QED
        BY <2>2, <4>1, <4>2 DEF SendScript, TypeOK
    <3>3. CASE windows # {}
      <4>1. PICK w \in windows :
              /\ inbox' = [inbox EXCEPT ![w] = Append(inbox[w], p)]
              /\ pc' = [pc EXCEPT ![p] = "sent"]
              /\ script' = [script EXCEPT ![p] = "pending"]
        BY <2>2, <3>3 DEF SendScript
      <4>2. inbox' \in [Proc -> Seq(Proc \cup {NoProc})]
        BY <3>1, <4>1 DEF TypeOK
      <4>3. pc' \in [Proc -> Location] /\ script' \in [Proc -> Outcome]
        BY <4>1 DEF TypeOK
      <4> QED
        BY <2>2, <4>2, <4>3 DEF SendScript, TypeOK
    <3> QED
      BY <3>2, <3>3
  <2>3. CASE FindAnother(p)
    BY <2>3 DEF FindAnother, TypeOK
  <2>4. CASE CreateMainWindow(p)
    <3>1. pc' \in [Proc -> Location]
      <4>1. pc' = [pc EXCEPT ![p] = "create"] \/ pc' = [pc EXCEPT ![p] = "exited"]
        BY <2>4 DEF CreateMainWindow
      <4> QED
        BY <4>1 DEF TypeOK
    <3>2. status' \in [Proc -> Status] /\ windows' \subseteq Proc
      <4>1. status' = status \/ status' = [status EXCEPT ![p] = "failure"]
        BY <2>4 DEF CreateMainWindow
      <4>2. windows' = windows \/ windows' = windows \cup {p}
        BY <2>4 DEF CreateMainWindow
      <4> QED
        BY <4>1, <4>2 DEF TypeOK
    <3> QED
      BY <2>4, <3>1, <3>2 DEF CreateMainWindow, TypeOK
  <2>5. CASE OnCreate(p)
    <3>1. CASE hotkey = NoProc
      <4>1. /\ pc' \in [Proc -> Location]
            /\ hotkey' \in Proc \cup {NoProc}
            /\ served' \subseteq Proc
        BY <2>5, <3>1 DEF OnCreate, TypeOK
      <4> QED
        BY <2>5, <3>1, <4>1 DEF OnCreate, TypeOK
    <3>2. CASE hotkey # NoProc
      BY <2>5, <3>2, DestroyWindowTyped, ReturnTyped, GoTyped
         DEF OnCreate, TypeOK
    <3> QED
      BY <3>1, <3>2
  <2>6. CASE LeaveMainLoop(p)
    BY <2>6 DEF LeaveMainLoop, TypeOK
  <2>7. CASE OnClose(p)
    <3>1. frames' \in [Proc -> Seq(Frame)]
      BY <2>7, PushTyped DEF OnClose
    <3> QED
      <4>1. exits' \in [Proc -> Nat]
        BY <2>7 DEF OnClose, TypeOK
      <4> QED
        BY <2>7, <3>1, <4>1 DEF OnClose, TypeOK
  <2>8. CASE OnCopyData(p)
    <3>1. Head(inbox[p]) \in Proc \cup {NoProc} /\ Tail(inbox[p]) \in Seq(Proc \cup {NoProc})
      <4>1. inbox[p] \in Seq(Proc \cup {NoProc}) /\ inbox[p] # <<>>
        BY <2>8 DEF OnCopyData, TypeOK
      <4> QED
        BY <4>1, HeadTailProperties
    <3>2. frames' \in [Proc -> Seq(Frame)]
      <4>1. Push(p, "exec", Head(inbox[p])) => frames' \in [Proc -> Seq(Frame)]
        BY <3>1, PushTyped
      <4> QED
        BY <2>8, <4>1 DEF OnCopyData, TypeOK
    <3>3. script' \in [Proc -> Outcome]
      BY <2>8, ReturnTyped DEF OnCopyData
    <3>4. inbox' \in [Proc -> Seq(Proc \cup {NoProc})]
      BY <2>8, <3>1 DEF OnCopyData, TypeOK
    <3> QED
      BY <2>8, <3>2, <3>3, <3>4 DEF OnCopyData, TypeOK
  <2>9. CASE ExecReturns(p)
    <3>1. frames' \in [Proc -> Seq(Frame)]
      BY <2>9, PopTyped DEF ExecReturns, On, Idle
    <3>2. script' \in [Proc -> Outcome]
      BY <2>9, ReturnTyped DEF ExecReturns
    <3>3. pc' \in [Proc -> Location]
      BY <2>9 DEF ExecReturns, TypeOK
    <3> QED
      BY <2>9, <3>1, <3>2, <3>3 DEF ExecReturns, TypeOK
  <2>10. CASE Cleanup(p)
    BY <2>10, DestroyWindowTyped, ReturnTyped, GoTyped DEF Cleanup, TypeOK
  <2>11. CASE Exit(p)
    BY <2>11 DEF Exit, TypeOK
  <2>12. CASE EndSessionReturns(p)
    <3>1. frames' \in [Proc -> Seq(Frame)]
      BY <2>12, PopTyped DEF EndSessionReturns, On, Idle
    <3> QED
      BY <2>12, <3>1, DestroyWindowTyped, ReturnTyped, GoTyped
         DEF EndSessionReturns, TypeOK
  <2>13. CASE SystemTerminates(p)
    <3>1. <<>> \in Seq(Frame)
      BY EmptySeq
    <3> QED
      BY <2>13, <3>1, DestroyWindowTyped, ReturnTyped, GoTyped
         DEF SystemTerminates, Dies, TypeOK
  <2> QED
    BY <1>1, <2>1, <2>2, <2>3, <2>4, <2>5, <2>6, <2>7, <2>8, <2>9, <2>10,
       <2>11, <2>12, <2>13 DEF Step
<1>2. ASSUME NEW p \in Proc, ScriptStep(p)
      PROVE  TypeOK'
  <2>1. CASE PhaseEnds(p)
    <3>1. pc' \in [Proc -> Location]
      BY <2>1 DEF PhaseEnds, NextPhase, Scripts, Location, Serving, TypeOK
    <3>2. frames' \in [Proc -> Seq(Frame)]
      BY <2>1, PushTyped DEF PhaseEnds, TypeOK
    <3> QED
      BY <2>1, <3>1, <3>2 DEF PhaseEnds, TypeOK, Status
  <2>2. CASE NestedScriptEnds(p)
    <3>1. frames[p] # <<>>
      BY <2>2 DEF NestedScriptEnds, On, Idle
    <3> DEFINE done == [Top(p) EXCEPT !.kind = IF @ = "exec" THEN "execDone"
                                               ELSE "logoutDone"]
               box  == [kind |-> "notice", from |-> NoProc]
    <3>2. done \in Frame /\ box \in Frame
      BY <2>2, <3>1, PoppedFrames DEF Frame, NestedScriptEnds, On
    <3>3. /\ Append(Popped(p), done) \in Seq(Frame)
          /\ Popped(p) \o <<done, box>> \in Seq(Frame)
      <4>1. Popped(p) \in Seq(Frame)
        BY <3>1, PoppedFrames
      <4> HIDE DEF done, box
      <4>2. <<done, box>> \in Seq(Frame)
        BY <3>2
      <4> QED
        BY <3>2, <4>1, <4>2, AppendProperties, ConcatProperties
    <3> QED
      BY <2>2, <3>3 DEF NestedScriptEnds, TypeOK
  <2> QED
    BY <1>2, <2>1, <2>2 DEF ScriptStep
<1>3. ASSUME NEW p \in Proc, UserStep(p)
      PROVE  TypeOK'
  <2>1. frames' \in [Proc -> Seq(Frame)]
    BY <1>3, PopTyped DEF UserStep, DismissNotice, AnswerConfirm, On, Idle
  <2> QED
    BY <1>3, <2>1 DEF UserStep, DismissNotice, AnswerConfirm, TypeOK
<1>4. ASSUME NEW p \in Proc, Environment(p)
      PROVE  TypeOK'
  <2>1. CASE Start(p) \/ OptionExec(p) \/ OptionPreExec(p) \/ OptionAnswered(p)
    <3>1. CASE Start(p)
      BY <3>1 DEF Start, TypeOK, Location
    <3>2. CASE OptionExec(p)
      <4>1. pc' \in [Proc -> Location]
        BY <3>2 DEF OptionExec, TypeOK, Location
      <4>2. sends' \in [Proc -> Nat] /\ answered' \subseteq Proc
        BY <3>2 DEF OptionExec, TypeOK
      <4> QED
        BY <3>2, <4>1, <4>2 DEF OptionExec, TypeOK
    <3>3. CASE OptionPreExec(p)
      BY <3>3 DEF OptionPreExec, TypeOK
    <3>4. CASE OptionAnswered(p)
      BY <3>4 DEF OptionAnswered, TypeOK, Location, Status
    <3> QED
      BY <2>1, <3>1, <3>2, <3>3, <3>4
  <2>2. CASE ScriptNotices(p) \/ OnEndSession(p)
    <3>1. frames' \in [Proc -> Seq(Frame)]
      BY <2>2, PushTyped DEF ScriptNotices, OnEndSession
    <3> QED
      BY <2>2, <3>1 DEF ScriptNotices, OnEndSession, TypeOK
  <2>5. CASE LoopFails(p)
    <3>1. frames' \in [Proc -> Seq(Frame)]
      BY <2>5, PushTyped DEF LoopFails
    <3>2. pc' \in [Proc -> Location] /\ status' \in [Proc -> Status]
      BY <2>5 DEF LoopFails, TypeOK, Location, Serving, Status
    <3> QED
      BY <2>5, <3>1, <3>2 DEF LoopFails, TypeOK
  <2>3. CASE ScriptExits(p) \/ UserExits(p)
    <3>1. PICK w \in Proc : exits' = [exits EXCEPT ![w] = exits[w] + 1]
      BY <2>3 DEF ScriptExits, UserExits, TypeOK
    <3>2. exits' \in [Proc -> Nat]
      BY <3>1 DEF TypeOK
    <3> QED
      BY <2>3, <3>2 DEF ScriptExits, UserExits, TypeOK
  <2>4. CASE Killed(p)
    <3>1. <<>> \in Seq(Frame)
      BY EmptySeq
    <3>2. "lost" \in Outcome /\ "exited" \in Location /\ "killed" \in Status
      BY DEF Outcome, Location, Status
    <3> QED
      BY <2>4, <3>1, <3>2, DestroyWindowTyped, ReturnTyped, GoTyped
         DEF Killed, Dies, TypeOK
  <2>6. CASE SenderKilled(p)
    <3>1. "lost" \in Outcome /\ "exited" \in Location /\ "killed" \in Status
      BY DEF Outcome, Location, Status
    <3>2. script' \in [Proc -> Outcome]
      BY <2>6, <3>1, ReturnTyped DEF SenderKilled
    <3> QED
      BY <2>6, <3>1, <3>2, AbandonedTyped DEF SenderKilled, TypeOK
  <2> QED
    BY <1>4, <2>1, <2>2, <2>3, <2>4, <2>5, <2>6 DEF Environment
<1>5. CASE UNCHANGED vars
  BY <1>5 DEF vars, TypeOK
<1> QED
  BY <1>1, <1>2, <1>3, <1>4, <1>5 DEF Next, Finished

\* Every variable keeps its type (checked by the run lifecycle).
THEOREM TypeCorrect == Spec => []TypeOK
<1>1. Init => TypeOK
  BY TypeInit
<1>2. TypeOK /\ [Next]_vars => TypeOK'
  BY TypeNext
<1> QED
  BY <1>1, <1>2, PTL DEF Spec

-----------------------------------------------------------------------------
(* Senders.  Two lemmas say when the bookkeeping of blocked senders survives *)
(* a step that only removes places, and when it survives a released set S.   *)

\* What the frames of a process in the next state still hold of the current.
FramesShrink(r) ==
  \A i \in DOMAIN frames'[r] :
    frames'[r][i].from # NoProc =>
      i \in DOMAIN frames[r] /\ frames'[r][i].from = frames[r][i].from

\* What its queue still holds.
InboxShrinks(r) ==
  \A i \in DOMAIN inbox'[r] :
    inbox'[r][i] # NoProc => i \in DOMAIN inbox[r] /\ inbox'[r][i] = inbox[r][i]

Known == QueuedAreBlocked /\ HandledAreBlocked /\ NoDoubleWait

\* When queues and stacks only lose entries, nobody comes to wait in two places.
LEMMA FewerPlaces ==
  ASSUME TypeOK, Known,
         \A r \in Proc : FramesShrink(r) /\ InboxShrinks(r),
         \A r \in Proc : \A i \in DOMAIN inbox'[r] :
           r \in windows' /\ (inbox'[r][i] # NoProc => pc'[inbox'[r][i]] = "sent"),
         \A r \in Proc : \A i \in DOMAIN frames'[r] :
           frames'[r][i].from # NoProc => pc'[frames[r][i].from] = "sent"
  PROVE  Known'
<1>1. \A r \in Proc : \A i \in DOMAIN inbox'[r] :
        inbox'[r][i] # NoProc => i \in DOMAIN inbox[r] /\ inbox'[r][i] = inbox[r][i]
  BY DEF InboxShrinks
<1>2. QueuedAreBlocked'
  BY DEF QueuedAreBlocked
<1>3. HandledAreBlocked'
  BY DEF HandledAreBlocked, FramesShrink
<1>4. NoDoubleWait'
  <2> SUFFICES ASSUME NEW p \in Proc, NEW r \in Proc
               PROVE  /\ \A i \in DOMAIN inbox'[p], j \in DOMAIN inbox'[r] :
                           inbox'[p][i] = inbox'[r][j] /\ inbox'[p][i] # NoProc => p = r /\ i = j
                      /\ \A i \in DOMAIN frames'[p], j \in DOMAIN frames'[r] :
                           /\ frames'[p][i].from = frames'[r][j].from
                           /\ frames'[p][i].from # NoProc
                           => p = r /\ i = j
                      /\ \A i \in DOMAIN inbox'[p], j \in DOMAIN frames'[r] :
                           inbox'[p][i] # frames'[r][j].from \/ inbox'[p][i] = NoProc
    BY DEF NoDoubleWait
  <2>1. \A i \in DOMAIN inbox'[p], j \in DOMAIN inbox'[r] :
          inbox'[p][i] = inbox'[r][j] /\ inbox'[p][i] # NoProc => p = r /\ i = j
    BY <1>1 DEF Known, NoDoubleWait
  <2>2. \A i \in DOMAIN frames'[p], j \in DOMAIN frames'[r] :
          frames'[p][i].from = frames'[r][j].from /\ frames'[p][i].from # NoProc
            => p = r /\ i = j
    BY DEF Known, NoDoubleWait, FramesShrink
  <2>3. \A i \in DOMAIN inbox'[p], j \in DOMAIN frames'[r] :
          inbox'[p][i] # frames'[r][j].from \/ inbox'[p][i] = NoProc
    <3> SUFFICES ASSUME NEW i \in DOMAIN inbox'[p], NEW j \in DOMAIN frames'[r],
                        inbox'[p][i] = frames'[r][j].from, inbox'[p][i] # NoProc
                 PROVE  FALSE
      OBVIOUS
    <3>1. inbox'[p][i] = inbox[p][i] /\ i \in DOMAIN inbox[p]
      BY <1>1
    <3>3. frames'[r][j].from # NoProc
      OBVIOUS
    <3>4. j \in DOMAIN frames[r] /\ frames'[r][j].from = frames[r][j].from
      BY <3>3 DEF FramesShrink
    <3>5. inbox[p][i] # frames[r][j].from
      BY <3>1, <3>4 DEF Known, NoDoubleWait
    <3> QED
      BY <3>1, <3>4, <3>5
  <2> QED
    BY <2>1, <2>2, <2>3
<1> QED
  BY <1>2, <1>3, <1>4 DEF Known

\* A queue holds processes, and NoProc for those that were killed.
LEMMA QueueEntry ==
  ASSUME TypeOK, NEW r \in Proc, NEW i \in DOMAIN inbox[r]
  PROVE  inbox[r][i] \in Proc \cup {NoProc}
<1>1. inbox[r] \in [1..Len(inbox[r]) -> Proc \cup {NoProc}]
  BY LenProperties DEF TypeOK
<1> QED
  BY <1>1

\* A window that goes takes its queue with it.
LEMMA WindowGoneShrinks ==
  ASSUME TypeOK, NEW p \in Proc, DestroyWindow(p)
  PROVE  \A r \in Proc : InboxShrinks(r)
<1>1. DOMAIN <<>> = {}
  OBVIOUS
<1>2. inbox'[p] = <<>> /\ \A r \in Proc : r # p => inbox'[r] = inbox[r]
  BY DEF DestroyWindow, TypeOK
<1> QED
  BY <1>1, <1>2 DEF InboxShrinks

\* The processes a process releases when it goes were blocked.
LEMMA ReleasedAreBlocked ==
  ASSUME Known, NEW p \in Proc
  PROVE  /\ \A q \in Waiting(p) : pc[q] = "sent"
         /\ \A q \in Executing(p) : pc[q] = "sent"
<1>1. \A q \in Waiting(p) : pc[q] = "sent"
  BY NoProcAssumption DEF Known, QueuedAreBlocked, Waiting
<1>2. ASSUME NEW q \in Executing(p)
      PROVE  pc[q] = "sent"
  BY NoProcAssumption DEF Known, HandledAreBlocked, Executing
<1> QED
  BY <1>1, <1>2

\* A frame that is not some dialog's stands for a blocked process.
LEMMA HolderIsBlocked ==
  ASSUME TypeOK, Known, NEW r \in Proc, NEW i \in DOMAIN frames[r],
         frames[r][i].from # NoProc
  PROVE  frames[r][i].from \in Proc /\ pc[frames[r][i].from] = "sent"
<1>1. frames[r] \in [1..Len(frames[r]) -> Frame]
  BY LenProperties DEF TypeOK
<1>2. frames[r][i] \in Frame
  BY <1>1
<1> QED
  BY <1>2 DEF Frame, Known, HandledAreBlocked

\* The top frame, when it runs a script for another process, and when not.
LEMMA TopHolder ==
  ASSUME TypeOK, Known, NEW p \in Proc
  PROVE  /\ On(p, {"execDone"}) =>
              \/ Top(p).from \in Proc /\ pc[Top(p).from] = "sent"
              \/ Top(p).from = NoProc
         /\ On(p, {"notice", "confirm", "logoutDone"}) => Top(p).from = NoProc
         /\ ~Idle(p) => /\ Len(frames[p]) \in DOMAIN frames[p]
                        /\ Top(p) = frames[p][Len(frames[p])]
<1>1. ~Idle(p) => /\ Len(frames[p]) \in DOMAIN frames[p]
                  /\ Top(p) = frames[p][Len(frames[p])]
                  /\ Top(p) \in Frame
  BY PoppedFrames, LenProperties DEF TypeOK, Top, Idle
<1>2. ASSUME On(p, {"execDone"}), Top(p).from # NoProc
      PROVE  Top(p).from \in Proc /\ pc[Top(p).from] = "sent"
  BY <1>1, <1>2, HolderIsBlocked DEF On
<1>3. ASSUME On(p, {"notice", "confirm", "logoutDone"})
      PROVE  Top(p).from = NoProc
  BY <1>1, <1>3 DEF On, Frame
<1> QED
  BY <1>1, <1>2, <1>3

\* The window of p goes, p moves on to l, and the senders in S are released:
\* the hot key is still where it is served and the windows are known.
LEMMA WindowGone ==
  ASSUME TypeOK, HotkeyIsServed, WindowsKnown, NEW p \in Proc, NEW l, NEW S,
         l \in {"unload", "zombie", "exited"},
         \A q \in S : pc[q] = "sent",
         DestroyWindow(p), Go(p, l, S)
  PROVE  HotkeyIsServed' /\ WindowsKnown'
<1>1. \A q \in Proc : q # p /\ q \notin S => pc'[q] = pc[q]
  BY DEF Go
<1>2. \A q \in S : q # p /\ q \in Proc => pc'[q] = "options" /\ pc[q] = "sent"
  BY DEF Go
<1>3. pc'[p] = l
  BY DEF Go
<1>4. /\ {"sent", "options", "unload", "zombie", "exited"}
           \cap (Serving \cup {"create"}) = {}
  BY DEF Serving, Scripts
<1>5. \A q \in Proc : q # p =>
        /\ pc'[q] \in Serving <=> pc[q] \in Serving
        /\ pc'[q] \in Serving \cup {"create"} <=> pc[q] \in Serving \cup {"create"}
  BY <1>1, <1>2, <1>4
<1>6. pc'[p] \notin Serving \cup {"create"}
  BY <1>3, <1>4
<1>7. HotkeyIsServed'
  BY <1>5, <1>6, NoProcAssumption DEF HotkeyIsServed, DestroyWindow
<1>8. WindowsKnown'
  BY <1>5, <1>6 DEF WindowsKnown, DestroyWindow
<1> QED
  BY <1>7, <1>8

\* The same end of a window keeps the books of the senders, when those waiting
\* for it are released with it.
LEMMA WindowGoneSenders ==
  ASSUME TypeOK, Known, NEW p \in Proc, NEW l, NEW S, pc[p] # "sent",
         \A r \in Proc : FramesShrink(r),
         Waiting(p) \subseteq S, S \subseteq Waiting(p) \cup Executing(p),
         S = Waiting(p) \/ frames'[p] = <<>>,
         DestroyWindow(p), Go(p, l, S)
  PROVE  Known'
<1>1. \A r \in Proc : InboxShrinks(r)
  BY WindowGoneShrinks
<1>2. inbox'[p] = <<>>
  BY DEF DestroyWindow, TypeOK
<1>3. ASSUME NEW r \in Proc, NEW i \in DOMAIN inbox'[r]
      PROVE  r \in windows' /\ (inbox'[r][i] # NoProc => pc'[inbox'[r][i]] = "sent")
  <2>1. DOMAIN <<>> = {}
    OBVIOUS
  <2>2. r # p /\ inbox'[r] = inbox[r]
    BY <1>2, <1>3, <2>1 DEF DestroyWindow, TypeOK
  <2>3. r \in windows'
    BY <1>3, <2>2 DEF Known, QueuedAreBlocked, DestroyWindow
  <2>4. ASSUME inbox[r][i] # NoProc
        PROVE  pc'[inbox[r][i]] = "sent"
    <3>1. inbox[r][i] \in Proc /\ pc[inbox[r][i]] = "sent"
      BY <1>3, <2>2, <2>4, QueueEntry DEF Known, QueuedAreBlocked
    <3>2. inbox[r][i] \notin Waiting(p)
      BY <1>3, <2>2, <2>4 DEF Known, NoDoubleWait, Waiting
    <3>3. inbox[r][i] \notin Executing(p)
      BY <1>3, <2>2, <2>4 DEF Known, NoDoubleWait, Executing
    <3> QED
      BY <3>1, <3>2, <3>3 DEF Go
  <2> QED
    BY <2>2, <2>3, <2>4
<1>4. ASSUME NEW r \in Proc, NEW i \in DOMAIN frames'[r],
             frames'[r][i].from # NoProc
      PROVE  pc'[frames[r][i].from] = "sent"
  <2>1. i \in DOMAIN frames[r] /\ frames[r][i].from # NoProc
    BY <1>4 DEF FramesShrink
  <2> DEFINE q == frames[r][i].from
  <2>2. q \in Proc /\ pc[q] = "sent"
    BY <2>1, HolderIsBlocked
  <2>3. q \notin Waiting(p)
    BY <2>1 DEF Known, NoDoubleWait, Waiting
  <2>4. frames'[p] = <<>> => r # p
    BY <1>4
  <2>5. r # p => q \notin Executing(p)
    BY <2>1 DEF Known, NoDoubleWait, Executing
  <2>6. q \notin S
    BY <2>3, <2>4, <2>5
  <2> QED
    BY <2>2, <2>6 DEF Go
<1> QED
  BY <1>1, <1>3, <1>4, FewerPlaces

\* A step that releases nobody and queues nothing keeps the books.
LEMMA QuietSenders ==
  ASSUME TypeOK, Known, UNCHANGED inbox, windows \subseteq windows',
         \A r \in Proc : FramesShrink(r),
         \A q \in Proc : pc[q] = "sent" => pc'[q] = "sent"
  PROVE  Known'
<1>1. \A r \in Proc : InboxShrinks(r)
  BY DEF InboxShrinks
<1>2. \A r \in Proc : \A i \in DOMAIN inbox'[r] :
        r \in windows' /\ (inbox'[r][i] # NoProc => pc'[inbox'[r][i]] = "sent")
  BY QueueEntry DEF Known, QueuedAreBlocked
<1>3. ASSUME NEW r \in Proc, NEW i \in DOMAIN frames'[r],
             frames'[r][i].from # NoProc
      PROVE  pc'[frames[r][i].from] = "sent"
  <2>1. i \in DOMAIN frames[r] /\ frames[r][i].from # NoProc
    BY <1>3 DEF FramesShrink
  <2>2. frames[r][i].from \in Proc /\ pc[frames[r][i].from] = "sent"
    BY <2>1, HolderIsBlocked
  <2> QED
    BY <2>2
<1> QED
  BY <1>1, <1>2, <1>3, FewerPlaces
-----------------------------------------------------------------------------
(* The frames a step leaves                                                *)

\* Leaving a frame adds no frame that holds a sender.
LEMMA PopShrinks ==
  ASSUME TypeOK, NEW p \in Proc, frames[p] # <<>>, Pop(p)
  PROVE  /\ \A r \in Proc : FramesShrink(r)
         /\ \A i \in DOMAIN frames'[p] : i # Len(frames[p])
<1>1. frames'[p] = Popped(p) /\ \A r \in Proc : r # p => frames'[r] = frames[r]
  BY DEF Pop, TypeOK
<1>2. DOMAIN Popped(p) = 1..Len(frames[p]) - 1 /\ DOMAIN frames[p] = 1..Len(frames[p])
  BY PoppedFrames, LenProperties DEF TypeOK
<1>3. FramesShrink(p)
  BY <1>1, <1>2, PoppedFrames DEF FramesShrink
<1>4. \A r \in Proc : r # p => FramesShrink(r)
  BY <1>1 DEF FramesShrink
<1>5. \A i \in DOMAIN frames'[p] : i # Len(frames[p])
  BY <1>1, <1>2, PoppedFrames
<1> QED
  BY <1>3, <1>4, <1>5

\* Entering a frame that holds no sender adds none either.
LEMMA PushShrinks ==
  ASSUME TypeOK, NEW p \in Proc, NEW kind \in {"notice", "confirm", "logout", "exec"},
         Push(p, kind, NoProc)
  PROVE  \A r \in Proc : FramesShrink(r)
<1> DEFINE f == [kind |-> kind, from |-> NoProc]
<1>1. f \in Frame
  BY DEF Frame
<1>2. frames'[p] = Append(frames[p], f) /\ \A r \in Proc : r # p => frames'[r] = frames[r]
  BY DEF Push, Pushed, TypeOK
<1>3. /\ DOMAIN Append(frames[p], f) = 1..Len(frames[p]) + 1
      /\ DOMAIN frames[p] = 1..Len(frames[p])
  BY <1>1, PushedFrames, LenProperties DEF TypeOK
<1>4. FramesShrink(p)
  <2> SUFFICES ASSUME NEW i \in DOMAIN frames'[p], frames'[p][i].from # NoProc
               PROVE  i \in DOMAIN frames[p] /\ frames'[p][i].from = frames[p][i].from
    BY DEF FramesShrink
  <2>1. i \in 1..Len(frames[p]) + 1
    BY <1>2, <1>3
  <2>2. i # Len(frames[p]) + 1
    BY <1>1, <1>2, PushedFrames
  <2>3. i \in 1..Len(frames[p])
    BY <2>1, <2>2, <1>1, PushedFrames
  <2> QED
    BY <1>1, <1>2, <1>3, <2>3, PushedFrames
<1>5. \A r \in Proc : r # p => FramesShrink(r)
  BY <1>2 DEF FramesShrink
<1> QED
  BY <1>4, <1>5

\* Nor does leaving the stacks alone.
LEMMA SameFramesShrink ==
  ASSUME UNCHANGED frames
  PROVE  \A r \in Proc : FramesShrink(r)
BY DEF FramesShrink

\* The end of a nested script keeps the sender its frame holds.
LEMMA NestedScriptShrinks ==
  ASSUME TypeOK, NEW p \in Proc, NestedScriptEnds(p)
  PROVE  \A r \in Proc : FramesShrink(r)
<1> DEFINE done == [Top(p) EXCEPT !.kind = IF @ = "exec" THEN "execDone"
                                           ELSE "logoutDone"]
           box  == [kind |-> "notice", from |-> NoProc]
           s    == Popped(p)
           n    == Len(frames[p])
<1>1. frames[p] # <<>>
  BY DEF NestedScriptEnds, On, Idle
<1>2. /\ s \in Seq(Frame) /\ n \in Nat \ {0} /\ Len(s) = n - 1
      /\ \A i \in 1..n - 1 : s[i] = frames[p][i]
      /\ done \in Frame /\ done.from = Top(p).from /\ box \in Frame
      /\ Top(p) = frames[p][n] /\ DOMAIN frames[p] = 1..n
  <2>1. Top(p) \in Frame
    BY <1>1, PoppedFrames
  <2>2. done \in Frame /\ done.from = Top(p).from /\ box \in Frame
    BY <2>1 DEF Frame, NestedScriptEnds, On
  <2>3. Top(p) = frames[p][n] /\ DOMAIN frames[p] = 1..n
    BY LenProperties DEF TypeOK, Top
  <2> QED
    BY <1>1, <2>2, <2>3, PoppedFrames
<1>3. \A r \in Proc : r # p => frames'[r] = frames[r]
  BY DEF NestedScriptEnds, TypeOK
<1>4. frames'[p] = Append(s, done) \/ frames'[p] = s \o <<done, box>>
  BY DEF NestedScriptEnds, TypeOK
<1> HIDE DEF done, box, s
<1>5. CASE frames'[p] = Append(s, done)
  <2>1. /\ DOMAIN frames'[p] = 1..n
        /\ \A i \in 1..n - 1 : frames'[p][i] = s[i]
        /\ frames'[p][n] = done
    BY <1>2, <1>5, AppendProperties, LenProperties
  <2>2. FramesShrink(p)
    BY <1>2, <2>1 DEF FramesShrink
  <2> QED
    BY <1>3, <2>2 DEF FramesShrink
<1>6. CASE frames'[p] = s \o <<done, box>>
  <2>1. <<done, box>> \in Seq(Frame) /\ Len(<<done, box>>) = 2
    BY <1>2
  <2>2. /\ DOMAIN frames'[p] = 1..n + 1
        /\ \A i \in 1..n - 1 : frames'[p][i] = s[i]
        /\ frames'[p][n] = done
        /\ frames'[p][n + 1] = box
    BY <1>2, <1>6, <2>1, ConcatProperties, LenProperties
  <2>3. box.from = NoProc
    BY DEF box
  <2>4. FramesShrink(p)
    BY <1>2, <2>2, <2>3 DEF FramesShrink
  <2> QED
    BY <1>3, <2>4 DEF FramesShrink
<1> QED
  BY <1>4, <1>5, <1>6
-----------------------------------------------------------------------------
(* The hot key and the windows                                             *)

\* HotkeyIsServed and WindowsKnown depend on three variables only.
LEMMA SameServing ==
  ASSUME HotkeyIsServed, WindowsKnown, UNCHANGED <<windows, hotkey>>,
         \A q \in Proc : /\ pc'[q] \in Serving <=> pc[q] \in Serving
                         /\ pc'[q] = "create" <=> pc[q] = "create"
  PROVE  HotkeyIsServed' /\ WindowsKnown'
BY DEF HotkeyIsServed, WindowsKnown

\* Every step keeps the hot key with the serving shell and the windows known.
LEMMA ServingNext ==
  ASSUME TypeOK, HotkeyIsServed, WindowsKnown, Known, [Next]_vars
  PROVE  HotkeyIsServed' /\ WindowsKnown'
<1>a. /\ {"off", "options", "send", "sent", "find", "startup", "create", "unload",
           "zombie", "exited"} \cap Serving = {}
      /\ {"pre", "login", "loop", "logout", "closing"} \subseteq Serving
  BY DEF Serving, Scripts
<1>b. ASSUME NEW p \in Proc, NEW l, NEW k,
             pc[p] = k, pc' = [pc EXCEPT ![p] = l], UNCHANGED <<windows, hotkey>>,
             k \in Serving <=> l \in Serving, k # "create", l # "create"
      PROVE  HotkeyIsServed' /\ WindowsKnown'
  BY <1>b, SameServing DEF TypeOK
<1>c. ASSUME UNCHANGED <<pc, windows, hotkey>>
      PROVE  HotkeyIsServed' /\ WindowsKnown'
  BY <1>c, SameServing
<1>1. ASSUME NEW p \in Proc, Step(p)
      PROVE  HotkeyIsServed' /\ WindowsKnown'
  <2>1. CASE OptionsEnd(p)
    BY <2>1, <1>a, <1>b DEF OptionsEnd
  <2>2. CASE SendScript(p)
    BY <2>2, <1>a, <1>b DEF SendScript
  <2>3. CASE FindAnother(p)
    BY <2>3, <1>a, <1>b DEF FindAnother
  <2>4. CASE CreateMainWindow(p)
    <3>1. CASE windows' = windows \cup {p} /\ pc' = [pc EXCEPT ![p] = "create"]
      BY <2>4, <3>1, <1>a
         DEF CreateMainWindow, HotkeyIsServed, WindowsKnown, TypeOK
    <3>2. CASE UNCHANGED windows /\ pc' = [pc EXCEPT ![p] = "exited"]
      BY <2>4, <3>2, <1>a, <1>b DEF CreateMainWindow
    <3> QED
      BY <2>4, <3>1, <3>2 DEF CreateMainWindow
  <2>5. CASE OnCreate(p)
    <3>1. CASE hotkey = NoProc
      <4>1. /\ hotkey' = p /\ UNCHANGED windows
            /\ \A q \in Proc : q # p => pc'[q] = pc[q]
            /\ pc'[p] \in Serving
            /\ pc[p] = "create"
        BY <2>5, <3>1, <1>a DEF OnCreate, TypeOK
      <4> QED
        BY <3>1, <4>1, <1>a, NoProcAssumption DEF HotkeyIsServed, WindowsKnown
    <3>2. CASE hotkey # NoProc
      BY <2>5, <3>2, WindowGone, ReleasedAreBlocked DEF OnCreate
    <3> QED
      BY <3>1, <3>2
  <2>6. CASE LeaveMainLoop(p)
    BY <2>6, <1>a, <1>b DEF LeaveMainLoop
  <2>7. CASE OnClose(p) \/ OnCopyData(p)
    BY <2>7, <1>c DEF OnClose, OnCopyData
  <2>8. CASE ExecReturns(p)
    <3> DEFINE q == Top(p).from
    <3>1. q \in Proc => pc[q] = "sent"
      BY <2>8, TopHolder, NoProcAssumption DEF ExecReturns
    <3>2. \A x \in Proc : \/ pc'[x] = pc[x]
                          \/ pc[x] = "sent" /\ pc'[x] = "options"
      BY <2>8, <3>1 DEF ExecReturns
    <3>3. UNCHANGED <<windows, hotkey>>
      BY <2>8 DEF ExecReturns
    <3> QED
      BY <3>2, <3>3, <1>a, SameServing
  <2>9. CASE Cleanup(p)
    BY <2>9, WindowGone, ReleasedAreBlocked DEF Cleanup
  <2>10. CASE Exit(p)
    BY <2>10, <1>a, <1>b DEF Exit
  <2>11. CASE EndSessionReturns(p)
    BY <2>11, WindowGone, ReleasedAreBlocked DEF EndSessionReturns
  <2>12. CASE SystemTerminates(p)
    BY <2>12, WindowGone, ReleasedAreBlocked DEF SystemTerminates, Dies
  <2> QED
    BY <1>1, <2>1, <2>2, <2>3, <2>4, <2>5, <2>6, <2>7, <2>8, <2>9, <2>10,
       <2>11, <2>12 DEF Step
<1>2. ASSUME NEW p \in Proc, ScriptStep(p)
      PROVE  HotkeyIsServed' /\ WindowsKnown'
  <2>1. CASE PhaseEnds(p)
    <3>1. pc[p] \in Serving /\ NextPhase(pc[p]) \in Serving
          /\ pc[p] # "create" /\ NextPhase(pc[p]) # "create"
      BY <2>1 DEF PhaseEnds, NextPhase, Serving, Scripts
    <3> QED
      BY <2>1, <3>1, <1>a, <1>b DEF PhaseEnds
  <2>2. CASE NestedScriptEnds(p)
    BY <2>2, <1>c DEF NestedScriptEnds
  <2> QED
    BY <1>2, <2>1, <2>2 DEF ScriptStep
<1>3. ASSUME NEW p \in Proc, UserStep(p)
      PROVE  HotkeyIsServed' /\ WindowsKnown'
  BY <1>3, <1>c DEF UserStep, DismissNotice, AnswerConfirm
<1>4. ASSUME NEW p \in Proc, Environment(p)
      PROVE  HotkeyIsServed' /\ WindowsKnown'
  <2>1. CASE Start(p) \/ OptionExec(p) \/ OptionAnswered(p)
    BY <2>1, <1>a, <1>b DEF Start, OptionExec, OptionAnswered
  <2>2. CASE \/ OptionPreExec(p) \/ ScriptNotices(p) \/ OnEndSession(p)
             \/ ScriptExits(p) \/ UserExits(p)
    BY <2>2, <1>c
       DEF OptionPreExec, ScriptNotices, OnEndSession, ScriptExits, UserExits
  <2>4. CASE LoopFails(p)
    <3>1. pc[p] \in Serving /\ "closing" \in Serving /\ pc[p] # "create"
      BY <2>4 DEF LoopFails, Serving
    <3> QED
      BY <2>4, <3>1, <1>a, <1>b DEF LoopFails
  <2>3. CASE Killed(p)
    BY <2>3, WindowGone, ReleasedAreBlocked DEF Killed, Dies
  <2>5. CASE SenderKilled(p)
    BY <2>5, <1>a, <1>b DEF SenderKilled
  <2> QED
    BY <1>4, <2>1, <2>2, <2>3, <2>4, <2>5 DEF Environment
<1>5. CASE UNCHANGED vars
  BY <1>5, <1>c DEF vars
<1> QED
  BY <1>1, <1>2, <1>3, <1>4, <1>5 DEF Next, Finished
-----------------------------------------------------------------------------
(* The senders, action by action                                           *)

\* A new message is queued behind the others.
LEMMA SendKnown ==
  ASSUME TypeOK, WindowsKnown, Known, NEW p \in Proc, SendScript(p)
  PROVE  Known'
<1>1. UNCHANGED <<windows, frames>> /\ pc[p] = "send"
  BY DEF SendScript
<1>2. CASE windows = {}
  BY <1>1, <1>2, QuietSenders, SameFramesShrink DEF SendScript, TypeOK
<1>3. CASE windows # {}
  <2>1. PICK w \in windows :
          /\ inbox' = [inbox EXCEPT ![w] = Append(inbox[w], p)]
          /\ pc' = [pc EXCEPT ![p] = "sent"]
    BY <1>3 DEF SendScript
  <2> DEFINE n == Len(inbox[w]) + 1
  <2>2. /\ w \in Proc /\ n \in Nat
        /\ DOMAIN inbox[w] = 1..n - 1 /\ DOMAIN inbox'[w] = 1..n
        /\ \A i \in 1..n - 1 : inbox'[w][i] = inbox[w][i]
        /\ inbox'[w][n] = p
        /\ \A r \in Proc : r # w => inbox'[r] = inbox[r]
    BY <2>1, AppendProperties, LenProperties DEF TypeOK
  <2> HIDE DEF n
  <2>3. \A q \in Proc : pc[q] = "sent" => pc'[q] = "sent"
    BY <1>1, <2>1 DEF TypeOK
  <2>4. pc'[p] = "sent" /\ pc[p] # "sent"
    BY <1>1, <2>1 DEF TypeOK
  \* What was queued before is where it was, and p is new.
  <2>5. \A r \in Proc : \A i \in DOMAIN inbox'[r] :
          \/ i \in DOMAIN inbox[r] /\ inbox'[r][i] = inbox[r][i]
          \/ r = w /\ i = n /\ inbox'[r][i] = p
    BY <2>2
  <2>6. \A r \in Proc : \A i \in DOMAIN inbox[r] :
          /\ inbox[r][i] \in Proc \cup {NoProc}
          /\ inbox[r][i] # p
    BY <2>4, QueueEntry, NoProcAssumption DEF Known, QueuedAreBlocked
  <2>7. \A r \in Proc : \A i \in DOMAIN frames[r] : frames[r][i].from # p
    BY <2>4, NoProcAssumption DEF Known, HandledAreBlocked
  <2>8. QueuedAreBlocked'
    BY <1>1, <2>3, <2>4, <2>5, <2>6 DEF Known, QueuedAreBlocked
  <2>9. HandledAreBlocked'
    <3> SUFFICES ASSUME NEW r \in Proc, NEW i \in DOMAIN frames[r],
                        frames[r][i].from # NoProc
                 PROVE  pc'[frames[r][i].from] = "sent"
      BY <1>1 DEF HandledAreBlocked
    <3> QED
      BY <2>3, HolderIsBlocked
  <2>10. NoDoubleWait'
    <3> SUFFICES ASSUME NEW q \in Proc, NEW r \in Proc
                 PROVE  /\ \A i \in DOMAIN inbox'[q], j \in DOMAIN inbox'[r] :
                             inbox'[q][i] = inbox'[r][j] /\ inbox'[q][i] # NoProc => q = r /\ i = j
                        /\ \A i \in DOMAIN frames'[q], j \in DOMAIN frames'[r] :
                             /\ frames'[q][i].from = frames'[r][j].from
                             /\ frames'[q][i].from # NoProc
                             => q = r /\ i = j
                        /\ \A i \in DOMAIN inbox'[q], j \in DOMAIN frames'[r] :
                             inbox'[q][i] # frames'[r][j].from \/ inbox'[q][i] = NoProc
      BY DEF NoDoubleWait
    <3>1. \A i \in DOMAIN inbox'[q], j \in DOMAIN inbox'[r] :
            inbox'[q][i] = inbox'[r][j] /\ inbox'[q][i] # NoProc => q = r /\ i = j
      BY <2>5, <2>6 DEF Known, NoDoubleWait
    <3>2. \A i \in DOMAIN frames'[q], j \in DOMAIN frames'[r] :
            /\ frames'[q][i].from = frames'[r][j].from
            /\ frames'[q][i].from # NoProc
            => q = r /\ i = j
      BY <1>1 DEF Known, NoDoubleWait
    <3>3. \A i \in DOMAIN inbox'[q], j \in DOMAIN frames'[r] :
            inbox'[q][i] # frames'[r][j].from \/ inbox'[q][i] = NoProc
      BY <1>1, <2>5, <2>7 DEF Known, NoDoubleWait
    <3> QED
      BY <3>1, <3>2, <3>3
  <2> QED
    BY <2>8, <2>9, <2>10 DEF Known
<1> QED
  BY <1>2, <1>3

\* A received message moves from the head of the queue to a frame of its own.
LEMMA CopyDataKnown ==
  ASSUME TypeOK, Known, NEW p \in Proc, OnCopyData(p)
  PROVE  Known'
<1> DEFINE h == Head(inbox[p])
           f == [kind |-> "exec", from |-> h]
           n == Len(frames[p]) + 1
<1>1. UNCHANGED <<windows, pc>> /\ inbox[p] # <<>>
  BY DEF OnCopyData
<1>2. /\ h \in Proc \cup {NoProc} /\ inbox[p][1] = h /\ 1 \in DOMAIN inbox[p]
      /\ \A i \in DOMAIN inbox'[p] : /\ i \in Nat \ {0}
                                      /\ i + 1 \in DOMAIN inbox[p]
                                      /\ inbox'[p][i] = inbox[p][i + 1]
      /\ \A r \in Proc : r # p => inbox'[r] = inbox[r]
  <2>1. inbox'[p] = Tail(inbox[p]) /\ \A r \in Proc : r # p => inbox'[r] = inbox[r]
    BY DEF OnCopyData, TypeOK
  <2>2. /\ inbox[p] \in Seq(Proc \cup {NoProc}) /\ Len(inbox[p]) \in Nat \ {0}
        /\ DOMAIN inbox[p] = 1..Len(inbox[p])
    BY <1>1, EmptySeq, LenProperties DEF TypeOK
  <2>3. /\ Tail(inbox[p]) \in Seq(Proc \cup {NoProc})
        /\ Len(Tail(inbox[p])) = Len(inbox[p]) - 1
        /\ \A i \in 1..Len(Tail(inbox[p])) : Tail(inbox[p])[i] = inbox[p][i + 1]
        /\ h \in Proc \cup {NoProc}
    BY <1>1, <2>2, HeadTailProperties
  <2>4. DOMAIN Tail(inbox[p]) = 1..Len(inbox[p]) - 1
    BY <2>3, LenProperties
  <2>5. inbox[p][1] = h
    BY <1>1, <2>2
  <2> QED
    BY <2>1, <2>2, <2>3, <2>4, <2>5
\* The stacks stay as they are, or one frame holds the sender.
<1>3. \/ /\ \A r \in Proc : r # p => frames'[r] = frames[r]
         /\ DOMAIN frames[p] = 1..n - 1 /\ DOMAIN frames'[p] = 1..n /\ n \in Nat
         /\ \A i \in 1..n - 1 : frames'[p][i] = frames[p][i]
         /\ frames'[p][n].from = h
      \/ h = NoProc /\ UNCHANGED frames
  <2>1. f \in Frame
    BY <1>2 DEF Frame
  <2>2. CASE h = NoProc /\ UNCHANGED frames
    BY <2>2
  <2>3. CASE Push(p, "exec", h)
    <3>1. frames'[p] = Append(frames[p], f) /\ \A r \in Proc : r # p => frames'[r] = frames[r]
      BY <2>3 DEF Push, Pushed, TypeOK
    <3> HIDE DEF f
    <3>2. f.from = h
      BY DEF f
    <3> QED
      BY <2>1, <3>1, <3>2, PushedFrames, LenProperties DEF TypeOK
  <2> QED
    BY <2>2, <2>3 DEF OnCopyData
<1> HIDE DEF h, f, n
<1>4. h # NoProc => pc[h] = "sent"
  BY <1>2 DEF Known, QueuedAreBlocked
\* Every place of the next state is one of the current, but for the frame that
\* took the place of the head.
<1>5. \A r \in Proc : \A i \in DOMAIN inbox'[r] :
        \E k \in DOMAIN inbox[r] : /\ inbox'[r][i] = inbox[r][k]
                                   /\ r = p => k = i + 1 /\ i \in Nat \ {0}
                                   /\ r # p => k = i
  BY <1>2
<1>6. \A r \in Proc : \A i \in DOMAIN inbox'[r] : inbox'[r][i] # h \/ h = NoProc
  <2> SUFFICES ASSUME NEW r \in Proc, NEW i \in DOMAIN inbox'[r], inbox'[r][i] = h,
                      h # NoProc
               PROVE  FALSE
    OBVIOUS
  <2>1. PICK k \in DOMAIN inbox[r] : /\ inbox[r][k] = h
                                     /\ r = p => k = i + 1 /\ i \in Nat \ {0}
    BY <1>5
  <2>2. r = p /\ k = 1
    BY <1>2, <2>1 DEF Known, NoDoubleWait
  <2> QED
    BY <2>1, <2>2
<1>7. \A r \in Proc : \A i \in DOMAIN frames'[r] :
        \/ i \in DOMAIN frames[r] /\ frames'[r][i] = frames[r][i]
        \/ r = p /\ i = n /\ frames'[r][i].from = h
  BY <1>3
<1>8. h # NoProc => \A r \in Proc : \A i \in DOMAIN frames[r] : frames[r][i].from # h
  BY <1>2 DEF Known, NoDoubleWait
<1>9. QueuedAreBlocked'
  BY <1>1, <1>5 DEF Known, QueuedAreBlocked
<1>10. HandledAreBlocked'
  BY <1>1, <1>4, <1>7 DEF Known, HandledAreBlocked
<1>11. NoDoubleWait'
  <2> SUFFICES ASSUME NEW q \in Proc, NEW r \in Proc
               PROVE  /\ \A i \in DOMAIN inbox'[q], j \in DOMAIN inbox'[r] :
                           inbox'[q][i] = inbox'[r][j] /\ inbox'[q][i] # NoProc => q = r /\ i = j
                      /\ \A i \in DOMAIN frames'[q], j \in DOMAIN frames'[r] :
                           /\ frames'[q][i].from = frames'[r][j].from
                           /\ frames'[q][i].from # NoProc
                           => q = r /\ i = j
                      /\ \A i \in DOMAIN inbox'[q], j \in DOMAIN frames'[r] :
                           inbox'[q][i] # frames'[r][j].from \/ inbox'[q][i] = NoProc
    BY DEF NoDoubleWait
  <2>1. ASSUME NEW i \in DOMAIN inbox'[q], NEW j \in DOMAIN inbox'[r],
               inbox'[q][i] = inbox'[r][j], inbox'[q][i] # NoProc
        PROVE  q = r /\ i = j
    <3>1. PICK k \in DOMAIN inbox[q] : /\ inbox'[q][i] = inbox[q][k]
                                       /\ q = p => k = i + 1 /\ i \in Nat \ {0}
                                       /\ q # p => k = i
      BY <1>5
    <3>2. PICK m \in DOMAIN inbox[r] : /\ inbox'[r][j] = inbox[r][m]
                                       /\ r = p => m = j + 1 /\ j \in Nat \ {0}
                                       /\ r # p => m = j
      BY <1>5
    <3>3. inbox[q][k] = inbox[r][m] /\ inbox[q][k] # NoProc
      BY <2>1, <3>1, <3>2
    <3>4. q = r /\ k = m
      BY <3>3 DEF Known, NoDoubleWait
    <3> QED
      BY <3>1, <3>2, <3>4
  <2>2. \A i \in DOMAIN frames'[q], j \in DOMAIN frames'[r] :
          /\ frames'[q][i].from = frames'[r][j].from
          /\ frames'[q][i].from # NoProc
          => q = r /\ i = j
    BY <1>7, <1>8 DEF Known, NoDoubleWait
  <2>3. ASSUME NEW i \in DOMAIN inbox'[q], NEW j \in DOMAIN frames'[r],
               inbox'[q][i] # NoProc
        PROVE  inbox'[q][i] # frames'[r][j].from
    <3>1. PICK k \in DOMAIN inbox[q] : inbox'[q][i] = inbox[q][k]
      BY <1>5
    <3>2. CASE j \in DOMAIN frames[r] /\ frames'[r][j] = frames[r][j]
      BY <2>3, <3>1, <3>2 DEF Known, NoDoubleWait
    <3>3. CASE frames'[r][j].from = h
      BY <1>6, <2>3, <3>3
    <3> QED
      BY <1>7, <3>2, <3>3
  <2> QED
    BY <2>1, <2>2, <2>3
<1> QED
  BY <1>9, <1>10, <1>11 DEF Known

\* The sender of the script that has ended is released.
LEMMA ExecReturnsKnown ==
  ASSUME TypeOK, Known, NEW p \in Proc, ExecReturns(p)
  PROVE  Known'
<1> DEFINE q == Top(p).from
           n == Len(frames[p])
<1>1. /\ UNCHANGED <<windows, inbox>> /\ Pop(p) /\ frames[p] # <<>>
      /\ \A x \in Proc : x # q => pc'[x] = pc[x]
  BY DEF ExecReturns, On, Idle
<1>2. /\ q # NoProc => q \in Proc /\ pc[q] = "sent"
      /\ n \in DOMAIN frames[p] /\ frames[p][n].from = q
  BY <1>1, TopHolder DEF ExecReturns, Idle
<1>3. /\ \A r \in Proc : FramesShrink(r) /\ InboxShrinks(r)
      /\ \A i \in DOMAIN frames'[p] : i # n
  BY <1>1, PopShrinks DEF InboxShrinks
<1> HIDE DEF n, q
<1>4. \A x \in Proc : x # q /\ pc[x] = "sent" => pc'[x] = "sent"
  BY <1>1
<1>5. ASSUME NEW r \in Proc, NEW i \in DOMAIN inbox'[r]
      PROVE  r \in windows' /\ (inbox'[r][i] # NoProc => pc'[inbox'[r][i]] = "sent")
  <2>1. r \in windows' /\ inbox'[r][i] = inbox[r][i] /\ i \in DOMAIN inbox[r]
    BY <1>1, <1>5 DEF Known, QueuedAreBlocked
  <2>2. ASSUME inbox[r][i] # NoProc
        PROVE  pc'[inbox[r][i]] = "sent"
    <3>1. inbox[r][i] \in Proc /\ pc[inbox[r][i]] = "sent"
      BY <2>1, <2>2, QueueEntry DEF Known, QueuedAreBlocked
    <3>2. inbox[r][i] # q
      BY <1>2, <2>1, <2>2 DEF Known, NoDoubleWait
    <3> QED
      BY <1>4, <3>1, <3>2
  <2> QED
    BY <2>1, <2>2
<1>6. ASSUME NEW r \in Proc, NEW i \in DOMAIN frames'[r], frames'[r][i].from # NoProc
      PROVE  pc'[frames[r][i].from] = "sent"
  <2>1. i \in DOMAIN frames[r] /\ frames[r][i].from # NoProc
    BY <1>3, <1>6 DEF FramesShrink
  <2>2. frames[r][i].from # q
    BY <1>2, <1>3, <2>1 DEF Known, NoDoubleWait
  <2> QED
    BY <1>4, <2>1, <2>2, HolderIsBlocked
<1> QED
  BY <1>3, <1>5, <1>6, FewerPlaces

\* A blocked sender that is killed is taken out of the queue or the frame.
LEMMA SenderKilledKnown ==
  ASSUME TypeOK, Known, NEW p \in Proc, SenderKilled(p)
  PROVE  Known'
<1>1. /\ UNCHANGED windows
      /\ \A q \in Proc : q # p => pc'[q] = pc[q]
  BY DEF SenderKilled, TypeOK
<1>2. ASSUME NEW r \in Proc, NEW i \in DOMAIN inbox'[r]
      PROVE  /\ i \in DOMAIN inbox[r]
             /\ inbox'[r][i] # NoProc =>
                  inbox'[r][i] = inbox[r][i] /\ inbox[r][i] # p
  BY <1>2, AbandonedQueue
<1>3. ASSUME NEW r \in Proc, NEW i \in DOMAIN frames'[r], frames'[r][i].from # NoProc
      PROVE  /\ i \in DOMAIN frames[r] /\ frames'[r][i].from = frames[r][i].from
             /\ frames[r][i].from # p
  BY <1>3, AbandonedStack
<1>4. \A r \in Proc : FramesShrink(r) /\ InboxShrinks(r)
  BY <1>2, <1>3 DEF FramesShrink, InboxShrinks
<1>5. \A r \in Proc : \A i \in DOMAIN inbox'[r] :
        r \in windows' /\ (inbox'[r][i] # NoProc => pc'[inbox'[r][i]] = "sent")
  BY <1>1, <1>2, QueueEntry DEF Known, QueuedAreBlocked
<1>6. ASSUME NEW r \in Proc, NEW i \in DOMAIN frames'[r], frames'[r][i].from # NoProc
      PROVE  pc'[frames[r][i].from] = "sent"
  <2>1. i \in DOMAIN frames[r] /\ frames[r][i].from # NoProc /\ frames[r][i].from # p
    BY <1>3, <1>6
  <2>2. frames[r][i].from \in Proc /\ pc[frames[r][i].from] = "sent"
    BY <2>1, HolderIsBlocked
  <2> QED
    BY <1>1, <2>1, <2>2
<1> QED
  BY <1>4, <1>5, <1>6, FewerPlaces

\* Every step keeps the queued and handled senders blocked, each in one place.
LEMMA KnownNext ==
  ASSUME TypeOK, HotkeyIsServed, WindowsKnown, Known, [Next]_vars
  PROVE  Known'
<1>a. "sent" \notin Serving
  BY DEF Serving, Scripts
<1>b. ASSUME UNCHANGED <<inbox, frames>>, windows \subseteq windows',
             \A q \in Proc : pc[q] = "sent" => pc'[q] = "sent"
      PROVE  Known'
  BY <1>b, QuietSenders, SameFramesShrink
<1>c. \A p \in Proc : p \in windows => pc[p] # "sent"
  BY <1>a DEF WindowsKnown
<1>1. ASSUME NEW p \in Proc, Step(p)
      PROVE  Known'
  <2>1. CASE OptionsEnd(p)
    BY <2>1, <1>b DEF OptionsEnd, TypeOK
  <2>2. CASE SendScript(p)
    BY <2>2, SendKnown
  <2>3. CASE FindAnother(p)
    BY <2>3, <1>b DEF FindAnother, TypeOK
  <2>4. CASE CreateMainWindow(p)
    BY <2>4, <1>b DEF CreateMainWindow, TypeOK
  <2>5. CASE OnCreate(p)
    <3>1. CASE hotkey = NoProc
      BY <2>5, <3>1, <1>b DEF OnCreate, TypeOK
    <3>2. CASE hotkey # NoProc
      BY <2>5, <3>2, WindowGoneSenders, SameFramesShrink DEF OnCreate
    <3> QED
      BY <3>1, <3>2
  <2>6. CASE LeaveMainLoop(p)
    BY <2>6, <1>b DEF LeaveMainLoop, TypeOK
  <2>7. CASE OnClose(p)
    BY <2>7, PushShrinks, QuietSenders DEF OnClose
  <2>8. CASE OnCopyData(p)
    BY <2>8, CopyDataKnown
  <2>9. CASE ExecReturns(p)
    BY <2>9, ExecReturnsKnown
  <2>10. CASE Cleanup(p)
    BY <2>10, WindowGoneSenders, SameFramesShrink DEF Cleanup
  <2>11. CASE Exit(p)
    BY <2>11, <1>b DEF Exit, TypeOK
  <2>12. CASE EndSessionReturns(p)
    BY <2>12, <1>c, PopShrinks, WindowGoneSenders
       DEF EndSessionReturns, On, Idle
  <2>13. CASE SystemTerminates(p)
    <3>1. frames'[p] = <<>> /\ \A r \in Proc : FramesShrink(r)
      BY <2>13 DEF SystemTerminates, Dies, FramesShrink, TypeOK
    <3> QED
      BY <2>13, <3>1, WindowGoneSenders DEF SystemTerminates, Dies
  <2> QED
    BY <1>1, <2>1, <2>2, <2>3, <2>4, <2>5, <2>6, <2>7, <2>8, <2>9, <2>10,
       <2>11, <2>12, <2>13 DEF Step
<1>2. ASSUME NEW p \in Proc, ScriptStep(p)
      PROVE  Known'
  <2>1. CASE PhaseEnds(p)
    <3>1. \A r \in Proc : FramesShrink(r)
      BY <2>1, PushShrinks, SameFramesShrink DEF PhaseEnds
    <3>2. pc[p] # "sent"
      BY <2>1 DEF PhaseEnds, Scripts
    <3>3. \A q \in Proc : pc[q] = "sent" => pc'[q] = "sent"
      BY <2>1, <3>2 DEF PhaseEnds, TypeOK
    <3> QED
      BY <2>1, <3>1, <3>3, QuietSenders DEF PhaseEnds
  <2>2. CASE NestedScriptEnds(p)
    BY <2>2, NestedScriptShrinks, QuietSenders DEF NestedScriptEnds
  <2> QED
    BY <1>2, <2>1, <2>2 DEF ScriptStep
<1>3. ASSUME NEW p \in Proc, UserStep(p)
      PROVE  Known'
  BY <1>3, PopShrinks, QuietSenders
     DEF UserStep, DismissNotice, AnswerConfirm, On, Idle
<1>4. ASSUME NEW p \in Proc, Environment(p)
      PROVE  Known'
  <2>1. CASE Start(p) \/ OptionExec(p) \/ OptionAnswered(p) \/ OptionPreExec(p)
    BY <2>1, <1>b DEF Start, OptionExec, OptionAnswered, OptionPreExec, TypeOK
  <2>2. CASE ScriptNotices(p) \/ OnEndSession(p)
    BY <2>2, PushShrinks, QuietSenders DEF ScriptNotices, OnEndSession
  <2>3. CASE ScriptExits(p) \/ UserExits(p)
    BY <2>3, <1>b DEF ScriptExits, UserExits
  <2>5. CASE LoopFails(p)
    <3>1. \A r \in Proc : FramesShrink(r)
      BY <2>5, PushShrinks DEF LoopFails
    <3>2. \A q \in Proc : pc[q] = "sent" => pc'[q] = "sent"
      BY <2>5 DEF LoopFails, TypeOK
    <3> QED
      BY <2>5, <3>1, <3>2, QuietSenders DEF LoopFails
  <2>4. CASE Killed(p)
    <3>1. frames'[p] = <<>> /\ \A r \in Proc : FramesShrink(r)
      BY <2>4 DEF Killed, Dies, FramesShrink, TypeOK
    <3> QED
      BY <2>4, <3>1, WindowGoneSenders DEF Killed, Dies
  <2>6. CASE SenderKilled(p)
    BY <2>6, SenderKilledKnown
  <2> QED
    BY <1>4, <2>1, <2>2, <2>3, <2>4, <2>5, <2>6 DEF Environment
<1>5. CASE UNCHANGED vars
  BY <1>5, <1>b DEF vars
<1> QED
  BY <1>1, <1>2, <1>3, <1>4, <1>5 DEF Next, Finished
-----------------------------------------------------------------------------
(* No blocked sender is forgotten                                          *)

\* Of the senders still blocked, those p was handling it still handles.
KeepsHandling(p) ==
  \A i \in DOMAIN frames[p] :
    frames[p][i].from # NoProc /\ pc'[frames[p][i].from] = "sent" =>
      \E j \in DOMAIN frames'[p] : frames'[p][j].from = frames[p][i].from

\* A step that keeps the places of a blocked sender keeps it accounted for.
LEMMA BlockedKept ==
  ASSUME BlockedAreKnown,
         \A q \in Proc : pc'[q] = "sent" => pc[q] = "sent",
         \A r \in Proc : KeepsHandling(r),
         \A r \in Proc : \A q \in Waiting(r) :
           pc'[q] = "sent" => q \in Waiting(r)'
  PROVE  BlockedAreKnown'
<1> SUFFICES ASSUME NEW q \in Proc, pc'[q] = "sent"
             PROVE  \E p \in Proc : q \in Waiting(p)' \cup Executing(p)'
  BY DEF BlockedAreKnown
<1>1. PICK p \in Proc : q \in Waiting(p) \cup Executing(p)
  BY DEF BlockedAreKnown
<1>2. CASE q \in Waiting(p)
  BY <1>2
<1>3. CASE q \in Executing(p)
  <2>1. PICK i \in DOMAIN frames[p] : frames[p][i].from = q
    BY <1>3 DEF Executing
  <2>2. q # NoProc
    BY NoProcAssumption
  <2>3. \E j \in DOMAIN frames'[p] : frames'[p][j].from = q
    BY <2>1, <2>2 DEF KeepsHandling
  <2>4. q \in Executing(p)'
    BY <2>3 DEF Executing
  <2> QED
    BY <2>4
<1> QED
  BY <1>1, <1>2, <1>3

\* Leaving a frame that holds no sender takes nobody from the stacks.
LEMMA PopKeeps ==
  ASSUME TypeOK, NEW p \in Proc, frames[p] # <<>>, Pop(p),
         \/ Top(p).from = NoProc
         \/ pc'[Top(p).from] # "sent"
  PROVE  \A r \in Proc : KeepsHandling(r)
<1> DEFINE n == Len(frames[p])
<1>1. frames'[p] = Popped(p) /\ \A r \in Proc : r # p => frames'[r] = frames[r]
  BY DEF Pop, TypeOK
<1>2. /\ DOMAIN Popped(p) = 1..n - 1 /\ DOMAIN frames[p] = 1..n /\ n \in Nat
      /\ \A i \in 1..n - 1 : Popped(p)[i] = frames[p][i]
      /\ Top(p) = frames[p][n]
  BY PoppedFrames, LenProperties DEF TypeOK, Top
<1> HIDE DEF n
<1>3. KeepsHandling(p)
  <2> SUFFICES ASSUME NEW i \in DOMAIN frames[p], frames[p][i].from # NoProc,
                      pc'[frames[p][i].from] = "sent"
               PROVE  \E j \in DOMAIN frames'[p] : frames'[p][j].from = frames[p][i].from
    BY DEF KeepsHandling
  <2>1. i # n
    BY <1>2
  <2>2. i \in 1..n - 1
    BY <1>2, <2>1
  <2> QED
    BY <1>1, <1>2, <2>2
<1>4. \A r \in Proc : r # p => KeepsHandling(r)
  BY <1>1 DEF KeepsHandling
<1> QED
  BY <1>3, <1>4

\* Entering a frame takes nobody from them.
LEMMA PushKeeps ==
  ASSUME TypeOK, NEW p \in Proc, NEW kind, NEW from,
         [kind |-> kind, from |-> from] \in Frame, Push(p, kind, from)
  PROVE  /\ \A r \in Proc : KeepsHandling(r)
         /\ \E j \in DOMAIN frames'[p] : frames'[p][j].from = from
<1> DEFINE f == [kind |-> kind, from |-> from]
           n == Len(frames[p])
<1>1. frames'[p] = Append(frames[p], f) /\ \A r \in Proc : r # p => frames'[r] = frames[r]
  BY DEF Push, Pushed, TypeOK
<1>2. f.from = from
  OBVIOUS
<1> HIDE DEF f
<1>3. /\ DOMAIN Append(frames[p], f) = 1..n + 1 /\ DOMAIN frames[p] = 1..n
      /\ n \in Nat /\ Append(frames[p], f)[n + 1] = f
      /\ \A i \in 1..n : Append(frames[p], f)[i] = frames[p][i]
  BY PushedFrames, LenProperties DEF TypeOK, f
<1> HIDE DEF n
<1>4. KeepsHandling(p)
  BY <1>1, <1>3 DEF KeepsHandling
<1>5. \A r \in Proc : r # p => KeepsHandling(r)
  BY <1>1 DEF KeepsHandling
<1>6. n + 1 \in DOMAIN frames'[p] /\ frames'[p][n + 1].from = from
  BY <1>1, <1>2, <1>3
<1> QED
  BY <1>4, <1>5, <1>6

\* The end of a nested script takes nobody from them.
LEMMA NestedScriptKeeps ==
  ASSUME TypeOK, NEW p \in Proc, NestedScriptEnds(p)
  PROVE  \A r \in Proc : KeepsHandling(r)
<1> DEFINE done == [Top(p) EXCEPT !.kind = IF @ = "exec" THEN "execDone"
                                           ELSE "logoutDone"]
           box  == [kind |-> "notice", from |-> NoProc]
           s    == Popped(p)
           n    == Len(frames[p])
<1>1. frames[p] # <<>>
  BY DEF NestedScriptEnds, On, Idle
<1>2. /\ s \in Seq(Frame) /\ n \in Nat \ {0} /\ Len(s) = n - 1
      /\ \A i \in 1..n - 1 : s[i] = frames[p][i]
      /\ done \in Frame /\ done.from = frames[p][n].from /\ box \in Frame
      /\ DOMAIN frames[p] = 1..n
  <2>1. Top(p) \in Frame
    BY <1>1, PoppedFrames
  <2>2. done \in Frame /\ done.from = Top(p).from /\ box \in Frame
    BY <2>1 DEF Frame, NestedScriptEnds, On
  <2>3. Top(p) = frames[p][n] /\ DOMAIN frames[p] = 1..n
    BY LenProperties DEF TypeOK, Top
  <2> QED
    BY <1>1, <2>2, <2>3, PoppedFrames
<1>3. /\ \A r \in Proc : r # p => frames'[r] = frames[r]
      /\ frames'[p] = Append(s, done) \/ frames'[p] = s \o <<done, box>>
  BY DEF NestedScriptEnds, TypeOK
<1> HIDE DEF done, box, s, n
<1>4. /\ 1..n \subseteq DOMAIN frames'[p]
      /\ \A i \in 1..n - 1 : frames'[p][i] = frames[p][i]
      /\ frames'[p][n] = done
  <2>1. CASE frames'[p] = Append(s, done)
    BY <1>2, <2>1, AppendProperties, LenProperties
  <2>2. CASE frames'[p] = s \o <<done, box>>
    <3>1. <<done, box>> \in Seq(Frame) /\ Len(<<done, box>>) = 2
      BY <1>2
    <3> QED
      BY <1>2, <2>2, <3>1, ConcatProperties, LenProperties
  <2> QED
    BY <1>3, <2>1, <2>2
<1>5. KeepsHandling(p)
  BY <1>2, <1>4 DEF KeepsHandling
<1> QED
  BY <1>3, <1>5 DEF KeepsHandling

\* Stacks that stay as they are lose nobody.
LEMMA SameFramesKeep ==
  ASSUME UNCHANGED frames
  PROVE  \A r \in Proc : KeepsHandling(r)
BY DEF KeepsHandling

\* A process goes with its window and releases S.
LEMMA GoneKeeps ==
  ASSUME TypeOK, BlockedAreKnown, NEW p \in Proc, NEW l, NEW S, l # "sent",
         Waiting(p) \subseteq S,
         \A r \in Proc : KeepsHandling(r),
         DestroyWindow(p), Go(p, l, S)
  PROVE  BlockedAreKnown'
<1>1. \A q \in Proc : pc'[q] = "sent" => pc[q] = "sent" /\ q # p /\ q \notin S
  BY DEF Go
<1>2. \A r \in Proc : r # p => inbox'[r] = inbox[r]
  BY DEF DestroyWindow, TypeOK
<1>3. ASSUME NEW r \in Proc, NEW q \in Waiting(r), pc'[q] = "sent"
      PROVE  q \in Waiting(r)'
  <2>1. q \in Proc
    BY DEF Waiting
  <2>2. r # p
    BY <1>1, <1>3, <2>1
  <2> QED
    BY <1>2, <2>1, <2>2 DEF Waiting
<1> QED
  BY <1>1, <1>3, BlockedKept

\* A process that dies releases all who wait for it or are handled by it.
LEMMA DiesKeeps ==
  ASSUME TypeOK, BlockedAreKnown, NEW p \in Proc, NEW st, Dies(p, st)
  PROVE  BlockedAreKnown'
<1> DEFINE S == Waiting(p) \cup Executing(p)
<1>1. /\ frames' = [frames EXCEPT ![p] = <<>>]
      /\ DestroyWindow(p) /\ Go(p, "exited", S)
  BY DEF Dies
<1>2. \A q \in Executing(p) : q \in Proc /\ pc'[q] # "sent"
  BY <1>1 DEF Go, Executing
<1>3. KeepsHandling(p)
  <2> SUFFICES ASSUME NEW i \in DOMAIN frames[p], frames[p][i].from # NoProc,
                      pc'[frames[p][i].from] = "sent"
               PROVE  FALSE
    BY DEF KeepsHandling
  <2>1. frames[p] \in [1..Len(frames[p]) -> Frame]
    BY LenProperties DEF TypeOK
  <2>2. frames[p][i] \in Frame
    BY <2>1
  <2>3. frames[p][i].from \in Executing(p)
    BY <2>2 DEF Frame, Executing
  <2> QED
    BY <1>2, <2>3
<1>4. \A r \in Proc : r # p => KeepsHandling(r)
  BY <1>1 DEF KeepsHandling, TypeOK
<1> QED
  BY <1>1, <1>3, <1>4, GoneKeeps

\* A blocked sender that is killed leaves the others where they wait.
LEMMA SenderKilledKeeps ==
  ASSUME TypeOK, BlockedAreKnown, NEW p \in Proc, SenderKilled(p)
  PROVE  BlockedAreKnown'
<1>1. pc'[p] # "sent" /\ \A q \in Proc : pc'[q] = "sent" => pc[q] = "sent"
  BY DEF SenderKilled, TypeOK
<1>2. ASSUME NEW r \in Proc
      PROVE  KeepsHandling(r)
  <2> SUFFICES ASSUME NEW i \in DOMAIN frames[r], frames[r][i].from # NoProc,
                      pc'[frames[r][i].from] = "sent"
               PROVE  \E j \in DOMAIN frames'[r] : frames'[r][j].from = frames[r][i].from
    BY DEF KeepsHandling
  <2>1. frames[r][i].from # p
    BY <1>1
  <2> QED
    BY <2>1, AbandonedStack
<1>3. ASSUME NEW r \in Proc, NEW q \in Waiting(r), pc'[q] = "sent"
      PROVE  q \in Waiting(r)'
  <2>1. PICK i \in DOMAIN inbox[r] : inbox[r][i] = q
    BY DEF Waiting
  <2>2. q # p
    BY <1>1, <1>3
  <2>3. i \in DOMAIN inbox'[r] /\ inbox'[r][i] = q
    BY <2>1, <2>2, AbandonedQueue
  <2>4. q \in Proc
    BY DEF Waiting
  <2> QED
    BY <2>3, <2>4 DEF Waiting
<1> QED
  BY <1>1, <1>2, <1>3, BlockedKept

\* Every step leaves each blocked sender in some queue or handler.
LEMMA BlockedNext ==
  ASSUME TypeOK, Known, BlockedAreKnown, [Next]_vars
  PROVE  BlockedAreKnown'
<1>a. ASSUME UNCHANGED inbox, \A r \in Proc : KeepsHandling(r),
             \A q \in Proc : pc'[q] = "sent" => pc[q] = "sent"
      PROVE  BlockedAreKnown'
  <2>1. \A r \in Proc : Waiting(r)' = Waiting(r)
    BY <1>a DEF Waiting
  <2> QED
    BY <1>a, <2>1, BlockedKept
<1>b. ASSUME UNCHANGED <<inbox, frames>>,
             \A q \in Proc : pc'[q] = "sent" => pc[q] = "sent"
      PROVE  BlockedAreKnown'
  BY <1>a, <1>b, SameFramesKeep
<1>1. ASSUME NEW p \in Proc, Step(p)
      PROVE  BlockedAreKnown'
  <2>1. CASE OptionsEnd(p)
    BY <2>1, <1>b DEF OptionsEnd, TypeOK
  <2>2. CASE SendScript(p)
    <3>1. CASE windows = {}
      BY <2>2, <3>1, <1>b DEF SendScript, TypeOK
    <3>2. CASE windows # {}
      <4>1. PICK w \in windows :
              /\ inbox' = [inbox EXCEPT ![w] = Append(inbox[w], p)]
              /\ pc' = [pc EXCEPT ![p] = "sent"]
        BY <2>2, <3>2 DEF SendScript
      <4> DEFINE n == Len(inbox[w]) + 1
      <4>0. /\ w \in Proc /\ n \in Nat
            /\ DOMAIN inbox[w] = 1..n-1
            /\ DOMAIN inbox'[w] = 1..n
            /\ \A i \in 1..n-1 : inbox'[w][i] = inbox[w][i]
            /\ inbox'[w][n] = p
            /\ \A r \in Proc : r # w => inbox'[r] = inbox[r]
        BY <4>1, AppendProperties, LenProperties DEF TypeOK
      <4>10. n >= 1
        BY <4>1, LenProperties DEF TypeOK
      <4> HIDE DEF n
      <4>2. /\ w \in Proc /\ n \in DOMAIN inbox'[w] /\ inbox'[w][n] = p
            /\ \A i \in DOMAIN inbox[w] : i \in DOMAIN inbox'[w]
                                         /\ inbox'[w][i] = inbox[w][i]
            /\ \A r \in Proc : r # w => inbox'[r] = inbox[r]
        BY <4>0, <4>10
      <4>3. /\ \A q \in Proc : q # p /\ pc'[q] = "sent" => pc[q] = "sent"
            /\ UNCHANGED frames
        BY <2>2, <4>1 DEF SendScript, TypeOK
      <4> SUFFICES ASSUME NEW q \in Proc, pc'[q] = "sent"
                   PROVE  \E r \in Proc : q \in Waiting(r)' \cup Executing(r)'
        BY DEF BlockedAreKnown
      <4>4. CASE q = p
        <5>1. q \in Waiting(w)'
          BY <4>2, <4>4 DEF Waiting
        <5> QED
          BY <4>2, <5>1
      <4>5. CASE q # p
        <5>1. PICK r \in Proc : q \in Waiting(r) \cup Executing(r)
          BY <4>3, <4>5 DEF BlockedAreKnown
        <5>2. CASE q \in Waiting(r)
          <6>1. q \in Waiting(r)'
            BY <4>2, <5>2 DEF Waiting
          <6> QED
            BY <6>1
        <5>3. CASE q \in Executing(r)
          <6>1. q \in Executing(r)'
            BY <4>3, <5>3 DEF Executing
          <6> QED
            BY <6>1
        <5> QED
          BY <5>1, <5>2, <5>3
      <4> QED
        BY <4>4, <4>5
    <3> QED
      BY <3>1, <3>2
  <2>3. CASE FindAnother(p)
    BY <2>3, <1>b DEF FindAnother, TypeOK
  <2>4. CASE CreateMainWindow(p)
    BY <2>4, <1>b DEF CreateMainWindow, TypeOK
  <2>5. CASE OnCreate(p)
    <3>1. CASE hotkey = NoProc
      BY <2>5, <3>1, <1>b DEF OnCreate, TypeOK
    <3>2. CASE hotkey # NoProc
      BY <2>5, <3>2, GoneKeeps, SameFramesKeep DEF OnCreate
    <3> QED
      BY <3>1, <3>2
  <2>6. CASE LeaveMainLoop(p)
    BY <2>6, <1>b DEF LeaveMainLoop, TypeOK
  <2>7. CASE OnClose(p)
    <3>1. [kind |-> "confirm", from |-> NoProc] \in Frame
      BY DEF Frame
    <3> QED
      BY <2>7, <3>1, <1>a, PushKeeps DEF OnClose
  <2>8. CASE OnCopyData(p)
    <3> DEFINE h == Head(inbox[p])
    <3>1. /\ h \in Proc \cup {NoProc}
          /\ \A i \in DOMAIN inbox[p] : inbox[p][i] # h =>
               \E j \in DOMAIN inbox'[p] : inbox'[p][j] = inbox[p][i]
          /\ \A r \in Proc : r # p => inbox'[r] = inbox[r]
      <4>1. /\ inbox'[p] = Tail(inbox[p]) /\ inbox[p] # <<>>
            /\ \A r \in Proc : r # p => inbox'[r] = inbox[r]
        BY <2>8 DEF OnCopyData, TypeOK
      <4>2. /\ inbox[p] \in Seq(Proc \cup {NoProc}) /\ Len(inbox[p]) \in Nat \ {0}
            /\ DOMAIN inbox[p] = 1..Len(inbox[p])
        BY <4>1, EmptySeq, LenProperties DEF TypeOK
      <4>3. /\ h \in Proc \cup {NoProc} /\ inbox[p][1] = h
            /\ DOMAIN Tail(inbox[p]) = 1..Len(inbox[p]) - 1
            /\ \A j \in 1..Len(inbox[p]) - 1 : Tail(inbox[p])[j] = inbox[p][j + 1]
        BY <4>1, <4>2, HeadTailProperties, LenProperties
      <4> HIDE DEF h
      <4>4. ASSUME NEW i \in DOMAIN inbox[p], inbox[p][i] # h
            PROVE  \E j \in DOMAIN inbox'[p] : inbox'[p][j] = inbox[p][i]
        <5>1. i - 1 \in 1..Len(inbox[p]) - 1 /\ (i - 1) + 1 = i
          BY <4>2, <4>3, <4>4
        <5> QED
          BY <4>1, <4>3, <5>1
      <4> QED
        BY <4>1, <4>3, <4>4
    <3>2. [kind |-> "exec", from |-> h] \in Frame
      BY <3>1 DEF Frame
    <3>3. /\ \A r \in Proc : KeepsHandling(r)
          /\ h = NoProc \/ \E j \in DOMAIN frames'[p] : frames'[p][j].from = h
          /\ UNCHANGED pc
      <4>1. \/ Push(p, "exec", h)
            \/ h = NoProc /\ UNCHANGED frames
        BY <2>8 DEF OnCopyData
      <4>2. UNCHANGED pc
        BY <2>8 DEF OnCopyData
      <4> HIDE DEF h
      <4> QED
        BY <3>2, <4>1, <4>2, PushKeeps, SameFramesKeep
    <3> HIDE DEF h
    <3> SUFFICES ASSUME NEW q \in Proc, pc[q] = "sent"
                 PROVE  \E r \in Proc : q \in Waiting(r)' \cup Executing(r)'
      BY <3>3 DEF BlockedAreKnown
    <3>4. CASE q = h
      <4>1. q \in Executing(p)'
        BY <3>3, <3>4, NoProcAssumption DEF Executing
      <4> QED
        BY <4>1
    <3>5. CASE q # h
      <4>1. PICK r \in Proc : q \in Waiting(r) \cup Executing(r)
        BY DEF BlockedAreKnown
      <4>2. CASE q \in Waiting(r)
        <5>1. q \in Waiting(r)'
          BY <3>1, <3>5, <4>2 DEF Waiting
        <5> QED
          BY <5>1
      <4>3. CASE q \in Executing(r)
        <5>1. q # NoProc
          BY NoProcAssumption
        <5>2. q \in Executing(r)'
          BY <3>3, <4>3, <5>1 DEF Executing, KeepsHandling
        <5> QED
          BY <5>2
      <4> QED
        BY <4>1, <4>2, <4>3
    <3> QED
      BY <3>4, <3>5
  <2>9. CASE ExecReturns(p)
    <3>1. Top(p).from \in Proc \cup {NoProc}
      BY <2>9, TopHolder DEF ExecReturns
    <3>2. \A q \in Proc : pc'[q] = "sent" => pc[q] = "sent"
      BY <2>9 DEF ExecReturns
    <3>3. Top(p).from = NoProc \/ pc'[Top(p).from] # "sent"
      BY <2>9, <3>1 DEF ExecReturns
    <3> QED
      BY <2>9, <3>2, <3>3, <1>a, PopKeeps DEF ExecReturns, On, Idle
  <2>10. CASE Cleanup(p)
    BY <2>10, GoneKeeps, SameFramesKeep DEF Cleanup
  <2>11. CASE Exit(p)
    BY <2>11, <1>b DEF Exit, TypeOK
  <2>12. CASE EndSessionReturns(p)
    <3>1. Top(p).from = NoProc
      BY <2>12, TopHolder DEF EndSessionReturns, On
    <3> QED
      BY <2>12, <3>1, GoneKeeps, PopKeeps DEF EndSessionReturns, On, Idle
  <2>13. CASE SystemTerminates(p)
    BY <2>13, DiesKeeps DEF SystemTerminates
  <2> QED
    BY <1>1, <2>1, <2>2, <2>3, <2>4, <2>5, <2>6, <2>7, <2>8, <2>9, <2>10,
       <2>11, <2>12, <2>13 DEF Step
<1>2. ASSUME NEW p \in Proc, ScriptStep(p)
      PROVE  BlockedAreKnown'
  <2>1. CASE PhaseEnds(p)
    <3>1. NextPhase(pc[p]) # "sent"
      BY <2>1 DEF PhaseEnds, NextPhase, Scripts
    <3>2. \A q \in Proc : pc'[q] = "sent" => pc[q] = "sent"
      BY <2>1, <3>1 DEF PhaseEnds, TypeOK
    <3>3. [kind |-> "notice", from |-> NoProc] \in Frame
      BY DEF Frame
    <3>4. \A r \in Proc : KeepsHandling(r)
      BY <2>1, <3>3, PushKeeps, SameFramesKeep DEF PhaseEnds
    <3> QED
      BY <2>1, <3>2, <3>4, <1>a DEF PhaseEnds
  <2>2. CASE NestedScriptEnds(p)
    BY <2>2, NestedScriptKeeps, <1>a DEF NestedScriptEnds
  <2> QED
    BY <1>2, <2>1, <2>2 DEF ScriptStep
<1>3. ASSUME NEW p \in Proc, UserStep(p)
      PROVE  BlockedAreKnown'
  <2>1. Top(p).from = NoProc /\ frames[p] # <<>> /\ Pop(p) /\ UNCHANGED <<pc, inbox>>
    BY <1>3, TopHolder DEF UserStep, DismissNotice, AnswerConfirm, On, Idle
  <2> QED
    BY <2>1, PopKeeps, <1>a
<1>4. ASSUME NEW p \in Proc, Environment(p)
      PROVE  BlockedAreKnown'
  <2>1. CASE Start(p) \/ OptionExec(p) \/ OptionAnswered(p) \/ OptionPreExec(p)
    BY <2>1, <1>b DEF Start, OptionExec, OptionAnswered, OptionPreExec, TypeOK
  <2>2. CASE ScriptNotices(p) \/ OnEndSession(p)
    <3>1. /\ [kind |-> "notice", from |-> NoProc] \in Frame
          /\ [kind |-> "logout", from |-> NoProc] \in Frame
      BY DEF Frame
    <3> QED
      BY <2>2, <3>1, PushKeeps, <1>a DEF ScriptNotices, OnEndSession
  <2>3. CASE ScriptExits(p) \/ UserExits(p)
    BY <2>3, <1>b DEF ScriptExits, UserExits
  <2>5. CASE LoopFails(p)
    <3>1. [kind |-> "notice", from |-> NoProc] \in Frame
      BY DEF Frame
    <3>2. \A q \in Proc : pc'[q] = "sent" => pc[q] = "sent"
      BY <2>5 DEF LoopFails, TypeOK
    <3>3. \A r \in Proc : KeepsHandling(r)
      BY <2>5, <3>1, PushKeeps DEF LoopFails
    <3> QED
      BY <2>5, <3>2, <3>3, <1>a DEF LoopFails
  <2>4. CASE Killed(p)
    BY <2>4, DiesKeeps DEF Killed
  <2>6. CASE SenderKilled(p)
    BY <2>6, SenderKilledKeeps
  <2> QED
    BY <1>4, <2>1, <2>2, <2>3, <2>4, <2>5, <2>6 DEF Environment
<1>5. CASE UNCHANGED vars
  BY <1>5, <1>b DEF vars
<1> QED
  BY <1>1, <1>2, <1>3, <1>4, <1>5 DEF Next, Finished
-----------------------------------------------------------------------------
(* The theorems                                                            *)

\* The inductive invariant holds at the start ...
LEMMA InvInit == Init => IInv
<1>1. Init => HotkeyIsServed /\ WindowsKnown
  BY NoProcAssumption DEF Init, HotkeyIsServed, WindowsKnown, Serving, Scripts
<1>2. DOMAIN <<>> = {}
  OBVIOUS
<1>3. Init => SenderTracked
  BY <1>2 DEF Init, SenderTracked, QueuedAreBlocked, HandledAreBlocked,
              NoDoubleWait, BlockedAreKnown
<1> QED
  BY <1>1, <1>3, TypeInit DEF IInv

\* ... and every step preserves it.
LEMMA InvNext == IInv /\ [Next]_vars => IInv'
BY TypeNext, ServingNext, KnownNext, BlockedNext DEF IInv, SenderTracked, Known

\* The inductive invariant holds in every reachable state.
THEOREM Invariance == Spec => []IInv
<1>1. Init => IInv
  BY InvInit
<1>2. IInv /\ [Next]_vars => IInv'
  BY InvNext
<1> QED
  BY <1>1, <1>2, PTL DEF Spec

\* However many processes are started, at most one of them serves as the shell.
THEOREM OneShell == Spec => []MutualExclusion
<1>1. IInv => MutualExclusion
  BY DEF IInv, HotkeyIsServed, MutualExclusion
<1> QED
  BY <1>1, Invariance, PTL

\* The exit hot key is owned by the shell while it serves, and by no other.
THEOREM HotkeyBelongsToShell == Spec => []HotkeyIsServed
<1>1. IInv => HotkeyIsServed
  BY DEF IInv
<1> QED
  BY <1>1, Invariance, PTL

\* A process blocked in SendMessage waits in exactly one place.
THEOREM SendersAreTracked == Spec => []SenderTracked
<1>1. IInv => SenderTracked
  BY DEF IInv
<1> QED
  BY <1>1, Invariance, PTL

-----------------------------------------------------------------------------
(***************************************************************************)
(* Somebody wins when several processes start at once, and the processes   *)
(* of Lifecycle implement ShellSession.                                    *)
(***************************************************************************)

\* Where a process is not when it serves.
LEMMA NotServing ==
  /\ {"off", "options", "send", "sent", "find", "startup", "create", "unload",
      "zombie", "exited"} \cap Serving = {}
  /\ {"pre", "login", "loop", "logout", "closing"} \subseteq Serving
BY DEF Serving, Scripts

\* What a process does when its window goes: it and those it releases are the
\* only ones to move, and nobody comes to serve or to create a window.
LEMMA GoMoves ==
  ASSUME TypeOK, NEW p \in Proc, NEW l, NEW S, Go(p, l, S)
  PROVE  /\ pc'[p] = l
         /\ \A q \in Proc : q # p /\ q \in S => pc'[q] = "options"
         /\ \A q \in Proc : q # p /\ q \notin S => pc'[q] = pc[q]
BY DEF Go

\* The sender whose script has run, when it lives: where it was, and where it
\* goes.
LEMMA ExecReturnsMoves ==
  ASSUME TypeOK, Known, NEW p \in Proc, ExecReturns(p)
  PROVE  /\ Top(p).from \in Proc \cup {NoProc}
         /\ Top(p).from \in Proc =>
              pc[Top(p).from] = "sent" /\ pc'[Top(p).from] = "options"
         /\ \A q \in Proc : q # Top(p).from => pc'[q] = pc[q]
         /\ Top(p).from = NoProc => UNCHANGED pc
<1>1. \/ Top(p).from \in Proc /\ pc[Top(p).from] = "sent"
      \/ Top(p).from = NoProc
  BY TopHolder DEF ExecReturns
<1>2. pc' = [q \in Proc |-> IF q = Top(p).from THEN "options" ELSE pc[q]]
  BY DEF ExecReturns
<1>3. ASSUME Top(p).from = NoProc
      PROVE  UNCHANGED pc
  <2>1. pc' = [q \in Proc |-> pc[q]]
    BY <1>2, <1>3, NoProcAssumption
  <2> QED
    BY <2>1 DEF TypeOK
<1> QED
  BY <1>1, <1>2, <1>3, NoProcAssumption

\* A script that ends or fails takes its shell to the next place of the chain.
LEMMA PhaseMoves ==
  ASSUME TypeOK, NEW p \in Proc, PhaseEnds(p)
  PROVE  /\ pc[p] \in Serving /\ pc'[p] \in Serving
         /\ \A q \in Proc : q # p => pc'[q] = pc[q]
<1>1. pc[p] \in Scripts /\ (NextPhase(pc[p]) \in {"login", "loop", "closing"})
  BY DEF PhaseEnds, NextPhase, Scripts
<1>2. \/ pc' = [pc EXCEPT ![p] = NextPhase(pc[p])]
      \/ pc' = [pc EXCEPT ![p] = "closing"]
  BY DEF PhaseEnds
<1> QED
  BY <1>1, <1>2, NotServing DEF TypeOK, Serving

-----------------------------------------------------------------------------
(* Frames                                                                  *)

\* A process that pumps messages, or runs a script, is a shell; only what is
\* left of one after WM_ENDSESSION goes on running scripts.
LEMMA PumpingServes ==
  ASSUME WindowsKnown, FramesAreServed, NEW p \in Proc
  PROVE  /\ Pumping(p) => pc[p] \in Serving
         /\ p \in windows /\ ~Idle(p) => pc[p] \in Serving
         /\ RunsScript(p) => pc[p] \in Serving \cup {"zombie"}
<1>1. Pumping(p) \/ (p \in windows /\ ~Idle(p)) => pc[p] \in Serving
  BY DEF Pumping, On, WindowsKnown, FramesAreServed, Serving, Scripts
<1>2. RunsScript(p) => pc[p] \in Serving \cup {"zombie"}
  BY DEF RunsScript, On, FramesAreServed, Serving
<1> QED
  BY <1>1, <1>2

\* Every step leaves frames to shells only.
LEMMA FramesServedNext ==
  ASSUME IInv, FramesAreServed, [Next]_vars
  PROVE  FramesAreServed'
<1>a. TypeOK /\ WindowsKnown /\ Known
  BY DEF IInv, SenderTracked, Known
\* The steps of p alone: what p is left with is all that matters.
<1>b. ASSUME NEW p \in Proc,
             \A q \in Proc : q # p => frames'[q] = frames[q],
             \A q \in Proc : q # p => pc'[q] = pc[q],
             frames'[p] = <<>> \/ pc'[p] \in Serving \cup {"zombie"}
      PROVE  FramesAreServed'
  BY <1>b DEF FramesAreServed, Idle
\* The steps that touch no stack.
<1>c. ASSUME UNCHANGED frames, NEW p \in Proc,
             \A q \in Proc : q # p => pc'[q] = pc[q],
             pc[p] \notin Serving \cup {"zombie"} \/ pc'[p] \in Serving
      PROVE  FramesAreServed'
  BY <1>c DEF FramesAreServed, Idle
\* The steps that release the blocked senders S.
<1>d. ASSUME NEW p \in Proc, NEW l, NEW S, Go(p, l, S),
             \A q \in S : pc[q] = "sent",
             \A q \in Proc : q # p => frames'[q] = frames[q],
             frames'[p] = <<>> \/ l = "zombie"
      PROVE  FramesAreServed'
  <2>1. /\ pc'[p] = l
        /\ \A q \in Proc : q # p /\ q \notin S => pc'[q] = pc[q]
    BY <1>a, <1>d, GoMoves
  <2>2. \A q \in Proc : q \in S => frames[q] = <<>>
    BY <1>d, NotServing DEF FramesAreServed, Idle
  <2> QED
    BY <1>d, <2>1, <2>2 DEF FramesAreServed, Idle
<1>e. ASSUME NEW p \in Proc, NEW kind, NEW from, Push(p, kind, from), UNCHANGED pc,
             pc[p] \in Serving \cup {"zombie"}
      PROVE  FramesAreServed'
  BY <1>a, <1>b, <1>e DEF Push, TypeOK
<1>f. ASSUME UNCHANGED <<pc, frames>>
      PROVE  FramesAreServed'
  BY <1>f DEF FramesAreServed, Idle
<1>1. ASSUME NEW p \in Proc, Step(p)
      PROVE  FramesAreServed'
  <2>1. CASE \/ OptionsEnd(p) \/ SendScript(p) \/ FindAnother(p)
             \/ CreateMainWindow(p) \/ Exit(p)
    BY <1>a, <1>c, <2>1, NotServing
       DEF OptionsEnd, SendScript, FindAnother, CreateMainWindow, Exit, TypeOK
  <2>2. CASE OnCreate(p)
    <3>1. CASE hotkey = NoProc
      BY <1>a, <1>c, <2>2, <3>1, NotServing DEF OnCreate, TypeOK
    <3>2. CASE hotkey # NoProc
      <4>1. /\ UNCHANGED frames /\ pc[p] = "create" /\ Go(p, "exited", Waiting(p))
        BY <2>2, <3>2 DEF OnCreate
      <4>2. frames[p] = <<>>
        BY <4>1, NotServing DEF FramesAreServed, Idle
      <4> QED
        BY <1>a, <1>d, <4>1, <4>2, ReleasedAreBlocked
    <3> QED
      BY <3>1, <3>2
  <2>3. CASE LeaveMainLoop(p)
    BY <1>a, <1>c, <2>3, NotServing DEF LeaveMainLoop, TypeOK
  <2>4. CASE OnClose(p) \/ OnCopyData(p)
    BY <1>a, <1>e, <1>f, <2>4, PumpingServes DEF OnClose, OnCopyData
  <2>5. CASE ExecReturns(p)
    <3> DEFINE from == Top(p).from
    <3>1. /\ from \in Proc => pc[from] = "sent"
          /\ \A q \in Proc : q # from => pc'[q] = pc[q]
      BY <1>a, <2>5, ExecReturnsMoves
    <3>2. /\ \A q \in Proc : q # p => frames'[q] = frames[q]
          /\ pc[p] \in Serving
      BY <1>a, <2>5, PumpingServes DEF ExecReturns, On, Pop, TypeOK
    <3> HIDE DEF from
    <3>3. \A q \in Proc : q = from => frames[q] = <<>> /\ q # p
      BY <3>1, <3>2, NotServing DEF FramesAreServed, Idle
    <3> QED
      BY <3>1, <3>2, <3>3 DEF FramesAreServed, Idle
  <2>6. CASE Cleanup(p)
    BY <1>a, <1>d, <2>6, ReleasedAreBlocked DEF Cleanup, Idle
  <2>7. CASE EndSessionReturns(p)
    <3>1. \A q \in Proc : q # p => frames'[q] = frames[q]
      BY <1>a, <2>7 DEF EndSessionReturns, Pop, TypeOK
    <3> QED
      BY <1>a, <1>d, <2>7, <3>1, ReleasedAreBlocked DEF EndSessionReturns
  <2>8. CASE SystemTerminates(p)
    <3>1. Dies(p, "success")
      BY <2>8 DEF SystemTerminates
    <3> QED
      BY <1>a, <1>d, <3>1, ReleasedAreBlocked DEF Dies, TypeOK
  <2> QED
    BY <1>1, <2>1, <2>2, <2>3, <2>4, <2>5, <2>6, <2>7, <2>8 DEF Step
<1>2. ASSUME NEW p \in Proc, ScriptStep(p)
      PROVE  FramesAreServed'
  <2>1. CASE PhaseEnds(p)
    <3>1. \A q \in Proc : q # p => frames'[q] = frames[q]
      BY <1>a, <2>1 DEF PhaseEnds, Push, TypeOK
    <3> QED
      BY <1>a, <1>b, <2>1, <3>1, PhaseMoves
  <2>2. CASE NestedScriptEnds(p)
    <3>1. /\ UNCHANGED pc /\ pc[p] \in Serving \cup {"zombie"}
          /\ \A q \in Proc : q # p => frames'[q] = frames[q]
      BY <1>a, <2>2 DEF NestedScriptEnds, On, FramesAreServed, TypeOK
    <3> QED
      BY <1>b, <3>1
  <2> QED
    BY <1>2, <2>1, <2>2 DEF ScriptStep
<1>3. ASSUME NEW p \in Proc, UserStep(p)
      PROVE  FramesAreServed'
  <2>1. /\ UNCHANGED pc /\ pc[p] \in Serving \cup {"zombie"}
        /\ \A q \in Proc : q # p => frames'[q] = frames[q]
    BY <1>a, <1>3 DEF UserStep, DismissNotice, AnswerConfirm, On, Pop,
                      FramesAreServed, TypeOK
  <2> QED
    BY <1>b, <2>1
<1>4. ASSUME NEW p \in Proc, Environment(p)
      PROVE  FramesAreServed'
  <2>1. CASE Start(p) \/ OptionExec(p) \/ OptionAnswered(p)
    BY <1>a, <1>c, <2>1, NotServing DEF Start, OptionExec, OptionAnswered, TypeOK
  <2>2. CASE OptionPreExec(p) \/ ScriptExits(p) \/ UserExits(p)
    BY <1>f, <2>2 DEF OptionPreExec, ScriptExits, UserExits
  <2>3. CASE ScriptNotices(p) \/ OnEndSession(p)
    BY <1>a, <1>e, <2>3, PumpingServes DEF ScriptNotices, OnEndSession
  <2>4. CASE LoopFails(p)
    <3>1. pc'[p] = "closing" /\ \A q \in Proc : q # p => pc'[q] = pc[q]
      BY <1>a, <2>4 DEF LoopFails, TypeOK
    <3>2. \A q \in Proc : q # p => frames'[q] = frames[q]
      BY <1>a, <2>4 DEF LoopFails, Push, TypeOK
    <3> QED
      BY <1>b, <3>1, <3>2, NotServing
  <2>5. CASE Killed(p)
    <3>1. Dies(p, "killed")
      BY <2>5 DEF Killed
    <3> QED
      BY <1>a, <1>d, <3>1, ReleasedAreBlocked DEF Dies, TypeOK
  <2>6. CASE SenderKilled(p)
    <3>1. /\ pc[p] = "sent"
          /\ \A q \in Proc : q # p => pc'[q] = pc[q]
      BY <1>a, <2>6 DEF SenderKilled, TypeOK
    <3>2. ASSUME NEW q \in Proc, frames[q] = <<>>
          PROVE  frames'[q] = <<>>
      <4>1. DOMAIN frames'[q] = {} /\ frames'[q] \in Seq(Frame)
        BY <1>a, <2>6, <3>2, AbandonedStack
      <4>2. Len(frames'[q]) \in Nat /\ DOMAIN frames'[q] = 1..Len(frames'[q])
        BY <4>1, LenProperties
      <4>3. 1 \notin 1..Len(frames'[q])
        BY <4>1, <4>2
      <4>4. Len(frames'[q]) = 0
        BY <4>2, <4>3
      <4> QED
        BY <4>1, <4>4, EmptySeq
    <3>3. frames[p] = <<>>
      BY <3>1, NotServing DEF FramesAreServed, Idle
    <3> QED
      BY <3>1, <3>2, <3>3 DEF FramesAreServed, Idle
  <2> QED
    BY <1>4, <2>1, <2>2, <2>3, <2>4, <2>5, <2>6 DEF Environment
<1>5. CASE UNCHANGED vars
  BY <1>5, <1>f DEF vars
<1> QED
  BY <1>1, <1>2, <1>3, <1>4, <1>5 DEF Next, Finished

-----------------------------------------------------------------------------
(* Refusals                                                                *)

WinnerInv == ServedIsHistory /\ KilledIsFinal /\ RefusalHasWinner

\* What a step must keep for the refused to have had a winner.
LEMMA WinnerKept ==
  ASSUME WindowsKnown, WinnerInv, windows \subseteq Proc,
         served \subseteq served',
         \A q \in Proc : status[q] = "killed" => status'[q] = "killed",
         \A q \in Proc : pc[q] = "create" =>
           pc'[q] = "create" \/ status'[q] = "killed" \/ served' # {},
         \A q \in Proc : status'[q] = "denied" =>
           status[q] = "denied" \/ (windows # {} /\ UNCHANGED <<served>>
                                    /\ \A r \in Proc : r # q => pc'[r] = pc[r]
                                    /\ pc[q] = "find"),
         \A q \in Proc : pc'[q] \in Serving => pc[q] \in Serving \/ q \in served',
         \A q \in Proc : status'[q] = "killed" => pc'[q] = "exited"
  PROVE  WinnerInv'
<1>1. ServedIsHistory' /\ KilledIsFinal'
  BY DEF WinnerInv, ServedIsHistory, KilledIsFinal
<1>2. RefusalHasWinner'
  <2> SUFFICES ASSUME NEW q \in Proc, status'[q] = "denied", served' = {}
               PROVE  \E r \in Proc : pc'[r] = "create" \/ status'[r] = "killed"
    BY DEF RefusalHasWinner
  <2>1. CASE status[q] = "denied"
    <3>1. PICK r \in Proc : pc[r] = "create" \/ status[r] = "killed"
      BY <2>1 DEF WinnerInv, RefusalHasWinner
    <3> QED
      BY <3>1
  <2>2. CASE status[q] # "denied"
    <3>1. PICK w \in windows : w \in Proc
      BY <2>2
    <3>2. pc[w] = "create" \/ w \in served
      BY <3>1 DEF WindowsKnown, WinnerInv, ServedIsHistory
    <3>3. pc[w] = "create"
      BY <3>2
    <3> QED
      BY <3>1, <3>3
  <2> QED
    BY <2>1, <2>2
<1> QED
  BY <1>1, <1>2 DEF WinnerInv

\* The end of a process leaves a winner: killed itself, or one that served.
LEMMA DiesWinner ==
  ASSUME IInv, WinnerInv, NEW p \in Proc, NEW st \in {"success", "killed"},
         pc[p] \notin {"sent", "exited"}, st = "success" => pc[p] = "zombie",
         Dies(p, st)
  PROVE  WinnerInv'
<1> DEFINE S == Waiting(p) \cup Executing(p)
<1>1. TypeOK /\ WindowsKnown /\ Known
  BY DEF IInv, SenderTracked, Known
<1>2. \A q \in S : pc[q] = "sent"
  BY <1>1, ReleasedAreBlocked
<1>3. UNCHANGED served /\ status' = [status EXCEPT ![p] = st] /\ Go(p, "exited", S)
  BY DEF Dies
<1> HIDE DEF S
<1>4. /\ pc'[p] = "exited"
      /\ \A q \in Proc : q # p /\ q \in S => pc'[q] = "options" /\ pc[q] = "sent"
      /\ \A q \in Proc : q # p /\ q \notin S => pc'[q] = pc[q]
  BY <1>1, <1>2, <1>3, GoMoves
<1>5. /\ status'[p] = st
      /\ \A q \in Proc : q # p => status'[q] = status[q]
  BY <1>1, <1>3 DEF TypeOK
<1>6. \A q \in Proc : status[q] = "killed" => pc[q] = "exited"
  BY DEF WinnerInv, KilledIsFinal
<1>7. status[p] # "killed"
  BY <1>6
<1>8. \A q \in Proc : status[q] = "killed" => status'[q] = "killed"
  BY <1>5, <1>7
<1>9. \A q \in Proc : status'[q] = "killed" => pc'[q] = "exited"
  BY <1>4, <1>5, <1>6
<1>10. \A q \in Proc : pc'[q] \in Serving => pc[q] \in Serving \/ q \in served'
  BY <1>4, NotServing
<1>11. \A q \in Proc : pc[q] = "create" => pc'[q] = "create" \/ status'[q] = "killed"
  BY <1>4, <1>5
<1>12. \A q \in Proc : status'[q] = "denied" => status[q] = "denied"
  BY <1>5
<1> QED
  BY <1>1, <1>3, <1>8, <1>9, <1>10, <1>11, <1>12, WinnerKept DEF TypeOK

\* Every step leaves the refused with a winner.
LEMMA WinnerNext ==
  ASSUME IInv, FramesAreServed, WinnerInv, [Next]_vars
  PROVE  WinnerInv'
<1>a. TypeOK /\ WindowsKnown /\ Known /\ windows \subseteq Proc
  BY DEF IInv, SenderTracked, Known, TypeOK
<1>b. \A q \in Proc : status[q] = "killed" => pc[q] = "exited"
  BY DEF WinnerInv, KilledIsFinal
\* The steps that decide nothing: only p moves, not to a place of its own.
<1>c. ASSUME UNCHANGED <<served, status>>, NEW p \in Proc,
             \A q \in Proc : q # p => pc'[q] = pc[q],
             pc[p] \notin {"create", "exited"},
             pc'[p] \in Serving => pc[p] \in Serving
      PROVE  WinnerInv'
  <2>1. \A q \in Proc : status'[q] = "killed" => pc'[q] = "exited"
    BY <1>b, <1>c
  <2>2. \A q \in Proc : pc[q] = "create" => pc'[q] = "create"
    BY <1>c
  <2>3. \A q \in Proc : pc'[q] \in Serving => pc[q] \in Serving \/ q \in served'
    BY <1>c
  <2> QED
    BY <1>a, <1>c, <2>1, <2>2, <2>3, WinnerKept
<1>d. ASSUME UNCHANGED <<pc, served, status>>
      PROVE  WinnerInv'
  BY <1>d DEF WinnerInv, ServedIsHistory, KilledIsFinal, RefusalHasWinner
\* The steps that give p an exit status and leave it in another place.
<1>e. ASSUME UNCHANGED served, NEW p \in Proc,
             \A q \in Proc : q # p => pc'[q] = pc[q] /\ status'[q] = status[q],
             status'[p] \notin {"killed", "denied"},
             pc[p] \notin {"create", "exited"},
             pc'[p] \in Serving => pc[p] \in Serving
      PROVE  WinnerInv'
  <2>1. \A q \in Proc : status'[q] = "killed" => pc'[q] = "exited"
    BY <1>b, <1>e
  <2>2. \A q \in Proc : status[q] = "killed" => status'[q] = "killed"
    BY <1>b, <1>e
  <2>3. \A q \in Proc : pc[q] = "create" => pc'[q] = "create"
    BY <1>e
  <2>4. \A q \in Proc : pc'[q] \in Serving => pc[q] \in Serving \/ q \in served'
    BY <1>e
  <2>5. \A q \in Proc : status'[q] = "denied" => status[q] = "denied"
    BY <1>e
  <2> QED
    BY <1>a, <1>e, <2>1, <2>2, <2>3, <2>4, <2>5, WinnerKept
<1>1. ASSUME NEW p \in Proc, Step(p)
      PROVE  WinnerInv'
  <2>1. CASE OptionsEnd(p)
    <3>1. CASE p \in answered
      BY <1>a, <1>e, <2>1, <3>1, NotServing DEF OptionsEnd, TypeOK
    <3>2. CASE p \notin answered
      BY <1>a, <1>c, <2>1, <3>2, NotServing DEF OptionsEnd, TypeOK
    <3> QED
      BY <3>1, <3>2
  <2>2. CASE SendScript(p)
    BY <1>a, <1>c, <2>2, NotServing DEF SendScript, TypeOK
  <2>3. CASE FindAnother(p)
    <3>1. CASE windows = {}
      BY <1>a, <1>c, <2>3, <3>1, NotServing DEF FindAnother, TypeOK
    <3>2. CASE windows # {}
      <4>1. /\ UNCHANGED served /\ pc[p] = "find"
            /\ pc'[p] = "exited" /\ status'[p] = "denied"
            /\ \A q \in Proc : q # p => pc'[q] = pc[q] /\ status'[q] = status[q]
        BY <1>a, <2>3, <3>2 DEF FindAnother, TypeOK
      <4>2. \A q \in Proc : status[q] = "killed" => status'[q] = "killed"
        BY <1>b, <4>1
      <4>3. \A q \in Proc : status'[q] = "killed" => pc'[q] = "exited"
        BY <1>b, <4>1
      <4>4. \A q \in Proc : pc'[q] \in Serving => pc[q] \in Serving
        BY <4>1, NotServing
      <4>5. \A q \in Proc : pc[q] = "create" => pc'[q] = "create"
        BY <4>1
      <4>6. \A q \in Proc : status'[q] = "denied" => status[q] = "denied" \/ q = p
        BY <4>1
      <4> QED
        BY <1>a, <3>2, <4>1, <4>2, <4>3, <4>4, <4>5, <4>6, WinnerKept
    <3> QED
      BY <3>1, <3>2
  <2>4. CASE CreateMainWindow(p)
    <3>1. CASE UNCHANGED status /\ pc' = [pc EXCEPT ![p] = "create"]
      BY <1>a, <1>c, <2>4, <3>1, NotServing DEF CreateMainWindow, TypeOK
    <3>2. CASE /\ pc' = [pc EXCEPT ![p] = "exited"]
               /\ status' = [status EXCEPT ![p] = "failure"]
      BY <1>a, <1>e, <2>4, <3>2, NotServing DEF CreateMainWindow, TypeOK
    <3> QED
      BY <2>4, <3>1, <3>2 DEF CreateMainWindow
  <2>5. CASE OnCreate(p)
    <3>1. CASE hotkey = NoProc
      <4>1. /\ served' = served \cup {p} /\ UNCHANGED status /\ pc[p] = "create"
            /\ pc'[p] \in Serving
            /\ \A q \in Proc : q # p => pc'[q] = pc[q]
        BY <1>a, <2>5, <3>1, NotServing DEF OnCreate, TypeOK
      <4>2. \A q \in Proc : status'[q] = "killed" => pc'[q] = "exited"
        BY <1>b, <4>1
      <4>3. \A q \in Proc : pc'[q] \in Serving => pc[q] \in Serving \/ q \in served'
        BY <4>1
      <4> QED
        BY <1>a, <4>1, <4>2, <4>3, WinnerKept
    <3>2. CASE hotkey # NoProc
      \* The owner of the hot key serves, so it has been counted.
      <4>1. hotkey \in Proc /\ pc[hotkey] \in Serving
        BY <1>a, <3>2 DEF TypeOK, IInv, HotkeyIsServed
      <4>2. served # {}
        BY <4>1 DEF WinnerInv, ServedIsHistory
      <4>3. /\ UNCHANGED served /\ Go(p, "exited", Waiting(p)) /\ pc[p] = "create"
            /\ status'[p] = "failure"
            /\ \A q \in Proc : q # p => status'[q] = status[q]
        BY <1>a, <2>5, <3>2 DEF OnCreate, TypeOK
      <4>4. \A q \in Waiting(p) : pc[q] = "sent"
        BY <1>a, ReleasedAreBlocked
      <4>5. /\ pc'[p] = "exited"
            /\ \A q \in Proc : q # p /\ q \in Waiting(p) =>
                 pc'[q] = "options" /\ pc[q] = "sent"
            /\ \A q \in Proc : q # p /\ q \notin Waiting(p) => pc'[q] = pc[q]
        BY <1>a, <4>3, <4>4, GoMoves
      <4>6. \A q \in Proc : status'[q] = "killed" => pc'[q] = "exited"
        BY <1>b, <4>3, <4>5
      <4>7. \A q \in Proc : status[q] = "killed" => status'[q] = "killed"
        BY <1>b, <4>3
      <4>8. \A q \in Proc : pc'[q] \in Serving => pc[q] \in Serving
        BY <4>5, NotServing
      <4>9. \A q \in Proc : status'[q] = "denied" => status[q] = "denied"
        BY <4>3
      <4> QED
        BY <1>a, <4>2, <4>3, <4>6, <4>7, <4>8, <4>9, WinnerKept
    <3> QED
      BY <3>1, <3>2
  <2>6. CASE LeaveMainLoop(p)
    BY <1>a, <1>c, <2>6, NotServing DEF LeaveMainLoop, TypeOK
  <2>7. CASE OnClose(p) \/ OnCopyData(p)
    BY <2>7, <1>d DEF OnClose, OnCopyData
  <2>8. CASE ExecReturns(p)
    <3>1. UNCHANGED <<served, status>>
      BY <2>8 DEF ExecReturns
    <3>2. CASE Top(p).from \in Proc
      BY <1>a, <1>c, <2>8, <3>1, <3>2, ExecReturnsMoves, NotServing
    <3>3. CASE Top(p).from = NoProc
      BY <1>a, <1>d, <2>8, <3>1, <3>3, ExecReturnsMoves
    <3> QED
      BY <1>a, <2>8, <3>2, <3>3, ExecReturnsMoves
  <2>9. CASE Cleanup(p) \/ EndSessionReturns(p)
    <3>1. PICK l \in {"unload", "zombie"} : Go(p, l, Waiting(p))
      BY <2>9 DEF Cleanup, EndSessionReturns
    <3>2. UNCHANGED <<served, status>> /\ pc[p] \in Serving
      BY <1>a, <2>9, PumpingServes, NotServing DEF Cleanup, EndSessionReturns, On
    <3>3. \A q \in Waiting(p) : pc[q] = "sent"
      BY <1>a, ReleasedAreBlocked
    <3>4. /\ pc'[p] = l
          /\ \A q \in Proc : q # p /\ q \in Waiting(p) =>
               pc'[q] = "options" /\ pc[q] = "sent"
          /\ \A q \in Proc : q # p /\ q \notin Waiting(p) => pc'[q] = pc[q]
      BY <1>a, <3>1, <3>3, GoMoves
    <3>5. \A q \in Proc : status'[q] = "killed" => pc'[q] = "exited"
      BY <1>b, <3>2, <3>4, NotServing
    <3>6. \A q \in Proc : pc'[q] \in Serving => pc[q] \in Serving
      BY <3>4, NotServing
    <3>7. \A q \in Proc : pc[q] = "create" => pc'[q] = "create"
      BY <3>2, <3>4, NotServing
    <3> QED
      BY <1>a, <3>2, <3>5, <3>6, <3>7, WinnerKept
  <2>10. CASE Exit(p)
    <3>1. /\ UNCHANGED served /\ pc[p] = "unload" /\ pc'[p] = "exited"
          /\ \A q \in Proc : q # p => pc'[q] = pc[q] /\ status'[q] = status[q]
          /\ status'[p] = IF status[p] = "none" THEN "success" ELSE status[p]
      BY <1>a, <2>10 DEF Exit, TypeOK
    <3>2. CASE status[p] = "none"
      BY <1>e, <3>1, <3>2, NotServing
    <3>3. CASE status[p] # "none"
      <4>1. UNCHANGED status
        BY <1>a, <2>10, <3>3 DEF Exit, TypeOK
      <4> QED
        BY <1>c, <3>1, <4>1, NotServing
    <3> QED
      BY <3>2, <3>3
  <2>11. CASE SystemTerminates(p)
    BY <2>11, DiesWinner DEF SystemTerminates
  <2> QED
    BY <1>1, <2>1, <2>2, <2>3, <2>4, <2>5, <2>6, <2>7, <2>8, <2>9, <2>10,
       <2>11 DEF Step
<1>2. ASSUME NEW p \in Proc, ScriptStep(p)
      PROVE  WinnerInv'
  <2>1. CASE PhaseEnds(p)
    <3>1. UNCHANGED served /\ pc[p] \in Scripts
      BY <2>1 DEF PhaseEnds
    <3>2. /\ pc[p] \in Serving /\ pc'[p] \in Serving
          /\ \A q \in Proc : q # p => pc'[q] = pc[q]
      BY <1>a, <2>1, PhaseMoves
    <3>3. pc[p] \notin {"create", "exited"}
      BY <3>2, NotServing
    <3>4. CASE UNCHANGED status
      BY <1>c, <3>1, <3>2, <3>3, <3>4
    <3>5. CASE status' = [status EXCEPT ![p] = "failure"]
      BY <1>a, <1>e, <3>1, <3>2, <3>3, <3>5 DEF TypeOK
    <3> QED
      BY <2>1, <3>4, <3>5 DEF PhaseEnds
  <2>2. CASE NestedScriptEnds(p)
    BY <1>d, <2>2 DEF NestedScriptEnds
  <2> QED
    BY <1>2, <2>1, <2>2 DEF ScriptStep
<1>3. ASSUME NEW p \in Proc, UserStep(p)
      PROVE  WinnerInv'
  BY <1>3, <1>d DEF UserStep, DismissNotice, AnswerConfirm
<1>4. ASSUME NEW p \in Proc, Environment(p)
      PROVE  WinnerInv'
  <2>1. CASE Start(p) \/ OptionExec(p)
    BY <1>a, <1>c, <2>1, NotServing DEF Start, OptionExec, TypeOK
  <2>2. CASE OptionAnswered(p)
    BY <1>a, <1>e, <2>2, NotServing DEF OptionAnswered, TypeOK
  <2>3. CASE \/ OptionPreExec(p) \/ ScriptNotices(p) \/ OnEndSession(p)
             \/ ScriptExits(p) \/ UserExits(p)
    BY <1>d, <2>3
       DEF OptionPreExec, ScriptNotices, OnEndSession, ScriptExits, UserExits
  <2>4. CASE LoopFails(p)
    <3>1. pc[p] \in Serving /\ pc[p] \notin {"create", "exited"}
      BY <2>4, NotServing DEF LoopFails
    <3> QED
      BY <1>a, <1>e, <2>4, <3>1 DEF LoopFails, TypeOK
  <2>5. CASE Killed(p)
    BY <2>5, DiesWinner DEF Killed
  <2>6. CASE SenderKilled(p)
    <3>1. /\ UNCHANGED served /\ pc[p] = "sent"
          /\ pc'[p] = "exited" /\ status'[p] = "killed"
          /\ \A q \in Proc : q # p => pc'[q] = pc[q] /\ status'[q] = status[q]
      BY <1>a, <2>6 DEF SenderKilled, TypeOK
    <3>2. \A q \in Proc : status'[q] = "killed" => pc'[q] = "exited"
      BY <1>b, <3>1
    <3>3. \A q \in Proc : status[q] = "killed" => status'[q] = "killed"
      BY <3>1
    <3>4. \A q \in Proc : pc[q] = "create" => pc'[q] = "create"
      BY <3>1
    <3>5. \A q \in Proc : pc'[q] \in Serving => pc[q] \in Serving
      BY <3>1, NotServing
    <3>6. \A q \in Proc : status'[q] = "denied" => status[q] = "denied"
      BY <3>1
    <3> QED
      BY <1>a, <3>1, <3>2, <3>3, <3>4, <3>5, <3>6, WinnerKept
  <2> QED
    BY <1>4, <2>1, <2>2, <2>3, <2>4, <2>5, <2>6 DEF Environment
<1>5. CASE UNCHANGED vars
  BY <1>5, <1>d DEF vars
<1> QED
  BY <1>1, <1>2, <1>3, <1>4, <1>5 DEF Next, Finished

-----------------------------------------------------------------------------
(* Outcomes, and the steps of the session                                  *)

\* What a step must be for ShellSession to allow it.
SessionStep == [Session!Next]_(Session!vars)

\* Who waits, and who is handled, when queues and stacks only lose entries.
LEMMA ShrinkingSenders ==
  ASSUME TypeOK, NEW r \in Proc
  PROVE  /\ InboxShrinks(r) => Waiting(r)' \subseteq Waiting(r)
         /\ FramesShrink(r) => Executing(r)' \subseteq Executing(r)
<1>1. ASSUME InboxShrinks(r)
      PROVE  Waiting(r)' \subseteq Waiting(r)
  BY <1>1, NoProcAssumption DEF InboxShrinks, Waiting
<1>2. ASSUME FramesShrink(r)
      PROVE  Executing(r)' \subseteq Executing(r)
  <2> SUFFICES ASSUME NEW q \in Proc, NEW i \in DOMAIN frames'[r],
                      frames'[r][i].from = q
               PROVE  \E j \in DOMAIN frames[r] : frames[r][j].from = q
    BY DEF Executing
  <2>1. frames'[r][i].from # NoProc
    BY NoProcAssumption
  <2> QED
    BY <1>2, <2>1 DEF FramesShrink
<1> QED
  BY <1>1, <1>2

\* A sender waits in one place: what NoDoubleWait says of the two sets.
LEMMA OnePlace ==
  ASSUME NoDoubleWait, NEW p \in Proc, NEW r \in Proc
  PROVE  /\ Waiting(p) \cap Executing(r) = {}
         /\ p # r => /\ Waiting(p) \cap Waiting(r) = {}
                     /\ Executing(p) \cap Executing(r) = {}
<1>1. Waiting(p) \cap Executing(r) = {}
  BY NoProcAssumption DEF NoDoubleWait, Waiting, Executing
<1>2. p # r => Waiting(p) \cap Waiting(r) = {}
  BY NoProcAssumption DEF NoDoubleWait, Waiting
<1>3. p # r => Executing(p) \cap Executing(r) = {}
  BY NoProcAssumption DEF NoDoubleWait, Executing
<1> QED
  BY <1>1, <1>2, <1>3

\* A step that answers nobody, and queues nothing, decides nothing.
LEMMA QuietOutcome ==
  ASSUME TypeOK, OutcomeIsKnown, UNCHANGED <<script, inbox>>,
         \A r \in Proc : FramesShrink(r),
         \A q \in Proc : pc'[q] = "sent" <=> pc[q] = "sent"
  PROVE  OutcomeIsKnown'
<1>1. ASSUME NEW r \in Proc
      PROVE  Waiting(r)' \subseteq Waiting(r) /\ Executing(r)' \subseteq Executing(r)
  BY ShrinkingSenders DEF InboxShrinks
<1> QED
  BY <1>1 DEF OutcomeIsKnown

\* The window of p goes and the scripts of the senders in S are lost: the end
\* of the session when p is the shell, and a loss when it is not.
LEMMA LostOutcome ==
  ASSUME TypeOK, Known, OutcomeIsKnown, NEW p \in Proc, NEW l, NEW S,
         pc[p] # "sent", l # "sent",
         \A r \in Proc : FramesShrink(r),
         Waiting(p) \subseteq S, S \subseteq Waiting(p) \cup Executing(p),
         S = Waiting(p) \/ frames'[p] = <<>>,
         DestroyWindow(p), Go(p, l, S), Return(S, "lost")
  PROVE  OutcomeIsKnown' /\ SessionStep
<1>1. S \subseteq Proc /\ \A q \in S : pc[q] = "sent"
  BY ReleasedAreBlocked DEF Waiting, Executing
<1>2. /\ \A q \in S : script[q] \in {"pending", "running"} /\ script'[q] = "lost"
      /\ \A q \in Proc : q \notin S => script'[q] = script[q]
  BY <1>1 DEF OutcomeIsKnown, Return
<1>3. \A q \in Proc : pc'[q] = "sent" <=> script'[q] \in {"pending", "running"}
  <2>1. \A q \in Proc : q \in S => pc'[q] # "sent" /\ script'[q] = "lost"
    BY <1>2, GoMoves
  <2>2. \A q \in Proc : q \notin S /\ q # p =>
          pc'[q] = pc[q] /\ script'[q] = script[q]
    BY <1>2, GoMoves
  <2>3. pc'[p] = l /\ p \notin S /\ script'[p] = script[p]
    BY <1>1, <1>2, GoMoves
  <2> QED
    BY <2>1, <2>2, <2>3 DEF OutcomeIsKnown
<1>4. ASSUME NEW r \in Proc, NEW q \in Proc
      PROVE  /\ q \in Waiting(r)' => script'[q] = "pending"
             /\ q \in Executing(r)' => script'[q] = "running"
  <2>1. NoDoubleWait
    BY DEF Known
  <2>2. InboxShrinks(r) /\ inbox'[p] = <<>>
    BY WindowGoneShrinks DEF DestroyWindow, TypeOK
  <2>3. Waiting(r)' \subseteq Waiting(r) /\ Executing(r)' \subseteq Executing(r)
    BY <2>2, ShrinkingSenders
  <2>4. DOMAIN <<>> = {}
    OBVIOUS
  <2>5. r = p => Waiting(r)' = {}
    BY <2>2, <2>4 DEF Waiting
  <2>6. r = p /\ frames'[p] = <<>> => Executing(r)' = {}
    BY <2>4 DEF Executing
  <2>7. q \in Waiting(r)' => q \notin S
    BY <2>1, <2>3, <2>5, OnePlace
  <2>8. q \in Executing(r)' => q \notin S
    BY <2>1, <2>3, <2>6, OnePlace
  <2> QED
    BY <1>2, <2>3, <2>7, <2>8 DEF OutcomeIsKnown
<1>5. OutcomeIsKnown'
  BY <1>3, <1>4 DEF OutcomeIsKnown
<1>6. /\ S \in SUBSET {q \in Proc : script[q] \in {"pending", "running"}}
      /\ script' = [q \in Proc |-> IF q \in S THEN "lost" ELSE script[q]]
  BY <1>1, <1>2 DEF Return
<1>7. CASE hotkey = p
  <2>1. hotkey # NoProc /\ hotkey' = NoProc
    BY <1>7, NoProcAssumption DEF DestroyWindow
  <2>2. Session!End
    BY <1>6, <2>1 DEF Session!End
  <2> QED
    BY <1>5, <2>2 DEF SessionStep, Session!Next
<1>8. CASE hotkey # p
  <2>1. UNCHANGED hotkey
    BY <1>8 DEF DestroyWindow
  <2>2. Session!Lose
    BY <1>6, <2>1 DEF Session!Lose
  <2> QED
    BY <1>5, <2>2 DEF SessionStep, Session!Next
<1> QED
  BY <1>7, <1>8

\* A script is queued for a window, or finds none and is not sent.
LEMMA SendOutcome ==
  ASSUME IInv, OutcomeIsKnown, NEW p \in Proc, SendScript(p)
  PROVE  OutcomeIsKnown' /\ SessionStep
<1>1. TypeOK /\ HotkeyIsServed /\ WindowsKnown /\ Known
  BY DEF IInv, SenderTracked, Known
<1>2. /\ UNCHANGED <<hotkey, frames>> /\ pc[p] = "send"
      /\ script[p] \notin {"pending", "running"}
  BY DEF SendScript, OutcomeIsKnown
<1>3. \A r \in Proc : Executing(r)' = Executing(r)
  BY <1>2 DEF Executing
<1>4. CASE windows = {}
  <2>1. /\ UNCHANGED inbox
        /\ pc' = [pc EXCEPT ![p] = "options"]
        /\ script' = [script EXCEPT ![p] = "unsent"]
    BY <1>4 DEF SendScript
  <2>2. \A r \in Proc : Waiting(r)' = Waiting(r)
    BY <2>1 DEF Waiting
  <2>3. \A q \in Proc : q # p => pc'[q] = pc[q] /\ script'[q] = script[q]
    BY <1>1, <2>1 DEF TypeOK
  <2>4. pc'[p] = "options" /\ script'[p] = "unsent"
    BY <1>1, <2>1 DEF TypeOK
  <2>5. \A r \in Proc : p \notin Waiting(r) /\ p \notin Executing(r)
    BY <1>2 DEF OutcomeIsKnown
  <2>6. OutcomeIsKnown'
    BY <1>3, <2>2, <2>3, <2>4, <2>5 DEF OutcomeIsKnown
  <2>7. hotkey = NoProc
    BY <1>1, <1>4 DEF TypeOK, HotkeyIsServed, WindowsKnown
  <2>8. Session!Refuse(p)
    BY <1>2, <2>1, <2>7 DEF Session!Refuse
  <2> QED
    BY <2>6, <2>8 DEF SessionStep, Session!Next
<1>5. CASE windows # {}
  <2>1. PICK w \in windows :
          /\ inbox' = [inbox EXCEPT ![w] = Append(inbox[w], p)]
          /\ pc' = [pc EXCEPT ![p] = "sent"]
          /\ script' = [script EXCEPT ![p] = "pending"]
    BY <1>5 DEF SendScript
  <2>2. \A r \in Proc : Waiting(r)' \subseteq Waiting(r) \cup {p}
    <3>1. /\ w \in Proc
          /\ DOMAIN inbox'[w] = 1..Len(inbox[w]) + 1
          /\ DOMAIN inbox[w] = 1..Len(inbox[w]) /\ Len(inbox[w]) \in Nat
          /\ \A i \in 1..Len(inbox[w]) : inbox'[w][i] = inbox[w][i]
          /\ inbox'[w][Len(inbox[w]) + 1] = p
          /\ \A r \in Proc : r # w => inbox'[r] = inbox[r]
      BY <1>1, <2>1, AppendProperties, LenProperties DEF TypeOK
    <3>2. \A i \in DOMAIN inbox'[w] : i \in DOMAIN inbox[w] \/ inbox'[w][i] = p
      BY <3>1
    <3> QED
      BY <3>1, <3>2 DEF Waiting
  <2>3. \A q \in Proc : q # p => pc'[q] = pc[q] /\ script'[q] = script[q]
    BY <1>1, <2>1 DEF TypeOK
  <2>4. pc'[p] = "sent" /\ script'[p] = "pending"
    BY <1>1, <2>1 DEF TypeOK
  <2>5. \A r \in Proc : p \notin Executing(r)
    BY <1>2 DEF OutcomeIsKnown
  <2>6. OutcomeIsKnown'
    BY <1>3, <2>2, <2>3, <2>4, <2>5 DEF OutcomeIsKnown
  <2>7. Session!Send(p)
    BY <1>2, <2>1 DEF Session!Send
  <2> QED
    BY <2>6, <2>7 DEF SessionStep, Session!Next
<1> QED
  BY <1>4, <1>5

\* The shell takes the script at the head of its queue and runs it.
LEMMA CopyDataOutcome ==
  ASSUME IInv, FramesAreServed, OutcomeIsKnown, NEW p \in Proc, OnCopyData(p),
         Head(inbox[p]) \in Proc
  PROVE  OutcomeIsKnown' /\ SessionStep
<1> DEFINE h == Head(inbox[p])
           f == [kind |-> "exec", from |-> h]
<1>1. TypeOK /\ HotkeyIsServed /\ WindowsKnown /\ Known
  BY DEF IInv, SenderTracked, Known
<1>2. /\ UNCHANGED <<hotkey, pc>> /\ inbox[p] # <<>> /\ Push(p, "exec", h)
      /\ inbox' = [inbox EXCEPT ![p] = Tail(inbox[p])]
      /\ script' = [script EXCEPT ![h] = "running"]
  <2>1. script' = [q \in Proc |-> IF q \in {h} THEN "running" ELSE script[q]]
    BY DEF OnCopyData, Return
  <2>2. script' = [script EXCEPT ![h] = "running"]
    BY <1>1, <2>1 DEF TypeOK
  <2> QED
    BY <2>2, NoProcAssumption DEF OnCopyData
<1>3. /\ inbox[p] \in Seq(Proc \cup {NoProc}) /\ Len(inbox[p]) \in Nat \ {0}
      /\ DOMAIN inbox[p] = 1..Len(inbox[p])
  BY <1>1, <1>2, EmptySeq, LenProperties DEF TypeOK
<1>4. /\ h \in Proc /\ inbox[p][1] = h
      /\ DOMAIN Tail(inbox[p]) = 1..Len(inbox[p]) - 1
      /\ \A j \in 1..Len(inbox[p]) - 1 : Tail(inbox[p])[j] = inbox[p][j + 1]
  BY <1>2, <1>3, HeadTailProperties, LenProperties
<1>5. f \in Frame
  BY <1>4 DEF Frame
<1>6. /\ \A r \in Proc : r # p => frames'[r] = frames[r]
      /\ frames'[p] = Append(frames[p], f)
  BY <1>1, <1>2 DEF Push, Pushed, TypeOK
<1>7. f.from = h
  OBVIOUS
<1> HIDE DEF h, f
<1>8. \A r \in Proc : Executing(r)' \subseteq Executing(r) \cup {h}
  <2>1. /\ DOMAIN frames'[p] = 1..Len(frames[p]) + 1
        /\ DOMAIN frames[p] = 1..Len(frames[p]) /\ Len(frames[p]) \in Nat
        /\ \A i \in 1..Len(frames[p]) : frames'[p][i] = frames[p][i]
        /\ frames'[p][Len(frames[p]) + 1] = f
    BY <1>1, <1>5, <1>6, PushedFrames, LenProperties DEF TypeOK
  <2>2. \A i \in DOMAIN frames'[p] : \/ frames'[p][i].from = h
                                     \/ /\ i \in DOMAIN frames[p]
                                        /\ frames'[p][i] = frames[p][i]
    BY <1>7, <2>1
  <2> QED
    BY <1>6, <2>2 DEF Executing
<1>9. \A r \in Proc : Waiting(r)' \subseteq Waiting(r) \ {h}
  <2>1. /\ \A r \in Proc : r # p => inbox'[r] = inbox[r]
        /\ inbox'[p] = Tail(inbox[p])
    BY <1>1, <1>2 DEF TypeOK
  <2>2. ASSUME NEW i \in DOMAIN inbox'[p]
        PROVE  inbox'[p][i] # h /\ \E j \in DOMAIN inbox[p] : inbox'[p][i] = inbox[p][j]
    <3>1. i + 1 \in DOMAIN inbox[p] /\ inbox'[p][i] = inbox[p][i + 1] /\ i + 1 # 1
      BY <1>3, <1>4, <2>1
    <3>2. 1 \in DOMAIN inbox[p]
      BY <1>3
    <3>3. inbox[p][i + 1] # inbox[p][1]
      BY <1>1, <1>4, <3>1, <3>2, NoProcAssumption DEF Known, NoDoubleWait
    <3> QED
      BY <1>4, <3>1, <3>3
  <2>3. h \in Waiting(p)
    BY <1>3, <1>4 DEF Waiting
  <2>4. \A r \in Proc : r # p => h \notin Waiting(r)
    BY <1>1, <2>3, OnePlace DEF Known
  <2>5. Waiting(p)' \subseteq Waiting(p) \ {h}
    BY <2>2 DEF Waiting
  <2>6. \A r \in Proc : r # p => Waiting(r)' = Waiting(r)
    BY <2>1 DEF Waiting
  <2> QED
    BY <2>4, <2>5, <2>6
<1>10. script[h] = "pending" /\ pc[h] = "sent"
  <2>1. h \in Waiting(p)
    BY <1>3, <1>4 DEF Waiting
  <2> QED
    BY <1>1, <1>4, <2>1, ReleasedAreBlocked DEF OutcomeIsKnown
<1>11. script'[h] = "running" /\ \A q \in Proc : q # h => script'[q] = script[q]
  BY <1>1, <1>2, <1>4 DEF TypeOK
<1>12. \A r \in Proc : h \notin Waiting(r)' /\ h \notin Executing(r)
  BY <1>9, <1>10, <1>4 DEF OutcomeIsKnown
<1>13. OutcomeIsKnown'
  BY <1>2, <1>8, <1>9, <1>10, <1>11, <1>12 DEF OutcomeIsKnown
<1>14. hotkey # NoProc
  <2>1. pc[p] \in Serving
    BY <1>1, PumpingServes DEF OnCopyData
  <2> QED
    BY <1>1, <2>1, NoProcAssumption DEF HotkeyIsServed
<1>15. Session!Run(h)
  BY <1>2, <1>10, <1>14 DEF Session!Run
<1> QED
  BY <1>4, <1>13, <1>15 DEF SessionStep, Session!Next

\* What a killed process sent, and its handler, decide nothing.
LEMMA CopyDataNobody ==
  ASSUME IInv, OutcomeIsKnown, NEW p \in Proc, OnCopyData(p),
         Head(inbox[p]) = NoProc
  PROVE  OutcomeIsKnown' /\ SessionStep
<1>1. TypeOK
  BY DEF IInv
<1>2. /\ UNCHANGED <<hotkey, pc>> /\ inbox[p] # <<>>
      /\ inbox' = [inbox EXCEPT ![p] = Tail(inbox[p])]
      /\ Push(p, "exec", NoProc) \/ UNCHANGED frames
  BY DEF OnCopyData
<1>3. UNCHANGED script
  <2>1. script' = [q \in Proc |-> IF q \in {NoProc} THEN "running" ELSE script[q]]
    BY DEF OnCopyData, Return
  <2>2. script' = [q \in Proc |-> script[q]]
    BY <2>1, NoProcAssumption
  <2> QED
    BY <1>1, <2>2 DEF TypeOK
<1>4. \A r \in Proc : Executing(r)' \subseteq Executing(r)
  BY <1>1, <1>2, PushShrinks, SameFramesShrink, ShrinkingSenders
<1>5. \A r \in Proc : Waiting(r)' \subseteq Waiting(r)
  <2>1. /\ inbox[p] \in Seq(Proc \cup {NoProc}) /\ Len(inbox[p]) \in Nat \ {0}
        /\ DOMAIN inbox[p] = 1..Len(inbox[p])
    BY <1>1, <1>2, EmptySeq, LenProperties DEF TypeOK
  <2>2. /\ DOMAIN Tail(inbox[p]) = 1..Len(inbox[p]) - 1
        /\ \A j \in 1..Len(inbox[p]) - 1 : Tail(inbox[p])[j] = inbox[p][j + 1]
    BY <1>2, <2>1, HeadTailProperties, LenProperties
  <2>3. inbox'[p] = Tail(inbox[p]) /\ \A r \in Proc : r # p => inbox'[r] = inbox[r]
    BY <1>1, <1>2 DEF TypeOK
  <2>4. \A i \in DOMAIN inbox'[p] : \E j \in DOMAIN inbox[p] : inbox'[p][i] = inbox[p][j]
    BY <2>1, <2>2, <2>3
  <2>5. Waiting(p)' \subseteq Waiting(p)
    BY <2>4 DEF Waiting
  <2>6. \A r \in Proc : r # p => Waiting(r)' = Waiting(r)
    BY <2>3 DEF Waiting
  <2> QED
    BY <2>5, <2>6
<1>6. OutcomeIsKnown'
  BY <1>2, <1>3, <1>4, <1>5 DEF OutcomeIsKnown
<1> QED
  BY <1>2, <1>3, <1>6 DEF SessionStep, Session!vars

\* The handler of a script that has run answers its sender.
LEMMA ExecReturnsOutcome ==
  ASSUME IInv, FramesAreServed, OutcomeIsKnown, NEW p \in Proc, ExecReturns(p),
         Top(p).from \in Proc
  PROVE  OutcomeIsKnown' /\ SessionStep
<1> DEFINE from == Top(p).from
           n    == Len(frames[p])
<1>1. TypeOK /\ HotkeyIsServed /\ WindowsKnown /\ Known
  BY DEF IInv, SenderTracked, Known
<1>2. /\ UNCHANGED <<hotkey, inbox>> /\ Pop(p) /\ ~Idle(p) /\ p \in windows
      /\ Return({from}, "ran")
  BY DEF ExecReturns, On
<1>3. /\ from \in Proc /\ pc[from] = "sent" /\ pc'[from] = "options"
      /\ \A q \in Proc : q # from => pc'[q] = pc[q]
  BY <1>1, ExecReturnsMoves
<1>4. n \in DOMAIN frames[p] /\ frames[p][n].from = from
  BY <1>1, <1>2, TopHolder
<1> HIDE DEF from, n
<1>5. script'[from] = "ran" /\ \A q \in Proc : q # from => script'[q] = script[q]
  BY <1>2, <1>3 DEF Return
<1>6. /\ \A r \in Proc : FramesShrink(r) /\ InboxShrinks(r)
      /\ \A i \in DOMAIN frames'[p] : i # n
  BY <1>1, <1>2, PopShrinks DEF InboxShrinks, Idle, n
<1>7. from \in Executing(p)
  BY <1>3, <1>4 DEF Executing
<1>8. \A r \in Proc : /\ Waiting(r)' \subseteq Waiting(r)
                      /\ Executing(r)' \subseteq Executing(r)
  BY <1>1, <1>6, ShrinkingSenders
<1>9. \A r \in Proc : from \notin Waiting(r)' /\ from \notin Executing(r)'
  <2>1. NoDoubleWait
    BY <1>1 DEF Known
  <2>2. \A r \in Proc : from \notin Waiting(r) /\ (r # p => from \notin Executing(r))
    BY <1>7, <2>1, OnePlace
  <2>3. from \notin Executing(p)'
    <3> SUFFICES ASSUME NEW i \in DOMAIN frames'[p], frames'[p][i].from = from
                 PROVE  FALSE
      BY DEF Executing
    <3>1. i \in DOMAIN frames[p] /\ frames[p][i].from = from /\ i # n
      BY <1>3, <1>6, NoProcAssumption DEF FramesShrink
    <3> QED
      BY <1>3, <1>4, <2>1, <3>1, NoProcAssumption DEF NoDoubleWait
  <2> QED
    BY <1>8, <2>2, <2>3
<1>10. OutcomeIsKnown'
  BY <1>3, <1>5, <1>8, <1>9 DEF OutcomeIsKnown
<1>11. script[from] = "running"
  BY <1>3, <1>7 DEF OutcomeIsKnown
<1>12. hotkey # NoProc
  <2>1. pc[p] \in Serving
    BY <1>1, <1>2, PumpingServes
  <2> QED
    BY <1>1, <2>1, NoProcAssumption DEF HotkeyIsServed
<1>13. script' = [script EXCEPT ![from] = "ran"]
  BY <1>1, <1>2, <1>3 DEF Return, TypeOK
<1>14. Session!Return(from)
  BY <1>2, <1>11, <1>12, <1>13 DEF Session!Return
<1> QED
  BY <1>3, <1>10, <1>14 DEF SessionStep, Session!Next

\* The handler of one whose sender was killed answers nobody.
LEMMA ExecReturnsNobody ==
  ASSUME IInv, OutcomeIsKnown, NEW p \in Proc, ExecReturns(p), Top(p).from = NoProc
  PROVE  OutcomeIsKnown' /\ SessionStep
<1>1. TypeOK /\ Known
  BY DEF IInv, SenderTracked, Known
<1>2. UNCHANGED <<hotkey, inbox>> /\ Pop(p) /\ frames[p] # <<>>
  BY DEF ExecReturns, On, Idle
<1>3. UNCHANGED pc
  BY <1>1, ExecReturnsMoves
<1>4. UNCHANGED script
  <2>1. script' = [q \in Proc |-> IF q \in {NoProc} THEN "ran" ELSE script[q]]
    BY DEF ExecReturns, Return
  <2>2. script' = [q \in Proc |-> script[q]]
    BY <2>1, NoProcAssumption
  <2> QED
    BY <1>1, <2>2 DEF TypeOK
<1>5. OutcomeIsKnown'
  BY <1>1, <1>2, <1>3, <1>4, PopShrinks, QuietOutcome
<1> QED
  BY <1>2, <1>4, <1>5 DEF SessionStep, Session!vars

\* A sender that is killed gets no answer.
LEMMA SenderKilledOutcome ==
  ASSUME IInv, OutcomeIsKnown, NEW p \in Proc, SenderKilled(p)
  PROVE  OutcomeIsKnown' /\ SessionStep
<1>1. TypeOK /\ Known
  BY DEF IInv, SenderTracked, Known
<1>2. /\ script[p] \in {"pending", "running"} /\ script'[p] = "lost"
      /\ \A q \in Proc : q # p => script'[q] = script[q]
      /\ UNCHANGED hotkey
  BY DEF SenderKilled, Return, OutcomeIsKnown
<1>3. pc'[p] = "exited" /\ \A q \in Proc : q # p => pc'[q] = pc[q]
  BY <1>1 DEF SenderKilled, TypeOK
<1>4. ASSUME NEW r \in Proc
      PROVE  Waiting(r)' \subseteq Waiting(r) \ {p}
  <2> SUFFICES ASSUME NEW q \in Proc, NEW i \in DOMAIN inbox'[r], inbox'[r][i] = q
               PROVE  q # p /\ \E j \in DOMAIN inbox[r] : inbox[r][j] = q
    BY DEF Waiting
  <2> QED
    BY <1>1, AbandonedQueue, NoProcAssumption
<1>5. ASSUME NEW r \in Proc
      PROVE  Executing(r)' \subseteq Executing(r) \ {p}
  <2> SUFFICES ASSUME NEW q \in Proc, NEW i \in DOMAIN frames'[r],
                      frames'[r][i].from = q
               PROVE  q # p /\ \E j \in DOMAIN frames[r] : frames[r][j].from = q
    BY DEF Executing
  <2> QED
    BY <1>1, AbandonedStack, NoProcAssumption
<1>6. OutcomeIsKnown'
  <2>1. ASSUME NEW q \in Proc
        PROVE  pc'[q] = "sent" <=> script'[q] \in {"pending", "running"}
    BY <1>2, <1>3 DEF OutcomeIsKnown
  <2>2. ASSUME NEW q \in Proc, NEW r \in Proc
        PROVE  /\ q \in Waiting(r)' => script'[q] = "pending"
               /\ q \in Executing(r)' => script'[q] = "running"
    BY <1>2, <1>4, <1>5 DEF OutcomeIsKnown
  <2> QED
    BY <2>1, <2>2 DEF OutcomeIsKnown
<1>7. Session!Lose
  <2>1. {p} \in SUBSET {q \in Proc : script[q] \in {"pending", "running"}}
    BY <1>2
  <2>2. script' = [q \in Proc |-> IF q \in {p} THEN "lost" ELSE script[q]]
    BY DEF SenderKilled, Return
  <2> QED
    BY <1>2, <2>1, <2>2 DEF Session!Lose
<1> QED
  BY <1>6, <1>7 DEF SessionStep, Session!Next

\* A process that ends takes the scripts sent to it with it.
LEMMA DiesOutcome ==
  ASSUME IInv, OutcomeIsKnown, NEW p \in Proc, NEW st, pc[p] # "sent", Dies(p, st)
  PROVE  OutcomeIsKnown' /\ SessionStep
<1> DEFINE S == Waiting(p) \cup Executing(p)
<1>1. TypeOK /\ Known
  BY DEF IInv, SenderTracked, Known
<1>2. /\ DestroyWindow(p) /\ Return(S, "lost") /\ Go(p, "exited", S)
      /\ frames' = [frames EXCEPT ![p] = <<>>]
  BY DEF Dies
<1>3. frames'[p] = <<>> /\ \A r \in Proc : r # p => frames'[r] = frames[r]
  BY <1>1, <1>2 DEF TypeOK
<1>4. \A r \in Proc : FramesShrink(r)
  <2>1. DOMAIN <<>> = {}
    OBVIOUS
  <2> QED
    BY <1>3, <2>1 DEF FramesShrink
<1>5. Waiting(p) \subseteq S /\ S \subseteq Waiting(p) \cup Executing(p)
  OBVIOUS
<1> HIDE DEF S
<1> QED
  BY <1>1, <1>2, <1>3, <1>4, <1>5, LostOutcome

\* Every step keeps the outcomes known and is a step of the session.
LEMMA SessionNext ==
  ASSUME IInv, FramesAreServed, OutcomeIsKnown, [Next]_vars
  PROVE  OutcomeIsKnown' /\ SessionStep
<1>a. TypeOK /\ HotkeyIsServed /\ WindowsKnown /\ Known
  BY DEF IInv, SenderTracked, Known
\* The steps that no sender and no owner of the hot key sees.
<1>b. ASSUME UNCHANGED <<script, inbox, hotkey>>, \A r \in Proc : FramesShrink(r),
             NEW p \in Proc, \A q \in Proc : q # p => pc'[q] = pc[q],
             pc[p] # "sent", pc'[p] # "sent"
      PROVE  OutcomeIsKnown' /\ SessionStep
  <2>1. \A q \in Proc : pc'[q] = "sent" <=> pc[q] = "sent"
    BY <1>b
  <2>2. OutcomeIsKnown'
    BY <1>a, <1>b, <2>1, QuietOutcome
  <2> QED
    BY <1>b, <2>2 DEF SessionStep, Session!vars
<1>c. ASSUME UNCHANGED <<script, inbox, hotkey, pc>>,
             \A r \in Proc : FramesShrink(r)
      PROVE  OutcomeIsKnown' /\ SessionStep
  <2>1. OutcomeIsKnown'
    BY <1>a, <1>c, QuietOutcome
  <2> QED
    BY <1>c, <2>1 DEF SessionStep, Session!vars
<1>1. ASSUME NEW p \in Proc, Step(p)
      PROVE  OutcomeIsKnown' /\ SessionStep
  <2>1. CASE OptionsEnd(p) \/ FindAnother(p) \/ CreateMainWindow(p) \/ Exit(p)
    BY <1>a, <1>b, <2>1, SameFramesShrink
       DEF OptionsEnd, FindAnother, CreateMainWindow, Exit, TypeOK
  <2>2. CASE SendScript(p)
    BY <2>2, SendOutcome
  <2>3. CASE OnCreate(p)
    <3>1. CASE hotkey = NoProc
      <4>1. /\ hotkey' = p /\ UNCHANGED <<script, inbox, frames>>
            /\ pc[p] = "create"
            /\ pc'[p] \in {"pre", "login"}
            /\ \A q \in Proc : q # p => pc'[q] = pc[q]
        BY <1>a, <2>3, <3>1 DEF OnCreate, TypeOK
      <4>2. \A q \in Proc : pc'[q] = "sent" <=> pc[q] = "sent"
        BY <4>1
      <4>3. OutcomeIsKnown'
        BY <1>a, <4>1, <4>2, QuietOutcome, SameFramesShrink
      <4>4. Session!Begin(p)
        BY <3>1, <4>1 DEF Session!Begin
      <4> QED
        BY <4>3, <4>4 DEF SessionStep, Session!Next
    <3>2. CASE hotkey # NoProc
      BY <1>a, <2>3, <3>2, LostOutcome, SameFramesShrink DEF OnCreate
    <3> QED
      BY <3>1, <3>2
  <2>4. CASE LeaveMainLoop(p)
    BY <1>a, <1>b, <2>4, SameFramesShrink DEF LeaveMainLoop, TypeOK
  <2>5. CASE OnClose(p)
    BY <1>a, <1>c, <2>5, PushShrinks DEF OnClose
  <2>6. CASE OnCopyData(p)
    <3>1. Head(inbox[p]) \in Proc \cup {NoProc}
      <4>1. inbox[p] \in Seq(Proc \cup {NoProc}) /\ inbox[p] # <<>>
        BY <1>a, <2>6 DEF OnCopyData, TypeOK
      <4> QED
        BY <4>1, HeadTailProperties
    <3> QED
      BY <2>6, <3>1, CopyDataOutcome, CopyDataNobody
  <2>7. CASE ExecReturns(p)
    BY <1>a, <2>7, ExecReturnsMoves, ExecReturnsOutcome, ExecReturnsNobody
  <2>8. CASE Cleanup(p)
    BY <1>a, <2>8, LostOutcome, SameFramesShrink DEF Cleanup
  <2>9. CASE EndSessionReturns(p)
    <3>1. pc[p] \in Serving
      BY <1>a, <2>9, PumpingServes DEF EndSessionReturns, On
    <3>2. pc[p] # "sent"
      BY <3>1, NotServing
    <3>3. \A r \in Proc : FramesShrink(r)
      BY <1>a, <2>9, PopShrinks DEF EndSessionReturns, On, Idle
    <3> QED
      BY <1>a, <2>9, <3>2, <3>3, LostOutcome DEF EndSessionReturns
  <2>10. CASE SystemTerminates(p)
    BY <2>10, DiesOutcome DEF SystemTerminates
  <2> QED
    BY <1>1, <2>1, <2>2, <2>3, <2>4, <2>5, <2>6, <2>7, <2>8, <2>9, <2>10 DEF Step
<1>2. ASSUME NEW p \in Proc, ScriptStep(p)
      PROVE  OutcomeIsKnown' /\ SessionStep
  <2>1. CASE PhaseEnds(p)
    <3>1. \A r \in Proc : FramesShrink(r)
      BY <1>a, <2>1, PushShrinks, SameFramesShrink DEF PhaseEnds
    <3>2. pc[p] # "sent" /\ pc'[p] # "sent" /\ \A q \in Proc : q # p => pc'[q] = pc[q]
      BY <1>a, <2>1, PhaseMoves, NotServing
    <3> QED
      BY <1>b, <2>1, <3>1, <3>2 DEF PhaseEnds
  <2>2. CASE NestedScriptEnds(p)
    BY <1>a, <1>c, <2>2, NestedScriptShrinks DEF NestedScriptEnds
  <2> QED
    BY <1>2, <2>1, <2>2 DEF ScriptStep
<1>3. ASSUME NEW p \in Proc, UserStep(p)
      PROVE  OutcomeIsKnown' /\ SessionStep
  <2>1. /\ UNCHANGED <<script, inbox, hotkey, pc>> /\ Pop(p) /\ frames[p] # <<>>
    BY <1>3 DEF UserStep, DismissNotice, AnswerConfirm, On, Idle
  <2> QED
    BY <1>a, <1>c, <2>1, PopShrinks
<1>4. ASSUME NEW p \in Proc, Environment(p)
      PROVE  OutcomeIsKnown' /\ SessionStep
  <2>1. CASE Start(p) \/ OptionExec(p) \/ OptionAnswered(p)
    BY <1>a, <1>b, <2>1, SameFramesShrink DEF Start, OptionExec, OptionAnswered, TypeOK
  <2>2. CASE OptionPreExec(p) \/ ScriptExits(p) \/ UserExits(p)
    BY <1>c, <2>2, SameFramesShrink DEF OptionPreExec, ScriptExits, UserExits
  <2>3. CASE ScriptNotices(p) \/ OnEndSession(p)
    BY <1>a, <1>c, <2>3, PushShrinks DEF ScriptNotices, OnEndSession
  <2>4. CASE LoopFails(p)
    <3>1. \A r \in Proc : FramesShrink(r)
      BY <1>a, <2>4, PushShrinks DEF LoopFails
    <3>2. /\ pc[p] = "loop" /\ pc'[p] = "closing"
          /\ \A q \in Proc : q # p => pc'[q] = pc[q]
      BY <1>a, <2>4 DEF LoopFails, TypeOK
    <3> QED
      BY <1>b, <2>4, <3>1, <3>2 DEF LoopFails
  <2>5. CASE Killed(p)
    BY <2>5, DiesOutcome DEF Killed
  <2>6. CASE SenderKilled(p)
    BY <2>6, SenderKilledOutcome
  <2> QED
    BY <1>4, <2>1, <2>2, <2>3, <2>4, <2>5, <2>6 DEF Environment
<1>5. CASE UNCHANGED vars
  BY <1>5, <1>c, SameFramesShrink DEF vars
<1> QED
  BY <1>1, <1>2, <1>3, <1>4, <1>5 DEF Next, Finished

-----------------------------------------------------------------------------
(* The theorems                                                            *)

\* The inductive invariant holds at the start ...
LEMMA SessionInvInit == Init => SessionInv
<1> SUFFICES ASSUME Init
             PROVE  SessionInv
  OBVIOUS
<1>1. IInv
  BY InvInit
<1>2. \A q \in Proc : /\ pc[q] = "off" /\ status[q] = "none"
                      /\ frames[q] = <<>> /\ inbox[q] = <<>> /\ script[q] = "none"
  BY DEF Init
<1>3. \A r \in Proc : Waiting(r) = {} /\ Executing(r) = {}
  <2>1. DOMAIN <<>> = {}
    OBVIOUS
  <2> QED
    BY <1>2, <2>1 DEF Waiting, Executing
<1>4. ServedIsHistory /\ KilledIsFinal /\ RefusalHasWinner /\ FramesAreServed
  BY <1>2, NotServing
     DEF ServedIsHistory, KilledIsFinal, RefusalHasWinner, FramesAreServed, Idle
<1>5. OutcomeIsKnown
  BY <1>2, <1>3 DEF OutcomeIsKnown
<1> QED
  BY <1>1, <1>4, <1>5 DEF SessionInv

\* ... and every step preserves it.
LEMMA SessionInvNext == SessionInv /\ [Next]_vars => SessionInv'
BY InvNext, FramesServedNext, WinnerNext, SessionNext DEF SessionInv, WinnerInv

\* The inductive invariant holds in every reachable state.
THEOREM SessionInvariance == Spec => []SessionInv
<1> QED
  BY SessionInvInit, SessionInvNext, PTL DEF Spec

\* However many processes start at once, they do not all refuse in favour of
\* each other: some process has served, is about to ask for the hot key, or was
\* killed (main.c:457).
THEOREM RefusedHaveAWinner == Spec => []RefusalHasWinner
<1>1. SessionInv => RefusalHasWinner
  BY DEF SessionInv
<1> QED
  BY <1>1, SessionInvariance, PTL

\* The processes together are one shell that runs each script sent to it at most
\* once, and loses one only when the process it was sent to goes away or the one
\* that sent it is killed: every step of every process is a step of ShellSession
\* or leaves the shell and the scripts alone.
THEOREM ImplementsSession == Spec => SessionSpec
<1>1. Init => Session!Init
  BY DEF Init, Session!Init
<1>2. SessionInv /\ [Next]_vars => [Session!Next]_(Session!vars)
  BY SessionNext DEF SessionInv, SessionStep
<1> QED
  BY <1>1, <1>2, SessionInvariance, PTL DEF Spec, SessionSpec, Session!Spec

=============================================================================
