----------------------------- MODULE Lifecycle -----------------------------
(***************************************************************************)
(* The processes started from the cereja executable (src/src/main.c).      *)
(*                                                                         *)
(* A process either serves its command-line options and exits, or becomes  *)
(* the shell: it looks for another main window, creates its own (whose     *)
(* WM_CREATE handler takes the exit hot key), runs login.lua, pumps        *)
(* messages until the user agrees to exit, runs logout.lua and cleans up.  *)
(* A running shell is asked from outside to run a script (WM_COPYDATA), to *)
(* exit (Crj_WM_EXIT, WM_HOTKEY, WM_CLOSE) and to end the session          *)
(* (WM_ENDSESSION).  Every dialog box pumps messages, so these requests    *)
(* also arrive while a script that shows a notice is not finished.         *)
(***************************************************************************)
EXTENDS Naturals, Sequences, FiniteSets

CONSTANTS
  Proc,       (* the processes started from the executable                *)
  NoProc,     (* stands for no process                                    *)
  MaxSends,   (* bound: --exec/--file options a process is given          *)
  MaxDepth,   (* bound: nested dialogs and handlers of one process        *)
  MaxExits    (* bound: exit requests posted and not yet retrieved        *)

ASSUME NoProcAssumption == NoProc \notin Proc

VARIABLES
  pc,         (* where inner_main is, per process                         *)
  windows,    (* processes whose main window FindWindow can find          *)
  hotkey,     (* the process whose window owns Alt-Ctrl-Shift-Win-F1      *)
  frames,     (* nested window procedures and message boxes, per process  *)
  inbox,      (* senders whose WM_COPYDATA waits, per receiving process:  *)
              (* NoProc for one that was killed                           *)
  exits,      (* exit requests in the posted-message queue, per process   *)
  quit,       (* PostQuitMessage was called, per process                  *)
  sends,      (* --exec/--file options served so far, per process         *)
  script,     (* what became of the last script sent, per sender          *)
  preExec,    (* the processes given --pre-exec                           *)
  answered,   (* the processes given another option                       *)
  status,     (* exit status, per process                                 *)
  served      (* history: the processes that took the exit hot key        *)

vars == <<pc, windows, hotkey, frames, inbox, exits, quit, sends, script,
          preExec, answered, status, served>>

Scripts  == {"pre", "login", "logout"}
Serving  == Scripts \cup {"loop", "closing"}
Location == {"off", "options", "send", "sent", "find", "startup", "create",
             "unload", "zombie", "exited"} \cup Serving
Outcome  == {"none", "unsent", "pending", "running", "ran", "lost"}
Status   == {"none", "success", "denied", "failure", "killed"}
\* A dialog or WM_ENDSESSION, or a script run for the process it came from,
\* which may have been killed since.
Frame    ==
  [kind: {"notice", "confirm", "logout", "logoutDone", "exec", "execDone"}, from: {NoProc}]
  \cup [kind: {"exec", "execDone"}, from: Proc]

TypeOK ==
  /\ pc      \in [Proc -> Location]
  /\ windows \subseteq Proc
  /\ hotkey  \in Proc \cup {NoProc}
  /\ frames  \in [Proc -> Seq(Frame)]
  /\ inbox   \in [Proc -> Seq(Proc \cup {NoProc})]
  /\ exits   \in [Proc -> Nat]
  /\ quit    \in [Proc -> BOOLEAN]
  /\ sends   \in [Proc -> Nat]
  /\ script  \in [Proc -> Outcome]
  /\ preExec \subseteq Proc
  /\ answered \subseteq Proc
  /\ status  \in [Proc -> Status]
  /\ served  \subseteq Proc

Init ==
  /\ pc      = [p \in Proc |-> "off"]
  /\ windows = {}
  /\ hotkey  = NoProc
  /\ frames  = [p \in Proc |-> <<>>]
  /\ inbox   = [p \in Proc |-> <<>>]
  /\ exits   = [p \in Proc |-> 0]
  /\ quit    = [p \in Proc |-> FALSE]
  /\ sends   = [p \in Proc |-> 0]
  /\ script  = [p \in Proc |-> "none"]
  /\ preExec = {}
  /\ answered = {}
  /\ status  = [p \in Proc |-> "none"]
  /\ served  = {}

-----------------------------------------------------------------------------
(* Frames: the window procedures and message boxes on a process's stack.   *)

Top(p)  == frames[p][Len(frames[p])]
Idle(p) == frames[p] = <<>>
On(p, kinds) == ~Idle(p) /\ Top(p).kind \in kinds

Pushed(p, kind, from) == Append(frames[p], [kind |-> kind, from |-> from])
Popped(p)             == SubSeq(frames[p], 1, Len(frames[p]) - 1)
Push(p, kind, from) ==
  /\ Len(frames[p]) < MaxDepth
  /\ frames' = [frames EXCEPT ![p] = Pushed(p, kind, from)]
Pop(p) == frames' = [frames EXCEPT ![p] = Popped(p)]

\* Lua code of the user is running: login.lua and its like, a script another
\* process sent, or the logout.lua run by WM_ENDSESSION.
RunsScript(p) == \/ Idle(p) /\ pc[p] \in Scripts
                 \/ On(p, {"exec", "logout"})

\* The process retrieves messages: its main loop or the loop of a dialog.
Pumping(p) == /\ p \in windows
              /\ \/ Idle(p) /\ pc[p] = "loop"
                 \/ On(p, {"notice", "confirm"})

\* The processes blocked in SendMessage to p.
Waiting(p)   == {q \in Proc : \E i \in DOMAIN inbox[p] : inbox[p][i] = q}
Executing(p) == {q \in Proc : \E i \in DOMAIN frames[p] : frames[p][i].from = q}

\* The SendMessage of the processes in S returns.
Return(S, outcome) == script' = [q \in Proc |-> IF q \in S THEN outcome
                                                ELSE script[q]]

\* p moves to l, and the processes in S go on with their options.
Go(p, l, S) == pc' = [q \in Proc |-> IF q = p THEN l
                                     ELSE IF q \in S THEN "options"
                                     ELSE pc[q]]

\* Mutant: WM_DESTROY of any window gives the hot key back.
DestroyWindowAndHotkey(p) ==
  /\ windows' = windows \ {p}
  /\ hotkey' = NoProc
  /\ inbox' = [inbox EXCEPT ![p] = <<>>]
  /\ exits' = [exits EXCEPT ![p] = 0]

\* The system destroys the window of p: nobody finds it, WM_DESTROY gives the
\* hot key back, and the messages sent to it and not received are dropped.
DestroyWindow(p) ==
  /\ windows' = windows \ {p}
  /\ hotkey' = IF hotkey = p THEN NoProc ELSE hotkey
  /\ inbox' = [inbox EXCEPT ![p] = <<>>]
  /\ exits' = [exits EXCEPT ![p] = 0]

-----------------------------------------------------------------------------
(* process_command_line_options and send_script                            *)

Start(p) ==
  /\ pc[p] = "off"
  /\ pc' = [pc EXCEPT ![p] = "options"]
  /\ UNCHANGED <<windows, hotkey, frames, inbox, exits, quit, sends, script,
                 preExec, answered, status, served>>

OptionExec(p) ==
  /\ pc[p] = "options"
  /\ sends[p] < MaxSends
  /\ sends' = [sends EXCEPT ![p] = @ + 1]
  /\ pc' = [pc EXCEPT ![p] = "send"]
  /\ answered' = answered \cup {p}
  /\ UNCHANGED <<windows, hotkey, frames, inbox, exits, quit, script, status,
                 served, preExec>>

OptionPreExec(p) ==
  /\ pc[p] = "options"
  /\ preExec' = preExec \cup {p}
  /\ UNCHANGED <<pc, windows, hotkey, frames, inbox, exits, quit, sends,
                 script, status, served, answered>>

\* --help, --version, --test and invalid options end the option list.
OptionAnswered(p) ==
  /\ pc[p] = "options"
  /\ answered' = answered \cup {p}
  /\ pc' = [pc EXCEPT ![p] = "exited"]
  /\ status' = [status EXCEPT ![p] = "success"]
  /\ UNCHANGED <<windows, hotkey, frames, inbox, exits, quit, sends, script,
                 served, preExec>>

OptionsEnd(p) ==
  /\ pc[p] = "options"
  /\ IF p \in answered
       THEN /\ pc' = [pc EXCEPT ![p] = "exited"]
            /\ status' = [status EXCEPT ![p] = "success"]
       ELSE /\ pc' = [pc EXCEPT ![p] = "find"]
            /\ UNCHANGED status
  /\ UNCHANGED <<windows, hotkey, frames, inbox, exits, quit, sends, script,
                 preExec, answered, served>>

\* FindWindow may return any main window; the sender then blocks.
SendScript(p) ==
  /\ pc[p] = "send"
  /\ \/ /\ windows = {}
        /\ pc' = [pc EXCEPT ![p] = "options"]
        /\ script' = [script EXCEPT ![p] = "unsent"]
        /\ UNCHANGED inbox
     \/ \E w \in windows :
          /\ inbox' = [inbox EXCEPT ![w] = Append(@, p)]
          /\ pc' = [pc EXCEPT ![p] = "sent"]
          /\ script' = [script EXCEPT ![p] = "pending"]
  /\ UNCHANGED <<windows, hotkey, frames, exits, quit, sends, preExec,
                 answered, status, served>>

-----------------------------------------------------------------------------
(* inner_main: becoming the shell                                          *)

\* Mutant: a process also refuses when another one is at the same point.
FindAnotherEager(p) ==
  /\ pc[p] = "find"
  /\ IF windows # {} \/ \E q \in Proc \ {p} : pc[q] = "find"
       THEN /\ pc' = [pc EXCEPT ![p] = "exited"]
            /\ status' = [status EXCEPT ![p] = "denied"]
       ELSE /\ pc' = [pc EXCEPT ![p] = "startup"]
            /\ UNCHANGED status
  /\ UNCHANGED <<windows, hotkey, frames, inbox, exits, quit, sends, script,
                 preExec, answered, served>>

FindAnother(p) ==
  /\ pc[p] = "find"
  /\ IF windows # {}
       THEN /\ pc' = [pc EXCEPT ![p] = "exited"]
            /\ status' = [status EXCEPT ![p] = "denied"]
       ELSE /\ pc' = [pc EXCEPT ![p] = "startup"]
            /\ UNCHANGED status
  /\ UNCHANGED <<windows, hotkey, frames, inbox, exits, quit, sends, script,
                 preExec, answered, served>>

\* startup_lua_part, then CreateWindowEx links the window.
CreateMainWindow(p) ==
  /\ pc[p] = "startup"
  /\ \/ /\ windows' = windows \cup {p}
        /\ pc' = [pc EXCEPT ![p] = "create"]
        /\ UNCHANGED status
     \/ /\ pc' = [pc EXCEPT ![p] = "exited"]
        /\ status' = [status EXCEPT ![p] = "failure"]
        /\ UNCHANGED windows
  /\ UNCHANGED <<hotkey, frames, inbox, exits, quit, sends, script, preExec,
                 answered, served>>

\* Mutant: the result of RegisterHotKey is ignored.
OnCreateUnchecked(p) ==
  /\ pc[p] = "create"
  /\ hotkey' = p
  /\ served' = served \cup {p}
  /\ pc' = [pc EXCEPT ![p] = IF p \in preExec THEN "pre" ELSE "login"]
  /\ UNCHANGED <<windows, frames, inbox, exits, quit, sends, script, preExec,
                 answered, status>>

\* WM_CREATE: RegisterHotKey fails when another window owns the hot key; then
\* CreateWindowEx destroys the window and the unprotected lua_error panics.
OnCreate(p) ==
  /\ pc[p] = "create"
  /\ IF hotkey = NoProc
       THEN /\ hotkey' = p
            /\ served' = served \cup {p}
            /\ pc' = [pc EXCEPT ![p] = IF p \in preExec THEN "pre" ELSE "login"]
            /\ UNCHANGED <<windows, inbox, exits, script, status>>
       ELSE /\ DestroyWindow(p)
            /\ Return(Waiting(p), "lost")
            /\ Go(p, "exited", Waiting(p))
            /\ status' = [status EXCEPT ![p] = "failure"]
            /\ UNCHANGED served
  /\ UNCHANGED <<frames, quit, sends, preExec, answered>>

-----------------------------------------------------------------------------
(* Scripts of the user and the notices they raise                          *)

NextPhase(l) == CASE l = "pre"    -> "login"
                  [] l = "login"  -> "loop"
                  [] l = "logout" -> "closing"

\* A script of the && chain ends; a failure is noticed and ends the chain.
PhaseEnds(p) ==
  /\ Idle(p)
  /\ pc[p] \in Scripts
  /\ \/ /\ pc' = [pc EXCEPT ![p] = NextPhase(pc[p])]
        /\ UNCHANGED <<frames, status, served>>
     \/ /\ Push(p, "notice", NoProc)
        /\ pc' = [pc EXCEPT ![p] = "closing"]
        /\ status' = [status EXCEPT ![p] = "failure"]
  /\ UNCHANGED <<windows, hotkey, inbox, exits, quit, sends, script, preExec,
                 answered, served>>

\* main_loop runs in protected mode too: an error that escapes the window
\* procedure of an extension is noticed and ends the chain like a failed script.
LoopFails(p) ==
  /\ Idle(p)
  /\ pc[p] = "loop"
  /\ Push(p, "notice", NoProc)
  /\ pc' = [pc EXCEPT ![p] = "closing"]
  /\ status' = [status EXCEPT ![p] = "failure"]
  /\ UNCHANGED <<windows, hotkey, inbox, exits, quit, sends, script, preExec,
                 answered, served>>

\* A script run by a window procedure ends; a failure is noticed.
NestedScriptEnds(p) ==
  /\ On(p, {"exec", "logout"})
  /\ LET done == [Top(p) EXCEPT !.kind = IF @ = "exec" THEN "execDone"
                                         ELSE "logoutDone"]
         box  == [kind |-> "notice", from |-> NoProc]
     IN  frames' \in {[frames EXCEPT ![p] = Append(Popped(p), done)],
                      [frames EXCEPT ![p] = Popped(p) \o <<done, box>>]}
  /\ UNCHANGED <<pc, windows, hotkey, inbox, exits, quit, sends, script,
                 preExec, answered, status, served>>

\* cereja.notice, when no handler claims the message.
ScriptNotices(p) ==
  /\ RunsScript(p)
  /\ Push(p, "notice", NoProc)
  /\ UNCHANGED <<pc, windows, hotkey, inbox, exits, quit, sends, script,
                 preExec, answered, status, served>>

DismissNotice(p) ==
  /\ On(p, {"notice"})
  /\ p \in windows
  /\ Pop(p)
  /\ UNCHANGED <<pc, windows, hotkey, inbox, exits, quit, sends, script,
                 preExec, answered, status, served>>

-----------------------------------------------------------------------------
(* Requests to exit                                                        *)

\* cereja.exit posts to whichever main window FindWindow returns.
ScriptExits(p) ==
  /\ RunsScript(p)
  /\ \E w \in windows : /\ exits[w] < MaxExits
                        /\ exits' = [exits EXCEPT ![w] = @ + 1]
  /\ UNCHANGED <<pc, windows, hotkey, frames, inbox, quit, sends, script,
                 preExec, answered, status, served>>

\* The exit hot key, or the task manager's WM_CLOSE.
UserExits(p) ==
  /\ p \in windows
  /\ hotkey = p
  /\ exits[p] < MaxExits
  /\ exits' = [exits EXCEPT ![p] = @ + 1]
  /\ UNCHANGED <<pc, windows, hotkey, frames, inbox, quit, sends, script,
                 preExec, answered, status, served>>

\* A retrieved exit request reaches WM_CLOSE, which asks the user.  Sent
\* messages are received before posted ones are retrieved.
OnClose(p) ==
  /\ Pumping(p)
  /\ inbox[p] = <<>>
  /\ exits[p] > 0
  /\ Push(p, "confirm", NoProc)
  /\ exits' = [exits EXCEPT ![p] = @ - 1]
  /\ UNCHANGED <<pc, windows, hotkey, inbox, quit, sends, script, preExec,
                 answered, status, served>>

\* Mutant: the last answer replaces the one before.
AnswerConfirmLast(p) ==
  /\ On(p, {"confirm"})
  /\ p \in windows
  /\ Pop(p)
  /\ \E yes \in BOOLEAN : quit' = [quit EXCEPT ![p] = yes]
  /\ UNCHANGED <<pc, windows, hotkey, inbox, exits, sends, script, preExec,
                 answered, status, served>>

AnswerConfirm(p) ==
  /\ On(p, {"confirm"})
  /\ p \in windows
  /\ Pop(p)
  /\ \E yes \in BOOLEAN : quit' = [quit EXCEPT ![p] = @ \/ yes]
  /\ UNCHANGED <<pc, windows, hotkey, inbox, exits, sends, script, preExec,
                 answered, status, served>>

\* GetMessage returns 0 for WM_QUIT, which comes after every other message.
LeaveMainLoop(p) ==
  /\ Idle(p) /\ pc[p] = "loop"
  /\ quit[p] /\ inbox[p] = <<>> /\ exits[p] = 0
  /\ pc' = [pc EXCEPT ![p] = "logout"]
  /\ UNCHANGED <<windows, hotkey, frames, inbox, exits, quit, sends, script,
                 preExec, answered, status, served>>

-----------------------------------------------------------------------------
(* Scripts sent by other processes                                         *)

\* Mutant: the message stays in the queue while its script runs.
OnCopyDataKept(p) ==
  /\ Pumping(p)
  /\ inbox[p] # <<>>
  /\ Push(p, "exec", Head(inbox[p]))
  /\ Return({Head(inbox[p])}, "running")
  /\ UNCHANGED <<pc, windows, hotkey, inbox, exits, quit, sends, preExec,
                 answered, status, served>>

\* WM_COPYDATA forwards to Crj_WM_EXEC, which runs the script.  What a process
\* sent that was killed since may also be dropped by the system.
OnCopyData(p) ==
  /\ Pumping(p)
  /\ inbox[p] # <<>>
  /\ \/ Push(p, "exec", Head(inbox[p]))
     \/ Head(inbox[p]) = NoProc /\ UNCHANGED frames
  /\ inbox' = [inbox EXCEPT ![p] = Tail(@)]
  /\ Return({Head(inbox[p])}, "running")
  /\ UNCHANGED <<pc, windows, hotkey, exits, quit, sends, preExec, answered,
                 status, served>>

ExecReturns(p) ==
  /\ On(p, {"execDone"})
  /\ p \in windows
  /\ Pop(p)
  /\ Return({Top(p).from}, "ran")
  /\ pc' = [q \in Proc |-> IF q = Top(p).from THEN "options" ELSE pc[q]]
  /\ UNCHANGED <<windows, hotkey, inbox, exits, quit, sends, preExec,
                 answered, status, served>>

-----------------------------------------------------------------------------
(* The ends of a shell process                                             *)

\* Mutant: the clean-up leaves the window.
CleanupWithoutDestroy(p) ==
  /\ Idle(p) /\ pc[p] = "closing"
  /\ hotkey' = NoProc
  /\ pc' = [pc EXCEPT ![p] = "unload"]
  /\ UNCHANGED <<windows, inbox, exits, script, frames, quit, sends, preExec,
                 answered, status, served>>

\* cleanup_cereja_part
Cleanup(p) ==
  /\ Idle(p) /\ pc[p] = "closing"
  /\ DestroyWindow(p)
  /\ Return(Waiting(p), "lost")
  /\ Go(p, "unload", Waiting(p))
  /\ UNCHANGED <<frames, quit, sends, preExec, answered, status, served>>

\* cleanup_lua_part and the return from inner_main
Exit(p) ==
  /\ pc[p] = "unload"
  /\ pc' = [pc EXCEPT ![p] = "exited"]
  /\ status' = [status EXCEPT ![p] = IF @ = "none" THEN "success" ELSE @]
  /\ UNCHANGED <<windows, hotkey, frames, inbox, exits, quit, sends, script,
                 preExec, answered, served>>

\* WM_ENDSESSION runs logout.lua whatever inner_main is doing ...
OnEndSession(p) ==
  /\ Pumping(p)
  /\ \A i \in DOMAIN frames[p] : frames[p][i].kind \notin {"logout", "logoutDone"}
  /\ Push(p, "logout", NoProc)
  /\ UNCHANGED <<pc, windows, hotkey, inbox, exits, quit, sends, script,
                 preExec, answered, status, served>>

\* ... and cleans up inside the window procedure.  What is left of the process
\* works on a closed Lua state until the system terminates it.
EndSessionReturns(p) ==
  /\ On(p, {"logoutDone"})
  /\ p \in windows
  /\ Pop(p)
  /\ DestroyWindow(p)
  /\ Return(Waiting(p), "lost")
  /\ Go(p, "zombie", Waiting(p))
  /\ UNCHANGED <<quit, sends, preExec, answered, status, served>>

\* The process disappears with its window and its hot key; the processes that
\* wait for it go on.
Dies(p, st) ==
  LET S == Waiting(p) \cup Executing(p)
  IN  /\ DestroyWindow(p)
      /\ frames' = [frames EXCEPT ![p] = <<>>]
      /\ Return(S, "lost")
      /\ Go(p, "exited", S)
      /\ status' = [status EXCEPT ![p] = st]
      /\ UNCHANGED <<quit, sends, preExec, answered, served>>

SystemTerminates(p) == pc[p] = "zombie" /\ Dies(p, "success")

\* The process crashes or is killed.
Killed(p) == pc[p] \notin {"off", "sent", "zombie", "exited"} /\ Dies(p, "killed")

\* So is one that waits for an answer: the message it sent, or the handler that
\* runs for it, has nobody to answer to any more.
SenderKilled(p) ==
  /\ pc[p] = "sent"
  /\ Return({p}, "lost")
  /\ pc' = [pc EXCEPT ![p] = "exited"]
  /\ status' = [status EXCEPT ![p] = "killed"]
  /\ inbox' = [w \in Proc |-> [i \in DOMAIN inbox[w] |->
                                 IF inbox[w][i] = p THEN NoProc ELSE inbox[w][i]]]
  /\ frames' = [w \in Proc |-> [i \in DOMAIN frames[w] |->
                  [frames[w][i] EXCEPT !.from = IF @ = p THEN NoProc ELSE @]]]
  /\ UNCHANGED <<windows, hotkey, exits, quit, sends, preExec, answered, served>>

-----------------------------------------------------------------------------

Step(p) ==
  \/ OptionsEnd(p) \/ SendScript(p) \/ FindAnother(p)
  \/ CreateMainWindow(p) \/ OnCreate(p)
  \/ LeaveMainLoop(p) \/ OnClose(p)
  \/ OnCopyData(p) \/ ExecReturns(p)
  \/ Cleanup(p) \/ Exit(p) \/ EndSessionReturns(p) \/ SystemTerminates(p)

ScriptStep(p) == PhaseEnds(p) \/ NestedScriptEnds(p)
UserStep(p)   == DismissNotice(p) \/ AnswerConfirm(p)

Environment(p) ==
  \/ Start(p) \/ OptionExec(p) \/ OptionPreExec(p) \/ OptionAnswered(p)
  \/ ScriptNotices(p) \/ ScriptExits(p) \/ UserExits(p)
  \/ LoopFails(p) \/ OnEndSession(p) \/ Killed(p) \/ SenderKilled(p)

\* Every process has ended.
Finished == (\A p \in Proc : pc[p] = "exited") /\ UNCHANGED vars

Next == \/ \E p \in Proc : \/ Step(p) \/ ScriptStep(p) \/ UserStep(p)
                           \/ Environment(p)
        \/ Finished

Spec == Init /\ [][Next]_vars

\* The program's own steps are taken, scripts end (they may show any number of
\* notices first, hence SF) and the user answers the dialogs.
Fairness == \A p \in Proc : /\ WF_vars(Step(p))
                            /\ SF_vars(ScriptStep(p))
                            /\ SF_vars(DismissNotice(p))
                            /\ SF_vars(AnswerConfirm(p))

FairSpec == Spec /\ Fairness

-----------------------------------------------------------------------------
(* Properties                                                              *)

\* At most one process runs login.lua, logout.lua and the shell between them:
\* the exit hot key taken in WM_CREATE (main.c:149-156) decides, the FindWindow
\* test (main.c:457) alone lets two processes through.
MutualExclusion ==
  \A p, q \in Proc : pc[p] \in Serving /\ pc[q] \in Serving => p = q

\* The exit hot key, the way out when nothing else responds, belongs to the
\* shell for as long as it serves, and to nobody else (main.c:149-160).
HotkeyIsServed == \A p \in Proc : hotkey = p <=> pc[p] \in Serving

\* Starting several processes at once never ends with all of them refusing in
\* favour of each other: when one was told that another is running (main.c:457),
\* some process has served, is about to ask for the hot key, or was killed.
RefusalHasWinner ==
  (\E p \in Proc : status[p] = "denied")
    => \/ served # {}
       \/ \E q \in Proc : pc[q] = "create" \/ status[q] = "killed"

\* A process blocked in SendMessage waits in exactly one place: in the queue of
\* an existing window or in a handler that has not returned; so it is neither
\* forgotten nor answered twice (main.c:324-342, 183-199).
QueuedAreBlocked ==
  \A p \in Proc : \A i \in DOMAIN inbox[p] :
    p \in windows /\ (inbox[p][i] # NoProc => pc[inbox[p][i]] = "sent")

HandledAreBlocked ==
  \A p \in Proc : \A i \in DOMAIN frames[p] :
    frames[p][i].from # NoProc => pc[frames[p][i].from] = "sent"

NoDoubleWait ==
  \A p, r \in Proc :
    /\ \A i \in DOMAIN inbox[p], j \in DOMAIN inbox[r] :
         inbox[p][i] = inbox[r][j] /\ inbox[p][i] # NoProc => p = r /\ i = j
    /\ \A i \in DOMAIN frames[p], j \in DOMAIN frames[r] :
         frames[p][i].from = frames[r][j].from /\ frames[p][i].from # NoProc
           => p = r /\ i = j
    /\ \A i \in DOMAIN inbox[p], j \in DOMAIN frames[r] :
         inbox[p][i] # frames[r][j].from \/ inbox[p][i] = NoProc

BlockedAreKnown ==
  \A q \in Proc : pc[q] = "sent" =>
    \E p \in Proc : q \in Waiting(p) \cup Executing(p)

SenderTracked ==
  QueuedAreBlocked /\ HandledAreBlocked /\ NoDoubleWait /\ BlockedAreKnown

\* A main window exists exactly from CreateWindowEx to cleanup_cereja_part.
WindowsKnown ==
  \A p \in Proc : p \in windows <=> pc[p] \in Serving \cup {"create"}

\* The inductive invariant behind MutualExclusion and SenderTracked.  That the
\* hot key decides is not inductive by itself: a sender is sent back to its
\* options when its receiver goes away, which must not touch a serving shell.
IInv == /\ TypeOK
        /\ HotkeyIsServed
        /\ WindowsKnown
        /\ SenderTracked

\* What else holds of every shell, of the ends of a process and of its frames:
\* who serves has been counted, the status "killed" is final, and only a shell,
\* or what is left of one, has window procedures on its stack.
ServedIsHistory == \A p \in Proc : pc[p] \in Serving => p \in served
KilledIsFinal   == \A p \in Proc : status[p] = "killed" => pc[p] = "exited"
FramesAreServed == \A p \in Proc : Idle(p) \/ pc[p] \in Serving \cup {"zombie"}

\* A process is blocked exactly while its script is undecided: queued scripts
\* have not begun, those with a frame run.
OutcomeIsKnown ==
  \A q \in Proc :
    /\ pc[q] = "sent" <=> script[q] \in {"pending", "running"}
    /\ \A p \in Proc : /\ q \in Waiting(p)   => script[q] = "pending"
                       /\ q \in Executing(p) => script[q] = "running"

\* The inductive invariant behind RefusalHasWinner and SessionSpec.
SessionInv == /\ IInv
              /\ ServedIsHistory /\ KilledIsFinal /\ RefusalHasWinner
              /\ FramesAreServed
              /\ OutcomeIsKnown

\* A process that sent a script gets its prompt back (main.c:341).
SenderReturns == \A q \in Proc : pc[q] = "sent" ~> pc[q] # "sent"

\* Once the user agreed to exit (main.c:163-167) and exit requests have ceased,
\* the process ends, whatever dialogs are open and scripts are still to be run.
ShutdownCompletes ==
  \A p \in Proc : <>[](exits[p] = 0) => (quit[p] ~> pc[p] = "exited")

-----------------------------------------------------------------------------
\* The processes together offer one shell that runs the scripts sent to it.
Session == INSTANCE ShellSession WITH server <- hotkey, NoServer <- NoProc

SessionSpec == Session!Spec

=============================================================================
