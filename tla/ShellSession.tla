--------------------------- MODULE ShellSession ---------------------------
(***************************************************************************)
(* What the executable promises to its users: there is at most one shell,  *)
(* and a script sent with --exec is run at most once, by that shell, unless *)
(* the shell or whoever sent it goes away first.                           *)
(***************************************************************************)
CONSTANTS
  Proc,       (* the processes                                            *)
  NoServer    (* no shell is running                                      *)

VARIABLES
  server,     (* the shell                                                *)
  script      (* what became of the script each process sent last         *)

vars == <<server, script>>

Init == /\ server = NoServer
        /\ script = [q \in Proc |-> "none"]

\* A process becomes the shell only when there is none.
Begin(p) == /\ server = NoServer
            /\ server' = p
            /\ UNCHANGED script

\* The scripts not run to their end when the shell ends are lost.
End == /\ server # NoServer
       /\ server' = NoServer
       /\ \E S \in SUBSET {q \in Proc : script[q] \in {"pending", "running"}} :
            script' = [q \in Proc |-> IF q \in S THEN "lost" ELSE script[q]]

\* Each request is a new one: the answer to the one before is in.
Send(q) == /\ script[q] \notin {"pending", "running"}
           /\ script' = [script EXCEPT ![q] = "pending"]
           /\ UNCHANGED server

Refuse(q) == /\ script[q] \notin {"pending", "running"}
             /\ server = NoServer
             /\ script' = [script EXCEPT ![q] = "unsent"]
             /\ UNCHANGED server

Run(q) == /\ server # NoServer
          /\ script[q] = "pending"
          /\ script' = [script EXCEPT ![q] = "running"]
          /\ UNCHANGED server

Return(q) == /\ server # NoServer
             /\ script[q] = "running"
             /\ script' = [script EXCEPT ![q] = "ran"]
             /\ UNCHANGED server

\* A request to a window that its process could not keep, or to a shell that
\* the end of the session has closed, or of a process that was killed.
Lose == /\ \E S \in SUBSET {q \in Proc : script[q] \in {"pending", "running"}} :
             script' = [q \in Proc |-> IF q \in S THEN "lost" ELSE script[q]]
        /\ UNCHANGED server

Next == \/ \E p \in Proc : Begin(p) \/ Send(p) \/ Refuse(p) \/ Run(p) \/ Return(p)
        \/ End
        \/ Lose

Spec == Init /\ [][Next]_vars

=============================================================================
