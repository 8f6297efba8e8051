-------------------------- MODULE StartupPrograms --------------------------
(* shell.run_startup_programs (lib/shell/__init__.c:67-232, 288-295): threads *)
(* that run the programs of the Run and RunOnce keys of the registry and of   *)
(* the startup folders, and empty the RunOnce keys, while other programs      *)
(* write to the keys and cereja may end.                                      *)
EXTENDS Naturals, Sequences, FiniteSets

CONSTANTS
  Val,              \* the values that may be in the keys
  Type,             \* Type[v]: "REG_SZ", "REG_EXPAND_SZ", "REG_DWORD", or "long",
                    \* a string that does not fit into data
  File,             \* the visible files of a startup folder
  Thread,           \* one for each call of run_startup_programs
  NoVal,            \* no value
  InitialRegistry,  \* what may be in the keys at first
  MaxChanges,       \* bound on the changes by other programs
  MaxSessions       \* bound on the ends of cereja

Key == {"LM_RunOnce", "LM_Run", "CU_Run", "CU_RunOnce"}

ASSUME ValAssumption ==
  /\ NoVal \notin Val
  /\ Type \in [Val -> {"REG_SZ", "REG_EXPAND_SZ", "REG_DWORD", "long"}]
  /\ InitialRegistry \subseteq [Key -> Seq(Val)]
  /\ \A values \in InitialRegistry, key \in Key : \A i, j \in DOMAIN values[key] :
       values[key][i] = values[key][j] => i = j
ASSUME BoundAssumption == MaxChanges \in Nat /\ MaxSessions \in Nat

VARIABLES
  registry,   \* the values of each key, in the order RegEnumValue gives them
  thread,     \* the threads
  running,    \* the programs of the machine's RunOnce key that threads started
  executed,   \* history: values that were executed since they were put
  lost,       \* history: values a thread deleted that were not executed
  disturbed,  \* history: a RunOnce key was changed, or could not be read to its
              \* end, while a thread was at it
  changes, sessions

startup_vars == <<registry, thread, running, executed, lost, disturbed, changes, sessions>>

\* _shell_run_startup_programs: keys and folders, one after the other.
Items(key, delete, wait) ==
  [folder |-> FALSE, key |-> key, delete |-> delete, wait |-> wait]
Folder == [folder |-> TRUE, key |-> "none", delete |-> FALSE, wait |-> FALSE]

Plan == <<Items("LM_RunOnce", TRUE, TRUE),
          Items("LM_Run", FALSE, FALSE),
          Items("CU_Run", FALSE, FALSE),
          Folder,
          Folder,
          Items("CU_RunOnce", TRUE, FALSE)>>

Idle == [at |-> "idle", n |-> 0, i |-> 0, v |-> NoVal, todo |-> {}]

StartupTypeOK ==
  /\ registry \in [Key -> Seq(Val)]
  /\ thread \in [Thread ->
       [at : {"idle", "open", "enum", "wait", "files", "delete", "remove", "done"},
        n : 0..Len(Plan), i : Nat, v : Val \cup {NoVal}, todo : SUBSET File]]
  /\ running \subseteq Thread \X Val
  /\ executed \subseteq Val
  /\ lost \subseteq Val
  /\ disturbed \in BOOLEAN
  /\ changes \in 0..MaxChanges
  /\ sessions \in 0..MaxSessions

StartupInit ==
  /\ registry \in InitialRegistry
  /\ thread = [t \in Thread |-> Idle]
  /\ running = {}
  /\ executed = {}
  /\ lost = {}
  /\ disturbed = FALSE
  /\ changes = 0
  /\ sessions = 0

-----------------------------------------------------------------------------
(* The thread                                                              *)

At(t, place) == thread[t].at = place
Step(t) == Plan[thread[t].n]
Values(t) == registry[Step(t).key]

GoesTo(t, place) == [thread EXCEPT ![t].at = place]

\* On to the next of the keys and folders.
Proceed(t) ==
  thread' = [thread EXCEPT ![t] =
               IF thread[t].n = Len(Plan) THEN [Idle EXCEPT !.at = "done"]
               ELSE [Idle EXCEPT !.at = "open", !.n = thread[t].n + 1]]

\* CreateThread.
run_startup_programs(t) ==
  /\ At(t, "idle")
  /\ Proceed(t)
  /\ UNCHANGED <<registry, running, executed, lost, disturbed>>

\* RegOpenKeyEx asks for the right to write, if values are to be deleted.
Open(t) ==
  /\ At(t, "open")
  /\ ~Step(t).folder
  /\ thread' = GoesTo(t, "enum")
  /\ UNCHANGED <<registry, running, executed, lost, disturbed>>

OpenFails(t) ==
  /\ At(t, "open")
  /\ ~Step(t).folder
  /\ Proceed(t)
  /\ UNCHANGED <<registry, running, executed, lost, disturbed>>

Entry(t) == Values(t)[thread[t].i + 1]

\* spawn_process ignores failures; started or not, the value counts as executed.
Execute(t) ==
  /\ At(t, "enum")
  /\ thread[t].i < Len(Values(t))
  /\ Type[Entry(t)] \in {"REG_SZ", "REG_EXPAND_SZ"}
  /\ thread' = [thread EXCEPT ![t].i = @ + 1, ![t].v = Entry(t),
                              ![t].at = IF Step(t).wait THEN "wait" ELSE "enum"]
  /\ running' \in {running} \cup
       (IF thread[t].n = 1 THEN {running \cup {<<t, Entry(t)>>}} ELSE {})
  /\ executed' = executed \cup {Entry(t)}
  /\ UNCHANGED <<registry, lost, disturbed>>

\* WaitForSingleObject returns, or CreateProcess has failed.
Waited(t) ==
  /\ At(t, "wait")
  /\ <<t, thread[t].v>> \notin running
  /\ thread' = GoesTo(t, "enum")
  /\ UNCHANGED <<registry, running, executed, lost, disturbed>>

SkipValue(t) ==
  /\ At(t, "enum")
  /\ thread[t].i < Len(Values(t))
  /\ Type[Entry(t)] = "REG_DWORD"
  /\ thread' = [thread EXCEPT ![t].i = @ + 1]
  /\ UNCHANGED <<registry, running, executed, lost, disturbed>>

\* Mutant: the values that were not looked at are deleted, too.
EnumEndsAtOnce(t) ==
  /\ At(t, "enum")
  /\ IF Step(t).delete THEN thread' = GoesTo(t, "delete") ELSE Proceed(t)
  /\ UNCHANGED <<registry, running, executed, lost, disturbed>>

\* RegEnumValue fails behind the last value, and at one that does not fit.
EnumEnds(t) ==
  /\ At(t, "enum")
  /\ thread[t].i < Len(Values(t)) => Type[Entry(t)] = "long"
  /\ IF Step(t).delete THEN thread' = GoesTo(t, "delete") ELSE Proceed(t)
  /\ disturbed' = (disturbed \/ (Step(t).delete /\ thread[t].i < Len(Values(t))))
  /\ UNCHANGED <<registry, running, executed, lost>>

\* Mutant: only plain strings are deleted.
DeletableSZ(v) == Type[v] \in {"REG_SZ", "long"}

Deletable(v) == Type[v] \in {"REG_SZ", "REG_EXPAND_SZ", "long"}

\* The first value is asked for again and again, until there is none.
DeleteFirst(t) ==
  /\ At(t, "delete")
  /\ Values(t) # <<>>
  /\ Deletable(Head(Values(t)))
  /\ thread' = [thread EXCEPT ![t].at = "remove", ![t].v = Head(Values(t))]
  /\ UNCHANGED <<registry, running, executed, lost, disturbed>>

\* A key has a value once.
ValuesIn(s) == {s[k] : k \in DOMAIN s}
WithoutValue(s, v) ==
  IF v \notin ValuesIn(s) THEN s
  ELSE LET i == CHOOSE k \in DOMAIN s : s[k] = v
       IN  [k \in 1..Len(s) - 1 |-> s[IF k < i THEN k ELSE k + 1]]

RegDeleteValue(t) ==
  /\ At(t, "remove")
  /\ registry' = [registry EXCEPT ![Step(t).key] = WithoutValue(@, thread[t].v)]
  /\ lost' = IF thread[t].v \in ValuesIn(Values(t)) \ executed
             THEN lost \cup {thread[t].v} ELSE lost
  /\ thread' = GoesTo(t, "delete")
  /\ UNCHANGED <<running, executed, disturbed>>

DeleteEnds(t) ==
  /\ At(t, "delete")
  /\ Values(t) = <<>>
  /\ Proceed(t)
  /\ UNCHANGED <<registry, running, executed, lost, disturbed>>

\* run_folder_items; SHGetFolderPath may fail.
OpenFolder(t) ==
  /\ At(t, "open")
  /\ Step(t).folder
  /\ \/ thread' = [thread EXCEPT ![t].at = "files", ![t].todo = File]
     \/ Proceed(t)
  /\ UNCHANGED <<registry, running, executed, lost, disturbed>>

ShellExecute(t) ==
  /\ At(t, "files")
  /\ \E f \in thread[t].todo : thread' = [thread EXCEPT ![t].todo = @ \ {f}]
  /\ UNCHANGED <<registry, running, executed, lost, disturbed>>

FolderEnds(t) ==
  /\ At(t, "files")
  /\ thread[t].todo = {}
  /\ Proceed(t)
  /\ UNCHANGED <<registry, running, executed, lost, disturbed>>

-----------------------------------------------------------------------------
(* Everybody else                                                          *)

ProgramEnds ==
  /\ \E p \in running : running' = running \ {p}
  /\ UNCHANGED <<registry, thread, executed, lost, disturbed, changes, sessions>>

Busy(key) == \E t \in Thread : /\ thread[t].at \in {"enum", "wait", "delete", "remove"}
                               /\ Step(t).key = key

\* Another program puts a value somewhere into a RunOnce key.
Put(key, v) ==
  /\ changes < MaxChanges
  /\ \A k \in Key : v \notin ValuesIn(registry[k])
  /\ \E i \in 0..Len(registry[key]) :
       registry' = [registry EXCEPT ![key] = SubSeq(@, 1, i) \o <<v>>
                                             \o SubSeq(@, i + 1, Len(@))]
  /\ executed' = executed \ {v}
  /\ disturbed' = (disturbed \/ Busy(key))
  /\ changes' = changes + 1
  /\ UNCHANGED <<thread, running, lost, sessions>>

Remove(key, v) ==
  /\ changes < MaxChanges
  /\ v \in ValuesIn(registry[key])
  /\ registry' = [registry EXCEPT ![key] = WithoutValue(@, v)]
  /\ disturbed' = (disturbed \/ Busy(key))
  /\ changes' = changes + 1
  /\ UNCHANGED <<thread, running, executed, lost, sessions>>

\* The threads end with cereja wherever they are; it may be started again.
SessionEnds ==
  /\ sessions < MaxSessions
  /\ thread' = [t \in Thread |-> Idle]
  /\ running' = {}
  /\ sessions' = sessions + 1
  /\ UNCHANGED <<registry, executed, lost, disturbed, changes>>

ThreadStep(t) ==
  /\ \/ Open(t) \/ OpenFails(t) \/ Execute(t) \/ Waited(t) \/ SkipValue(t) \/ EnumEnds(t)
     \/ DeleteFirst(t) \/ RegDeleteValue(t) \/ DeleteEnds(t)
     \/ OpenFolder(t) \/ ShellExecute(t) \/ FolderEnds(t)
  /\ UNCHANGED <<changes, sessions>>

StartupNext ==
  \/ \E t \in Thread : \/ ThreadStep(t)
                       \/ run_startup_programs(t) /\ UNCHANGED <<changes, sessions>>
  \/ ProgramEnds
  \/ \E key \in {"LM_RunOnce", "CU_RunOnce"}, v \in Val : Put(key, v) \/ Remove(key, v)
  \/ SessionEnds

\* The threads run, and the programs that are waited for end.
Fairness == WF_startup_vars(ProgramEnds) /\ \A t \in Thread : WF_startup_vars(ThreadStep(t))

StartupSpec == StartupInit /\ [][StartupNext]_startup_vars /\ Fairness

-----------------------------------------------------------------------------
(* Properties                                                              *)

\* No value of a RunOnce key is deleted before it was executed, however many
\* threads are at it and whenever cereja ends, as long as no other program
\* changes the key and all values can be read (__init__.c:113-158).
NothingLost == lost # {} => disturbed

\* A thread gets through, unless a value that is no string stands first in a
\* RunOnce key (__init__.c:139-158).
Stuck(t) == /\ At(t, "delete")
            /\ Values(t) # <<>>
            /\ Type[Head(Values(t))] = "REG_DWORD"

ThreadEnds ==
  \A t \in Thread : ~At(t, "idle") ~> At(t, "idle") \/ At(t, "done") \/ Stuck(t)

=============================================================================
