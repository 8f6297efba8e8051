---------------------------- MODULE Subscribers ----------------------------
(***************************************************************************)
(* The subscribers of shell.tray (lib/shell/tray.lua; lib/shell/window.lua *)
(* has the same code for shell.window).                                    *)
(*                                                                         *)
(* publish walks the list of subscribers by index and calls each in        *)
(* protected mode.  The list may change under it: a subscriber may         *)
(* subscribe, unsubscribe and cause another publish, and so may the        *)
(* messages pumped by the message box that shows a subscriber's error.  A  *)
(* subscriber with too many errors within a minute is unsubscribed by      *)
(* publish itself.                                                         *)
(***************************************************************************)
EXTENDS Integers, Sequences, FiniteSets

CONSTANTS
  Id,                       (* the subscriptions that are ever made       *)
  NoId,                     (* stands for no subscription                 *)
  group_name, procedure,    (* what each of them is made with             *)
  AUTO_UNSUBSCRIBING_TIME,  (* 60 seconds                                 *)
  AUTO_UNSUBSCRIBING_COUNT, (* 3 errors                                   *)
  MaxTime,                  (* bound: the clock                           *)
  MaxDepth,                 (* bound: publishes in progress at once       *)
  MaxErrors                 (* bound: recorded errors of each subscription *)

ASSUME IdAssumption == NoId \notin Id

\* subscribe takes a string and a function, nothing else.
ASSUME SpecifierAssumption == \A id, other \in Id : group_name[id] # procedure[other]

ASSUME TimeAssumption == /\ AUTO_UNSUBSCRIBING_TIME \in Nat \ {0}
                         /\ AUTO_UNSUBSCRIBING_COUNT \in Nat \ {0, 1}
                         /\ MaxTime \in Nat
                         /\ AUTO_UNSUBSCRIBING_TIME <= MaxTime

VARIABLES
  subscribers,  (* _subscribers: the subscriptions in effect, in order    *)
  used,         (* the subscriptions made so far                          *)
  error_time,   (* when the counted errors of a subscription began        *)
  error_count,  (* how many there are                                     *)
  publishing,   (* the publishes in progress, the innermost last          *)
  clock,        (* os.time()                                              *)
  alive,        (* FALSE when an error has ended the shell's main loop    *)
  errors        (* history: times of the recorded errors, by subscription *)

vars == <<subscribers, used, error_time, error_count, publishing, clock,
          alive, errors>>

\* A publish: where it is, its locals i and v, and as history whom it called,
\* whether somebody else took one of those from the list, and whether it has
\* itself dropped a procedure that an earlier subscriber has, too.
Publish == [at: {"test", "calling", "error", "dropped"}, i: Nat \ {0},
            v: Id \cup {NoId}, called: SUBSET Id,
            disturbed: BOOLEAN, doubled: BOOLEAN]

Time == 0..MaxTime

TypeOK ==
  /\ subscribers \in Seq(Id)
  /\ used        \subseteq Id
  /\ error_time  \in [Id -> Time]
  /\ error_count \in [Id -> Nat]
  /\ publishing  \in Seq(Publish)
  /\ clock       \in Time
  /\ alive       \in BOOLEAN
  /\ errors      \in [Id -> Seq(Time)]

\* os.time() is far from 0, the error_time of a subscriber without errors.
Init ==
  /\ subscribers = <<>>
  /\ used        = {}
  /\ error_time  = [id \in Id |-> 0]
  /\ error_count = [id \in Id |-> 0]
  /\ publishing  = <<>>
  /\ clock       = AUTO_UNSUBSCRIBING_TIME
  /\ alive       = TRUE
  /\ errors      = [id \in Id |-> <<>>]

-----------------------------------------------------------------------------

Top == publishing[Len(publishing)]

\* The innermost publish goes on at l with index n.
Goto(stack, l, n) == [stack EXCEPT ![Len(stack)].at = l, ![Len(stack)].i = n]

\* Code other than publish runs: from the main loop, in a subscriber, or in a
\* message box that publish shows.
OthersRun == alive /\ ~(publishing # <<>> /\ Top.at = "test")

\* The last index that a publish has dealt with.
Passed(f) == IF f.at \in {"calling", "error"} THEN f.i ELSE f.i - 1

\* Somebody takes the subscribers at the places in gone from the list.  That
\* disturbs the publishes that have passed one of them.
Disturbed(stack, gone) ==
  [k \in DOMAIN stack |->
     [stack[k] EXCEPT !.disturbed = @ \/ \E p \in gone : p <= Passed(stack[k])]]

Matches(id, specifier) == specifier \in {group_name[id], procedure[id]}

\* ipairs goes on with the next index although table.remove has moved the next
\* subscriber to this one: of adjacent ones that match every other one stays.
Dropped(list, specifier) ==
  {p \in DOMAIN list :
     \E q \in 1..p : /\ q = 1 \/ ~Matches(list[q - 1], specifier)
                     /\ \A k \in q..p : Matches(list[k], specifier)
                     /\ (p - q) % 2 = 0}

\* The loop of unsubscribe: the others are left, in order.
RemoveMatching(specifier) ==
  \E n \in 0..Len(subscribers) : \E from \in [1..n -> DOMAIN subscribers] :
    /\ \A j, k \in 1..n : j < k => from[j] < from[k]
    /\ {from[k] : k \in 1..n} = DOMAIN subscribers \ Dropped(subscribers, specifier)
    /\ subscribers' = [k \in 1..n |-> subscribers[from[k]]]

-----------------------------------------------------------------------------
(* The operations                                                          *)

subscribe(id) ==
  /\ OthersRun
  /\ id \notin used
  /\ used' = used \cup {id}
  /\ subscribers' = Append(subscribers, id)
  /\ UNCHANGED <<error_time, error_count, publishing, clock, alive, errors>>

unsubscribe(specifier) ==
  /\ OthersRun
  /\ RemoveMatching(specifier)
  /\ publishing' = Disturbed(publishing, Dropped(subscribers, specifier))
  /\ UNCHANGED <<used, error_time, error_count, clock, alive, errors>>

publish ==
  /\ OthersRun
  /\ Len(publishing) < MaxDepth
  /\ publishing' = Append(publishing,
       [at |-> "test", i |-> 1, v |-> NoId, called |-> {}, disturbed |-> FALSE,
        doubled |-> FALSE])
  /\ UNCHANGED <<subscribers, used, error_time, error_count, clock, alive,
                 errors>>

\* The loop test fails.
EndPublish ==
  /\ publishing # <<>>
  /\ Top.at = "test"
  /\ Top.i > Len(subscribers)
  /\ publishing' = SubSeq(publishing, 1, Len(publishing) - 1)
  /\ UNCHANGED <<subscribers, used, error_time, error_count, clock, alive,
                 errors>>

CallSubscriber ==
  /\ publishing # <<>>
  /\ Top.at = "test"
  /\ Top.i <= Len(subscribers)
  /\ LET id == subscribers[Top.i]
         n  == Len(publishing)
     IN  publishing' = [publishing EXCEPT ![n].at = "calling", ![n].v = id,
                                          ![n].called = @ \cup {id}]
  /\ UNCHANGED <<subscribers, used, error_time, error_count, clock, alive,
                 errors>>

SubscriberReturns ==
  /\ publishing # <<>>
  /\ Top.at = "calling"
  /\ publishing' = Goto(publishing, "test", Top.i + 1)
  /\ UNCHANGED <<subscribers, used, error_time, error_count, clock, alive,
                 errors>>

\* pcall catches the error and a message box shows it.
SubscriberFails ==
  /\ publishing # <<>>
  /\ Top.at = "calling"
  /\ Len(errors[Top.v]) < MaxErrors[Top.v]
  /\ publishing' = Goto(publishing, "error", Top.i)
  /\ UNCHANGED <<subscribers, used, error_time, error_count, clock, alive,
                 errors>>

\* The error value is not a string, and string.format raises an error in
\* publish.  It ends this publish and those in progress around it, up to a
\* subscriber's call; without one it ends the main loop.
SubscriberFailsOddly ==
  /\ publishing # <<>>
  /\ Top.at = "calling"
  /\ LET outer == {k \in 1..Len(publishing) - 1 : publishing[k].at = "calling"}
     IN  IF outer = {}
           THEN publishing' = <<>> /\ alive' = FALSE
           ELSE /\ UNCHANGED alive
                /\ \E k \in outer : /\ \A j \in outer : j <= k
                                    /\ publishing' = SubSeq(publishing, 1, k)
  /\ UNCHANGED <<subscribers, used, error_time, error_count, clock, errors>>

-----------------------------------------------------------------------------
(* After the message box of an error                                       *)

Recent(id) == clock - error_time[id] < AUTO_UNSUBSCRIBING_TIME

RecordError(id) ==
  /\ error_count' = [error_count EXCEPT ![id] = IF Recent(id) THEN @ + 1 ELSE 1]
  /\ error_time' = [error_time EXCEPT ![id] = IF Recent(id) THEN @ ELSE clock]
  /\ errors' = [errors EXCEPT ![id] = Append(@, clock)]

\* Mutant: the errors of the last minute are not counted.
TooManySoon(id) == Recent(id)

TooMany(id) == Recent(id) /\ error_count[id] + 1 >= AUTO_UNSUBSCRIBING_COUNT

CountError ==
  /\ publishing # <<>>
  /\ Top.at = "error"
  /\ ~TooMany(Top.v)
  /\ RecordError(Top.v)
  /\ publishing' = Goto(publishing, "test", Top.i + 1)
  /\ UNCHANGED <<subscribers, used, clock, alive>>

\* The innermost publish unsubscribes the procedure of v; the others it disturbs.
AutoUnsubscribe ==
  /\ publishing # <<>>
  /\ Top.at = "error"
  /\ TooMany(Top.v)
  /\ RecordError(Top.v)
  /\ RemoveMatching(procedure[Top.v])
  /\ LET n       == Len(publishing)
         stack   == Disturbed(publishing, Dropped(subscribers, procedure[Top.v]))
         earlier == {k \in DOMAIN subscribers : k < Top.i /\ subscribers[k] # Top.v}
         doubled == \E k \in earlier : procedure[subscribers[k]] = procedure[Top.v]
     IN  publishing' = [Goto(stack, "dropped", Top.i) EXCEPT
                          ![n].disturbed = Top.disturbed,
                          ![n].doubled = @ \/ doubled]
  /\ UNCHANGED <<used, clock, alive>>

\* Mutant: the index is not taken back.
AfterDropSkipping ==
  /\ publishing # <<>>
  /\ Top.at = "dropped"
  /\ publishing' = Goto(publishing, "test", Top.i + 1)
  /\ UNCHANGED <<subscribers, used, error_time, error_count, clock, alive,
                 errors>>

\* After the second message box: i = i - 1, then i = i + 1.
AfterDrop ==
  /\ publishing # <<>>
  /\ Top.at = "dropped"
  /\ publishing' = Goto(publishing, "test", Top.i)
  /\ UNCHANGED <<subscribers, used, error_time, error_count, clock, alive,
                 errors>>

\* Time passes; it is enough that it does while a message box is open, as the
\* clock is read next when the box is closed.
Tick ==
  /\ publishing # <<>>
  /\ Top.at = "error"
  /\ clock < MaxTime
  /\ clock' = clock + 1
  /\ UNCHANGED <<subscribers, used, error_time, error_count, publishing, alive,
                 errors>>

-----------------------------------------------------------------------------

\* The main loop has ended.
Ended == ~alive /\ UNCHANGED vars

Specifiers == {group_name[id] : id \in Id} \cup {procedure[id] : id \in Id}

Next ==
  \/ \E id \in Id : subscribe(id)
  \/ \E specifier \in Specifiers : unsubscribe(specifier)
  \/ publish \/ EndPublish
  \/ CallSubscriber \/ SubscriberReturns
  \/ SubscriberFails \/ SubscriberFailsOddly
  \/ CountError \/ AutoUnsubscribe \/ AfterDrop
  \/ Tick
  \/ Ended

Spec == Init /\ [][Next]_vars

-----------------------------------------------------------------------------
(* Properties                                                              *)

\* Nobody is called twice by one publish, whatever becomes of the list.  And the
\* index separates those called from those still to call, so that nobody is
\* skipped, also when subscribers arrive, leave behind the index, or are dropped
\* as buggy, as i = i - 1 makes up for that (tray.lua:47-69).  There are two ways
\* to skip somebody.  Somebody else, a subscriber or a nested publish, takes one
\* that was called from the list (disturbed).  Or publish drops a procedure that
\* it also called under an earlier subscription: both are gone, i goes back
\* by one only, and the next subscriber is not called (doubled, tray.lua:57-60).
NobodySkipped ==
  \A n \in DOMAIN publishing :
    LET f == publishing[n]
    IN  /\ \A k \in DOMAIN subscribers : subscribers[k] \in f.called => k <= Passed(f)
        /\ ~f.disturbed /\ ~f.doubled =>
             \A k \in DOMAIN subscribers : k <= Passed(f) => subscribers[k] \in f.called

\* The last n errors of a subscriber fell within a minute.
WithinMinute(e, n) == /\ Len(e) >= n
                      /\ e[Len(e)] - e[Len(e) - n + 1] < AUTO_UNSUBSCRIBING_TIME

\* An error of id may drop its procedure, if it is one too many.
DropIsJustified(id) ==
  errors'[id] # errors[id] =>
    /\ subscribers' # subscribers => WithinMinute(errors'[id], AUTO_UNSUBSCRIBING_COUNT)
    /\ \A p \in DOMAIN subscribers :
         \/ \E k \in DOMAIN subscribers' : subscribers'[k] = subscribers[p]
         \/ procedure[subscribers[p]] = procedure[id]
    /\ (\E k \in DOMAIN subscribers' : subscribers'[k] = id) =>
         \/ ~WithinMinute(errors'[id], 2 * AUTO_UNSUBSCRIBING_COUNT - 2)
         \/ \E other \in used \ {id} : procedure[other] = procedure[id]

\* When publish drops somebody at an error, the last three errors of the one that
\* failed fell within a minute, and only its procedure goes.  The other direction
\* is weaker, as errors are counted in minutes that begin with an error: of three
\* within a minute one may end a count and two begin the next.  With four within a
\* minute it is gone, unless its procedure was subscribed more than once
\* (tray.lua:54-65; tray.h:90 says too many errors in short term).
DropsAreJustified == [][\A id \in Id : DropIsJustified(id)]_vars

\* The manual: the handlers whose procedure or group_name equals the specifier
\* are unsubscribed (manual.xml:521).
UnsubscribeRemovesAll ==
  [][\A specifier \in Specifiers :
       unsubscribe(specifier) =>
         \A k \in DOMAIN subscribers' : ~Matches(subscribers'[k], specifier)]_vars

=============================================================================
