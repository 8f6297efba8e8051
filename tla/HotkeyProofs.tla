---------------------------- MODULE HotkeyProofs ----------------------------
(***************************************************************************)
(* The numbers of the hot keys and the key that reloads config.lua, for    *)
(* any keys, any actions and any limit.                                    *)
(***************************************************************************)
EXTENDS Hotkey, SequenceTheorems, TLAPS

\* Where an action in progress calls the functions of ui.hotkey, it is the
\* innermost: all others are in message boxes.
OthersWait ==
  \A n \in DOMAIN calls : n < Len(calls) => calls[n].at \in {"dialog", "notice"}

\* Every number Windows may post has an action.
TableCovers == DOMAIN registered \subseteq DOMAIN action_table

\* Nothing runs once login.lua has failed.
EndedIsIdle == ~running => calls = <<>>

IInv == /\ TypeOK /\ NumbersAreInUse /\ ReloadKeyWorks
        /\ TableCovers /\ OthersWait /\ EndedIsIdle

(* What the helpers return.                                                *)

\* Moving the innermost action to another place keeps the stack a stack of calls.
LEMMA GotoKeeps ==
  ASSUME calls \in Seq(Call), calls # <<>>, OthersWait,
         NEW place \in {"reset", "register", "body", "dialog", "notice"},
         Goto(place)
  PROVE  /\ calls' \in Seq(Call)
         /\ Len(calls') = Len(calls)
         /\ DOMAIN calls' = DOMAIN calls
         /\ calls'[Len(calls)].at = place
         /\ \A n \in DOMAIN calls : n < Len(calls) => calls'[n] = calls[n]
         /\ OthersWait'
  <1>1. Len(calls) \in DOMAIN calls /\ Top \in Call
    BY DEF Top
  <1>2. [Top EXCEPT !.at = place] \in Call
    BY <1>1 DEF Call
  <1>3. calls' = [calls EXCEPT ![Len(calls)] = [Top EXCEPT !.at = place]]
    BY DEF Goto, Top
  <1>4. /\ calls' \in Seq(Call)
        /\ Len(calls') = Len(calls)
        /\ DOMAIN calls' = DOMAIN calls
    BY <1>1, <1>2, <1>3
  <1>5. calls'[Len(calls)].at = place
    BY <1>1, <1>3 DEF Call
  <1>6. \A n \in DOMAIN calls : n < Len(calls) => calls'[n] = calls[n]
    BY <1>3
  <1>7. OthersWait'
    BY <1>4, <1>6 DEF OthersWait
  <1> QED
    BY <1>4, <1>5, <1>6, <1>7

\* What dropping the innermost action leaves.
LEMMA Front ==
  ASSUME NEW S, NEW s \in Seq(S), s # <<>>
  PROVE  /\ SubSeq(s, 1, Len(s) - 1) \in Seq(S)
         /\ Len(SubSeq(s, 1, Len(s) - 1)) = Len(s) - 1
         /\ \A n \in 1..Len(s) - 1 : SubSeq(s, 1, Len(s) - 1)[n] = s[n]
         /\ Len(s) \in Nat \ {0}
  <1> DEFINE m == Len(s) - 1
  <1>1. Len(s) \in Nat \ {0} /\ \A n \in 1..Len(s) : s[n] \in S
    BY EmptySeq, LenProperties
  <1>2. m \in Int /\ \A n \in 1..m : s[n] \in S
    BY <1>1
  <1>3. /\ SubSeq(s, 1, m) \in Seq(S)
        /\ Len(SubSeq(s, 1, m)) = IF 1 <= m THEN m - 1 + 1 ELSE 0
        /\ \A n \in 1 .. m - 1 + 1 : SubSeq(s, 1, m)[n] = s[1 + n - 1]
    <2> HIDE DEF m
    <2> QED BY <1>2, SubSeqProperties
  <1>4. \A n \in 1..m : 1 + n - 1 = n /\ n \in 1 .. m - 1 + 1
    BY <1>1
  <1>5. \A n \in 1..m : SubSeq(s, 1, m)[n] = s[n]
    BY <1>3, <1>4
  <1>6. Len(SubSeq(s, 1, m)) = m
    <2>1. m \in Nat
      BY <1>1
    <2> HIDE DEF m
    <2> QED BY <2>1, <1>3
  <1> QED
    BY <1>1, <1>3, <1>5, <1>6

\* A stack of one call.
LEMMA Singleton ==
  ASSUME NEW S, NEW e \in S
  PROVE  /\ <<e>> \in Seq(S)
         /\ Len(<<e>>) = 1
         /\ DOMAIN <<e>> = {1}
         /\ <<e>>[1] = e
  OBVIOUS

\* Dropping the innermost action keeps the others waiting in message boxes.
LEMMA PopKeeps ==
  ASSUME calls \in Seq(Call), calls # <<>>, OthersWait, calls' = Pop
  PROVE  /\ calls' \in Seq(Call)
         /\ \A n \in DOMAIN calls' : /\ n \in DOMAIN calls
                                     /\ n < Len(calls)
                                     /\ calls'[n] = calls[n]
         /\ OthersWait'
  <1>1. /\ calls' \in Seq(Call)
        /\ Len(calls') = Len(calls) - 1
        /\ \A n \in 1..Len(calls) - 1 : calls'[n] = calls[n]
        /\ Len(calls) \in Nat \ {0}
    BY Front DEF Pop
  <1>2. DOMAIN calls' = 1..Len(calls) - 1 /\ DOMAIN calls = 1..Len(calls)
    BY <1>1, LenProperties
  <1> QED
    BY <1>1, <1>2 DEF OthersWait

\* An action begins as a call.
LEMMA StartedIsCall ==
  ASSUME NEW action \in Action, NEW login \in BOOLEAN
  PROVE  Started(action, login) \in Call
  BY DEF Started, Call

-----------------------------------------------------------------------------

\* The inductive invariant holds when login.lua calls reload_config.
LEMMA InitIInv == Init => IInv
  <1> SUFFICES ASSUME Init PROVE IInv
    OBVIOUS
  <1>1. /\ calls = <<Started(reload_config, TRUE)>>
        /\ Started(reload_config, TRUE) \in Call
        /\ Started(reload_config, TRUE).at = "reset"
    BY StartedIsCall, ReloadAssumption DEF Init, Started
  <1>2. DOMAIN registered = {} /\ DOMAIN action_table = {}
    BY EmptySeq, LenProperties DEF Init
  <1>3. queue \in Seq(WM_HOTKEY)
    BY EmptySeq DEF Init
  <1>4. calls \in Seq(Call)
    BY <1>1, Singleton
  <1>5. s_HotkeyCount \in 0..HOTKEY_ID_MAX + 1
    BY LimitAssumption DEF Init
  <1>6. TypeOK
    <2>1. others \subseteq Combo /\ running \in BOOLEAN /\ robbed \in BOOLEAN
      BY DEF Init
    <2> QED
      BY <1>2, <1>3, <1>4, <1>5, <2>1 DEF TypeOK
  <1>7. NumbersAreInUse /\ TableCovers /\ EndedIsIdle
    BY <1>2 DEF Init, NumbersAreInUse, TableCovers, EndedIsIdle
  <1>8. DOMAIN calls = {1} /\ Len(calls) = 1 /\ calls[1].at = "reset"
    BY <1>1, Singleton
  <1>9. OthersWait /\ ReloadKeyWorks
    BY <1>8 DEF OthersWait, ReloadKeyWorks, Settled
  <1> QED
    BY <1>6, <1>7, <1>9 DEF IInv

\* Only the innermost action can be between reset and register.
LEMMA SettledTop ==
  ASSUME calls \in Seq(Call), OthersWait, calls # <<>>,
         Top.at \notin {"reset", "register"}
  PROVE  Settled
  <1>1. Len(calls) \in Nat /\ DOMAIN calls = 1..Len(calls)
    BY LenProperties
  <1> QED
    BY <1>1 DEF Settled, OthersWait, Top

\* A registration adds one number with its keys and its action.
LEMMA Registering ==
  ASSUME TypeOK, NumbersAreInUse, TableCovers, running,
         NEW combo \in Combo, NEW action \in Action, _register(combo, action)
  PROVE  /\ DOMAIN registered' = 0..s_HotkeyCount' - 1
         /\ DOMAIN registered' \subseteq Id
         /\ \A id \in DOMAIN registered' : registered'[id] \in Combo
         /\ s_HotkeyCount' \in 0..HOTKEY_ID_MAX + 1
         /\ DOMAIN action_table' \subseteq Id
         /\ \A id \in DOMAIN action_table' : action_table'[id] \in Action
         /\ TableCovers'
         /\ s_HotkeyCount \in DOMAIN registered'
         /\ registered'[s_HotkeyCount] = combo
         /\ action_table'[s_HotkeyCount] = action
         /\ \A id \in DOMAIN registered :
              /\ id \in DOMAIN registered'
              /\ registered'[id] = registered[id]
              /\ action_table'[id] = action_table[id]
  <1>1. s_HotkeyCount \in Id /\ s_HotkeyCount' = s_HotkeyCount + 1
    BY LimitAssumption DEF TypeOK, _register, FreeId, Id
  <1>2. DOMAIN registered = 0..s_HotkeyCount - 1
    BY DEF NumbersAreInUse
  <1>3. /\ registered' = [id \in DOMAIN registered \cup {s_HotkeyCount} |->
                           IF id = s_HotkeyCount THEN combo ELSE registered[id]]
        /\ action_table' = [id \in DOMAIN action_table \cup {s_HotkeyCount} |->
                             IF id = s_HotkeyCount THEN action ELSE action_table[id]]
    BY DEF _register, With
  <1>4. /\ DOMAIN registered' = 0..s_HotkeyCount' - 1
        /\ s_HotkeyCount' \in 0..HOTKEY_ID_MAX + 1
    BY <1>1, <1>2, <1>3, LimitAssumption DEF Id
  <1>5. /\ DOMAIN registered' \subseteq Id
        /\ \A id \in DOMAIN registered' : registered'[id] \in Combo
        /\ DOMAIN action_table' \subseteq Id
        /\ \A id \in DOMAIN action_table' : action_table'[id] \in Action
    BY <1>1, <1>3 DEF TypeOK
  <1>6. TableCovers'
    BY <1>3 DEF TableCovers
  <1>7. /\ s_HotkeyCount \in DOMAIN registered'
        /\ registered'[s_HotkeyCount] = combo
        /\ action_table'[s_HotkeyCount] = action
    BY <1>3
  <1>8. \A id \in DOMAIN registered :
          /\ id \in DOMAIN registered'
          /\ registered'[id] = registered[id]
          /\ action_table'[id] = action_table[id]
    BY <1>1, <1>2, <1>3 DEF TableCovers, Id
  <1> QED
    BY <1>4, <1>5, <1>6, <1>7, <1>8

\* A failing script leaves the hot keys as they are, or ends the process.
LEMMA Failing ==
  ASSUME IInv, calls # <<>>, Fail
  PROVE  /\ calls' \in Seq(Call) /\ running' \in BOOLEAN
         /\ OthersWait' /\ EndedIsIdle'
         /\ DOMAIN registered' \subseteq DOMAIN registered
         /\ running' => registered' = registered
         /\ \A id \in DOMAIN registered' : registered'[id] = registered[id]
         /\ UNCHANGED <<s_HotkeyCount, action_table>>
  <1>1. CASE Top.login
    <2>1. /\ calls' = <<>> /\ running' = FALSE /\ registered' = <<>>
          /\ UNCHANGED <<s_HotkeyCount, action_table>>
      BY <1>1 DEF Fail
    <2>2. calls' \in Seq(Call) /\ DOMAIN calls' = {} /\ DOMAIN registered' = {}
      BY <2>1, EmptySeq, LenProperties
    <2> QED
      BY <2>1, <2>2 DEF OthersWait, EndedIsIdle
  <1>2. CASE ~Top.login
    <2>1. /\ Goto("notice")
          /\ UNCHANGED <<registered, s_HotkeyCount, action_table, running>>
      BY <1>2 DEF Fail
    <2>2. running
      BY DEF IInv, EndedIsIdle
    <2> QED
      BY <2>1, <2>2, GotoKeeps DEF IInv, TypeOK, EndedIsIdle
  <1> QED
    BY <1>1, <1>2

-----------------------------------------------------------------------------
(* One lemma per action.                                                   *)

\* A key press only posts a message with a number in use.
LEMMA PressKeeps ==
  ASSUME IInv, NEW id \in Id, Press(id)
  PROVE  IInv'
  <1>1. queue' \in Seq(WM_HOTKEY)
    BY AppendProperties DEF IInv, TypeOK, Press, TableCovers, WM_HOTKEY
  <1>2. UNCHANGED <<registered, others, s_HotkeyCount, action_table, calls,
                    running, robbed>>
    BY DEF Press
  <1> QED
    BY <1>1, <1>2 DEF IInv, TypeOK, NumbersAreInUse, ReloadKeyWorks, Settled,
                      ReloadKeyBound, TableCovers, OthersWait, EndedIsIdle

\* What other programs register is none of the invariant's business.
LEMMA OthersChangeKeeps ==
  ASSUME IInv, OthersChange
  PROVE  IInv'
  BY DEF OthersChange, IInv, TypeOK, NumbersAreInUse, ReloadKeyWorks, Settled,
         ReloadKeyBound, TableCovers, OthersWait, EndedIsIdle

\* A retrieved message starts the action in the table, on top of waiting ones.
LEMMA OnHotkeyKeeps ==
  ASSUME IInv, OnHotkey
  PROVE  IInv'
  <1> DEFINE wp == Head(queue).wp
             started == Started(action_table[wp], FALSE)
  <1>1. Head(queue) \in WM_HOTKEY /\ queue' \in Seq(WM_HOTKEY)
    BY HeadTailProperties DEF IInv, TypeOK, OnHotkey
  <1>2. /\ UNCHANGED <<registered, others, s_HotkeyCount, action_table, running,
                       robbed>>
        /\ running /\ Retrieving
    BY DEF OnHotkey, Retrieving
  <1>3. CASE ~Known(wp)
    <2>1. calls' = calls
      BY <1>3 DEF OnHotkey
    <2> QED
      BY <1>1, <1>2, <2>1
         DEF IInv, TypeOK, NumbersAreInUse, ReloadKeyWorks, Settled,
             ReloadKeyBound, TableCovers, OthersWait, EndedIsIdle
  <1>4. CASE Known(wp)
    <2>1. wp \in DOMAIN action_table
      BY <1>1, <1>2, <1>4
         DEF IInv, TypeOK, Known, NumbersAreInUse, TableCovers, WM_HOTKEY, Id
    <2>2. started \in Call
      BY <2>1, StartedIsCall DEF IInv, TypeOK
    <2>3. calls' = Append(calls, started)
      BY <1>4 DEF OnHotkey
    <2>4. /\ calls' \in Seq(Call)
          /\ Len(calls) \in Nat
          /\ Len(calls') = Len(calls) + 1
          /\ DOMAIN calls = 1..Len(calls)
          /\ DOMAIN calls' = 1..Len(calls) + 1
          /\ \A n \in 1..Len(calls) : calls'[n] = calls[n]
      <3> HIDE DEF started
      <3> QED
        BY <2>2, <2>3, AppendProperties, LenProperties DEF IInv, TypeOK
    <2>5. OthersWait'
      BY <1>2, <2>4 DEF IInv, OthersWait, Retrieving, At, Top
    <2>6. Settled' => Settled
      BY <2>4 DEF Settled
    <2>7. ReloadKeyWorks'
      BY <1>2, <2>6 DEF IInv, ReloadKeyWorks, ReloadKeyBound
    <2> QED
      BY <1>1, <1>2, <2>4, <2>5, <2>7
         DEF IInv, TypeOK, NumbersAreInUse, TableCovers, EndedIsIdle
  <1> QED
    BY <1>3, <1>4

\* reset forgets all numbers and leaves the table.
LEMMA ConfigResetsKeeps ==
  ASSUME IInv, ConfigResets
  PROVE  IInv'
  <1>1. calls # <<>> /\ Goto("register") /\ reset
    BY DEF ConfigResets, At
  <1>2. /\ calls' \in Seq(Call) /\ OthersWait'
        /\ Len(calls) \in DOMAIN calls'
        /\ calls'[Len(calls)].at = "register"
    BY <1>1, GotoKeeps, EmptySeq, LenProperties DEF IInv, TypeOK
  <1>3. ~Settled'
    BY <1>2 DEF Settled
  <1>4. running /\ UNCHANGED <<others, action_table, running, robbed>>
    BY <1>1 DEF ConfigResets, IInv, EndedIsIdle
  <1>5. DOMAIN registered' = {} /\ s_HotkeyCount' = 0
    BY <1>1, <1>4 DEF IInv, NumbersAreInUse, reset
  <1>6. queue' \in Seq(WM_HOTKEY)
    <2>1. /\ Len(queue) \in Nat /\ DOMAIN queue = 1..Len(queue)
          /\ \A n \in 1..Len(queue) : queue[n] \in WM_HOTKEY
      BY LenProperties, ElementOfSeq DEF IInv, TypeOK
    <2>2. queue' = [n \in 1..Len(queue) |-> [queue[n] EXCEPT !.reset = TRUE]]
      BY <1>1, <2>1 DEF reset
    <2>3. queue' \in [1..Len(queue) -> WM_HOTKEY]
      BY <2>1, <2>2 DEF WM_HOTKEY
    <2> QED
      BY <2>1, <2>3, SeqDef
  <1>7. TypeOK'
    BY <1>2, <1>4, <1>5, <1>6, LimitAssumption DEF IInv, TypeOK
  <1>8. NumbersAreInUse' /\ TableCovers' /\ EndedIsIdle' /\ ReloadKeyWorks'
    BY <1>3, <1>4, <1>5
       DEF NumbersAreInUse, TableCovers, EndedIsIdle, ReloadKeyWorks
  <1> QED
    BY <1>2, <1>7, <1>8 DEF IInv

\* config.lua gets the reload key as number 0, or finds it taken.
LEMMA ConfigRegistersKeeps ==
  ASSUME IInv, ConfigRegisters
  PROVE  IInv'
  <1>1. calls # <<>> /\ running /\ UNCHANGED <<others, queue>>
    BY DEF ConfigRegisters, At, IInv, EndedIsIdle
  <1>2. CASE /\ _register(ReloadCombo, reload_config)
             /\ Goto("body") /\ robbed' = FALSE /\ UNCHANGED running
    <2>1. calls' \in Seq(Call) /\ OthersWait'
      BY <1>1, <1>2, GotoKeeps DEF IInv, TypeOK
    <2>2. ReloadKeyBound'
      BY <1>1, <1>2, Registering, ReloadAssumption DEF IInv, ReloadKeyBound
    <2>3. TypeOK' /\ NumbersAreInUse' /\ TableCovers'
      BY <1>1, <1>2, <2>1, Registering, ReloadAssumption
         DEF IInv, TypeOK, NumbersAreInUse
    <2> QED
      BY <1>1, <1>2, <2>1, <2>2, <2>3 DEF IInv, EndedIsIdle, ReloadKeyWorks
  <1>3. CASE Fail /\ robbed' = TRUE
    <2>1. TypeOK' /\ NumbersAreInUse' /\ TableCovers'
      BY <1>1, <1>3, Failing DEF IInv, TypeOK, NumbersAreInUse, TableCovers
    <2> QED
      BY <1>1, <1>3, <2>1, Failing DEF IInv, ReloadKeyWorks
  <1> QED
    BY <1>2, <1>3 DEF ConfigRegisters

\* An action registers a key under the next number, or fails.
LEMMA RegistersKeeps ==
  ASSUME IInv, NEW combo \in Combo, NEW action \in Action,
         Registers(combo, action)
  PROVE  IInv'
  <1>1. /\ calls # <<>> /\ running /\ Top.at = "body"
        /\ UNCHANGED <<others, queue, robbed>>
    BY DEF Registers, At, IInv, EndedIsIdle
  <1>2. Settled
    BY <1>1, SettledTop DEF IInv, TypeOK
  <1>3. CASE _register(combo, action) /\ UNCHANGED <<calls, running>>
    <2>1. TypeOK' /\ NumbersAreInUse' /\ TableCovers'
      BY <1>1, <1>3, Registering DEF IInv, TypeOK, NumbersAreInUse
    <2>2. ReloadKeyBound => ReloadKeyBound'
      BY <1>1, <1>3, Registering DEF IInv, ReloadKeyBound
    <2>3. ReloadKeyWorks'
      BY <1>1, <1>2, <2>2 DEF IInv, ReloadKeyWorks
    <2> QED
      BY <1>1, <1>3, <2>1, <2>3 DEF IInv, OthersWait, EndedIsIdle
  <1>4. CASE Fail
    <2>1. TypeOK' /\ NumbersAreInUse' /\ TableCovers'
      BY <1>1, <1>4, Failing DEF IInv, TypeOK, NumbersAreInUse, TableCovers
    <2>2. ReloadKeyWorks'
      BY <1>1, <1>2, <1>4, Failing DEF IInv, ReloadKeyWorks, ReloadKeyBound
    <2> QED
      BY <1>4, <1>1, <2>1, <2>2, Failing DEF IInv
  <1> QED
    BY <1>3, <1>4 DEF Registers

\* An error outside of a registration.
LEMMA FailsKeeps ==
  ASSUME IInv, Fails
  PROVE  IInv'
  <1>1. /\ calls # <<>> /\ running /\ Top.at = "body" /\ Fail
        /\ UNCHANGED <<others, queue, robbed>>
    BY DEF Fails, At, IInv, EndedIsIdle
  <1>2. Settled
    BY <1>1, SettledTop DEF IInv, TypeOK
  <1>3. TypeOK' /\ NumbersAreInUse' /\ TableCovers'
    BY <1>1, Failing DEF IInv, TypeOK, NumbersAreInUse, TableCovers
  <1>4. ReloadKeyWorks'
    BY <1>1, <1>2, Failing DEF IInv, ReloadKeyWorks, ReloadKeyBound
  <1> QED
    BY <1>1, <1>3, <1>4, Failing DEF IInv

\* Message boxes and ends of actions change nothing but calls, which are
\* settled before and after.
LEMMA MovesKeep ==
  ASSUME IInv, calls # <<>>, Top.at \notin {"reset", "register"},
         UNCHANGED <<registered, others, s_HotkeyCount, action_table, queue,
                     running, robbed>>,
         calls' \in Seq(Call), OthersWait'
  PROVE  IInv'
  <1>1. Settled /\ running
    BY SettledTop DEF IInv, TypeOK, EndedIsIdle
  <1> QED
    BY <1>1 DEF IInv, TypeOK, NumbersAreInUse, ReloadKeyWorks, ReloadKeyBound,
                TableCovers, EndedIsIdle

\* Message boxes open and close.
LEMMA MessageBoxKeeps ==
  ASSUME IInv, MessageBox
  PROVE  IInv'
  <1>1. calls' \in Seq(Call) /\ OthersWait'
    BY GotoKeeps DEF IInv, TypeOK, MessageBox, At
  <1> QED
    BY <1>1, MovesKeep DEF MessageBox, At

\* Actions return.
LEMMA ReturnsKeeps ==
  ASSUME IInv, Returns
  PROVE  IInv'
  <1>1. calls' \in Seq(Call) /\ OthersWait'
    BY GotoKeeps, PopKeeps DEF IInv, TypeOK, Returns, At
  <1> QED
    BY <1>1, MovesKeep DEF Returns, At

\* A step that changes nothing.
LEMMA StutterKeeps ==
  ASSUME IInv, UNCHANGED vars
  PROVE  IInv'
  BY DEF vars, IInv, TypeOK, NumbersAreInUse, ReloadKeyWorks, Settled,
         ReloadKeyBound, TableCovers, OthersWait, EndedIsIdle

\* Types, the numbers in use, the actions they have and the reload key are kept by
\* every step, for any limit on the numbers and any sets of keys and actions.
LEMMA InvNext == IInv /\ [Next]_vars => IInv'
  BY PressKeeps, OthersChangeKeeps, OnHotkeyKeeps, ConfigResetsKeeps,
     ConfigRegistersKeeps, RegistersKeeps, FailsKeeps, MessageBoxKeeps,
     ReturnsKeeps, StutterKeeps DEF Next

\* So they hold in every reachable state.
THEOREM Invariant == Spec => []IInv
  BY InitIInv, InvNext, PTL DEF Spec

-----------------------------------------------------------------------------

\* The variables keep their types; the numbers stay within Windows' limit.
THEOREM TypeCorrect == Spec => []TypeOK
  BY Invariant, PTL DEF IInv

\* The numbers Windows knows are always those below s_HotkeyCount.
THEOREM NumbersMatch == Spec => []NumbersAreInUse
  BY Invariant, PTL DEF IInv

\* Wherever config.lua fails, it can be reloaded by its key, whatever hot keys
\* other actions register and however message boxes nest.
THEOREM ReloadSurvives == Spec => []ReloadKeyWorks
  BY Invariant, PTL DEF IInv

-----------------------------------------------------------------------------
(* The bindings, and the messages posted.                                  *)

\* No two numbers have the same keys.
KeysDistinct ==
  \A id1, id2 \in DOMAIN registered :
    registered[id1] = registered[id2] => id1 = id2

\* The process that has ended owns no hot key.
EndedOwnsNone == ~running => DOMAIN registered = {}

\* A message posted since the last reset has a number in use, and the table has
\* the action under it that was bound to the keys when they were pressed.
MessagesCurrent ==
  \A n \in DOMAIN queue :
    ~queue[n].reset => /\ queue[n].wp < s_HotkeyCount
                       /\ action_table[queue[n].wp] = queue[n].action

BindingInv == IInv /\ KeysDistinct /\ EndedOwnsNone /\ MessagesCurrent

\* What a step must be for HotkeyBindings to allow it.
BindingStep == [Bindings!Next]_Bound

\* The number CHOOSE finds for keys that are registered.
LEMMA NumberOf ==
  ASSUME NEW r, \A id1, id2 \in DOMAIN r : r[id1] = r[id2] => id1 = id2,
         NEW id \in DOMAIN r
  PROVE  (CHOOSE k \in DOMAIN r : r[k] = r[id]) = id
  OBVIOUS

\* Numbers that stay as they are stay bound.
LEMMA SameBindings ==
  ASSUME KeysDistinct, UNCHANGED <<registered, action_table>>
  PROVE  BindingStep /\ KeysDistinct'
  <1>1. KeysDistinct'
    BY DEF KeysDistinct
  <1>2. UNCHANGED Bound
    BY DEF Bound, Keys
  <1> QED
    BY <1>1, <1>2 DEF BindingStep

\* Where nothing is registered any more, everything was reset.
LEMMA ClearedBindings ==
  ASSUME DOMAIN registered' = {}
  PROVE  BindingStep /\ KeysDistinct'
  <1>1. KeysDistinct'
    BY DEF KeysDistinct
  <1>2. Keys' = {}
    BY DEF Keys
  <1>3. Bound' = [c \in {} |-> Action]
    BY <1>2 DEF Bound
  <1>4. Bindings!Reset
    BY <1>3 DEF Bindings!Reset
  <1> QED
    BY <1>1, <1>4 DEF BindingStep, Bindings!Next

\* A registration binds keys that were not bound, and disturbs no other.
LEMMA RegisterBinds ==
  ASSUME BindingInv, running, NEW combo \in Combo, NEW action \in Action,
         _register(combo, action)
  PROVE  BindingStep /\ KeysDistinct'
  <1> DEFINE n == s_HotkeyCount
  <1>1. /\ n \in DOMAIN registered' /\ registered'[n] = combo
        /\ action_table'[n] = action
        /\ \A id \in DOMAIN registered : /\ id \in DOMAIN registered'
                                         /\ registered'[id] = registered[id]
                                         /\ action_table'[id] = action_table[id]
    BY Registering DEF BindingInv, IInv
  <1>2. DOMAIN registered' = DOMAIN registered \cup {n} /\ combo \notin Keys
    BY DEF _register, With, Taken, Keys
  <1>3. KeysDistinct'
    BY <1>1, <1>2 DEF BindingInv, KeysDistinct, Keys
  <1>4. Keys' = Keys \cup {combo}
    BY <1>1, <1>2 DEF Keys
  <1> DEFINE N(r, c) == CHOOSE id \in DOMAIN r : r[id] = c
  <1>5. action_table'[N(registered', combo)] = action
    <2>1. N(registered', registered'[n]) = n
      BY <1>1, <1>3, NumberOf DEF KeysDistinct
    <2> QED
      BY <1>1, <2>1
  <1>6. ASSUME NEW c \in Keys
        PROVE  action_table'[N(registered', c)] = action_table[N(registered, c)]
    <2>1. PICK id \in DOMAIN registered : registered[id] = c
      BY DEF Keys
    <2>2. N(registered, registered[id]) = id
      BY NumberOf DEF BindingInv, KeysDistinct
    <2>3. N(registered', registered'[id]) = id
      BY <1>1, <1>3, NumberOf DEF KeysDistinct
    <2> QED
      BY <1>1, <2>1, <2>2, <2>3
  <1>7. DOMAIN Bound = Keys /\ \A c \in Keys : Bound[c] = action_table[N(registered, c)]
    BY DEF Bound
  <1>8. Bound' = [c \in Keys' |-> action_table'[N(registered', c)]]
    BY DEF Bound
  <1> HIDE DEF N
  <1>9. Bound' = [c \in Keys \cup {combo} |-> IF c = combo THEN action ELSE Bound[c]]
    BY <1>2, <1>4, <1>5, <1>6, <1>7, <1>8
  <1>10. Bindings!Bind(combo, action)
    BY <1>2, <1>7, <1>9 DEF Bindings!Bind
  <1> QED
    BY <1>3, <1>10 DEF BindingStep, Bindings!Next

\* Every step binds new keys, resets, or leaves the bindings alone.
LEMMA BindingNext ==
  ASSUME BindingInv, [Next]_vars
  PROVE  BindingStep /\ KeysDistinct'
  <1>1. KeysDistinct
    BY DEF BindingInv
  <1>2. CASE \E id \in Id : Press(id)
    BY <1>1, <1>2, SameBindings DEF Press
  <1>3. CASE OthersChange \/ OnHotkey \/ MessageBox \/ Returns
    BY <1>1, <1>3, SameBindings DEF OthersChange, OnHotkey, MessageBox, Returns
  <1>4. CASE ConfigResets
    <2>1. calls # <<>> /\ running /\ reset
      BY <1>4 DEF ConfigResets, At, BindingInv, IInv, EndedIsIdle
    <2>2. DOMAIN registered' = {}
      BY <2>1 DEF BindingInv, IInv, NumbersAreInUse, reset
    <2> QED
      BY <2>2, ClearedBindings
  <1>a. ASSUME calls # <<>>, Fail
        PROVE  BindingStep /\ KeysDistinct'
    <2>1. CASE Top.login
      <3>1. registered' = <<>>
        BY <1>a, <2>1 DEF Fail
      <3>2. DOMAIN <<>> = {}
        OBVIOUS
      <3> QED
        BY <3>1, <3>2, ClearedBindings
    <2>2. CASE ~Top.login
      BY <1>1, <1>a, <2>2, SameBindings DEF Fail
    <2> QED
      BY <2>1, <2>2
  <1>5. CASE ConfigRegisters
    <2>1. calls # <<>> /\ running
      BY <1>5 DEF ConfigRegisters, At, BindingInv, IInv, EndedIsIdle
    <2> QED
      BY <1>5, <1>a, <2>1, RegisterBinds, ReloadAssumption DEF ConfigRegisters
  <1>6. ASSUME NEW combo \in Combo, NEW action \in Action, Registers(combo, action)
        PROVE  BindingStep /\ KeysDistinct'
    <2>1. calls # <<>> /\ running
      BY <1>6 DEF Registers, At, BindingInv, IInv, EndedIsIdle
    <2> QED
      BY <1>6, <1>a, <2>1, RegisterBinds DEF Registers
  <1>7. CASE Fails
    BY <1>7, <1>a DEF Fails, At
  <1>8. CASE UNCHANGED vars
    BY <1>1, <1>8, SameBindings DEF vars
  <1> QED
    BY <1>2, <1>3, <1>4, <1>5, <1>6, <1>7, <1>8 DEF Next

\* The process that ends loses its hot keys, and gets no new ones.
LEMMA EndedNext ==
  ASSUME IInv, EndedOwnsNone, [Next]_vars
  PROVE  EndedOwnsNone'
  <1>1. ASSUME calls # <<>>, Fail
        PROVE  EndedOwnsNone'
    <2>1. DOMAIN <<>> = {}
      OBVIOUS
    <2>2. running
      BY <1>1 DEF IInv, EndedIsIdle
    <2> QED
      BY <1>1, <2>1, <2>2 DEF Fail, EndedOwnsNone
  <1>2. ASSUME calls # <<>>, UNCHANGED running
        PROVE  EndedOwnsNone'
    BY <1>2 DEF IInv, EndedIsIdle, EndedOwnsNone
  <1>3. CASE (\E id \in Id : Press(id)) \/ OthersChange \/ OnHotkey
    BY <1>3 DEF Press, OthersChange, OnHotkey, EndedOwnsNone
  <1>4. CASE ConfigResets \/ MessageBox \/ Returns
    BY <1>2, <1>4 DEF ConfigResets, MessageBox, Returns, At
  <1>5. CASE ConfigRegisters \/ Fails
    BY <1>1, <1>2, <1>5 DEF ConfigRegisters, Fails, At
  <1>6. ASSUME NEW combo \in Combo, NEW action \in Action, Registers(combo, action)
        PROVE  EndedOwnsNone'
    BY <1>1, <1>2, <1>6 DEF Registers, At
  <1>7. CASE UNCHANGED vars
    BY <1>7 DEF vars, EndedOwnsNone
  <1> QED
    BY <1>3, <1>4, <1>5, <1>6, <1>7 DEF Next

\* A message is posted with the action that its number has, and removing one or
\* resetting the numbers makes no other wrong.
LEMMA MessagesNext ==
  ASSUME BindingInv, [Next]_vars
  PROVE  MessagesCurrent'
  <1>a. /\ IInv /\ TypeOK /\ MessagesCurrent
        /\ s_HotkeyCount \in Nat
        /\ queue \in Seq(WM_HOTKEY)
        /\ DOMAIN queue = 1..Len(queue) /\ Len(queue) \in Nat
    BY LenProperties DEF BindingInv, IInv, TypeOK
  <1>c. \A n \in DOMAIN queue : queue[n] \in WM_HOTKEY
    BY <1>a
  <1>b. ASSUME UNCHANGED <<queue, s_HotkeyCount, action_table>>
        PROVE  MessagesCurrent'
    BY <1>b DEF MessagesCurrent, BindingInv
  <1>1. ASSUME NEW id \in Id, Press(id)
        PROVE  MessagesCurrent'
    <2> DEFINE m == [wp |-> id, action |-> action_table[id], reset |-> FALSE]
    <2>1. /\ id \in DOMAIN registered /\ queue' = Append(queue, m)
          /\ UNCHANGED <<s_HotkeyCount, action_table>>
      BY <1>1 DEF Press
    <2>2. id < s_HotkeyCount
      BY <1>a, <2>1 DEF BindingInv, EndedOwnsNone, IInv, NumbersAreInUse
    <2>3. m \in WM_HOTKEY
      BY <1>a, <2>1 DEF TypeOK, IInv, TableCovers, WM_HOTKEY
    <2>4. m.wp = id /\ m.action = action_table[id]
      OBVIOUS
    <2> HIDE DEF m
    <2>5. /\ DOMAIN queue' = 1..Len(queue) + 1
          /\ \A n \in 1..Len(queue) : queue'[n] = queue[n]
          /\ queue'[Len(queue) + 1] = m
      BY <1>a, <2>1, <2>3, AppendProperties, LenProperties
    <2>6. \A n \in DOMAIN queue' : \/ n \in DOMAIN queue /\ queue'[n] = queue[n]
                                   \/ queue'[n] = m
      BY <1>a, <2>5
    <2> QED
      BY <1>a, <2>1, <2>2, <2>4, <2>6 DEF MessagesCurrent
  <1>2. CASE OnHotkey
    <2>1. /\ queue # <<>> /\ queue' = Tail(queue)
          /\ UNCHANGED <<s_HotkeyCount, action_table>>
      BY <1>2 DEF OnHotkey
    <2>2. /\ DOMAIN queue' = 1..Len(queue) - 1
          /\ \A n \in 1..Len(queue) - 1 : queue'[n] = queue[n + 1]
      BY <1>a, <2>1, HeadTailProperties, LenProperties
    <2>3. \A n \in DOMAIN queue' : n + 1 \in DOMAIN queue /\ queue'[n] = queue[n + 1]
      BY <1>a, <2>2
    <2> QED
      BY <1>a, <2>1, <2>3 DEF MessagesCurrent
  <1>3. CASE ConfigResets
    <2>1. queue' = [n \in DOMAIN queue |-> [queue[n] EXCEPT !.reset = TRUE]]
      BY <1>3 DEF ConfigResets, reset
    <2>2. \A n \in DOMAIN queue : queue[n] \in WM_HOTKEY
      BY <1>a
    <2>3. \A n \in DOMAIN queue' : queue'[n].reset = TRUE
      BY <2>1, <2>2 DEF WM_HOTKEY
    <2> QED
      BY <2>3 DEF MessagesCurrent
  <1>4. ASSUME NEW combo \in Combo, NEW action \in Action, _register(combo, action),
               UNCHANGED queue, running
        PROVE  MessagesCurrent'
    <2>1. /\ DOMAIN registered = 0..s_HotkeyCount - 1
          /\ \A id \in DOMAIN registered : action_table'[id] = action_table[id]
          /\ s_HotkeyCount' = s_HotkeyCount + 1
      BY <1>a, <1>4, Registering DEF IInv, NumbersAreInUse, _register
    <2>2. ASSUME NEW n \in DOMAIN queue, ~queue[n].reset
          PROVE  /\ queue[n].wp < s_HotkeyCount'
                 /\ action_table'[queue[n].wp] = queue[n].action
      <3>1. queue[n].wp \in Id
        BY <1>c DEF WM_HOTKEY
      <3>2. queue[n].wp < s_HotkeyCount /\ action_table[queue[n].wp] = queue[n].action
        BY <1>a, <2>2 DEF MessagesCurrent
      <3>3. queue[n].wp \in DOMAIN registered /\ queue[n].wp < s_HotkeyCount + 1
        BY <1>a, <2>1, <3>1, <3>2 DEF Id
      <3> QED
        BY <2>1, <3>2, <3>3
    <2> QED
      BY <1>4, <2>2 DEF MessagesCurrent
  <1>5. ASSUME calls # <<>>, Fail, UNCHANGED queue
        PROVE  MessagesCurrent'
    BY <1>b, <1>5 DEF Fail
  <1>6. CASE ConfigRegisters
    <2>1. calls # <<>> /\ running
      BY <1>a, <1>6 DEF ConfigRegisters, At, IInv, EndedIsIdle
    <2> QED
      BY <1>4, <1>5, <1>6, <2>1, ReloadAssumption DEF ConfigRegisters
  <1>7. ASSUME NEW combo \in Combo, NEW action \in Action, Registers(combo, action)
        PROVE  MessagesCurrent'
    <2>1. calls # <<>> /\ running
      BY <1>a, <1>7 DEF Registers, At, IInv, EndedIsIdle
    <2> QED
      BY <1>4, <1>5, <1>7, <2>1 DEF Registers
  <1>8. CASE Fails
    BY <1>5, <1>8 DEF Fails, At
  <1>9. CASE OthersChange \/ MessageBox \/ Returns
    BY <1>b, <1>9 DEF OthersChange, MessageBox, Returns
  <1>10. CASE UNCHANGED vars
    BY <1>b, <1>10 DEF vars
  <1> QED
    BY <1>1, <1>2, <1>3, <1>6, <1>7, <1>8, <1>9, <1>10 DEF Next

\* The inductive invariant behind BindingsSpec and PressRunsAction.  It is about waiting
\* presses only as long as there was no reset since they were posted.
THEOREM BindingInvariant == Spec => []BindingInv
  <1>1. Init => BindingInv
    <2>1. ASSUME Init
          PROVE  KeysDistinct /\ EndedOwnsNone /\ MessagesCurrent
      <3>1. DOMAIN <<>> = {}
        OBVIOUS
      <3> QED
        BY <2>1, <3>1 DEF Init, KeysDistinct, EndedOwnsNone, MessagesCurrent
    <2> QED
      BY <2>1, InitIInv DEF BindingInv
  <1>2. BindingInv /\ [Next]_vars => BindingInv'
    BY InvNext, BindingNext, EndedNext, MessagesNext DEF BindingInv
  <1> QED
    BY <1>1, <1>2, PTL DEF Spec

\* Keys are bound once, to one action, and stay bound to it until all are reset:
\* neither a registration that fails, nor the reuse of numbers, nor the nesting
\* of message boxes changes what a key does (hotkey.c:130-180).
THEOREM ImplementsBindings == Spec => BindingsSpec
  <1>1. Init => Bindings!Init
    <2>1. ASSUME Init
          PROVE  Bound = [c \in {} |-> Action]
      <3>1. DOMAIN <<>> = {}
        OBVIOUS
      <3>2. Keys = {}
        BY <2>1, <3>1 DEF Init, Keys
      <3> QED
        BY <3>2 DEF Bound
    <2> QED
      BY <2>1 DEF Bindings!Init
  <1>2. BindingInv /\ [Next]_vars => [Bindings!Next]_Bound
    BY BindingNext DEF BindingStep
  <1> QED
    BY <1>1, <1>2, BindingInvariant, PTL DEF Spec, BindingsSpec, Bindings!Spec

\* A press runs the action that was bound to its keys then, however many messages
\* and registrations come between, unless the hot keys were reset (hotkey.c:42-56).
THEOREM PressIsHonoured == Spec => PressRunsAction
  <1> DEFINE A == OnHotkey /\ ~Head(queue).reset
                    => /\ Len(calls') = Len(calls) + 1
                       /\ Top'.action = Head(queue).action
  <1>1. BindingInv /\ [Next]_vars => [A]_vars
    <2> SUFFICES ASSUME BindingInv, OnHotkey, ~Head(queue).reset
                 PROVE  /\ Len(calls') = Len(calls) + 1
                        /\ Top'.action = Head(queue).action
      OBVIOUS
    <2>1. /\ calls \in Seq(Call) /\ queue \in Seq(WM_HOTKEY) /\ queue # <<>>
          /\ running
      BY DEF BindingInv, IInv, TypeOK, OnHotkey, Retrieving
    <2>2. 1 \in DOMAIN queue /\ queue[1] = Head(queue) /\ Head(queue) \in WM_HOTKEY
      BY <2>1, HeadTailProperties, LenProperties, EmptySeq
    <2> DEFINE m == Head(queue)  started == Started(action_table[m.wp], FALSE)
    <2>3. m.wp < s_HotkeyCount /\ action_table[m.wp] = m.action
      BY <2>2 DEF BindingInv, MessagesCurrent
    <2>4. calls' = Append(calls, started)
      BY <2>3 DEF OnHotkey, Known
    <2>5. started \in Call /\ started.action = m.action
      BY <2>2, <2>3, StartedIsCall DEF Started, WM_HOTKEY
    <2> HIDE DEF started, m
    <2>6. Len(calls') = Len(calls) + 1 /\ calls'[Len(calls) + 1] = started
      BY <2>1, <2>4, <2>5, AppendProperties
    <2> QED
      BY <2>5, <2>6 DEF Top, m
  <1> QED
    BY <1>1, BindingInvariant, PTL DEF Spec, PressRunsAction

=============================================================================
