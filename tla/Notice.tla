------------------------------- MODULE Notice -------------------------------
(***************************************************************************)
(* Telling the user something: Crj_Notice (src/api.c) calls the notice     *)
(* handlers that scripts have added (libcereja.lua), then shows a message  *)
(* box unless one of them has shown the notice.  A handler may change the  *)
(* list of handlers, show the notice in a message box of its own, or fail; *)
(* a failure is a notice itself, sent before the first one is finished.    *)
(***************************************************************************)
EXTENDS Integers, Sequences, FiniteSets

CONSTANTS
  Handler,   (* Lua functions added as notice handlers                 *)
  NoHandler, (* stands for none                                       *)
  MaxAdds,   (* bound: times that each is added                        *)
  MaxDepth   (* bound: a notice is sent within fewer others than that  *)

ASSUME BoundAssumption == MaxAdds \in Nat /\ MaxDepth \in Nat

VARIABLES
  notice_handler_list,
  calls,    (* the notices in progress, the innermost last               *)
  running,  (* FALSE once an error has left the message loop             *)
  added     (* history: how often each handler has been added            *)

vars == <<notice_handler_list, calls, running, added>>

\* A notice: the place of the handler called last and the handler, noticedp,
\* where it is, and whether it tells of the failure of a handler; as history,
\* whether the user has been told.
Call == [i: Nat, v: Handler \cup {NoHandler}, noticedp: BOOLEAN,
         at: {"loop", "handler", "failed", "box", "end"}, nested: BOOLEAN,
         told: BOOLEAN]

TypeOK ==
  /\ notice_handler_list \in Seq(Handler)
  /\ calls \in Seq(Call)
  /\ running \in BOOLEAN
  /\ added \in [Handler -> 0..MaxAdds]

Init ==
  /\ notice_handler_list = <<>>
  /\ calls = <<>>
  /\ running = TRUE
  /\ added = [handler \in Handler |-> 0]

Top == calls[Len(calls)]
Pop == SubSeq(calls, 1, Len(calls) - 1)
At(place) == calls # <<>> /\ Top.at = place

\* Lua code runs.
InScript ==
  running /\ ~(calls # <<>> /\ Top.at \in {"loop", "failed", "end"})

Begun(nested) == [i |-> 0, v |-> NoHandler, noticedp |-> FALSE, at |-> "loop",
                  nested |-> nested, told |-> FALSE]

-----------------------------------------------------------------------------
(* Crj_Notice                                                              *)

\* Sent by the program or a script, by a handler included, or by what a message
\* box lets in.
Crj_Notice ==
  /\ InScript
  /\ Len(calls) < MaxDepth
  /\ calls' = Append(calls, Begun(FALSE))
  /\ UNCHANGED <<notice_handler_list, running, added>>

\* Mutant: the same handler is called for ever.
CallHandlerAgain ==
  /\ At("loop")
  /\ Top.i < Len(notice_handler_list)
  /\ calls' = [calls EXCEPT ![Len(calls)].v = notice_handler_list[Top.i + 1],
                            ![Len(calls)].at = "handler"]
  /\ UNCHANGED <<notice_handler_list, running, added>>

\* call_notice_handlers: ipairs takes the next place of the list as it is now.
CallHandler ==
  /\ At("loop")
  /\ Top.i < Len(notice_handler_list)
  /\ calls' = [calls EXCEPT ![Len(calls)].i = @ + 1,
                            ![Len(calls)].v = notice_handler_list[Top.i + 1],
                            ![Len(calls)].at = "handler"]
  /\ UNCHANGED <<notice_handler_list, running, added>>

\* The handler shows the notice and returns true, returns the noticedp it was
\* given, or forgets to.
HandlerReturns ==
  /\ At("handler")
  /\ \E displays, keeps \in BOOLEAN :
       calls' = [calls EXCEPT ![Len(calls)].at = "loop",
                              ![Len(calls)].noticedp = displays \/ (@ /\ keeps),
                              ![Len(calls)].told = @ \/ displays]
  /\ UNCHANGED <<notice_handler_list, running, added>>

\* The end of the list: the default handler.
DefaultHandler ==
  /\ At("loop")
  /\ Top.i >= Len(notice_handler_list)
  /\ calls' = [calls EXCEPT ![Len(calls)].at = IF Top.noticedp THEN "end" ELSE "box",
                            ![Len(calls)].told = @ \/ ~Top.noticedp]
  /\ UNCHANGED <<notice_handler_list, running, added>>

DismissBox ==
  /\ At("box")
  /\ calls' = [calls EXCEPT ![Len(calls)].at = "end"]
  /\ UNCHANGED <<notice_handler_list, running, added>>

\* What was waiting goes on.  A notice of a failure contains the notice that the
\* handler failed to handle; that one ends, too, as if the user had been told.
EndNotice ==
  /\ At("end")
  /\ calls' = IF Top.nested
                THEN [Pop EXCEPT ![Len(Pop)].at = "end",
                                 ![Len(Pop)].told = @ \/ Top.told]
                ELSE Pop
  /\ UNCHANGED <<notice_handler_list, running, added>>

-----------------------------------------------------------------------------
(* libcereja.lua                                                           *)

IsFirst(i, handler) ==
  /\ i \in DOMAIN notice_handler_list
  /\ notice_handler_list[i] = handler
  /\ \A j \in 1..i - 1 : notice_handler_list[j] # handler

\* Mutant: nothing is removed.
remove_notice_handlerNot(handler) == UNCHANGED notice_handler_list

\* Only the first of the handlers that are the same is removed.
remove_notice_handler(handler) ==
  \/ \E i \in DOMAIN notice_handler_list :
       /\ IsFirst(i, handler)
       /\ notice_handler_list' =
            [k \in 1..Len(notice_handler_list) - 1 |->
               notice_handler_list[IF k < i THEN k ELSE k + 1]]
  \/ /\ \A i \in DOMAIN notice_handler_list : notice_handler_list[i] # handler
     /\ UNCHANGED notice_handler_list

\* Most recent first.
add_notice_handler(handler) ==
  /\ InScript
  /\ added[handler] < MaxAdds
  /\ added' = [added EXCEPT ![handler] = @ + 1]
  /\ notice_handler_list' = <<handler>> \o notice_handler_list
  /\ UNCHANGED <<calls, running>>

ScriptRemoves(handler) ==
  /\ InScript
  /\ remove_notice_handler(handler)
  /\ UNCHANGED <<calls, running, added>>

\* Mutant: the failure is not reported.
HandlerFailsSilently ==
  /\ At("handler")
  /\ remove_notice_handler(Top.v)
  /\ calls' = [calls EXCEPT ![Len(calls)].at = "end"]
  /\ UNCHANGED <<running, added>>

\* A handler raises a string: notice_errorf sends a notice of the failure.
HandlerFails ==
  /\ At("handler")
  /\ remove_notice_handler(Top.v)
  /\ calls' = Append([calls EXCEPT ![Len(calls)].at = "failed"], Begun(TRUE))
  /\ UNCHANGED <<running, added>>

\* A handler raises something else: string.format raises an error in turn, which
\* leaves Crj_Notice for the script that called it, where pcall or Crj_PCall
\* stops it, or for the message loop, which ends with the shell.
HandlerFailsOddly ==
  /\ At("handler")
  /\ remove_notice_handler(Top.v)
  /\ \/ \E n \in 0..Len(calls) - 1 :
          /\ ~(n > 0 /\ calls[n].at = "failed")
          /\ calls' = SubSeq(calls, 1, n)
          /\ UNCHANGED running
     \/ calls' = <<>> /\ running' = FALSE
  /\ UNCHANGED added

Ended == ~running /\ UNCHANGED vars

-----------------------------------------------------------------------------

Next ==
  \/ Crj_Notice \/ CallHandler
  \/ HandlerReturns \/ HandlerFails \/ HandlerFailsOddly
  \/ DefaultHandler \/ DismissBox \/ EndNotice
  \/ \E handler \in Handler : add_notice_handler(handler) \/ ScriptRemoves(handler)
  \/ Ended

Spec == Init /\ [][Next]_vars

\* Lua code runs to its end, a handler returns or fails, and the user dismisses
\* message boxes.
LiveSpec ==
  /\ Spec
  /\ WF_vars(CallHandler)
  /\ WF_vars(HandlerReturns \/ HandlerFails \/ HandlerFailsOddly)
  /\ WF_vars(DefaultHandler)
  /\ WF_vars(DismissBox)
  /\ WF_vars(EndNotice)

-----------------------------------------------------------------------------
(* Properties                                                              *)

\* A notice that ends has been shown by a handler, by the default handler, or
\* within the notice of a handler's failure (libcereja.lua:105-125).
NoticeReachesUser == [][EndNotice => Top.told]_vars

\* libcereja.lua:112: a failing handler is removed "to avoid infinite recursion".
\* Handlers may be called within each other and be in the list more than once,
\* but no handler has more failures under way than it has been added times.
FailuresOf(handler) ==
  {n \in DOMAIN calls : calls[n].at = "failed" /\ calls[n].v = handler}
PlacesOf(handler) ==
  {i \in DOMAIN notice_handler_list : notice_handler_list[i] = handler}

RecursionEnds ==
  \A handler \in Handler :
    Cardinality(FailuresOf(handler)) + Cardinality(PlacesOf(handler))
      <= added[handler]

\* When no more notices are sent, those in progress end, whatever the handlers
\* do (the bound MaxAdds keeps a handler from adding itself each time).
NoticesEnd == <>[][~Crj_Notice]_vars => <>[](calls = <<>>)

=============================================================================
