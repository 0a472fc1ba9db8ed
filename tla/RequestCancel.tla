---------------------------- MODULE RequestCancel ----------------------------
(***************************************************************************)
(* Requests on a connection and a cancel() of what the backend executes:   *)
(* the handle of cancel() names the backend and not a request, so that the *)
(* signal meets whatever query is executed when it arrives.                *)
(***************************************************************************)
EXTENDS AsyncRequest, Cancel

allVars == <<vars, cancelVars>>

\* The backend cancels the query it executes: the reply becomes an error.
SignalArrives ==
  /\ signal
  /\ signal' = FALSE
  /\ reply' = IF outbuf = 0 /\ Len(reply) = 2 THEN [reply EXCEPT ![1].kind = "error"] ELSE reply
  /\ UNCHANGED <<cancelling, cancel_ec, cancel_timer, state_, cancel_answers>>
  /\ UNCHANGED <<deadlineVars, opVars, waits, strand, outbuf, parsed, inbox, partial, inflight, broken, closed>>

\* get_cancel_handle() needs a connection in use.
UserCancels ==
  /\ inflight # 0
  /\ CancelStart

RequestCancelInit == Init /\ CancelInit

RequestCancelNext ==
  \/ Next /\ UNCHANGED cancelVars
  \/ UserCancels /\ UNCHANGED vars
  \/ (CancelReturns \/ CancelDone \/ CancelTimerExpires \/ CancelTimeout) /\ UNCHANGED vars
  \/ SignalArrives

RequestCancelSpec ==
  /\ RequestCancelInit
  /\ [][RequestCancelNext]_allVars
  /\ LocalFairness /\ ServerFairness /\ CancelFairness

-----------------------------------------------------------------------------
RequestCancelTypeOK == TypeOK /\ CancelTypeOK

(* A cancel() with a time constraint is answered, whatever becomes of      *)
(* PQcancel; without one it is when PQcancel returns.  It is answered once *)
(* and for all: a PQcancel that returns late, or a timer that was queued   *)
(* before it could be cancelled, finds the handler taken.                  *)
CancelAnswered ==
  (cancel_timer # "off" \/ cancelling = "back") ~> [](Len(cancel_answers) = 1)
=============================================================================
