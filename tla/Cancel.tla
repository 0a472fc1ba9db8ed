-------------------------------- MODULE Cancel --------------------------------
(***************************************************************************)
(* impl/cancel.h of ozo: cancel() runs the blocking PQcancel on the        *)
(* executor of the cancel handle and, with a time constraint, a timer on   *)
(* the io_context.  The two end in the handler's executor, where the first *)
(* of them calls the handler.  PQcancel cannot be interrupted: it goes on  *)
(* after the time is over, and may never return.                           *)
(***************************************************************************)
EXTENDS Naturals, Sequences

VARIABLES cancelling,     \* cancel_op: "idle", "posted", "back", "ran"
          cancel_ec,      \* what dispatch_cancel returned
          cancel_timer,   \* "off", "armed", "queued", "ran"
          state_,         \* context::state_
          cancel_answers, \* the error codes the handler was called with
          signal          \* the server has been asked to cancel

cancelVars == <<cancelling, cancel_ec, cancel_timer, state_, cancel_answers, signal>>

CancelCodes == {"ok", "pq_cancel_failed", "timed_out"}

CancelTypeOK ==
  /\ cancelling \in {"idle", "posted", "back", "ran"}
  /\ cancel_ec \in CancelCodes
  /\ cancel_timer \in {"off", "armed", "queued", "ran"}
  /\ state_ \in 0..2
  /\ cancel_answers \in Seq(CancelCodes)
  /\ signal \in BOOLEAN

CancelInit ==
  /\ cancelling = "idle" /\ cancel_ec = "ok"
  /\ cancel_timer = "off" /\ state_ = 2
  /\ cancel_answers = <<>> /\ signal = FALSE

\* initiate_async_cancel: the operation is posted and, with a time constraint,
\* the timer armed.
CancelStart ==
  /\ cancelling = "idle"
  /\ cancelling' = "posted"
  /\ cancel_timer' \in {"armed", "off"}
  /\ UNCHANGED <<cancel_ec, state_, cancel_answers, signal>>

\* cancel_op::operator() in a thread of the handle's executor, to the return of
\* dispatch_cancel; if that fails the server may have been reached anyway.
CancelReturns ==
  /\ cancelling = "posted"
  /\ cancelling' = "back"
  /\ \/ cancel_ec' = "ok" /\ signal' = TRUE
     \/ cancel_ec' = "pq_cancel_failed" /\ signal' \in BOOLEAN
  /\ UNCHANGED <<cancel_timer, state_, cancel_answers>>

\* --state_: the first of the two calls the handler.
First(ec) ==
  /\ state_' = state_ - 1
  /\ cancel_answers' = IF state_' # 0 THEN Append(cancel_answers, ec) ELSE cancel_answers

\* deadline_cancel_handler::operator(), or the user's handler itself.
CancelDone ==
  /\ cancelling = "back"
  /\ cancelling' = "ran"
  /\ \/ cancel_timer # "off" /\ First(cancel_ec)
     \/ cancel_timer = "off" /\ cancel_answers' = Append(cancel_answers, cancel_ec) /\ UNCHANGED state_
  /\ cancel_timer' = IF cancel_timer = "armed" /\ state_ = 2 THEN "queued" ELSE cancel_timer
  /\ UNCHANGED <<cancel_ec, signal>>

CancelTimerExpires ==
  /\ cancel_timer = "armed"
  /\ cancel_timer' = "queued"
  /\ UNCHANGED <<cancelling, cancel_ec, state_, cancel_answers, signal>>

\* Mutant: the timer takes the waiting to be over and tells nobody.
CancelTimeoutSilent ==
  /\ cancel_timer = "queued"
  /\ cancel_timer' = "ran"
  /\ state_' = state_ - 1
  /\ UNCHANGED <<cancelling, cancel_ec, cancel_answers, signal>>

\* on_timer_expired, which does not look at its error code.
CancelTimeout ==
  /\ cancel_timer = "queued"
  /\ cancel_timer' = "ran"
  /\ First("timed_out")
  /\ UNCHANGED <<cancelling, cancel_ec, signal>>

\* The threads and the io_context run; PQcancel need not return.
CancelFairness ==
  /\ WF_cancelVars(CancelDone)
  /\ WF_cancelVars(CancelTimerExpires) /\ WF_cancelVars(CancelTimeout)
=============================================================================
