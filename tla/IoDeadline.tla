----------------------------- MODULE IoDeadline -----------------------------
(***************************************************************************)
(* detail/deadline.h of ozo: io_deadline_handler, which races an operation *)
(* against a timer.  Operation and timer each come to the context once;    *)
(* the first to come leaves its error code there, the second calls the     *)
(* user's handler with it.  So the handler is called only when nothing of  *)
(* the operation is left behind.                                           *)
(*                                                                         *)
(* The composing module runs the handlers, on the strand they are bound    *)
(* to: it appends TimerEntry to the strand when the timer expires or is    *)
(* cancelled, and cancels the stream's I/O in TimerFirst.                  *)
(***************************************************************************)
EXTENDS Naturals

CONSTANTS Ops,    \* the operations of the composing module
          Timed   \* those that were given a time constraint

ASSUME DeadlineAssumption == Timed \subseteq Ops

VARIABLES first_call,  \* context::first_call, 0 outside an operation
          timer,       \* where the timer handler is
          saved,       \* context::ec
          calls,       \* how often the user's handler was called
          answer       \* the error code of the last call

deadlineVars == <<first_call, timer, saved, calls, answer>>

TimerStates == {"off", "armed", "queued", "ran"}

DeadlineTypeOK(Codes) ==
  /\ first_call \in [Ops -> 0..2]
  /\ timer \in [Ops -> TimerStates]
  /\ saved \in [Ops -> Codes \cup {"none"}]
  /\ calls \in [Ops -> Nat]
  /\ answer \in [Ops -> Codes \cup {"none"}]

DeadlineInit ==
  /\ first_call = [o \in Ops |-> 0]
  /\ timer = [o \in Ops |-> "off"]
  /\ saved = [o \in Ops |-> "none"]
  /\ calls = [o \in Ops |-> 0]
  /\ answer = [o \in Ops |-> "none"]

\* The constructor, when a time constraint was given: the timer is started.
DeadlineStart(o) ==
  /\ first_call' = [first_call EXCEPT ![o] = IF o \in Timed THEN 2 ELSE 0]
  /\ timer' = [timer EXCEPT ![o] = IF o \in Timed THEN "armed" ELSE "off"]
  /\ UNCHANGED <<saved, calls, answer>>

\* The user's handler is called.
Call(o, ec) ==
  /\ calls' = [calls EXCEPT ![o] = @ + 1]
  /\ answer' = [answer EXCEPT ![o] = ec]

\* timer_.cancel() on a timer that waits makes its handler ready.
TimerCancelled(o) == [timer EXCEPT ![o] = IF @ = "armed" THEN "queued" ELSE @]

\* Mutant: the operation calls the handler and leaves the timer to itself.
OperationDoneAtOnce(o, ec) ==
  /\ Call(o, ec)
  /\ UNCHANGED <<timer, first_call, saved>>

\* The operation is over with ec: operator() of io_deadline_handler, or of the
\* user's handler itself where there is no time constraint.  A completion that
\* comes after the handler was called (ctx_ is null by then) counts as a call.
OperationDone(o, ec) ==
  \/ /\ o \notin Timed \/ first_call[o] = 0
     /\ Call(o, ec)
     /\ UNCHANGED <<first_call, timer, saved>>
  \/ /\ o \in Timed
     /\ first_call[o] = 2
     /\ first_call' = [first_call EXCEPT ![o] = 1]
     /\ timer' = TimerCancelled(o)
     /\ saved' = [saved EXCEPT ![o] = ec]
     /\ UNCHANGED <<calls, answer>>
  \/ /\ o \in Timed
     /\ first_call[o] = 1
     /\ first_call' = [first_call EXCEPT ![o] = 0]
     /\ Call(o, saved[o])
     /\ UNCHANGED <<timer, saved>>

\* timer_handler comes first: the stream is cancelled by the composing module.
TimerFirst(o) ==
  /\ first_call[o] = 2
  /\ first_call' = [first_call EXCEPT ![o] = 1]
  /\ timer' = [timer EXCEPT ![o] = "ran"]
  /\ saved' = [saved EXCEPT ![o] = "timed_out"]
  /\ UNCHANGED <<calls, answer>>

TimerSecond(o) ==
  /\ first_call[o] = 1
  /\ first_call' = [first_call EXCEPT ![o] = 0]
  /\ timer' = [timer EXCEPT ![o] = "ran"]
  /\ Call(o, saved[o])
  /\ UNCHANGED saved
=============================================================================
