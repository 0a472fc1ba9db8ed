------------------------------- MODULE SyncPool -------------------------------
(***************************************************************************)
(* sync/detail/pool_impl.hpp, sync/pool.hpp and handle.hpp of              *)
(* yamail::resource_pool: the pool whose get() blocks its thread on a      *)
(* condition variable.  An action is one critical section of the pool      *)
(* mutex.  A thread inside get() either sleeps in wait_for or has been     *)
(* woken and waits for the mutex.                                          *)
(***************************************************************************)
EXTENDS Storage

CONSTANTS Requests,      \* the threads, each with at most one call and handle
          NoCell,        \* an unusable handle
          NullCell,      \* a handle made from list_iterator(): usable, no cell
          WaitDurations  \* the wait_duration arguments of get()

ASSUME SyncPoolAssumption ==
  /\ NoCell \notin Cells
  /\ NullCell \notin Cells \cup {NoCell}
  /\ WaitDurations \subseteq Nat

VARIABLES pending,   \* threads inside get()
          holder,    \* the cell of each thread's handle, NoCell or NullCell
          entering,  \* threads that called get() and wait for the mutex
          sleeping,  \* threads in _has_capacity.wait_for
          woken,     \* threads woken by a notification, without the mutex yet
          disabled,  \* _disabled
          crashed    \* list_iterator() was dereferenced

poolImplVars == <<pending, holder, entering, sleeping, woken, disabled>>
vars == <<storageVars, poolImplVars, crashed>>

Calls == [req : Requests, wait : WaitDurations]
Sleeps == [req : Requests, wait : WaitDurations, until : Time]

TypeOK ==
  /\ StorageTypeOK
  /\ pending \subseteq Requests
  /\ holder \in [Requests -> Cells \cup {NoCell, NullCell}]
  /\ entering \subseteq Calls
  /\ sleeping \subseteq Sleeps
  /\ woken \subseteq Sleeps
  /\ disabled \in BOOLEAN
  /\ crashed \in BOOLEAN

Init ==
  /\ StorageInit
  /\ pending = {}
  /\ holder = [r \in Requests |-> NoCell]
  /\ entering = {}
  /\ sleeping = {}
  /\ woken = {}
  /\ disabled = FALSE
  /\ crashed = FALSE

-----------------------------------------------------------------------------
(* get(): the answers, wrapped in a handle by get_handle, and the wait.    *)

AnswerCell(r) ==
  /\ ~disabled
  /\ \E c \in Cells : Lease(c) /\ holder' = [holder EXCEPT ![r] = c]
  /\ pending' = pending \ {r}

\* get_handle makes a handle from list_iterator() for an error as well.
AnswerError(r) ==
  /\ holder' = [holder EXCEPT ![r] = NullCell]
  /\ pending' = pending \ {r}
  /\ UNCHANGED storageVars

\* Mutant: the loop goes back to sleep without looking at _disabled.
FallAsleepAlways(r, w) ==
  /\ NothingToLease
  /\ sleeping' = sleeping \cup {[req |-> r, wait |-> w, until |-> Add(now, w)]}
  /\ UNCHANGED <<storageVars, pending, holder>>

FallAsleep(r, w) ==
  /\ ~disabled
  /\ NothingToLease
  /\ sleeping' = sleeping \cup {[req |-> r, wait |-> w, until |-> Add(now, w)]}
  /\ UNCHANGED <<storageVars, pending, holder>>

\* One turn of the loop in get().
Try(r, w) ==
  \/ disabled /\ AnswerError(r) /\ UNCHANGED sleeping
  \/ AnswerCell(r) /\ UNCHANGED sleeping
  \/ FallAsleep(r, w)

Call(r, w) ==
  /\ r \notin pending
  /\ holder[r] = NoCell
  /\ pending' = pending \cup {r}
  /\ entering' = entering \cup {[req |-> r, wait |-> w]}
  /\ UNCHANGED <<storageVars, holder, sleeping, woken, disabled, crashed>>

Get(x) ==
  /\ entering' = entering \ {x}
  /\ Try(x.req, x.wait)
  /\ UNCHANGED <<woken, disabled, crashed>>

\* wait_for returns to a notified thread; its status is timeout, and get()
\* gives up without another look at the storage, if the time has passed.
Resume(x) ==
  /\ woken' = woken \ {x}
  /\ \/ now < x.until /\ Try(x.req, x.wait)
     \/ now >= x.until /\ AnswerError(x.req) /\ UNCHANGED sleeping
  /\ UNCHANGED <<entering, disabled, crashed>>

\* Mutant: wait_for is given no duration, only a notification ends it.
TimeOutNever(x) == FALSE /\ UNCHANGED vars

TimeOut(x) ==
  /\ now >= x.until
  /\ sleeping' = sleeping \ {x}
  /\ AnswerError(x.req)
  /\ UNCHANGED <<entering, woken, disabled, crashed>>

SpuriousWakeup(x) ==
  /\ sleeping' = sleeping \ {x}
  /\ woken' = woken \cup {x}
  /\ UNCHANGED <<storageVars, pending, holder, entering, disabled, crashed>>

-----------------------------------------------------------------------------
NotifyOne ==
  \/ sleeping = {} /\ UNCHANGED <<sleeping, woken>>
  \/ \E x \in sleeping : sleeping' = sleeping \ {x} /\ woken' = woken \cup {x}

\* handle::recycle, handle::waste, or ~handle with either strategy.
Return(r) ==
  /\ holder[r] \in Cells
  /\ StorageRecycle(holder[r]) \/ StorageWaste(holder[r])
  /\ NotifyOne
  /\ holder' = [holder EXCEPT ![r] = NoCell]
  /\ UNCHANGED <<pending, entering, disabled, crashed>>

\* Mutant: the two handles are swapped.
MoveAssignSwaps(r, q) ==
  /\ r # q
  /\ holder[r] \in Cells
  /\ holder' = [holder EXCEPT ![r] = holder[q], ![q] = holder[r]]
  /\ UNCHANGED <<storageVars, sleeping, woken, pending, entering, disabled, crashed>>

\* handle::operator=(handle&&): the overwritten handle gives its cell back and
\* takes what the other one holds, which may be nothing.
MoveAssign(r, q) ==
  /\ r # q
  /\ holder[r] \in Cells
  /\ StorageRecycle(holder[r]) \/ StorageWaste(holder[r])
  /\ NotifyOne
  /\ holder' = [holder EXCEPT ![r] = holder[q], ![q] = NoCell]
  /\ UNCHANGED <<pending, entering, disabled, crashed>>

\* The same for a handle made from list_iterator(): storage_.recycle and
\* storage_.waste dereference it.
ReturnNull(r) ==
  /\ holder[r] = NullCell
  /\ crashed' = TRUE
  /\ UNCHANGED <<storageVars, poolImplVars>>

Reset(r) ==
  /\ holder[r] \in Cells
  /\ CellReset(holder[r])
  /\ UNCHANGED <<poolImplVars, crashed>>

Disable ==
  /\ disabled' = TRUE
  /\ sleeping' = {}
  /\ woken' = woken \cup sleeping
  /\ UNCHANGED <<storageVars, pending, holder, entering, crashed>>

Invalidate ==
  /\ StorageInvalidate
  /\ UNCHANGED <<poolImplVars, crashed>>

Tick ==
  /\ now < TimeMax
  /\ now' = now + 1
  /\ UNCHANGED <<lists, fields, stale, poolImplVars, crashed>>

Next ==
  /\ ~crashed
  /\ \/ \E r \in Requests, w \in WaitDurations : Call(r, w)
     \/ \E x \in entering : Get(x)
     \/ \E x \in woken : Resume(x)
     \/ \E x \in sleeping : TimeOut(x)
     \/ \E x \in sleeping : SpuriousWakeup(x)
     \/ \E r \in Requests : Return(r)
     \/ \E r, q \in Requests : MoveAssign(r, q)
     \/ \E r \in Requests : ReturnNull(r)
     \/ \E r \in Requests : Reset(r)
     \/ Disable
     \/ Invalidate
     \/ Tick

Spec == Init /\ [][Next]_vars

\* A thread that waits for the mutex gets it, wait_for ends when its time is over.
Fairness ==
  /\ \A r \in Requests :
       /\ WF_vars(~crashed /\ \E x \in entering : x.req = r /\ Get(x))
       /\ WF_vars(~crashed /\ \E x \in woken : x.req = r /\ Resume(x))
       /\ WF_vars(~crashed /\ \E x \in sleeping : x.req = r /\ TimeOut(x))
  /\ WF_vars(~crashed /\ Tick)

FairSpec == Spec /\ Fairness

-----------------------------------------------------------------------------
\* The handles that hold a cell of the pool.
Holders == {r \in Requests : holder[r] \in Cells}

(* A cell in used_ belongs to exactly one handle, and a handle to a cell   *)
(* in used_: threads woken together, or barging in before a woken one,     *)
(* never get the same cell, and no cell is lost.                           *)
CellOwnedOnce ==
  /\ \A r, q \in Holders : holder[r] = holder[q] => r = q
  /\ {holder[r] : r \in Holders} = used

\* Where the thread of each unanswered call is: <<place, request, entry>>.
Places ==
  {<<"entering", x.req, x>> : x \in entering}
    \cup {<<"sleeping", x.req, x>> : x \in sleeping}
    \cup {<<"woken", x.req, x>> : x \in woken}

(* A thread inside get() is at exactly one place of it: notify_one,        *)
(* notify_all, the timeout and a spurious wakeup never wake it twice.      *)
ThreadInOnePlace ==
  /\ \A t, u \in Places : t[2] = u[2] => t = u
  /\ {t[2] : t \in Places} = pending

(* No cell and no thread is lost or doubled, and what invalidate() marked  *)
(* stays marked: the lists of the storage, the handles and the places of   *)
(* get() agree after every locked section.                                 *)
Conserved == StorageInv /\ CellOwnedOnce /\ ThreadInOnePlace

(* disable() leaves no thread asleep: whoever checked _disabled before it  *)
(* is woken by notify_all, whoever checks it after does not fall asleep.   *)
DisabledWakesAll == disabled => sleeping = {}

(* The pool implements the abstract resource pool.  A handle without a     *)
(* cell counts as no handle.                                               *)
UserView == [r \in Requests |-> IF holder[r] \in Cells THEN holder[r] ELSE NoCell]

Pool == INSTANCE ResourcePool WITH holder <- UserView

ImplementsResourcePool == Pool!PoolSpec

(* A thread that sleeps in wait_for leaves it: it is woken or times out.   *)
SleepEnds ==
  \A r \in Requests :
    (\E x \in sleeping : x.req = r) ~> (crashed \/ ~\E x \in sleeping : x.req = r)
=============================================================================
