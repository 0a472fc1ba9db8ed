------------------------------ MODULE AsyncPool ------------------------------
(***************************************************************************)
(* async/detail/pool_impl.hpp, async/pool.hpp and handle.hpp of            *)
(* yamail::resource_pool: the asynchronous pool behind                     *)
(* ozo::connection_pool.  Any number of threads call get(), return cells,  *)
(* invalidate() and disable() the pool.  An action is one critical section *)
(* of the pool mutex or of the queue mutex, or the run of one posted       *)
(* handler: get() releases the pool mutex before it pushes its request,    *)
(* and recycle() and waste() release it before they post to a waiter.      *)
(*                                                                         *)
(* The request queue appears here as what RequestQueue.tla shows of it: a  *)
(* set of waiting requests, their order of arrival, and an expiry no       *)
(* earlier than asked for.                                                 *)
(***************************************************************************)
EXTENDS Storage

CONSTANTS Requests,       \* the callers, each with at most one request and handle
          NoCell,         \* the iterator of an answer that carries no cell
          QueueCapacity,  \* _capacity of the queue
          WaitDurations   \* the wait_duration arguments of get()

ASSUME AsyncPoolAssumption ==
  /\ NoCell \notin Cells
  /\ QueueCapacity \in Nat
  /\ WaitDurations \subseteq Nat

VARIABLES pending,    \* requests whose handler has not been called yet
          holder,     \* the cell of each caller's handle, or NoCell
          pushing,    \* get() calls between the unlock and the push
          waiting,    \* _callbacks: the queued requests and when they expire
          ahead,      \* _callbacks: <<q, r>> when q was pushed before r
          handing,    \* recycle()/waste() calls between the unlock and the post
          posted,     \* handlers posted to an executor, not yet run
          disabled,   \* _disabled
          disabling   \* what disable() does, which holds the pool mutex meanwhile

poolImplVars == <<pending, holder, pushing, waiting, ahead, handing, posted, disabled, disabling>>
vars == <<storageVars, poolImplVars>>

Errors == {"disabled", "timeout", "overflow"}
Pushes == [req : Requests, wait : WaitDurations]
Entries == [req : Requests, expires : Time]
Handovers == [req : Requests, cell : Cells, keep : BOOLEAN]
Answers == [req : Requests, ec : {"ok"}, cell : Cells]
             \cup [req : Requests, ec : Errors, cell : {NoCell}]

TypeOK ==
  /\ StorageTypeOK
  /\ pending \subseteq Requests
  /\ holder \in [Requests -> Cells \cup {NoCell}]
  /\ pushing \subseteq Pushes
  /\ waiting \subseteq Entries
  /\ ahead \subseteq Requests \X Requests
  /\ handing \subseteq Handovers
  /\ posted \subseteq Answers
  /\ disabled \in BOOLEAN
  /\ disabling \in {"no", "loop", "stuck"}

Ok(r, c) == [req |-> r, ec |-> "ok", cell |-> c]
Fail(r, e) == [req |-> r, ec |-> e, cell |-> NoCell]

Init ==
  /\ StorageInit
  /\ pending = {}
  /\ holder = [r \in Requests |-> NoCell]
  /\ pushing = {}
  /\ waiting = {}
  /\ ahead = {}
  /\ handing = {}
  /\ posted = {}
  /\ disabled = FALSE
  /\ disabling = "no"

\* A critical section of the pool mutex can be entered.
MutexFree == disabling = "no"

-----------------------------------------------------------------------------
(* get(): the critical section of the pool mutex.                          *)

GetDisabled(r) ==
  /\ disabled
  /\ posted' = posted \cup {Fail(r, "disabled")}
  /\ UNCHANGED <<storageVars, pushing>>

GetCell(r) ==
  /\ ~disabled
  /\ \E c \in Cells : Lease(c) /\ posted' = posted \cup {Ok(r, c)}
  /\ UNCHANGED pushing

\* Mutant: nobody is told that there is nothing and no time to wait.
GetNoWaitSilent(r, w) ==
  /\ ~disabled
  /\ NothingToLease
  /\ w = 0
  /\ UNCHANGED <<storageVars, pushing, posted>>

GetNoWait(r, w) ==
  /\ ~disabled
  /\ NothingToLease
  /\ w = 0
  /\ posted' = posted \cup {Fail(r, "timeout")}
  /\ UNCHANGED <<storageVars, pushing>>

GetWait(r, w) ==
  /\ ~disabled
  /\ NothingToLease
  /\ w # 0
  /\ pushing' = pushing \cup {[req |-> r, wait |-> w]}
  /\ UNCHANGED <<storageVars, posted>>

\* Mutant: _disabled is looked at before the mutex is taken.
GetUnguarded(r, w) ==
  /\ r \notin pending
  /\ holder[r] = NoCell
  /\ pending' = pending \cup {r}
  /\ \/ GetCell(r)
     \/ /\ NothingToLease
        /\ w # 0
        /\ pushing' = pushing \cup {[req |-> r, wait |-> w]}
        /\ UNCHANGED <<storageVars, posted>>
  /\ UNCHANGED <<holder, waiting, ahead, handing, disabled, disabling>>

Get(r, w) ==
  /\ MutexFree
  /\ r \notin pending
  /\ holder[r] = NoCell
  /\ pending' = pending \cup {r}
  /\ GetDisabled(r) \/ GetCell(r) \/ GetNoWait(r, w) \/ GetWait(r, w)
  /\ UNCHANGED <<holder, waiting, ahead, handing, disabled, disabling>>

(* get(): queue::push under the queue mutex, or the overflow answer.       *)
PushEnqueue(p) ==
  /\ Cardinality(waiting) < QueueCapacity
  /\ waiting' = waiting \cup {[req |-> p.req, expires |-> Add(now, p.wait)]}
  /\ ahead' = ahead \cup {<<e.req, p.req>> : e \in waiting}
  /\ UNCHANGED posted

PushOverflow(p) ==
  /\ Cardinality(waiting) >= QueueCapacity
  /\ posted' = posted \cup {Fail(p.req, "overflow")}
  /\ UNCHANGED <<waiting, ahead>>

Push(p) ==
  /\ pushing' = pushing \ {p}
  /\ PushEnqueue(p) \/ PushOverflow(p)
  /\ UNCHANGED <<storageVars, pending, holder, handing, disabled, disabling>>

-----------------------------------------------------------------------------
(* queue::pop and queue::cancel take requests out of the queue.            *)

RemoveFromQueue(gone) ==
  /\ waiting' = waiting \ gone
  /\ ahead' = {p \in ahead : \A e \in gone : e.req \notin {p[1], p[2]}}

IsFront(e) == \A f \in waiting : <<f.req, e.req>> \notin ahead

\* Mutant: the expired requests are answered but stay in the queue.
ExpireKeepsRequest(t) ==
  LET late == {e \in waiting : e.expires <= t} IN
  /\ t <= now
  /\ late # {}
  /\ posted' = posted \cup {Fail(e.req, "timeout") : e \in late}
  /\ UNCHANGED <<storageVars, pending, holder, pushing, waiting, ahead, handing, disabled, disabling>>

\* The queue's timer found that everything that expires by t is over.
Expire(t) ==
  LET late == {e \in waiting : e.expires <= t} IN
  /\ t <= now
  /\ late # {}
  /\ RemoveFromQueue(late)
  /\ posted' = posted \cup {Fail(e.req, "timeout") : e \in late}
  /\ UNCHANGED <<storageVars, pending, holder, pushing, handing, disabled, disabling>>

-----------------------------------------------------------------------------
(* A handle gives its cell back, by recycle or by waste: to the front of   *)
(* the queue if somebody waits, else to the storage.                       *)

HandOver(c, keep) ==
  \E e \in waiting :
    /\ IsFront(e)
    /\ RemoveFromQueue({e})
    /\ handing' = handing \cup {[req |-> e.req, cell |-> c, keep |-> keep]}
    /\ UNCHANGED storageVars

Recycle(c) ==
  \/ /\ waiting = {}
     /\ StorageRecycle(c)
     /\ UNCHANGED <<waiting, ahead, handing>>
  \/ HandOver(c, IsValid(c))

Waste(c) ==
  \/ /\ waiting = {}
     /\ StorageWaste(c)
     /\ UNCHANGED <<waiting, ahead, handing>>
  \/ HandOver(c, FALSE)

\* Mutant: handle::recycle does not clear _resource_it.
ReturnKeepsHandle(r) ==
  /\ MutexFree
  /\ holder[r] # NoCell
  /\ Recycle(holder[r]) \/ Waste(holder[r])
  /\ UNCHANGED <<holder, pending, pushing, posted, disabled, disabling>>

\* handle::recycle, handle::waste, or ~handle with either strategy.
Return(r) ==
  /\ MutexFree
  /\ holder[r] # NoCell
  /\ Recycle(holder[r]) \/ Waste(holder[r])
  /\ holder' = [holder EXCEPT ![r] = NoCell]
  /\ UNCHANGED <<pending, pushing, posted, disabled, disabling>>

\* Mutant: the two handles are swapped.
MoveAssignSwaps(r, q) ==
  /\ MutexFree
  /\ r # q
  /\ holder[r] # NoCell
  /\ holder' = [holder EXCEPT ![r] = holder[q], ![q] = holder[r]]
  /\ UNCHANGED <<storageVars, pending, pushing, waiting, ahead, handing, posted, disabled, disabling>>

\* handle::operator=(handle&&): the overwritten handle gives its cell back and
\* takes what the other one holds, which may be nothing.
MoveAssign(r, q) ==
  /\ MutexFree
  /\ r # q
  /\ holder[r] # NoCell
  /\ Recycle(holder[r]) \/ Waste(holder[r])
  /\ holder' = [holder EXCEPT ![r] = holder[q], ![q] = NoCell]
  /\ UNCHANGED <<pending, pushing, posted, disabled, disabling>>

\* The end of recycle()/waste(), outside the mutex: reset the value unless it
\* was found valid, and post the waiter's handler.
Serve(h) ==
  /\ handing' = handing \ {h}
  /\ value' = [value EXCEPT ![h.cell] = @ /\ h.keep]
  /\ posted' = posted \cup {Ok(h.req, h.cell)}
  /\ UNCHANGED <<lists, drop_time, reset_time, waste_on_recycle, now, stale>>
  /\ UNCHANGED <<pending, holder, pushing, waiting, ahead, disabled, disabling>>

-----------------------------------------------------------------------------
\* An executor runs a posted handler: on_get_handler wraps the cell in a handle.
Deliver(a) ==
  /\ posted' = posted \ {a}
  /\ pending' = pending \ {a.req}
  /\ holder' = [holder EXCEPT ![a.req] = a.cell]
  /\ UNCHANGED <<storageVars, pushing, waiting, ahead, handing, disabled, disabling>>

Reset(r) ==
  /\ holder[r] # NoCell
  /\ CellReset(holder[r])
  /\ UNCHANGED poolImplVars

-----------------------------------------------------------------------------
(* disable(), which ~pool() calls: the mutex is held from the first line   *)
(* to the last, while requests whose get() has released it go on to push.  *)

DisableBegin ==
  /\ MutexFree
  /\ disabled' = TRUE
  /\ disabling' = "loop"
  /\ UNCHANGED <<storageVars, pending, holder, pushing, waiting, ahead, handing, posted>>

\* asio::dispatch queues the handler, or runs it at once when disable() is
\* called on the request's executor.  To run it at once makes a difference only
\* if it comes back to the pool: see DisableReenters.
DisableNext(e) ==
  /\ disabling = "loop"
  /\ IsFront(e)
  /\ RemoveFromQueue({e})
  /\ posted' = posted \cup {Fail(e.req, "disabled")}
  /\ UNCHANGED <<storageVars, pending, holder, pushing, handing, disabled, disabling>>

\* The handler runs inside disable() and gives a handle back, or calls the pool
\* in another way: the thread waits for the mutex it holds.
DisableReenters(e) ==
  /\ disabling = "loop"
  /\ IsFront(e)
  /\ RemoveFromQueue({e})
  /\ pending' = pending \ {e.req}
  /\ disabling' = "stuck"
  /\ UNCHANGED <<storageVars, holder, pushing, handing, posted, disabled>>

DisableEnd ==
  /\ disabling = "loop"
  /\ waiting = {}
  /\ disabling' = "no"
  /\ UNCHANGED <<storageVars, pending, holder, pushing, waiting, ahead, handing, posted, disabled>>

Disabling == DisableEnd \/ \E e \in waiting : DisableNext(e) \/ DisableReenters(e)

Invalidate ==
  /\ MutexFree
  /\ StorageInvalidate
  /\ UNCHANGED poolImplVars

\* Time passes, up to TimeMax, where every saturated deadline is reached.
Tick ==
  /\ now < TimeMax
  /\ now' = now + 1
  /\ UNCHANGED <<lists, fields, stale, poolImplVars>>

Next ==
  \/ \E r \in Requests, w \in WaitDurations : Get(r, w)
  \/ \E p \in pushing : Push(p)
  \/ \E t \in Time : Expire(t)
  \/ \E r \in Requests : Return(r)
  \/ \E r, q \in Requests : MoveAssign(r, q)
  \/ \E h \in handing : Serve(h)
  \/ \E a \in posted : Deliver(a)
  \/ \E r \in Requests : Reset(r)
  \/ DisableBegin
  \/ Disabling
  \/ Invalidate
  \/ Tick

Spec == Init /\ [][Next]_vars

\* The threads that run get(), recycle() and waste() go on, the executors run
\* what is posted to them, and the timer of a non-empty queue fires.  Nothing
\* obliges a user to return a handle, or to call anything.
Fairness ==
  /\ \A r \in Requests :
       /\ WF_vars(\E p \in pushing : p.req = r /\ Push(p))
       /\ WF_vars(\E h \in handing : h.req = r /\ Serve(h))
       /\ WF_vars(\E a \in posted : a.req = r /\ Deliver(a))
  /\ WF_vars(\E t \in Time : Expire(t))
  /\ WF_vars(Disabling)
  /\ WF_vars(Tick)

FairSpec == Spec /\ Fairness

-----------------------------------------------------------------------------
\* Where the handler of each unanswered request is: <<place, request, entry>>.
Tickets ==
  {<<"pushing", p.req, p>> : p \in pushing}
    \cup {<<"waiting", e.req, e>> : e \in waiting}
    \cup {<<"handing", h.req, h>> : h \in handing}
    \cup {<<"posted", a.req, a>> : a \in posted}

\* Who has a cell out of the storage: <<place, cell, entry>>.
Claims ==
  {<<"handing", h.cell, h>> : h \in handing}
    \cup {<<"posted", a.cell, a>> : a \in {b \in posted : b.ec = "ok"}}
    \cup {<<"holder", holder[r], r>> : r \in {q \in Requests : holder[q] # NoCell}}

(* Every request whose handler has not run is in exactly one place, once:  *)
(* push, pop, the queue's timer, disable() and the posts neither drop a    *)
(* handler nor answer a request twice.                                     *)
AnsweredOnce ==
  /\ \A t, u \in Tickets : t[2] = u[2] => t = u
  /\ {t[2] : t \in Tickets} = pending

(* A cell in used_ belongs to exactly one handle, posted answer or         *)
(* hand-over, and each of those refers to a cell in used_: no two users    *)
(* share a resource and no cell is lost from the pool, although handles    *)
(* are passed to waiters without going through the storage.                *)
CellOwnedOnce ==
  /\ \A x, y \in Claims : x[2] = y[2] => x = y
  /\ {x[2] : x \in Claims} = used

(* A value leaves the pool towards a user, by lease() or by hand-over to a *)
(* waiter, only if it is younger than the last invalidate() and its        *)
(* lifespan is not over.                                                   *)
Current(c) == value[c] => c \notin stale /\ now < LifeEnd(c)

HandsOutCurrentValues ==
  [][/\ \A c \in used' \ used : Current(c)'
     /\ \A h \in handing' \ handing : h.keep => Current(h.cell)]_vars

Pool == INSTANCE ResourcePool

(* The pool implements the abstract resource pool: one answer per request, *)
(* one user per cell.                                                      *)
ImplementsResourcePool == Pool!PoolSpec

Queue == INSTANCE WaitQueue WITH Capacity <- QueueCapacity

(* The pool uses its queue as WaitQueue promises it, which is what         *)
(* RequestQueue implements: a request is pushed only while none of the     *)
(* same handler waits and there is room, a returned cell and disable()     *)
(* take the oldest request, and only requests that are late are expired.   *)
UsesWaitQueue == Queue!QueueSpec

(* Every request that get() has taken is answered in the end, also when    *)
(* its push loses the race against a returning handle or against           *)
(* disable(), and also in a pool whose mutex is never released again.      *)
RequestsAnswered == \A r \in Requests : r \in pending ~> r \notin pending

(* The loop of disable() comes to its end although requests that passed    *)
(* get() before it keep arriving in the queue that it empties, and the     *)
(* mutex is released, unless a handler that the loop ran itself came back  *)
(* to the pool.                                                            *)
DisableEnds == disabling = "loop" ~> disabling # "loop"
=============================================================================
