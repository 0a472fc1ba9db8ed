---------------------------- MODULE RequestQueue ----------------------------
(***************************************************************************)
(* async/detail/queue.hpp of yamail::resource_pool: the queue of requests  *)
(* that wait for a cell.  Requests are linked in order of arrival and, in  *)
(* a multimap, in order of expiry.  There is a timer for each io_context,  *)
(* but an operation sets only the timer of the request that expires first; *)
(* the others keep the time they were last set to.  A timer that has       *)
(* expired leaves its handler with its io_context, where it runs later and *)
(* may by then be out of date.                                             *)
(***************************************************************************)
EXTENDS Naturals, Sequences

CONSTANTS Requests,
          Contexts,    \* the io_contexts
          ContextOf,   \* the io_context of each request's executor
          Capacity,    \* _capacity
          Waits,       \* the wait_duration arguments of push()
          TimeMax,     \* time_point::max()
          MaxReady,    \* bound: handlers an io_context may be behind with
          Off          \* a timer that waits for nothing

ASSUME RequestQueueAssumption ==
  /\ ContextOf \in [Requests -> Contexts]
  /\ Capacity \in Nat
  /\ Waits \subseteq Nat
  /\ TimeMax \in Nat
  /\ MaxReady \in Nat \ {0}
  /\ Off \notin 0..TimeMax

VARIABLES order,    \* _ordered_requests
          expires,  \* _expires_at_requests, in the order of the multimap
          timers,   \* _timers: what each timer waits for
          ready,    \* the timer handlers each io_context has yet to run
          failed,   \* requests answered with get_resource_timeout
          now

vars == <<order, expires, timers, ready, failed, now>>

Time == 0..TimeMax
Slots == [at : Time, req : Requests]

Elements(s) == {s[i] : i \in DOMAIN s}

(* The types of the list, of the multimap and of the timers.               *)
TypeOK ==
  /\ order \in Seq(Requests)
  /\ expires \in Seq(Slots)
  /\ timers \in [Contexts -> Time \cup {Off}]
  /\ ready \in [Contexts -> Seq(Time)]
  /\ failed \subseteq Requests
  /\ now \in Time

Init ==
  /\ order = <<>>
  /\ expires = <<>>
  /\ timers = [c \in Contexts |-> Off]
  /\ ready = [c \in Contexts |-> <<>>]
  /\ failed = {}
  /\ now = 0

Add(t, d) == IF TimeMax - t < d THEN TimeMax ELSE t + d

\* multimap::upper_bound: how many entries expire by t, all in front of the rest.
UpperBound(m, t) ==
  CHOOSE n \in 0..Len(m) : \A i \in DOMAIN m : (i <= n) <=> (m[i].at <= t)

\* multimap::insert: behind the entries that expire no later.
Insert(m, s) ==
  LET n == UpperBound(m, s.at) IN
  SubSeq(m, 1, n) \o <<s>> \o SubSeq(m, n + 1, Len(m))

\* multimap::erase of the entry that belongs to r.
Erase(m, r) ==
  LET i == CHOOSE j \in DOMAIN m : m[j].req = r IN
  SubSeq(m, 1, i - 1) \o SubSeq(m, i + 1, Len(m))

\* list::splice out of the list s of every element that is in gone.
Without(s, gone) ==
  LET Kept[n \in 0..Len(s)] ==
        IF n = 0 THEN <<>>
        ELSE IF s[n] \in gone THEN Kept[n - 1] ELSE Append(Kept[n - 1], s[n])
  IN  Kept[Len(s)]

\* Mutant: the timer is set for the request that expires last.
UpdateTimerLast(m) ==
  timers' = IF m = <<>> THEN [c \in Contexts |-> Off]
            ELSE [timers EXCEPT ![ContextOf[m[Len(m)].req]] = m[Len(m)].at]

\* update_timer(): expires_at() drops what the timer waited for until now.
\* Clearing _timers drops the timers, not the handlers already on their way.
UpdateTimer(m) ==
  timers' = IF m = <<>> THEN [c \in Contexts |-> Off]
            ELSE [timers EXCEPT ![ContextOf[Head(m).req]] = Head(m).at]

Push(r, w) ==
  /\ \A i \in DOMAIN order : order[i] # r
  /\ r \notin failed
  /\ Len(expires) < Capacity
  /\ order' = Append(order, r)
  /\ expires' = Insert(expires, [at |-> Add(now, w), req |-> r])
  /\ UpdateTimer(expires')
  /\ UNCHANGED <<ready, failed, now>>

\* Mutant: pop() takes the request that came last.
PopNewest ==
  /\ order # <<>>
  /\ order' = SubSeq(order, 1, Len(order) - 1)
  /\ expires' = Erase(expires, order[Len(order)])
  /\ UpdateTimer(expires')
  /\ UNCHANGED <<ready, failed, now>>

Pop ==
  /\ order # <<>>
  /\ order' = Tail(order)
  /\ expires' = Erase(expires, Head(order))
  /\ UpdateTimer(expires')
  /\ UNCHANGED <<ready, failed, now>>

\* The requests in front of upper_bound(expires_at) in the multimap.
Late(n) == {expires[i].req : i \in 1..n}

\* Mutant: the timer is not set for those that are left.
CancelOnce(c) ==
  LET n == UpperBound(expires, Head(ready[c])) IN
  /\ ready[c] # <<>>
  /\ ready' = [ready EXCEPT ![c] = Tail(@)]
  /\ failed' = failed \cup Late(n)
  /\ order' = Without(order, Late(n))
  /\ expires' = SubSeq(expires, n + 1, Len(expires))
  /\ UNCHANGED <<timers, now>>

\* cancel(), run by io_context c for the time its timer was set to.
Cancel(c) ==
  LET n == UpperBound(expires, Head(ready[c])) IN
  /\ ready[c] # <<>>
  /\ ready' = [ready EXCEPT ![c] = Tail(@)]
  /\ failed' = failed \cup Late(n)
  /\ order' = Without(order, Late(n))
  /\ expires' = SubSeq(expires, n + 1, Len(expires))
  /\ UpdateTimer(expires')
  /\ UNCHANGED now

TimerExpires(c) ==
  /\ timers[c] # Off
  /\ timers[c] <= now
  /\ Len(ready[c]) < MaxReady
  /\ ready' = [ready EXCEPT ![c] = Append(@, timers[c])]
  /\ timers' = [timers EXCEPT ![c] = Off]
  /\ UNCHANGED <<order, expires, failed, now>>

\* A request that was told so may be made again.
Retry(r) ==
  /\ r \in failed
  /\ failed' = failed \ {r}
  /\ UNCHANGED <<order, expires, timers, ready, now>>

Tick ==
  /\ now < TimeMax
  /\ now' = now + 1
  /\ UNCHANGED <<order, expires, timers, ready, failed>>

Next ==
  \/ \E r \in Requests : Retry(r) \/ \E w \in Waits : Push(r, w)
  \/ Pop
  \/ \E c \in Contexts : TimerExpires(c) \/ Cancel(c)
  \/ Tick

Spec == Init /\ [][Next]_vars

\* Every io_context runs, and its timers expire.
FairSpec ==
  Spec /\ WF_vars(Tick) /\ \A c \in Contexts : WF_vars(TimerExpires(c)) /\ WF_vars(Cancel(c))

-----------------------------------------------------------------------------
Queued(r) == \E i \in DOMAIN order : order[i] = r

(* The list and the multimap hold the same requests, once each: neither    *)
(* pop() nor cancel() leaves a dangling iterator in the other structure.   *)
SameRequests ==
  /\ Elements(order) = {s.req : s \in Elements(expires)}
  /\ \A i, j \in DOMAIN order : order[i] = order[j] => i = j
  /\ \A i, j \in DOMAIN expires : expires[i].req = expires[j].req => i = j

(* The request that expires first is timed: no other expires before it,    *)
(* and its io_context's timer waits for its expiry, or the handler for     *)
(* that expiry is on its way.                                              *)
EarliestIsTimed ==
  expires # <<>> =>
    LET first == Head(expires)
        c == ContextOf[first.req]
    IN  /\ \A s \in Elements(expires) : first.at <= s.at
        /\ timers[c] = first.at \/ first.at \in Elements(ready[c])

\* The pairs of elements of s of which the first is in front of the second.
Before(s) == {<<s[p[1]], s[p[2]]>> : p \in {q \in (DOMAIN s) \X (DOMAIN s) : q[1] < q[2]}}

\* The entries of the multimap m, as the set in which WaitQueue has them.
Waiting(m) == {[req |-> s.req, expires |-> s.at] : s \in Elements(m)}

Queue == INSTANCE WaitQueue WITH
  waiting <- Waiting(expires),
  ahead <- Before(order)

(* The queue does what the pool's model assumes of it: first come, first   *)
(* served, and everything that has expired by then leaves with a timer.    *)
ImplementsWaitQueue == Queue!QueueSpec

(* Nobody waits for ever: a request is taken or told that its time is over *)
(* also when the timers of other io_contexts were set and cleared.         *)
WaitEnds == \A r \in Requests : Queued(r) ~> ~Queued(r)
=============================================================================
