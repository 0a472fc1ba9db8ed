------------------------------ MODULE WaitQueue ------------------------------
(***************************************************************************)
(* What the asynchronous pool relies on in its request queue: requests are *)
(* taken in the order in which they were pushed, and those that expire by  *)
(* some time that has come leave together.  RequestQueue implements this;  *)
(* AsyncPool has these steps as parts of its own.                          *)
(***************************************************************************)
EXTENDS Naturals, FiniteSets

CONSTANTS Requests, Capacity

VARIABLES waiting,  \* the queued requests and when they expire
          ahead,    \* <<q, r>> when q was pushed before r
          now

queueVars == <<waiting, ahead, now>>

QueueInit == waiting = {} /\ ahead = {} /\ now = 0

Leave(gone) ==
  /\ waiting' = waiting \ gone
  /\ ahead' = {p \in ahead : \A e \in gone : e.req \notin {p[1], p[2]}}

Join(r, t) ==
  /\ Cardinality(waiting) < Capacity
  /\ \A e \in waiting : e.req # r
  /\ now <= t
  /\ waiting' = waiting \cup {[req |-> r, expires |-> t]}
  /\ ahead' = ahead \cup {<<e.req, r>> : e \in waiting}

TakeFront(e) ==
  /\ \A f \in waiting : <<f.req, e.req>> \notin ahead
  /\ Leave({e})

Expire(t) ==
  /\ t <= now
  /\ Leave({e \in waiting : e.expires <= t})

QueueNext ==
  \/ now' > now /\ UNCHANGED <<waiting, ahead>>
  \/ /\ UNCHANGED now
     /\ \/ \E r \in Requests : \E e \in waiting' : e.req = r /\ Join(r, e.expires)
        \/ \E e \in waiting : TakeFront(e) \/ Expire(e.expires)

QueueSpec == QueueInit /\ [][QueueNext]_queueVars
=============================================================================
