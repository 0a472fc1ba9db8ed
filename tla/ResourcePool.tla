----------------------------- MODULE ResourcePool -----------------------------
(***************************************************************************)
(* What a resource pool promises its users, whatever it is made of: a      *)
(* request that was made is answered once, with a cell or with an error,   *)
(* and a cell is in the hands of at most one user at a time.  AsyncPool    *)
(* and SyncPool implement this specification.                              *)
(***************************************************************************)
CONSTANTS Cells, Requests, NoCell

VARIABLES pending,   \* requests that wait for their answer
          holder     \* the cell each request's handle holds, or NoCell

poolVars == <<pending, holder>>

PoolInit ==
  /\ pending = {}
  /\ holder = [r \in Requests |-> NoCell]

Held == {holder[r] : r \in Requests} \ {NoCell}

Call(r) ==
  /\ r \notin pending
  /\ holder[r] = NoCell
  /\ pending' = pending \cup {r}
  /\ UNCHANGED holder

Grant(r, c) ==
  /\ r \in pending
  /\ c \notin Held
  /\ pending' = pending \ {r}
  /\ holder' = [holder EXCEPT ![r] = c]

Refuse(r) ==
  /\ r \in pending
  /\ pending' = pending \ {r}
  /\ UNCHANGED holder

GiveUp(r) ==
  /\ holder[r] # NoCell
  /\ holder' = [holder EXCEPT ![r] = NoCell]
  /\ UNCHANGED pending

\* A handle is overwritten by another one: its own cell goes back.
Replace(r, q) ==
  /\ r # q
  /\ holder[r] # NoCell
  /\ holder' = [holder EXCEPT ![r] = holder[q], ![q] = NoCell]
  /\ UNCHANGED pending

PoolNext ==
  \E r \in Requests :
    \/ Call(r)
    \/ \E c \in Cells : Grant(r, c)
    \/ Refuse(r)
    \/ GiveUp(r)
    \/ \E q \in Requests : Replace(r, q)

PoolSpec == PoolInit /\ [][PoolNext]_poolVars

=============================================================================
