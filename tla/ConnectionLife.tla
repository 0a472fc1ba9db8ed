--------------------------- MODULE ConnectionLife ---------------------------
(***************************************************************************)
(* A connection from the connect to its end: the connects of AsyncConnect, *)
(* side by side, and then the users of impl/connection.h and               *)
(* impl/connection_pool.h.  A user has the connection object itself, or,   *)
(* from a pool, a pooled_connection, which takes the native handle over    *)
(* and has a stream of its own; the pool keeps the handle without one.     *)
(***************************************************************************)
EXTENDS AsyncConnect

VARIABLE life  \* whose the connection is

Lives == {"plain",    \* the user's who asked connection_info for it
          "pooling",  \* a pool's that asked for it, not yet wrapped
          "pooled",   \* in a pooled_connection
          "parked",   \* in the pool
          "gone"}

lifeVars == <<vars, life>>

LifeTypeOK == TypeOK /\ life \in [Ops -> Lives]

LifeInit == Init /\ life \in [Ops -> {"plain", "pooling"}]

-----------------------------------------------------------------------------
\* The user has the connection, and an operation of theirs that waits, or whose
\* handler is not yet run, keeps the object alive.
InUse(o) == calls[o] > 0 /\ life[o] \in {"plain", "pooled"}
Waiting(o) ==
  \/ [op |-> "user", id |-> o] \in waits
  \/ \E e \in ready : e.op = "user" /\ e.id = o

\* What the actions of a user leave alone.
Elsewhere == UNCHANGED <<deadlineVars, pc, address, polls>>

\* Mutant: the old stream is released after the new one was made.
WrapThenRelease(o) ==
  /\ calls[o] > 0 /\ life[o] = "pooling"
  /\ life' = [life EXCEPT ![o] = "pooled"]
  /\ AbortWaits(o, ready)
  /\ Release(o, fd[o], Without(With(watch, fd[o], o), socket_[o]))
  /\ UNCHANGED <<fd, conn>> /\ Elsewhere

\* wrapper::operator() of the pool, called with the connection: target.release(),
\* and a pooled_connection over the handle.
Wrap(o) ==
  /\ calls[o] > 0 /\ life[o] = "pooling"
  /\ life' = [life EXCEPT ![o] = "pooled"]
  /\ AbortWaits(o, ready)
  /\ Restream(o)
  /\ UNCHANGED conn /\ Elsewhere

\* async_wait_read, async_wait_write; on a stream without a descriptor the wait
\* fails at once.
AsyncWait(o) ==
  /\ InUse(o) /\ ~Waiting(o)
  /\ \/ socket_[o] # NoFd /\ waits' = waits \cup {[op |-> "user", id |-> o]} /\ UNCHANGED ready
     \/ socket_[o] = NoFd /\ ready' = ready \cup {Entry("user", o, "bad_descriptor")} /\ UNCHANGED waits
  /\ UNCHANGED <<descriptorVars, conn, life>> /\ Elsewhere

\* cancel().
CancelWaits(o) ==
  /\ InUse(o)
  /\ AbortWaits(o, ready)
  /\ UNCHANGED <<descriptorVars, conn, life>> /\ Elsewhere

\* A call of libpq finds that the server is gone.
Breaks(o) ==
  /\ InUse(o) /\ conn[o].status = "ok"
  /\ conn' = [conn EXCEPT ![o].status = "bad"]
  /\ SocketChanges(o, NoFd)
  /\ UNCHANGED <<waits, ready, life>> /\ Elsewhere

\* Mutant: close() of the native handle alone, and the stream is left.
CloseNative(o) ==
  /\ InUse(o)
  /\ conn' = [conn EXCEPT ![o] = NoHandle]
  /\ fd' = [fd EXCEPT ![o] = NoFd]
  /\ watch' = Without(watch, fd[o])
  /\ UNCHANGED <<socket_, lost, deaf, waits, ready, life>> /\ Elsewhere

\* close(), with operations still waiting or not.
Close(o) ==
  /\ InUse(o)
  /\ conn' = [conn EXCEPT ![o] = NoHandle]
  /\ AbortWaits(o, ready)
  /\ CloseHandle(o)
  /\ UNCHANGED life /\ Elsewhere

\* ~connection, ~pooled_connection: the stream lets go, and the handle goes back
\* to the pool unless it is of no more use.
Parks(o) == life[o] = "pooled" /\ conn[o].status = "ok" /\ conn[o].txn = "idle"

Drop(o) ==
  /\ InUse(o) /\ ~Waiting(o)
  /\ AbortWaits(o, ready)
  /\ \/ /\ Parks(o)
        /\ life' = [life EXCEPT ![o] = "parked"]
        /\ Release(o, NoFd, Without(watch, socket_[o]))
        /\ UNCHANGED <<fd, conn>>
     \/ /\ ~Parks(o)
        /\ life' = [life EXCEPT ![o] = "gone"]
        /\ conn' = [conn EXCEPT ![o] = NoHandle]
        /\ CloseHandle(o)
  /\ Elsewhere

\* The pool gives the connection to the next user, or drops it for its age.
Reuse(o) ==
  /\ life[o] = "parked"
  /\ life' = [life EXCEPT ![o] = "pooled"]
  /\ Restream(o)
  /\ UNCHANGED <<waits, ready, conn>> /\ Elsewhere

Evict(o) ==
  /\ life[o] = "parked"
  /\ life' = [life EXCEPT ![o] = "gone"]
  /\ conn' = [conn EXCEPT ![o] = NoHandle]
  /\ CloseHandle(o)
  /\ UNCHANGED <<waits, ready>> /\ Elsewhere

\* The handler of a user's wait runs.
RunUser(e) ==
  /\ e \in ready /\ e.op = "user"
  /\ ready' = ready \ {e}
  /\ UNCHANGED <<waits, descriptorVars, conn, life>> /\ Elsewhere

LifeNext ==
  \/ Next /\ UNCHANGED life
  \/ \E o \in Ops : \/ Wrap(o) \/ AsyncWait(o) \/ CancelWaits(o) \/ Breaks(o)
                    \/ Close(o) \/ Drop(o) \/ Reuse(o) \/ Evict(o)
  \/ \E e \in Handlers : RunUser(e)

LifeSpec == LifeInit /\ [][LifeNext]_lifeVars
LifeFairSpec == LifeSpec /\ Fairness
=============================================================================
