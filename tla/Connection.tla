----------------------------- MODULE Connection -----------------------------
(***************************************************************************)
(* connection.h, impl/connection.h and pg/handle.h of ozo: a connection    *)
(* object holds the native handle of libpq, which opens and closes the     *)
(* socket, and a stream of boost::asio over the same descriptor, which     *)
(* only waits for it.  Neither knows of the other.                         *)
(*                                                                         *)
(* The kernel gives the lowest number that is free to a new socket, so a   *)
(* number comes back as soon as it was closed.  The reactor (epoll) knows  *)
(* a descriptor by its number: closing the socket takes it off the         *)
(* reactor's list, and so does release() of a stream that has the number,  *)
(* whoever opened it meanwhile.  Both are external.                        *)
(***************************************************************************)
EXTENDS Integers

CONSTANTS Conns,  \* connection objects
          Fds     \* numbers of descriptors

ASSUME ConnectionAssumption == Fds \subseteq Nat \ {0}

NoFd == 0

VARIABLES fd,       \* PQsocket(handle_), NoFd without a handle or a socket
          socket_,  \* the descriptor socket_ was given, NoFd without one
          watch,    \* the reactor's list: <<number, whose stream hears of it>>
          waits,    \* waits in the reactor
          ready,    \* completion handlers ready to run
          lost,     \* libpq has closed the descriptor that the stream holds
          deaf      \* streams taken off the list by the release of another

streamVars == <<fd, socket_, watch, waits, ready, lost, deaf>>

Waits == [op : {"connect", "user"}, id : Conns]

\* Handlers run in any order: every operation has a strand of its own.
Handlers == [op : {"connect", "user", "timer"}, id : Conns, ec : {"ok", "aborted", "bad_descriptor"}]

StreamTypeOK ==
  /\ fd \in [Conns -> Fds \cup {NoFd}]
  /\ socket_ \in [Conns -> Fds \cup {NoFd}]
  /\ watch \subseteq Fds \X Conns
  /\ waits \subseteq Waits
  /\ ready \subseteq Handlers
  /\ lost \in [Conns -> BOOLEAN]
  /\ deaf \subseteq Conns

\* connection::connection: the stream is there, without a descriptor.
StreamInit ==
  /\ fd = [o \in Conns |-> NoFd]
  /\ socket_ = [o \in Conns |-> NoFd]
  /\ watch = {}
  /\ waits = {}
  /\ ready = {}
  /\ lost = [o \in Conns |-> FALSE]
  /\ deaf = {}

-----------------------------------------------------------------------------
Entry(op, o, ec) == [op |-> op, id |-> o, ec |-> ec]

WaitsOf(o) == {w \in waits : w.id = o}

\* socket() of the kernel, when libpq has closed the descriptors in `closed`.
Opened(f, closed) ==
  LET free == closed \cup (Fds \ {fd[o] : o \in Conns}) IN
  f \in free /\ \A g \in free : f <= g

\* The reactor's list without number f, and with f for the stream of o.
Without(list, f) == {r \in list : r[1] # f}
With(list, f, o) == Without(list, f) \cup (IF f = NoFd THEN {} ELSE {<<f, o>>})

\* cancel(), and the first half of release(): the waits of o are aborted.
AbortWaits(o, q) ==
  /\ waits' = waits \ WaitsOf(o)
  /\ ready' = q \cup {Entry(w.op, o, "aborted") : w \in WaitsOf(o)}

\* release(): the stream of o gives up its number; the rest of the handler
\* leaves it with descriptor f, and the reactor with `list`.
Release(o, f, list) ==
  /\ socket_' = [socket_ EXCEPT ![o] = f]
  /\ watch' = list
  /\ lost' = [lost EXCEPT ![o] = FALSE]
  /\ deaf' = (deaf \ {o}) \cup {p \in Conns \ {o} : lost[o] /\ <<socket_[o], p>> \in watch}

\* assign(): a stream over the socket of the new handle replaces the old one.
Assign(o, f) ==
  /\ fd' = [fd EXCEPT ![o] = f]
  /\ Release(o, f, Without(With(watch, f, o), socket_[o]))

\* A new stream for the handle, once the old one has let go of it.
Restream(o) ==
  /\ Release(o, fd[o], With(Without(watch, socket_[o]), fd[o], o))
  /\ UNCHANGED fd

\* release().reset(): PQfinish closes the socket after the stream let go of it.
CloseHandle(o) ==
  /\ fd' = [fd EXCEPT ![o] = NoFd]
  /\ Release(o, NoFd, Without(Without(watch, socket_[o]), fd[o]))

\* libpq closes its socket by itself, and has socket f from now on: the next
\* address of the host, or none when it has found the connection broken.  The
\* stream is not told.
SocketChanges(o, f) ==
  /\ fd' = [fd EXCEPT ![o] = f]
  /\ watch' = Without(watch, fd[o])
  /\ lost' = [lost EXCEPT ![o] = socket_[o] # NoFd]
  /\ UNCHANGED <<socket_, deaf>>

\* The reactor reports a descriptor on its list.
WaitReady(w) ==
  /\ w \in waits
  /\ <<socket_[w.id], w.id>> \in watch
  /\ waits' = waits \ {w}
  /\ ready' = ready \cup {Entry(w.op, w.id, "ok")}
  /\ UNCHANGED <<fd, socket_, watch, lost, deaf>>

-----------------------------------------------------------------------------
(* A stream holds the descriptor of its own connection, or one that libpq  *)
(* has closed behind its back; none outlives the native handle, and no     *)
(* wait the stream: close(), release() and the destructors let go of the   *)
(* descriptor before PQfinish, and end what waits for it.                  *)
OwnDescriptor ==
  /\ \A o \in Conns : socket_[o] # NoFd => socket_[o] = fd[o] \/ lost[o]
  /\ \A o, p \in Conns : o # p /\ fd[o] # NoFd => fd[o] # fd[p]
  /\ \A w \in waits : socket_[w.id] # NoFd

(* A stream whose socket is still open hears of it, however numbers are    *)
(* used again, unless another stream that libpq had closed the socket of   *)
(* was released with the same number: reconnecting while a broken          *)
(* connection is not yet dropped.                                          *)
DeafForCause ==
  /\ \A o \in Conns : socket_[o] # NoFd /\ ~lost[o] => <<socket_[o], o>> \in watch \/ o \in deaf
  /\ \A r \in watch : socket_[r[2]] = r[1] /\ fd[r[2]] = r[1]
=============================================================================
