---------------------------- MODULE AsyncConnect ----------------------------
(***************************************************************************)
(* impl/async_connect.h and impl/request_oid_map.h of ozo: a connection is *)
(* opened by polling libpq, then the oids of the user's types are asked    *)
(* for in a request without a time constraint of its own.  One deadline    *)
(* (IoDeadline) covers both; its timer cancels what the stream waits for.  *)
(*                                                                         *)
(* libpq is external.  It may go on to the next address of the host, and   *)
(* then it has a new socket; the stream (Connection) is not told.  The     *)
(* request for the oids is AsyncRequest, here reduced to its waits and its *)
(* outcomes.                                                               *)
(***************************************************************************)
EXTENDS IoDeadline, Connection, ConnectOutcome

CONSTANTS Types,      \* how many types the oid map has
          Typeless,   \* connects of a source with an empty oid map
          Addresses,  \* addresses of the host
          MaxWaits    \* bound: waits of one connect

ASSUME ConnectAssumption ==
  /\ Conns = Ops
  /\ Types \in Nat \ {0}
  /\ Typeless \subseteq Ops
  /\ Addresses \in Nat \ {0}
  /\ MaxWaits \in Nat

VARIABLES pc,       \* "new", "connect", "oids", "end"
          conn,     \* the connection
          address,  \* libpq: the address it is at, 0 before the first
          polls     \* waits so far

connectVars == <<pc, conn, address, polls>>
vars == <<deadlineVars, streamVars, connectVars>>

\* What the stream and libpq are about, without the handlers in the reactor.
descriptorVars == <<fd, socket_, watch, lost, deaf>>

Codes == {"ok", "aborted", "timed_out", "start_failed", "status_bad", "socket_failed",
          "poll_failed", "request_failed", "oid_request_failed"}

TypeOK ==
  /\ DeadlineTypeOK(Codes)
  /\ StreamTypeOK
  /\ pc \in [Ops -> {"new", "connect", "oids", "end"}]
  /\ conn \in [Ops -> ConnStates]
  /\ address \in [Ops -> 0..Addresses]
  /\ polls \in [Ops -> 0..MaxWaits]

Init ==
  /\ DeadlineInit
  /\ StreamInit
  /\ pc = [o \in Ops |-> "new"]
  /\ conn = [o \in Ops |-> NoHandle]
  /\ address = [o \in Ops |-> 0]
  /\ polls = [o \in Ops |-> 0]

-----------------------------------------------------------------------------
\* done(ec): q is what is ready to run besides the handler of the timer, which
\* is cancelled when the operation comes first.
Done(o, ec, q) ==
  /\ pc' = [pc EXCEPT ![o] = "end"]
  /\ OperationDone(o, ec)
  /\ ready' = IF timer[o] = "armed" THEN q \cup {Entry("timer", o, "ok")} ELSE q
  /\ UNCHANGED <<waits, polls>>

\* async_wait_read or async_wait_write.
Await(o, where, q) ==
  /\ polls[o] < MaxWaits
  /\ polls' = [polls EXCEPT ![o] = @ + 1]
  /\ pc' = [pc EXCEPT ![o] = where]
  /\ waits' = waits \cup {[op |-> "connect", id |-> o]}
  /\ ready' = q
  /\ UNCHANGED deadlineVars

\* async_connect and async_connect_op::perform.  DeadlineStart is a step of its
\* own: perform() may already finish the operation.
Begin(o) ==
  /\ pc[o] = "new" /\ first_call[o] = 0 /\ timer[o] = "off"
  /\ o \in Timed
  /\ DeadlineStart(o)
  /\ UNCHANGED <<streamVars, connectVars>>

Perform(o) ==
  /\ pc[o] = "new"
  /\ o \in Timed => first_call[o] > 0
  /\ \/ \E ec \in {"start_failed", "status_bad", "socket_failed"} : Done(o, ec, ready)
        /\ UNCHANGED <<conn, address, descriptorVars>>
     \/ /\ conn' = [conn EXCEPT ![o].status = "connecting"]
        /\ address' = [address EXCEPT ![o] = 1]
        /\ \E f \in Fds : Opened(f, {}) /\ Assign(o, f)
        /\ Await(o, "connect", ready)

-----------------------------------------------------------------------------
\* Mutant: set_oid_map goes on after a null oid, and reports nothing.
SetOidMapAnyway(known) == [oids |-> IF \A i \in 1..Types : known[i] THEN "loaded" ELSE "partial", ec |-> "ok"]

\* set_oid_map, for types of which `known` are known to the database: those in
\* front of the first unknown one are set, then it throws.
SetOidMap(known) ==
  IF \A i \in 1..Types : known[i] THEN [oids |-> "loaded", ec |-> "ok"]
  ELSE [oids |-> IF known[1] THEN "partial" ELSE "unset", ec |-> "oid_request_failed"]

\* request_oid_map_op::perform: the query is sent and the reply waited for, or
\* the request fails at once.
RequestOids(o, q) ==
  \/ conn' = [conn EXCEPT ![o] = [status |-> "ok", txn |-> "active", oids |-> "unset"]]
     /\ Await(o, "oids", q)
  \/ conn' = [conn EXCEPT ![o] = [status |-> "ok", txn |-> "idle", oids |-> "unset"]]
     /\ Done(o, "request_failed", q)

\* PGRES_POLLING_OK; request_oid_map_handler unless the oid map is empty.
Established(o, q) ==
  \/ o \notin Typeless /\ RequestOids(o, q)
  \/ /\ o \in Typeless
     /\ conn' = [conn EXCEPT ![o] = ConnectSuccess]
     /\ Done(o, "ok", q)

\* Mutant: nothing is waited for when libpq wants to read.
OnPollNoWait(o, ec, q) ==
  \/ ec # "ok" /\ Done(o, ec, q) /\ UNCHANGED <<conn, address, descriptorVars>>
  \/ ec = "ok" /\ ready' = q /\ UNCHANGED <<deadlineVars, connectVars, waits, descriptorVars>>

\* async_connect_op::operator().
OnPoll(o, ec, q) ==
  \/ ec # "ok" /\ Done(o, ec, q) /\ UNCHANGED <<conn, address, descriptorVars>>
  \/ ec = "ok" /\ Established(o, q) /\ UNCHANGED <<address, descriptorVars>>
  \/ ec = "ok" /\ Await(o, "connect", q) /\ UNCHANGED <<conn, address, descriptorVars>>
  \/ /\ ec = "ok" /\ address[o] < Addresses
     /\ address' = [address EXCEPT ![o] = @ + 1]
     /\ \E f \in Fds : Opened(f, {fd[o]}) /\ SocketChanges(o, f)
     /\ Await(o, "connect", q)
     /\ UNCHANGED conn
  \/ /\ ec = "ok" /\ address[o] = Addresses
     /\ conn' = [conn EXCEPT ![o].status = "bad"]
     /\ Done(o, "poll_failed", q)
     /\ SocketChanges(o, NoFd) \/ UNCHANGED descriptorVars
     /\ UNCHANGED address

\* The wait of the request for the oids is over: the request goes on, fails, or
\* has the reply, and request_oid_map_op::operator() runs.
OnOids(o, ec, q) ==
  /\ \/ ec # "ok" /\ Done(o, ec, q) /\ UNCHANGED <<conn, descriptorVars>>
     \/ ec = "ok" /\ Await(o, "oids", q) /\ UNCHANGED <<conn, descriptorVars>>
     \/ /\ ec = "ok"
        /\ conn' = [conn EXCEPT ![o] = [status |-> "bad", txn |-> "idle", oids |-> "unset"]]
        /\ SocketChanges(o, NoFd)
        /\ Done(o, "request_failed", q)
     \/ /\ ec = "ok"
        /\ conn' = [conn EXCEPT ![o].txn = "idle"]
        /\ Done(o, "request_failed", q)
        /\ UNCHANGED descriptorVars
     \/ /\ ec = "ok"
        /\ \E known \in [1..Types -> BOOLEAN] :
             /\ conn' = [conn EXCEPT ![o] = [status |-> "ok", txn |-> "idle", oids |-> SetOidMap(known).oids]]
             /\ Done(o, SetOidMap(known).ec, q)
        /\ UNCHANGED descriptorVars
  /\ UNCHANGED address

-----------------------------------------------------------------------------
\* timer_handler of the deadline; connection::cancel() aborts the wait.
OnTimer(o, q) ==
  /\ \/ TimerFirst(o) /\ AbortWaits(o, q)
     \/ TimerSecond(o) /\ ready' = q /\ UNCHANGED waits
  /\ UNCHANGED <<connectVars, descriptorVars>>

\* A handler runs, once perform() has returned to who called async_connect.
RunHandler(e) ==
  /\ e \in ready
  /\ pc[e.id] # "new"
  /\ \/ e.op = "connect" /\ pc[e.id] = "connect" /\ OnPoll(e.id, e.ec, ready \ {e})
     \/ e.op = "connect" /\ pc[e.id] = "oids" /\ OnOids(e.id, e.ec, ready \ {e})
     \/ e.op = "timer" /\ OnTimer(e.id, ready \ {e})

Ready(w) == WaitReady(w) /\ UNCHANGED <<deadlineVars, connectVars>>

TimerExpires(o) ==
  /\ timer[o] = "armed"
  /\ timer' = [timer EXCEPT ![o] = "queued"]
  /\ ready' = ready \cup {Entry("timer", o, "ok")}
  /\ UNCHANGED <<first_call, saved, calls, answer, connectVars, waits, descriptorVars>>

Next ==
  \/ \E o \in Ops : Begin(o) \/ Perform(o) \/ TimerExpires(o)
  \/ \E w \in Waits : Ready(w)
  \/ \E e \in Handlers : RunHandler(e)

Spec == Init /\ [][Next]_vars

\* The io_context runs, and the server, which Ready stands for, answers.
Fairness ==
  /\ \A e \in Handlers : WF_vars(RunHandler(e))
  /\ \A o \in Ops : WF_vars(Begin(o)) /\ WF_vars(Perform(o)) /\ WF_vars(TimerExpires(o))
  /\ \A w \in Waits : WF_vars(Ready(w))

-----------------------------------------------------------------------------
(* The handler is called once, whichever of the poll, the request for the  *)
(* oids and the timer end the connect, and then the connect waits for      *)
(* nothing, nor does the timer: the pool moves the native handle then.     *)
QuietAfterAnswer ==
  \A o \in Ops : calls[o] > 0 =>
    calls[o] = 1 /\ [op |-> "connect", id |-> o] \notin waits /\ timer[o] \in {"off", "ran"}

(* A connect that succeeds leaves an established, idle connection with all *)
(* the oids of the user's types; one that fails leaves one of the states   *)
(* that the pool is prepared for.                                          *)
EndsInOutcome ==
  [][\A o \in Ops : calls[o] = 0 /\ calls'[o] > 0 =>
       IF answer'[o] = "ok" THEN conn'[o] = ConnectSuccess ELSE conn'[o] \in ConnectFailures]_vars

(* The handler is called in the end if the server answers, unless the      *)
(* stream no longer hears of the socket: libpq has gone on to the next     *)
(* address of the host while the stream was given the descriptor of the    *)
(* first one, or another connection's stream was released with its number. *)
ConnectAnswered == \A o \in Ops : <>(calls[o] > 0) \/ <>(lost[o] \/ o \in deaf)
=============================================================================
