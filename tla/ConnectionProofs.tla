-------------------------- MODULE ConnectionProofs --------------------------
(***************************************************************************)
(* The invariants of the life of a connection, for any connects,           *)
(* descriptors, addresses and types.                                       *)
(*                                                                         *)
(* Protocol is about the handlers of one connect: which of them are still  *)
(* to run in which state of the deadline.  Descriptors is about numbers    *)
(* and streams, and takes from Protocol that nobody uses a connection      *)
(* while the connect is under way.                                         *)
(***************************************************************************)
EXTENDS ConnectionLife, TLAPS

ConnectWait(o) == [op |-> "connect", id |-> o]

ProtocolTypeOK ==
  /\ first_call \in [Ops -> 0..2]
  /\ timer \in [Ops -> TimerStates]
  /\ calls \in [Ops -> Nat]
  /\ pc \in [Ops -> {"new", "connect", "oids", "end"}]
  /\ life \in [Ops -> Lives]
  /\ waits \subseteq Waits
  /\ ready \subseteq Handlers

Deadlined(o) ==
  \/ pc[o] = "new" /\ calls[o] = 0 /\ first_call[o] = 0 /\ timer[o] = "off"
  \/ pc[o] = "new" /\ calls[o] = 0 /\ o \in Timed /\ first_call[o] = 2 /\ timer[o] \in {"armed", "queued"}
  \/ pc[o] \in {"connect", "oids"} /\ calls[o] = 0 /\ o \notin Timed /\ timer[o] = "off"
  \/ pc[o] \in {"connect", "oids"} /\ calls[o] = 0 /\ o \in Timed
       /\ first_call[o] = 2 /\ timer[o] \in {"armed", "queued"}
  \/ pc[o] \in {"connect", "oids"} /\ calls[o] = 0 /\ o \in Timed
       /\ first_call[o] = 1 /\ timer[o] = "ran"
  \/ pc[o] = "end" /\ calls[o] = 0 /\ first_call[o] = 1 /\ timer[o] = "queued"
  \/ pc[o] = "end" /\ calls[o] = 1 /\ timer[o] \in {"off", "ran"}

Handled ==
  /\ \A e \in ready : e.op = "timer" => timer[e.id] = "queued" /\ e.ec = "ok"
  /\ \A e \in ready : e.op = "connect" => pc[e.id] \in {"connect", "oids"} /\ ConnectWait(e.id) \notin waits
  /\ \A e \in ready : e.op = "connect" => e.ec \in {"ok", "aborted"}
  /\ \A e, f \in ready : e.op = "connect" /\ f.op = "connect" /\ e.id = f.id => e = f
  /\ \A o \in Ops : ConnectWait(o) \in waits => pc[o] \in {"connect", "oids"}

Protocol ==
  /\ ProtocolTypeOK
  /\ \A o \in Ops : Deadlined(o)
  /\ Handled
  /\ \A o \in Ops : life[o] \in {"pooled", "parked", "gone"} => calls[o] > 0

\* The connects start with no handler anywhere.
LEMMA ProtocolInit == LifeInit => Protocol
<1> SUFFICES ASSUME LifeInit PROVE Protocol
    OBVIOUS
<1>1. ProtocolTypeOK
  BY DEF LifeInit, Init, DeadlineInit, StreamInit, ProtocolTypeOK, TimerStates, Lives
<1>2. \A o \in Ops : Deadlined(o)
  BY Zenon DEF LifeInit, Init, DeadlineInit, StreamInit, Deadlined
<1>3. Handled
  BY DEF LifeInit, Init, DeadlineInit, StreamInit, Handled
<1>4. \A o \in Ops : life[o] \in {"pooled", "parked", "gone"} => calls[o] > 0
  BY DEF LifeInit
<1> QED
  BY <1>1, <1>2, <1>3, <1>4 DEF Protocol

-----------------------------------------------------------------------------
\* async_connect starts the timer.
LEMMA BeginKeeps ==
  ASSUME Protocol, NEW o \in Ops, Begin(o), UNCHANGED life
  PROVE Protocol'
<1>1. ProtocolTypeOK'
  BY DEF Protocol, ProtocolTypeOK, Begin, DeadlineStart, TimerStates, streamVars, connectVars
<1>2. \A p \in Ops : Deadlined(p)'
  BY DEF Protocol, ProtocolTypeOK, Deadlined, Begin, DeadlineStart, streamVars, connectVars
<1>3. Handled'
  <2>1. \A e \in ready : e.id = o => e.op # "timer"
    BY DEF Protocol, Handled, Begin
  <2> QED
    BY <2>1, ConnectAssumption DEF Protocol, ProtocolTypeOK, Handled, Handlers, Begin, DeadlineStart, streamVars, connectVars, ConnectWait
<1>4. \A p \in Ops : (life[p] \in {"pooled", "parked", "gone"} => calls[p] > 0)'
  BY DEF Protocol, Begin, DeadlineStart
<1> QED
  BY <1>1, <1>2, <1>3, <1>4 DEF Protocol

\* The operation is done, in perform() or in the handler that took the last
\* wait: q is what is ready besides, and no wait of the connect is left.
LEMMA DoneKeeps ==
  ASSUME Protocol, NEW o \in Ops, NEW ec, NEW q, Done(o, ec, q), UNCHANGED life,
         pc[o] # "end", pc[o] = "new" => (o \in Timed => first_call[o] > 0),
         q \subseteq ready, ConnectWait(o) \notin waits,
         \A e \in q : e.op = "connect" => e.id # o
  PROVE Protocol'
<1> USE ConnectAssumption
<1>0. o \notin Timed => timer[o] = "off"
  BY DEF Protocol, Deadlined
<1>1. ProtocolTypeOK'
  BY DEF Protocol, ProtocolTypeOK, Done, OperationDone, Call, TimerCancelled, TimerStates, Handlers, Entry
<1>2. \A p \in Ops : Deadlined(p)'
  BY DEF Protocol, ProtocolTypeOK, Deadlined, Done, OperationDone, Call, TimerCancelled
<1>3. Handled'
  BY DEF Protocol, ProtocolTypeOK, Handled, Deadlined, Handlers, Done, OperationDone, Call, TimerCancelled, Entry, ConnectWait
<1>4. \A p \in Ops : (life[p] \in {"pooled", "parked", "gone"} => calls[p] > 0)'
  BY DEF Protocol, ProtocolTypeOK, Done, OperationDone, Call
<1> QED
  BY <1>1, <1>2, <1>3, <1>4 DEF Protocol

\* The connect waits again, or for the first time.
LEMMA AwaitKeeps ==
  ASSUME Protocol, NEW o \in Ops, NEW where \in {"connect", "oids"}, NEW q, Await(o, where, q), UNCHANGED life,
         pc[o] # "end", pc[o] = "new" => (o \in Timed <=> first_call[o] > 0),
         q \subseteq ready, \A e \in q : e.op = "connect" => e.id # o
  PROVE Protocol'
<1> USE ConnectAssumption
<1>1. ProtocolTypeOK'
  BY DEF Protocol, ProtocolTypeOK, Await, deadlineVars, Waits
<1>2. \A p \in Ops : Deadlined(p)'
  BY DEF Protocol, ProtocolTypeOK, Deadlined, Await, deadlineVars
<1>3. Handled'
  BY DEF Protocol, ProtocolTypeOK, Handled, Handlers, Await, deadlineVars, ConnectWait
<1>4. \A p \in Ops : (life[p] \in {"pooled", "parked", "gone"} => calls[p] > 0)'
  BY DEF Protocol, Await, deadlineVars
<1> QED
  BY <1>1, <1>2, <1>3, <1>4 DEF Protocol

\* perform() ends the connect at once, or starts to wait.
LEMMA PerformKeeps ==
  ASSUME Protocol, NEW o \in Ops, Perform(o), UNCHANGED life
  PROVE Protocol'
<1> USE ConnectAssumption
<1>1. /\ pc[o] = "new" /\ (o \in Timed => first_call[o] > 0)
      /\ ConnectWait(o) \notin waits
      /\ \A e \in ready : e.op = "connect" => e.id # o
  BY DEF Protocol, Handled, Perform
<1>2. first_call[o] > 0 => o \in Timed
  BY <1>1 DEF Protocol, ProtocolTypeOK, Deadlined
<1>3. CASE \E ec \in {"start_failed", "status_bad", "socket_failed"} : Done(o, ec, ready)
  BY <1>1, <1>3, DoneKeeps
<1>4. CASE Await(o, "connect", ready)
  BY <1>1, <1>2, <1>4, AwaitKeeps
<1> QED
  BY <1>3, <1>4 DEF Perform

\* The handlers of the waits: async_connect_op::operator(), and that of the
\* request for the oids, end the connect or wait again.
LEMMA OnWaitKeeps ==
  ASSUME Protocol, NEW e \in ready, e.op = "connect", UNCHANGED life,
         OnPoll(e.id, e.ec, ready \ {e}) \/ OnOids(e.id, e.ec, ready \ {e})
  PROVE Protocol'
<1> USE ConnectAssumption
<1> DEFINE o == e.id
           q == ready \ {e}
<1>1. /\ o \in Ops /\ pc[o] \in {"connect", "oids"}
      /\ ConnectWait(o) \notin waits
      /\ q \subseteq ready /\ \A f \in q : f.op = "connect" => f.id # o
  BY DEF Protocol, ProtocolTypeOK, Handled, Handlers
<1>2. \/ \E ec : Done(o, ec, q)
      \/ \E where \in {"connect", "oids"} : Await(o, where, q)
  <2>1. CASE OnPoll(o, e.ec, q)
    BY <2>1, Zenon DEF OnPoll, Established, RequestOids
  <2>2. CASE OnOids(o, e.ec, q)
    BY <2>2, Zenon DEF OnOids
  <2> QED
    BY <2>1, <2>2
<1> HIDE DEF o, q
<1>3. ASSUME NEW ec, Done(o, ec, q) PROVE Protocol'
  BY <1>1, <1>3, DoneKeeps
<1>4. ASSUME NEW where \in {"connect", "oids"}, Await(o, where, q) PROVE Protocol'
  BY <1>1, <1>4, AwaitKeeps
<1> QED
  BY <1>2, <1>3, <1>4

\* cancel() and release(): what the handlers of the aborted waits are.
LEMMA AbortedWaits ==
  ASSUME Protocol, NEW o \in Ops, NEW q, q \subseteq ready, AbortWaits(o, q)
  PROVE  /\ waits' \subseteq waits /\ ConnectWait(o) \notin waits'
         /\ q \subseteq ready' /\ ready' \subseteq Handlers
         /\ \A w \in waits' : w.id # o
         /\ \A f \in ready' \ q : f.id = o /\ (f.op = "connect" => ConnectWait(o) \in waits)
         /\ \A f \in ready' \ q : f.op # "timer" /\ f.ec = "aborted"
<1> USE ConnectAssumption
<1>1. waits' = {w \in waits : w.id # o}
  BY DEF AbortWaits, WaitsOf
<1>2. \A f \in ready' \ q : \E w \in waits : w.id = o /\ f = Entry(w.op, o, "aborted")
  BY DEF AbortWaits, WaitsOf
<1>3. \A w \in waits : w.op \in {"connect", "user"} /\ (w.id = o /\ w.op = "connect" => w = ConnectWait(o))
  BY DEF Protocol, ProtocolTypeOK, Waits, ConnectWait
<1>4. \A f \in ready' \ q : f.id = o /\ f.ec = "aborted" /\ f.op \in {"connect", "user"} /\ f \in Handlers
                            /\ (f.op = "connect" => ConnectWait(o) \in waits)
  BY <1>2, <1>3 DEF Entry, Handlers
<1>5. q \subseteq ready'
  BY DEF AbortWaits
<1> QED
  BY <1>1, <1>4, <1>5 DEF ConnectWait, Protocol, ProtocolTypeOK

\* timer_handler: the first of the two cancels the wait, the second answers.
LEMMA OnTimerKeeps ==
  ASSUME Protocol, NEW e \in ready, e.op = "timer", UNCHANGED life,
         pc[e.id] # "new", OnTimer(e.id, ready \ {e})
  PROVE Protocol'
<1> USE ConnectAssumption
<1> DEFINE o == e.id
<1>0. o \in Ops /\ timer[o] = "queued" /\ e = Entry("timer", o, "ok")
  BY DEF Protocol, ProtocolTypeOK, Handled, Handlers, Entry
<1>1. ProtocolTypeOK'
  <2>1. CASE TimerFirst(o) /\ AbortWaits(o, ready \ {e})
    <3>1. waits' \subseteq Waits /\ ready' \subseteq Handlers
      BY <1>0, <2>1, AbortedWaits DEF Protocol, ProtocolTypeOK
    <3> QED
      BY <1>0, <2>1, <3>1 DEF Protocol, ProtocolTypeOK, OnTimer, TimerFirst, TimerStates, connectVars
  <2>2. CASE TimerSecond(o) /\ ready' = ready \ {e} /\ UNCHANGED waits
    BY <1>0, <2>2 DEF Protocol, ProtocolTypeOK, OnTimer, TimerSecond, Call, TimerStates, connectVars
  <2> QED
    BY <2>1, <2>2 DEF OnTimer
<1>2. \A p \in Ops : Deadlined(p)'
  BY <1>0 DEF Protocol, ProtocolTypeOK, Deadlined, OnTimer, TimerFirst, TimerSecond, Call, connectVars
<1>3. Handled'
  <2>1. CASE TimerFirst(o) /\ AbortWaits(o, ready \ {e})
    <3>0. /\ waits' \subseteq waits /\ ConnectWait(o) \notin waits'
          /\ \A f \in ready' \ (ready \ {e}) : f.id = o /\ (f.op = "connect" => ConnectWait(o) \in waits)
          /\ \A f \in ready' \ (ready \ {e}) : f.op # "timer" /\ f.ec = "aborted"
          /\ ready' \subseteq Handlers
      BY <1>0, <2>1, AbortedWaits
    <3>1. pc' = pc /\ timer' = [timer EXCEPT ![o] = "ran"]
      BY <2>1, Zenon DEF TimerFirst, OnTimer, connectVars
    <3> QED
      BY <1>0, <3>0, <3>1 DEF Protocol, ProtocolTypeOK, Handled, Handlers, Entry, ConnectWait
  <2>2. CASE TimerSecond(o) /\ ready' = ready \ {e} /\ UNCHANGED waits
    BY <1>0, <2>2 DEF Protocol, ProtocolTypeOK, Handled, Handlers, OnTimer, TimerSecond, connectVars, ConnectWait, Entry
  <2> QED
    BY <2>1, <2>2 DEF OnTimer
<1>4. \A p \in Ops : (life[p] \in {"pooled", "parked", "gone"} => calls[p] > 0)'
  BY <1>0 DEF Protocol, ProtocolTypeOK, OnTimer, TimerFirst, TimerSecond, Call
<1> QED
  BY <1>1, <1>2, <1>3, <1>4 DEF Protocol

\* The timer expires.
LEMMA ExpiresKeeps ==
  ASSUME Protocol, NEW o \in Ops, TimerExpires(o), UNCHANGED life
  PROVE Protocol'
<1> USE ConnectAssumption
<1>1. ProtocolTypeOK'
  BY DEF Protocol, ProtocolTypeOK, TimerExpires, TimerStates, Handlers, Entry, connectVars
<1>2. \A p \in Ops : Deadlined(p)'
  BY DEF Protocol, ProtocolTypeOK, Deadlined, TimerExpires, connectVars
<1>3. Handled'
  BY SMTT(30) DEF Protocol, ProtocolTypeOK, Handled, Handlers, TimerExpires, connectVars, ConnectWait, Entry
<1>4. \A p \in Ops : (life[p] \in {"pooled", "parked", "gone"} => calls[p] > 0)'
  BY Zenon DEF Protocol, TimerExpires
<1> QED
  BY <1>1, <1>2, <1>3, <1>4, Zenon DEF Protocol

\* The reactor reports a descriptor.
LEMMA ReadyKeeps ==
  ASSUME Protocol, NEW w \in Waits, Ready(w), UNCHANGED life
  PROVE Protocol'
<1> USE ConnectAssumption
<1>0. UNCHANGED <<first_call, timer, calls, pc>>
  BY DEF Ready, deadlineVars, connectVars
<1>1. w \in waits /\ waits' = waits \ {w} /\ ready' = ready \cup {Entry(w.op, w.id, "ok")}
  BY DEF Ready, WaitReady
<1>2. ProtocolTypeOK'
  BY <1>0, <1>1 DEF Protocol, ProtocolTypeOK, Handlers, Entry, Waits
<1>3. Handled'
  BY <1>0, <1>1 DEF Protocol, ProtocolTypeOK, Handled, Handlers, ConnectWait, Entry, Waits
<1> QED
  BY <1>0, <1>2, <1>3 DEF Protocol, Deadlined

\* What a user does changes nothing for the connects.
LEMMA UserKeeps ==
  ASSUME Protocol, UNCHANGED <<first_call, timer, calls, pc>>,
         life' \in [Ops -> Lives], \A p \in Ops : life'[p] = life[p] \/ calls[p] > 0,
         waits' \subseteq waits \cup {w \in Waits : w.op = "user"},
         ready' \subseteq ready \cup {e \in Handlers : e.op = "user"}
  PROVE Protocol'
<1>1. ProtocolTypeOK'
  BY DEF Protocol, ProtocolTypeOK
<1>2. \A p \in Ops : Deadlined(p)'
  BY DEF Protocol, Deadlined
<1>3. Handled'
  BY DEF Protocol, Handled, ConnectWait
<1>4. \A p \in Ops : (life[p] \in {"pooled", "parked", "gone"} => calls[p] > 0)'
  BY DEF Protocol
<1> QED
  BY <1>1, <1>2, <1>3, <1>4 DEF Protocol

\* After the answer the waits that are aborted are those of the user.
LEMMA UserAborts ==
  ASSUME Protocol, NEW o \in Ops, calls[o] > 0, AbortWaits(o, ready)
  PROVE  /\ waits' \subseteq waits \cup {w \in Waits : w.op = "user"}
         /\ ready' \subseteq ready \cup {e \in Handlers : e.op = "user"}
<1>1. ConnectWait(o) \notin waits
  BY DEF Protocol, Handled, Deadlined
<1>2. /\ waits' \subseteq waits /\ ready' \subseteq Handlers
      /\ \A f \in ready' \ ready : f.op # "timer" /\ (f.op = "connect" => ConnectWait(o) \in waits)
  BY AbortedWaits
<1> QED
  BY <1>1, <1>2 DEF Handlers

\* Every step keeps the protocol.
LEMMA ProtocolStep == Protocol /\ [LifeNext]_lifeVars => Protocol'
<1> SUFFICES ASSUME Protocol, [LifeNext]_lifeVars PROVE Protocol'
    OBVIOUS
<1> USE ConnectAssumption
<1>1. ASSUME NEW o \in Ops, Begin(o), UNCHANGED life PROVE Protocol'
  BY <1>1, BeginKeeps
<1>2. ASSUME NEW o \in Ops, Perform(o), UNCHANGED life PROVE Protocol'
  BY <1>2, PerformKeeps
<1>3. ASSUME NEW o \in Ops, TimerExpires(o), UNCHANGED life PROVE Protocol'
  BY <1>3, ExpiresKeeps
<1>4. ASSUME NEW w \in Waits, Ready(w), UNCHANGED life PROVE Protocol'
  BY <1>4, ReadyKeeps, Zenon
<1>5. ASSUME NEW e \in Handlers, RunHandler(e), UNCHANGED life PROVE Protocol'
  <2>1. CASE e.op = "connect"
    BY <1>5, <2>1, OnWaitKeeps, Zenon DEF RunHandler
  <2>2. CASE e.op = "timer"
    BY <1>5, <2>2, OnTimerKeeps, Zenon DEF RunHandler
  <2> QED
    BY <1>5, <2>1, <2>2, Zenon DEF RunHandler
<1>6. ASSUME NEW o \in Ops, Wrap(o) \/ CancelWaits(o) \/ Close(o) \/ Drop(o) PROVE Protocol'
  <2>1. calls[o] > 0 /\ AbortWaits(o, ready) /\ UNCHANGED <<first_call, timer, calls, pc>>
    BY <1>6, Zenon DEF Wrap, CancelWaits, Close, Drop, InUse, Elsewhere, deadlineVars
  <2>2. life' \in [Ops -> Lives] /\ \A p \in Ops : life'[p] = life[p] \/ p = o
    BY <1>6, Zenon DEF Protocol, ProtocolTypeOK, Lives, Wrap, CancelWaits, Close, Drop
  <2> QED
    BY <2>1, <2>2, UserAborts, UserKeeps, Zenon
<1>7. ASSUME NEW o \in Ops, AsyncWait(o) \/ Breaks(o) \/ Reuse(o) \/ Evict(o) PROVE Protocol'
  <2>1. UNCHANGED <<first_call, timer, calls, pc>>
    BY <1>7 DEF AsyncWait, Breaks, Reuse, Evict, Elsewhere, deadlineVars
  <2>2. life' \in [Ops -> Lives] /\ \A p \in Ops : life'[p] = life[p] \/ calls[p] > 0
    BY <1>7 DEF Protocol, ProtocolTypeOK, Lives, AsyncWait, Breaks, Reuse, Evict
  <2>3. /\ waits' \subseteq waits \cup {w \in Waits : w.op = "user"}
        /\ ready' \subseteq ready \cup {e \in Handlers : e.op = "user"}
    BY <1>7 DEF AsyncWait, Breaks, Reuse, Evict, Waits, Handlers, Entry
  <2> QED
    BY <2>1, <2>2, <2>3, UserKeeps
<1>8. ASSUME NEW e \in Handlers, RunUser(e) PROVE Protocol'
  BY <1>8, UserKeeps, Zenon DEF RunUser, Elsewhere, deadlineVars, Protocol, ProtocolTypeOK
<1>9. CASE UNCHANGED lifeVars
  BY <1>9, UserKeeps DEF lifeVars, vars, deadlineVars, connectVars, streamVars, Protocol, ProtocolTypeOK
<1> QED
  BY <1>1, <1>2, <1>3, <1>4, <1>5, <1>6, <1>7, <1>8, <1>9 DEF LifeNext, Next

(* The handler of a connect is called once, and the connect waits for      *)
(* nothing when it is, however poll, oid request and timer race, for any   *)
(* number of connects.                                                     *)
THEOREM Quiet == LifeSpec => []QuietAfterAnswer
<1>1. Protocol => QuietAfterAnswer
  BY DEF Protocol, ProtocolTypeOK, Deadlined, Handled, QuietAfterAnswer, ConnectWait
<1> QED
  BY <1>1, ProtocolInit, ProtocolStep, PTL DEF LifeSpec

-----------------------------------------------------------------------------
\* What is true of numbers and streams whoever acts.
Numbers ==
  /\ fd \in [Ops -> Fds \cup {NoFd}]
  /\ socket_ \in [Ops -> Fds \cup {NoFd}]
  /\ watch \subseteq Fds \X Ops
  /\ lost \in [Ops -> BOOLEAN]
  /\ deaf \subseteq Ops
  /\ \A o \in Ops : socket_[o] # NoFd => socket_[o] = fd[o] \/ lost[o]
  /\ \A o, p \in Ops : o # p /\ fd[o] # NoFd => fd[o] # fd[p]
  /\ \A o \in Ops : socket_[o] # NoFd /\ ~lost[o] => <<socket_[o], o>> \in watch \/ o \in deaf
  /\ \A g \in Fds, p \in Ops : <<g, p>> \in watch => socket_[p] = g /\ fd[p] = g

Descriptors ==
  /\ Numbers
  /\ \A w \in waits : socket_[w.id] # NoFd
  /\ \A o \in Ops : pc[o] = "new" => socket_[o] = NoFd
  /\ \A o \in Ops : pc[o] \in {"connect", "oids"} => socket_[o] # NoFd
  /\ \A o \in Ops : life[o] = "parked" => socket_[o] = NoFd

\* release(), and what is done with the stream after it, as long as the list
\* keeps what belongs to the others.
LEMMA ReleaseKeeps ==
  ASSUME Numbers, NEW o \in Ops, NEW f \in Fds \cup {NoFd}, NEW list \in SUBSET (Fds \X Ops),
         Release(o, f, list),
         fd' \in [Ops -> Fds \cup {NoFd}], \A p \in Ops \ {o} : fd'[p] = fd[p],
         f # NoFd => fd'[o] = f,
         fd'[o] # NoFd => \A p \in Ops \ {o} : fd[p] # fd'[o],
         \A g \in Fds, p \in Ops : <<g, p>> \in list <=>
            IF p = o THEN g = f ELSE <<g, p>> \in watch /\ g # socket_[o]
  PROVE Numbers'
<1> USE ConnectAssumption, ConnectionAssumption DEF NoFd
<1>1. \A p \in Ops : socket_'[p] = IF p = o THEN f ELSE socket_[p]
  BY DEF Numbers, Release
<1>2. \A p \in Ops : lost'[p] = IF p = o THEN FALSE ELSE lost[p]
  BY DEF Numbers, Release
<1>3. \A p \in Ops \ {o} : p \in deaf' <=> p \in deaf \/ (lost[o] /\ <<socket_[o], p>> \in watch)
  BY Zenon DEF Numbers, Release
<1>4. /\ socket_' \in [Ops -> Fds \cup {NoFd}] /\ lost' \in [Ops -> BOOLEAN]
      /\ deaf' \subseteq Ops /\ watch' = list
  BY DEF Numbers, Release
<1>5. \A p \in Ops : socket_'[p] # NoFd => socket_'[p] = fd'[p] \/ lost'[p]
  BY <1>1, <1>2, Zenon DEF Numbers
<1>6. \A p, r \in Ops : p # r /\ fd'[p] # NoFd => fd'[p] # fd'[r]
  BY DEF Numbers
<1>7. \A p \in Ops : socket_'[p] # NoFd /\ ~lost'[p] => <<socket_'[p], p>> \in watch' \/ p \in deaf'
  <2> SUFFICES ASSUME NEW p \in Ops, socket_'[p] # NoFd, ~lost'[p] PROVE <<socket_'[p], p>> \in watch' \/ p \in deaf'
      BY Zenon
  <2>1. CASE p = o
    BY <1>1, <1>4, <2>1 DEF Numbers
  <2>2. CASE p # o
    <3>1. socket_[p] \in Fds /\ ~lost[p] /\ (<<socket_[p], p>> \in watch \/ p \in deaf)
      <4>1. socket_'[p] = socket_[p] /\ lost'[p] = lost[p]
        BY <1>1, <1>2, <2>2, Zenon
      <4>2. socket_[p] # NoFd /\ ~lost[p]
        BY <4>1, Zenon
      <4>3. socket_[p] \in Fds
        BY <4>2 DEF Numbers
      <4> QED
        BY <4>2, <4>3 DEF Numbers
    <3>2. socket_[p] = socket_[o] /\ <<socket_[p], p>> \in watch => lost[o]
      BY <2>2, <3>1 DEF Numbers
    <3>3. socket_'[p] = socket_[p] /\ p \in Ops \ {o}
      BY <1>1, <2>2, Zenon
    <3>4. CASE p \in deaf
      BY <1>3, <3>3, <3>4, Zenon
    <3>5. CASE <<socket_[p], p>> \in watch /\ socket_[p] = socket_[o]
      <4>1. lost[o] /\ <<socket_[o], p>> \in watch
        BY <3>2, <3>5, Zenon
      <4> QED
        BY <1>3, <3>3, <4>1, Zenon
    <3>6. CASE <<socket_[p], p>> \in watch /\ socket_[p] # socket_[o]
      <4>1. <<socket_[p], p>> \in list
        BY <2>2, <3>1, <3>6, Zenon
      <4> QED
        BY <1>4, <3>3, <4>1, Zenon
    <3> QED
      BY <3>1, <3>4, <3>5, <3>6, Zenon
  <2> QED
    BY <2>1, <2>2
<1>8. \A g \in Fds, p \in Ops : <<g, p>> \in watch' => socket_'[p] = g /\ fd'[p] = g
  BY <1>1, <1>4 DEF Numbers
<1> QED
  BY <1>4, <1>5, <1>6, <1>7, <1>8, Zenon DEF Numbers

\* assign(), for the first time and with the socket libpq has just opened.
LEMMA AssignKeeps ==
  ASSUME Numbers, NEW o \in Ops, NEW f \in Fds, Opened(f, {}), Assign(o, f), socket_[o] = NoFd
  PROVE Numbers'
<1> USE ConnectAssumption, ConnectionAssumption DEF NoFd
<1> DEFINE list == Without(With(watch, f, o), socket_[o])
<1>1. \A p \in Ops : fd[p] # f
  BY Zenon DEF Opened
<1>2. fd' \in [Ops -> Fds \cup {NoFd}] /\ fd'[o] = f /\ \A p \in Ops \ {o} : fd'[p] = fd[p]
  BY DEF Numbers, Assign
<1>3. list \in SUBSET (Fds \X Ops)
  BY DEF Numbers, Without, With
<1>4. \A g \in Fds, p \in Ops : <<g, p>> \in list <=> ((<<g, p>> \in watch /\ g # f) \/ (g = f /\ p = o)) /\ g # socket_[o]
  BY DEF Without, With
<1>5. \A g \in Fds, p \in Ops : <<g, p>> \in list <=> IF p = o THEN g = f ELSE <<g, p>> \in watch /\ g # socket_[o]
  BY <1>1, <1>4, Zenon DEF Numbers
<1>6. Release(o, f, list)
  BY DEF Assign
<1> HIDE DEF list
<1> QED
  BY <1>1, <1>2, <1>3, <1>5, <1>6, ReleaseKeeps

\* The pool's connection object has a stream of its own over the handle.
LEMMA RestreamKeeps ==
  ASSUME Numbers, NEW o \in Ops, Restream(o)
  PROVE Numbers'
<1> USE ConnectAssumption, ConnectionAssumption DEF NoFd
<1> DEFINE list == With(Without(watch, socket_[o]), fd[o], o)
<1>1. fd[o] \in Fds \cup {NoFd} /\ socket_[o] \in Fds \cup {NoFd} /\ watch \in SUBSET (Fds \X Ops)
  BY DEF Numbers
<1>2. Without(watch, socket_[o]) \in SUBSET (Fds \X Ops)
  BY <1>1 DEF Without, With
<1>3. list \in SUBSET (Fds \X Ops)
  BY <1>1, <1>2 DEF Without, With
<1>4. \A g \in Fds, p \in Ops : <<g, p>> \in Without(watch, socket_[o]) <=> <<g, p>> \in watch /\ g # socket_[o]
  BY <1>1 DEF Without, With
<1>5. \A g \in Fds, p \in Ops : <<g, p>> \in list <=> (<<g, p>> \in watch /\ g # socket_[o] /\ g # fd[o]) \/ (g = fd[o] /\ p = o)
  BY <1>1, <1>2, <1>4, Zenon DEF Without, With
<1>6. \A g \in Fds, p \in Ops : <<g, p>> \in list <=> IF p = o THEN g = fd[o] ELSE <<g, p>> \in watch /\ g # socket_[o]
  BY <1>5, ZenonT(40) DEF Numbers
<1>7. Release(o, fd[o], list) /\ fd' = fd
  BY DEF Restream
<1>8. fd' \in [Ops -> Fds \cup {NoFd}] /\ (fd'[o] # NoFd => \A p \in Ops \ {o} : fd[p] # fd'[o])
  BY <1>7 DEF Numbers
<1> HIDE DEF list
<1>9. ASSUME NEW f \in Fds \cup {NoFd}, f = fd[o] PROVE Numbers'
  <2>1. /\ Release(o, f, list) /\ (f # NoFd => fd'[o] = f)
        /\ \A g \in Fds, p \in Ops : <<g, p>> \in list <=> IF p = o THEN g = f ELSE <<g, p>> \in watch /\ g # socket_[o]
    BY <1>6, <1>7, <1>9
  <2>2. \A p \in Ops \ {o} : fd'[p] = fd[p]
    BY <1>7
  <2> QED
    BY <1>3, <1>8, <2>1, <2>2, ReleaseKeeps
<1> QED
  BY <1>1, <1>9, Zenon

\* close() and the destructors.
LEMMA CloseKeeps ==
  ASSUME Numbers, NEW o \in Ops, CloseHandle(o)
  PROVE Numbers'
<1> USE ConnectAssumption, ConnectionAssumption DEF NoFd
<1> DEFINE list == Without(Without(watch, socket_[o]), fd[o])
<1>1. fd[o] \in Fds \cup {NoFd} /\ socket_[o] \in Fds \cup {NoFd} /\ watch \in SUBSET (Fds \X Ops)
  BY DEF Numbers
<1>2. Without(watch, socket_[o]) \in SUBSET (Fds \X Ops)
  BY <1>1 DEF Without, With
<1>3. list \in SUBSET (Fds \X Ops)
  BY <1>1, <1>2 DEF Without, With
<1>4. \A g \in Fds, p \in Ops : <<g, p>> \in Without(watch, socket_[o]) <=> <<g, p>> \in watch /\ g # socket_[o]
  BY <1>1 DEF Without, With
<1>5. \A g \in Fds, p \in Ops : <<g, p>> \in list <=> <<g, p>> \in watch /\ g # socket_[o] /\ g # fd[o]
  BY <1>1, <1>2, <1>4, Zenon DEF Without, With
<1>6. \A g \in Fds, p \in Ops : <<g, p>> \in list <=> IF p = o THEN g = NoFd ELSE <<g, p>> \in watch /\ g # socket_[o]
  BY <1>5, Zenon DEF Numbers
<1>7. Release(o, NoFd, list) /\ fd' = [fd EXCEPT ![o] = NoFd]
  BY DEF CloseHandle
<1>8. fd' \in [Ops -> Fds \cup {NoFd}] /\ fd'[o] = NoFd /\ \A p \in Ops \ {o} : fd'[p] = fd[p]
  BY <1>7, Zenon DEF Numbers
<1> HIDE DEF list
<1> QED
  BY <1>3, <1>6, <1>7, <1>8, ReleaseKeeps

\* ~pooled_connection of a connection that is parked.
LEMMA ParkKeeps ==
  ASSUME Numbers, NEW o \in Ops, Release(o, NoFd, Without(watch, socket_[o])), UNCHANGED fd
  PROVE Numbers'
<1> USE ConnectAssumption, ConnectionAssumption DEF NoFd
<1>1. socket_[o] \in Fds \cup {NoFd} /\ watch \in SUBSET (Fds \X Ops)
  BY DEF Numbers
<1>2. Without(watch, socket_[o]) \in SUBSET (Fds \X Ops)
  BY <1>1 DEF Without, With
<1>3. \A g \in Fds, p \in Ops : <<g, p>> \in Without(watch, socket_[o]) <=> <<g, p>> \in watch /\ g # socket_[o]
  BY <1>1 DEF Without, With
<1>4. \A g \in Fds, p \in Ops : <<g, p>> \in Without(watch, socket_[o]) <=> IF p = o THEN g = NoFd ELSE <<g, p>> \in watch /\ g # socket_[o]
  BY <1>3, Zenon DEF Numbers
<1>5. fd' \in [Ops -> Fds \cup {NoFd}] /\ (fd'[o] # NoFd => \A p \in Ops \ {o} : fd[p] # fd'[o])
  BY DEF Numbers
<1> QED
  BY <1>2, <1>4, <1>5, ReleaseKeeps, ZenonT(40)

\* libpq closes its socket, and has another one or none.
LEMMA SocketChangesKeeps ==
  ASSUME Numbers, NEW o \in Ops, NEW f \in Fds \cup {NoFd}, f = NoFd \/ Opened(f, {fd[o]}), SocketChanges(o, f)
  PROVE Numbers'
<1> USE ConnectAssumption, ConnectionAssumption DEF NoFd
<1>1. \A p \in Ops \ {o} : f # NoFd => fd[p] # f
  BY DEF Opened, Numbers
<1>2. fd[o] \in Fds \cup {NoFd} /\ watch \in SUBSET (Fds \X Ops)
  BY DEF Numbers
<1>3. watch' \in SUBSET (Fds \X Ops) /\ \A g \in Fds, p \in Ops : <<g, p>> \in watch' <=> <<g, p>> \in watch /\ g # fd[o]
  BY <1>2, Zenon DEF SocketChanges, Without
<1>4. /\ fd' \in [Ops -> Fds \cup {NoFd}] /\ lost' \in [Ops -> BOOLEAN]
      /\ \A p \in Ops : fd'[p] = IF p = o THEN f ELSE fd[p]
      /\ \A p \in Ops : lost'[p] = IF p = o THEN socket_[o] # NoFd ELSE lost[p]
      /\ socket_' = socket_ /\ deaf' = deaf
  BY Zenon DEF Numbers, SocketChanges
<1>5. \A p \in Ops : socket_'[p] # NoFd => socket_'[p] = fd'[p] \/ lost'[p]
  BY <1>4, Zenon DEF Numbers
<1>6. \A p, r \in Ops : p # r /\ fd'[p] # NoFd => fd'[p] # fd'[r]
  BY <1>1, <1>4 DEF Numbers
<1>7. \A p \in Ops : socket_'[p] # NoFd /\ ~lost'[p] => <<socket_'[p], p>> \in watch' \/ p \in deaf'
  BY <1>3, <1>4, ZenonT(40) DEF Numbers
<1>8. \A g \in Fds, p \in Ops : <<g, p>> \in watch' => socket_'[p] = g /\ fd'[p] = g
  BY <1>3, <1>4 DEF Numbers
<1> QED
  BY <1>3, <1>4, <1>5, <1>6, <1>7, <1>8, Zenon DEF Numbers

\* No descriptor is open at first.
LEMMA DescriptorsInit == LifeInit => Descriptors
<1> USE ConnectAssumption, ConnectionAssumption
<1> SUFFICES ASSUME LifeInit PROVE Descriptors
    OBVIOUS
<1>1. Numbers
  BY Zenon DEF LifeInit, Init, StreamInit, Numbers
<1> QED
  BY <1>1 DEF LifeInit, Init, StreamInit, Descriptors

\* A step that gives no stream another descriptor.
LEMMA SameStreams ==
  ASSUME Protocol, Descriptors, NEW o \in Ops, Numbers', UNCHANGED socket_,
         pc' \in [Ops -> {"new", "connect", "oids", "end"}], \A p \in Ops \ {o} : pc'[p] = pc[p],
         pc'[o] = pc[o] \/ pc'[o] = "end" \/ (pc'[o] # "new" /\ socket_[o] # NoFd),
         \A w \in waits' : w \in waits \/ (w.id = o /\ socket_[o] # NoFd),
         UNCHANGED life
  PROVE Descriptors'
<1>1. \A w \in waits' : socket_'[w.id] # NoFd
  BY Zenon DEF Descriptors
<1>2. \A p \in Ops : (pc[p] = "new" => socket_[p] = NoFd)'
  BY DEF Descriptors
<1>3. \A p \in Ops : (pc[p] \in {"connect", "oids"} => socket_[p] # NoFd)'
  BY Zenon DEF Descriptors
<1>4. \A p \in Ops : (life[p] = "parked" => socket_[p] = NoFd)'
  BY Zenon DEF Descriptors
<1> QED
  BY <1>1, <1>2, <1>3, <1>4, Zenon DEF Descriptors

\* A step of a user that gives the stream of o another descriptor, or none, and
\* leaves no wait of it.
LEMMA NewStream ==
  ASSUME Protocol, Descriptors, NEW o \in Ops, Numbers', calls[o] > 0, UNCHANGED pc,
         \A p \in Ops \ {o} : socket_'[p] = socket_[p] /\ life'[p] = life[p],
         life'[o] = "parked" => socket_'[o] = NoFd,
         waits' \subseteq waits, \A w \in waits' : w.id # o
  PROVE Descriptors'
<1> USE ConnectAssumption
<1>0. pc[o] = "end"
  BY DEF Protocol, ProtocolTypeOK, Deadlined
<1>1. \A w \in waits' : socket_'[w.id] # NoFd
  BY ZenonT(40) DEF Descriptors, Protocol, ProtocolTypeOK, Waits
<1>2. \A p \in Ops : (pc[p] = "new" => socket_[p] = NoFd)'
  BY <1>0, Zenon DEF Descriptors
<1>3. \A p \in Ops : (pc[p] \in {"connect", "oids"} => socket_[p] # NoFd)'
  BY <1>0, Zenon DEF Descriptors
<1>4. \A p \in Ops : (life[p] = "parked" => socket_[p] = NoFd)'
  BY DEF Descriptors
<1> QED
  BY <1>1, <1>2, <1>3, <1>4, Zenon DEF Descriptors

\* perform() gives the stream the socket libpq has opened.
LEMMA PerformDescriptors ==
  ASSUME Protocol, Protocol', Descriptors, NEW o \in Ops, Perform(o), UNCHANGED life
  PROVE Descriptors'
<1> USE ConnectAssumption, ConnectionAssumption
<1>0. pc[o] = "new" /\ socket_[o] = NoFd /\ calls[o] = 0
      /\ pc' \in [Ops -> {"new", "connect", "oids", "end"}]
  BY Zenon DEF Perform, Descriptors, Protocol, ProtocolTypeOK, Deadlined
<1>1. CASE (\E ec \in {"start_failed", "status_bad", "socket_failed"} : Done(o, ec, ready)) /\ UNCHANGED descriptorVars
  <2>1. Numbers' /\ UNCHANGED <<socket_, waits>> /\ pc' = [pc EXCEPT ![o] = "end"]
    BY <1>1, Zenon DEF Descriptors, Numbers, descriptorVars, Done
  <2> QED
    BY <1>0, <2>1, SameStreams, Zenon DEF Protocol, ProtocolTypeOK
<1>2. CASE (\E f \in Fds : Opened(f, {}) /\ Assign(o, f)) /\ Await(o, "connect", ready)
  <2>1. PICK f \in Fds : Opened(f, {}) /\ Assign(o, f)
    BY <1>2, Zenon
  <2>2. Numbers'
    BY <1>0, <2>1, AssignKeeps, Zenon DEF Descriptors
  <2>3. socket_' = [socket_ EXCEPT ![o] = f] /\ f # NoFd
    BY <2>1 DEF Assign, Release, NoFd
  <2>4. pc' = [pc EXCEPT ![o] = "connect"] /\ waits' = waits \cup {ConnectWait(o)}
    BY <1>2, Zenon DEF Await, ConnectWait
  <2>5. life[o] # "parked" /\ socket_ \in [Ops -> Fds \cup {NoFd}] /\ pc \in [Ops -> {"new", "connect", "oids", "end"}]
    BY <1>0, SMTT(30) DEF Protocol, ProtocolTypeOK, Descriptors, Numbers
  <2>6. \A w \in waits' : socket_'[w.id] # NoFd
    BY <2>3, <2>4, <2>5 DEF Descriptors, ConnectWait, Protocol, ProtocolTypeOK, Waits
  <2>7. \A p \in Ops : /\ (pc[p] = "new" => socket_[p] = NoFd)'
                       /\ (pc[p] \in {"connect", "oids"} => socket_[p] # NoFd)'
                       /\ (life[p] = "parked" => socket_[p] = NoFd)'
    BY <2>3, <2>4, <2>5, Zenon DEF Descriptors
  <2> QED
    BY <2>2, <2>6, <2>7 DEF Descriptors
<1> QED
  BY <1>1, <1>2 DEF Perform, descriptorVars

\* The handlers of the connect leave the stream with its descriptor, whatever
\* libpq does with the socket.
LEMMA OnWaitDescriptors ==
  ASSUME Protocol, Protocol', Descriptors, NEW e \in ready, e.op = "connect", UNCHANGED life,
         OnPoll(e.id, e.ec, ready \ {e}) \/ OnOids(e.id, e.ec, ready \ {e})
  PROVE Descriptors'
<1> USE ConnectAssumption, ConnectionAssumption
<1> DEFINE o == e.id
           q == ready \ {e}
<1>1. o \in Ops /\ pc[o] \in {"connect", "oids"} /\ socket_[o] # NoFd
  BY Zenon DEF Protocol, ProtocolTypeOK, Handled, Handlers, Descriptors
<1>2. /\ (\E ec : Done(o, ec, q)) \/ (\E where \in {"connect", "oids"} : Await(o, where, q))
      /\ \/ UNCHANGED descriptorVars
         \/ \E f \in Fds \cup {NoFd} : (f = NoFd \/ Opened(f, {fd[o]})) /\ SocketChanges(o, f)
  <2>1. CASE OnPoll(o, e.ec, q)
    BY <2>1, Zenon DEF OnPoll, Established, RequestOids
  <2>2. CASE OnOids(o, e.ec, q)
    BY <2>2, Zenon DEF OnOids
  <2> QED
    BY <2>1, <2>2
<1> HIDE DEF o, q
<1>3. Numbers' /\ UNCHANGED socket_
  <2>1. CASE UNCHANGED descriptorVars
    BY <2>1, Zenon DEF descriptorVars, Descriptors, Numbers
  <2>2. CASE \E f \in Fds \cup {NoFd} : (f = NoFd \/ Opened(f, {fd[o]})) /\ SocketChanges(o, f)
    <3>1. UNCHANGED socket_
      BY <2>2, ZenonT(40) DEF SocketChanges
    <3> QED
      BY <1>1, <2>2, <3>1, SocketChangesKeeps, Zenon DEF Descriptors
  <2> QED
    BY <1>2, <2>1, <2>2
<1>4. /\ \A p \in Ops \ {o} : pc'[p] = pc[p]
      /\ pc'[o] # "new"
      /\ \A w \in waits' : w \in waits \/ w.id = o
  <2>1. \E x \in {"connect", "oids", "end"} : pc' = [pc EXCEPT ![o] = x]
    BY <1>2, Zenon DEF Done, Await
  <2>2. waits' = waits \/ waits' = waits \cup {[op |-> "connect", id |-> o]}
    BY <1>2, Zenon DEF Done, Await
  <2>3. pc \in [Ops -> {"new", "connect", "oids", "end"}]
    BY DEF Protocol, ProtocolTypeOK
  <2>4. (\A p \in Ops \ {o} : pc'[p] = pc[p]) /\ pc'[o] # "new"
    BY <1>1, <2>1, <2>3, Zenon
  <2>5. \A w \in waits' : w \in waits \/ w.id = o
    BY <2>2
  <2> QED
    BY <2>4, <2>5
<1> QED
  BY <1>1, <1>3, <1>4, SameStreams, ZenonT(40) DEF Protocol, ProtocolTypeOK

\* What the users do.
LEMMA UserDescriptors ==
  ASSUME Protocol, Protocol', Descriptors, NEW o \in Ops,
         Wrap(o) \/ AsyncWait(o) \/ CancelWaits(o) \/ Breaks(o) \/ Close(o) \/ Drop(o) \/ Reuse(o) \/ Evict(o)
  PROVE Descriptors'
<1> USE ConnectAssumption, ConnectionAssumption
<1>0. /\ calls[o] > 0 /\ UNCHANGED pc /\ pc' \in [Ops -> {"new", "connect", "oids", "end"}]
      /\ socket_ \in [Ops -> Fds \cup {NoFd}] /\ life \in [Ops -> Lives] /\ Numbers
  BY Zenon DEF Wrap, AsyncWait, CancelWaits, Breaks, Close, Drop, Reuse, Evict, InUse, Elsewhere, Protocol, ProtocolTypeOK, Descriptors, Numbers
<1>1. CASE Wrap(o)
  <2>1. Numbers' /\ \A p \in Ops \ {o} : socket_'[p] = socket_[p]
    BY <1>0, <1>1, RestreamKeeps, ZenonT(40) DEF Wrap, Restream, Release
  <2>2. waits' \subseteq waits /\ \A w \in waits' : w.id # o
    BY <1>1, AbortedWaits, Zenon DEF Wrap
  <2>3. life'[o] # "parked" /\ \A p \in Ops \ {o} : life'[p] = life[p]
    BY <1>0, <1>1, Zenon DEF Wrap
  <2> QED
    BY <1>0, <2>1, <2>2, <2>3, NewStream, Zenon
<1>2. CASE AsyncWait(o)
  <2>1. Numbers' /\ UNCHANGED <<socket_, life>>
    BY <1>0, <1>2 DEF AsyncWait, descriptorVars, Numbers
  <2>2. \A w \in waits' : w \in waits \/ (w.id = o /\ socket_[o] # NoFd)
    BY <1>2, SMTT(30) DEF AsyncWait
  <2> QED
    BY <1>0, <2>1, <2>2, SameStreams, Zenon
<1>3. CASE CancelWaits(o)
  <2>1. Numbers' /\ UNCHANGED <<socket_, life>>
    BY <1>0, <1>3, Zenon DEF CancelWaits, descriptorVars, Numbers
  <2>2. waits' \subseteq waits
    BY <1>3, AbortedWaits, Zenon DEF CancelWaits
  <2> QED
    BY <1>0, <2>1, <2>2, SameStreams
<1>4. CASE Breaks(o)
  <2>1. Numbers' /\ UNCHANGED <<socket_, life, waits>>
    BY <1>0, <1>4, SocketChangesKeeps, ZenonT(40) DEF Breaks, SocketChanges
  <2> QED
    BY <1>0, <2>1, SameStreams
<1>5. CASE Close(o)
  <2>1. Numbers' /\ socket_'[o] = NoFd /\ \A p \in Ops \ {o} : socket_'[p] = socket_[p]
    BY <1>0, <1>5, CloseKeeps, ZenonT(40) DEF Close, CloseHandle, Release
  <2>2. waits' \subseteq waits /\ \A w \in waits' : w.id # o
    BY <1>5, AbortedWaits, Zenon DEF Close
  <2> QED
    BY <1>0, <1>5, <2>1, <2>2, NewStream, Zenon DEF Close
<1>6. CASE Drop(o)
  <2>1. waits' \subseteq waits /\ \A w \in waits' : w.id # o
    BY <1>6, AbortedWaits, Zenon DEF Drop
  <2>2. \A p \in Ops \ {o} : life'[p] = life[p]
    BY <1>0, <1>6, Zenon DEF Drop
  <2>3. CASE Release(o, NoFd, Without(watch, socket_[o])) /\ UNCHANGED fd
    <3>1. Numbers' /\ socket_'[o] = NoFd /\ \A p \in Ops \ {o} : socket_'[p] = socket_[p]
      BY <1>0, <2>3, ParkKeeps, ZenonT(40) DEF Release
    <3> QED
      BY <1>0, <2>1, <2>2, <3>1, NewStream, Zenon
  <2>4. CASE CloseHandle(o)
    <3>1. Numbers' /\ socket_'[o] = NoFd /\ \A p \in Ops \ {o} : socket_'[p] = socket_[p]
      BY <1>0, <2>4, CloseKeeps, ZenonT(40) DEF CloseHandle, Release
    <3> QED
      BY <1>0, <2>1, <2>2, <3>1, NewStream, Zenon
  <2> QED
    BY <1>6, <2>3, <2>4, Zenon DEF Drop
<1>7. CASE Reuse(o)
  <2>1. Numbers' /\ \A p \in Ops \ {o} : socket_'[p] = socket_[p]
    BY <1>0, <1>7, RestreamKeeps, ZenonT(40) DEF Reuse, Restream, Release
  <2>2. waits' = waits /\ \A w \in waits : w.id # o
    BY <1>7, Zenon DEF Reuse, Descriptors
  <2>3. life'[o] # "parked" /\ \A p \in Ops \ {o} : life'[p] = life[p]
    BY <1>0, <1>7 DEF Reuse
  <2> QED
    BY <1>0, <2>1, <2>2, <2>3, NewStream, Zenon
<1>8. CASE Evict(o)
  <2>1. Numbers' /\ socket_'[o] = NoFd /\ \A p \in Ops \ {o} : socket_'[p] = socket_[p]
    BY <1>0, <1>8, CloseKeeps, Zenon DEF Evict, CloseHandle, Release
  <2>2. waits' = waits /\ \A w \in waits : w.id # o
    BY <1>8, Zenon DEF Evict, Descriptors
  <2>3. \A p \in Ops \ {o} : life'[p] = life[p]
    BY <1>0, <1>8, Zenon DEF Evict
  <2> QED
    BY <1>0, <2>1, <2>2, <2>3, NewStream, Zenon
<1> QED
  BY <1>1, <1>2, <1>3, <1>4, <1>5, <1>6, <1>7, <1>8

\* Every step keeps what is true of the descriptors.
LEMMA DescriptorsStep == Protocol /\ Protocol' /\ Descriptors /\ [LifeNext]_lifeVars => Descriptors'
<1> USE ConnectAssumption
<1> SUFFICES ASSUME Protocol, Protocol', Descriptors, [LifeNext]_lifeVars PROVE Descriptors'
    BY Zenon
<1>0. ASSUME UNCHANGED <<descriptorVars, pc, life>>, waits' \subseteq waits PROVE Descriptors'
  <2>1. Numbers'
    BY <1>0, Zenon DEF descriptorVars, Descriptors, Numbers
  <2> QED
    BY <1>0, <2>1 DEF descriptorVars, Descriptors
<1>1. ASSUME NEW o \in Ops, Begin(o) \/ TimerExpires(o), UNCHANGED life PROVE Descriptors'
  BY <1>0, <1>1, Zenon DEF Begin, TimerExpires, streamVars, descriptorVars, connectVars
<1>2. ASSUME NEW o \in Ops, Perform(o), UNCHANGED life PROVE Descriptors'
  BY <1>2, PerformDescriptors, Zenon
<1>3. ASSUME NEW w \in Waits, Ready(w), UNCHANGED life PROVE Descriptors'
  BY <1>0, <1>3, Zenon DEF Ready, WaitReady, descriptorVars, connectVars
<1>4. ASSUME NEW e \in Handlers, RunHandler(e), UNCHANGED life PROVE Descriptors'
  <2>1. CASE e.op = "connect"
    BY <1>4, <2>1, OnWaitDescriptors, Zenon DEF RunHandler
  <2>2. CASE e.op = "timer"
    <3>1. e.id \in Ops /\ OnTimer(e.id, ready \ {e}) /\ ready \ {e} \subseteq ready
      BY <1>4, <2>2, Zenon DEF RunHandler, Handlers
    <3>2. waits' \subseteq waits
      BY <3>1, AbortedWaits, Zenon DEF OnTimer
    <3> QED
      BY <1>0, <1>4, <3>1, <3>2, Zenon DEF OnTimer, connectVars
  <2> QED
    BY <1>4, <2>1, <2>2, Zenon DEF RunHandler
<1>5. ASSUME NEW o \in Ops,
             Wrap(o) \/ AsyncWait(o) \/ CancelWaits(o) \/ Breaks(o) \/ Close(o) \/ Drop(o) \/ Reuse(o) \/ Evict(o)
      PROVE Descriptors'
  BY <1>5, UserDescriptors, Zenon
<1>6. ASSUME NEW e \in Handlers, RunUser(e) PROVE Descriptors'
  BY <1>0, <1>6, Zenon DEF RunUser, Elsewhere, descriptorVars
<1>7. CASE UNCHANGED lifeVars
  BY <1>0, <1>7 DEF lifeVars, vars, streamVars, connectVars, descriptorVars
<1> QED
  BY <1>1, <1>2, <1>3, <1>4, <1>5, <1>6, <1>7 DEF LifeNext, Next

(* No stream outlives the native handle it was made for, nor a wait its    *)
(* stream, and no two connections have the same socket: the order of       *)
(* release() and PQfinish in close(), in the destructors and in the pool.  *)
THEOREM StreamsOwnTheirSockets == LifeSpec => []OwnDescriptor
<1>1. Descriptors => OwnDescriptor
  BY ConnectAssumption, Zenon DEF Descriptors, Numbers, OwnDescriptor
<1> QED
  BY <1>1, ProtocolInit, ProtocolStep, DescriptorsInit, DescriptorsStep, PTL DEF LifeSpec

(* A stream with an open socket is on the reactor's list, unless one that  *)
(* had lost its socket was released with the same number: there is no      *)
(* other way for a wait never to end, whatever numbers the kernel reuses.  *)
THEOREM DeafnessHasACause == LifeSpec => []DeafForCause
<1>1. Descriptors => DeafForCause
  <2> SUFFICES ASSUME Descriptors PROVE DeafForCause
      BY Zenon
  <2>1. \A r \in watch : socket_[r[2]] = r[1] /\ fd[r[2]] = r[1]
    BY DEF Descriptors, Numbers
  <2> QED
    BY <2>1, ConnectAssumption DEF Descriptors, Numbers, DeafForCause
<1> QED
  BY <1>1, ProtocolInit, ProtocolStep, DescriptorsInit, DescriptorsStep, PTL DEF LifeSpec

-----------------------------------------------------------------------------
\* How far the connection is in each state of the connect, and what the error
\* code that waits for the timer says of it.
Progress ==
  /\ conn \in [Ops -> ConnStates]
  /\ saved \in [Ops -> Codes \cup {"none"}]
  /\ answer \in [Ops -> Codes \cup {"none"}]
  /\ \A o \in Ops :
       /\ pc[o] = "new" => conn[o] = NoHandle
       /\ pc[o] = "connect" => conn[o] = [NoHandle EXCEPT !.status = "connecting"]
       /\ pc[o] = "oids" => conn[o] = [status |-> "ok", txn |-> "active", oids |-> "unset"]
       /\ pc[o] # "end" /\ first_call[o] = 1 => saved[o] = "timed_out"
       /\ pc[o] = "end" /\ calls[o] = 0 =>
            conn[o] \in ConnectFailures /\ (saved[o] = "ok" => conn[o] = ConnectSuccess)

\* What an answer says is true of the connection.
Truthful(o) ==
  calls[o] = 0 /\ calls'[o] > 0 =>
    IF answer'[o] = "ok" THEN conn'[o] = ConnectSuccess ELSE conn'[o] \in ConnectFailures

\* No connect has begun.
LEMMA ProgressInit == LifeInit => Progress
  BY DEF LifeInit, Init, DeadlineInit, Progress, NoHandle, ConnStates

\* done(ec): the operation that comes first leaves its code, the other answers.
LEMMA DoneProgress ==
  ASSUME Protocol, Progress, NEW o \in Ops, NEW ec \in Codes, NEW q, Done(o, ec, q),
         pc[o] # "end", pc[o] = "new" => (o \in Timed => first_call[o] > 0),
         conn' \in [Ops -> ConnStates], \A p \in Ops \ {o} : conn'[p] = conn[p],
         conn'[o] \in ConnectFailures, ec = "ok" => conn'[o] = ConnectSuccess
  PROVE Progress' /\ \A p \in Ops : Truthful(p)
<1>0. /\ pc' = [pc EXCEPT ![o] = "end"] /\ OperationDone(o, ec) /\ calls[o] = 0
      /\ pc \in [Ops -> {"new", "connect", "oids", "end"}] /\ calls \in [Ops -> Nat] /\ first_call \in [Ops -> 0..2]
  BY DEF Done, Protocol, ProtocolTypeOK, Deadlined
<1>1. CASE (o \notin Timed \/ first_call[o] = 0) /\ Call(o, ec) /\ UNCHANGED <<first_call, timer, saved>>
  BY <1>0, <1>1 DEF Call, Progress, Truthful
<1>2. CASE /\ o \in Timed /\ first_call[o] = 2
           /\ first_call' = [first_call EXCEPT ![o] = 1]
           /\ saved' = [saved EXCEPT ![o] = ec] /\ UNCHANGED <<calls, answer>>
  BY <1>0, <1>2 DEF Progress, Truthful
<1>3. CASE /\ o \in Timed /\ first_call[o] = 1
           /\ first_call' = [first_call EXCEPT ![o] = 0]
           /\ Call(o, saved[o]) /\ UNCHANGED <<timer, saved>>
  BY <1>0, <1>3 DEF Call, Progress, Truthful
<1> QED
  BY <1>0, <1>1, <1>2, <1>3, Zenon DEF OperationDone

\* A wait begins.
LEMMA AwaitProgress ==
  ASSUME Protocol, Progress, NEW o \in Ops, NEW where \in {"connect", "oids"}, NEW q, Await(o, where, q),
         pc[o] # "end",
         conn' \in [Ops -> ConnStates], \A p \in Ops \ {o} : conn'[p] = conn[p],
         where = "connect" => conn'[o] = [NoHandle EXCEPT !.status = "connecting"],
         where = "oids" => conn'[o] = [status |-> "ok", txn |-> "active", oids |-> "unset"]
  PROVE Progress' /\ \A p \in Ops : Truthful(p)
<1>1. /\ UNCHANGED <<first_call, saved, calls, answer>>
      /\ pc' \in [Ops -> {"new", "connect", "oids", "end"}]
      /\ pc'[o] = where /\ \A p \in Ops \ {o} : pc'[p] = pc[p]
  BY DEF Await, deadlineVars, Protocol, ProtocolTypeOK
<1>2. \A p \in Ops : Truthful(p)
  BY <1>1 DEF Truthful
<1> DEFINE Good(c, p) ==
       /\ pc'[p] = "new" => c = NoHandle
       /\ pc'[p] = "connect" => c = [NoHandle EXCEPT !.status = "connecting"]
       /\ pc'[p] = "oids" => c = [status |-> "ok", txn |-> "active", oids |-> "unset"]
       /\ pc'[p] # "end" /\ first_call[p] = 1 => saved[p] = "timed_out"
       /\ pc'[p] = "end" /\ calls[p] = 0 =>
            c \in ConnectFailures /\ (saved[p] = "ok" => c = ConnectSuccess)
<1>3. Good(conn'[o], o)
  BY <1>1 DEF Progress
<1>4. \A p \in Ops \ {o} : Good(conn'[p], p)
  BY <1>1 DEF Progress
<1> QED
  BY <1>1, <1>2, <1>3, <1>4 DEF Progress

\* perform().
LEMMA PerformProgress ==
  ASSUME Protocol, Progress, NEW o \in Ops, Perform(o)
  PROVE Progress' /\ \A p \in Ops : Truthful(p)
<1>0. pc[o] = "new" /\ (o \in Timed => first_call[o] > 0) /\ conn[o] = NoHandle
  BY Zenon DEF Perform, Progress
<1>1. CASE (\E ec \in {"start_failed", "status_bad", "socket_failed"} : Done(o, ec, ready)) /\ UNCHANGED conn
  <2>1. PICK ec \in {"start_failed", "status_bad", "socket_failed"} : Done(o, ec, ready)
    BY <1>1
  <2>2. ec \in Codes /\ ec # "ok"
    BY DEF Codes
  <2>3. conn' \in [Ops -> ConnStates] /\ conn'[o] \in ConnectFailures
    BY <1>0, <1>1 DEF Progress, ConnectFailures
  <2> QED
    BY <1>0, <1>1, <2>1, <2>2, <2>3, DoneProgress, Zenon
<1>2. CASE conn' = [conn EXCEPT ![o].status = "connecting"] /\ Await(o, "connect", ready)
  <2>1. /\ conn' \in [Ops -> ConnStates] /\ \A p \in Ops \ {o} : conn'[p] = conn[p]
        /\ conn'[o] = [NoHandle EXCEPT !.status = "connecting"]
    BY <1>0, <1>2 DEF Progress, ConnStates, NoHandle
  <2> QED
    BY <1>0, <1>2, <2>1, AwaitProgress
<1> QED
  BY <1>1, <1>2 DEF Perform

\* async_connect_op::operator().
LEMMA OnPollProgress ==
  ASSUME Protocol, Progress, NEW o \in Ops, NEW ec \in {"ok", "aborted"}, NEW q, pc[o] = "connect", OnPoll(o, ec, q)
  PROVE Progress' /\ \A p \in Ops : Truthful(p)
<1> DEFINE polling == [status |-> "connecting", txn |-> "idle", oids |-> "unset"]
<1>0. conn[o] = polling /\ [NoHandle EXCEPT !.status = "connecting"] = polling /\ conn \in [Ops -> ConnStates]
  BY DEF Progress, NoHandle
<1>1. CASE ec # "ok" /\ Done(o, ec, q) /\ UNCHANGED conn
  <2>1. conn'[o] \in ConnectFailures /\ ec \in Codes
    BY <1>0, <1>1 DEF ConnectFailures, Codes
  <2> QED
    BY <1>0, <1>1, <2>1, DoneProgress
<1>2. CASE Await(o, "connect", q) /\ UNCHANGED conn
  BY <1>0, <1>2, AwaitProgress
<1>3. CASE conn' = [conn EXCEPT ![o].status = "bad"] /\ Done(o, "poll_failed", q)
  <2>1. /\ conn' \in [Ops -> ConnStates] /\ \A p \in Ops \ {o} : conn'[p] = conn[p]
        /\ conn'[o] \in ConnectFailures /\ "poll_failed" \in Codes
    BY <1>0, <1>3 DEF ConnStates, ConnectFailures, Codes
  <2> QED
    BY <1>3, <2>1, DoneProgress
<1>4. CASE Established(o, q)
  <2>1. CASE /\ conn' = [conn EXCEPT ![o] = [status |-> "ok", txn |-> "active", oids |-> "unset"]]
             /\ Await(o, "oids", q)
    <3>1. /\ conn' \in [Ops -> ConnStates] /\ \A p \in Ops \ {o} : conn'[p] = conn[p]
          /\ conn'[o] = [status |-> "ok", txn |-> "active", oids |-> "unset"]
      BY <1>0, <2>1, Zenon DEF ConnStates
    <3> QED
      BY <2>1, <3>1, AwaitProgress
  <2>2. CASE /\ conn' = [conn EXCEPT ![o] = [status |-> "ok", txn |-> "idle", oids |-> "unset"]]
             /\ Done(o, "request_failed", q)
    <3>1. /\ conn' \in [Ops -> ConnStates] /\ \A p \in Ops \ {o} : conn'[p] = conn[p]
          /\ conn'[o] \in ConnectFailures /\ "request_failed" \in Codes
      BY <1>0, <2>2, Zenon DEF ConnStates, ConnectFailures, Codes
    <3> QED
      BY <2>2, <3>1, DoneProgress
  <2>3. CASE conn' = [conn EXCEPT ![o] = ConnectSuccess] /\ Done(o, "ok", q)
    <3>1. /\ conn' \in [Ops -> ConnStates] /\ \A p \in Ops \ {o} : conn'[p] = conn[p]
          /\ conn'[o] = ConnectSuccess /\ ConnectSuccess \in ConnectFailures /\ "ok" \in Codes
      BY <1>0, <2>3 DEF ConnStates, ConnectFailures, ConnectSuccess, Codes
    <3> QED
      BY <2>3, <3>1, DoneProgress
  <2> QED
    BY <1>4, <2>1, <2>2, <2>3, Zenon DEF Established, RequestOids
<1> QED
  BY <1>1, <1>2, <1>3, <1>4, Zenon DEF OnPoll

\* The request for the oids, with set_oid_map.
LEMMA OnOidsProgress ==
  ASSUME Protocol, Progress, NEW o \in Ops, NEW ec \in {"ok", "aborted"}, NEW q, pc[o] = "oids", OnOids(o, ec, q)
  PROVE Progress' /\ \A p \in Ops : Truthful(p)
<1>0. conn[o] = [status |-> "ok", txn |-> "active", oids |-> "unset"] /\ conn \in [Ops -> ConnStates]
  BY Zenon DEF Progress
<1>1. CASE ec # "ok" /\ Done(o, ec, q) /\ UNCHANGED conn
  <2>1. conn'[o] \in ConnectFailures /\ ec \in Codes
    BY <1>0, <1>1 DEF ConnectFailures, Codes
  <2> QED
    BY <1>0, <1>1, <2>1, DoneProgress, Zenon
<1>2. CASE Await(o, "oids", q) /\ UNCHANGED conn
  BY <1>0, <1>2, AwaitProgress
<1>3. CASE /\ \/ conn' = [conn EXCEPT ![o] = [status |-> "bad", txn |-> "idle", oids |-> "unset"]]
              \/ conn' = [conn EXCEPT ![o].txn = "idle"]
           /\ Done(o, "request_failed", q)
  <2>1. /\ conn' \in [Ops -> ConnStates] /\ \A p \in Ops \ {o} : conn'[p] = conn[p]
        /\ conn'[o] \in ConnectFailures /\ "request_failed" \in Codes
    BY <1>0, <1>3, SMTT(30) DEF ConnStates, ConnectFailures, Codes
  <2> QED
    BY <1>3, <2>1, DoneProgress
<1>4. CASE \E known \in [1..Types -> BOOLEAN] :
             /\ conn' = [conn EXCEPT ![o] = [status |-> "ok", txn |-> "idle", oids |-> SetOidMap(known).oids]]
             /\ Done(o, SetOidMap(known).ec, q)
  <2>1. PICK known \in [1..Types -> BOOLEAN] :
             /\ conn' = [conn EXCEPT ![o] = [status |-> "ok", txn |-> "idle", oids |-> SetOidMap(known).oids]]
             /\ Done(o, SetOidMap(known).ec, q)
    BY <1>4, Zenon
  <2>2. \/ SetOidMap(known) = [oids |-> "loaded", ec |-> "ok"]
        \/ SetOidMap(known) = [oids |-> "partial", ec |-> "oid_request_failed"]
        \/ SetOidMap(known) = [oids |-> "unset", ec |-> "oid_request_failed"]
    BY Zenon DEF SetOidMap
  <2>3. \E x \in {"unset", "partial", "loaded"}, code \in {"ok", "oid_request_failed"} :
          /\ SetOidMap(known).oids = x /\ SetOidMap(known).ec = code /\ (code = "ok" => x = "loaded")
    BY <2>2
  <2>4. PICK x \in {"unset", "partial", "loaded"}, code \in {"ok", "oid_request_failed"} :
          /\ conn' = [conn EXCEPT ![o] = [status |-> "ok", txn |-> "idle", oids |-> x]] /\ Done(o, code, q)
          /\ (code = "ok" => x = "loaded")
    BY <2>1, <2>3, Zenon
  <2>5. /\ conn' \in [Ops -> ConnStates] /\ \A p \in Ops \ {o} : conn'[p] = conn[p]
        /\ conn'[o] = [status |-> "ok", txn |-> "idle", oids |-> x]
    BY <1>0, <2>4 DEF ConnStates
  <2>6. code \in Codes /\ conn'[o] \in ConnectFailures /\ (code = "ok" => conn'[o] = ConnectSuccess)
    BY <2>4, <2>5 DEF ConnectFailures, ConnectSuccess, Codes
  <2> QED
    BY <2>4, <2>5, <2>6, DoneProgress
<1> QED
  BY <1>1, <1>2, <1>3, <1>4, Zenon DEF OnOids

\* timer_handler.
LEMMA OnTimerProgress ==
  ASSUME Protocol, Progress, NEW e \in ready, e.op = "timer", OnTimer(e.id, ready \ {e})
  PROVE Progress' /\ \A p \in Ops : Truthful(p)
<1> USE ConnectAssumption
<1> DEFINE o == e.id
<1>0. o \in Ops /\ timer[o] = "queued" /\ UNCHANGED <<pc, conn>> /\ calls \in [Ops -> Nat] /\ first_call \in [Ops -> 0..2]
  BY DEF Protocol, ProtocolTypeOK, Handled, Handlers, OnTimer, connectVars
<1>1. CASE TimerFirst(o)
  <2>1. pc[o] # "end"
    BY <1>0, <1>1 DEF TimerFirst, Protocol, Deadlined
  <2>2. "timed_out" \in Codes
    BY DEF Codes
  <2> QED
    BY <1>0, <1>1, <2>1, <2>2, SMTT(30) DEF TimerFirst, Progress, Truthful
<1>2. CASE TimerSecond(o)
  <2>1. pc[o] = "end" /\ calls[o] = 0
    BY <1>0, <1>2 DEF TimerSecond, Protocol, Deadlined
  <2> QED
    BY <1>0, <1>2, <2>1, SMTT(30) DEF TimerSecond, Call, Progress, Truthful
<1> QED
  BY <1>1, <1>2 DEF OnTimer

\* What the users do with the connection comes after the answer.
LEMMA UserProgress ==
  ASSUME Protocol, Progress, NEW o \in Ops, calls[o] > 0, UNCHANGED <<deadlineVars, pc>>,
         conn' \in [Ops -> ConnStates], \A p \in Ops \ {o} : conn'[p] = conn[p]
  PROVE Progress' /\ \A p \in Ops : Truthful(p)
<1>1. pc[o] = "end"
  BY DEF Protocol, ProtocolTypeOK, Deadlined
<1>2. UNCHANGED <<first_call, saved, calls, answer, pc>>
  BY DEF deadlineVars
<1>3. Progress'
  BY <1>1, <1>2 DEF Progress
<1> QED
  BY <1>2, <1>3 DEF Truthful

\* Every step keeps the progress, and every answer is truthful.
LEMMA ProgressStep ==
  Protocol /\ Progress /\ [LifeNext]_lifeVars => Progress' /\ \A p \in Ops : Truthful(p)
<1> USE ConnectAssumption
<1> SUFFICES ASSUME Protocol, Progress, [LifeNext]_lifeVars PROVE Progress' /\ \A p \in Ops : Truthful(p)
    BY Zenon
<1>0. ASSUME UNCHANGED <<first_call, saved, calls, answer, pc, conn>> PROVE Progress' /\ \A p \in Ops : Truthful(p)
  <2>1. Progress'
    BY <1>0, Zenon DEF Progress
  <2> QED
    BY <1>0, <2>1 DEF Truthful
<1>1. ASSUME NEW o \in Ops, Begin(o) PROVE Progress' /\ \A p \in Ops : Truthful(p)
  <2>1. UNCHANGED <<saved, calls, answer, pc, conn>> /\ first_call' = [first_call EXCEPT ![o] = 2]
    BY <1>1 DEF Begin, DeadlineStart, connectVars
  <2>2. Progress'
    BY <2>1 DEF Progress, Protocol, ProtocolTypeOK
  <2> QED
    BY <2>1, <2>2 DEF Truthful
<1>2. ASSUME NEW o \in Ops, Perform(o) PROVE Progress' /\ \A p \in Ops : Truthful(p)
  BY <1>2, PerformProgress, Zenon
<1>3. ASSUME NEW o \in Ops, TimerExpires(o) PROVE Progress' /\ \A p \in Ops : Truthful(p)
  BY <1>0, <1>3 DEF TimerExpires, connectVars
<1>4. ASSUME NEW w \in Waits, Ready(w) PROVE Progress' /\ \A p \in Ops : Truthful(p)
  BY <1>0, <1>4, Zenon DEF Ready, deadlineVars, connectVars
<1>5. ASSUME NEW e \in Handlers, RunHandler(e) PROVE Progress' /\ \A p \in Ops : Truthful(p)
  <2>0. e \in ready /\ e.id \in Ops /\ (e.op = "connect" => e.ec \in {"ok", "aborted"})
    BY <1>5, Zenon DEF RunHandler, Handlers, Protocol, Handled
  <2>1. CASE e.op = "connect" /\ pc[e.id] = "connect" /\ OnPoll(e.id, e.ec, ready \ {e})
    BY <2>0, <2>1, OnPollProgress, Zenon
  <2>2. CASE e.op = "connect" /\ pc[e.id] = "oids" /\ OnOids(e.id, e.ec, ready \ {e})
    BY <2>0, <2>2, OnOidsProgress
  <2>3. CASE e.op = "timer" /\ OnTimer(e.id, ready \ {e})
    BY <2>0, <2>3, OnTimerProgress, Zenon
  <2> QED
    BY <1>5, <2>1, <2>2, <2>3, ZenonT(40) DEF RunHandler
<1>6. ASSUME NEW o \in Ops, Wrap(o) \/ AsyncWait(o) \/ CancelWaits(o) \/ Reuse(o)
      PROVE Progress' /\ \A p \in Ops : Truthful(p)
  BY <1>0, <1>6, Zenon DEF Wrap, AsyncWait, CancelWaits, Reuse, Elsewhere, deadlineVars
<1>7. ASSUME NEW o \in Ops, Breaks(o) \/ Close(o) \/ Drop(o) \/ Evict(o)
      PROVE Progress' /\ \A p \in Ops : Truthful(p)
  <2>1. calls[o] > 0 /\ UNCHANGED <<deadlineVars, pc>>
    BY <1>7 DEF Breaks, Close, Drop, Evict, InUse, Elsewhere, Protocol, ProtocolTypeOK
  <2>2. conn \in [Ops -> ConnStates] /\ NoHandle \in ConnStates
    BY Zenon DEF Progress, ConnStates, NoHandle
  <2>3. conn' \in [Ops -> ConnStates] /\ \A p \in Ops \ {o} : conn'[p] = conn[p]
    <3>1. CASE Breaks(o)
      BY <2>2, <3>1, Zenon DEF Breaks, ConnStates
    <3>2. CASE Close(o) \/ Drop(o) \/ Evict(o)
      BY <2>2, <3>2, Zenon DEF Close, Drop, Evict
    <3> QED
      BY <1>7, <3>1, <3>2
  <2> QED
    BY <2>1, <2>3, UserProgress, Zenon
<1>8. ASSUME NEW e \in Handlers, RunUser(e) PROVE Progress' /\ \A p \in Ops : Truthful(p)
  BY <1>0, <1>8, Zenon DEF RunUser, Elsewhere, deadlineVars
<1>9. CASE UNCHANGED lifeVars
  BY <1>0, <1>9 DEF lifeVars, vars, deadlineVars, connectVars
<1> QED
  BY <1>1, <1>2, <1>3, <1>4, <1>5, <1>6, <1>7, <1>8, <1>9, Zenon DEF LifeNext, Next

(* A connect that is answered without an error leaves an established, idle *)
(* connection with its oids, any other a state the pool is prepared for,   *)
(* also when the timer gives the answer, and whatever the server and the   *)
(* database say.                                                           *)
THEOREM AnswersAreTruthful == LifeSpec => EndsInOutcome
<1>1. Protocol /\ Progress /\ [LifeNext]_lifeVars =>
        [\A o \in Ops : calls[o] = 0 /\ calls'[o] > 0 =>
           IF answer'[o] = "ok" THEN conn'[o] = ConnectSuccess ELSE conn'[o] \in ConnectFailures]_vars
  BY ProgressStep DEF Truthful
<1> QED
  BY <1>1, ProtocolInit, ProtocolStep, ProgressInit, ProgressStep, PTL DEF LifeSpec, EndsInOutcome
=============================================================================
