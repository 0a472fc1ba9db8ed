---------------------------- MODULE AsyncRequest ----------------------------
(***************************************************************************)
(* impl/async_request.h of ozo, with impl/io.h and the I/O members of      *)
(* impl/connection.h: requests made one after the other on one connection. *)
(* Each request runs two operations over the same context: sending the     *)
(* query (async_send_query_params_op) and getting the result               *)
(* (async_get_result_op), which share query_state.  Their completion       *)
(* handlers and the handler of the deadline's timer run on a strand, in    *)
(* the order in which the reactor makes them ready; the first leg of both  *)
(* operations runs in the thread that makes the request.                   *)
(*                                                                         *)
(* libpq and the server are external.  Of libpq the model keeps the unsent *)
(* output, the parsed replies and whose reply is outstanding; a reply is   *)
(* one result and the final ReadyForQuery, and the server begins it once   *)
(* it has the whole query.                                                 *)
(***************************************************************************)
EXTENDS IoDeadline, Sequences, FiniteSets

CONSTANTS MaxOut,        \* pieces in which a query may have to be sent
          Kinds,         \* what results the server sends: "tuples", "error", "copy"
          MultiThread    \* does more than one thread run the io_context?

ASSUME RequestAssumption ==
  /\ Ops \subseteq Nat \ {0}
  /\ MaxOut \in Nat
  /\ Kinds \subseteq {"tuples", "error", "copy"}
  /\ MultiThread \in BOOLEAN

\* The requests, numbered in the order in which they are made.
Requests == Ops

VARIABLES state,     \* context::state
          pc,        \* where each request is
          result,    \* result_, the first result of the reply
          rwaits,    \* requests with an async_wait_read in the reactor
          wwaits,    \* requests with an async_wait_write in the reactor
          strand,    \* completion handlers ready to run, in order
          outbuf,    \* libpq: output not yet sent
          parsed,    \* libpq: input PQgetResult can return
          inbox,     \* input the kernel has and libpq has not read
          reply,     \* what the server has yet to send
          partial,   \* the kernel has input that completes no message
          inflight,  \* libpq: the request whose reply is not over, or 0
          broken,    \* the server has closed the connection
          closed     \* the user has closed the connection

opVars == <<state, pc, result>>
waits == <<rwaits, wwaits>>
libpqVars == <<outbuf, parsed, inbox, reply, partial, inflight, broken>>
vars == <<deadlineVars, opVars, waits, strand, libpqVars, closed>>

Codes == {"ok", "aborted", "timed_out", "no_connection", "send_failed", "flush_failed",
          "consume_failed", "bad_process", "sqlstate"}

Entries == [op : {"read", "write"}, req : Requests, ec : {"ok", "aborted"}]
             \cup [op : {"timer"}, req : Requests, ec : {"ok"}]
Tokens == [req : Requests, kind : Kinds \cup {"ready"}]

TypeOK ==
  /\ DeadlineTypeOK(Codes)
  /\ state \in [Requests -> {"error", "send_finish", "send_in_progress"}]
  /\ pc \in [Requests -> {"new", "made", "sent", "first", "drain", "spin", "end"}]
  /\ result \in [Requests -> Tokens \cup {[req |-> 0, kind |-> "none"]}]
  /\ rwaits \subseteq Requests /\ wwaits \subseteq Requests
  /\ strand \in Seq(Entries)
  /\ outbuf \in 0..MaxOut
  /\ parsed \in Seq(Tokens) /\ inbox \in Seq(Tokens) /\ reply \in Seq(Tokens)
  /\ partial \in BOOLEAN /\ broken \in BOOLEAN /\ closed \in BOOLEAN
  /\ inflight \in Requests \cup {0}

Init ==
  /\ DeadlineInit
  /\ state = [r \in Requests |-> "send_in_progress"]
  /\ pc = [r \in Requests |-> "new"]
  /\ result = [r \in Requests |-> [req |-> 0, kind |-> "none"]]
  /\ rwaits = {} /\ wwaits = {}
  /\ strand = <<>>
  /\ outbuf = 0 /\ parsed = <<>> /\ inbox = <<>> /\ reply = <<>> /\ partial = FALSE
  /\ inflight = 0 /\ broken = FALSE /\ closed = FALSE

-----------------------------------------------------------------------------
Entry(op, r, ec) == [op |-> op, req |-> r, ec |-> ec]

\* The handlers of the waits in S, in some order.
Aborts(op, S) ==
  CHOOSE s \in [1..Cardinality(S) -> {Entry(op, r, "aborted") : r \in S}] :
    \A r \in S : \E i \in DOMAIN s : s[i].req = r

\* The reactor cancels the waits of a socket, the reads first.
Aborted == Aborts("read", rwaits) \o Aborts("write", wwaits)

\* connection::cancel(), or the socket's release() in connection::close().
CancelWaits(q) ==
  /\ rwaits' = {} /\ wwaits' = {}
  /\ strand' = q \o Aborted

\* The entry that timer_.cancel() makes ready when r's operation comes first.
TimerEntry(r) == IF timer[r] = "armed" THEN <<Entry("timer", r, "ok")>> ELSE <<>>

\* done(ctx): the handler gets the result; what is ready to run is q.
Done(r, q) ==
  /\ OperationDone(r, "ok")
  /\ strand' = q \o TimerEntry(r)
  /\ UNCHANGED <<state, waits>>

\* done(ctx, ec): the other operation of the request is told, and cancelled.
DoneError(r, ec, q) ==
  /\ state' = [state EXCEPT ![r] = "error"]
  /\ rwaits' = {} /\ wwaits' = {}
  /\ OperationDone(r, ec)
  /\ strand' = q \o Aborted \o TimerEntry(r)

-----------------------------------------------------------------------------
(* async_send_query_params_op.                                             *)

\* PQflush in the send operation: it fails, or leaves `left` pieces unsent.
FlushFails == closed \/ (broken /\ outbuf > 0)

\* Mutant: the rest is not waited for.
FlushedNoWait(r, left, q) ==
  /\ outbuf' = left
  /\ state' = [state EXCEPT ![r] = IF left = 0 THEN "send_finish" ELSE @]
  /\ strand' = q
  /\ UNCHANGED <<waits, deadlineVars>>

Flushed(r, left, q) ==
  /\ outbuf' = left
  /\ state' = [state EXCEPT ![r] = IF left = 0 THEN "send_finish" ELSE @]
  /\ wwaits' = IF left = 0 THEN wwaits ELSE wwaits \cup {r}
  /\ strand' = q
  /\ UNCHANGED <<rwaits, deadlineVars>>

\* A user makes the next request; getting the connection may fail.
Make(r) ==
  /\ pc[r] = "new"
  /\ \A p \in Requests : p < r => calls[p] > 0
  /\ \/ pc' = [pc EXCEPT ![r] = "end"] /\ Call(r, "no_connection") /\ UNCHANGED <<first_call, timer, saved>>
     \/ pc' = [pc EXCEPT ![r] = "made"] /\ DeadlineStart(r)
  /\ UNCHANGED <<state, result, waits, strand, libpqVars, closed>>

\* perform(): PQsendQueryParams refuses while a reply is outstanding.
Send(r) ==
  /\ pc[r] = "made"
  /\ pc' = [pc EXCEPT ![r] = "sent"]
  /\ \/ DoneError(r, "send_failed", strand) /\ UNCHANGED libpqVars
     \/ /\ inflight = 0 /\ ~closed
        /\ inflight' = r
        /\ \E kind \in Kinds : reply' = IF broken THEN <<>> ELSE
             <<[req |-> r, kind |-> kind], [req |-> r, kind |-> "ready"]>>
        /\ \/ broken /\ DoneError(r, "flush_failed", strand) /\ outbuf' = MaxOut
           \/ \E left \in 0..MaxOut : Flushed(r, left, strand)
        /\ UNCHANGED <<parsed, inbox, partial, broken>>
  /\ UNCHANGED <<result, closed>>

\* operator() of the send operation, with the outcome ec of its wait.
OnWrite(r, ec, q) ==
  /\ \/ state[r] # "send_in_progress" /\ strand' = q /\ UNCHANGED <<deadlineVars, state, waits, libpqVars>>
     \/ /\ state[r] = "send_in_progress"
        /\ \/ ec # "ok" /\ DoneError(r, ec, q) /\ UNCHANGED libpqVars
           \/ ec = "ok" /\ FlushFails /\ DoneError(r, "flush_failed", q) /\ UNCHANGED libpqVars
           \/ /\ ec = "ok" /\ ~closed
              /\ \E left \in 0..outbuf : (left < outbuf \/ left = 0) /\ Flushed(r, left, q)
              /\ UNCHANGED <<parsed, inbox, reply, partial, inflight, broken>>
  /\ UNCHANGED <<pc, result>>

-----------------------------------------------------------------------------
(* async_get_result_op.                                                    *)

\* handle_result, for a result of the reply.
HandleResult(r, res, q) ==
  /\ pc' = [pc EXCEPT ![r] = "end"]
  /\ \/ res.kind = "tuples" /\ Done(r, q)
     \/ res.kind = "tuples" /\ DoneError(r, "bad_process", q)
     \/ res.kind = "error" /\ DoneError(r, "sqlstate", q)

\* The operation waits for input at `where`.
AwaitInput(r, where, q) ==
  /\ pc' = [pc EXCEPT ![r] = where]
  /\ rwaits' = rwaits \cup {r}
  /\ strand' = q
  /\ UNCHANGED <<deadlineVars, state, wwaits, inflight>>

\* The second loop: results are taken until there are none, p being parsed.
DrainLoop(r, res, p, q) ==
  \/ p = <<>> /\ parsed' = p /\ AwaitInput(r, "drain", q)
  \/ p # <<>> /\ parsed' = Tail(p) /\ inflight' = 0 /\ HandleResult(r, res, q)

\* Mutant: the first result is taken for the whole reply.
FirstLoopNoDrain(r, p, q) ==
  \/ p = <<>> /\ parsed' = p /\ AwaitInput(r, "first", q) /\ UNCHANGED result
  \/ /\ p # <<>>
     /\ result' = [result EXCEPT ![r] = Head(p)]
     /\ parsed' = Tail(p) /\ HandleResult(r, Head(p), q) /\ UNCHANGED inflight

\* The first loop, and what follows it.  libpq returns a COPY result again and
\* again while the COPY is on, so the second loop does not end.
FirstLoop(r, p, q) ==
  \/ p = <<>> /\ parsed' = p /\ AwaitInput(r, "first", q) /\ UNCHANGED result
  \/ /\ p # <<>>
     /\ result' = [result EXCEPT ![r] = Head(p)]
     /\ \/ Head(p).kind # "copy" /\ DrainLoop(r, Head(p), Tail(p), q)
        \/ /\ Head(p).kind = "copy"
           /\ pc' = [pc EXCEPT ![r] = "spin"]
           /\ parsed' = p /\ strand' = q
           /\ UNCHANGED <<deadlineVars, state, waits, inflight>>

\* perform(): nothing to do if sending has failed.
GetResult(r) ==
  /\ pc[r] = "sent"
  /\ \/ /\ state[r] = "error"
        /\ pc' = [pc EXCEPT ![r] = "end"]
        /\ UNCHANGED <<deadlineVars, state, result, waits, strand, parsed, inflight>>
     \/ state[r] # "error" /\ FirstLoop(r, parsed, strand)
  /\ UNCHANGED <<outbuf, inbox, reply, partial, broken, closed>>

\* PQconsumeInput reads what there is and tries to send what is left.
ConsumeFails == closed \/ (broken /\ (outbuf > 0 \/ (inbox = <<>> /\ ~partial)))

Consumes ==
  /\ ~closed
  /\ broken => inbox # <<>> \/ partial
  /\ inbox' = <<>> /\ partial' = FALSE
  /\ outbuf' \in 0..outbuf

\* operator() of the get operation, with the outcome ec of its wait.
OnRead(r, ec, q) ==
  /\ \/ /\ state[r] = "error"
        /\ strand' = q
        /\ UNCHANGED <<deadlineVars, opVars, waits, libpqVars>>
     \/ /\ state[r] # "error" /\ ec # "ok"
        /\ DoneError(r, ec, q)
        /\ UNCHANGED <<pc, result, libpqVars>>
     \/ /\ state[r] # "error" /\ ec = "ok" /\ ConsumeFails
        /\ \/ pc[r] = "first" /\ DoneError(r, "consume_failed", q) /\ UNCHANGED pc
           \/ pc[r] = "drain" /\ HandleResult(r, result[r], q)
        /\ UNCHANGED <<result, libpqVars>>
     \/ /\ state[r] # "error" /\ ec = "ok" /\ Consumes
        /\ \/ pc[r] = "first" /\ FirstLoop(r, parsed \o inbox, q)
           \/ pc[r] = "drain" /\ DrainLoop(r, result[r], parsed \o inbox, q) /\ UNCHANGED result
        /\ UNCHANGED <<reply, broken>>

-----------------------------------------------------------------------------
\* timer_handler of the deadline.
OnTimer(r, q) ==
  /\ \/ TimerFirst(r) /\ CancelWaits(q)
     \/ TimerSecond(r) /\ strand' = q /\ UNCHANGED waits
  /\ UNCHANGED <<opVars, libpqVars>>

\* The strand runs one handler at a time.  With one thread, that thread also
\* makes the requests.
StrandFree == \A r \in Requests : pc[r] # "spin" /\ (MultiThread \/ pc[r] \notin {"made", "sent"})

RunHandler ==
  /\ strand # <<>>
  /\ StrandFree
  /\ LET e == Head(strand) q == Tail(strand) IN
       \/ e.op = "write" /\ OnWrite(e.req, e.ec, q)
       \/ e.op = "read" /\ OnRead(e.req, e.ec, q)
       \/ e.op = "timer" /\ OnTimer(e.req, q)
  /\ UNCHANGED closed

-----------------------------------------------------------------------------
(* The reactor.  The socket is writable again no later than the server has *)
(* the whole query; when both waits are due one thread completes the write *)
(* first, several threads do so in any order.                              *)

WriteReady(r) ==
  /\ r \in wwaits
  /\ wwaits' = wwaits \ {r}
  /\ strand' = Append(strand, Entry("write", r, "ok"))
  /\ UNCHANGED <<deadlineVars, opVars, rwaits, libpqVars, closed>>

ReadReady(r) ==
  /\ r \in rwaits
  /\ inbox # <<>> \/ partial \/ broken
  /\ MultiThread \/ wwaits = {} \/ outbuf > 0
  /\ rwaits' = rwaits \ {r}
  /\ strand' = Append(strand, Entry("read", r, "ok"))
  /\ UNCHANGED <<deadlineVars, opVars, wwaits, libpqVars, closed>>

TimerExpires(r) ==
  /\ timer[r] = "armed"
  /\ timer' = [timer EXCEPT ![r] = "queued"]
  /\ strand' = Append(strand, Entry("timer", r, "ok"))
  /\ UNCHANGED <<first_call, saved, calls, answer, opVars, waits, libpqVars, closed>>

(* The server: it replies when it has the query, may send what completes   *)
(* no message (a notice, a part of a row) and may go away.                 *)
ServerReplies ==
  /\ ~broken /\ outbuf = 0 /\ reply # <<>>
  /\ inbox' = Append(inbox, Head(reply))
  /\ reply' = Tail(reply)
  /\ UNCHANGED <<deadlineVars, opVars, waits, strand, outbuf, parsed, partial, inflight, broken, closed>>

ServerTrickles ==
  /\ ~broken /\ inflight # 0
  /\ partial' = TRUE
  /\ UNCHANGED <<deadlineVars, opVars, waits, strand, outbuf, parsed, inbox, reply, inflight, broken, closed>>

ServerCloses ==
  /\ ~broken
  /\ broken' = TRUE /\ reply' = <<>>
  /\ UNCHANGED <<deadlineVars, opVars, waits, strand, outbuf, parsed, inbox, partial, inflight, closed>>

\* connection::close() by a user who kept the connection.
UserCloses ==
  /\ ~closed
  /\ \A r \in Requests : pc[r] \notin {"made", "sent", "spin"}
  /\ closed' = TRUE
  /\ CancelWaits(strand)
  /\ outbuf' = 0 /\ parsed' = <<>> /\ inbox' = <<>> /\ reply' = <<>>
  /\ partial' = FALSE /\ inflight' = 0
  /\ UNCHANGED <<deadlineVars, opVars, broken>>

Next ==
  \/ \E r \in Requests : Make(r) \/ Send(r) \/ GetResult(r)
  \/ RunHandler
  \/ \E r \in Requests : WriteReady(r) \/ ReadReady(r) \/ TimerExpires(r)
  \/ ServerReplies
  \/ ServerTrickles
  \/ ServerCloses
  \/ UserCloses

Spec == Init /\ [][Next]_vars

\* The thread that makes a request goes on, the strand runs what is ready, and
\* the reactor and the timers report what is due.
LocalFairness ==
  /\ \A r \in Requests :
       /\ WF_vars(Send(r)) /\ WF_vars(GetResult(r))
       /\ WF_vars(ReadReady(r)) /\ WF_vars(TimerExpires(r))
  /\ WF_vars(RunHandler)

\* The server reads and answers the queries.
ServerFairness ==
  /\ \A r \in Requests : WF_vars(WriteReady(r))
  /\ WF_vars(ServerReplies)

LocalFairSpec == Spec /\ LocalFairness
FairSpec == Spec /\ LocalFairness /\ ServerFairness

-----------------------------------------------------------------------------
(* The handler of a request is called once, although two operations and a  *)
(* timer can each find that the request is over.                           *)
HandlerOnce == \A r \in Requests : calls[r] <= 1

(* The handler is called once, and then nothing of the request is left on  *)
(* the connection: no wait that would take the next request's events, and  *)
(* no timer that would cancel the next request.                            *)
QuietAfterAnswer ==
  \A r \in Requests : calls[r] > 0 =>
    calls[r] = 1 /\ r \notin rwaits \cup wwaits /\ timer[r] \in {"off", "ran"}

(* A request succeeds only with a result, and when libpq has seen the      *)
(* whole reply, so that the connection takes the next query; the exception *)
(* is a connection lost after the result had arrived.                      *)
SuccessMeansDrained ==
  \A r \in Requests : answer[r] = "ok" =>
    result[r].kind = "tuples" /\ (inflight = r => broken)

(* A request that was made is answered if the server answers, unless the   *)
(* answer is a COPY result: libpq returns it as long as the COPY is on,    *)
(* and the loop that drains the reply has no other end.                    *)
RequestAnswered == \A r \in Requests : pc[r] = "made" ~> (calls[r] > 0 \/ pc[r] = "spin")

-----------------------------------------------------------------------------
(* request.h, on a request with a time constraint: "The request would be  *)
(* cancelled if time constrain is reached while performing."             *)
TimedRequestAnswered == \A r \in Timed : pc[r] = "made" ~> calls[r] > 0

(* async_request.h, in the send operation: "if data has been flushed or    *)
(* error has been set by read operation no write operation handling is     *)
(* needed anymore."  Once the result was processed the write handler does  *)
(* nothing: in particular it does not finish the request again.            *)
NoWriteHandlingAfterResult == HandlerOnce
=============================================================================
