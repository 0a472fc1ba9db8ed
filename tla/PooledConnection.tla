-------------------------- MODULE PooledConnection --------------------------
(***************************************************************************)
(* connection_pool.h and impl/connection_pool.h of ozo: connections kept   *)
(* in the cells of a resource pool (ResourcePool, which AsyncPool          *)
(* implements).  A user asks for a connection, gets the one in the cell if *)
(* libpq does not call it bad, or waits for a new one (ConnectOutcome,     *)
(* which AsyncConnect ends in).  When the user lets go of the connection   *)
(* its destructor decides whether the next user may have it.               *)
(*                                                                         *)
(* Timers are taken to be punctual: time does not pass a limit that was    *)
(* set until the wait it limits is over.                                   *)
(***************************************************************************)
EXTENDS Integers, ConnectOutcome, BeginStatement

CONSTANTS Users, Cells, NoCell,
          Constraint,  \* the time constraint of each user: "none", "duration" or "deadline"
          T,           \* its length
          Bound,       \* what bind_get_connection_timeout limits each user to, or Unbound
          Options,     \* the option maps of the transactions that are begun
          TimeMax      \* bound of the clock

Never == -1
Unbound == -1

ASSUME PooledAssumption ==
  /\ NoCell \notin Cells
  /\ Constraint \in [Users -> {"none", "duration", "deadline"}]
  /\ T \in Nat
  /\ Bound \in [Users -> Nat \cup {Unbound}]
  /\ Options \subseteq OptionMaps
  /\ TimeMax \in Nat

VARIABLES pending, holder,  \* of the resource pool
          content,          \* the connection in each cell, or Empty
          phase,            \* "idle", "queue", "connect", "using"
          ec,               \* "failed" once a user was given an error, or "ok"
          layer,            \* what the user holds: see Layers
          options,          \* the options of the user's transaction object
          characteristics,  \* those of the transaction the server has open
          context,          \* error_context_ in each cell: empty, of this or of an earlier user
          last,             \* how the user's last operation was started and ended: see Lasts
          asked,            \* when each user asked
          expires,          \* when the wait of each user ends, or Never
          now

poolVars == <<pending, holder>>
userVars == <<ec, layer, options, characteristics, context, last>>
vars == <<poolVars, content, phase, userVars, asked, expires, now>>

Pool == INSTANCE ResourcePool WITH Requests <- Users

Empty == [status |-> "empty", txn |-> "idle", oids |-> "unset"]
\* A connection, a transaction, the connection released from one that is still
\* open, or a transaction begun while another was open.
Layers == {"connection", "transaction", "released", "second"}

\* The connection was handed over ("got", with an error "got_failed"), an
\* operation was given the pool ("served", "got_failed") or the connection.
Lasts == {"got", "served", "got_failed", "ok", "failed"}

TypeOK ==
  /\ pending \subseteq Users
  /\ holder \in [Users -> Cells \cup {NoCell}]
  /\ content \in [Cells -> ConnStates \cup {Empty}]
  /\ phase \in [Users -> {"idle", "queue", "connect", "using"}]
  /\ ec \in [Users -> {"ok", "failed"}]
  /\ layer \in [Users -> Layers]
  /\ options \in [Users -> OptionMaps]
  /\ characteristics \in [Cells -> [OptionNames -> Values]]
  /\ context \in [Cells -> {"empty", "own", "old"}]
  /\ last \in [Users -> Lasts]
  /\ asked \in [Users -> Nat]
  /\ expires \in [Users -> Nat \cup {Never}]
  /\ now \in Nat

Init ==
  /\ Pool!PoolInit
  /\ content = [c \in Cells |-> Empty]
  /\ phase = [u \in Users |-> "idle"]
  /\ ec = [u \in Users |-> "ok"]
  /\ layer = [u \in Users |-> "connection"]
  /\ options = [u \in Users |-> NoOptions]
  /\ characteristics = [c \in Cells |-> SessionDefaults]
  /\ context = [c \in Cells |-> "empty"]
  /\ last = [u \in Users |-> "got"]
  /\ asked = [u \in Users |-> 0]
  /\ expires = [u \in Users |-> Never]
  /\ now = 0

-----------------------------------------------------------------------------
\* bind_get_connection_timeout::timeout: the pool is given a duration, whatever
\* the user has given; unbound, it is given what the user has.
Given(u) ==
  IF Bound[u] = Unbound THEN [kind |-> Constraint[u], t |-> T]
  ELSE [kind |-> "duration",
        t |-> IF Constraint[u] # "none" /\ T < Bound[u] THEN T ELSE Bound[u]]

\* queue_timeout(): a user without a constraint does not wait at all.
QueueTimeout(u) == IF Given(u).kind = "none" THEN 0 ELSE Given(u).t

\* connection_pool::operator(): get_auto_recycle of the resource pool.
Ask(u) ==
  /\ phase[u] = "idle"
  /\ Pool!Call(u)
  /\ phase' = [phase EXCEPT ![u] = "queue"]
  /\ asked' = [asked EXCEPT ![u] = now]
  /\ expires' = [expires EXCEPT ![u] = now + QueueTimeout(u)]
  /\ UNCHANGED <<content, userVars, now>>

\* The pool has no cell for the user, in time or at all.
Refused(u) ==
  /\ Pool!Refuse(u)
  /\ phase' = [phase EXCEPT ![u] = "idle"]
  /\ asked' = [asked EXCEPT ![u] = 0]
  /\ expires' = [expires EXCEPT ![u] = Never]
  /\ UNCHANGED <<content, userVars, now>>

\* connection_status_bad()
StatusBad(k) == k.status \in {"none", "bad"}

\* pooled_connection_wrapper::operator(): the connection of the cell, with the
\* error context that is in it ...
Reuse(u, c) ==
  /\ content[c] # Empty
  /\ ~StatusBad(content[c])
  /\ phase' = [phase EXCEPT ![u] = "using"]
  /\ expires' = [expires EXCEPT ![u] = Never]
  /\ context' = [context EXCEPT ![c] = IF @ = "own" THEN "old" ELSE @]

\* Mutant: a deadline is taken for the length of time from now on.
ConnectRestarts(u, c) ==
  /\ content[c] = Empty \/ StatusBad(content[c])
  /\ phase' = [phase EXCEPT ![u] = "connect"]
  /\ expires' = [expires EXCEPT ![u] = IF Given(u).kind = "none" THEN Never ELSE now + Given(u).t]
  /\ UNCHANGED context

\* ... or a new one, for which the same time constraint is given to the source:
\* a deadline stays where it is, a duration starts again.
Connect(u, c) ==
  /\ content[c] = Empty \/ StatusBad(content[c])
  /\ phase' = [phase EXCEPT ![u] = "connect"]
  /\ expires' = [expires EXCEPT ![u] =
       IF Given(u).kind = "none" THEN Never
       ELSE IF Given(u).kind = "duration" THEN now + Given(u).t ELSE asked[u] + T]
  /\ UNCHANGED context

Granted(u, c) ==
  /\ now <= expires[u]
  /\ Pool!Grant(u, c)
  /\ Reuse(u, c) \/ Connect(u, c)
  /\ UNCHANGED <<content, ec, layer, options, characteristics, last, asked, now>>

\* Mutant: the error code of the source is not passed on.
ConnectedNoError(u) ==
  /\ phase[u] = "connect"
  /\ \E k \in ConnectFailures : content' = [content EXCEPT ![holder[u]] = k]
  /\ phase' = [phase EXCEPT ![u] = "using"]
  /\ expires' = [expires EXCEPT ![u] = Never]
  /\ UNCHANGED <<poolVars, userVars, asked, now>>

\* wrapper::operator(): the new connection goes into the cell with its error
\* context, whether it is established or not; when the source has none to give,
\* so does the user.
Connected(u) ==
  /\ phase[u] = "connect"
  /\ \/ /\ content' = [content EXCEPT ![holder[u]] = ConnectSuccess]
        /\ context' = [context EXCEPT ![holder[u]] = "empty"]
        /\ phase' = [phase EXCEPT ![u] = "using"]
        /\ UNCHANGED <<poolVars, ec, last, asked>>
     \/ /\ \E k \in ConnectFailures : content' = [content EXCEPT ![holder[u]] = k]
        /\ \E x \in {"empty", "own"} : context' = [context EXCEPT ![holder[u]] = x]
        /\ ec' = [ec EXCEPT ![u] = "failed"]
        /\ last' = [last EXCEPT ![u] = "got_failed"]
        /\ phase' = [phase EXCEPT ![u] = "using"]
        /\ UNCHANGED <<poolVars, asked>>
     \/ /\ phase' = [phase EXCEPT ![u] = "idle"]
        /\ asked' = [asked EXCEPT ![u] = 0]
        /\ Pool!GiveUp(u)
        /\ UNCHANGED <<content, context, ec, last>>
  /\ expires' = [expires EXCEPT ![u] = Never]
  /\ UNCHANGED <<layer, options, characteristics, now>>

-----------------------------------------------------------------------------
(* What the users do with their connections.                               *)

\* A request that fails: the server reports an error, the time is over before
\* the reply, or the connection breaks.  Nothing is sent while a reply is due,
\* or when there is no connection.
Failures(k) ==
  IF k.status # "ok" THEN {k}
  ELSE {[k EXCEPT !.txn = IF @ = "intrans" THEN "inerror" ELSE @],
        [k EXCEPT !.txn = "active"],
        [k EXCEPT !.status = "bad"]}

\* Mutant: forward_connection leaves the error context as it is.
ContextKept(u, through) == context[holder[u]]

\* The error context an operation starts with: forward_connection resets it when
\* the operation is given the connection, nobody does when it is given the pool.
ContextAtStart(u, through) == IF through = "source" THEN context[holder[u]] ELSE "empty"

\* What last becomes when an operation given through ends.
Ended(through, ok) ==
  IF through = "source" THEN IF ok THEN "served" ELSE "got_failed"
  ELSE IF ok THEN "ok" ELSE "failed"

\* A request of which success leaves the connection as `after`.  An error of the
\* send leaves the context alone, one of the result fills an empty one, one of
\* the processing replaces it.
Request(u, after) ==
  LET c == holder[u] IN
  /\ phase[u] = "using"
  /\ \E through \in {"source", "connection"} :
       /\ through = "source" => last[u] = "got"
       /\ \/ /\ content[c].status = "ok"
             /\ content[c].txn # "active"
             /\ content' = [content EXCEPT ![c] = after]
             /\ context' = [context EXCEPT ![c] = ContextAtStart(u, through)]
             /\ last' = [last EXCEPT ![u] = Ended(through, TRUE)]
             /\ UNCHANGED ec
          \/ /\ \E f \in Failures(content[c]) : content' = [content EXCEPT ![c] = f]
             /\ \E x \in {ContextAtStart(u, through), "own"} : context' = [context EXCEPT ![c] = x]
             /\ last' = [last EXCEPT ![u] = Ended(through, FALSE)]
             /\ ec' = [ec EXCEPT ![u] = "failed"]
  /\ UNCHANGED <<poolVars, phase, asked, expires, now>>

Execute(u) ==
  /\ Request(u, content[holder[u]])
  /\ UNCHANGED <<layer, options, characteristics>>

\* async_start_transaction: the user gets a transaction, also with an error.  A
\* server that has a transaction open warns, and may take the options for it.
StartTransaction(u, o) ==
  /\ layer[u] \in {"connection", "released"}
  /\ Request(u, [content[holder[u]] EXCEPT !.txn = IF @ = "idle" THEN "intrans" ELSE @])
  /\ layer' = [layer EXCEPT ![u] = IF @ = "connection" THEN "transaction" ELSE "second"]
  /\ options' = [options EXCEPT ![u] = o]
  /\ \/ characteristics' = [characteristics EXCEPT ![holder[u]] = Begun(@, build(o))]
     \/ (layer[u] = "released" \/ ec'[u] = "failed") /\ UNCHANGED characteristics

\* Mutant: the connection is released and the statement never sent.
EndTransactionEarly(u) ==
  /\ layer[u] \in {"transaction", "second"}
  /\ phase[u] = "using"
  /\ layer' = [layer EXCEPT ![u] = "connection"]
  /\ options' = [options EXCEPT ![u] = NoOptions]
  /\ UNCHANGED <<poolVars, content, phase, ec, characteristics, context, last, asked, expires, now>>

\* async_end_transaction: the connection is released, also with an error.
EndTransaction(u) ==
  /\ layer[u] \in {"transaction", "second"}
  /\ Request(u, [content[holder[u]] EXCEPT !.txn = "idle"])
  /\ layer' = [layer EXCEPT ![u] = "connection"]
  /\ options' = [options EXCEPT ![u] = NoOptions]
  /\ characteristics' = [characteristics EXCEPT ![holder[u]] = SessionDefaults]

\* release_connection(): "no commit or rollback will be made".
ReleaseConnection(u) ==
  /\ phase[u] = "using"
  /\ layer[u] \in {"transaction", "second"}
  /\ layer' = [layer EXCEPT ![u] = "released"]
  /\ options' = [options EXCEPT ![u] = NoOptions]
  /\ UNCHANGED <<poolVars, content, phase, ec, characteristics, context, last, asked, expires, now>>

\* pooled_connection::close()
Close(u) ==
  /\ phase[u] = "using"
  /\ content[holder[u]].status = "ok"
  /\ content' = [content EXCEPT ![holder[u]].status = "none"]
  /\ UNCHANGED <<poolVars, phase, userVars, asked, expires, now>>

\* Mutant: only a connection that libpq calls bad is wasted.
MustWasteStatusBad(k) == StatusBad(k) \/ k.txn # "idle"

\* ~pooled_connection(): is_bad(), or in a transaction.
MustWaste(k) == k.status # "ok" \/ k.txn # "idle"

Drop(u) ==
  /\ phase[u] = "using"
  /\ phase' = [phase EXCEPT ![u] = "idle"]
  /\ content' = [content EXCEPT ![holder[u]] = IF MustWaste(@) THEN Empty ELSE @]
  /\ context' = [context EXCEPT ![holder[u]] = IF MustWaste(content[holder[u]]) THEN "empty" ELSE @]
  /\ characteristics' = [characteristics EXCEPT ![holder[u]] = SessionDefaults]
  /\ ec' = [ec EXCEPT ![u] = "ok"]
  /\ layer' = [layer EXCEPT ![u] = "connection"]
  /\ options' = [options EXCEPT ![u] = NoOptions]
  /\ last' = [last EXCEPT ![u] = "got"]
  /\ asked' = [asked EXCEPT ![u] = 0]
  /\ Pool!GiveUp(u)
  /\ UNCHANGED <<expires, now>>

\* The storage drops a connection that is not in use: idle, old or invalidated.
DropParked(c) ==
  /\ c \notin Pool!Held
  /\ content[c] # Empty
  /\ content' = [content EXCEPT ![c] = Empty]
  /\ context' = [context EXCEPT ![c] = "empty"]
  /\ UNCHANGED <<poolVars, phase, ec, layer, options, characteristics, last, asked, expires, now>>

Tick ==
  /\ now < TimeMax
  /\ \A u \in Users : expires[u] # Never => now < expires[u]
  /\ now' = now + 1
  /\ UNCHANGED <<poolVars, content, phase, userVars, asked, expires>>

Next ==
  \/ \E u \in Users :
       \/ Ask(u) \/ Refused(u) \/ Connected(u)
       \/ Execute(u) \/ EndTransaction(u) \/ ReleaseConnection(u) \/ Close(u)
       \/ Drop(u)
  \/ \E u \in Users, o \in Options : StartTransaction(u, o)
  \/ \E u \in Users, c \in Cells : Granted(u, c)
  \/ \E c \in Cells : DropParked(c)
  \/ Tick

Spec == Init /\ [][Next]_vars

-----------------------------------------------------------------------------
(* A connection that waits in the pool is established and outside any      *)
(* transaction: ~pooled_connection() lets no other one through, also not   *)
(* one whose connect has timed out half way.                               *)
ParkedIsClean ==
  \A c \in Cells \ Pool!Held :
    content[c] = Empty \/ (content[c].status = "ok" /\ content[c].txn = "idle")

(* Nobody inherits a transaction: a user who is given a connection without *)
(* an error gets an established one that is idle, whatever the users       *)
(* before have done with it.                                               *)
CleanHandOut ==
  [][\A u \in Users : phase[u] # "using" /\ phase'[u] = "using" /\ ec'[u] = "ok" =>
       content'[holder'[u]].status = "ok" /\ content'[holder'[u]].txn = "idle"]_vars

(* A user who was told of no error holds a transaction, or has released it *)
(* and knows, if and only if the server has one open, and the server's has *)
(* the options that the transaction object reports: begin and commit       *)
(* change both together, the statement says what was asked for, and        *)
(* nothing in between changes it.                                          *)
TransactionKnown ==
  \A u \in Users : phase[u] = "using" /\ ec[u] = "ok" /\ content[holder[u]].status = "ok" =>
    /\ content[holder[u]].txn = IF layer[u] = "connection" THEN "idle" ELSE "intrans"
    /\ layer[u] = "transaction" => characteristics[holder[u]] = Reported(options[u])

(* The error context that a user sees belongs to their own last operation, *)
(* which failed, or was in the connection when the pool handed it over and *)
(* no operation has been given the connection since: only then does a text *)
(* of an earlier user explain an error, or a success.                      *)
ContextForCause ==
  \A u \in Users : phase[u] = "using" =>
    /\ context[holder[u]] = "own" => last[u] \in {"failed", "got_failed"}
    /\ context[holder[u]] = "old" => last[u] \in {"got", "served", "got_failed"}

(* How long a user waits for an answer: a deadline limits the queue and    *)
(* the connect together, a duration each of them, and without a time       *)
(* constraint nobody waits in the queue.  A bound on the time to get a     *)
(* connection limits each of the two, and makes a duration of a deadline.  *)
WaitLimits ==
  \A u \in Users : phase[u] \in {"queue", "connect"} =>
    /\ Constraint[u] # "none" => now <= asked[u] + 2 * T
    /\ Bound[u] # Unbound => now <= asked[u] + 2 * Bound[u]
    /\ Bound[u] = Unbound =>
         /\ Constraint[u] = "deadline" => now <= asked[u] + T
         /\ Constraint[u] = "none" /\ phase[u] = "queue" => now = asked[u]

-----------------------------------------------------------------------------
(* connection.h on ConnectionSource: "If there is no error_code code set,  *)
(* the connection object should be in a valid state."  A connection whose  *)
(* oid map is not loaded cannot send or receive the user's types.          *)
HandsOutLoadedOids ==
  [][\A u \in Users : phase[u] # "using" /\ phase'[u] = "using" /\ ec'[u] = "ok" =>
       content'[holder'[u]].oids = "loaded"]_vars
=============================================================================
