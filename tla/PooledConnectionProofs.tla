----------------------- MODULE PooledConnectionProofs -----------------------
(***************************************************************************)
(* Proofs about PooledConnection for all users, cells and constraints.     *)
(* ParkedIsClean is not inductive by itself: a cell goes back from a user  *)
(* who waits for a connect, and a free cell must not be held by another    *)
(* user.  PooledInv adds what the phases say about the cells and the       *)
(* users, that cells are held once, that no server has a transaction its   *)
(* user does not know of, and when the waits end.                          *)
(***************************************************************************)
EXTENDS PooledConnection, TLAPS

Holding(u) == phase[u] \in {"connect", "using"}

Clean(k) == k = Empty \/ (k.status = "ok" /\ k.txn = "idle")

Phases ==
  \A u \in Users :
    /\ Holding(u) <=> holder[u] # NoCell
    /\ phase[u] = "queue" <=> u \in pending
    /\ phase[u] = "connect" => content[holder[u]] = Empty
    /\ phase[u] = "using" => content[holder[u]] # Empty
    /\ phase[u] # "using" => ec[u] = "ok" /\ layer[u] = "connection" /\ last[u] = "got"

HeldOnce == \A u, v \in Users : holder[u] # NoCell /\ holder[u] = holder[v] => u = v

Parked == \A c \in Cells : (\A u \in Users : holder[u] # c) => Clean(content[c])

\* A cell that is free, or waits for a connect, has no transaction on its
\* server; neither has one whose user holds the connection and knows of no error.
Unbegun ==
  /\ \A c \in Cells : (\A u \in Users : holder[u] # c) => characteristics[c] = SessionDefaults
  /\ \A u \in Users : Holding(u) /\ ec[u] = "ok" /\ layer[u] = "connection" =>
       characteristics[holder[u]] = SessionDefaults

Waits ==
  \A u \in Users :
    /\ phase[u] = "queue" => /\ asked[u] <= now /\ now <= expires[u]
                             /\ expires[u] = asked[u] + QueueTimeout(u)
    /\ phase[u] = "connect" /\ Given(u).kind = "deadline" =>
         now <= expires[u] /\ expires[u] = asked[u] + T
    /\ phase[u] = "connect" /\ Given(u).kind = "duration" =>
         now <= expires[u] /\ expires[u] <= asked[u] + 2 * Given(u).t

PooledInv ==
  /\ TypeOK /\ Phases /\ HeldOnce /\ Parked /\ Unbegun
  /\ TransactionKnown /\ ContextForCause /\ Waits

-----------------------------------------------------------------------------
(* The states of connections the actions store are connection states.      *)
LEMMA States ==
  /\ ConnectSuccess \in ConnStates
  /\ ConnectFailures \subseteq ConnStates
  /\ Empty \notin ConnStates
  /\ \A k \in ConnStates : Failures(k) \subseteq ConnStates
  /\ \A k \in ConnStates : [k EXCEPT !.txn = "idle"] \in ConnStates
  /\ \A k \in ConnStates : [k EXCEPT !.txn = IF @ = "idle" THEN "intrans" ELSE @] \in ConnStates
  /\ \A k \in ConnStates : [k EXCEPT !.status = "none"] \in ConnStates
  /\ ConnectSuccess.status = "ok" /\ ConnectSuccess.txn = "idle"
<1>1. \A k \in ConnStates : Failures(k) \subseteq ConnStates
  BY DEF Failures, ConnStates
<1>2. \A k \in ConnStates : [k EXCEPT !.txn = "idle"] \in ConnStates
  BY DEF ConnStates
<1>3. \A k \in ConnStates : [k EXCEPT !.txn = IF @ = "idle" THEN "intrans" ELSE @] \in ConnStates
  BY DEF ConnStates
<1>4. \A k \in ConnStates : [k EXCEPT !.status = "none"] \in ConnStates
  BY DEF ConnStates
<1>. QED
  BY <1>1, <1>2, <1>3, <1>4 DEF ConnectSuccess, ConnectFailures, ConnStates, NoHandle, Empty

(* A server that reads the clauses build() has written finds the options.  *)
LEMMA ClausesMean ==
  ASSUME NEW k \in OptionNames, NEW v \in OptionValues(k)
  PROVE  Sets(to_string(k, v)) = k /\ To(to_string(k, v)) = v
BY Zenon DEF OptionNames, OptionValues, to_string, Sets, To

(* A transaction begun on a session without one has the options that the   *)
(* object will report.                                                     *)
LEMMA BeginMeans ==
  ASSUME NEW o \in OptionMaps
  PROVE  Begun(SessionDefaults, build(o)) = Reported(o)
<1>0. /\ DOMAIN o \subseteq OptionNames
      /\ \A k \in DOMAIN o : o[k] \in OptionValues(k) \cup {"none"}
  BY DEF OptionMaps
<1>1. ASSUME NEW k \in OptionNames, k \in real_options(o)
      PROVE  {c \in build(o) : Sets(c) = k} = {to_string(k, o[k])}
  <2>1. \A j \in real_options(o) : j \in OptionNames /\ o[j] \in OptionValues(j)
    BY <1>0 DEF real_options
  <2>2. \A j \in real_options(o) : Sets(to_string(j, o[j])) = j
    BY <2>1, ClausesMean
  <2>. QED BY <1>1, <2>2 DEF build
<1>2. ASSUME NEW k \in OptionNames, k \notin real_options(o)
      PROVE  {c \in build(o) : Sets(c) = k} = {}
  <2>1. \A j \in real_options(o) : j \in OptionNames /\ o[j] \in OptionValues(j)
    BY <1>0 DEF real_options
  <2>2. \A j \in real_options(o) : Sets(to_string(j, o[j])) = j
    BY <2>1, ClausesMean
  <2>. QED BY <1>2, <2>2 DEF build
<1>3. ASSUME NEW k \in OptionNames
      PROVE  Begun(SessionDefaults, build(o))[k] = Reported(o)[k]
  <2>1. CASE k \in real_options(o)
    <3>1. k \in DOMAIN o /\ o[k] \in OptionValues(k)
      BY <1>0, <2>1 DEF real_options
    <3>2. Begun(SessionDefaults, build(o))[k] = To(to_string(k, o[k]))
      BY <1>1, <2>1 DEF Begun
    <3>3. To(to_string(k, o[k])) = o[k]
      BY <3>1, ClausesMean
    <3>. QED BY <3>1, <3>2, <3>3 DEF Reported, get_option
  <2>2. CASE k \notin real_options(o)
    <3>1. Begun(SessionDefaults, build(o))[k] = "none"
      BY <1>2, <2>2 DEF Begun, SessionDefaults
    <3>. QED BY <2>2, <3>1 DEF Reported, get_option, real_options
  <2>. QED BY <2>1, <2>2
<1>4. /\ Begun(SessionDefaults, build(o)) = [k \in OptionNames |-> Begun(SessionDefaults, build(o))[k]]
      /\ Reported(o) = [k \in OptionNames |-> Reported(o)[k]]
  BY DEF Begun, Reported
<1>. QED BY <1>3, <1>4

-----------------------------------------------------------------------------
\* What a user does with a connection; it leaves the pool and the clock alone.
Uses(u) ==
  \/ Execute(u) \/ EndTransaction(u) \/ ReleaseConnection(u) \/ Close(u)
  \/ \E o \in Options : StartTransaction(u, o)

\* What is of the user, or of their cell.
OwnKept(u) ==
  /\ UNCHANGED <<pending, holder, phase, asked, expires, now>>
  /\ \A c \in Cells \ {holder[u]} :
       content'[c] = content[c] /\ context'[c] = context[c] /\ characteristics'[c] = characteristics[c]
  /\ \A v \in Users \ {u} :
       ec'[v] = ec[v] /\ layer'[v] = layer[v] /\ options'[v] = options[v] /\ last'[v] = last[v]

(* What a user who has a connection has.                                   *)
LEMMA Using ==
  ASSUME PooledInv, NEW u \in Users, phase[u] = "using"
  PROVE  holder[u] \in Cells /\ content[holder[u]] \in ConnStates
BY DEF PooledInv, TypeOK, Phases, Holding

(* A request changes the connection and the error context of one cell, and *)
(* says how it ended.                                                      *)
LEMMA RequestStep ==
  ASSUME PooledInv, NEW u \in Users, NEW k \in ConnStates, Request(u, k)
  PROVE  /\ phase[u] = "using"
         /\ UNCHANGED <<pending, holder, phase, asked, expires, now>>
         /\ content' \in [Cells -> ConnStates \cup {Empty}] /\ content'[holder[u]] \in ConnStates
         /\ context' \in [Cells -> {"empty", "own", "old"}]
         /\ ec' \in [Users -> {"ok", "failed"}] /\ last' \in [Users -> Lasts]
         /\ \A c \in Cells \ {holder[u]} : content'[c] = content[c] /\ context'[c] = context[c]
         /\ \A v \in Users \ {u} : ec'[v] = ec[v] /\ last'[v] = last[v]
         /\ ec'[u] = "ok" => ec[u] = "ok" /\ content[holder[u]].status = "ok" /\ content'[holder[u]] = k
         /\ context'[holder[u]] = "own" => last'[u] \in {"failed", "got_failed"}
         /\ context'[holder[u]] = "old" => last'[u] \in {"got", "served", "got_failed"}
<1>. USE DEF PooledInv, TypeOK
<1>1. PICK through \in {"source", "connection"} :
       /\ through = "source" => last[u] = "got"
       /\ \/ /\ content[holder[u]].status = "ok"
             /\ content' = [content EXCEPT ![holder[u]] = k]
             /\ context' = [context EXCEPT ![holder[u]] = ContextAtStart(u, through)]
             /\ last' = [last EXCEPT ![u] = Ended(through, TRUE)]
             /\ UNCHANGED ec
          \/ /\ \E f \in Failures(content[holder[u]]) : content' = [content EXCEPT ![holder[u]] = f]
             /\ \E x \in {ContextAtStart(u, through), "own"} : context' = [context EXCEPT ![holder[u]] = x]
             /\ last' = [last EXCEPT ![u] = Ended(through, FALSE)]
             /\ ec' = [ec EXCEPT ![u] = "failed"]
  BY Zenon DEF Request
<1>2. phase[u] = "using" /\ UNCHANGED <<pending, holder, phase, asked, expires, now>>
  BY DEF Request, poolVars
<1>3. holder[u] \in Cells /\ content[holder[u]] \in ConnStates
  BY <1>2, Using
<1>4. ContextAtStart(u, through) \in {"empty", "own", "old"}
  BY <1>3 DEF ContextAtStart
<1>5. through = "source" => ContextAtStart(u, through) \in {"empty", "old"}
  BY <1>1, <1>2, <1>3 DEF ContextAtStart, ContextForCause
<1>6. through = "connection" => ContextAtStart(u, through) = "empty"
  BY DEF ContextAtStart
<1>7. CASE /\ content[holder[u]].status = "ok"
           /\ content' = [content EXCEPT ![holder[u]] = k]
           /\ context' = [context EXCEPT ![holder[u]] = ContextAtStart(u, through)]
           /\ last' = [last EXCEPT ![u] = Ended(through, TRUE)]
           /\ UNCHANGED ec
  <2>1. Ended(through, TRUE) \in Lasts /\ (through = "source" => Ended(through, TRUE) = "served")
    BY DEF Ended, Lasts
  <2>. HIDE DEF ContextForCause
  <2>. QED BY <1>2, <1>3, <1>4, <1>5, <1>6, <1>7, <2>1, Zenon
<1>8. ASSUME NEW f \in Failures(content[holder[u]]), NEW x \in {ContextAtStart(u, through), "own"},
             content' = [content EXCEPT ![holder[u]] = f],
             context' = [context EXCEPT ![holder[u]] = x],
             last' = [last EXCEPT ![u] = Ended(through, FALSE)],
             ec' = [ec EXCEPT ![u] = "failed"]
      PROVE  /\ content' \in [Cells -> ConnStates \cup {Empty}] /\ content'[holder[u]] \in ConnStates
             /\ context' \in [Cells -> {"empty", "own", "old"}]
             /\ ec' \in [Users -> {"ok", "failed"}] /\ last' \in [Users -> Lasts]
             /\ \A c \in Cells \ {holder[u]} : content'[c] = content[c] /\ context'[c] = context[c]
             /\ \A v \in Users \ {u} : ec'[v] = ec[v] /\ last'[v] = last[v]
             /\ ec'[u] = "failed"
             /\ context'[holder[u]] = "own" => last'[u] \in {"failed", "got_failed"}
             /\ context'[holder[u]] = "old" => last'[u] \in {"got", "served", "got_failed"}
  <2>1. Ended(through, FALSE) \in Lasts
    BY DEF Ended, Lasts
  <2>2. IF through = "source" THEN Ended(through, FALSE) = "got_failed" ELSE Ended(through, FALSE) = "failed"
    BY DEF Ended
  <2>3. f \in ConnStates
    BY <1>3, States
  <2>. HIDE DEF ContextForCause
  <2>. QED BY <1>3, <1>4, <1>5, <1>6, <1>8, <2>1, <2>2, <2>3, Zenon
<1>. QED BY <1>1, <1>2, <1>7, <1>8, Zenon

\* What the user has after using the connection, and what the others keep.
UsesKeep(u) ==
  /\ phase[u] = "using" /\ OwnKept(u)
  /\ content' \in [Cells -> ConnStates \cup {Empty}] /\ content'[holder[u]] # Empty
  /\ context' \in [Cells -> {"empty", "own", "old"}]
  /\ characteristics' \in [Cells -> [OptionNames -> Values]]
  /\ ec' \in [Users -> {"ok", "failed"}] /\ layer' \in [Users -> Layers]
  /\ options' \in [Users -> OptionMaps] /\ last' \in [Users -> Lasts]
  /\ ec'[u] = "ok" /\ content'[holder[u]].status = "ok" =>
       content'[holder[u]].txn = IF layer'[u] = "connection" THEN "idle" ELSE "intrans"
  /\ ec'[u] = "ok" /\ content'[holder[u]].status = "ok" /\ layer'[u] = "transaction" =>
       characteristics'[holder[u]] = Reported(options'[u])
  /\ ec'[u] = "ok" /\ layer'[u] = "connection" => characteristics'[holder[u]] = SessionDefaults
  /\ context'[holder[u]] = "own" => last'[u] \in {"failed", "got_failed"}
  /\ context'[holder[u]] = "old" => last'[u] \in {"got", "served", "got_failed"}

(* The options a transaction is begun with, and those it has, are options. *)
LEMMA OptionTypes ==
  /\ NoOptions \in OptionMaps
  /\ SessionDefaults \in [OptionNames -> Values]
  /\ \A o \in OptionMaps : Reported(o) \in [OptionNames -> Values]
  /\ \A b \in [OptionNames -> Values], o \in OptionMaps : Begun(b, build(o)) \in [OptionNames -> Values]
<1>0. /\ "none" \in Values
      /\ \A k \in OptionNames : OptionValues(k) \subseteq Values
  BY DEF Values
<1>1. NoOptions \in OptionMaps
  <2>1. NoOptions \in [{} -> Values] /\ DOMAIN NoOptions = {}
    BY DEF NoOptions
  <2>2. NoOptions \in UNION {[S -> Values] : S \in SUBSET OptionNames}
    BY <2>1
  <2>. QED BY <2>1, <2>2 DEF OptionMaps
<1>2. SessionDefaults \in [OptionNames -> Values]
  BY <1>0 DEF SessionDefaults
<1>3. ASSUME NEW o \in OptionMaps PROVE Reported(o) \in [OptionNames -> Values]
  <2>1. \A k \in DOMAIN o : k \in OptionNames /\ o[k] \in OptionValues(k) \cup {"none"}
    BY DEF OptionMaps
  <2>2. \A k \in OptionNames : get_option(o, k, "none") \in Values
    BY <1>0, <2>1 DEF get_option
  <2>. QED BY <2>2 DEF Reported
<1>4. ASSUME NEW b \in [OptionNames -> Values], NEW o \in OptionMaps
      PROVE  Begun(b, build(o)) \in [OptionNames -> Values]
  <2>1. \A k \in real_options(o) : k \in OptionNames /\ o[k] \in OptionValues(k)
    BY DEF OptionMaps, real_options
  <2>2. \A c \in build(o) : To(c) \in Values
    BY <1>0, <2>1, ClausesMean DEF build
  <2>3. \A k \in OptionNames :
          Begun(b, build(o))[k] = IF {c \in build(o) : Sets(c) = k} = {} THEN b[k]
                                  ELSE To(CHOOSE c \in {c \in build(o) : Sets(c) = k} : TRUE)
    BY DEF Begun
  <2>4. \A k \in OptionNames : Begun(b, build(o))[k] \in Values
    <3> TAKE k \in OptionNames
    <3> DEFINE said == {c \in build(o) : Sets(c) = k}
    <3>1. said # {} => (CHOOSE c \in said : TRUE) \in build(o)
      OBVIOUS
    <3>. QED BY <2>2, <2>3, <3>1
  <2>5. Begun(b, build(o)) = [k \in OptionNames |-> Begun(b, build(o))[k]]
    BY DEF Begun
  <2>. QED BY <2>4, <2>5
<1>. QED BY <1>1, <1>2, <1>3, <1>4

(* A statement leaves the user with what they had.                         *)
LEMMA ExecuteStep ==
  ASSUME PooledInv, NEW u \in Users, Execute(u)
  PROVE  UsesKeep(u)
<1>1. phase[u] = "using"
  BY DEF Execute, Request
<1>2. content[holder[u]] \in ConnStates /\ holder[u] \in Cells
  BY <1>1, Using
<1>3. Request(u, content[holder[u]]) /\ UNCHANGED <<layer, options, characteristics>>
  BY DEF Execute
<1>. QED BY <1>1, <1>2, <1>3, RequestStep, States
       DEF UsesKeep, OwnKept, PooledInv, TypeOK, TransactionKnown, Unbegun, Holding

(* BEGIN opens a transaction with the options the user's object reports.   *)
LEMMA StartStep ==
  ASSUME PooledInv, NEW u \in Users, NEW o \in Options, StartTransaction(u, o)
  PROVE  UsesKeep(u)
<1>. DEFINE k == [content[holder[u]] EXCEPT !.txn = IF @ = "idle" THEN "intrans" ELSE @]
<1>0. o \in OptionMaps
  BY PooledAssumption
<1>1. phase[u] = "using"
  BY DEF StartTransaction, Request
<1>2. content[holder[u]] \in ConnStates /\ holder[u] \in Cells
  BY <1>1, Using
<1>3. k \in ConnStates
  BY <1>2, States
<1>4. k.txn = IF content[holder[u]].txn = "idle" THEN "intrans" ELSE content[holder[u]].txn
  BY <1>2 DEF ConnStates
<1>5. Request(u, k)
  BY DEF StartTransaction
<1>6. /\ layer' = [layer EXCEPT ![u] = IF @ = "connection" THEN "transaction" ELSE "second"]
      /\ options' = [options EXCEPT ![u] = o]
      /\ layer[u] \in {"connection", "released"}
      /\ \/ characteristics' = [characteristics EXCEPT ![holder[u]] = Begun(@, build(o))]
         \/ (layer[u] = "released" \/ ec'[u] = "failed") /\ UNCHANGED characteristics
  BY DEF StartTransaction
<1>. HIDE DEF k
<1>7. /\ UNCHANGED <<pending, holder, phase, asked, expires, now>>
      /\ content' \in [Cells -> ConnStates \cup {Empty}] /\ content'[holder[u]] \in ConnStates
      /\ context' \in [Cells -> {"empty", "own", "old"}]
      /\ ec' \in [Users -> {"ok", "failed"}] /\ last' \in [Users -> Lasts]
      /\ \A c \in Cells \ {holder[u]} : content'[c] = content[c] /\ context'[c] = context[c]
      /\ \A v \in Users \ {u} : ec'[v] = ec[v] /\ last'[v] = last[v]
      /\ ec'[u] = "ok" => ec[u] = "ok" /\ content[holder[u]].status = "ok" /\ content'[holder[u]] = k
      /\ context'[holder[u]] = "own" => last'[u] \in {"failed", "got_failed"}
      /\ context'[holder[u]] = "old" => last'[u] \in {"got", "served", "got_failed"}
  BY <1>3, <1>5, RequestStep
<1>8. /\ layer' \in [Users -> Layers] /\ options' \in [Users -> OptionMaps]
      /\ layer'[u] # "connection" /\ (layer'[u] = "transaction" => layer[u] = "connection")
      /\ options'[u] = o
      /\ \A v \in Users \ {u} : layer'[v] = layer[v] /\ options'[v] = options[v]
  BY <1>0, <1>6, Zenon DEF PooledInv, TypeOK, Layers
<1>9. /\ characteristics' \in [Cells -> [OptionNames -> Values]]
      /\ \A c \in Cells \ {holder[u]} : characteristics'[c] = characteristics[c]
  <2>1. characteristics \in [Cells -> [OptionNames -> Values]]
    BY DEF PooledInv, TypeOK
  <2>2. Begun(characteristics[holder[u]], build(o)) \in [OptionNames -> Values]
    BY <1>0, <1>2, <2>1, OptionTypes
  <2>. QED BY <1>2, <1>6, <2>1, <2>2
<1>10. ec'[u] = "ok" /\ layer[u] = "connection" => characteristics'[holder[u]] = Reported(o)
  <2>1. ec'[u] = "ok" /\ layer[u] = "connection" => characteristics[holder[u]] = SessionDefaults
    BY <1>1, <1>7 DEF PooledInv, Unbegun, Holding
  <2>2. ec'[u] = "ok" /\ layer[u] = "connection" =>
          characteristics'[holder[u]] = Begun(characteristics[holder[u]], build(o))
    BY <1>2, <1>6, Zenon DEF PooledInv, TypeOK
  <2>. QED BY <1>0, <2>1, <2>2, BeginMeans
<1>11. ec'[u] = "ok" => content'[holder[u]].txn = "intrans"
  BY <1>1, <1>4, <1>6, <1>7 DEF PooledInv, TransactionKnown
<1>. QED BY <1>1, <1>7, <1>8, <1>9, <1>10, <1>11, States DEF UsesKeep, OwnKept

(* COMMIT and ROLLBACK leave a session without a transaction.              *)
LEMMA EndStep ==
  ASSUME PooledInv, NEW u \in Users, EndTransaction(u)
  PROVE  UsesKeep(u)
<1>. DEFINE k == [content[holder[u]] EXCEPT !.txn = "idle"]
<1>1. phase[u] = "using"
  BY DEF EndTransaction, Request
<1>2. content[holder[u]] \in ConnStates /\ holder[u] \in Cells
  BY <1>1, Using
<1>3. k \in ConnStates /\ k.txn = "idle"
  BY <1>2, States DEF ConnStates
<1>4. Request(u, k)
  BY DEF EndTransaction
<1>. HIDE DEF k
<1>5. /\ layer' = [layer EXCEPT ![u] = "connection"]
      /\ options' = [options EXCEPT ![u] = NoOptions]
      /\ characteristics' = [characteristics EXCEPT ![holder[u]] = SessionDefaults]
  BY DEF EndTransaction
<1>6. /\ layer' \in [Users -> Layers] /\ options' \in [Users -> OptionMaps]
      /\ layer'[u] = "connection"
      /\ \A v \in Users \ {u} : layer'[v] = layer[v] /\ options'[v] = options[v]
  BY <1>5, OptionTypes DEF PooledInv, TypeOK, Layers
<1>7. /\ characteristics' \in [Cells -> [OptionNames -> Values]]
      /\ characteristics'[holder[u]] = SessionDefaults
      /\ \A c \in Cells \ {holder[u]} : characteristics'[c] = characteristics[c]
  BY <1>2, <1>5, OptionTypes DEF PooledInv, TypeOK
<1>. QED BY <1>1, <1>3, <1>4, <1>6, <1>7, RequestStep, States DEF UsesKeep, OwnKept

(* release_connection() sends nothing: the transaction stays open.         *)
LEMMA ReleaseStep ==
  ASSUME PooledInv, NEW u \in Users, ReleaseConnection(u)
  PROVE  UsesKeep(u)
<1>1. phase[u] = "using" /\ layer[u] \in {"transaction", "second"}
  BY DEF ReleaseConnection
<1>2. content[holder[u]] \in ConnStates /\ holder[u] \in Cells
  BY <1>1, Using
<1>3. /\ layer' \in [Users -> Layers] /\ options' \in [Users -> OptionMaps]
      /\ layer'[u] = "released"
      /\ \A v \in Users \ {u} : layer'[v] = layer[v] /\ options'[v] = options[v]
  BY OptionTypes DEF ReleaseConnection, PooledInv, TypeOK, Layers
<1>4. UNCHANGED <<pending, holder, content, phase, ec, characteristics, context, last, asked, expires, now>>
  BY DEF ReleaseConnection, poolVars
<1>. QED BY <1>1, <1>2, <1>3, <1>4, States
       DEF UsesKeep, OwnKept, PooledInv, TypeOK, TransactionKnown, ContextForCause

(* A connection that is closed is one no transaction is known of.          *)
LEMMA CloseStep ==
  ASSUME PooledInv, NEW u \in Users, Close(u)
  PROVE  UsesKeep(u)
<1>1. phase[u] = "using"
  BY DEF Close
<1>2. content[holder[u]] \in ConnStates /\ holder[u] \in Cells
  BY <1>1, Using
<1>3. /\ content' = [content EXCEPT ![holder[u]].status = "none"]
      /\ UNCHANGED <<pending, holder, phase, ec, layer, options, characteristics, context, last, asked, expires, now>>
  BY DEF Close, poolVars, userVars
<1>4. /\ content' \in [Cells -> ConnStates \cup {Empty}] /\ content'[holder[u]] \in ConnStates
      /\ content'[holder[u]].status # "ok"
      /\ \A c \in Cells \ {holder[u]} : content'[c] = content[c]
  BY <1>2, <1>3, States DEF PooledInv, TypeOK, ConnStates
<1>. QED BY <1>1, <1>2, <1>3, <1>4, States
       DEF UsesKeep, OwnKept, PooledInv, TypeOK, ContextForCause, Unbegun, Holding

(* Whatever a user does with the connection keeps what it must.            *)
LEMMA UsesStep ==
  ASSUME PooledInv, NEW u \in Users, Uses(u)
  PROVE  UsesKeep(u) /\ holder[u] \in Cells
<1>1. UsesKeep(u)
  BY ExecuteStep, StartStep, EndStep, ReleaseStep, CloseStep, Zenon DEF Uses
<1>2. phase[u] = "using"
  BY <1>1 DEF UsesKeep
<1>. QED BY <1>1, <1>2, Using

\* Everybody but u keeps what is theirs, and what is in their cell.
OthersKept(u) ==
  \A v \in Users \ {u} :
    /\ phase'[v] = phase[v] /\ holder'[v] = holder[v]
    /\ ec'[v] = ec[v] /\ layer'[v] = layer[v] /\ options'[v] = options[v] /\ last'[v] = last[v]
    /\ Holding(v) => /\ content'[holder[v]] = content[holder[v]]
                     /\ context'[holder[v]] = context[holder[v]]
                     /\ characteristics'[holder[v]] = characteristics[holder[v]]

(* Who holds a cell holds one that nobody else holds.                      *)
LEMMA Apart ==
  ASSUME PooledInv, NEW u \in Users, NEW v \in Users \ {u}, holder[u] # NoCell, Holding(v)
  PROVE  holder[v] \in Cells \ {holder[u]}
<1>1. Phases /\ HeldOnce /\ holder \in [Users -> Cells \cup {NoCell}]
  BY DEF PooledInv, TypeOK
<1>2. holder[v] \in Cells
  BY <1>1 DEF Phases
<1>. QED BY <1>1, <1>2 DEF HeldOnce

(* Using a connection, getting it and giving it up concern one user.       *)
LEMMA Others ==
  ASSUME PooledInv, NEW u \in Users,
         Uses(u) \/ Connected(u) \/ Drop(u) \/ \E c \in Cells : Granted(u, c)
  PROVE  OthersKept(u)
<1>1. TypeOK /\ Phases
  BY Zenon DEF PooledInv
<1>2. CASE Uses(u)
  <2>1. OwnKept(u) /\ phase[u] = "using"
    BY <1>2, UsesStep, Zenon DEF UsesKeep
  <2>2. holder[u] # NoCell
    BY <1>1, <2>1 DEF Phases, Holding
  <2>3. \A v \in Users \ {u} : Holding(v) => holder[v] \in Cells \ {holder[u]}
    BY <2>2, Apart, Zenon
  <2>. QED BY <2>1, <2>3, Zenon DEF OwnKept, OthersKept
<1>3. ASSUME holder[u] # NoCell,
             \A c \in Cells \ {holder[u]} :
               content'[c] = content[c] /\ context'[c] = context[c] /\ characteristics'[c] = characteristics[c],
             \A v \in Users \ {u} :
               /\ phase'[v] = phase[v] /\ holder'[v] = holder[v]
               /\ ec'[v] = ec[v] /\ layer'[v] = layer[v] /\ options'[v] = options[v] /\ last'[v] = last[v]
      PROVE  OthersKept(u)
  <2>1. \A v \in Users \ {u} : Holding(v) => holder[v] \in Cells \ {holder[u]}
    BY <1>3, Apart
  <2>. QED BY <1>3, <2>1 DEF OthersKept
<1>4. CASE Connected(u)
  <2>1. holder[u] # NoCell
    BY <1>1, <1>4, Zenon DEF Connected, Phases, Holding
  <2>2. \A c \in Cells \ {holder[u]} :
          content'[c] = content[c] /\ context'[c] = context[c] /\ characteristics'[c] = characteristics[c]
    BY <1>1, <1>4, ZenonT(40) DEF Connected, TypeOK
  <2>3. \A v \in Users \ {u} : phase'[v] = phase[v] /\ holder'[v] = holder[v]
    BY <1>1, <1>4, Zenon DEF Connected, TypeOK, Pool!GiveUp, poolVars
  <2>4. \A v \in Users \ {u} :
          ec'[v] = ec[v] /\ layer'[v] = layer[v] /\ options'[v] = options[v] /\ last'[v] = last[v]
    BY <1>1, <1>4, ZenonT(40) DEF Connected, TypeOK
  <2>. QED BY <1>3, <2>1, <2>2, <2>3, <2>4, Zenon
<1>5. CASE Drop(u)
  <2>1. holder[u] # NoCell
    BY <1>1, <1>5, Zenon DEF Drop, Phases, Holding
  <2>2. \A c \in Cells \ {holder[u]} :
          content'[c] = content[c] /\ context'[c] = context[c] /\ characteristics'[c] = characteristics[c]
    BY <1>1, <1>5, Zenon DEF Drop, TypeOK
  <2>3. \A v \in Users \ {u} : phase'[v] = phase[v] /\ holder'[v] = holder[v]
    BY <1>1, <1>5, Zenon DEF Drop, TypeOK, Pool!GiveUp
  <2>4. \A v \in Users \ {u} :
          ec'[v] = ec[v] /\ layer'[v] = layer[v] /\ options'[v] = options[v] /\ last'[v] = last[v]
    BY <1>1, <1>5, Zenon DEF Drop, TypeOK
  <2>. QED BY <1>3, <2>1, <2>2, <2>3, <2>4
<1>6. ASSUME NEW c \in Cells, Granted(u, c) PROVE OthersKept(u)
  <2>1. UNCHANGED <<content, ec, layer, options, characteristics, last>>
    BY <1>6, Zenon DEF Granted
  <2>2. \A v \in Users : holder[v] # c
    BY <1>6, PooledAssumption, Zenon DEF Granted, Pool!Grant, Pool!Held
  <2>3. \A d \in Cells \ {c} : context'[d] = context[d]
    BY <1>1, <1>6, Zenon DEF Granted, Reuse, Connect, TypeOK
  <2>4. \A v \in Users \ {u} : phase'[v] = phase[v] /\ holder'[v] = holder[v]
    BY <1>1, <1>6 DEF Granted, Pool!Grant, Reuse, Connect, TypeOK
  <2>5. \A v \in Users : Holding(v) => holder[v] \in Cells \ {c}
    BY <1>1, <2>2 DEF Phases, TypeOK
  <2>. QED BY <2>1, <2>3, <2>4, <2>5 DEF OthersKept
<1>. QED BY <1>2, <1>4, <1>5, <1>6

-----------------------------------------------------------------------------
(* What the pool is given is a length of time, within the user's and the   *)
(* bound.                                                                  *)
LEMMA GivenType ==
  ASSUME NEW u \in Users
  PROVE  /\ Given(u).t \in Nat /\ QueueTimeout(u) \in Nat
         /\ (Given(u).kind = Constraint[u] /\ Given(u).t = T) \/ Given(u).kind = "duration"
         /\ Given(u).kind \in {"none", "duration", "deadline"}
         /\ Given(u).kind = "deadline" => Given(u).t = T
         /\ Constraint[u] # "none" => Given(u).kind # "none" /\ Given(u).t <= T
         /\ Bound[u] # Unbound => Given(u).kind = "duration" /\ Given(u).t <= Bound[u]
         /\ Bound[u] = Unbound => Given(u).kind = Constraint[u] /\ Given(u).t = T
BY PooledAssumption DEF Given, QueueTimeout, Unbound

(* The empty pool satisfies the invariant.                                 *)
LEMMA InitInv == Init => PooledInv
<1> SUFFICES ASSUME Init PROVE PooledInv
  OBVIOUS
<1>1. TypeOK
  BY PooledAssumption, OptionTypes DEF Init, TypeOK, Layers, Lasts, Pool!PoolInit, Never
<1>2. Phases /\ HeldOnce /\ Parked
  BY PooledAssumption DEF Init, Phases, HeldOnce, Parked, Holding, Clean, Pool!PoolInit
<1>3. Unbegun /\ TransactionKnown /\ ContextForCause /\ Waits
  BY ZenonT(40) DEF Init, Unbegun, TransactionKnown, ContextForCause, Waits, Holding
<1>. QED BY <1>1, <1>2, <1>3 DEF PooledInv

(* Every step keeps the types.                                             *)
LEMMA TypeStep == PooledInv /\ [Next]_vars => TypeOK'
<1> SUFFICES ASSUME PooledInv, [Next]_vars PROVE TypeOK'
  OBVIOUS
<1> USE PooledAssumption DEF PooledInv, TypeOK, poolVars, userVars
<1>1. ASSUME NEW u \in Users, Ask(u) PROVE TypeOK'
  BY <1>1, GivenType DEF Ask, Pool!Call
<1>2. ASSUME NEW u \in Users, Refused(u) PROVE TypeOK'
  BY <1>2, Zenon DEF Refused, Pool!Refuse
<1>3. ASSUME NEW u \in Users, Connected(u) PROVE TypeOK'
  <2>1. holder[u] \in Cells
    BY <1>3 DEF Connected, Phases, Holding
  <2>2. content' \in [Cells -> ConnStates \cup {Empty}]
    <3>1. \A k \in ConnStates : [content EXCEPT ![holder[u]] = k] \in [Cells -> ConnStates \cup {Empty}]
      BY <2>1
    <3>2. content' = content \/ \E k \in {ConnectSuccess} \cup ConnectFailures : content' = [content EXCEPT ![holder[u]] = k]
      BY <1>3, Zenon DEF Connected
    <3>3. {ConnectSuccess} \cup ConnectFailures \subseteq ConnStates
      BY States
    <3>4. ASSUME NEW k \in {ConnectSuccess} \cup ConnectFailures, content' = [content EXCEPT ![holder[u]] = k]
          PROVE  content' \in [Cells -> ConnStates \cup {Empty}]
      BY <3>1, <3>3, <3>4, Zenon
    <3>. QED BY <3>2, <3>4, Zenon
  <2>7. context' \in [Cells -> {"empty", "own", "old"}]
    BY <1>3, <2>1, Zenon DEF Connected
  <2>3. ec' \in [Users -> {"ok", "failed"}] /\ last' \in [Users -> Lasts]
    BY <1>3, Zenon DEF Connected, Lasts
  <2>4. pending' \subseteq Users /\ holder' \in [Users -> Cells \cup {NoCell}]
    BY <1>3 DEF Connected, Pool!GiveUp
  <2>5. /\ phase' \in [Users -> {"idle", "queue", "connect", "using"}]
        /\ asked' \in [Users -> Nat] /\ expires' \in [Users -> Nat \cup {Never}]
    BY <1>3, SMTT(30) DEF Connected
  <2>6. UNCHANGED <<layer, options, characteristics, now>>
    BY <1>3 DEF Connected
  <2>. QED BY <2>2, <2>3, <2>4, <2>5, <2>6, <2>7, Zenon
<1>4. ASSUME NEW u \in Users, Uses(u) PROVE TypeOK'
  BY <1>4, UsesStep DEF UsesKeep, OwnKept
<1>5. ASSUME NEW u \in Users, Drop(u) PROVE TypeOK'
  <2>1. /\ content' \in [Cells -> ConnStates \cup {Empty}] /\ context' \in [Cells -> {"empty", "own", "old"}]
        /\ characteristics' \in [Cells -> [OptionNames -> Values]]
    BY <1>5, OptionTypes, Zenon DEF Drop
  <2>2. /\ ec' \in [Users -> {"ok", "failed"}] /\ layer' \in [Users -> Layers]
        /\ options' \in [Users -> OptionMaps] /\ last' \in [Users -> Lasts]
    BY <1>5, OptionTypes DEF Drop, Layers, Lasts
  <2>. QED BY <1>5, <2>1, <2>2 DEF Drop, Pool!GiveUp
<1>6. ASSUME NEW u \in Users, NEW c \in Cells, Granted(u, c) PROVE TypeOK'
  <2>1. context' \in [Cells -> {"empty", "own", "old"}]
    BY <1>6 DEF Granted, Reuse, Connect
  <2>2. expires' \in [Users -> Nat \cup {Never}]
    BY <1>6, GivenType DEF Granted, Reuse, Connect
  <2>3. phase' \in [Users -> {"idle", "queue", "connect", "using"}]
    BY <1>6, Zenon DEF Granted, Reuse, Connect
  <2>. QED BY <1>6, <2>1, <2>2, <2>3, Zenon DEF Granted, Pool!Grant
<1>7. ASSUME NEW c \in Cells, DropParked(c) PROVE TypeOK'
  BY <1>7 DEF DropParked
<1>8. CASE Tick
  BY <1>8 DEF Tick
<1>9. CASE UNCHANGED vars
  BY <1>9 DEF vars
<1>. QED
  BY <1>1, <1>2, <1>3, <1>4, <1>5, <1>6, <1>7, <1>8, <1>9, Zenon DEF Next, Uses

(* Every step keeps the phases and the cells together, and no cell is held *)
(* twice.                                                                  *)
LEMMA PhaseStep == PooledInv /\ [Next]_vars => Phases' /\ HeldOnce'
<1> SUFFICES ASSUME PooledInv, [Next]_vars PROVE Phases' /\ HeldOnce'
  BY Zenon
<1> USE PooledAssumption DEF PooledInv, TypeOK, Phases, HeldOnce, Holding, poolVars, userVars
<1>1. ASSUME NEW u \in Users, Ask(u) PROVE Phases' /\ HeldOnce'
  BY <1>1, ZenonT(40) DEF Ask, Pool!Call
<1>2. ASSUME NEW u \in Users, Refused(u) PROVE Phases' /\ HeldOnce'
  BY <1>2 DEF Refused, Pool!Refuse
<1>3. ASSUME NEW u \in Users, Connected(u) PROVE Phases' /\ HeldOnce'
  BY <1>3, States DEF Connected, Pool!GiveUp
<1>4. ASSUME NEW u \in Users, Uses(u) PROVE Phases' /\ HeldOnce'
  <2>1. UsesKeep(u) /\ phase[u] = "using" /\ content'[holder[u]] # Empty
    BY <1>4, UsesStep, Zenon DEF UsesKeep
  <2>2. pending' = pending /\ holder' = holder /\ phase' = phase
    BY <2>1 DEF UsesKeep, OwnKept
  <2>3. \A v \in Users \ {u} :
          /\ ec'[v] = ec[v] /\ layer'[v] = layer[v] /\ last'[v] = last[v]
          /\ Holding(v) => content'[holder[v]] = content[holder[v]]
    <3>. HIDE PooledAssumption DEF PooledInv, TypeOK, Phases, HeldOnce, Holding
    <3>1. OthersKept(u)
      BY <1>4, Others, Zenon
    <3>. QED BY <3>1, Zenon DEF OthersKept
  <2>4. Phases /\ HeldOnce
    BY Zenon DEF PooledInv
  <2>. HIDE PooledAssumption DEF PooledInv, TypeOK
  <2>5. HeldOnce'
    BY <2>2, <2>4, Zenon
  <2>6. ASSUME NEW v \in Users
        PROVE  /\ Holding(v)' <=> holder'[v] # NoCell
               /\ phase'[v] = "queue" <=> v \in pending'
               /\ phase'[v] = "connect" => content'[holder'[v]] = Empty
               /\ phase'[v] = "using" => content'[holder'[v]] # Empty
               /\ phase'[v] # "using" => ec'[v] = "ok" /\ layer'[v] = "connection" /\ last'[v] = "got"
    <3>1. CASE v = u
      BY <2>1, <2>2, <2>4, <3>1
    <3>2. CASE v # u
      BY <2>2, <2>3, <2>4, <3>2, Zenon
    <3>. QED BY <3>1, <3>2, Zenon
  <2>. QED BY <2>5, <2>6, Zenon
<1>5. ASSUME NEW u \in Users, Drop(u) PROVE Phases' /\ HeldOnce'
  BY <1>5, SMTT(30) DEF Drop, Pool!GiveUp
<1>6. ASSUME NEW u \in Users, NEW c \in Cells, Granted(u, c) PROVE Phases' /\ HeldOnce'
  <2>1. \A v \in Users : holder[v] # c
    BY <1>6 DEF Granted, Pool!Grant, Pool!Held
  <2>2. Clean(content[c])
    BY <2>1 DEF Parked
  <2>3. StatusBad(content[c]) => content[c] = Empty
    BY <2>2 DEF Clean, StatusBad
  <2>4. HeldOnce'
    BY <1>6, <2>1, ZenonT(40) DEF Granted, Pool!Grant
  <2>5. Phases'
    BY <1>6, <2>1, <2>3 DEF Granted, Pool!Grant, Reuse, Connect
  <2>. QED BY <2>4, <2>5
<1>7. ASSUME NEW c \in Cells, DropParked(c) PROVE Phases' /\ HeldOnce'
  BY <1>7 DEF DropParked, Pool!Held
<1>8. CASE Tick
  BY <1>8 DEF Tick
<1>9. CASE UNCHANGED vars
  BY <1>9 DEF vars
<1>. QED
  BY <1>1, <1>2, <1>3, <1>4, <1>5, <1>6, <1>7, <1>8, <1>9, Zenon DEF Next, Uses

(* Every step leaves the free cells clean: the destructor empties a cell   *)
(* whose connection is not, and a user who waits for a connect holds an    *)
(* empty one.                                                              *)
LEMMA ParkedStep == PooledInv /\ [Next]_vars => Parked'
<1> SUFFICES ASSUME PooledInv, [Next]_vars PROVE Parked'
  BY Zenon
<1> USE PooledAssumption DEF PooledInv, TypeOK, Parked, poolVars, userVars
<1>1. ASSUME NEW u \in Users, Ask(u) PROVE Parked'
  BY <1>1, Zenon DEF Ask, Pool!Call
<1>2. ASSUME NEW u \in Users, Refused(u) PROVE Parked'
  BY <1>2, Zenon DEF Refused, Pool!Refuse
<1>3. ASSUME NEW u \in Users, Connected(u) PROVE Parked'
  BY <1>3 DEF Connected, Pool!GiveUp, Phases, Holding, Clean
<1>4. ASSUME NEW u \in Users, Uses(u) PROVE Parked'
  <2>1. holder' = holder /\ \A c \in Cells \ {holder[u]} : content'[c] = content[c]
    BY <1>4, UsesStep DEF UsesKeep, OwnKept
  <2>2. Parked
    BY Zenon
  <2>. HIDE PooledAssumption DEF PooledInv, TypeOK
  <2>. QED BY <2>1, <2>2, ZenonT(40)
<1>5. ASSUME NEW u \in Users, Drop(u) PROVE Parked'
  <2>1. holder[u] \in Cells
    BY <1>5, Zenon DEF Drop, Phases, Holding
  <2>2. Clean(content'[holder[u]])
    BY <1>5, <2>1, Zenon DEF Drop, Clean, MustWaste
  <2>. QED BY <1>5, <2>1, <2>2, Zenon DEF Drop, Pool!GiveUp
<1>6. ASSUME NEW u \in Users, NEW c \in Cells, Granted(u, c) PROVE Parked'
  BY <1>6 DEF Granted, Pool!Grant, Phases, Holding
<1>7. ASSUME NEW c \in Cells, DropParked(c) PROVE Parked'
  BY <1>7, Zenon DEF DropParked, Clean
<1>8. CASE Tick
  BY <1>8, Zenon DEF Tick
<1>9. CASE UNCHANGED vars
  BY <1>9 DEF vars
<1>. QED
  BY <1>1, <1>2, <1>3, <1>4, <1>5, <1>6, <1>7, <1>8, <1>9, Zenon DEF Next, Uses

(* Every step keeps the waits within their limits: time stands still at a  *)
(* limit, a wait for a connect is limited anew by a duration only.         *)
LEMMA WaitsStep == PooledInv /\ [Next]_vars => Waits'
<1> SUFFICES ASSUME PooledInv, [Next]_vars PROVE Waits'
  OBVIOUS
<1> USE PooledAssumption DEF PooledInv, TypeOK, Waits, poolVars, userVars
<1>1. ASSUME NEW u \in Users, Ask(u) PROVE Waits'
  BY <1>1, GivenType DEF Ask
<1>2. ASSUME NEW u \in Users, Refused(u) PROVE Waits'
  BY <1>2, Zenon DEF Refused
<1>3. ASSUME NEW u \in Users, Connected(u) PROVE Waits'
  BY <1>3 DEF Connected
<1>4. ASSUME NEW u \in Users, Uses(u) PROVE Waits'
  <2>1. UNCHANGED <<phase, asked, expires, now>>
    BY <1>4, UsesStep DEF UsesKeep, OwnKept
  <2>2. Waits
    BY Zenon
  <2>. HIDE PooledAssumption DEF PooledInv, TypeOK
  <2>. QED BY <2>1, <2>2, ZenonT(40)
<1>5. ASSUME NEW u \in Users, Drop(u) PROVE Waits'
  BY <1>5 DEF Drop
<1>6. ASSUME NEW u \in Users, NEW c \in Cells, Granted(u, c) PROVE Waits'
  <2>1. phase[u] = "queue"
    BY <1>6, Zenon DEF Granted, Pool!Grant, Phases
  <2>2. CASE Reuse(u, c)
    BY <1>6, <2>2 DEF Granted, Reuse
  <2>3. CASE Connect(u, c)
    <3>1. phase'[u] = "connect" /\ asked' = asked /\ now' = now
      BY <1>6, <2>3, Zenon DEF Granted, Connect
    <3>2. Given(u).kind = "deadline" => QueueTimeout(u) = T /\ expires'[u] = asked[u] + T
      BY <2>3, GivenType, Zenon DEF Connect, QueueTimeout
    <3>3. Given(u).kind = "duration" => QueueTimeout(u) = Given(u).t /\ expires'[u] = now + Given(u).t
      BY <2>3, Zenon DEF Connect, QueueTimeout
    <3>4. asked[u] \in Nat /\ now \in Nat /\ now <= asked[u] + QueueTimeout(u)
      BY <2>1
    <3>5. \A v \in Users \ {u} : phase'[v] = phase[v] /\ expires'[v] = expires[v]
      BY <2>3, Zenon DEF Connect
    <3>6. Given(u).t \in Nat /\ T \in Nat
      BY GivenType, Zenon
    <3>7. /\ Given(u).kind = "deadline" => now <= expires'[u] /\ expires'[u] = asked[u] + T
          /\ Given(u).kind = "duration" => now <= expires'[u] /\ expires'[u] <= asked[u] + 2 * Given(u).t
      BY <3>2, <3>3, <3>4, <3>6, SMTT(30)
    <3>. QED BY <3>1, <3>5, <3>7, ZenonT(40)
  <2>. QED BY <1>6, <2>2, <2>3, Zenon DEF Granted
<1>7. ASSUME NEW c \in Cells, DropParked(c) PROVE Waits'
  BY <1>7, Zenon DEF DropParked
<1>8. CASE Tick
  <2>1. \A u \in Users : phase[u] = "queue" => expires[u] # Never
    BY GivenType DEF Never
  <2>2. \A u \in Users : phase[u] = "connect" /\ Given(u).kind \in {"deadline", "duration"} => expires[u] # Never
    BY SMTT(30) DEF Never
  <2>. QED BY <1>8, <2>1, <2>2, SMTT(30) DEF Tick
<1>9. CASE UNCHANGED vars
  BY <1>9 DEF vars
<1>. QED
  BY <1>1, <1>2, <1>3, <1>4, <1>5, <1>6, <1>7, <1>8, <1>9, Zenon DEF Next, Uses

(* Every step keeps users and servers agreed on the transactions: one that *)
(* succeeds changes both, one that fails is known to the user.             *)
LEMMA TransactionStep == PooledInv /\ [Next]_vars => TransactionKnown'
<1> SUFFICES ASSUME PooledInv, [Next]_vars PROVE TransactionKnown'
  OBVIOUS
<1>1. TypeOK /\ Phases /\ TransactionKnown
  BY DEF PooledInv
<1>2. ASSUME NEW u \in Users, OthersKept(u),
             phase'[u] = "using" /\ ec'[u] = "ok" /\ content'[holder'[u]].status = "ok" =>
               /\ content'[holder'[u]].txn = IF layer'[u] = "connection" THEN "idle" ELSE "intrans"
               /\ layer'[u] = "transaction" => characteristics'[holder'[u]] = Reported(options'[u])
      PROVE  TransactionKnown'
  <2>1. ASSUME NEW v \in Users \ {u}, phase'[v] = "using", ec'[v] = "ok", content'[holder'[v]].status = "ok"
        PROVE  /\ content'[holder'[v]].txn = IF layer'[v] = "connection" THEN "idle" ELSE "intrans"
               /\ layer'[v] = "transaction" => characteristics'[holder'[v]] = Reported(options'[v])
    <3>1. /\ phase[v] = "using" /\ holder'[v] = holder[v] /\ ec[v] = "ok"
          /\ layer'[v] = layer[v] /\ options'[v] = options[v]
          /\ content'[holder'[v]] = content[holder[v]] /\ characteristics'[holder'[v]] = characteristics[holder[v]]
      BY <1>2, <2>1 DEF OthersKept, Holding
    <3>. QED BY <1>1, <2>1, <3>1, Zenon DEF TransactionKnown
  <2>. QED BY <1>2, <2>1 DEF TransactionKnown
<1>3. ASSUME NEW u \in Users, Ask(u) PROVE TransactionKnown'
  BY <1>1, <1>3 DEF Ask, Pool!Call, TypeOK, TransactionKnown, userVars
<1>4. ASSUME NEW u \in Users, Refused(u) PROVE TransactionKnown'
  BY <1>1, <1>4 DEF Refused, Pool!Refuse, TypeOK, TransactionKnown, userVars
<1>5. ASSUME NEW u \in Users, Connected(u) PROVE TransactionKnown'
  <2>1. holder[u] \in Cells /\ layer[u] = "connection"
    BY <1>1, <1>5 DEF Connected, Phases, Holding, TypeOK
  <2>2. layer'[u] = "connection"
    BY <1>5, <2>1, Zenon DEF Connected
  <2>3. phase'[u] = "using" /\ ec'[u] = "ok" => content'[holder'[u]] = ConnectSuccess
    BY <1>1, <1>5, <2>1 DEF Connected, poolVars, TypeOK
  <2>. QED BY <1>2, <1>5, <2>2, <2>3, Others, States, Zenon
<1>6. ASSUME NEW u \in Users, Uses(u) PROVE TransactionKnown'
  <2>1. UsesKeep(u) /\ OthersKept(u)
    BY <1>6, UsesStep, Others
  <2>2. holder' = holder
    BY <2>1, Zenon DEF UsesKeep, OwnKept
  <2>. QED BY <1>2, <2>1, <2>2, Zenon DEF UsesKeep
<1>7. ASSUME NEW u \in Users, Drop(u) PROVE TransactionKnown'
  <2>1. phase'[u] # "using"
    BY <1>1, <1>7 DEF Drop, TypeOK
  <2>. QED BY <1>2, <1>7, <2>1, Others, Zenon
<1>8. ASSUME NEW u \in Users, NEW c \in Cells, Granted(u, c) PROVE TransactionKnown'
  <2>1. Clean(content[c])
    BY <1>8, PooledAssumption, Zenon DEF Granted, Pool!Grant, Pool!Held, PooledInv, Parked
  <2>2. phase'[u] = "using" => content[c] # Empty
    BY <1>1, <1>8, Zenon DEF Granted, Reuse, Connect, TypeOK
  <2>3. holder'[u] = c /\ content' = content /\ layer' = layer
    BY <1>1, <1>8 DEF Granted, Pool!Grant, TypeOK
  <2>4. layer[u] = "connection"
    BY <1>1, <1>8, ZenonT(40) DEF Granted, Pool!Grant, Phases
  <2>. QED BY <1>2, <1>8, <2>1, <2>2, <2>3, <2>4, Others, Zenon DEF Clean
<1>9. ASSUME NEW c \in Cells, DropParked(c) PROVE TransactionKnown'
  <2>1. \A v \in Users : holder[v] # c
    BY <1>9, PooledAssumption DEF DropParked, Pool!Held
  <2>2. \A d \in Cells \ {c} : content'[d] = content[d]
    BY <1>1, <1>9, Zenon DEF DropParked, TypeOK
  <2>3. \A v \in Users : phase[v] = "using" => content'[holder[v]] = content[holder[v]]
    BY <1>1, <2>1, <2>2 DEF Phases, Holding, TypeOK
  <2>. QED BY <1>1, <1>9, <2>3, ZenonT(40) DEF DropParked, poolVars, TransactionKnown
<1>10. CASE Tick \/ UNCHANGED vars
  BY <1>1, <1>10 DEF Tick, vars, poolVars, userVars, TransactionKnown
<1>. QED
  BY <1>3, <1>4, <1>5, <1>6, <1>7, <1>8, <1>9, <1>10 DEF Next, Uses

(* Every step leaves the sessions of free cells without a transaction.     *)
LEMMA UnbegunStep == PooledInv /\ [Next]_vars => Unbegun'
<1> SUFFICES ASSUME PooledInv, [Next]_vars PROVE Unbegun'
  OBVIOUS
<1>1. TypeOK /\ Phases /\ Unbegun
  BY DEF PooledInv
<1>2. ASSUME NEW u \in Users, OthersKept(u),
             Holding(u)' /\ ec'[u] = "ok" /\ layer'[u] = "connection" =>
               characteristics'[holder'[u]] = SessionDefaults,
             \A c \in Cells : (\A v \in Users : holder'[v] # c) => characteristics'[c] = SessionDefaults
      PROVE  Unbegun'
  <2>1. ASSUME NEW v \in Users \ {u}, Holding(v)', ec'[v] = "ok", layer'[v] = "connection"
        PROVE  characteristics'[holder'[v]] = SessionDefaults
    <3>1. /\ Holding(v) /\ ec[v] = "ok" /\ layer[v] = "connection"
          /\ characteristics'[holder'[v]] = characteristics[holder[v]]
      BY <1>2, <2>1, Zenon DEF OthersKept, Holding
    <3>. QED BY <1>1, <3>1, Zenon DEF Unbegun
  <2>. QED BY <1>2, <2>1, Zenon DEF Unbegun
<1>3. ASSUME NEW u \in Users, Ask(u) PROVE Unbegun'
  BY <1>1, <1>3 DEF Ask, Pool!Call, TypeOK, Unbegun, Holding, userVars
<1>4. ASSUME NEW u \in Users, Refused(u) PROVE Unbegun'
  BY <1>1, <1>4, Zenon DEF Refused, Pool!Refuse, TypeOK, Unbegun, Holding, userVars
<1>5. ASSUME NEW u \in Users, Connected(u) PROVE Unbegun'
  <2>1. /\ ec[u] = "ok" /\ layer[u] = "connection" /\ phase[u] = "connect" /\ holder[u] \in Cells
        /\ characteristics' = characteristics
    BY <1>1, <1>5 DEF Connected, Phases, Holding, TypeOK
  <2>2. characteristics[holder[u]] = SessionDefaults
    BY <1>1, <2>1, Zenon DEF Unbegun, Holding
  <2>3. holder'[u] = holder[u] \/ (holder'[u] = NoCell /\ phase'[u] = "idle")
    BY <1>1, <1>5 DEF Connected, Pool!GiveUp, poolVars, TypeOK
  <2>4. OthersKept(u)
    BY <1>5, Others, ZenonT(40)
  <2>5. \A c \in Cells : (\A v \in Users : holder'[v] # c) => characteristics'[c] = SessionDefaults
    <3>1. ASSUME NEW c \in Cells, \A v \in Users : holder'[v] # c, c # holder[u]
          PROVE  \A v \in Users : holder[v] # c
      BY <2>4, <3>1, ZenonT(40) DEF OthersKept
    <3>. QED BY <1>1, <2>1, <2>2, <3>1 DEF Unbegun
  <2>. QED BY <1>2, <2>1, <2>2, <2>3, <2>4, <2>5, Zenon DEF Holding
<1>6. ASSUME NEW u \in Users, Uses(u) PROVE Unbegun'
  <2>1. UsesKeep(u) /\ holder[u] \in Cells /\ OthersKept(u)
    BY <1>6, UsesStep, Others
  <2>2. /\ holder' = holder
        /\ \A c \in Cells \ {holder[u]} : characteristics'[c] = characteristics[c]
        /\ ec'[u] = "ok" /\ layer'[u] = "connection" => characteristics'[holder[u]] = SessionDefaults
    BY <2>1, Zenon DEF UsesKeep, OwnKept
  <2>3. \A c \in Cells : (\A v \in Users : holder'[v] # c) => characteristics'[c] = SessionDefaults
    BY <1>1, <2>1, <2>2, Zenon DEF Unbegun
  <2>. QED BY <1>2, <2>1, <2>2, <2>3
<1>7. ASSUME NEW u \in Users, Drop(u) PROVE Unbegun'
  <2>1. phase'[u] = "idle" /\ OthersKept(u)
    BY <1>1, <1>7, Others, Zenon DEF Drop, TypeOK
  <2>2. \A c \in Cells : characteristics'[c] = IF c = holder[u] THEN SessionDefaults ELSE characteristics[c]
    BY <1>1, <1>7, Zenon DEF Drop, TypeOK
  <2>3. \A c \in Cells : (\A v \in Users : holder'[v] # c) => characteristics'[c] = SessionDefaults
    <3>1. ASSUME NEW c \in Cells, \A v \in Users : holder'[v] # c, c # holder[u]
          PROVE  \A v \in Users : holder[v] # c
      BY <2>1, <3>1, Zenon DEF OthersKept
    <3>. QED BY <1>1, <2>2, <3>1 DEF Unbegun
  <2>. QED BY <1>2, <2>1, <2>3 DEF Holding
<1>8. ASSUME NEW u \in Users, NEW c \in Cells, Granted(u, c) PROVE Unbegun'
  <2>1. \A v \in Users : holder[v] # c
    BY <1>8, PooledAssumption DEF Granted, Pool!Grant, Pool!Held
  <2>2. /\ characteristics[c] = SessionDefaults /\ characteristics' = characteristics
        /\ holder' = [holder EXCEPT ![u] = c] /\ holder[u] = NoCell
    BY <1>1, <1>8, <2>1, Zenon DEF Granted, Pool!Grant, Unbegun, Phases, Holding
  <2>3. NoCell \notin Cells
    BY PooledAssumption, Zenon
  <2>4. \A d \in Cells : (\A v \in Users : holder'[v] # d) => characteristics'[d] = SessionDefaults
    <3>1. ASSUME NEW d \in Cells, \A v \in Users : holder'[v] # d PROVE \A v \in Users : holder[v] # d
      BY <1>1, <2>2, <2>3, <3>1, Zenon DEF TypeOK
    <3>. QED BY <1>1, <2>2, <3>1, Zenon DEF Unbegun
  <2>5. holder'[u] = c
    BY <1>1, <2>2 DEF TypeOK
  <2>6. OthersKept(u)
    BY <1>8, Others
  <2>. QED BY <1>2, <2>2, <2>4, <2>5, <2>6, Zenon
<1>9. ASSUME NEW c \in Cells, DropParked(c) PROVE Unbegun'
  BY <1>1, <1>9, Zenon DEF DropParked, poolVars, Unbegun, Holding
<1>10. CASE Tick \/ UNCHANGED vars
  BY <1>1, <1>10 DEF Tick, vars, poolVars, userVars, Unbegun, Holding
<1>. QED
  BY <1>3, <1>4, <1>5, <1>6, <1>7, <1>8, <1>9, <1>10 DEF Next, Uses

(* Every step leaves error contexts that a user can account for.           *)
LEMMA ContextStep == PooledInv /\ [Next]_vars => ContextForCause'
<1> SUFFICES ASSUME PooledInv, [Next]_vars PROVE ContextForCause'
  OBVIOUS
<1>1. TypeOK /\ Phases /\ ContextForCause
  BY Zenon DEF PooledInv
<1>2. ASSUME NEW u \in Users, OthersKept(u),
             phase'[u] = "using" =>
               /\ context'[holder'[u]] = "own" => last'[u] \in {"failed", "got_failed"}
               /\ context'[holder'[u]] = "old" => last'[u] \in {"got", "served", "got_failed"}
      PROVE  ContextForCause'
  <2>1. ASSUME NEW v \in Users \ {u}, phase'[v] = "using"
        PROVE  /\ context'[holder'[v]] = "own" => last'[v] \in {"failed", "got_failed"}
               /\ context'[holder'[v]] = "old" => last'[v] \in {"got", "served", "got_failed"}
    <3>1. phase[v] = "using" /\ last'[v] = last[v] /\ context'[holder'[v]] = context[holder[v]]
      BY <1>2, <2>1, ZenonT(40) DEF OthersKept, Holding
    <3>. QED BY <1>1, <3>1, Zenon DEF ContextForCause
  <2>. QED BY <1>2, <2>1, Zenon DEF ContextForCause
<1>3. ASSUME NEW u \in Users, Ask(u) PROVE ContextForCause'
  BY <1>1, <1>3, Zenon DEF Ask, Pool!Call, TypeOK, ContextForCause, userVars
<1>4. ASSUME NEW u \in Users, Refused(u) PROVE ContextForCause'
  BY <1>1, <1>4 DEF Refused, Pool!Refuse, TypeOK, ContextForCause, userVars
<1>5. ASSUME NEW u \in Users, Connected(u) PROVE ContextForCause'
  <2>1. holder[u] \in Cells
    BY <1>1, <1>5 DEF Connected, Phases, Holding, TypeOK
  <2>2. phase'[u] = "using" =>
          /\ holder'[u] = holder[u]
          /\ context'[holder[u]] = "empty" \/ (context'[holder[u]] = "own" /\ last'[u] = "got_failed")
    BY <1>1, <1>5, <2>1 DEF Connected, poolVars, TypeOK
  <2>. QED BY <1>2, <1>5, <2>2, Others, Zenon
<1>6. ASSUME NEW u \in Users, Uses(u) PROVE ContextForCause'
  <2>1. UsesKeep(u) /\ OthersKept(u)
    BY <1>6, UsesStep, Others
  <2>2. holder' = holder
    BY <2>1, Zenon DEF UsesKeep, OwnKept
  <2>. QED BY <1>2, <2>1, <2>2, Zenon DEF UsesKeep
<1>7. ASSUME NEW u \in Users, Drop(u) PROVE ContextForCause'
  <2>1. phase'[u] # "using"
    BY <1>1, <1>7 DEF Drop, TypeOK
  <2>. QED BY <1>2, <1>7, <2>1, Others, ZenonT(40)
<1>8. ASSUME NEW u \in Users, NEW c \in Cells, Granted(u, c) PROVE ContextForCause'
  <2>1. holder'[u] = c /\ last'[u] = "got"
    BY <1>1, <1>8, Zenon DEF Granted, Pool!Grant, Phases, TypeOK
  <2>2. phase'[u] = "using" => context'[c] # "own"
    BY <1>1, <1>8 DEF Granted, Reuse, Connect, TypeOK
  <2>. QED BY <1>2, <1>8, <2>1, <2>2, Others, Zenon
<1>9. ASSUME NEW c \in Cells, DropParked(c) PROVE ContextForCause'
  <2>1. \A v \in Users : holder[v] # c
    BY <1>9, PooledAssumption DEF DropParked, Pool!Held
  <2>2. \A d \in Cells \ {c} : context'[d] = context[d]
    BY <1>1, <1>9, Zenon DEF DropParked, TypeOK
  <2>3. \A v \in Users : phase[v] = "using" => context'[holder[v]] = context[holder[v]]
    BY <1>1, <2>1, <2>2 DEF Phases, Holding, TypeOK
  <2>. QED BY <1>1, <1>9, <2>3, Zenon DEF DropParked, poolVars, ContextForCause
<1>10. CASE Tick \/ UNCHANGED vars
  BY <1>1, <1>10, Zenon DEF Tick, vars, poolVars, userVars, ContextForCause
<1>. QED
  BY <1>3, <1>4, <1>5, <1>6, <1>7, <1>8, <1>9, <1>10 DEF Next, Uses

(* What the connection pool keeps at every step.                           *)
THEOREM Invariance == Spec => []PooledInv
<1>1. PooledInv /\ [Next]_vars => PooledInv'
  BY TypeStep, PhaseStep, ParkedStep, UnbegunStep, TransactionStep, ContextStep, WaitsStep DEF PooledInv
<1>. QED BY InitInv, <1>1, PTL DEF Spec

(* No connection is parked that is not established or in a transaction.    *)
THEOREM ParkedClean == Spec => []ParkedIsClean
<1>1. PooledInv => ParkedIsClean
  <2> SUFFICES ASSUME PooledInv, NEW c \in Cells, c \notin Pool!Held PROVE Clean(content[c])
    BY Zenon DEF ParkedIsClean, Clean
  <2>1. \A u \in Users : holder[u] # c
    BY PooledAssumption DEF Pool!Held
  <2>. QED BY <2>1, Zenon DEF PooledInv, Parked
<1>. QED BY Invariance, <1>1, PTL

(* Who was told of no error knows whether the server is in a transaction.  *)
THEOREM TransactionsKnown == Spec => []TransactionKnown
BY Invariance, PTL DEF PooledInv

(* Every text in an error context has its cause in what its reader did, or *)
(* in the reuse of the connection.                                         *)
THEOREM ContextsExplained == Spec => []ContextForCause
BY Invariance, PTL DEF PooledInv

(* The queue and the connect together take no longer than the time         *)
(* constraint allows: its length, or twice a duration.                     *)
THEOREM WaitsLimited == Spec => []WaitLimits
<1>1. PooledInv => WaitLimits
  <2> SUFFICES ASSUME PooledInv, NEW u \in Users, phase[u] \in {"queue", "connect"}
               PROVE  /\ Constraint[u] # "none" => now <= asked[u] + 2 * T
                      /\ Bound[u] # Unbound => now <= asked[u] + 2 * Bound[u]
                      /\ Bound[u] = Unbound =>
                           /\ Constraint[u] = "deadline" => now <= asked[u] + T
                           /\ Constraint[u] = "none" /\ phase[u] = "queue" => now = asked[u]
    BY DEF WaitLimits
  <2>1. now \in Nat /\ asked[u] \in Nat /\ T \in Nat /\ expires[u] \in Nat \cup {-1} /\ Given(u).t \in Nat
    BY PooledAssumption, GivenType DEF PooledInv, TypeOK, Never
  <2>2. Bound[u] # Unbound => Bound[u] \in Nat
    BY PooledAssumption, ZenonT(40)
  <2>3. CASE phase[u] = "queue"
    <3>1. asked[u] <= now /\ now <= asked[u] + QueueTimeout(u)
      BY <2>3 DEF PooledInv, Waits
    <3>2. QueueTimeout(u) = IF Given(u).kind = "none" THEN 0 ELSE Given(u).t
      BY Zenon DEF QueueTimeout
    <3>3. Constraint[u] # "none" => QueueTimeout(u) <= T
      BY <3>2, GivenType, <2>1, Zenon
    <3>4. Bound[u] # Unbound => QueueTimeout(u) <= Bound[u]
      BY <3>2, GivenType, <2>1, Zenon
    <3>5. Bound[u] = Unbound /\ Constraint[u] = "none" => QueueTimeout(u) = 0
      BY <3>2, GivenType, Zenon
    <3>6. QueueTimeout(u) \in Nat
      BY GivenType
    <3>7. \A q, b \in Nat : q <= b /\ now <= asked[u] + q => now <= asked[u] + b /\ now <= asked[u] + 2 * b
      BY <2>1, SMTT(30)
    <3>8. Constraint[u] # "none" => now <= asked[u] + 2 * T /\ now <= asked[u] + T
      BY <2>1, <3>1, <3>3, <3>6, <3>7, Zenon
    <3>9. Bound[u] # Unbound => now <= asked[u] + 2 * Bound[u]
      BY <2>2, <3>1, <3>4, <3>6, <3>7, Zenon
    <3>10. Bound[u] = Unbound /\ Constraint[u] = "none" => now = asked[u]
      BY <2>1, <3>1, <3>5
    <3>. QED BY <3>8, <3>9, <3>10, Zenon
  <2>4. CASE phase[u] = "connect"
    <3>1. /\ Given(u).kind = "deadline" => now <= asked[u] + T
          /\ Given(u).kind = "duration" => now <= asked[u] + 2 * Given(u).t
      BY <2>1, <2>4 DEF PooledInv, Waits
    <3>2. \A q, b \in Nat : q <= b /\ now <= asked[u] + 2 * q => now <= asked[u] + 2 * b
      BY <2>1
    <3>3. Given(u).kind = "deadline" => now <= asked[u] + 2 * T
      BY <2>1, <3>1
    <3>4. Constraint[u] # "none" => now <= asked[u] + 2 * T
      <4>1. Constraint[u] # "none" => Given(u).kind \in {"deadline", "duration"} /\ Given(u).t <= T
        BY GivenType, Zenon
      <4>. QED BY <2>1, <3>1, <3>2, <3>3, <4>1
    <3>5. Bound[u] # Unbound => now <= asked[u] + 2 * Bound[u]
      <4>1. Bound[u] # Unbound => Given(u).kind = "duration" /\ Given(u).t <= Bound[u]
        BY GivenType, Zenon
      <4>. QED BY <2>1, <2>2, <3>1, <3>2, <4>1, Zenon
    <3>6. Bound[u] = Unbound /\ Constraint[u] = "deadline" => now <= asked[u] + T
      <4>1. Bound[u] = Unbound => Given(u).kind = Constraint[u]
        BY GivenType
      <4>. QED BY <3>1, <4>1, Zenon
    <3>. QED BY <2>4, <3>4, <3>5, <3>6, Zenon
  <2>. QED BY <2>3, <2>4, ZenonT(40)
<1>. QED BY Invariance, <1>1, PTL

(* Nobody is handed a connection without an error that is not established  *)
(* or in a transaction, by way of the pool or of a connect.                *)
THEOREM HandOut == Spec => CleanHandOut
<1> DEFINE Step == \A u \in Users : phase[u] # "using" /\ phase'[u] = "using" /\ ec'[u] = "ok" =>
                     content'[holder'[u]].status = "ok" /\ content'[holder'[u]].txn = "idle"
<1>1. PooledInv /\ [Next]_vars => [Step]_vars
  <2> SUFFICES ASSUME PooledInv, Next, NEW u \in Users,
                      phase[u] # "using", phase'[u] = "using", ec'[u] = "ok"
               PROVE  content'[holder'[u]].status = "ok" /\ content'[holder'[u]].txn = "idle"
    OBVIOUS
  <2> USE DEF PooledInv, TypeOK
  <2>1. (\E c \in Cells : Granted(u, c)) \/ Connected(u)
    <3>1. \A v \in Users : ~Uses(v)
      BY UsesStep, Zenon DEF UsesKeep, OwnKept
    <3>2. \A v \in Users : ~Ask(v) /\ ~Refused(v) /\ ~Drop(v) /\ (Connected(v) => v = u)
      BY ZenonT(40) DEF Ask, Refused, Connected, Drop
    <3>3. \A v \in Users, c \in Cells : Granted(v, c) => v = u
      BY DEF Granted, Reuse, Connect
    <3>4. (\A c \in Cells : ~DropParked(c)) /\ ~Tick
      BY DEF DropParked, Tick
    <3>. QED BY <3>1, <3>2, <3>3, <3>4, ZenonT(40) DEF Next, Uses
  <2>2. ASSUME NEW c \in Cells, Granted(u, c)
        PROVE  content'[holder'[u]].status = "ok" /\ content'[holder'[u]].txn = "idle"
    <3>1. \A v \in Users : holder[v] # c
      BY <2>2, PooledAssumption DEF Granted, Pool!Grant, Pool!Held
    <3>2. Clean(content[c])
      BY <3>1, Zenon DEF Parked
    <3>3. content[c] # Empty
      BY <2>2, Zenon DEF Granted, Reuse, Connect
    <3>4. holder'[u] = c /\ content' = content
      BY <2>2 DEF Granted, Pool!Grant
    <3>. QED BY <3>2, <3>3, <3>4, Zenon DEF Clean
  <2>3. CASE Connected(u)
    <3>1. holder[u] \in Cells
      BY <2>3, ZenonT(40) DEF Connected, Phases, Holding
    <3>2. content'[holder[u]] = ConnectSuccess /\ holder' = holder
      BY <2>3, <3>1 DEF Connected, poolVars
    <3>. QED BY <3>2, States, Zenon
  <2>. QED BY <2>1, <2>2, <2>3, Zenon
<1>. QED BY Invariance, <1>1, PTL DEF Spec, CleanHandOut
=============================================================================
