---------------------------- MODULE RequestProofs ----------------------------
(***************************************************************************)
(* Proofs about requests on a connection, with cancel() going on beside    *)
(* them, when one thread runs the io_context: the handler of a request is  *)
(* called once and nothing is left behind, and a success means that the    *)
(* reply was read to its end.  Both rest on the order of the handlers on   *)
(* the strand: as long as the query is not sent, a read handler that runs  *)
(* in front of the write handler finds nothing to parse.                   *)
(***************************************************************************)
EXTENDS RequestCancel, TLAPS

(* What the proofs say of the handlers in a sequence s of them: each       *)
(* request has one of each operation at most, whether it has one of an     *)
(* operation, and whether a read that succeeded is in front of the write   *)
(* of the same request, which may still be in the reactor (w).             *)
Unique(s) ==
  \A i, j \in 1..Len(s) : s[i].op = s[j].op /\ s[i].req = s[j].req => i = j

Has(s, op, r) == \E i \in 1..Len(s) : s[i].op = op /\ s[i].req = r

Behind(s, r, w) ==
  \E i \in 1..Len(s) :
    /\ s[i] = Entry("read", r, "ok")
    /\ r \in w \/ \E j \in 1..Len(s) : i < j /\ s[j].op = "write" /\ s[j].req = r

-----------------------------------------------------------------------------
(* The inductive invariant.                                                *)

Over(r) == state[r] = "error" \/ pc[r] = "end"

Items == [req : Requests, kind : {"tuples", "error", "copy", "ready"}]
NoResult == [req |-> 0, kind |-> "none"]

OpTypes ==
  /\ first_call \in [Requests -> 0..2]
  /\ timer \in [Requests -> TimerStates]
  /\ saved \in [Requests -> Codes \cup {"none"}]
  /\ calls \in [Requests -> Nat]
  /\ answer \in [Requests -> Codes \cup {"none"}]
  /\ state \in [Requests -> {"error", "send_finish", "send_in_progress"}]
  /\ pc \in [Requests -> {"new", "made", "sent", "first", "drain", "spin", "end"}]
  /\ rwaits \subseteq Requests /\ wwaits \subseteq Requests
  /\ strand \in Seq(Entries)

LibTypes ==
  /\ result \in [Requests -> Items \cup {NoResult}]
  /\ outbuf \in Nat
  /\ parsed \in Seq(Items) /\ inbox \in Seq(Items) /\ reply \in Seq(Items)
  /\ inflight \in Requests \cup {0}

\* Requests are made one after the other.
Serial == \A p, r \in Requests : p < r /\ pc[r] # "new" => calls[p] > 0

\* The counter of the deadline, its timer and the calls of the handler.
DeadlineOf(r) ==
  IF pc[r] = "new" THEN first_call[r] = 0 /\ timer[r] = "off" /\ calls[r] = 0
  ELSE IF first_call[r] = 2 THEN r \in Timed /\ ~Over(r) /\ timer[r] \in {"armed", "queued"} /\ calls[r] = 0
  ELSE IF first_call[r] = 1 THEN r \in Timed /\ timer[r] = (IF Over(r) THEN "queued" ELSE "ran") /\ calls[r] = 0
  ELSE IF Over(r) THEN timer[r] \in {"off", "ran"} /\ calls[r] = 1
  ELSE r \notin Timed /\ timer[r] = "off" /\ calls[r] = 0

\* Where the two operations of a request are.
WaitsOf(r) ==
  /\ r \in rwaits => pc[r] \in {"first", "drain"} /\ state[r] # "error" /\ ~Has(strand, "read", r)
  /\ r \in wwaits => pc[r] \in {"sent", "first"} /\ state[r] = "send_in_progress" /\ ~Has(strand, "write", r)
  /\ Has(strand, "read", r) /\ state[r] # "error" => pc[r] \in {"first", "drain"}
  /\ Has(strand, "write", r) /\ state[r] = "send_in_progress" => pc[r] \in {"sent", "first"}
  /\ Has(strand, "timer", r) => timer[r] = "queued"
  /\ pc[r] \in {"new", "made"} =>
       state[r] = "send_in_progress" /\ ~Has(strand, "read", r) /\ ~Has(strand, "write", r)
  /\ pc[r] \in {"sent", "first"} /\ state[r] = "send_in_progress" => r \in wwaits \/ Has(strand, "write", r)
  /\ pc[r] \in {"drain", "spin"} => state[r] # "send_in_progress"

\* What is left of the reply, and what a read in front of the write will find.
ReplyOf(r) ==
  /\ pc[r] \in {"sent", "first", "drain"} /\ state[r] # "error" =>
       parsed = <<>> /\ Len(inbox) + Len(reply) <= IF pc[r] = "drain" THEN 1 ELSE 2
  /\ pc[r] = "first" /\ state[r] = "send_in_progress" /\ Behind(strand, r, wwaits) => closed \/ outbuf > 0

Unanswered ==
  /\ outbuf > 0 => inbox = <<>> /\ parsed = <<>>
  /\ inflight = 0 => inbox = <<>> /\ parsed = <<>> /\ reply = <<>>
  /\ closed => inflight = 0

\* What a success, told or to be told by the timer's handler, rests on.
SuccessOf(r) ==
  answer[r] = "ok" \/ saved[r] = "ok" =>
    pc[r] = "end" /\ result[r].kind = "tuples" /\ (inflight = r => broken)

OpInv ==
  /\ OpTypes
  /\ Serial
  /\ Unique(strand)
  /\ \A r \in Requests : DeadlineOf(r) /\ WaitsOf(r) /\ ReplyOf(r) /\ SuccessOf(r)

LibInv == LibTypes /\ Unanswered

RequestInv == OpInv /\ LibInv

-----------------------------------------------------------------------------
(* Handlers that run and handlers that become ready.                       *)

(* What is left once the first handler was taken off the strand            *)
(* (RunHandler).                                                           *)
LEMMA TailFacts ==
  ASSUME NEW s \in Seq(Entries), s # <<>>
  PROVE  /\ Tail(s) \in Seq(Entries)
         /\ Head(s) \in Entries
         /\ Len(s) \in Nat /\ Len(s) >= 1
         /\ Len(Tail(s)) = Len(s) - 1
         /\ Head(s) = s[1]
         /\ \A i \in 1..Len(Tail(s)) : Tail(s)[i] = s[i + 1]
  OBVIOUS

(* The handlers that are left are unique, and all but the one that was     *)
(* taken are there still.                                                  *)
LEMMA TailHas ==
  ASSUME NEW s \in Seq(Entries), s # <<>>, Unique(s)
  PROVE  /\ Unique(Tail(s))
         /\ \A op, r : Has(Tail(s), op, r) <=>
              Has(s, op, r) /\ ~(Head(s).op = op /\ Head(s).req = r)
         /\ Has(s, Head(s).op, Head(s).req)
<1> DEFINE t == Tail(s)
<1>1. /\ Len(s) \in Nat /\ Len(s) >= 1 /\ Len(t) = Len(s) - 1
      /\ Head(s) = s[1] /\ \A i \in 1..Len(t) : t[i] = s[i + 1]
  BY TailFacts
<1> HIDE DEF t
<1>2. Unique(t)
  BY <1>1 DEF Unique
<1>3. ASSUME NEW op, NEW r PROVE Has(t, op, r) <=> Has(s, op, r) /\ ~(Head(s).op = op /\ Head(s).req = r)
  <2>1. ASSUME Has(t, op, r) PROVE Has(s, op, r) /\ ~(Head(s).op = op /\ Head(s).req = r)
    <3>1. PICK i \in 1..Len(t) : t[i].op = op /\ t[i].req = r
      BY <2>1 DEF Has
    <3>2. i + 1 \in 1..Len(s) /\ 1 \in 1..Len(s) /\ i + 1 # 1 /\ s[i + 1] = t[i]
      BY <1>1
    <3> QED
      BY <1>1, <3>1, <3>2 DEF Has, Unique
  <2>2. ASSUME Has(s, op, r), ~(Head(s).op = op /\ Head(s).req = r) PROVE Has(t, op, r)
    <3>1. PICK i \in 1..Len(s) : s[i].op = op /\ s[i].req = r
      BY <2>2 DEF Has
    <3>2. i # 1
      BY <1>1, <2>2, <3>1
    <3>3. i - 1 \in 1..Len(t) /\ t[i - 1] = s[i]
      BY <1>1, <3>2
    <3> QED
      BY <3>1, <3>3 DEF Has
  <2> QED
    BY <2>1, <2>2
<1>4. Has(s, Head(s).op, Head(s).req)
  <2>1. 1 \in 1..Len(s)
    BY <1>1
  <2> QED
    BY <1>1, <2>1 DEF Has
<1> QED
  BY <1>2, <1>3, <1>4 DEF t

(* A read in front of its write was in front of it before, and the read    *)
(* that is taken was if the write is still to come.                        *)
LEMMA TailBehind ==
  ASSUME NEW s \in Seq(Entries), s # <<>>, NEW r, NEW w
  PROVE  /\ Behind(Tail(s), r, w) => Behind(s, r, w)
         /\ Head(s) = Entry("read", r, "ok") /\ (r \in w \/ Has(Tail(s), "write", r)) => Behind(s, r, w)
<1> DEFINE t == Tail(s)
<1>1. /\ Len(s) \in Nat /\ Len(s) >= 1 /\ Len(t) = Len(s) - 1
      /\ Head(s) = s[1] /\ \A i \in 1..Len(t) : t[i] = s[i + 1]
  BY TailFacts
<1> HIDE DEF t
<1>2. \A i \in 1..Len(t) : i + 1 \in 1..Len(s) /\ s[i + 1] = t[i]
  BY <1>1
<1>3. ASSUME Behind(t, r, w) PROVE Behind(s, r, w)
  <2>1. PICK i \in 1..Len(t) :
          /\ t[i] = Entry("read", r, "ok")
          /\ r \in w \/ \E j \in 1..Len(t) : i < j /\ t[j].op = "write" /\ t[j].req = r
    BY <1>3 DEF Behind
  <2>2. i + 1 \in 1..Len(s) /\ s[i + 1] = Entry("read", r, "ok")
    BY <1>2, <2>1
  <2>3. CASE r \in w
    BY <2>2, <2>3 DEF Behind
  <2>4. ASSUME NEW j \in 1..Len(t), i < j, t[j].op = "write", t[j].req = r PROVE Behind(s, r, w)
    <3>1. j + 1 \in 1..Len(s) /\ s[j + 1].op = "write" /\ s[j + 1].req = r
      BY <1>2, <2>4
    <3>2. i + 1 < j + 1
      BY <2>4
    <3> QED
      BY <2>2, <3>1, <3>2 DEF Behind
  <2> QED
    BY <2>1, <2>3, <2>4
<1>4. ASSUME Head(s) = Entry("read", r, "ok"), r \in w \/ Has(t, "write", r) PROVE Behind(s, r, w)
  <2>1. 1 \in 1..Len(s) /\ s[1] = Entry("read", r, "ok")
    BY <1>1, <1>4
  <2>2. CASE r \in w
    BY <2>1, <2>2 DEF Behind
  <2>3. ASSUME NEW j \in 1..Len(t), t[j].op = "write", t[j].req = r PROVE Behind(s, r, w)
    <3>1. j + 1 \in 1..Len(s) /\ s[j + 1].op = "write" /\ s[j + 1].req = r /\ 1 < j + 1
      BY <1>2, <2>3, <1>1
    <3> QED
      BY <2>1, <3>1 DEF Behind
  <2> QED
    BY <1>4, <2>2, <2>3 DEF Has
<1> QED
  BY <1>3, <1>4 DEF t

(* A handler that becomes ready is put behind the others.                  *)
LEMMA AppendHas ==
  ASSUME NEW s \in Seq(Entries), NEW e \in Entries
  PROVE  /\ Append(s, e) \in Seq(Entries)
         /\ Unique(s) /\ ~Has(s, e.op, e.req) => Unique(Append(s, e))
         /\ \A op, r : Has(Append(s, e), op, r) <=> Has(s, op, r) \/ (e.op = op /\ e.req = r)
<1> DEFINE t == Append(s, e)
<1>1. /\ t \in Seq(Entries) /\ Len(s) \in Nat /\ Len(t) = Len(s) + 1
      /\ t[Len(s) + 1] = e /\ \A i \in 1..Len(s) : t[i] = s[i]
  OBVIOUS
<1> HIDE DEF t
<1>2. 1..Len(t) = 1..Len(s) \cup {Len(s) + 1}
  BY <1>1
<1>3. ASSUME Unique(s), ~Has(s, e.op, e.req) PROVE Unique(t)
  BY <1>1, <1>2, <1>3, Zenon DEF Unique, Has
<1>4. \A op, r : Has(t, op, r) <=> Has(s, op, r) \/ (e.op = op /\ e.req = r)
  BY <1>1, <1>2, Zenon DEF Has
<1> QED
  BY <1>1, <1>3, <1>4 DEF t

(* It makes a read be in front of its write only if it is the write, and   *)
(* was in the reactor, or the read, and the write is in the reactor.       *)
LEMMA AppendBehind ==
  ASSUME NEW s \in Seq(Entries), NEW e \in Entries, NEW r, NEW w, Behind(Append(s, e), r, w)
  PROVE  \/ Behind(s, r, w)
         \/ e.op = "write" /\ e.req = r /\ Behind(s, r, w \cup {r})
         \/ e = Entry("read", r, "ok") /\ r \in w
<1> DEFINE t == Append(s, e)
<1>1. /\ Len(s) \in Nat /\ Len(t) = Len(s) + 1
      /\ t[Len(s) + 1] = e /\ \A i \in 1..Len(s) : t[i] = s[i]
  OBVIOUS
<1>2. PICK i \in 1..Len(t) :
        /\ t[i] = Entry("read", r, "ok")
        /\ r \in w \/ \E j \in 1..Len(t) : i < j /\ t[j].op = "write" /\ t[j].req = r
  BY DEF Behind
<1> HIDE DEF t
<1>3. CASE r \in w
  <2>1. CASE i = Len(s) + 1
    BY <1>1, <1>2, <1>3, <2>1
  <2>2. CASE i # Len(s) + 1
    <3>1. i \in 1..Len(s) /\ s[i] = Entry("read", r, "ok")
      BY <1>1, <1>2, <2>2
    <3> QED
      BY <1>3, <3>1 DEF Behind
  <2> QED
    BY <2>1, <2>2
<1>4. ASSUME NEW j \in 1..Len(t), i < j, t[j].op = "write", t[j].req = r
      PROVE  Behind(s, r, w) \/ (e.op = "write" /\ e.req = r /\ Behind(s, r, w \cup {r}))
  <2>1. i \in 1..Len(s) /\ s[i] = Entry("read", r, "ok")
    BY <1>1, <1>2, <1>4
  <2>2. CASE j = Len(s) + 1
    BY <1>1, <1>4, <2>1, <2>2 DEF Behind
  <2>3. CASE j # Len(s) + 1
    <3>1. j \in 1..Len(s) /\ s[j].op = "write" /\ s[j].req = r
      BY <1>1, <1>4, <2>3
    <3> QED
      BY <1>4, <2>1, <3>1 DEF Behind
  <2> QED
    BY <2>2, <2>3
<1> QED
  BY <1>2, <1>3, <1>4, Zenon

(* More writes in the reactor leave more reads in front of one.            *)
LEMMA BehindMore ==
  ASSUME NEW s, NEW r, NEW v, NEW w, r \in v => r \in w, Behind(s, r, v)
  PROVE  Behind(s, r, w)
  BY DEF Behind

(* A read in front of a write is a read.                                   *)
LEMMA BehindHas ==
  ASSUME NEW s, NEW r, NEW w, Behind(s, r, w)
  PROVE  Has(s, "read", r)
  BY DEF Behind, Has, Entry

(* A set of waits of one request has one member, or none.                  *)
LEMMA CountOne ==
  ASSUME NEW r
  PROVE  Cardinality({r}) = 1 /\ Cardinality({}) = 0
<1>1. Cardinality({r}) = 1
  <2> DEFINE F(g) == [T \in SUBSET {r} |-> IF T = {} THEN 0 ELSE 1 + g[T \ {CHOOSE x : x \in T}]]
             h == [T \in SUBSET {r} |-> IF T = {} THEN 0 ELSE 1]
             CS == CHOOSE g : g = F(g)
  <2>1. SUBSET {r} = {{}, {r}}
    OBVIOUS
  <2>2. (CHOOSE x : x \in {r}) = r
    OBVIOUS
  <2>3. {r} \ {r} = {} /\ {r} # {}
    OBVIOUS
  <2>4. h = F(h)
    BY <2>1, <2>2, <2>3
  <2>5. CS = F(CS)
    BY <2>4, Zenon
  <2>6. Cardinality({r}) = CS[{r}]
    BY DEF Cardinality
  <2> HIDE DEF CS
  <2>7. CS[{}] = 0
    BY <2>1, <2>5
  <2>8. CS[{r}] = 1 + CS[{r} \ {CHOOSE x : x \in {r}}]
    BY <2>1, <2>3, <2>5
  <2> QED
    BY <2>2, <2>3, <2>6, <2>7, <2>8
<1>2. Cardinality({}) = 0
  <2> DEFINE F(g) == [T \in SUBSET {} |-> IF T = {} THEN 0 ELSE 1 + g[T \ {CHOOSE x : x \in T}]]
             h == [T \in SUBSET {} |-> 0]
             CS == CHOOSE g : g = F(g)
  <2>1. h = F(h)
    OBVIOUS
  <2>2. CS = F(CS)
    BY <2>1
  <2>3. CS[{}] = 0
    BY <2>2, Zenon
  <2>4. Cardinality({}) = CS[{}]
    BY DEF Cardinality
  <2> QED
    BY <2>3, <2>4
<1> QED
  BY <1>1, <1>2

(* The handlers of the waits that a cancel aborts, when one request at     *)
(* most has any (Aborted).                                                 *)
LEMMA AbortedIs ==
  ASSUME NEW r, rwaits \subseteq {r}, wwaits \subseteq {r}
  PROVE  Aborted = (IF r \in rwaits THEN <<Entry("read", r, "aborted")>> ELSE <<>>)
                     \o (IF r \in wwaits THEN <<Entry("write", r, "aborted")>> ELSE <<>>)
<1>1. Cardinality({r}) = 1 /\ Cardinality({}) = 0
  BY CountOne, Zenon
<1>2. ASSUME NEW S, S \subseteq {r}, NEW op
      PROVE  Aborts(op, S) = IF r \in S THEN <<Entry(op, r, "aborted")>> ELSE <<>>
  <2>1. CASE r \in S
    <3> DEFINE e == Entry(op, r, "aborted")
    <3>1. S = {r} /\ {Entry(op, p, "aborted") : p \in S} = {e}
      BY <1>2, <2>1
    <3>2. e.req = r
      BY DEF Entry
    <3> HIDE DEF e
    <3>3. <<e>> \in [1..1 -> {e}] /\ \A s \in [1..1 -> {e}] : s = <<e>>
      OBVIOUS
    <3>4. 1 \in DOMAIN <<e>> /\ <<e>>[1].req = r
      BY <3>2
    <3> QED
      BY <1>1, <2>1, <3>1, <3>3, <3>4 DEF Aborts, e
  <2>2. CASE r \notin S
    <3>1. S = {} /\ 1..Cardinality(S) = {} /\ {Entry(op, p, "aborted") : p \in S} = {}
      BY <1>1, <1>2, <2>2
    <3>2. <<>> \in [{} -> {}] /\ \A s \in [{} -> {}] : s = <<>>
      OBVIOUS
    <3> QED
      BY <2>2, <3>1, <3>2 DEF Aborts
  <2> QED
    BY <2>1, <2>2
<1>3. Aborts("read", rwaits) = IF r \in rwaits THEN <<Entry("read", r, "aborted")>> ELSE <<>>
  BY <1>2
<1>4. Aborts("write", wwaits) = IF r \in wwaits THEN <<Entry("write", r, "aborted")>> ELSE <<>>
  BY <1>2
<1> QED
  BY <1>3, <1>4, Zenon DEF Aborted

(* The strand when the waits of request r were aborted behind q            *)
(* (CancelWaits).                                                          *)
LEMMA AbortFacts ==
  ASSUME NEW r, rwaits \subseteq {r} \cap Requests, wwaits \subseteq {r} \cap Requests,
         NEW q \in Seq(Entries), Unique(q),
         r \in rwaits => ~Has(q, "read", r), r \in wwaits => ~Has(q, "write", r)
  PROVE  /\ q \o Aborted \in Seq(Entries)
         /\ Unique(q \o Aborted)
         /\ \A op, p : Has(q \o Aborted, op, p) <=>
              \/ Has(q, op, p)
              \/ p = r /\ op = "read" /\ r \in rwaits
              \/ p = r /\ op = "write" /\ r \in wwaits
         /\ \A p : Behind(q \o Aborted, p, {}) => Behind(q, p, wwaits)
<1> DEFINE e == Entry("read", r, "aborted")
           f == Entry("write", r, "aborted")
           a == IF r \in rwaits THEN Append(q, e) ELSE q
           b == IF r \in wwaits THEN Append(a, f) ELSE a
<1>1. q \o Aborted = b
  <2>1. Aborted = (IF r \in rwaits THEN <<e>> ELSE <<>>) \o (IF r \in wwaits THEN <<f>> ELSE <<>>)
    BY AbortedIs
  <2> HIDE DEF e, f
  <2>2. CASE r \in rwaits /\ r \in wwaits
    <3>1. r \in Requests
      BY <2>2
    <3>2. Aborted = <<e>> \o <<f>>
      BY <2>1, <2>2
    <3>3. e \in Entries /\ f \in Entries
      BY <3>1 DEF e, f, Entry, Entries
    <3>4. <<e>> \in Seq(Entries) /\ <<f>> \in Seq(Entries)
      BY <3>3
    <3>5. q \o (<<e>> \o <<f>>) = (q \o <<e>>) \o <<f>>
      BY <3>4
    <3>6. q \o <<e>> = Append(q, e) /\ Append(q, e) \in Seq(Entries)
      BY <3>3
    <3>7. Append(q, e) \o <<f>> = Append(Append(q, e), f)
      BY <3>3, <3>6
    <3> QED
      BY <2>2, <3>2, <3>5, <3>6, <3>7, Zenon
  <2>3. CASE r \in rwaits /\ r \notin wwaits
    <3>1. e \in Entries
      BY <2>3 DEF e, Entry, Entries
    <3>2. Aborted = <<e>>
      BY <2>1, <2>3, <3>1
    <3> QED
      BY <2>3, <3>1, <3>2
  <2>4. CASE r \notin rwaits /\ r \in wwaits
    <3>1. f \in Entries
      BY <2>4 DEF f, Entry, Entries
    <3>2. Aborted = <<f>>
      BY <2>1, <2>4, <3>1
    <3> QED
      BY <2>4, <3>1, <3>2
  <2>5. CASE r \notin rwaits /\ r \notin wwaits
    <3>1. Aborted = <<>>
      BY <2>1, <2>5
    <3> QED
      BY <2>5, <3>1
  <2> QED
    BY <2>2, <2>3, <2>4, <2>5
<1>2. /\ e.op = "read" /\ e.req = r /\ e.ec = "aborted" /\ f.op = "write" /\ f.req = r
      /\ r \in rwaits => e \in Entries
      /\ r \in wwaits => f \in Entries
  BY DEF Entry, Entries
<1>3. \A p : e # Entry("read", p, "ok") /\ f # Entry("read", p, "ok")
  BY DEF Entry
<1> HIDE DEF e, f
<1>4. /\ a \in Seq(Entries) /\ Unique(a)
      /\ \A op, p : Has(a, op, p) <=> Has(q, op, p) \/ (p = r /\ op = "read" /\ r \in rwaits)
  BY <1>2, AppendHas
<1>5. ASSUME NEW p, NEW w, Behind(a, p, w) PROVE Behind(q, p, w)
  BY <1>2, <1>3, <1>5, AppendBehind, Zenon
<1> HIDE DEF a
<1>6. /\ b \in Seq(Entries) /\ Unique(b)
      /\ \A op, p : Has(b, op, p) <=> Has(a, op, p) \/ (p = r /\ op = "write" /\ r \in wwaits)
  BY <1>2, <1>4, AppendHas
<1>7. ASSUME NEW p, Behind(b, p, {}) PROVE Behind(q, p, wwaits)
  <2>1. Behind(a, p, {}) \/ (p = r /\ r \in wwaits /\ Behind(a, p, {} \cup {p}))
    BY <1>2, <1>3, <1>4, <1>7, AppendBehind, Zenon
  <2>2. Behind(a, p, {}) => Behind(a, p, wwaits)
    BY BehindMore
  <2>3. p \in wwaits /\ Behind(a, p, {} \cup {p}) => Behind(a, p, wwaits)
    BY BehindMore
  <2> QED
    BY <2>1, <2>2, <2>3, <1>5
<1> HIDE DEF b
<1> QED
  BY <1>1, <1>4, <1>6, <1>7

(* The strand when the operation of request r cancels the timer behind s   *)
(* (TimerEntry).                                                           *)
LEMMA TimerFacts ==
  ASSUME NEW r \in Requests, NEW s \in Seq(Entries), Unique(s),
         timer[r] = "armed" => ~Has(s, "timer", r)
  PROVE  /\ s \o TimerEntry(r) \in Seq(Entries)
         /\ Unique(s \o TimerEntry(r))
         /\ \A op, p : Has(s \o TimerEntry(r), op, p) <=>
              Has(s, op, p) \/ (p = r /\ op = "timer" /\ timer[r] = "armed")
         /\ \A p, w : Behind(s \o TimerEntry(r), p, w) => Behind(s, p, w)
<1> DEFINE e == Entry("timer", r, "ok")
<1>1. e \in Entries /\ e.op = "timer" /\ e.req = r /\ \A p : e # Entry("read", p, "ok")
  BY DEF Entry, Entries
<1>2. s \o TimerEntry(r) = IF timer[r] = "armed" THEN Append(s, e) ELSE s
  <2>1. s \o <<e>> = Append(s, e)
    BY <1>1
  <2>2. s \o <<>> = s
    OBVIOUS
  <2> QED
    BY <2>1, <2>2 DEF TimerEntry
<1> HIDE DEF e
<1>3. CASE timer[r] = "armed"
  <2>1. s \o TimerEntry(r) = Append(s, e)
    BY <1>2, <1>3
  <2>2. ASSUME NEW p, NEW w, Behind(Append(s, e), p, w) PROVE Behind(s, p, w)
    BY <1>1, <2>2, AppendBehind, Zenon
  <2> QED
    BY <1>1, <1>3, <2>1, <2>2, AppendHas
<1>4. CASE timer[r] # "armed"
  BY <1>2, <1>4
<1> QED
  BY <1>3, <1>4, Zenon

-----------------------------------------------------------------------------
(* Nothing is there before the first request is made.                      *)
LEMMA InitInv == Init => RequestInv
<1> SUFFICES ASSUME Init PROVE RequestInv
  OBVIOUS
<1>0. OpTypes
  BY DEF Init, DeadlineInit, OpTypes, TimerStates, Requests
<1>1. LibTypes
  BY DEF Init, LibTypes, NoResult
<1>2. /\ strand = <<>> /\ \A op, r : ~Has(strand, op, r)
      /\ Unique(strand)
  BY DEF Init, Has, Unique
<1>3. \A r \in Requests : DeadlineOf(r) /\ WaitsOf(r) /\ ReplyOf(r) /\ SuccessOf(r)
  BY <1>2, Zenon DEF Init, DeadlineInit, DeadlineOf, WaitsOf, ReplyOf, SuccessOf, Requests
<1>4. Serial /\ Unanswered
  BY DEF Init, Serial, Unanswered
<1> QED
  BY <1>0, <1>1, <1>2, <1>3, <1>4 DEF RequestInv, OpInv, LibInv

(* While the operation of a request is going on no other one is, and       *)
(* nothing else waits on the connection.                                   *)
LEMMA Alone ==
  ASSUME RequestInv, NEW r \in Requests, pc[r] # "new", ~Over(r)
  PROVE  /\ calls[r] = 0
         /\ \A p \in Requests : p # r => pc[p] = "new" \/ Over(p)
         /\ rwaits \subseteq {r} \cap Requests
         /\ wwaits \subseteq {r} \cap Requests
<1>1. /\ \A p \in Requests : DeadlineOf(p) /\ WaitsOf(p)
      /\ OpTypes /\ Serial
  BY DEF RequestInv, OpInv
<1>2. calls[r] = 0
  BY <1>1 DEF DeadlineOf, OpTypes
<1>3. ASSUME NEW p \in Requests, p # r PROVE pc[p] = "new" \/ Over(p)
  <2>1. p \in Nat /\ r \in Nat
    BY RequestAssumption DEF Requests
  <2>2. CASE p < r
    <3>1. calls[p] > 0
      BY <1>1, <2>2 DEF Serial
    <3> QED
      BY <1>1, <3>1 DEF DeadlineOf, OpTypes
  <2>3. CASE r < p
    BY <1>1, <1>2, <2>3 DEF Serial
  <2> QED
    BY <1>3, <2>1, <2>2, <2>3
<1>4. \A p \in rwaits \cup wwaits : p \in Requests /\ p = r
  BY <1>1, <1>3, Zenon DEF WaitsOf, Over, OpTypes
<1> QED
  BY <1>2, <1>3, <1>4

(* What bounds on the sum of two lengths say of each: how much of a reply  *)
(* is still to come after what PQconsumeInput has read.                    *)
LEMMA SumParts ==
  \A a, b \in Nat : /\ a + b <= 1 => b <= 1 /\ (a >= 1 => a = 1 /\ b = 0)
                    /\ a + b <= 2 => b <= 2 /\ (a >= 1 => b <= 1)
OBVIOUS

(* The operation of a request is over: either the timer is left, or the    *)
(* handler is called (io_deadline_handler).                                *)
LEMMA DeadlineEnds ==
  ASSUME RequestInv, NEW r \in Requests, pc[r] # "new", ~Over(r),
         NEW ec \in Codes, OperationDone(r, ec),
         pc'[r] # "new", Over(r)',
         \A p \in Requests \ {r} : pc'[p] = pc[p] /\ state'[p] = state[p]
  PROVE  /\ first_call' \in [Requests -> 0..2]
         /\ timer' = [timer EXCEPT ![r] = IF @ = "armed" THEN "queued" ELSE @]
         /\ saved' \in [Requests -> Codes \cup {"none"}]
         /\ calls' \in [Requests -> Nat]
         /\ answer' \in [Requests -> Codes \cup {"none"}]
         /\ \A p \in Requests : DeadlineOf(p)'
         /\ \A p \in Requests : calls'[p] >= calls[p]
         /\ \A p \in Requests \ {r} : saved'[p] = saved[p] /\ answer'[p] = answer[p]
         /\ saved'[r] = "ok" \/ answer'[r] = "ok" => ec = "ok" \/ saved[r] = "ok" \/ answer[r] = "ok"
<1> USE DEF Requests
<1>1. OpTypes /\ \A p \in Requests : DeadlineOf(p)
  BY Zenon DEF RequestInv, OpInv
<1>2. CASE r \notin Timed \/ first_call[r] = 0
  <2>1. first_call[r] = 0 /\ timer[r] = "off" /\ calls[r] = 0
    BY <1>1, <1>2 DEF DeadlineOf, OpTypes
  <2>2. /\ calls' = [calls EXCEPT ![r] = @ + 1]
        /\ answer' = [answer EXCEPT ![r] = ec]
        /\ UNCHANGED <<first_call, timer, saved>>
    BY <1>2, <2>1 DEF OperationDone, Call
  <2>3. timer' = [timer EXCEPT ![r] = IF @ = "armed" THEN "queued" ELSE @]
    BY <1>1, <2>1, <2>2 DEF OpTypes
  <2>4. ASSUME NEW p \in Requests PROVE DeadlineOf(p)'
    <3>1. CASE p # r
      <4>1. /\ first_call'[p] = first_call[p] /\ timer'[p] = timer[p] /\ calls'[p] = calls[p]
            /\ pc'[p] = pc[p] /\ (Over(p)' <=> Over(p))
        BY <1>1, <2>2, <3>1, Zenon DEF OpTypes, Over
      <4> QED
        BY <1>1, <4>1, Zenon DEF DeadlineOf
    <3>2. CASE p = r
      <4>1. calls'[r] = 1
        BY <1>1, <2>1, <2>2 DEF OpTypes
      <4>2. first_call'[r] # 1 /\ first_call'[r] # 2 /\ timer'[r] = "off"
        BY <2>1, <2>2
      <4> QED
        BY <3>2, <4>1, <4>2, Zenon DEF DeadlineOf
    <3> QED
      BY <3>1, <3>2, Zenon
  <2>5. calls' \in [Requests -> Nat] /\ \A p \in Requests : calls'[p] >= calls[p]
    BY <1>1, <2>2 DEF OpTypes
  <2>6. /\ first_call' \in [Requests -> 0..2]
        /\ saved' \in [Requests -> Codes \cup {"none"}]
        /\ answer' \in [Requests -> Codes \cup {"none"}]
    BY <1>1, <2>2 DEF OpTypes
  <2>7. /\ \A p \in Requests \ {r} : saved'[p] = saved[p] /\ answer'[p] = answer[p]
        /\ saved'[r] = saved[r] /\ answer'[r] = ec
    BY <1>1, <2>2, Zenon DEF OpTypes
  <2> QED
    BY <2>3, <2>4, <2>5, <2>6, <2>7
<1>3. CASE r \in Timed /\ first_call[r] = 2
  <2>1. /\ first_call' = [first_call EXCEPT ![r] = 1]
        /\ timer' = [timer EXCEPT ![r] = IF @ = "armed" THEN "queued" ELSE @]
        /\ saved' = [saved EXCEPT ![r] = ec]
        /\ UNCHANGED <<calls, answer>>
    BY <1>3 DEF OperationDone, TimerCancelled
  <2>2. ASSUME NEW p \in Requests PROVE DeadlineOf(p)'
    <3>1. CASE p # r
      <4>1. /\ first_call'[p] = first_call[p] /\ timer'[p] = timer[p] /\ calls'[p] = calls[p]
            /\ pc'[p] = pc[p] /\ (Over(p)' <=> Over(p))
        BY <1>1, <2>1, <3>1, Zenon DEF OpTypes, Over
      <4> QED
        BY <1>1, <4>1, Zenon DEF DeadlineOf
    <3>2. CASE p = r
      <4>1. timer[r] \in {"armed", "queued"} /\ calls[r] = 0
        BY <1>1, <1>3, Zenon DEF DeadlineOf
      <4>2. first_call'[r] = 1 /\ timer'[r] = "queued" /\ calls'[r] = 0
        BY <1>1, <2>1, <4>1, Zenon DEF OpTypes
      <4>3. first_call'[r] # 2
        BY <4>2
      <4> QED
        BY <1>3, <3>2, <4>2, <4>3, Zenon DEF DeadlineOf
    <3> QED
      BY <3>1, <3>2, Zenon
  <2>3. calls' \in [Requests -> Nat] /\ \A p \in Requests : calls'[p] >= calls[p]
    BY <1>1, <2>1 DEF OpTypes
  <2>4. first_call' \in [Requests -> 0..2]
    BY <1>1, <2>1 DEF OpTypes
  <2>5. /\ saved' \in [Requests -> Codes \cup {"none"}]
        /\ answer' \in [Requests -> Codes \cup {"none"}]
    BY <1>1, <2>1, Zenon DEF OpTypes
  <2>6. /\ \A p \in Requests \ {r} : saved'[p] = saved[p] /\ answer'[p] = answer[p]
        /\ saved'[r] = ec /\ answer'[r] = answer[r]
    BY <1>1, <2>1, Zenon DEF OpTypes
  <2> QED
    BY <2>1, <2>2, <2>3, <2>4, <2>5, <2>6, Zenon
<1>4. CASE r \in Timed /\ first_call[r] = 1
  <2>1. /\ first_call' = [first_call EXCEPT ![r] = 0]
        /\ calls' = [calls EXCEPT ![r] = @ + 1]
        /\ answer' = [answer EXCEPT ![r] = saved[r]]
        /\ UNCHANGED <<timer, saved>>
    BY <1>4 DEF OperationDone, Call
  <2>2. timer[r] = "ran" /\ calls[r] = 0
    BY <1>1, <1>4 DEF DeadlineOf, OpTypes
  <2>3. timer' = [timer EXCEPT ![r] = IF @ = "armed" THEN "queued" ELSE @]
    BY <1>1, <2>1, <2>2, Zenon DEF OpTypes
  <2>4. ASSUME NEW p \in Requests PROVE DeadlineOf(p)'
    <3>1. CASE p # r
      <4>1. /\ first_call'[p] = first_call[p] /\ timer'[p] = timer[p] /\ calls'[p] = calls[p]
            /\ pc'[p] = pc[p] /\ (Over(p)' <=> Over(p))
        BY <1>1, <2>1, <3>1, Zenon DEF OpTypes, Over
      <4> QED
        BY <1>1, <4>1, Zenon DEF DeadlineOf
    <3>2. CASE p = r
      <4>1. calls'[r] = 1
        BY <1>1, <2>1, <2>2 DEF OpTypes
      <4>2. first_call'[r] = 0 /\ timer'[r] = "ran"
        BY <1>1, <2>1, <2>2, Zenon DEF OpTypes
      <4>3. first_call'[r] # 1 /\ first_call'[r] # 2
        BY <4>2
      <4> QED
        BY <3>2, <4>1, <4>2, <4>3, Zenon DEF DeadlineOf
    <3> QED
      BY <3>1, <3>2, Zenon
  <2>5. calls' \in [Requests -> Nat] /\ \A p \in Requests : calls'[p] >= calls[p]
    BY <1>1, <2>1 DEF OpTypes
  <2>6. /\ first_call' \in [Requests -> 0..2]
        /\ saved' \in [Requests -> Codes \cup {"none"}]
        /\ answer' \in [Requests -> Codes \cup {"none"}]
    BY <1>1, <2>1 DEF OpTypes
  <2>7. /\ \A p \in Requests \ {r} : saved'[p] = saved[p] /\ answer'[p] = answer[p]
        /\ saved'[r] = saved[r] /\ answer'[r] = saved[r]
    BY <1>1, <2>1, Zenon DEF OpTypes
  <2> QED
    BY <2>3, <2>4, <2>5, <2>6, <2>7, Zenon
<1>5. first_call[r] \in 0..2
  BY <1>1, Zenon DEF OpTypes
<1>6. first_call[r] = 0 \/ first_call[r] = 1 \/ first_call[r] = 2
  BY <1>5
<1> QED
  BY <1>2, <1>3, <1>4, <1>6, Zenon

(* What a handler leaves of the strand, in whole or without its first      *)
(* handler, before it adds to it.                                          *)
Rest(q) ==
  /\ q \in Seq(Entries)
  /\ Unique(q)
  /\ \A op, p : Has(q, op, p) => Has(strand, op, p)
  /\ \A p, w : Behind(q, p, w) => Behind(strand, p, w)

(* done(ctx, ec) ends the request with an error: the other operation is    *)
(* told by the state, and its wait, if it has one, is aborted.             *)
LEMMA DoneErrorStep ==
  ASSUME RequestInv, NEW r \in Requests, pc[r] # "new", ~Over(r),
         NEW ec \in Codes, ec # "ok", NEW q, Rest(q), DoneError(r, ec, q),
         NEW x \in {"sent", "first", "drain", "end"}, pc' = [pc EXCEPT ![r] = x],
         \A p \in Requests \ {r} : result'[p] = result[p],
         inflight' \in {inflight, 0, r}, broken' = broken
  PROVE  OpInv'
<1> DEFINE s == q \o Aborted
<1>1. OpTypes /\ Serial /\ \A p \in Requests : DeadlineOf(p) /\ WaitsOf(p) /\ SuccessOf(p)
  BY Zenon DEF RequestInv, OpInv
<1>2. /\ state' = [state EXCEPT ![r] = "error"]
      /\ rwaits' = {} /\ wwaits' = {}
      /\ OperationDone(r, ec)
      /\ strand' = s \o TimerEntry(r)
  BY Zenon DEF DoneError
<1>3. /\ \A p \in Requests : p # r => pc[p] = "new" \/ Over(p)
      /\ rwaits \subseteq {r} \cap Requests /\ wwaits \subseteq {r} \cap Requests
  BY Alone, Zenon
<1>4. /\ pc'[r] = x /\ state'[r] = "error"
      /\ \A p \in Requests \ {r} : pc'[p] = pc[p] /\ state'[p] = state[p]
  BY <1>1, <1>2 DEF OpTypes
<1>5. pc'[r] # "new" /\ Over(r)'
  BY <1>4, Zenon DEF Over
<1>6. /\ first_call' \in [Requests -> 0..2]
      /\ timer' = [timer EXCEPT ![r] = IF @ = "armed" THEN "queued" ELSE @]
      /\ saved' \in [Requests -> Codes \cup {"none"}]
      /\ calls' \in [Requests -> Nat]
      /\ answer' \in [Requests -> Codes \cup {"none"}]
      /\ \A p \in Requests : DeadlineOf(p)'
      /\ \A p \in Requests : calls'[p] >= calls[p]
      /\ \A p \in Requests \ {r} : saved'[p] = saved[p] /\ answer'[p] = answer[p]
      /\ saved'[r] = "ok" \/ answer'[r] = "ok" => ec = "ok" \/ saved[r] = "ok" \/ answer[r] = "ok"
  BY <1>2, <1>4, <1>5, DeadlineEnds, Zenon
<1>7. /\ s \in Seq(Entries) /\ Unique(s)
      /\ \A op, p : Has(s, op, p) <=>
           \/ Has(q, op, p)
           \/ p = r /\ op = "read" /\ r \in rwaits
           \/ p = r /\ op = "write" /\ r \in wwaits
  <2>1. /\ r \in rwaits => ~Has(q, "read", r)
        /\ r \in wwaits => ~Has(q, "write", r)
    BY <1>1, Zenon DEF WaitsOf, Rest
  <2> QED
    BY <1>3, <2>1, AbortFacts, Zenon DEF Rest
<1> HIDE DEF s
<1>8. /\ strand' \in Seq(Entries) /\ Unique(strand')
      /\ \A op, p : Has(strand', op, p) <=> Has(s, op, p) \/ (p = r /\ op = "timer" /\ timer[r] = "armed")
  <2>1. timer[r] = "armed" => ~Has(s, "timer", r)
    <3>1. Has(s, "timer", r) => Has(q, "timer", r)
      BY <1>7
    <3>2. ~(timer[r] = "armed" /\ Has(q, "timer", r))
      BY <1>1, ZenonT(40) DEF WaitsOf, Rest
    <3> QED
      BY <3>1, <3>2, Zenon
  <2> QED
    BY <1>2, <1>7, <2>1, TimerFacts, Zenon
<1>9. OpTypes'
  BY <1>1, <1>2, <1>6, <1>8 DEF OpTypes, TimerStates
<1>10. Serial'
  <2>1. ASSUME NEW p \in Requests, calls[p] > 0 PROVE calls'[p] > 0
    <3>1. calls[p] \in Nat /\ calls'[p] \in Nat
      BY <1>1, <1>6 DEF OpTypes
    <3>2. calls'[p] >= calls[p]
      BY <1>6, Zenon
    <3> QED
      BY <2>1, <3>1, <3>2
  <2>2. \A p \in Requests : pc'[p] # "new" => pc[p] # "new"
    BY <1>1, <1>4, Zenon
  <2> QED
    BY <1>1, <2>1, <2>2, ZenonT(40) DEF Serial
<1>11. ASSUME NEW p \in Requests PROVE WaitsOf(p)' /\ ReplyOf(p)'
  <2>1. CASE p = r
    <3>1. Has(strand', "timer", r) => timer'[r] = "queued"
      <4>1. Has(strand', "timer", r) => Has(q, "timer", r) \/ timer[r] = "armed"
        <5>1. Has(s, "timer", r) => Has(q, "timer", r)
          BY <1>7
        <5>2. Has(strand', "timer", r) => Has(s, "timer", r) \/ timer[r] = "armed"
          BY <1>8, Zenon
        <5> QED
          BY <5>1, <5>2, Zenon
      <4>2. Has(q, "timer", r) => timer[r] = "queued"
        BY <1>1, Zenon DEF Rest, WaitsOf
      <4>3. timer'[r] = IF timer[r] = "armed" THEN "queued" ELSE timer[r]
        BY <1>1, <1>6 DEF OpTypes
      <4> QED
        BY <4>1, <4>2, <4>3
    <3> QED
      BY <1>2, <1>4, <2>1, <3>1, Zenon DEF WaitsOf, ReplyOf
  <2>2. CASE p # r
    <3>1. \A op : Has(strand', op, p) => Has(strand, op, p)
      BY <1>7, <1>8, <2>2, Zenon DEF Rest
    <3>2. timer'[p] = timer[p]
      BY <1>6, <2>2, <1>1, Zenon DEF OpTypes
    <3>3. ~(pc[p] \in {"sent", "first", "drain"} /\ state[p] # "error")
      BY <1>3, <2>2 DEF Over
    <3>4. p \notin rwaits' /\ p \notin wwaits'
      BY <1>2, ZenonT(40)
    <3>5. WaitsOf(p)'
      BY <1>1, <1>4, <2>2, <3>1, <3>2, <3>3, <3>4 DEF WaitsOf
    <3> QED
      BY <1>4, <2>2, <3>3, <3>5, ZenonT(40) DEF ReplyOf
  <2> QED
    BY <2>1, <2>2
<1>12. ASSUME NEW p \in Requests PROVE SuccessOf(p)'
  <2>1. CASE p = r
    <3>1. saved[r] # "ok" /\ answer[r] # "ok"
      BY <1>1, ZenonT(40) DEF SuccessOf, Over
    <3> QED
      BY <1>6, <2>1, <3>1 DEF SuccessOf
  <2>2. CASE p # r
    <3>1. inflight' = p => inflight = p
      BY <2>2, RequestAssumption, ZenonT(40) DEF Requests
    <3> QED
      BY <1>1, <1>4, <1>6, <2>2, <3>1 DEF SuccessOf
  <2> QED
    BY <2>1, <2>2, Zenon
<1> QED
  BY <1>6, <1>8, <1>9, <1>10, <1>11, <1>12, Zenon DEF OpInv

(* done(ctx) ends the request with its result, when the query was sent and *)
(* the get operation is the only one left.                                 *)
LEMMA DoneStep ==
  ASSUME RequestInv, NEW r \in Requests, pc[r] # "new", ~Over(r),
         NEW q, Rest(q), Done(r, q), pc' = [pc EXCEPT ![r] = "end"],
         state[r] = "send_finish", r \notin rwaits, ~Has(q, "read", r),
         \A p \in Requests \ {r} : result'[p] = result[p],
         result'[r].kind = "tuples",
         inflight' \in {inflight, 0}, broken' = broken, inflight' = r => broken
  PROVE  OpInv'
<1>1. OpTypes /\ Serial /\ \A p \in Requests : DeadlineOf(p) /\ WaitsOf(p) /\ SuccessOf(p)
  BY ZenonT(40) DEF RequestInv, OpInv
<1>2. /\ state' = state /\ rwaits' = rwaits /\ wwaits' = wwaits
      /\ OperationDone(r, "ok")
      /\ strand' = q \o TimerEntry(r)
  BY Zenon DEF Done, waits
<1>3. /\ \A p \in Requests : p # r => pc[p] = "new" \/ Over(p)
      /\ rwaits \subseteq {r} /\ wwaits \subseteq {r}
  BY Alone, Zenon
<1>4. /\ pc'[r] = "end"
      /\ \A p \in Requests \ {r} : pc'[p] = pc[p] /\ state'[p] = state[p]
  BY <1>1, <1>2, ZenonT(40) DEF OpTypes
<1>5. pc'[r] # "new" /\ Over(r)'
  BY <1>4, Zenon DEF Over
<1>6. /\ first_call' \in [Requests -> 0..2]
      /\ timer' = [timer EXCEPT ![r] = IF @ = "armed" THEN "queued" ELSE @]
      /\ saved' \in [Requests -> Codes \cup {"none"}]
      /\ calls' \in [Requests -> Nat]
      /\ answer' \in [Requests -> Codes \cup {"none"}]
      /\ \A p \in Requests : DeadlineOf(p)'
      /\ \A p \in Requests : calls'[p] >= calls[p]
      /\ \A p \in Requests \ {r} : saved'[p] = saved[p] /\ answer'[p] = answer[p]
  <2>1. "ok" \in Codes
    BY Zenon DEF Codes
  <2> QED
    BY <1>2, <1>4, <1>5, <2>1, DeadlineEnds
<1>7. /\ strand' \in Seq(Entries) /\ Unique(strand')
      /\ \A op, p : Has(strand', op, p) <=> Has(q, op, p) \/ (p = r /\ op = "timer" /\ timer[r] = "armed")
  <2>1. timer[r] = "armed" => ~Has(q, "timer", r)
    BY <1>1, Zenon DEF WaitsOf, Rest
  <2> QED
    BY <1>2, <2>1, TimerFacts DEF Rest
<1>8. OpTypes'
  BY <1>1, <1>2, <1>6, <1>7, ZenonT(40) DEF OpTypes, TimerStates
<1>9. Serial'
  <2>1. ASSUME NEW p \in Requests, calls[p] > 0 PROVE calls'[p] > 0
    <3>1. calls[p] \in Nat /\ calls'[p] \in Nat
      BY <1>1, <1>6, Zenon DEF OpTypes
    <3>2. calls'[p] >= calls[p]
      BY <1>6, Zenon
    <3> QED
      BY <2>1, <3>1, <3>2
  <2>2. \A p \in Requests : pc'[p] # "new" => pc[p] # "new"
    BY <1>1, <1>4, Zenon
  <2> QED
    BY <1>1, <2>1, <2>2, Zenon DEF Serial
<1>10. ASSUME NEW p \in Requests PROVE WaitsOf(p)' /\ ReplyOf(p)'
  <2>1. CASE p = r
    <3>1. Has(strand', "timer", r) => timer'[r] = "queued"
      <4>1. Has(strand', "timer", r) => Has(q, "timer", r) \/ timer[r] = "armed"
        BY <1>7
      <4>2. Has(q, "timer", r) => timer[r] = "queued"
        BY <1>1, Zenon DEF Rest, WaitsOf
      <4>3. timer'[r] = IF timer[r] = "armed" THEN "queued" ELSE timer[r]
        BY <1>1, <1>6, Zenon DEF OpTypes
      <4> QED
        BY <4>1, <4>2, <4>3
    <3>2. r \notin wwaits
      BY <1>1, Zenon DEF WaitsOf
    <3>3. ~Has(strand', "read", r)
      BY <1>7, SMTT(30)
    <3> QED
      BY <1>2, <1>4, <2>1, <3>1, <3>2, <3>3, Zenon DEF WaitsOf, ReplyOf
  <2>2. CASE p # r
    <3>1. \A op : Has(strand', op, p) => Has(strand, op, p)
      BY <1>7, <2>2 DEF Rest
    <3>2. timer'[p] = timer[p]
      BY <1>6, <2>2, <1>1, ZenonT(40) DEF OpTypes
    <3>3. ~(pc[p] \in {"sent", "first", "drain"} /\ state[p] # "error")
      BY <1>3, <2>2 DEF Over
    <3>4. p \notin rwaits' /\ p \notin wwaits'
      BY <1>2, <1>3, <2>2, ZenonT(40)
    <3>5. WaitsOf(p)'
      BY <1>1, <1>4, <2>2, <3>1, <3>2, <3>3, <3>4, ZenonT(40) DEF WaitsOf
    <3> QED
      BY <1>4, <2>2, <3>3, <3>5, Zenon DEF ReplyOf
  <2> QED
    BY <2>1, <2>2
<1>11. ASSUME NEW p \in Requests PROVE SuccessOf(p)'
  <2>1. CASE p = r
    BY <1>4, <2>1 DEF SuccessOf
  <2>2. CASE p # r
    <3>1. inflight' = p => inflight = p
      BY <2>2, RequestAssumption, Zenon DEF Requests
    <3>2. /\ SuccessOf(p) /\ saved'[p] = saved[p] /\ answer'[p] = answer[p]
          /\ pc'[p] = pc[p] /\ result'[p] = result[p]
      BY <1>1, <1>4, <1>6, <2>2, Zenon
    <3>3. broken => broken'
      OBVIOUS
    <3> QED
      BY <3>1, <3>2, <3>3, Zenon DEF SuccessOf
  <2> QED
    BY <2>1, <2>2
<1> QED
  BY <1>6, <1>7, <1>8, <1>9, <1>10, <1>11 DEF OpInv

(* The operation of a request goes on, and it alone: what is left to show  *)
(* is where its two operations are and what they will find.                *)
LEMMA GoesOn ==
  ASSUME RequestInv, NEW r \in Requests, pc[r] # "new", ~Over(r), UNCHANGED deadlineVars,
         NEW x \in {"sent", "first", "drain", "spin"}, pc' = [pc EXCEPT ![r] = x],
         NEW y \in {"send_in_progress", "send_finish"}, state' = [state EXCEPT ![r] = y],
         rwaits' \subseteq {r}, wwaits' \subseteq {r},
         NEW q, Rest(q), strand' = q,
         \A p \in Requests \ {r} : result'[p] = result[p],
         inflight' \in {inflight, 0, r}, broken' = broken,
         WaitsOf(r)', ReplyOf(r)'
  PROVE  OpInv'
<1>1. OpTypes /\ Serial /\ \A p \in Requests : DeadlineOf(p) /\ WaitsOf(p) /\ SuccessOf(p)
  BY Zenon DEF RequestInv, OpInv
<1>2. \A p \in Requests : p # r => pc[p] = "new" \/ Over(p)
  BY Alone, ZenonT(40)
<1>3. /\ pc'[r] = x /\ state'[r] = y
      /\ \A p \in Requests \ {r} : pc'[p] = pc[p] /\ state'[p] = state[p]
  BY <1>1 DEF OpTypes
<1>4. OpTypes'
  BY <1>1, Zenon DEF OpTypes, Rest, deadlineVars
<1>5. Serial'
  BY <1>1, <1>3, Zenon DEF Serial, deadlineVars
<1>6. ASSUME NEW p \in Requests PROVE DeadlineOf(p)'
  <2>1. (pc'[p] = "new" <=> pc[p] = "new") /\ (Over(p)' <=> Over(p))
    BY <1>3 DEF Over
  <2> QED
    BY <1>1, <2>1, Zenon DEF DeadlineOf, deadlineVars
<1>7. ASSUME NEW p \in Requests, p # r PROVE WaitsOf(p)' /\ ReplyOf(p)'
  <2>1. \A op : Has(strand', op, p) => Has(strand, op, p)
    BY Zenon DEF Rest
  <2>2. ~(pc[p] \in {"sent", "first", "drain"} /\ state[p] # "error")
    BY <1>2, <1>7, Zenon DEF Over
  <2>3. p \notin rwaits' /\ p \notin wwaits'
    BY <1>7, Zenon
  <2>4. WaitsOf(p)'
    BY <1>1, <1>3, <1>7, <2>1, <2>2, <2>3, ZenonT(40) DEF WaitsOf, deadlineVars
  <2> QED
    BY <1>3, <1>7, <2>2, <2>4, Zenon DEF ReplyOf
<1>8. ASSUME NEW p \in Requests PROVE SuccessOf(p)'
  <2>1. CASE p = r
    <3>1. saved[r] # "ok" /\ answer[r] # "ok"
      BY <1>1, ZenonT(40) DEF SuccessOf, Over
    <3> QED
      BY <2>1, <3>1, Zenon DEF SuccessOf, deadlineVars
  <2>2. CASE p # r
    <3>1. inflight' = p => inflight = p
      BY <2>2, RequestAssumption, Zenon DEF Requests
    <3> QED
      BY <1>1, <1>3, <2>2, <3>1, ZenonT(40) DEF SuccessOf, deadlineVars
  <2> QED
    BY <2>1, <2>2, Zenon
<1> QED
  BY <1>4, <1>5, <1>6, <1>7, <1>8, Zenon DEF OpInv, Rest

(* A handler that finds its request over, or its part of it, does nothing. *)
LEMMA Skips ==
  ASSUME RequestInv, strand # <<>>, strand' = Tail(strand),
         ~(Head(strand).op = "write" /\ state[Head(strand).req] = "send_in_progress"),
         UNCHANGED <<deadlineVars, opVars, waits, libpqVars, closed>>
  PROVE  RequestInv'
<1>1. /\ OpTypes /\ Serial /\ Unique(strand) /\ LibInv
      /\ \A p \in Requests : DeadlineOf(p) /\ WaitsOf(p) /\ ReplyOf(p) /\ SuccessOf(p)
  BY ZenonT(40) DEF RequestInv, OpInv
<1>2. /\ Tail(strand) \in Seq(Entries) /\ Unique(Tail(strand))
      /\ \A op, p : Has(Tail(strand), op, p) <=>
           Has(strand, op, p) /\ ~(Head(strand).op = op /\ Head(strand).req = p)
      /\ \A p, w : Behind(Tail(strand), p, w) => Behind(strand, p, w)
  BY <1>1, TailFacts, TailHas, TailBehind DEF OpTypes
<1>3. OpTypes' /\ Serial' /\ LibInv'
  BY <1>1, <1>2, Zenon DEF OpTypes, Serial, LibInv, LibTypes, Unanswered, deadlineVars, opVars, waits, libpqVars
<1>4. ASSUME NEW p \in Requests PROVE (DeadlineOf(p) /\ WaitsOf(p) /\ ReplyOf(p) /\ SuccessOf(p))'
  <2>1. DeadlineOf(p)' /\ SuccessOf(p)'
    BY <1>1, ZenonT(40) DEF DeadlineOf, SuccessOf, Over, deadlineVars, opVars, libpqVars
  <2>2. WaitsOf(p)'
    <3>1. /\ pc'[p] = pc[p] /\ state'[p] = state[p] /\ timer'[p] = timer[p]
          /\ rwaits' = rwaits /\ wwaits' = wwaits
      BY Zenon DEF deadlineVars, opVars, waits
    <3>2. \A op : Has(strand', op, p) => Has(strand, op, p)
      BY <1>2, Zenon
    <3>3. state[p] = "send_in_progress" /\ Has(strand, "write", p) => Has(strand', "write", p)
      BY <1>2, Zenon
    <3>4. WaitsOf(p)
      BY <1>1, Zenon
    <3> QED
      BY <3>1, <3>2, <3>3, <3>4, Zenon DEF WaitsOf
  <2>3. ReplyOf(p)'
    BY <1>1, <1>2 DEF ReplyOf, deadlineVars, opVars, waits, libpqVars
  <2> QED
    BY <2>1, <2>2, <2>3
<1> QED
  BY <1>2, <1>3, <1>4, ZenonT(40) DEF RequestInv, OpInv

(* The whole strand is what is left of it when no handler runs.            *)
LEMMA RestAll ==
  ASSUME RequestInv
  PROVE  Rest(strand)
  BY DEF RequestInv, OpInv, OpTypes, Rest

(* What is left of it when the first handler runs.                         *)
LEMMA RestTail ==
  ASSUME RequestInv, strand # <<>>
  PROVE  Rest(Tail(strand))
  BY TailFacts, TailHas, TailBehind, Zenon DEF RequestInv, OpInv, OpTypes, Rest

(* The calls that leave what was received alone.                           *)
LEMMA LibKept ==
  ASSUME LibInv, UNCHANGED <<result, libpqVars, closed>>
  PROVE  LibInv'
  BY Zenon DEF LibInv, LibTypes, Unanswered, libpqVars

-----------------------------------------------------------------------------
(* The steps of the thread that makes a request.                           *)

(* A user makes a request, or is told that there is no connection.         *)
LEMMA MakeStep ==
  ASSUME RequestInv, NEW r \in Requests, Make(r)
  PROVE  RequestInv'
<1>1. /\ OpTypes /\ Serial /\ Unique(strand) /\ LibInv
      /\ \A p \in Requests : DeadlineOf(p) /\ WaitsOf(p) /\ ReplyOf(p) /\ SuccessOf(p)
  BY DEF RequestInv, OpInv
<1>2. /\ pc[r] = "new" /\ \A p \in Requests : p < r => calls[p] > 0
      /\ UNCHANGED <<state, result, rwaits, wwaits, strand, libpqVars, closed>>
  BY DEF Make, waits
<1>3. first_call[r] = 0 /\ timer[r] = "off" /\ calls[r] = 0 /\ r \notin rwaits /\ r \notin wwaits
      /\ saved[r] # "ok" /\ answer[r] # "ok"
  BY <1>1, <1>2, Zenon DEF DeadlineOf, WaitsOf, SuccessOf
<1>4. LibInv'
  BY <1>1, <1>2, LibKept, Zenon
<1>5. CASE /\ pc' = [pc EXCEPT ![r] = "end"]
           /\ calls' = [calls EXCEPT ![r] = @ + 1] /\ answer' = [answer EXCEPT ![r] = "no_connection"]
           /\ UNCHANGED <<first_call, timer, saved>>
  <2>1. OpTypes'
    BY <1>1, <1>2, <1>5 DEF OpTypes, Codes
  <2>2. Serial'
    BY <1>1, <1>2, <1>5 DEF Serial, OpTypes
  <2>3. ASSUME NEW p \in Requests PROVE (DeadlineOf(p) /\ WaitsOf(p) /\ ReplyOf(p) /\ SuccessOf(p))'
    <3>1. CASE p = r
      <4>1. pc'[r] = "end" /\ calls'[r] = 1 /\ answer'[r] = "no_connection"
        <5>1. pc'[r] = "end" /\ calls'[r] = calls[r] + 1 /\ answer'[r] = "no_connection"
          BY <1>1, <1>5, Zenon DEF OpTypes
        <5> QED
          BY <1>3, <5>1
      <4>2. WaitsOf(r)' /\ ReplyOf(r)'
        BY <1>1, <1>2, <1>3, <1>5, <4>1, Zenon DEF WaitsOf, ReplyOf
      <4>3. pc'[r] # "new" /\ Over(r)'
        BY <4>1, Zenon DEF Over
      <4>4. first_call'[r] # 1 /\ first_call'[r] # 2 /\ timer'[r] = "off" /\ saved'[r] # "ok" /\ answer'[r] # "ok"
        <5>1. first_call'[r] = 0 /\ timer'[r] = "off" /\ saved'[r] # "ok"
          BY <1>3, <1>5, Zenon
        <5>2. answer'[r] # "ok"
          BY <4>1
        <5> QED
          BY <5>1, <5>2
      <4>5. DeadlineOf(r)' /\ SuccessOf(r)'
        BY <4>1, <4>3, <4>4, Zenon DEF DeadlineOf, SuccessOf
      <4> QED
        BY <3>1, <4>2, <4>5
    <3>2. CASE p # r
      <4>1. pc'[p] = pc[p] /\ calls'[p] = calls[p] /\ answer'[p] = answer[p]
        BY <1>1, <1>5, <3>2, Zenon DEF OpTypes
      <4> QED
        BY <1>1, <1>2, <1>5, <4>1, ZenonT(40) DEF DeadlineOf, Over, WaitsOf, ReplyOf, SuccessOf, libpqVars
    <3> QED
      BY <3>1, <3>2
  <2> QED
    BY <1>1, <1>2, <1>4, <2>1, <2>2, <2>3, Zenon DEF RequestInv, OpInv
<1>6. CASE pc' = [pc EXCEPT ![r] = "made"] /\ DeadlineStart(r)
  <2>0. /\ first_call' = [first_call EXCEPT ![r] = IF r \in Timed THEN 2 ELSE 0]
        /\ timer' = [timer EXCEPT ![r] = IF r \in Timed THEN "armed" ELSE "off"]
        /\ UNCHANGED <<saved, calls, answer>>
    BY <1>6, Zenon DEF DeadlineStart
  <2>1. OpTypes'
    BY <1>1, <1>2, <1>6, <2>0 DEF OpTypes, TimerStates
  <2>2. Serial'
    BY <1>1, <1>2, <1>6, <2>0, Zenon DEF Serial, OpTypes
  <2>3. ASSUME NEW p \in Requests PROVE (DeadlineOf(p) /\ WaitsOf(p) /\ ReplyOf(p) /\ SuccessOf(p))'
    <3>1. CASE p = r
      <4>1. /\ pc'[r] = "made" /\ first_call'[r] = (IF r \in Timed THEN 2 ELSE 0)
            /\ timer'[r] = (IF r \in Timed THEN "armed" ELSE "off")
        BY <1>1, <1>6, <2>0, Zenon DEF OpTypes
      <4>2. ~Has(strand, "timer", r) /\ state[r] = "send_in_progress"
        BY <1>1, <1>2, <1>3 DEF WaitsOf
      <4>3. DeadlineOf(r)'
        BY <1>2, <1>3, <2>0, <4>1, <4>2, SMTT(30) DEF DeadlineOf, Over
      <4>4. WaitsOf(r)' /\ ReplyOf(r)'
        BY <1>1, <1>2, <1>3, <4>1, <4>2 DEF WaitsOf, ReplyOf
      <4> QED
        BY <1>3, <2>0, <3>1, <4>3, <4>4, Zenon DEF SuccessOf
    <3>2. CASE p # r
      <4>1. pc'[p] = pc[p] /\ first_call'[p] = first_call[p] /\ timer'[p] = timer[p]
        BY <1>1, <1>6, <2>0, <3>2, Zenon DEF OpTypes
      <4> QED
        BY <1>1, <1>2, <2>0, <4>1, ZenonT(40) DEF DeadlineOf, Over, WaitsOf, ReplyOf, SuccessOf, libpqVars
    <3> QED
      BY <3>1, <3>2
  <2> QED
    BY <1>1, <1>2, <1>4, <2>1, <2>2, <2>3 DEF RequestInv, OpInv
<1> QED
  BY <1>5, <1>6 DEF Make, Call

(* async_send_query_params_op::perform(): libpq takes a query only when no *)
(* reply is outstanding, so nothing of an earlier one is there.            *)
LEMMA SendStep ==
  ASSUME RequestInv, NEW r \in Requests, Send(r)
  PROVE  RequestInv'
<1>1. /\ OpTypes /\ LibInv /\ LibTypes /\ Unanswered
      /\ WaitsOf(r)
  BY DEF RequestInv, OpInv, LibInv
<1>2. pc[r] = "made" /\ pc' = [pc EXCEPT ![r] = "sent"] /\ result' = result /\ closed' = closed
  BY ZenonT(40) DEF Send
<1>3. state[r] = "send_in_progress" /\ ~Has(strand, "read", r) /\ ~Has(strand, "write", r)
      /\ r \notin rwaits /\ r \notin wwaits
  BY <1>1, <1>2, Zenon DEF WaitsOf
<1>4. pc[r] # "new" /\ ~Over(r)
  BY <1>2, <1>3 DEF Over
<1>5. r # 0 /\ Rest(strand)
  BY RequestAssumption, RestAll DEF Requests
<1>6. CASE DoneError(r, "send_failed", strand) /\ UNCHANGED libpqVars
  <2>1. "send_failed" \in Codes
    BY DEF Codes
  <2>2. OpInv'
    BY <1>2, <1>4, <1>5, <1>6, <2>1, DoneErrorStep, Zenon DEF libpqVars
  <2>3. LibInv'
    BY <1>1, <1>2, <1>6, LibKept, Zenon
  <2> QED
    BY <2>2, <2>3 DEF RequestInv
<1>7. CASE /\ inflight = 0 /\ ~closed
           /\ inflight' = r
           /\ \E kind \in Kinds : reply' = IF broken THEN <<>> ELSE
                <<[req |-> r, kind |-> kind], [req |-> r, kind |-> "ready"]>>
           /\ \/ broken /\ DoneError(r, "flush_failed", strand) /\ outbuf' = MaxOut
              \/ \E left \in 0..MaxOut : Flushed(r, left, strand)
           /\ UNCHANGED <<parsed, inbox, partial, broken>>
  <2>1. inbox = <<>> /\ parsed = <<>>
    BY <1>1, <1>7, Zenon DEF Unanswered
  <2>2. reply' \in Seq(Items) /\ Len(reply') <= 2
    <3>1. PICK kind \in Kinds : reply' = IF broken THEN <<>> ELSE
            <<[req |-> r, kind |-> kind], [req |-> r, kind |-> "ready"]>>
      BY <1>7, Zenon
    <3>2. [req |-> r, kind |-> kind] \in Items /\ [req |-> r, kind |-> "ready"] \in Items
      BY RequestAssumption, Zenon DEF Items
    <3> QED
      BY <3>1, <3>2
  <2>3. outbuf' \in Nat
    BY <1>7, RequestAssumption DEF Flushed
  <2>4. LibInv'
    BY <1>1, <1>2, <1>5, <1>7, <2>1, <2>2, <2>3, Zenon DEF LibInv, LibTypes, Unanswered
  <2>5. CASE DoneError(r, "flush_failed", strand)
    <3>1. "flush_failed" \in Codes
      BY DEF Codes
    <3> QED
      BY <1>2, <1>4, <1>5, <1>7, <2>4, <2>5, <3>1, DoneErrorStep, Zenon DEF RequestInv
  <2>6. ASSUME NEW left \in 0..MaxOut, Flushed(r, left, strand) PROVE OpInv'
    <3> DEFINE y == IF left = 0 THEN "send_finish" ELSE "send_in_progress"
    <3>1. /\ state' = [state EXCEPT ![r] = y]
          /\ wwaits' = IF left = 0 THEN wwaits ELSE wwaits \cup {r}
          /\ strand' = strand /\ rwaits' = rwaits /\ UNCHANGED deadlineVars
          /\ y \in {"send_in_progress", "send_finish"}
      BY <1>3, <2>6, Zenon DEF Flushed
    <3>2. pc'[r] = "sent" /\ state'[r] = y
      BY <1>1, <1>2, <3>1, Zenon DEF OpTypes
    <3>3. rwaits' \subseteq {r} /\ wwaits' \subseteq {r}
      BY <1>4, <3>1, Alone, Zenon
    <3>4. y = "send_in_progress" => r \in wwaits'
      BY <3>1
    <3>5. r \in wwaits' => y = "send_in_progress"
      BY <1>3, <3>1, Zenon
    <3> HIDE DEF y
    <3>6. WaitsOf(r)'
      BY <1>1, <1>3, <3>1, <3>2, <3>4, <3>5, Zenon DEF WaitsOf, deadlineVars
    <3>7. ReplyOf(r)'
      <4>1. parsed' = <<>> /\ inbox' = <<>> /\ Len(inbox') = 0 /\ Len(reply') \in Nat
        BY <1>7, <2>1, <2>2
      <4>2. Len(inbox') + Len(reply') <= 2
        BY <4>1, <2>2
      <4> QED
        <5>1. pc'[r] # "first" /\ (IF pc'[r] = "drain" THEN 1 ELSE 2) = 2
          BY <3>2
        <5>2. Len(inbox') + Len(reply') <= IF pc'[r] = "drain" THEN 1 ELSE 2
          BY <4>2, <5>1, Zenon
        <5> QED
          BY <4>1, <5>1, <5>2, Zenon DEF ReplyOf
    <3> QED
      BY <1>2, <1>4, <1>5, <1>7, <3>1, <3>3, <3>6, <3>7, GoesOn, Zenon
  <2> QED
    BY <1>7, <2>4, <2>5, <2>6, Zenon DEF RequestInv
<1> QED
  BY <1>6, <1>7 DEF Send

(* async_get_result_op::perform(): either sending has failed, or there is  *)
(* nothing yet to get.                                                     *)
LEMMA GetResultStep ==
  ASSUME RequestInv, NEW r \in Requests, GetResult(r)
  PROVE  RequestInv'
<1>1. /\ OpTypes /\ Serial /\ Unique(strand) /\ LibInv /\ LibTypes /\ Unanswered
      /\ \A p \in Requests : DeadlineOf(p) /\ WaitsOf(p) /\ ReplyOf(p) /\ SuccessOf(p)
  BY DEF RequestInv, OpInv, LibInv
<1>2. pc[r] = "sent" /\ UNCHANGED <<outbuf, inbox, reply, partial, broken, closed>>
  BY Zenon DEF GetResult
<1>3. CASE /\ state[r] = "error"
           /\ pc' = [pc EXCEPT ![r] = "end"]
           /\ UNCHANGED <<deadlineVars, state, result, waits, strand, parsed, inflight>>
  <2>1. LibInv'
    BY <1>1, <1>2, <1>3, Zenon DEF LibInv, LibTypes, Unanswered
  <2>2. OpTypes' /\ Serial'
    BY <1>1, <1>2, <1>3, Zenon DEF OpTypes, Serial, deadlineVars, waits
  <2>3. ASSUME NEW p \in Requests PROVE (DeadlineOf(p) /\ WaitsOf(p) /\ ReplyOf(p) /\ SuccessOf(p))'
    <3>1. CASE p = r
      <4>1. pc'[r] = "end"
        BY <1>1, <1>3 DEF OpTypes
      <4>2. DeadlineOf(r)'
        BY <1>1, <1>2, <1>3, <4>1, Zenon DEF DeadlineOf, Over, deadlineVars
      <4>3. WaitsOf(r)' /\ ReplyOf(r)'
        BY <1>1, <1>3, <4>1, Zenon DEF WaitsOf, ReplyOf, deadlineVars, waits
      <4>4. SuccessOf(r)'
        BY <1>1, <1>2, <1>3, Zenon DEF SuccessOf, deadlineVars
      <4> QED
        BY <3>1, <4>2, <4>3, <4>4, Zenon
    <3>2. CASE p # r
      <4>1. pc'[p] = pc[p]
        BY <1>1, <1>3, <3>2 DEF OpTypes
      <4> QED
        BY <1>1, <1>2, <1>3, <4>1, ZenonT(40) DEF DeadlineOf, Over, WaitsOf, ReplyOf, SuccessOf, deadlineVars, waits
    <3> QED
      BY <3>1, <3>2
  <2> QED
    BY <1>1, <1>3, <2>1, <2>2, <2>3, Zenon DEF RequestInv, OpInv
<1>4. CASE state[r] # "error" /\ FirstLoop(r, parsed, strand)
  <2>1. parsed = <<>> /\ ~Over(r)
    BY <1>1, <1>2, <1>4, Zenon DEF ReplyOf, Over
  <2>2. /\ parsed' = parsed /\ result' = result
        /\ pc' = [pc EXCEPT ![r] = "first"]
        /\ rwaits' = rwaits \cup {r}
        /\ strand' = strand
        /\ UNCHANGED <<deadlineVars, state, wwaits, inflight>>
    BY <1>4, <2>1, Zenon DEF FirstLoop, AwaitInput
  <2>3. LibInv'
    BY <1>1, <1>2, <2>2 DEF LibInv, LibTypes, Unanswered
  <2>4. pc'[r] = "first" /\ ~Has(strand, "read", r)
    BY <1>1, <1>2, <1>4, <2>2, Zenon DEF OpTypes, WaitsOf
  <2>5. rwaits' \subseteq {r} /\ wwaits' \subseteq {r}
    BY <1>2, <2>1, <2>2, Alone
  <2>6. WaitsOf(r)'
    BY <1>1, <1>2, <1>4, <2>2, <2>4, Zenon DEF WaitsOf, deadlineVars
  <2>7. ReplyOf(r)'
    <3>1. ~Behind(strand', r, wwaits')
      BY <2>2, <2>4, BehindHas, Zenon
    <3> QED
      BY <1>1, <1>2, <1>4, <2>2, <2>4, <3>1, Zenon DEF ReplyOf
  <2>8. state' = [state EXCEPT ![r] = state[r]] /\ state[r] \in {"send_in_progress", "send_finish"}
    BY <1>1, <1>4, <2>2 DEF OpTypes
  <2>9. OpInv'
    BY <1>2, <2>1, <2>2, <2>5, <2>6, <2>7, <2>8, RestAll, GoesOn, Zenon
  <2> QED
    BY <2>3, <2>9 DEF RequestInv
<1> QED
  BY <1>3, <1>4 DEF GetResult

-----------------------------------------------------------------------------
(* The handlers.                                                           *)

(* What is known of the handler that runs.                                 *)
LEMMA HeadFacts ==
  ASSUME RequestInv, strand # <<>>, NEW r, r = Head(strand).req
  PROVE  /\ r \in Requests
         /\ Head(strand).ec \in {"ok", "aborted"}
         /\ Has(strand, Head(strand).op, r)
         /\ ~Has(Tail(strand), Head(strand).op, r)
         /\ \A op : op # Head(strand).op => (Has(Tail(strand), op, r) <=> Has(strand, op, r))
         /\ Rest(Tail(strand))
<1>1. strand \in Seq(Entries) /\ Unique(strand)
  BY DEF RequestInv, OpInv, OpTypes
<1>2. Head(strand) \in Entries
  BY <1>1, TailFacts
<1>3. r \in Requests /\ Head(strand).ec \in {"ok", "aborted"}
  BY <1>2, Zenon DEF Entries
<1> QED
  BY <1>1, <1>3, TailHas, RestTail, Zenon

(* operator() of the send operation: unless the query is sent or the       *)
(* request over, it goes on sending, and waits again if it has to.         *)
LEMMA WriteStep ==
  ASSUME RequestInv, ~MultiThread, strand # <<>>, StrandFree,
         NEW r, r = Head(strand).req, Head(strand).op = "write",
         OnWrite(r, Head(strand).ec, Tail(strand)), closed' = closed
  PROVE  RequestInv'
<1> DEFINE q == Tail(strand)
           ec == Head(strand).ec
<1>1. /\ r \in Requests /\ ec \in {"ok", "aborted"}
      /\ Has(strand, "write", r) /\ ~Has(q, "write", r) /\ Rest(q)
      /\ Has(q, "read", r) <=> Has(strand, "read", r)
  BY HeadFacts, Zenon
<1>2. OpTypes /\ LibInv /\ WaitsOf(r) /\ ReplyOf(r) /\ pc' = pc /\ result' = result
  BY <1>1, Zenon DEF RequestInv, OpInv, OnWrite
<1>3. CASE state[r] # "send_in_progress" /\ strand' = q /\ UNCHANGED <<deadlineVars, state, waits, libpqVars>>
  BY <1>2, <1>3, Skips DEF opVars
<1>4. CASE state[r] = "send_in_progress"
  <2>1. pc[r] = "first"
    BY <1>1, <1>2, <1>4, Zenon DEF WaitsOf, StrandFree
  <2>2. pc[r] # "new" /\ ~Over(r) /\ pc' = [pc EXCEPT ![r] = "first"]
    BY <1>2, <1>4, <2>1 DEF Over, OpTypes
  <2>3. ASSUME NEW c \in Codes, c # "ok", DoneError(r, c, q), UNCHANGED libpqVars PROVE RequestInv'
    <3>1. OpInv'
      BY <1>1, <1>2, <2>2, <2>3, DoneErrorStep, Zenon DEF libpqVars
    <3>2. LibInv'
      BY <1>2, <2>3, LibKept, Zenon
    <3> QED
      BY <3>1, <3>2 DEF RequestInv
  <2>4. CASE ec # "ok" /\ DoneError(r, ec, q) /\ UNCHANGED libpqVars
    <3>1. ec \in Codes
      BY <1>1, Zenon DEF Codes
    <3> QED
      BY <2>3, <2>4, <3>1, Zenon
  <2>5. CASE DoneError(r, "flush_failed", q) /\ UNCHANGED libpqVars
    <3>1. "flush_failed" \in Codes
      BY DEF Codes
    <3> QED
      BY <2>3, <2>5, <3>1, Zenon
  <2>6. ASSUME NEW left \in 0..outbuf, Flushed(r, left, q),
               UNCHANGED <<parsed, inbox, reply, partial, inflight, broken>>
        PROVE  RequestInv'
    <3> DEFINE y == IF left = 0 THEN "send_finish" ELSE "send_in_progress"
    <3>1. /\ state' = [state EXCEPT ![r] = y]
          /\ wwaits' = IF left = 0 THEN wwaits ELSE wwaits \cup {r}
          /\ strand' = q /\ rwaits' = rwaits /\ UNCHANGED deadlineVars
          /\ outbuf' = left
          /\ y \in {"send_in_progress", "send_finish"}
      BY <1>4, <2>6 DEF Flushed
    <3>2. pc'[r] = "first" /\ state'[r] = y
      BY <1>1, <1>2, <2>1, <3>1, Zenon DEF OpTypes
    <3>3. rwaits' \subseteq {r} /\ wwaits' \subseteq {r}
      BY <1>1, <2>2, <3>1, Alone, ZenonT(40)
    <3>4. r \notin wwaits
      BY <1>1, <1>2, Zenon DEF WaitsOf
    <3>5. outbuf \in Nat /\ left \in Nat /\ left <= outbuf
      BY <1>2, <2>6 DEF LibInv, LibTypes
    <3>6. /\ y = "send_in_progress" => r \in wwaits' /\ outbuf' > 0
          /\ r \in wwaits' => y = "send_in_progress"
      BY <3>1, <3>4, <3>5
    <3> HIDE DEF y, q
    <3>7. WaitsOf(r)'
      <4>1. r \in rwaits => ~Has(q, "read", r)
        BY <1>1, <1>2, Zenon DEF WaitsOf
      <4>2. Has(q, "timer", r) => timer[r] = "queued"
        BY <1>1, <1>2, Zenon DEF WaitsOf, Rest
      <4> QED
        BY <1>1, <3>1, <3>2, <3>6, <4>1, <4>2, Zenon DEF WaitsOf, deadlineVars
    <3>8. ReplyOf(r)'
      BY <1>2, <1>4, <2>1, <2>6, <3>2, <3>6, Zenon DEF ReplyOf
    <3>9. OpInv'
      BY <1>1, <1>2, <2>2, <2>6, <3>1, <3>3, <3>7, <3>8, GoesOn, Zenon
    <3>10. LibInv'
      BY <1>2, <2>6, <3>1, <3>5, SMTT(30) DEF LibInv, LibTypes, Unanswered
    <3> QED
      BY <3>9, <3>10, Zenon DEF RequestInv
  <2> HIDE DEF q, ec
  <2>7. \/ ec # "ok" /\ DoneError(r, ec, q) /\ UNCHANGED libpqVars
        \/ DoneError(r, "flush_failed", q) /\ UNCHANGED libpqVars
        \/ \E left \in 0..outbuf : Flushed(r, left, q)
             /\ UNCHANGED <<parsed, inbox, reply, partial, inflight, broken>>
    BY <1>4, Zenon DEF OnWrite, q, ec
  <2> QED
    BY <2>4, <2>5, <2>6, <2>7, Zenon
<1> QED
  BY <1>3, <1>4 DEF OnWrite

(* handle_result() ends the request, with the result or with an error.     *)
LEMMA ResultStep ==
  ASSUME RequestInv, NEW r \in Requests, pc[r] \in {"first", "drain"}, state[r] = "send_finish",
         NEW q, Rest(q), ~Has(q, "read", r), r \notin rwaits,
         NEW res, HandleResult(r, res, q), result'[r] = res,
         \A p \in Requests \ {r} : result'[p] = result[p],
         inflight' \in {inflight, 0}, broken' = broken, inflight' = r => broken
  PROVE  OpInv'
<1>1. pc[r] # "new" /\ ~Over(r) /\ pc' = [pc EXCEPT ![r] = "end"]
  BY Zenon DEF Over, HandleResult
<1>2. CASE res.kind = "tuples" /\ Done(r, q)
  BY <1>1, <1>2, DoneStep, Zenon
<1>3. ASSUME NEW c \in Codes, c # "ok", DoneError(r, c, q) PROVE OpInv'
  BY <1>1, <1>3, DoneErrorStep, ZenonT(40)
<1>4. "bad_process" \in Codes /\ "sqlstate" \in Codes
  BY DEF Codes
<1> QED
  BY <1>2, <1>3, <1>4 DEF HandleResult

(* The get operation waits for more input, with nothing left to parse.     *)
LEMMA AwaitStep ==
  ASSUME RequestInv, NEW r \in Requests, pc[r] \in {"first", "drain"}, state[r] # "error",
         NEW q, Rest(q), ~Has(q, "read", r), Has(strand, "write", r) => Has(q, "write", r),
         NEW x \in {"first", "drain"}, AwaitInput(r, x, q),
         x = "drain" => state[r] = "send_finish",
         \A p \in Requests \ {r} : result'[p] = result[p], broken' = broken,
         parsed' = <<>>, Len(inbox') + Len(reply') <= IF x = "drain" THEN 1 ELSE 2
  PROVE  OpInv'
<1>1. OpTypes /\ WaitsOf(r)
  BY Zenon DEF RequestInv, OpInv
<1>2. /\ pc' = [pc EXCEPT ![r] = x]
      /\ rwaits' = rwaits \cup {r}
      /\ strand' = q
      /\ UNCHANGED <<deadlineVars, state, wwaits, inflight>>
  BY Zenon DEF AwaitInput
<1>3. pc[r] # "new" /\ ~Over(r) /\ pc'[r] = x
  BY <1>1, <1>2, Zenon DEF Over, OpTypes
<1>4. rwaits' \subseteq {r} /\ wwaits' \subseteq {r}
  BY <1>2, <1>3, Alone, Zenon
<1>5. state' = [state EXCEPT ![r] = state[r]] /\ state[r] \in {"send_in_progress", "send_finish"}
  BY <1>1, <1>2, Zenon DEF OpTypes
<1>6. WaitsOf(r)'
  <2>1. Has(q, "timer", r) => timer[r] = "queued"
    BY <1>1, Zenon DEF WaitsOf, Rest
  <2>2. Has(q, "write", r) => Has(strand, "write", r)
    BY Zenon DEF Rest
  <2>3. pc[r] = "drain" => state[r] # "send_in_progress"
    BY <1>1, Zenon DEF WaitsOf
  <2> QED
    BY <1>1, <1>2, <1>3, <2>1, <2>2, <2>3, Zenon DEF WaitsOf, deadlineVars
<1>7. ReplyOf(r)'
  <2>1. ~Behind(strand', r, wwaits')
    BY <1>2, BehindHas, Zenon
  <2> QED
    BY <1>3, <2>1, Zenon DEF ReplyOf
<1> QED
  BY <1>2, <1>3, <1>4, <1>5, <1>6, <1>7, GoesOn, Zenon

(* A read handler that runs in front of the write handler of its request   *)
(* finds nothing to parse, as the server does not yet have the query.      *)
LEMMA NothingBeforeSent ==
  ASSUME RequestInv, strand # <<>>, NEW r, r = Head(strand).req,
         Head(strand).op = "read", Head(strand).ec = "ok",
         ~closed, inbox # <<>>, pc[r] \in {"first", "drain"}, state[r] # "error"
  PROVE  state[r] = "send_finish"
<1> SUFFICES ASSUME state[r] = "send_in_progress" PROVE FALSE
  <2>1. r \in Requests /\ OpTypes
    BY HeadFacts, Zenon DEF RequestInv, OpInv
  <2> QED
    BY <2>1, Zenon DEF OpTypes
<1>1. Has(Tail(strand), "write", r) <=> Has(strand, "write", r)
  BY HeadFacts, Zenon
<1>2. r \in Requests
  BY HeadFacts, Zenon
<1>3. OpTypes /\ WaitsOf(r) /\ ReplyOf(r) /\ Unanswered
  BY <1>2 DEF RequestInv, OpInv, LibInv
<1>4. pc[r] = "first" /\ (r \in wwaits \/ Has(Tail(strand), "write", r))
  BY <1>1, <1>2, <1>3, ZenonT(40) DEF WaitsOf
<1>5. Head(strand) = Entry("read", r, "ok")
  <2>1. Head(strand) \in Entries
    BY <1>3, TailFacts, Zenon DEF OpTypes
  <2> QED
    BY <2>1, Zenon DEF Entries, Entry
<1>6. Behind(strand, r, wwaits)
  BY <1>3, <1>4, <1>5, TailBehind DEF OpTypes
<1>7. outbuf > 0
  BY <1>3, <1>4, <1>6, Zenon DEF ReplyOf
<1> QED
  BY <1>3, <1>7 DEF Unanswered

(* PQconsumeInput succeeded: the get operation waits again, goes on to the *)
(* second loop, ends, or spins in a COPY.                                  *)
LEMMA ConsumedStep ==
  ASSUME RequestInv, strand # <<>>, NEW r, r = Head(strand).req,
         Head(strand).op = "read", Head(strand).ec = "ok", state[r] # "error",
         Consumes, UNCHANGED <<reply, broken, closed>>,
         NEW q, q = Tail(strand),
         \/ pc[r] = "first" /\ FirstLoop(r, parsed \o inbox, q)
         \/ pc[r] = "drain" /\ DrainLoop(r, result[r], parsed \o inbox, q) /\ UNCHANGED result
  PROVE  RequestInv'
<1>1. /\ r \in Requests /\ Rest(q) /\ Has(strand, "read", r) /\ ~Has(q, "read", r)
      /\ Has(q, "write", r) <=> Has(strand, "write", r)
      /\ Has(q, "timer", r) <=> Has(strand, "timer", r)
  BY HeadFacts, Zenon
<1>2. OpTypes /\ WaitsOf(r) /\ ReplyOf(r) /\ LibTypes /\ Unanswered
  BY <1>1, Zenon DEF RequestInv, OpInv, LibInv
<1>3. /\ r \notin rwaits /\ pc[r] \in {"first", "drain"} /\ pc[r] # "new" /\ ~Over(r)
      /\ parsed = <<>> /\ Len(inbox) + Len(reply) <= IF pc[r] = "drain" THEN 1 ELSE 2
  BY <1>1, <1>2, Zenon DEF WaitsOf, ReplyOf, Over
<1>4. parsed \o inbox = inbox
  BY <1>2, <1>3 DEF LibTypes
<1>5. ~closed /\ inbox' = <<>> /\ outbuf' \in 0..outbuf
  BY Zenon DEF Consumes
<1>6. /\ Len(inbox) \in Nat /\ Len(reply) \in Nat /\ (inbox # <<>> => Len(inbox) >= 1)
      /\ (reply # <<>> => Len(reply) >= 1) /\ Len(<<>>) = 0
  BY <1>2 DEF LibTypes
<1>7. inbox # <<>> => state[r] = "send_finish" /\ outbuf = 0 /\ inflight # 0
  <2>1. inbox # <<>> => state[r] = "send_finish"
    BY <1>3, <1>5, NothingBeforeSent
  <2>2. outbuf \in Nat /\ (outbuf > 0 => inbox = <<>>) /\ (inflight = 0 => inbox = <<>>)
    BY <1>2, Zenon DEF Unanswered, LibTypes
  <2> QED
    BY <2>1, <2>2
<1>8. inbox # <<>> => /\ Head(inbox) \in Items /\ Tail(inbox) \in Seq(Items)
                      /\ Len(Tail(inbox)) = Len(inbox) - 1
                      /\ (Tail(inbox) # <<>> => /\ Tail(Tail(inbox)) \in Seq(Items)
                                                /\ Len(Tail(Tail(inbox))) = Len(Tail(inbox)) - 1
                                                /\ Len(Tail(inbox)) >= 1)
  <2>1. ASSUME NEW s \in Seq(Items), s # <<>>
        PROVE  Head(s) \in Items /\ Tail(s) \in Seq(Items) /\ Len(Tail(s)) = Len(s) - 1 /\ Len(s) >= 1
    BY <2>1
  <2> QED
    BY <1>2, <2>1 DEF LibTypes
<1>9. ASSUME NEW s \in Seq(Items), Len(s) = 0 PROVE s = <<>>
  BY <1>9
<1>10. ASSUME OpInv', parsed' = <<>>, result' \in [Requests -> Items \cup {NoResult}],
              inflight' = inflight \/ (inflight' = 0 /\ reply = <<>>)
       PROVE  RequestInv'
  BY <1>2, <1>5, <1>10 DEF RequestInv, LibInv, LibTypes, Unanswered
<1>11. ASSUME NEW x \in {"first", "drain"}, AwaitInput(r, x, q), parsed' = <<>>,
              x = "drain" => state[r] = "send_finish",
              \A p \in Requests \ {r} : result'[p] = result[p],
              result' \in [Requests -> Items \cup {NoResult}],
              Len(reply) <= IF x = "drain" THEN 1 ELSE 2
       PROVE  RequestInv'
  <2>1. Len(inbox') + Len(reply') <= IF x = "drain" THEN 1 ELSE 2
    <3>1. Len(inbox') = 0 /\ reply' = reply /\ Len(reply) \in Nat
      BY <1>5, <1>6, Zenon
    <3>2. Len(inbox') + Len(reply') = Len(reply)
      BY <3>1
    <3> QED
      BY <1>11, <3>2, Zenon
  <2>2. OpInv'
    BY <1>1, <1>3, <1>11, <2>1, AwaitStep, Zenon
  <2>3. inflight' = inflight
    BY <1>11, Zenon DEF AwaitInput
  <2> QED
    BY <1>10, <1>11, <2>2, <2>3, Zenon
<1>12. ASSUME NEW res, HandleResult(r, res, q), result'[r] = res, inbox # <<>>,
              parsed' = <<>>, inflight' = 0, reply = <<>>,
              \A p \in Requests \ {r} : result'[p] = result[p],
              result' \in [Requests -> Items \cup {NoResult}]
       PROVE  RequestInv'
  <2>1. r # 0
    BY <1>1, RequestAssumption, Zenon DEF Requests
  <2>2. OpInv'
    BY <1>1, <1>3, <1>7, <1>12, <2>1, ResultStep, Zenon
  <2> QED
    BY <1>10, <1>12, <2>2, Zenon
<1>13. CASE pc[r] = "drain" /\ DrainLoop(r, result[r], inbox, q) /\ UNCHANGED result
  <2>1. result' \in [Requests -> Items \cup {NoResult}] /\ result'[r] = result[r]
        /\ \A p \in Requests \ {r} : result'[p] = result[p]
    BY <1>2, <1>13 DEF LibTypes
  <2>2. CASE inbox = <<>> /\ parsed' = inbox /\ AwaitInput(r, "drain", q)
    <3>1. state[r] = "send_finish"
      BY <1>1, <1>2, <1>13, ZenonT(40) DEF WaitsOf, OpTypes
    <3>2. Len(reply) <= 1
      <4>1. Len(inbox) + Len(reply) <= 1 /\ Len(inbox) \in Nat /\ Len(reply) \in Nat
        BY <1>3, <1>6, <1>13, Zenon
      <4> QED
        BY <4>1, SumParts, Zenon
    <3> QED
      BY <1>11, <2>1, <2>2, <3>1, <3>2, Zenon
  <2>3. CASE inbox # <<>> /\ parsed' = Tail(inbox) /\ inflight' = 0 /\ HandleResult(r, result[r], q)
    <3>1. Len(inbox) = 1 /\ Len(reply) = 0
      <4>1. Len(inbox) + Len(reply) <= 1 /\ Len(inbox) >= 1
        BY <1>3, <1>6, <1>13, <2>3, Zenon
      <4>2. Len(inbox) \in Nat /\ Len(reply) \in Nat
        BY <1>6, Zenon
      <4> QED
        BY <4>1, <4>2, SumParts, Zenon
    <3>2. Tail(inbox) = <<>> /\ reply = <<>>
      <4>1. Tail(inbox) \in Seq(Items) /\ Len(Tail(inbox)) = Len(inbox) - 1 /\ reply \in Seq(Items)
        BY <1>2, <1>8, <2>3, Zenon DEF LibTypes
      <4>2. Len(Tail(inbox)) = 0
        BY <3>1, <4>1
      <4> QED
        BY <1>9, <3>1, <4>1, <4>2, Zenon
    <3> QED
      BY <1>12, <2>1, <2>3, <3>2, Zenon
  <2> QED
    BY <1>13, <2>2, <2>3, Zenon DEF DrainLoop
<1>14. CASE pc[r] = "first" /\ FirstLoop(r, inbox, q)
  <2>1. CASE inbox = <<>> /\ parsed' = inbox /\ AwaitInput(r, "first", q) /\ UNCHANGED result
    <3>1. result' \in [Requests -> Items \cup {NoResult}] /\ Len(reply) <= 2
      BY <1>2, <1>3, <1>6, <1>14, <2>1 DEF LibTypes
    <3> QED
      BY <1>11, <2>1, <3>1, Zenon
  <2>2. CASE inbox # <<>> /\ result' = [result EXCEPT ![r] = Head(inbox)]
    <3>1. result' \in [Requests -> Items \cup {NoResult}] /\ result'[r] = Head(inbox)
          /\ \A p \in Requests \ {r} : result'[p] = result[p]
      BY <1>1, <1>2, <1>8, <2>2, Zenon DEF LibTypes
    <3>2. CASE Tail(inbox) = <<>> /\ parsed' = Tail(inbox) /\ AwaitInput(r, "drain", q)
      <4>1. Len(reply) <= 1
        <5>1. pc[r] # "drain"
          BY <1>14
        <5>2. /\ Len(inbox) + Len(reply) <= 2 /\ Len(inbox) >= 1
              /\ Len(inbox) \in Nat /\ Len(reply) \in Nat
          BY <1>3, <1>6, <2>2, <5>1, Zenon
        <5> QED
          BY <5>2, SumParts, Zenon
      <4> QED
        BY <1>7, <1>11, <2>2, <3>1, <3>2, <4>1, ZenonT(40)
    <3>3. CASE Tail(inbox) # <<>> /\ parsed' = Tail(Tail(inbox)) /\ inflight' = 0
               /\ HandleResult(r, Head(inbox), q)
      <4>1. Len(Tail(Tail(inbox))) = 0 /\ Len(reply) = 0
        <5>1. Len(inbox) + Len(reply) <= 2
          BY <1>3, <1>14, Zenon
        <5>2. Len(Tail(Tail(inbox))) = Len(Tail(inbox)) - 1 /\ Len(Tail(inbox)) = Len(inbox) - 1
              /\ Len(Tail(inbox)) >= 1
          BY <1>8, <2>2, <3>3, Zenon
        <5>3. \A a, b \in Nat : a + b <= 2 /\ a - 1 >= 1 => (a - 1) - 1 = 0 /\ b = 0
          OBVIOUS
        <5>4. Len(inbox) \in Nat /\ Len(reply) \in Nat
          BY <1>6
        <5> QED
          BY <5>1, <5>2, <5>3, <5>4, ZenonT(40)
      <4>2. Tail(Tail(inbox)) = <<>> /\ reply = <<>>
        BY <1>2, <1>8, <1>9, <2>2, <3>3, <4>1, Zenon DEF LibTypes
      <4> QED
        BY <1>12, <2>2, <3>1, <3>3, <4>2, Zenon
    <3>4. CASE /\ pc' = [pc EXCEPT ![r] = "spin"]
               /\ parsed' = inbox /\ strand' = q
               /\ UNCHANGED <<deadlineVars, state, waits, inflight>>
      <4>1. /\ pc'[r] = "spin" /\ state[r] = "send_finish" /\ state'[r] = "send_finish"
            /\ rwaits' = rwaits /\ wwaits' = wwaits
            /\ state' = [state EXCEPT ![r] = "send_finish"]
        BY <1>1, <1>2, <1>7, <2>2, <3>4, ZenonT(40) DEF OpTypes, waits
      <4>2. rwaits' \subseteq {r} /\ wwaits' \subseteq {r}
        BY <1>1, <1>3, <4>1, Alone, Zenon
      <4>3. WaitsOf(r)'
        BY <1>1, <1>2, <1>3, <3>4, <4>1, ZenonT(40) DEF WaitsOf, deadlineVars
      <4>4. ReplyOf(r)'
        BY <4>1, Zenon DEF ReplyOf
      <4>5. OpInv'
        BY <1>1, <1>3, <3>1, <3>4, <4>1, <4>2, <4>3, <4>4, GoesOn, ZenonT(40)
      <4>6. LibInv'
        BY <1>2, <1>5, <1>7, <2>2, <3>1, <3>4 DEF LibInv, LibTypes, Unanswered
      <4> QED
        BY <4>5, <4>6, Zenon DEF RequestInv
    <3> QED
      BY <1>14, <2>2, <3>2, <3>3, <3>4, Zenon DEF FirstLoop, DrainLoop
  <2> QED
    BY <1>14, <2>1, <2>2 DEF FirstLoop
<1> QED
  BY <1>4, <1>13, <1>14, Zenon

(* operator() of the get operation.                                        *)
LEMMA ReadStep ==
  ASSUME RequestInv, strand # <<>>,
         NEW r, r = Head(strand).req, Head(strand).op = "read",
         OnRead(r, Head(strand).ec, Tail(strand)), closed' = closed
  PROVE  RequestInv'
<1> DEFINE q == Tail(strand)
           ec == Head(strand).ec
<1>1. /\ r \in Requests /\ ec \in {"ok", "aborted"} /\ Rest(q)
      /\ Has(strand, "read", r) /\ ~Has(q, "read", r)
  BY HeadFacts
<1>2. OpTypes /\ WaitsOf(r) /\ LibInv /\ LibTypes /\ Unanswered
  BY <1>1, Zenon DEF RequestInv, OpInv, LibInv
<1>3. CASE /\ state[r] = "error"
           /\ strand' = q
           /\ UNCHANGED <<deadlineVars, opVars, waits, libpqVars>>
  BY <1>3, Skips
<1>4. CASE state[r] # "error"
  <2>1. pc[r] \in {"first", "drain"} /\ pc[r] # "new" /\ ~Over(r) /\ r \notin rwaits
    BY <1>1, <1>2, <1>4, Zenon DEF WaitsOf, Over
  <2>2. ASSUME NEW c \in Codes, c # "ok", DoneError(r, c, q), UNCHANGED <<pc, result, libpqVars>>
        PROVE  RequestInv'
    <3>1. pc' = [pc EXCEPT ![r] = pc[r]]
      BY <1>2, <2>2 DEF OpTypes
    <3>2. OpInv'
      BY <1>1, <2>1, <2>2, <3>1, DoneErrorStep, Zenon DEF libpqVars
    <3>3. LibInv'
      BY <1>2, <2>2, LibKept, Zenon
    <3> QED
      BY <3>2, <3>3, Zenon DEF RequestInv
  <2>3. CASE ec # "ok" /\ DoneError(r, ec, q) /\ UNCHANGED <<pc, result, libpqVars>>
    <3>1. ec \in Codes
      BY <1>1 DEF Codes
    <3> QED
      BY <2>2, <2>3, <3>1, Zenon
  <2>4. CASE DoneError(r, "consume_failed", q) /\ UNCHANGED <<pc, result, libpqVars>>
    <3>1. "consume_failed" \in Codes
      BY DEF Codes
    <3> QED
      BY <2>2, <2>4, <3>1
  <2>5. CASE ConsumeFails /\ pc[r] = "drain" /\ HandleResult(r, result[r], q) /\ UNCHANGED <<result, libpqVars>>
    <3>1. state[r] = "send_finish"
      BY <1>1, <1>2, <1>4, <2>5, Zenon DEF WaitsOf, OpTypes
    <3>2. inflight' = inflight /\ broken' = broken /\ result' = result
      BY <2>5, Zenon DEF libpqVars
    <3>3. inflight' = r => broken
      <4>1. r # 0
        BY <1>1, RequestAssumption DEF Requests
      <4> QED
        BY <1>2, <2>5, <3>2, <4>1, Zenon DEF ConsumeFails, Unanswered
    <3>4. OpInv'
      BY <1>1, <2>1, <2>5, <3>1, <3>2, <3>3, ResultStep, Zenon
    <3>5. LibInv'
      BY <1>2, <2>5, LibKept
    <3> QED
      BY <3>4, <3>5 DEF RequestInv
  <2>6. CASE /\ ec = "ok" /\ Consumes
             /\ \/ pc[r] = "first" /\ FirstLoop(r, parsed \o inbox, q)
                \/ pc[r] = "drain" /\ DrainLoop(r, result[r], parsed \o inbox, q) /\ UNCHANGED result
             /\ UNCHANGED <<reply, broken>>
    BY <1>4, <2>6, ConsumedStep, Zenon
  <2> HIDE DEF q, ec
  <2> QED
    BY <1>4, <2>3, <2>4, <2>5, <2>6, Zenon DEF OnRead, q, ec
<1> QED
  BY <1>3, <1>4, ZenonT(40) DEF OnRead

(* connection::cancel(): the waits of the one request that has any become  *)
(* handlers that are ready, behind those that were.                        *)
LEMMA CancelFacts ==
  ASSUME RequestInv, NEW q, Rest(q), CancelWaits(q)
  PROVE  /\ strand' \in Seq(Entries) /\ Unique(strand')
         /\ rwaits' = {} /\ wwaits' = {}
         /\ \A p : /\ Has(strand', "read", p) <=> Has(q, "read", p) \/ p \in rwaits
                   /\ Has(strand', "write", p) <=> Has(q, "write", p) \/ p \in wwaits
                   /\ Has(strand', "timer", p) <=> Has(q, "timer", p)
                   /\ Behind(strand', p, {}) => Behind(strand, p, wwaits)
<1>1. OpTypes /\ \A p \in Requests : WaitsOf(p)
  BY DEF RequestInv, OpInv
<1>2. \E r : rwaits \subseteq {r} \cap Requests /\ wwaits \subseteq {r} \cap Requests
  <2>1. CASE rwaits = {} /\ wwaits = {}
    BY <2>1, Zenon
  <2>2. ASSUME NEW p \in rwaits \cup wwaits PROVE rwaits \subseteq {p} \cap Requests /\ wwaits \subseteq {p} \cap Requests
    <3>1. p \in Requests
      BY <1>1, ZenonT(40) DEF OpTypes
    <3>2. pc[p] # "new" /\ ~Over(p)
      BY <1>1, <3>1, Zenon DEF WaitsOf, Over
    <3> QED
      BY <3>1, <3>2, Alone
  <2> QED
    BY <2>1, <2>2
<1>3. PICK r : rwaits \subseteq {r} \cap Requests /\ wwaits \subseteq {r} \cap Requests
  BY <1>2
<1>4. /\ r \in rwaits => ~Has(q, "read", r)
      /\ r \in wwaits => ~Has(q, "write", r)
      /\ q \in Seq(Entries) /\ Unique(q)
  BY <1>1, <1>3, Zenon DEF WaitsOf, Rest
<1>5. strand' = q \o Aborted /\ rwaits' = {} /\ wwaits' = {}
  BY Zenon DEF CancelWaits
<1> DEFINE t == q \o Aborted
<1>6. /\ t \in Seq(Entries)
      /\ Unique(t)
      /\ \A op, p : Has(t, op, p) <=>
           \/ Has(q, op, p)
           \/ p = r /\ op = "read" /\ r \in rwaits
           \/ p = r /\ op = "write" /\ r \in wwaits
      /\ \A p : Behind(t, p, {}) => Behind(q, p, wwaits)
  BY <1>3, <1>4, AbortFacts, Zenon
<1>7. strand' = t
  BY <1>5, Zenon
<1> HIDE DEF t
<1>8. \A p : Behind(q, p, wwaits) => Behind(strand, p, wwaits)
  BY DEF Rest
<1> QED
  BY <1>3, <1>5, <1>6, <1>7, <1>8

(* What a cancel of the waits keeps, whatever it is called for.            *)
LEMMA CancelKeeps ==
  ASSUME RequestInv, NEW q, Rest(q), CancelWaits(q), UNCHANGED <<state, pc>>,
         NEW p \in Requests, Has(strand, "write", p) => Has(q, "write", p),
         Has(q, "timer", p) => timer'[p] = "queued"
  PROVE  WaitsOf(p)'
<1>1. WaitsOf(p)
  BY Zenon DEF RequestInv, OpInv
<1>2. /\ rwaits' = {} /\ wwaits' = {}
      /\ Has(strand', "read", p) <=> Has(q, "read", p) \/ p \in rwaits
      /\ Has(strand', "write", p) <=> Has(q, "write", p) \/ p \in wwaits
      /\ Has(strand', "timer", p) <=> Has(q, "timer", p)
  BY CancelFacts, Zenon
<1>3. /\ Has(q, "read", p) => Has(strand, "read", p)
      /\ Has(q, "write", p) => Has(strand, "write", p)
  BY Zenon DEF Rest
<1> QED
  BY <1>1, <1>2, <1>3, Zenon DEF WaitsOf

(* timer_handler: it either cancels the waits of the request, or calls the *)
(* handler with what the request ended with.                               *)
LEMMA TimerStep ==
  ASSUME RequestInv, strand # <<>>,
         NEW r, r = Head(strand).req, Head(strand).op = "timer",
         OnTimer(r, Tail(strand)), closed' = closed
  PROVE  RequestInv'
<1> DEFINE q == Tail(strand)
<1>1. /\ r \in Requests /\ Rest(q) /\ Has(strand, "timer", r) /\ ~Has(q, "timer", r)
  BY HeadFacts, Zenon
<1>2. /\ OpTypes /\ Serial /\ LibInv
      /\ \A p \in Requests : DeadlineOf(p) /\ WaitsOf(p) /\ ReplyOf(p) /\ SuccessOf(p)
  BY Zenon DEF RequestInv, OpInv
<1>3. \A p : /\ Has(q, "read", p) <=> Has(strand, "read", p)
             /\ Has(q, "write", p) <=> Has(strand, "write", p)
             /\ Has(q, "timer", p) => Has(strand, "timer", p) /\ p # r
  <2>1. Unique(strand) /\ strand \in Seq(Entries)
    BY DEF RequestInv, OpInv, OpTypes
  <2> QED
    BY <2>1, TailHas, Zenon
<1>4. timer[r] = "queued"
  BY <1>1, <1>2, Zenon DEF WaitsOf
<1>5. UNCHANGED <<opVars, libpqVars, closed>> /\ UNCHANGED <<state, pc, result>>
  BY Zenon DEF OnTimer, opVars
<1>6. LibInv'
  BY <1>2, <1>5, LibKept
<1>7. q \in Seq(Entries) /\ Unique(q) /\ \A p, w : Behind(q, p, w) => Behind(strand, p, w)
  BY <1>1, ZenonT(40) DEF Rest
<1> HIDE DEF q
<1>8. ASSUME timer' = [timer EXCEPT ![r] = "ran"] PROVE \A p \in Requests : Has(q, "timer", p) => timer'[p] = "queued"
  BY <1>1, <1>2, <1>3, <1>8 DEF WaitsOf, OpTypes
<1>9. CASE TimerFirst(r) /\ CancelWaits(q)
  <2>1. /\ first_call[r] = 2
        /\ first_call' = [first_call EXCEPT ![r] = 1]
        /\ timer' = [timer EXCEPT ![r] = "ran"]
        /\ saved' = [saved EXCEPT ![r] = "timed_out"]
        /\ calls' = calls /\ answer' = answer
    BY <1>9 DEF TimerFirst
  <2>2. /\ strand' \in Seq(Entries) /\ Unique(strand') /\ rwaits' = {} /\ wwaits' = {}
        /\ \A p : Behind(strand', p, {}) => Behind(strand, p, wwaits)
    BY <1>1, <1>9, CancelFacts, Zenon
  <2>3. OpTypes'
    <3>1. first_call' \in [Requests -> 0..2] /\ calls' \in [Requests -> Nat]
      BY <1>1, <1>2, <2>1 DEF OpTypes
    <3>2. timer' \in [Requests -> TimerStates]
      BY <1>1, <1>2, <2>1, Zenon DEF OpTypes, TimerStates
    <3>3. saved' \in [Requests -> Codes \cup {"none"}] /\ answer' \in [Requests -> Codes \cup {"none"}]
      BY <1>1, <1>2, <2>1, Zenon DEF OpTypes, Codes
    <3> QED
      BY <1>2, <1>5, <2>2, <3>1, <3>2, <3>3, Zenon DEF OpTypes
  <2>4. Serial'
    BY <1>2, <1>5, <2>1, Zenon DEF Serial
  <2>5. ASSUME NEW p \in Requests PROVE (DeadlineOf(p) /\ WaitsOf(p) /\ ReplyOf(p) /\ SuccessOf(p))'
    <3>1. WaitsOf(p)'
      BY <1>1, <1>3, <1>5, <1>8, <1>9, <2>1, CancelKeeps, ZenonT(40)
    <3>2. ReplyOf(p)'
      BY <1>2, <1>5, <2>2 DEF ReplyOf, libpqVars
    <3>3. CASE p = r
      <4>1. /\ DeadlineOf(r) /\ SuccessOf(r) /\ first_call'[r] = 1 /\ timer'[r] = "ran"
            /\ saved'[r] = "timed_out"
        BY <1>1, <1>2, <2>1 DEF OpTypes
      <4>2. pc[r] # "new" /\ r \in Timed /\ ~Over(r) /\ calls[r] = 0
        <5>1. first_call[r] = 2 /\ first_call[r] # 0
          BY <2>1
        <5>2. pc[r] # "new"
          BY <4>1, <5>1, Zenon DEF DeadlineOf
        <5> QED
          BY <4>1, <5>1, <5>2, Zenon DEF DeadlineOf
      <4>3. DeadlineOf(r)'
        <5>1. pc'[r] # "new" /\ ~Over(r)' /\ calls'[r] = 0
          BY <1>5, <2>1, <4>2, Zenon DEF Over
        <5>2. first_call'[r] # 2
          BY <4>1
        <5> QED
          BY <4>1, <4>2, <5>1, <5>2, Zenon DEF DeadlineOf
      <4>4. SuccessOf(r)'
        BY <1>5, <2>1, <4>1, Zenon DEF SuccessOf, libpqVars
      <4> QED
        BY <3>1, <3>2, <3>3, <4>3, <4>4, Zenon
    <3>4. CASE p # r
      <4>1. first_call'[p] = first_call[p] /\ timer'[p] = timer[p] /\ saved'[p] = saved[p]
        BY <1>1, <1>2, <2>1, <3>4 DEF OpTypes
      <4>2. DeadlineOf(p)'
        BY <1>2, <1>5, <2>1, <4>1, Zenon DEF DeadlineOf, Over
      <4>3. SuccessOf(p)'
        BY <1>2, <1>5, <2>1, <4>1, Zenon DEF SuccessOf, libpqVars
      <4> QED
        BY <3>1, <3>2, <4>2, <4>3, Zenon
    <3> QED
      BY <3>3, <3>4
  <2> QED
    BY <1>6, <2>2, <2>3, <2>4, <2>5, Zenon DEF RequestInv, OpInv
<1>10. CASE TimerSecond(r) /\ strand' = q /\ UNCHANGED waits
  <2>1. /\ first_call[r] = 1
        /\ first_call' = [first_call EXCEPT ![r] = 0]
        /\ timer' = [timer EXCEPT ![r] = "ran"]
        /\ calls' = [calls EXCEPT ![r] = @ + 1]
        /\ answer' = [answer EXCEPT ![r] = saved[r]]
        /\ saved' = saved /\ rwaits' = rwaits /\ wwaits' = wwaits /\ strand' = q
    BY <1>10, ZenonT(40) DEF TimerSecond, Call, waits
  <2>2. OpTypes'
    <3>1. first_call' \in [Requests -> 0..2] /\ calls' \in [Requests -> Nat]
      BY <1>1, <1>2, <2>1, SMTT(30) DEF OpTypes
    <3>2. timer' \in [Requests -> TimerStates]
      BY <1>1, <1>2, <2>1, Zenon DEF OpTypes, TimerStates
    <3>3. saved' \in [Requests -> Codes \cup {"none"}] /\ answer' \in [Requests -> Codes \cup {"none"}]
      BY <1>1, <1>2, <2>1 DEF OpTypes
    <3> QED
      BY <1>2, <1>5, <1>7, <2>1, <3>1, <3>2, <3>3, Zenon DEF OpTypes
  <2>3. Serial'
    <3>1. \A p \in Requests : calls'[p] >= calls[p] /\ calls[p] \in Nat /\ calls'[p] \in Nat
      BY <1>1, <1>2, <2>1 DEF OpTypes
    <3>2. ASSUME NEW p \in Requests, calls[p] > 0 PROVE calls'[p] > 0
      BY <3>1, <3>2
    <3>3. pc' = pc
      BY <1>5, Zenon
    <3> QED
      BY <1>2, <3>2, <3>3, Zenon DEF Serial
  <2>4. ASSUME NEW p \in Requests PROVE (DeadlineOf(p) /\ WaitsOf(p) /\ ReplyOf(p) /\ SuccessOf(p))'
    <3>1. WaitsOf(p)'
      BY <1>2, <1>3, <1>5, <1>8, <2>1, Zenon DEF WaitsOf
    <3>2. ReplyOf(p)'
      <4>1. ReplyOf(p) /\ (Behind(strand', p, wwaits') => Behind(strand, p, wwaits))
        BY <1>2, <1>7, <2>1
      <4>2. UNCHANGED <<pc, state, parsed, inbox, reply>> /\ (closed \/ outbuf > 0 => closed' \/ outbuf' > 0)
        BY <1>5, SMTT(30) DEF libpqVars
      <4> QED
        BY <4>1, <4>2, ZenonT(40) DEF ReplyOf
    <3>3. CASE p = r
      <4>1. /\ DeadlineOf(r) /\ SuccessOf(r) /\ first_call'[r] = 0 /\ timer'[r] = "ran"
            /\ calls'[r] = calls[r] + 1 /\ answer'[r] = saved[r]
        BY <1>1, <1>2, <2>1 DEF OpTypes
      <4>2. pc[r] # "new" /\ Over(r) /\ calls[r] = 0
        <5>1. first_call[r] = 1 /\ first_call[r] # 0 /\ first_call[r] # 2
          BY <2>1
        <5>2. pc[r] # "new"
          BY <4>1, <5>1, Zenon DEF DeadlineOf
        <5>3. timer[r] = (IF Over(r) THEN "queued" ELSE "ran") /\ calls[r] = 0
          BY <4>1, <5>1, <5>2, Zenon DEF DeadlineOf
        <5> QED
          BY <1>4, <5>2, <5>3, Zenon
      <4>3. DeadlineOf(r)'
        <5>1. pc'[r] # "new" /\ Over(r)' /\ calls'[r] = 1
          <6>1. pc'[r] # "new" /\ Over(r)'
            BY <1>5, <4>2, Zenon DEF Over
          <6>2. calls'[r] = 1
            BY <4>1, <4>2
          <6> QED
            BY <6>1, <6>2, Zenon
        <5>2. first_call'[r] # 1 /\ first_call'[r] # 2
          BY <4>1
        <5> QED
          BY <4>1, <5>1, <5>2, ZenonT(40) DEF DeadlineOf
      <4>4. SuccessOf(r)'
        BY <1>5, <2>1, <4>1, ZenonT(40) DEF SuccessOf, libpqVars
      <4> QED
        BY <3>1, <3>2, <3>3, <4>3, <4>4, Zenon
    <3>4. CASE p # r
      <4>1. /\ first_call'[p] = first_call[p] /\ timer'[p] = timer[p]
            /\ calls'[p] = calls[p] /\ answer'[p] = answer[p]
        BY <1>1, <1>2, <2>1, <3>4 DEF OpTypes
      <4>2. DeadlineOf(p)'
        BY <1>2, <1>5, <2>1, <4>1, ZenonT(40) DEF DeadlineOf, Over
      <4>3. SuccessOf(p)'
        BY <1>2, <1>5, <2>1, <4>1, Zenon DEF SuccessOf, libpqVars
      <4> QED
        BY <3>1, <3>2, <4>2, <4>3, Zenon
    <3> QED
      BY <3>3, <3>4
  <2> QED
    BY <1>6, <1>7, <2>1, <2>2, <2>3, <2>4, Zenon DEF RequestInv, OpInv
<1> QED
  BY <1>9, <1>10, Zenon DEF OnTimer, q

-----------------------------------------------------------------------------
(* The reactor and the timers.                                             *)

(* A handler e becomes ready, of a wait that is over or of a timer: what   *)
(* is left to show is where the operations of the request are.             *)
LEMMA ReadyStep ==
  ASSUME RequestInv, NEW e \in Entries, ~Has(strand, e.op, e.req), strand' = Append(strand, e),
         UNCHANGED <<first_call, saved, calls, answer, opVars, libpqVars, closed>>,
         timer' \in [Requests -> TimerStates],
         \A p \in Requests : DeadlineOf(p)',
         rwaits' \subseteq rwaits, wwaits' \subseteq wwaits,
         e.op = "write" => e.req \in wwaits,
         e.op = "read" => wwaits = {} \/ outbuf > 0,
         \A p \in Requests : (\A op : Has(strand', op, p) <=> Has(strand, op, p) \/ (e.op = op /\ e.req = p)) => WaitsOf(p)'
  PROVE  RequestInv'
<1>1. /\ OpTypes /\ Serial /\ Unique(strand) /\ LibInv
      /\ \A p \in Requests : ReplyOf(p) /\ SuccessOf(p)
  BY Zenon DEF RequestInv, OpInv
<1>2. /\ strand' \in Seq(Entries) /\ Unique(strand')
      /\ \A op, p : Has(strand', op, p) <=> Has(strand, op, p) \/ (e.op = op /\ e.req = p)
  BY <1>1, AppendHas, Zenon DEF OpTypes
<1>3. OpTypes'
  BY <1>1, <1>2, Zenon DEF OpTypes, opVars
<1>4. Serial'
  BY <1>1, Zenon DEF Serial, opVars
<1>5. LibInv'
  BY <1>1, LibKept, Zenon DEF opVars
<1>6. ASSUME NEW p \in Requests PROVE ReplyOf(p)'
  <2>1. CASE Behind(strand', p, wwaits')
    <3>1. \/ Behind(strand, p, wwaits')
          \/ e.op = "write" /\ e.req = p /\ Behind(strand, p, wwaits' \cup {p})
          \/ e = Entry("read", p, "ok") /\ p \in wwaits'
      BY <1>1, <2>1, AppendBehind, Zenon DEF OpTypes
    <3>2. Behind(strand, p, wwaits') => Behind(strand, p, wwaits)
      BY BehindMore, Zenon
    <3>3. e.op = "write" /\ e.req = p /\ Behind(strand, p, wwaits' \cup {p}) => Behind(strand, p, wwaits)
      <4>1. ASSUME p \in wwaits, Behind(strand, p, wwaits' \cup {p}) PROVE Behind(strand, p, wwaits)
        BY <4>1, BehindMore, Zenon
      <4> QED
        BY <4>1
    <3>4. e = Entry("read", p, "ok") /\ p \in wwaits' => outbuf > 0
      BY DEF Entry
    <3> QED
      BY <1>1, <3>1, <3>2, <3>3, <3>4, Zenon DEF ReplyOf, opVars, libpqVars
  <2>2. CASE ~Behind(strand', p, wwaits')
    BY <1>1, <2>2, Zenon DEF ReplyOf, opVars, libpqVars
  <2> QED
    BY <2>1, <2>2
<1>7. \A p \in Requests : WaitsOf(p)'
  BY <1>2
<1>8. \A p \in Requests : SuccessOf(p)'
  BY <1>1, Zenon DEF SuccessOf, opVars, libpqVars
<1> QED
  BY <1>2, <1>3, <1>4, <1>5, <1>6, <1>7, <1>8, Zenon DEF RequestInv, OpInv

(* The wait of the send operation is over.                                 *)
LEMMA WriteReadyStep ==
  ASSUME RequestInv, NEW r \in Requests, WriteReady(r)
  PROVE  RequestInv'
<1> DEFINE e == Entry("write", r, "ok")
<1>1. OpTypes /\ \A p \in Requests : DeadlineOf(p) /\ WaitsOf(p)
  BY Zenon DEF RequestInv, OpInv
<1>2. e \in Entries /\ e.op = "write" /\ e.req = r
  BY Zenon DEF Entry, Entries
<1> HIDE DEF e
<1>3. /\ r \in wwaits /\ wwaits' = wwaits \ {r} /\ rwaits' = rwaits
      /\ strand' = Append(strand, e)
      /\ UNCHANGED <<first_call, saved, calls, answer, opVars, libpqVars, closed>>
      /\ timer' = timer /\ pc' = pc /\ state' = state
  BY DEF WriteReady, e, deadlineVars, opVars
<1>4. ~Has(strand, "write", r)
  BY <1>1, <1>3, ZenonT(40) DEF WaitsOf
<1>5. timer' \in [Requests -> TimerStates] /\ \A p \in Requests : DeadlineOf(p)'
  BY <1>1, <1>3 DEF OpTypes, DeadlineOf, Over
<1>6. ASSUME NEW p \in Requests, \A op : Has(strand', op, p) <=> Has(strand, op, p) \/ (e.op = op /\ e.req = p)
      PROVE  WaitsOf(p)'
  <2>1. WaitsOf(p)
    BY <1>1, Zenon
  <2>2. /\ Has(strand', "read", p) <=> Has(strand, "read", p)
        /\ Has(strand', "timer", p) <=> Has(strand, "timer", p)
        /\ Has(strand', "write", p) <=> Has(strand, "write", p) \/ p = r
    BY <1>2, <1>6
  <2>3. CASE p = r
    BY <1>3, <2>1, <2>2, <2>3, Zenon DEF WaitsOf
  <2>4. CASE p # r
    <3>1. p \in wwaits' <=> p \in wwaits
      BY <1>3, <2>4, Zenon
    <3> QED
      BY <1>3, <2>1, <2>2, <2>4, <3>1, Zenon DEF WaitsOf
  <2> QED
    BY <2>3, <2>4
<1> QED
  BY <1>2, <1>3, <1>4, <1>5, <1>6, ReadyStep, Zenon

(* The wait of the get operation is over; one thread has completed the     *)
(* write before it if the server has the query.                            *)
LEMMA ReadReadyStep ==
  ASSUME RequestInv, ~MultiThread, NEW r \in Requests, ReadReady(r)
  PROVE  RequestInv'
<1> DEFINE e == Entry("read", r, "ok")
<1>1. OpTypes /\ \A p \in Requests : DeadlineOf(p) /\ WaitsOf(p)
  BY Zenon DEF RequestInv, OpInv
<1>2. e \in Entries /\ e.op = "read" /\ e.req = r
  BY Zenon DEF Entry, Entries
<1> HIDE DEF e
<1>3. /\ r \in rwaits /\ rwaits' = rwaits \ {r} /\ wwaits' = wwaits
      /\ wwaits = {} \/ outbuf > 0
      /\ strand' = Append(strand, e)
      /\ UNCHANGED <<first_call, saved, calls, answer, opVars, libpqVars, closed>>
      /\ timer' = timer /\ pc' = pc /\ state' = state
  BY DEF ReadReady, e, deadlineVars, opVars
<1>4. ~Has(strand, "read", r)
  BY <1>1, <1>3, ZenonT(40) DEF WaitsOf
<1>5. timer' \in [Requests -> TimerStates] /\ \A p \in Requests : DeadlineOf(p)'
  BY <1>1, <1>3 DEF OpTypes, DeadlineOf, Over
<1>6. ASSUME NEW p \in Requests, \A op : Has(strand', op, p) <=> Has(strand, op, p) \/ (e.op = op /\ e.req = p)
      PROVE  WaitsOf(p)'
  <2>1. WaitsOf(p)
    BY <1>1, Zenon
  <2>2. /\ Has(strand', "write", p) <=> Has(strand, "write", p)
        /\ Has(strand', "timer", p) <=> Has(strand, "timer", p)
        /\ Has(strand', "read", p) <=> Has(strand, "read", p) \/ p = r
    BY <1>2, <1>6
  <2>3. CASE p = r
    BY <1>3, <2>1, <2>2, <2>3, Zenon DEF WaitsOf
  <2>4. CASE p # r
    <3>1. p \in rwaits' <=> p \in rwaits
      BY <1>3, <2>4, Zenon
    <3> QED
      BY <1>3, <2>1, <2>2, <2>4, <3>1, Zenon DEF WaitsOf
  <2> QED
    BY <2>3, <2>4
<1> QED
  BY <1>2, <1>3, <1>4, <1>5, <1>6, ReadyStep, Zenon

(* The deadline of a request is reached.                                   *)
LEMMA TimerExpiresStep ==
  ASSUME RequestInv, NEW r \in Requests, TimerExpires(r)
  PROVE  RequestInv'
<1> DEFINE e == Entry("timer", r, "ok")
<1>1. OpTypes /\ \A p \in Requests : DeadlineOf(p) /\ WaitsOf(p)
  BY DEF RequestInv, OpInv
<1>2. e \in Entries /\ e.op = "timer" /\ e.req = r
  BY Zenon DEF Entry, Entries
<1> HIDE DEF e
<1>3. /\ timer[r] = "armed" /\ timer' = [timer EXCEPT ![r] = "queued"]
      /\ rwaits' = rwaits /\ wwaits' = wwaits
      /\ strand' = Append(strand, e)
      /\ UNCHANGED <<first_call, saved, calls, answer, opVars, libpqVars, closed>>
      /\ first_call' = first_call /\ calls' = calls /\ pc' = pc /\ state' = state
  BY DEF TimerExpires, e, opVars, waits
<1>4. ~Has(strand, "timer", r)
  BY <1>1, <1>3, Zenon DEF WaitsOf
<1>5. timer' \in [Requests -> TimerStates]
  BY <1>1, <1>3, Zenon DEF OpTypes, TimerStates
<1>6. \A p \in Requests : timer'[p] = IF p = r THEN "queued" ELSE timer[p]
  BY <1>1, <1>3 DEF OpTypes
<1>7. ASSUME NEW p \in Requests PROVE DeadlineOf(p)'
  <2>1. DeadlineOf(p)
    BY <1>1
  <2> QED
    BY <1>3, <1>6, <2>1, Zenon DEF DeadlineOf, Over
<1>8. ASSUME NEW p \in Requests, \A op : Has(strand', op, p) <=> Has(strand, op, p) \/ (e.op = op /\ e.req = p)
      PROVE  WaitsOf(p)'
  <2>1. WaitsOf(p) /\ timer'[p] = IF p = r THEN "queued" ELSE timer[p]
    BY <1>1, <1>6, Zenon
  <2>2. /\ Has(strand', "read", p) <=> Has(strand, "read", p)
        /\ Has(strand', "write", p) <=> Has(strand, "write", p)
        /\ Has(strand', "timer", p) <=> Has(strand, "timer", p) \/ p = r
    BY <1>2, <1>8
  <2>3. Has(strand', "timer", p) => timer'[p] = "queued"
    BY <2>1, <2>2, Zenon DEF WaitsOf
  <2> QED
    BY <1>3, <2>1, <2>2, <2>3, Zenon DEF WaitsOf
<1> QED
  BY <1>2, <1>3, <1>4, <1>5, <1>7, <1>8, ReadyStep, Zenon

-----------------------------------------------------------------------------
(* The server, the user and cancel().                                      *)

(* What the server does leaves the operations alone, and makes no more of  *)
(* the reply than there was.                                               *)
LEMMA ServerStep ==
  ASSUME RequestInv, UNCHANGED <<deadlineVars, opVars, waits, strand, outbuf, parsed, inflight, closed>>,
         inbox' \in Seq(Items), reply' \in Seq(Items),
         Len(inbox') + Len(reply') <= Len(inbox) + Len(reply),
         inbox' # inbox => outbuf = 0 /\ inflight # 0,
         reply' # <<>> => reply # <<>>,
         broken => broken'
  PROVE  RequestInv'
<1>1. /\ OpTypes /\ Serial /\ Unique(strand) /\ LibTypes /\ Unanswered
      /\ \A p \in Requests : DeadlineOf(p) /\ WaitsOf(p) /\ ReplyOf(p) /\ SuccessOf(p)
  BY Zenon DEF RequestInv, OpInv, LibInv
<1>2. OpTypes' /\ Serial' /\ Unique(strand)'
  BY <1>1, Zenon DEF OpTypes, Serial, deadlineVars, opVars, waits
<1>3. LibInv'
  BY <1>1 DEF LibInv, LibTypes, Unanswered, opVars
<1>4. ASSUME NEW p \in Requests PROVE (DeadlineOf(p) /\ WaitsOf(p) /\ ReplyOf(p) /\ SuccessOf(p))'
  <2>1. DeadlineOf(p)'
    BY <1>1, Zenon DEF DeadlineOf, Over, deadlineVars, opVars
  <2>2. WaitsOf(p)'
    BY <1>1, Zenon DEF WaitsOf, deadlineVars, opVars, waits
  <2>3. ReplyOf(p)'
    <3>1. ASSUME NEW n \in Nat, Len(inbox) + Len(reply) <= n PROVE Len(inbox') + Len(reply') <= n
      <4>1. \A i, j \in Nat : i <= j /\ j <= n => i <= n
        OBVIOUS
      <4>2. Len(inbox) + Len(reply) \in Nat /\ Len(inbox') + Len(reply') \in Nat
        BY <1>1 DEF LibTypes
      <4> QED
        BY <3>1, <4>1, <4>2, Zenon
    <3>2. ReplyOf(p) /\ pc' = pc /\ state' = state /\ strand' = strand /\ wwaits' = wwaits
          /\ parsed' = parsed /\ (closed \/ outbuf > 0 => closed' \/ outbuf' > 0)
      BY <1>1, Zenon DEF opVars, waits
    <3>3. /\ Len(inbox) + Len(reply) <= 1 => Len(inbox') + Len(reply') <= 1
          /\ Len(inbox) + Len(reply) <= 2 => Len(inbox') + Len(reply') <= 2
      BY <3>1
    <3> HIDE <3>1
    <3>4. CASE pc[p] = "drain"
      BY <3>2, <3>3, <3>4, Zenon DEF ReplyOf
    <3>5. CASE pc[p] # "drain"
      BY <3>2, <3>3, <3>5, ZenonT(40) DEF ReplyOf
    <3> QED
      BY <3>4, <3>5, Zenon
  <2>4. SuccessOf(p)'
    BY <1>1, Zenon DEF SuccessOf, deadlineVars, opVars
  <2> QED
    BY <2>1, <2>2, <2>3, <2>4
<1> QED
  BY <1>2, <1>3, <1>4 DEF RequestInv, OpInv

(* The server sends a message of the reply.                                *)
LEMMA ServerRepliesStep ==
  ASSUME RequestInv, ServerReplies
  PROVE  RequestInv'
<1>1. inbox \in Seq(Items) /\ reply \in Seq(Items) /\ Unanswered
  BY Zenon DEF RequestInv, LibInv, LibTypes
<1>2. /\ outbuf = 0 /\ reply # <<>> /\ inbox' = Append(inbox, Head(reply)) /\ reply' = Tail(reply)
      /\ UNCHANGED <<deadlineVars, opVars, waits, strand, outbuf, parsed, inflight, closed>> /\ broken' = broken
  BY Zenon DEF ServerReplies
<1>3. Head(reply) \in Items /\ Tail(reply) \in Seq(Items) /\ Len(Tail(reply)) = Len(reply) - 1
  BY <1>1, <1>2
<1>4. Append(inbox, Head(reply)) \in Seq(Items) /\ Len(Append(inbox, Head(reply))) = Len(inbox) + 1
  BY <1>1, <1>3
<1>5. Len(inbox') + Len(reply') <= Len(inbox) + Len(reply)
  <2>1. Len(inbox) \in Nat /\ Len(reply) \in Nat
    BY <1>1
  <2>2. \A i, j \in Nat : (i + 1) + (j - 1) <= i + j
    OBVIOUS
  <2> QED
    BY <1>2, <1>3, <1>4, <2>1, <2>2, Zenon
<1>6. inflight # 0
  BY <1>1, <1>2, Zenon DEF Unanswered
<1> QED
  BY <1>2, <1>3, <1>4, <1>5, <1>6, ServerStep, Zenon

(* The server sends what completes no message, or goes away.               *)
LEMMA ServerOtherStep ==
  ASSUME RequestInv, ServerTrickles \/ ServerCloses
  PROVE  RequestInv'
<1>1. inbox \in Seq(Items) /\ reply \in Seq(Items) /\ Len(inbox) \in Nat /\ Len(reply) \in Nat
  BY DEF RequestInv, LibInv, LibTypes
<1>2. CASE ServerTrickles
  BY <1>1, <1>2, ServerStep DEF ServerTrickles
<1>3. CASE ServerCloses
  <2>1. /\ reply' = <<>> /\ inbox' = inbox /\ broken' = TRUE
        /\ UNCHANGED <<deadlineVars, opVars, waits, strand, outbuf, parsed, inflight, closed>>
    BY <1>3 DEF ServerCloses
  <2>2. reply' \in Seq(Items) /\ Len(reply') = 0
    BY <2>1
  <2>3. Len(inbox') + Len(reply') <= Len(inbox) + Len(reply)
    BY <1>1, <2>1, <2>2
  <2> QED
    BY <1>1, <2>1, <2>2, <2>3, ServerStep, Zenon
<1> QED
  BY <1>2, <1>3, Zenon

(* The signal of cancel() turns the reply of what is executed into an      *)
(* error.                                                                  *)
LEMMA SignalStep ==
  ASSUME RequestInv, SignalArrives
  PROVE  RequestInv'
<1>1. inbox \in Seq(Items) /\ reply \in Seq(Items) /\ Len(inbox) \in Nat /\ Len(reply) \in Nat
  BY DEF RequestInv, LibInv, LibTypes
<1>2. /\ UNCHANGED <<deadlineVars, opVars, waits, strand, outbuf, parsed, inflight, closed>>
      /\ broken' = broken /\ inbox' = inbox
      /\ reply' = IF outbuf = 0 /\ Len(reply) = 2 THEN [reply EXCEPT ![1].kind = "error"] ELSE reply
  BY DEF SignalArrives
<1>3. CASE Len(reply) = 2 /\ reply' = [reply EXCEPT ![1].kind = "error"]
  <2> DEFINE i == [reply[1] EXCEPT !.kind = "error"]
  <2>1. reply[1] \in Items /\ 1 \in 1..Len(reply)
    <3>1. 1 \in 1..2 /\ Len(reply) = 2
      BY <1>3
    <3>2. \A t \in Seq(Items) : \A n \in 1..Len(t) : t[n] \in Items
      OBVIOUS
    <3>3. 1 \in 1..Len(reply)
      BY <3>1
    <3> QED
      BY <1>1, <3>2, <3>3, Zenon
  <2>2. i \in Items
    BY <2>1 DEF Items
  <2>3. reply' = [reply EXCEPT ![1] = i]
    BY <1>3
  <2> HIDE DEF i
  <2>4. reply' \in Seq(Items) /\ Len(reply') = Len(reply)
    BY <1>1, <2>1, <2>2, <2>3
  <2>5. reply # <<>>
    BY <1>3
  <2>6. Len(inbox') + Len(reply') <= Len(inbox) + Len(reply)
    BY <1>1, <1>2, <2>4
  <2> QED
    BY <1>1, <1>2, <2>4, <2>5, <2>6, ServerStep, Zenon
<1>4. CASE reply' = reply
  BY <1>1, <1>2, <1>4, ServerStep
<1> QED
  BY <1>2, <1>3, <1>4, Zenon

(* A user closes the connection: the waits are aborted, and with PQfinish  *)
(* all that was received is gone.                                          *)
LEMMA UserClosesStep ==
  ASSUME RequestInv, UserCloses
  PROVE  RequestInv'
<1>1. /\ OpTypes /\ Serial /\ LibTypes
      /\ \A p \in Requests : DeadlineOf(p) /\ WaitsOf(p) /\ ReplyOf(p) /\ SuccessOf(p)
  BY Zenon DEF RequestInv, OpInv, LibInv
<1>2. /\ closed' = TRUE /\ CancelWaits(strand)
      /\ outbuf' = 0 /\ parsed' = <<>> /\ inbox' = <<>> /\ reply' = <<>> /\ inflight' = 0
      /\ UNCHANGED <<deadlineVars, opVars, broken>> /\ UNCHANGED <<state, pc>>
  BY DEF UserCloses, opVars
<1>3. /\ strand' \in Seq(Entries) /\ Unique(strand') /\ rwaits' = {} /\ wwaits' = {}
  BY <1>2, RestAll, CancelFacts, Zenon
<1>4. OpTypes' /\ Serial'
  BY <1>1, <1>2, <1>3, Zenon DEF OpTypes, Serial, deadlineVars
<1>5. LibInv'
  <2>1. <<>> \in Seq(Items)
    OBVIOUS
  <2> QED
    BY <1>1, <1>2, <2>1, Zenon DEF LibInv, LibTypes, Unanswered, opVars
<1>6. ASSUME NEW p \in Requests PROVE (DeadlineOf(p) /\ WaitsOf(p) /\ ReplyOf(p) /\ SuccessOf(p))'
  <2>1. DeadlineOf(p)'
    BY <1>1, <1>2, Zenon DEF DeadlineOf, Over, deadlineVars
  <2>2. Has(strand, "timer", p) => timer'[p] = "queued"
    BY <1>1, <1>2, Zenon DEF WaitsOf, deadlineVars
  <2>3. WaitsOf(p)'
    BY <1>2, <2>2, RestAll, CancelKeeps, Zenon
  <2>4. ReplyOf(p)'
    <3>1. Len(<<>>) = 0
      BY Zenon
    <3>2. Len(inbox') + Len(reply') <= 1 /\ Len(inbox') + Len(reply') <= 2
      BY <1>2, <3>1
    <3> QED
      BY <1>2, <3>2, Zenon DEF ReplyOf
  <2>5. SuccessOf(p)'
    <3>1. p # 0
      BY RequestAssumption, Zenon DEF Requests
    <3> QED
      BY <1>1, <1>2, <3>1, Zenon DEF SuccessOf, deadlineVars, opVars
  <2> QED
    BY <2>1, <2>3, <2>4, <2>5, Zenon
<1> QED
  BY <1>3, <1>4, <1>5, <1>6, Zenon DEF RequestInv, OpInv

-----------------------------------------------------------------------------
(* Every step of requests and of cancel() preserves the invariant, if one  *)
(* thread runs the io_context.                                             *)
LEMMA Inductive ==
  ASSUME ~MultiThread, RequestInv, [RequestCancelNext]_allVars
  PROVE  RequestInv'
<1>1. ASSUME UNCHANGED vars PROVE RequestInv'
  <2>1. OpInv'
    <3>1. /\ UNCHANGED <<first_call, timer, saved, calls, answer, state, pc, result, rwaits, wwaits, strand>>
          /\ UNCHANGED <<outbuf, parsed, inbox, reply, inflight, broken, closed>>
      BY <1>1 DEF vars, deadlineVars, opVars, waits, libpqVars
    <3>2. OpTypes' /\ Serial' /\ Unique(strand)'
      BY <3>1, Zenon DEF RequestInv, OpInv, OpTypes, Serial
    <3>3. ASSUME NEW p \in Requests
          PROVE  (DeadlineOf(p) /\ WaitsOf(p) /\ ReplyOf(p) /\ SuccessOf(p))'
      <4>1. DeadlineOf(p) /\ WaitsOf(p) /\ ReplyOf(p) /\ SuccessOf(p)
        BY DEF RequestInv, OpInv
      <4>2. DeadlineOf(p)' /\ SuccessOf(p)'
        BY <3>1, <4>1, Zenon DEF DeadlineOf, SuccessOf, Over
      <4>3. WaitsOf(p)' /\ ReplyOf(p)'
        BY <3>1, <4>1, Zenon DEF WaitsOf, ReplyOf
      <4> QED
        BY <4>2, <4>3, Zenon
    <3> QED
      BY <3>2, <3>3, Zenon DEF OpInv
  <2>2. LibInv'
    BY <1>1, LibKept, ZenonT(40) DEF RequestInv, vars, opVars
  <2> QED
    BY <2>1, <2>2, Zenon DEF RequestInv
<1>2. CASE RunHandler
  <2>1. /\ strand # <<>> /\ StrandFree /\ closed' = closed
        /\ \/ Head(strand).op = "write" /\ OnWrite(Head(strand).req, Head(strand).ec, Tail(strand))
           \/ Head(strand).op = "read" /\ OnRead(Head(strand).req, Head(strand).ec, Tail(strand))
           \/ Head(strand).op = "timer" /\ OnTimer(Head(strand).req, Tail(strand))
    BY <1>2, Zenon DEF RunHandler
  <2> QED
    BY <2>1, WriteStep, ReadStep, TimerStep, Zenon
<1>3. CASE \E r \in Requests : Make(r) \/ Send(r) \/ GetResult(r)
  BY <1>3, MakeStep, SendStep, GetResultStep, Zenon
<1>4. CASE \E r \in Requests : WriteReady(r) \/ ReadReady(r) \/ TimerExpires(r)
  BY <1>4, WriteReadyStep, ReadReadyStep, TimerExpiresStep, Zenon
<1>5. CASE ServerReplies \/ ServerTrickles \/ ServerCloses \/ UserCloses
  BY <1>5, ServerRepliesStep, ServerOtherStep, UserClosesStep, Zenon
<1>6. CASE SignalArrives
  BY <1>6, SignalStep
<1> QED
  BY <1>1, <1>2, <1>3, <1>4, <1>5, <1>6, Zenon DEF RequestCancelNext, Next, allVars

(* If one thread runs the io_context, RequestInv holds in every state.     *)
LEMMA AlwaysRequestInv ==
  ASSUME ~MultiThread
  PROVE  RequestCancelSpec => []RequestInv
<1>1. RequestCancelInit => RequestInv
  BY InitInv DEF RequestCancelInit
<1>2. RequestInv /\ [RequestCancelNext]_allVars => RequestInv'
  BY Inductive
<1> QED
  BY <1>1, <1>2, PTL DEF RequestCancelSpec

(* The handler of a request is called once, and then nothing of the        *)
(* request is left on the connection, neither a wait nor a timer, for any  *)
(* number of requests and whatever the server, the user and cancel() do    *)
(* (done(), io_deadline_handler).                                          *)
THEOREM Quiet ==
  ASSUME ~MultiThread
  PROVE  RequestCancelSpec => []QuietAfterAnswer
<1>1. RequestInv => QuietAfterAnswer
  <2> SUFFICES ASSUME RequestInv, NEW r \in Requests, calls[r] > 0
               PROVE  calls[r] = 1 /\ r \notin rwaits \cup wwaits /\ timer[r] \in {"off", "ran"}
    BY DEF QuietAfterAnswer
  <2>1. DeadlineOf(r) /\ WaitsOf(r)
    BY Zenon DEF RequestInv, OpInv
  <2>2. Over(r) /\ calls[r] = 1 /\ timer[r] \in {"off", "ran"}
    BY <2>1 DEF DeadlineOf
  <2> QED
    BY <2>1, <2>2, Zenon DEF WaitsOf, Over
<1> QED
  BY <1>1, AlwaysRequestInv, PTL

(* A request succeeds only with a result, and when libpq has seen the      *)
(* whole reply, unless the connection was lost after the result, with one  *)
(* thread and for any number of requests (the second loop of               *)
(* async_get_result_op).                                                   *)
THEOREM SuccessIsComplete ==
  ASSUME ~MultiThread
  PROVE  RequestCancelSpec => []SuccessMeansDrained
<1>1. RequestInv => SuccessMeansDrained
  BY Zenon DEF RequestInv, OpInv, SuccessOf, SuccessMeansDrained
<1> QED
  BY <1>1, AlwaysRequestInv, PTL
=============================================================================
