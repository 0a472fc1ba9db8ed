--------------------------- MODULE AsyncPoolProofs ---------------------------
(***************************************************************************)
(* The safety of the asynchronous pool for every capacity, queue length,   *)
(* set of callers, timeout and clock: the type invariant, the conservation *)
(* of requests and of cells, what a user may be handed, and that the pool  *)
(* implements ResourcePool.                                                *)
(*                                                                         *)
(* AnsweredOnce and CellOwnedOnce speak of tagged tuples, which keeps them *)
(* short; the induction is carried out on TicketInv and OwnInv, which say  *)
(* the same of each container separately.                                  *)
(***************************************************************************)
EXTENDS AsyncPool, StorageProofs

CellsOf(S) == {x.cell : x \in S}
OneCellEach(S) == \A x, y \in S : x.cell = y.cell => x = y

Granted == {a \in posted : a.ec = "ok"}
InHand == {holder[r] : r \in Requests} \ {NoCell}

\* Each unanswered request has its handler in one place.
TicketInv ==
  /\ OneEach(pushing) /\ OneEach(waiting) /\ OneEach(handing) /\ OneEach(posted)
  /\ ReqsOf(pushing) \cap ReqsOf(waiting) = {}
  /\ ReqsOf(pushing) \cap ReqsOf(handing) = {}
  /\ ReqsOf(pushing) \cap ReqsOf(posted) = {}
  /\ ReqsOf(waiting) \cap ReqsOf(handing) = {}
  /\ ReqsOf(waiting) \cap ReqsOf(posted) = {}
  /\ ReqsOf(handing) \cap ReqsOf(posted) = {}
  /\ pending = ReqsOf(pushing) \cup ReqsOf(waiting) \cup ReqsOf(handing) \cup ReqsOf(posted)

\* Each used cell has one owner.
OwnInv ==
  /\ OneCellEach(handing) /\ OneCellEach(Granted)
  /\ \A r, q \in Requests : holder[r] = holder[q] /\ holder[r] # NoCell => r = q
  /\ CellsOf(handing) \cap CellsOf(Granted) = {}
  /\ CellsOf(handing) \cap InHand = {}
  /\ CellsOf(Granted) \cap InHand = {}
  /\ used = CellsOf(handing) \cup CellsOf(Granted) \cup InHand

\* A caller that waits for its handler has no handle that it would overwrite.
EmptyHanded == \A r \in pending : holder[r] = NoCell

Inv ==
  /\ TypeOK
  /\ StorageInv
  /\ TicketInv
  /\ OwnInv
  /\ EmptyHanded

-----------------------------------------------------------------------------
(* The answers made of a set of requests, each with the error e.           *)
LEMMA ReqsFail ==
  ASSUME NEW G, NEW e, OneEach(G)
  PROVE  /\ OneEach({Fail(x.req, e) : x \in G})
         /\ ReqsOf({Fail(x.req, e) : x \in G}) = ReqsOf(G)
<1>1. \A x : Fail(x.req, e).req = x.req
  BY DEF Fail
<1>. QED BY <1>1 DEF OneEach, ReqsOf

(* A cell joins a container of owners in which it is not yet.              *)
LEMMA CellsAdd ==
  ASSUME NEW S, NEW x, OneCellEach(S), x.cell \notin CellsOf(S)
  PROVE  OneCellEach(S \cup {x}) /\ CellsOf(S \cup {x}) = CellsOf(S) \cup {x.cell}
BY DEF OneCellEach, CellsOf

(* A cell leaves a container of owners.                                    *)
LEMMA CellsRemove ==
  ASSUME NEW S, NEW x \in S, OneCellEach(S)
  PROVE  OneCellEach(S \ {x}) /\ CellsOf(S \ {x}) = CellsOf(S) \ {x.cell}
BY DEF OneCellEach, CellsOf

(* An error answer carries no cell.                                        *)
LEMMA FailNotGranted ==
  ASSUME NEW G, NEW e \in Errors, posted' = posted \cup {Fail(x.req, e) : x \in G}
  PROVE  Granted' = Granted
BY DEF Granted, Fail, Errors

(* What the containers say in one word is what AnsweredOnce says.          *)
LEMMA TicketInvImplies == TicketInv => AnsweredOnce
<1>. SUFFICES ASSUME TicketInv PROVE AnsweredOnce
  OBVIOUS
<1>1. ASSUME NEW t \in Tickets, NEW u \in Tickets, t[2] = u[2]
      PROVE  t = u
  BY <1>1, SMTT(30) DEF TicketInv, Tickets, OneEach, ReqsOf
<1>2. ASSUME NEW t \in Tickets PROVE t[2] \in pending
  BY DEF TicketInv, Tickets, ReqsOf
<1>3. ASSUME NEW r \in pending PROVE \E t \in Tickets : t[2] = r
  <2>1. CASE r \in ReqsOf(pushing)
    <3>1. PICK p \in pushing : p.req = r
      BY <2>1 DEF ReqsOf
    <3>2. <<"pushing", p.req, p>> \in Tickets
      BY DEF Tickets
    <3>. QED BY <3>1, <3>2
  <2>2. CASE r \in ReqsOf(waiting)
    <3>1. PICK e \in waiting : e.req = r
      BY <2>2 DEF ReqsOf
    <3>2. <<"waiting", e.req, e>> \in Tickets
      BY DEF Tickets
    <3>. QED BY <3>1, <3>2
  <2>3. CASE r \in ReqsOf(handing)
    <3>1. PICK h \in handing : h.req = r
      BY <2>3 DEF ReqsOf
    <3>2. <<"handing", h.req, h>> \in Tickets
      BY DEF Tickets
    <3>. QED BY <3>1, <3>2
  <2>4. CASE r \in ReqsOf(posted)
    <3>1. PICK a \in posted : a.req = r
      BY <2>4 DEF ReqsOf
    <3>2. <<"posted", a.req, a>> \in Tickets
      BY DEF Tickets
    <3>. QED BY <3>1, <3>2
  <2>. QED BY <2>1, <2>2, <2>3, <2>4 DEF TicketInv
<1>. QED BY <1>1, <1>2, <1>3 DEF AnsweredOnce

(* And likewise for the owners of the cells.                               *)
LEMMA OwnInvImplies == OwnInv => CellOwnedOnce
<1>. SUFFICES ASSUME OwnInv PROVE CellOwnedOnce
  OBVIOUS
<1>1. ASSUME NEW x \in Claims, NEW y \in Claims, x[2] = y[2]
      PROVE  x = y
  BY <1>1 DEF OwnInv, Claims, OneCellEach, CellsOf, Granted, InHand
<1>2. ASSUME NEW x \in Claims PROVE x[2] \in used
  BY DEF OwnInv, Claims, CellsOf, Granted, InHand
<1>3. ASSUME NEW c \in used PROVE \E x \in Claims : x[2] = c
  <2>1. CASE c \in CellsOf(handing)
    <3>1. PICK h \in handing : h.cell = c
      BY <2>1 DEF CellsOf
    <3>2. <<"handing", h.cell, h>> \in Claims
      BY DEF Claims
    <3>. QED BY <3>1, <3>2
  <2>2. CASE c \in CellsOf(Granted)
    <3>1. PICK a \in Granted : a.cell = c
      BY <2>2 DEF CellsOf
    <3>2. <<"posted", a.cell, a>> \in Claims
      BY DEF Claims, Granted
    <3>. QED BY <3>1, <3>2, Zenon
  <2>3. CASE c \in InHand
    <3>1. PICK r \in Requests : holder[r] = c /\ holder[r] # NoCell
      BY <2>3, Zenon DEF InHand
    <3>2. <<"holder", holder[r], r>> \in Claims
      BY <3>1, Zenon DEF Claims
    <3>. QED BY <3>1, <3>2, Zenon
  <2>. QED BY <2>1, <2>2, <2>3 DEF OwnInv
<1>. QED BY <1>1, <1>2, <1>3 DEF CellOwnedOnce

-----------------------------------------------------------------------------
(* The invariant holds in the initial states of every constructor.         *)
LEMMA InitInv == Init => Inv
<1>. SUFFICES ASSUME Init PROVE Inv
  OBVIOUS
<1>1. StorageInv
  BY StorageInitInv DEF Init
<1>2. TypeOK
  BY <1>1, Zenon DEF Init, TypeOK, StorageInv
<1>3. TicketInv
  BY DEF Init, TicketInv, OneEach, ReqsOf
<1>4. OwnInv
  BY DEF Init, OwnInv, OneCellEach, CellsOf, Granted, InHand, StorageInit
<1>5. EmptyHanded
  BY DEF Init, EmptyHanded
<1>. QED BY <1>1, <1>2, <1>3, <1>4, <1>5, Zenon DEF Inv

(* get() under the pool mutex: the request is new, so its handler is in no *)
(* container; the cell it may lease is new, so it has no owner.            *)
LEMMA GetInv ==
  ASSUME Inv, NEW r \in Requests, NEW w \in WaitDurations, Get(r, w)
  PROVE  Inv'
<1>. USE DEF Inv
<1>0. /\ r \notin pending
      /\ holder[r] = NoCell
      /\ pending' = pending \cup {r}
      /\ UNCHANGED <<holder, waiting, ahead, handing, disabled, disabling>>
  BY DEF Get
<1>1. /\ r \notin ReqsOf(pushing) /\ r \notin ReqsOf(waiting)
      /\ r \notin ReqsOf(handing) /\ r \notin ReqsOf(posted)
  BY <1>0 DEF TicketInv
<1>2. EmptyHanded'
  BY <1>0 DEF EmptyHanded
<1>3. ASSUME NEW e \in Errors, posted' = posted \cup {Fail(r, e)}, UNCHANGED <<storageVars, pushing>>
      PROVE  Inv'
  <2>1. StorageInv' /\ used' = used
    BY <1>3, StorageUnchangedInv, Zenon
  <2>2. Fail(r, e).req = r /\ Fail(r, e) \in Answers /\ Fail(r, e).ec # "ok"
    BY DEF Fail, Answers, Errors
  <2>3. TypeOK'
    BY <1>0, <1>3, <2>1, <2>2, ZenonT(40) DEF TypeOK, StorageInv
  <2>4. OneEach(posted') /\ ReqsOf(posted') = ReqsOf(posted) \cup {r}
    BY <1>1, <1>3, <2>2, ReqsAdd, Zenon DEF TicketInv
  <2>5. TicketInv'
    BY <1>0, <1>1, <1>3, <2>4, Zenon DEF TicketInv
  <2>6. Granted' = Granted /\ InHand' = InHand
    BY <1>0, <1>3, <2>2, Zenon DEF Granted, InHand
  <2>7. OwnInv'
    BY <1>0, <2>1, <2>6, Zenon DEF OwnInv
  <2>. QED BY <1>2, <2>1, <2>3, <2>5, <2>7, Zenon
<1>4. CASE GetDisabled(r)
  BY <1>3, <1>4, Zenon DEF GetDisabled, Errors
<1>5. CASE GetNoWait(r, w)
  BY <1>3, <1>5, Zenon DEF GetNoWait, Errors
<1>6. CASE GetCell(r)
  <2>1. PICK c \in Cells : Lease(c) /\ posted' = posted \cup {Ok(r, c)}
    BY <1>6 DEF GetCell
  <2>2. StorageInv' /\ used' = used \cup {c} /\ c \notin used
    BY <2>1, LeaseInv, Zenon
  <2>3. pushing' = pushing
    BY <1>6, Zenon DEF GetCell
  <2>4. /\ Ok(r, c).req = r /\ Ok(r, c).cell = c /\ Ok(r, c).ec = "ok"
        /\ Ok(r, c) \in Answers
    BY DEF Ok, Answers
  <2>5. TypeOK'
    BY <1>0, <2>1, <2>2, <2>3, <2>4, Zenon DEF TypeOK, StorageInv
  <2>6. OneEach(posted') /\ ReqsOf(posted') = ReqsOf(posted) \cup {r}
    BY <1>1, <2>1, <2>4, ReqsAdd, Zenon DEF TicketInv
  <2>7. TicketInv'
    BY <1>0, <1>1, <2>3, <2>6, Zenon DEF TicketInv
  <2>8. Granted' = Granted \cup {Ok(r, c)} /\ InHand' = InHand
    BY <1>0, <2>1, <2>4, Zenon DEF Granted, InHand
  <2>9. OneCellEach(Granted') /\ CellsOf(Granted') = CellsOf(Granted) \cup {c}
    BY <2>2, <2>4, <2>8, CellsAdd, Zenon DEF OwnInv
  <2>10. OwnInv'
    BY <1>0, <2>2, <2>8, <2>9, Zenon DEF OwnInv
  <2>. QED BY <1>2, <2>2, <2>5, <2>7, <2>10, Zenon
<1>7. CASE GetWait(r, w)
  <2>1. StorageInv' /\ used' = used
    BY <1>7, StorageUnchangedInv, Zenon DEF GetWait
  <2>. DEFINE p == [req |-> r, wait |-> w]
  <2>2. p.req = r /\ p \in Pushes /\ pushing' = pushing \cup {p} /\ posted' = posted
    BY <1>7, Zenon DEF GetWait, Pushes
  <2>. HIDE DEF p
  <2>3. TypeOK'
    BY <1>0, <2>1, <2>2, Zenon DEF TypeOK, StorageInv
  <2>4. OneEach(pushing') /\ ReqsOf(pushing') = ReqsOf(pushing) \cup {r}
    BY <1>1, <2>2, ReqsAdd, Zenon DEF TicketInv
  <2>5. TicketInv'
    BY <1>0, <1>1, <2>2, <2>4, Zenon DEF TicketInv
  <2>6. OwnInv'
    BY <1>0, <2>1, <2>2 DEF OwnInv, Granted, InHand
  <2>. QED BY <1>2, <2>1, <2>3, <2>5, <2>6, Zenon
<1>. QED BY <1>4, <1>5, <1>6, <1>7, Zenon DEF Get

(* queue::push, or the answer that the queue is full.                      *)
LEMMA PushInv ==
  ASSUME Inv, NEW p \in pushing, Push(p)
  PROVE  Inv'
<1>. USE DEF Inv
<1>0. /\ pushing' = pushing \ {p}
      /\ UNCHANGED <<storageVars, pending, holder, handing, disabled, disabling>>
  BY DEF Push
<1>1. StorageInv' /\ used' = used /\ EmptyHanded'
  BY <1>0, StorageUnchangedInv, Zenon DEF EmptyHanded
<1>2. p.req \in Requests /\ p.wait \in Nat
  BY AsyncPoolAssumption, ZenonT(40) DEF TypeOK, Pushes
<1>3. OneEach(pushing') /\ ReqsOf(pushing') = ReqsOf(pushing) \ {p.req}
  BY <1>0, ReqsRemoveOne, Zenon DEF TicketInv
<1>4. p.req \in ReqsOf(pushing)
  BY DEF ReqsOf
<1>5. CASE PushEnqueue(p)
  <2>. DEFINE e == [req |-> p.req, expires |-> Add(now, p.wait)]
  <2>1. e.req = p.req /\ e \in Entries /\ waiting' = waiting \cup {e} /\ posted' = posted
    BY <1>2, <1>5, AddType, Zenon DEF PushEnqueue, Entries, TypeOK, StorageTypeOK
  <2>2. ahead' \in SUBSET (Requests \X Requests)
    BY <1>2, <1>5 DEF PushEnqueue, TypeOK, Entries
  <2>. HIDE DEF e
  <2>3. TypeOK'
    BY <1>0, <1>1, <2>1, <2>2, Zenon DEF TypeOK, StorageInv
  <2>4. OneEach(waiting') /\ ReqsOf(waiting') = ReqsOf(waiting) \cup {p.req}
    BY <1>4, <2>1, ReqsAdd, ZenonT(40) DEF TicketInv
  <2>5. TicketInv'
    BY <1>0, <1>3, <1>4, <2>1, <2>4, ZenonT(40) DEF TicketInv
  <2>6. OwnInv'
    BY <1>0, <1>1, <2>1, Zenon DEF OwnInv, Granted, InHand
  <2>. QED BY <1>1, <2>3, <2>5, <2>6, Zenon
<1>6. CASE PushOverflow(p)
  <2>1. /\ posted' = posted \cup {Fail(p.req, "overflow")}
        /\ UNCHANGED <<waiting, ahead>>
    BY <1>6 DEF PushOverflow
  <2>2. /\ Fail(p.req, "overflow").req = p.req
        /\ Fail(p.req, "overflow") \in Answers
        /\ Fail(p.req, "overflow").ec # "ok"
    BY <1>2, Zenon DEF Fail, Answers, Errors
  <2>3. TypeOK'
    BY <1>0, <1>1, <2>1, <2>2, Zenon DEF TypeOK, StorageInv
  <2>4. OneEach(posted') /\ ReqsOf(posted') = ReqsOf(posted) \cup {p.req}
    BY <1>4, <2>1, <2>2, ReqsAdd, ZenonT(40) DEF TicketInv
  <2>5. TicketInv'
    BY <1>0, <1>3, <1>4, <2>1, <2>4, ZenonT(40) DEF TicketInv
  <2>6. OwnInv'
    BY <1>0, <1>1, <2>1, <2>2, Zenon DEF OwnInv, Granted, InHand
  <2>. QED BY <1>1, <2>3, <2>5, <2>6
<1>. QED BY <1>5, <1>6, Zenon DEF Push

(* queue::cancel and the drain of disable() move the handlers of a set of  *)
(* queued requests to their executors, each with the same error.           *)
LEMMA FailWaitingInv ==
  ASSUME Inv, NEW G \in SUBSET waiting, NEW e \in Errors, RemoveFromQueue(G),
         posted' = posted \cup {Fail(x.req, e) : x \in G},
         UNCHANGED <<storageVars, pending, holder, pushing, handing, disabled, disabling>>
  PROVE  Inv'
<1>. USE DEF Inv
<1>1. StorageInv' /\ used' = used
  BY StorageUnchangedInv, Zenon
<1>2. waiting' = waiting \ G /\ ahead' \subseteq ahead
  BY Zenon DEF RemoveFromQueue
<1>3. TypeOK'
  <2>1. \A x \in G : Fail(x.req, e) \in Answers
    BY DEF TypeOK, Entries, Fail, Answers
  <2>2. posted' \subseteq Answers
    BY <2>1 DEF TypeOK
  <2>. QED BY <1>1, <1>2, <2>2, Zenon DEF TypeOK, StorageInv
<1>4. OneEach(waiting') /\ ReqsOf(waiting') = ReqsOf(waiting) \ ReqsOf(G)
  BY <1>2, ReqsRemove, Zenon DEF TicketInv
<1>5. OneEach(G) /\ ReqsOf(G) \subseteq ReqsOf(waiting)
  BY DEF TicketInv, OneEach, ReqsOf
<1>6. OneEach(posted') /\ ReqsOf(posted') = ReqsOf(posted) \cup ReqsOf(G)
  <2>. DEFINE M == {Fail(x.req, e) : x \in G}
  <2>1. OneEach(M) /\ ReqsOf(M) = ReqsOf(G)
    BY <1>5, ReqsFail, Zenon
  <2>2. OneEach(posted) /\ ReqsOf(posted) \cap ReqsOf(G) = {}
    BY <1>5, Zenon DEF TicketInv
  <2>3. posted' = posted \cup M
    OBVIOUS
  <2>. HIDE DEF M
  <2>4. OneEach(posted \cup M) /\ ReqsOf(posted \cup M) = ReqsOf(posted) \cup ReqsOf(M)
    BY <2>1, <2>2, ReqsUnion, Zenon
  <2>. QED BY <2>1, <2>3, <2>4, Zenon
<1>7. TicketInv'
  BY <1>4, <1>5, <1>6, Zenon DEF TicketInv
<1>8. Granted' = Granted /\ InHand' = InHand
  BY FailNotGranted, Zenon DEF InHand
<1>9. OwnInv'
  BY <1>1, <1>8, Zenon DEF OwnInv
<1>10. EmptyHanded'
  BY DEF EmptyHanded
<1>. QED BY <1>1, <1>3, <1>7, <1>9, <1>10, Zenon

(* recycle() and waste() under the pool mutex: the cell goes back to the   *)
(* storage, or to the first waiter without leaving used_.                  *)
LEMMA GiveBack ==
  ASSUME Inv, NEW c \in used, Recycle(c) \/ Waste(c)
  PROVE  /\ StorageInv'
         /\ \/ UNCHANGED <<waiting, ahead, handing>> /\ used' = used \ {c}
            \/ \E x \in waiting, k \in BOOLEAN :
                 /\ RemoveFromQueue({x})
                 /\ handing' = handing \cup {[req |-> x.req, cell |-> c, keep |-> k]}
                 /\ used' = used
<1>. USE DEF Inv
<1>1. ASSUME NEW k \in BOOLEAN, HandOver(c, k)
      PROVE  /\ StorageInv'
             /\ \E x \in waiting, kk \in BOOLEAN :
                  /\ RemoveFromQueue({x})
                  /\ handing' = handing \cup {[req |-> x.req, cell |-> c, keep |-> kk]}
                  /\ used' = used
  BY <1>1, StorageUnchangedInv, Zenon DEF HandOver
<1>2. IsValid(c) \in BOOLEAN
  BY DEF IsValid
<1>3. CASE HandOver(c, IsValid(c)) \/ HandOver(c, FALSE)
  BY <1>1, <1>2, <1>3, Zenon
<1>4. CASE StorageRecycle(c) /\ UNCHANGED <<waiting, ahead, handing>>
  BY <1>4, StorageRecycleInv, Zenon
<1>5. CASE StorageWaste(c) /\ UNCHANGED <<waiting, ahead, handing>>
  BY <1>5, StorageWasteInv, Zenon
<1>. QED BY <1>3, <1>4, <1>5, Zenon DEF Recycle, Waste

(* Whatever a handle does with its cell c, it is enough that c leaves the  *)
(* hands it was in, and that nobody who waits has got a handle.            *)
LEMMA GiveBackInv ==
  ASSUME Inv, NEW c \in InHand, Recycle(c) \/ Waste(c),
         holder' \in [Requests -> Cells \cup {NoCell}],
         InHand' = InHand \ {c},
         \A r, q \in Requests : holder'[r] = holder'[q] /\ holder'[r] # NoCell => r = q,
         \A r \in pending : holder'[r] = NoCell,
         UNCHANGED <<pending, pushing, posted, disabled, disabling>>
  PROVE  Inv'
<1>. USE DEF Inv
<1>1. c \in used /\ c \in Cells /\ c \notin CellsOf(handing) /\ c \notin CellsOf(Granted)
  BY DEF OwnInv, StorageInv, StorageTypeOK
<1>2. Granted' = Granted /\ EmptyHanded'
  BY Zenon DEF Granted, EmptyHanded
<1>3. StorageInv'
  BY <1>1, GiveBack, Zenon
<1>4. CASE UNCHANGED <<waiting, ahead, handing>> /\ used' = used \ {c}
  <2>1. TypeOK'
    BY <1>3, <1>4, Zenon DEF TypeOK, StorageInv
  <2>2. TicketInv'
    BY <1>4, Zenon DEF TicketInv
  <2>3. OwnInv'
    BY <1>1, <1>2, <1>4, Zenon DEF OwnInv
  <2>. QED BY <1>2, <1>3, <2>1, <2>2, <2>3, Zenon
<1>5. ASSUME NEW x \in waiting, NEW k \in BOOLEAN,
             RemoveFromQueue({x}),
             handing' = handing \cup {[req |-> x.req, cell |-> c, keep |-> k]},
             used' = used
      PROVE  Inv'
  <2>. DEFINE h == [req |-> x.req, cell |-> c, keep |-> k]
  <2>1. /\ h.req = x.req /\ h.cell = c /\ h \in Handovers
        /\ handing' = handing \cup {h}
        /\ waiting' = waiting \ {x} /\ ahead' \subseteq ahead
    BY <1>1, <1>5, Zenon DEF RemoveFromQueue, TypeOK, Entries, Handovers
  <2>. HIDE DEF h
  <2>2. TypeOK'
    BY <1>3, <2>1, Zenon DEF TypeOK, StorageInv
  <2>3. x.req \in ReqsOf(waiting)
    BY Zenon DEF ReqsOf
  <2>4. OneEach(waiting') /\ ReqsOf(waiting') = ReqsOf(waiting) \ {x.req}
    BY <2>1, ReqsRemoveOne, Zenon DEF TicketInv
  <2>5. OneEach(handing') /\ ReqsOf(handing') = ReqsOf(handing) \cup {x.req}
    BY <2>1, <2>3, ReqsAdd, ZenonT(40) DEF TicketInv
  <2>6. TicketInv'
    BY <2>3, <2>4, <2>5, ZenonT(40) DEF TicketInv
  <2>7. OneCellEach(handing') /\ CellsOf(handing') = CellsOf(handing) \cup {c}
    BY <1>1, <2>1, CellsAdd, Zenon DEF OwnInv
  <2>8. OwnInv'
    BY <1>1, <1>2, <1>5, <2>7, Zenon DEF OwnInv
  <2>. QED BY <1>2, <1>3, <2>2, <2>6, <2>8, ZenonT(40)
<1>. QED BY <1>1, <1>4, <1>5, GiveBack, Zenon

(* A handle is returned or destroyed.                                      *)
LEMMA ReturnInv ==
  ASSUME Inv, NEW r \in Requests, Return(r)
  PROVE  Inv'
<1>. USE DEF Inv
<1>1. /\ holder[r] # NoCell
      /\ Recycle(holder[r]) \/ Waste(holder[r])
      /\ holder' = [holder EXCEPT ![r] = NoCell]
      /\ UNCHANGED <<pending, pushing, posted, disabled, disabling>>
  BY Zenon DEF Return
<1>2. holder \in [Requests -> Cells \cup {NoCell}]
  BY Zenon DEF TypeOK
<1>3. holder[r] \in InHand
  BY <1>1, Zenon DEF InHand
<1>4. InHand' = InHand \ {holder[r]}
  BY <1>1, <1>2, Zenon DEF InHand, OwnInv
<1>5. \A s, q \in Requests : holder'[s] = holder'[q] /\ holder'[s] # NoCell => s = q
  BY <1>1, <1>2, Zenon DEF OwnInv
<1>6. \A s \in pending : holder'[s] = NoCell
  BY <1>1, <1>2, Zenon DEF EmptyHanded, TypeOK
<1>. QED BY <1>1, <1>2, <1>3, <1>4, <1>5, <1>6, GiveBackInv, Zenon

(* A handle is move-assigned over another one.                             *)
LEMMA MoveAssignInv ==
  ASSUME Inv, NEW r \in Requests, NEW q \in Requests, MoveAssign(r, q)
  PROVE  Inv'
<1>. USE DEF Inv
<1>1. /\ r # q
      /\ holder[r] # NoCell
      /\ Recycle(holder[r]) \/ Waste(holder[r])
      /\ holder' = [holder EXCEPT ![r] = holder[q], ![q] = NoCell]
      /\ UNCHANGED <<pending, pushing, posted, disabled, disabling>>
  BY DEF MoveAssign
<1>2. holder \in [Requests -> Cells \cup {NoCell}]
  BY Zenon DEF TypeOK
<1>3. holder[r] \in InHand
  BY <1>1, Zenon DEF InHand
<1>4. InHand' = InHand \ {holder[r]}
  BY <1>1, <1>2, Zenon DEF InHand, OwnInv
<1>5. \A s, t \in Requests : holder'[s] = holder'[t] /\ holder'[s] # NoCell => s = t
  BY <1>1, <1>2, Zenon DEF OwnInv
<1>6. \A s \in pending : holder'[s] = NoCell
  BY <1>1, <1>2, Zenon DEF EmptyHanded, TypeOK
<1>7. holder' \in [Requests -> Cells \cup {NoCell}]
  BY <1>1, <1>2, Zenon
<1>. QED BY <1>1, <1>3, <1>4, <1>5, <1>6, <1>7, GiveBackInv, Zenon

(* The end of recycle() and waste(), outside the mutex: the cell passes    *)
(* from the hand-over to the posted answer.                                *)
LEMMA ServeInv ==
  ASSUME Inv, NEW h \in handing, Serve(h)
  PROVE  Inv'
<1>. USE DEF Inv
<1>1. /\ handing' = handing \ {h}
      /\ value' = [value EXCEPT ![h.cell] = @ /\ h.keep]
      /\ posted' = posted \cup {Ok(h.req, h.cell)}
      /\ UNCHANGED <<lists, drop_time, reset_time, waste_on_recycle, now, stale>>
      /\ UNCHANGED <<pending, holder, pushing, waiting, ahead, disabled, disabling>>
  BY Zenon DEF Serve
<1>2. /\ h.req \in Requests /\ h.cell \in Cells
      /\ h.req \in ReqsOf(handing) /\ h.cell \in CellsOf(handing)
  BY Zenon DEF TypeOK, Handovers, ReqsOf, CellsOf
<1>3. /\ Ok(h.req, h.cell).req = h.req /\ Ok(h.req, h.cell).cell = h.cell
      /\ Ok(h.req, h.cell).ec = "ok" /\ Ok(h.req, h.cell) \in Answers
  BY <1>2, Zenon DEF Ok, Answers
<1>4. StorageInv'
  <2>1. /\ available' = available /\ used' = used /\ wasted' = wasted
        /\ AvailableCells' = AvailableCells
    BY <1>1, Zenon DEF lists, AvailableCells
  <2>2. /\ value' \in [Cells -> BOOLEAN]
        /\ \A d \in Cells : value'[d] => value[d]
    BY <1>1, <1>2, Zenon DEF StorageInv, StorageTypeOK
  <2>3. StorageTypeOK'
    BY <1>1, <2>1, <2>2, Zenon DEF StorageInv, StorageTypeOK, Time
  <2>4. CellsPartitioned'
    BY <2>1, Zenon DEF StorageInv, CellsPartitioned
  <2>5. WastedHoldNothing' /\ StaleIsMarked'
    BY <1>1, <2>1, <2>2, Zenon DEF StorageInv, StorageTypeOK, WastedHoldNothing, StaleIsMarked
  <2>6. DropWithinLifespan'
    BY <1>1, <2>1, Zenon DEF StorageInv, DropWithinLifespan, LifeEnd
  <2>. QED BY <2>3, <2>4, <2>5, <2>6, Zenon DEF StorageInv
<1>5. TypeOK'
  BY <1>1, <1>3, <1>4, Zenon DEF TypeOK, StorageInv
<1>6. OneEach(handing') /\ ReqsOf(handing') = ReqsOf(handing) \ {h.req}
  BY <1>1, ReqsRemoveOne, Zenon DEF TicketInv
<1>7. OneEach(posted') /\ ReqsOf(posted') = ReqsOf(posted) \cup {h.req}
  BY <1>1, <1>2, <1>3, ReqsAdd, Zenon DEF TicketInv
<1>8. TicketInv'
  BY <1>1, <1>2, <1>6, <1>7, ZenonT(40) DEF TicketInv
<1>9. Granted' = Granted \cup {Ok(h.req, h.cell)} /\ InHand' = InHand /\ used' = used
  BY <1>1, <1>3, Zenon DEF Granted, InHand, lists
<1>10. OneCellEach(handing') /\ CellsOf(handing') = CellsOf(handing) \ {h.cell}
  BY <1>1, CellsRemove, Zenon DEF OwnInv
<1>11. OneCellEach(Granted') /\ CellsOf(Granted') = CellsOf(Granted) \cup {h.cell}
  BY <1>2, <1>3, <1>9, CellsAdd, ZenonT(40) DEF OwnInv
<1>12. OwnInv'
  BY <1>1, <1>2, <1>9, <1>10, <1>11, ZenonT(40) DEF OwnInv
<1>13. EmptyHanded'
  BY <1>1, Zenon DEF EmptyHanded
<1>. QED BY <1>4, <1>5, <1>8, <1>12, <1>13, ZenonT(40)

(* on_get_handler runs: the cell passes from the answer to the caller,     *)
(* whose hands are empty.                                                  *)
LEMMA DeliverInv ==
  ASSUME Inv, NEW a \in posted, Deliver(a)
  PROVE  Inv'
<1>. USE DEF Inv
<1>1. /\ posted' = posted \ {a}
      /\ pending' = pending \ {a.req}
      /\ holder' = [holder EXCEPT ![a.req] = a.cell]
      /\ UNCHANGED <<storageVars, pushing, waiting, ahead, handing, disabled, disabling>>
  BY DEF Deliver
<1>2. StorageInv' /\ used' = used
  BY <1>1, StorageUnchangedInv, Zenon
<1>3. /\ a.req \in Requests /\ a.req \in pending /\ holder[a.req] = NoCell
      /\ a.req \in ReqsOf(posted)
      /\ a.ec = "ok" => a.cell \in Cells
      /\ a.ec # "ok" => a.cell = NoCell
      /\ a.cell \in Cells \cup {NoCell}
  BY DEF TypeOK, Answers, Errors, TicketInv, ReqsOf, EmptyHanded
<1>4. holder \in [Requests -> Cells \cup {NoCell}] /\ NoCell \notin Cells
  BY AsyncPoolAssumption DEF TypeOK
<1>5. TypeOK'
  BY <1>1, <1>2, <1>3, <1>4, Zenon DEF TypeOK, StorageInv
<1>6. OneEach(posted') /\ ReqsOf(posted') = ReqsOf(posted) \ {a.req}
  BY <1>1, ReqsRemoveOne, Zenon DEF TicketInv
<1>7. TicketInv'
  BY <1>1, <1>3, <1>6, ZenonT(40) DEF TicketInv
<1>8. EmptyHanded'
  BY <1>1, <1>4, Zenon DEF EmptyHanded, TypeOK
<1>9. CASE a.ec = "ok"
  <2>1. a \in Granted /\ Granted' = Granted \ {a} /\ a.cell \in CellsOf(Granted)
    BY <1>1, <1>9, Zenon DEF Granted, CellsOf
  <2>2. OneCellEach(Granted') /\ CellsOf(Granted') = CellsOf(Granted) \ {a.cell}
    BY <2>1, CellsRemove, Zenon DEF OwnInv
  <2>3. InHand' = InHand \cup {a.cell}
    BY <1>1, <1>3, <1>4, <1>9, Zenon DEF InHand
  <2>4. \A r, q \in Requests : holder'[r] = holder'[q] /\ holder'[r] # NoCell => r = q
    BY <1>1, <1>3, <1>4, <2>1, ZenonT(40) DEF OwnInv, InHand
  <2>5. OwnInv'
    BY <1>1, <1>2, <2>1, <2>2, <2>3, <2>4, Zenon DEF OwnInv
  <2>. QED BY <1>2, <1>5, <1>7, <1>8, <2>5, Zenon
<1>10. CASE a.ec # "ok"
  <2>1. Granted' = Granted
    BY <1>1, <1>10 DEF Granted
  <2>2. holder' = holder
    BY <1>1, <1>3, <1>4, <1>10, ZenonT(40)
  <2>3. OwnInv'
    BY <1>1, <1>2, <2>1, <2>2 DEF OwnInv, InHand
  <2>. QED BY <1>2, <1>5, <1>7, <1>8, <2>3, Zenon
<1>. QED BY <1>9, <1>10, Zenon

(* disable() begins or ends: only its own state changes.                   *)
LEMMA DisableMarkInv ==
  ASSUME Inv, disabled' \in BOOLEAN, disabling' \in {"no", "loop", "stuck"},
         UNCHANGED <<storageVars, pending, holder, pushing, waiting, ahead, handing, posted>>
  PROVE  Inv'
<1>. USE DEF Inv
<1>1. StorageInv' /\ used' = used
  BY StorageUnchangedInv, Zenon
<1>2. TypeOK'
  BY <1>1, Zenon DEF TypeOK, StorageInv
<1>3. TicketInv' /\ EmptyHanded'
  BY ZenonT(40) DEF TicketInv, EmptyHanded
<1>4. OwnInv'
  BY <1>1, Zenon DEF OwnInv, Granted, InHand
<1>. QED BY <1>1, <1>2, <1>3, <1>4, Zenon

(* A handler that disable() runs under the mutex leaves the queue, and its *)
(* request is answered.                                                    *)
LEMMA DisableReentersInv ==
  ASSUME Inv, NEW e \in waiting, DisableReenters(e)
  PROVE  Inv'
<1>. USE DEF Inv
<1>0. /\ waiting' = waiting \ {e} /\ ahead' \subseteq ahead
      /\ pending' = pending \ {e.req}
      /\ disabling' = "stuck"
      /\ UNCHANGED <<storageVars, holder, pushing, handing, posted, disabled>>
  BY Zenon DEF DisableReenters, RemoveFromQueue
<1>1. StorageInv' /\ used' = used
  BY <1>0, StorageUnchangedInv, Zenon
<1>2. TypeOK'
  BY <1>0, <1>1, Zenon DEF TypeOK, StorageInv
<1>3. OneEach(waiting') /\ ReqsOf(waiting') = ReqsOf(waiting) \ {e.req}
  BY <1>0, ReqsRemoveOne, Zenon DEF TicketInv
<1>4. e.req \in ReqsOf(waiting)
  BY DEF ReqsOf
<1>5. TicketInv'
  BY <1>0, <1>3, <1>4, ZenonT(40) DEF TicketInv
<1>6. OwnInv'
  BY <1>0, <1>1, Zenon DEF OwnInv, Granted, InHand
<1>7. EmptyHanded'
  BY <1>0, Zenon DEF EmptyHanded
<1>. QED BY <1>1, <1>2, <1>5, <1>6, <1>7, Zenon

(* One turn of the loop of disable(), or its end.                          *)
LEMMA DisablingInv ==
  ASSUME Inv, Disabling
  PROVE  Inv'
<1>1. CASE DisableEnd
  BY <1>1, DisableMarkInv, Zenon DEF DisableEnd, Inv, TypeOK
<1>2. ASSUME NEW e \in waiting, DisableNext(e) PROVE Inv'
  <2>. DEFINE G == {e}
  <2>1. /\ G \in SUBSET waiting
        /\ RemoveFromQueue(G)
        /\ posted' = posted \cup {Fail(x.req, "disabled") : x \in G}
        /\ UNCHANGED <<storageVars, pending, holder, pushing, handing, disabled, disabling>>
        /\ "disabled" \in Errors
    BY <1>2, Zenon DEF DisableNext, Errors
  <2>. HIDE DEF G
  <2>. QED BY <2>1, FailWaitingInv, Zenon
<1>. QED BY <1>1, <1>2, DisableReentersInv, Zenon DEF Disabling

(* A step that touches only cells and clock.                               *)
LEMMA PoolUnchangedInv ==
  ASSUME Inv, StorageInv', used' = used, UNCHANGED poolImplVars
  PROVE  Inv'
<1>. USE DEF Inv, poolImplVars
<1>1. TypeOK'
  BY DEF TypeOK, StorageInv
<1>2. TicketInv' /\ EmptyHanded'
  BY Zenon DEF TicketInv, EmptyHanded
<1>3. OwnInv'
  BY DEF OwnInv, Granted, InHand
<1>. QED BY <1>1, <1>2, <1>3, Zenon

(* One step per action of the pool.                                        *)
LEMMA NextInv == Inv /\ [Next]_vars => Inv'
<1>. SUFFICES ASSUME Inv, [Next]_vars PROVE Inv'
  OBVIOUS
<1>1. ASSUME NEW r \in Requests, NEW w \in WaitDurations, Get(r, w) PROVE Inv'
  BY <1>1, GetInv, Zenon
<1>2. ASSUME NEW p \in pushing, Push(p) PROVE Inv'
  BY <1>2, PushInv, Zenon
<1>3. ASSUME NEW t \in Time, Expire(t) PROVE Inv'
  <2>. DEFINE late == {e \in waiting : e.expires <= t}
  <2>1. /\ late \in SUBSET waiting
        /\ RemoveFromQueue(late)
        /\ posted' = posted \cup {Fail(x.req, "timeout") : x \in late}
        /\ UNCHANGED <<storageVars, pending, holder, pushing, handing, disabled, disabling>>
    BY <1>3, Zenon DEF Expire
  <2>2. "timeout" \in Errors
    BY DEF Errors
  <2>. HIDE DEF late
  <2>. QED BY <2>1, <2>2, FailWaitingInv, Zenon
<1>4. ASSUME NEW r \in Requests, Return(r) PROVE Inv'
  BY <1>4, ReturnInv, Zenon
<1>5. ASSUME NEW r \in Requests, NEW q \in Requests, MoveAssign(r, q) PROVE Inv'
  BY <1>5, MoveAssignInv, Zenon
<1>6. ASSUME NEW h \in handing, Serve(h) PROVE Inv'
  BY <1>6, ServeInv
<1>7. ASSUME NEW a \in posted, Deliver(a) PROVE Inv'
  BY <1>7, DeliverInv
<1>8. ASSUME NEW r \in Requests, Reset(r) PROVE Inv'
  <2>1. holder[r] \in used
    BY <1>8, Zenon DEF Inv, OwnInv, InHand, Reset
  <2>2. StorageInv' /\ used' = used
    BY <1>8, <2>1, CellResetInv, Zenon DEF Inv, Reset
  <2>. QED BY <1>8, <2>2, PoolUnchangedInv, ZenonT(40) DEF Reset
<1>9. CASE DisableBegin
  BY <1>9, DisableMarkInv, Zenon DEF DisableBegin
<1>13. CASE Disabling
  BY <1>13, DisablingInv, Zenon
<1>10. CASE Invalidate
  BY <1>10, StorageInvalidateInv, PoolUnchangedInv, Zenon DEF Invalidate, Inv
<1>11. CASE Tick
  <2>1. now' \in Time
    BY <1>11, StorageAssumption DEF Tick, Inv, TypeOK, StorageTypeOK, Time
  <2>. QED BY <1>11, <2>1, ClockInv, PoolUnchangedInv, Zenon DEF Tick, Inv
<1>12. CASE UNCHANGED vars
  BY <1>12, StorageUnchangedInv, PoolUnchangedInv, Zenon DEF vars, Inv
<1>. QED BY <1>1, <1>2, <1>3, <1>4, <1>5, <1>6, <1>7, <1>8, <1>9, <1>10, <1>11, <1>12, <1>13, ZenonT(40) DEF Next

(* The conjunction of all of it, always.                                   *)
THEOREM Invariance == Spec => []Inv
BY InitInv, NextInv, PTL DEF Spec

-----------------------------------------------------------------------------
(* Type correctness of the pool's state.                                   *)
THEOREM TypeCorrect == Spec => []TypeOK
<1>1. Inv => TypeOK
  BY Zenon DEF Inv
<1>. QED BY <1>1, Invariance, PTL

(* The splices between the three lists of storage keep every cell in       *)
(* exactly one of them.                                                    *)
THEOREM Partition == Spec => []CellsPartitioned
<1>1. Inv => CellsPartitioned
  BY DEF Inv, StorageInv
<1>. QED BY <1>1, Invariance, PTL

(* get(), the queue's timer, recycle(), waste() and disable() lose no      *)
(* handler and call none twice.                                            *)
THEOREM OneAnswer == Spec => []AnsweredOnce
<1>1. Inv => AnsweredOnce
  BY TicketInvImplies, Zenon DEF Inv
<1>. QED BY <1>1, Invariance, PTL

(* No two users share a cell, and no used cell is without an owner.        *)
THEOREM OneOwner == Spec => []CellOwnedOnce
<1>1. Inv => CellOwnedOnce
  BY OwnInvImplies, Zenon DEF Inv
<1>. QED BY <1>1, Invariance, PTL

(* A value older than an invalidate() survives only in a marked cell that  *)
(* a user holds.                                                           *)
THEOREM StaleMarked == Spec => []StaleIsMarked
<1>1. Inv => StaleIsMarked
  BY Zenon DEF Inv, StorageInv
<1>. QED BY <1>1, Invariance, PTL

(* The drop time that lease() looks at accounts for the lifespan.          *)
THEOREM DropTimes == Spec => []DropWithinLifespan
<1>1. Inv => DropWithinLifespan
  BY DEF Inv, StorageInv
<1>. QED BY <1>1, Invariance, PTL

-----------------------------------------------------------------------------
(* lease() hands out no value that is stale or past its life.              *)
LEMMA LeaseCurrent ==
  ASSUME StorageInv, NEW c \in Cells, Lease(c)
  PROVE  Current(c)'
<1>1. CASE LeaseAvailable(c)
  <2>1. PICK i \in DOMAIN available : LeaseAvailable(c)!(i)
    BY <1>1, Zenon DEF LeaseAvailable
  <2>2. /\ c = available[i] /\ ~Expired(c)
        /\ value' = [d \in Cells |-> value[d] /\ d \notin {available[j] : j \in 1..(i - 1)}]
        /\ now' = now /\ reset_time' = reset_time /\ stale' = stale
    BY <2>1, Zenon
  <2>3. c \in AvailableCells
    BY <2>2, Zenon DEF AvailableCells, Range
  <2>4. now < drop_time[c]
    <3>1. now \in Int /\ drop_time[c] \in Int
      BY TimeInt, Zenon DEF StorageInv, StorageTypeOK
    <3> QED BY <2>2, <3>1 DEF Expired
  <2>5. value'[c] => value[c]
    BY <2>2, Zenon
  <2>6. now < LifeEnd(c) /\ LifeEnd(c)' = LifeEnd(c)
    <3>1. LifeEnd(c) \in Time /\ drop_time[c] \in Time /\ now \in Time
      BY LifeEndType DEF StorageInv, StorageTypeOK
    <3>2. drop_time[c] <= LifeEnd(c)
      BY <2>3, Zenon DEF StorageInv, DropWithinLifespan
    <3>3. LifeEnd(c)' = LifeEnd(c)
      BY <2>2 DEF LifeEnd
    <3>4. ASSUME NEW s \in Int, NEW t \in Int, NEW u \in Int, s < t, t <= u PROVE s < u
      BY <3>4
    <3>5. now < LifeEnd(c)
      BY <2>4, <3>1, <3>2, <3>4, TimeInt, Zenon
    <3>. QED BY <3>3, <3>5
  <2>7. value[c] => c \notin stale
    BY <2>3 DEF StorageInv, StaleIsMarked, CellsPartitioned
  <2>. QED BY <2>2, <2>5, <2>6, <2>7, Zenon DEF Current
<1>2. CASE LeaseWasted(c)
  <2>1. ~value'[c]
    BY <1>2, Zenon DEF LeaseWasted, StorageInv, WastedHoldNothing
  <2>. QED BY <2>1 DEF Current
<1>. QED BY <1>1, <1>2, Zenon DEF Lease

(* A step that leases a cell, or hands one to a waiter to keep its value,  *)
(* concerns a current value: neither path lets an invalidated or expired   *)
(* value through.                                                          *)
THEOREM CurrentValues == Spec => HandsOutCurrentValues
<1>. DEFINE A == /\ \A c \in used' \ used : Current(c)'
                 /\ \A h \in handing' \ handing : h.keep => Current(h.cell)
<1>1. Inv /\ [Next]_vars => [A]_vars
  <2>. SUFFICES ASSUME Inv, Next PROVE A
    OBVIOUS
  <2>. USE DEF Inv
  <2>1. ASSUME used' \subseteq used, handing' \subseteq handing PROVE A
    BY <2>1, Zenon
  <2>2. ASSUME NEW r \in Requests, NEW w \in WaitDurations, Get(r, w) PROVE A
    <3>1. handing' = handing
      BY <2>2, Zenon DEF Get
    <3>2. CASE GetCell(r)
      <4>1. PICK c \in Cells : Lease(c)
        BY <3>2, Zenon DEF GetCell
      <4>2. used' = used \cup {c} /\ Current(c)'
        BY <4>1, LeaseInv, LeaseCurrent, Zenon
      <4>. QED BY <3>1, <4>2, Zenon
    <3>3. CASE GetDisabled(r) \/ GetNoWait(r, w) \/ GetWait(r, w)
      BY <2>1, <3>1, <3>3, Zenon DEF GetDisabled, GetNoWait, GetWait, storageVars, lists
    <3>. QED BY <2>2, <3>2, <3>3, Zenon DEF Get
  <2>3. ASSUME NEW c \in InHand, Recycle(c) \/ Waste(c) PROVE A
    <3>1. c \in used /\ c \in Cells
      BY DEF OwnInv, StorageInv, StorageTypeOK
    <3>2. used' \subseteq used
      BY <2>3, <3>1, GiveBack, Zenon
    <3>3. CASE handing' = handing
      BY <2>1, <3>2, <3>3, Zenon
    <3>4. ASSUME NEW k \in BOOLEAN, HandOver(c, k), k => IsValid(c) PROVE A
      <4>1. PICK e \in waiting : handing' = handing \cup {[req |-> e.req, cell |-> c, keep |-> k]}
        BY <3>4, Zenon DEF HandOver
      <4>2. k => Current(c)
        BY <3>1, <3>4, LifeEndType, TimeInt, Zenon
           DEF IsValid, Current, StorageInv, StaleIsMarked, StorageTypeOK
      <4>. QED BY <3>2, <4>1, <4>2
    <3>5. IsValid(c) \in BOOLEAN
      BY Zenon DEF IsValid
    <3>. QED BY <2>3, <3>3, <3>4, <3>5, Zenon DEF Recycle, Waste
  <2>4. ASSUME NEW r \in Requests, Return(r) PROVE A
    BY <2>3, <2>4, Zenon DEF Return, InHand
  <2>5. ASSUME NEW r \in Requests, NEW q \in Requests, MoveAssign(r, q) PROVE A
    BY <2>3, <2>5, Zenon DEF MoveAssign, InHand
  <2>6. CASE \/ \E p \in pushing : Push(p)
             \/ \E t \in Time : Expire(t)
             \/ \E a \in posted : Deliver(a)
             \/ DisableBegin
             \/ Disabling
    BY <2>1, <2>6, Zenon
       DEF Push, Expire, Deliver, DisableBegin, Disabling, DisableEnd, DisableNext,
           DisableReenters, storageVars, lists
  <2>7. CASE \/ \E h \in handing : Serve(h)
             \/ \E r \in Requests : Reset(r)
             \/ Invalidate
             \/ Tick
    BY <2>1, <2>7, Zenon DEF Serve, Reset, CellReset, Invalidate, StorageInvalidate, Tick, lists, poolImplVars
  <2>. QED BY <2>2, <2>4, <2>5, <2>6, <2>7 DEF Next
<1>. QED BY <1>1, Invariance, PTL DEF Spec, HandsOutCurrentValues

-----------------------------------------------------------------------------
(* Every step of the pool is a step of the abstract resource pool, or      *)
(* changes nothing that its users see.                                     *)
THEOREM Refinement == Spec => ImplementsResourcePool
<1>1. Init => Pool!PoolInit
  BY Zenon DEF Init, Pool!PoolInit
<1>2. Inv /\ [Next]_vars => [Pool!PoolNext]_(Pool!poolVars)
  <2>. SUFFICES ASSUME Inv, [Next]_vars, ~UNCHANGED <<pending, holder>> PROVE Pool!PoolNext
    BY Zenon DEF Pool!poolVars
  <2>. USE DEF Pool!PoolNext
  <2>1. ASSUME NEW r \in Requests, NEW w \in WaitDurations, Get(r, w) PROVE Pool!PoolNext
    BY <2>1, Zenon DEF Get, Pool!Call
  <2>2. ASSUME NEW r \in Requests, Return(r) PROVE Pool!PoolNext
    BY <2>2, Zenon DEF Return, Pool!GiveUp
  <2>3. ASSUME NEW r \in Requests, NEW q \in Requests, MoveAssign(r, q) PROVE Pool!PoolNext
    BY <2>3, Zenon DEF MoveAssign, Pool!Replace
  <2>4. ASSUME NEW a \in posted, Deliver(a) PROVE Pool!PoolNext
    <3>1. a.req \in Requests /\ a.req \in pending /\ holder[a.req] = NoCell
      BY DEF Inv, TypeOK, Answers, TicketInv, ReqsOf, EmptyHanded
    <3>2. CASE a.ec = "ok"
      <4>1. a.cell \in Cells
        BY <3>2, Zenon DEF Inv, TypeOK, Answers, Errors
      <4>2. a.cell \notin Pool!Held
        BY <3>2, Zenon DEF Inv, OwnInv, Granted, CellsOf, InHand, Pool!Held
      <4>. QED BY <2>4, <3>1, <4>1, <4>2, Zenon DEF Deliver, Pool!Grant
    <3>3. CASE a.ec # "ok"
      <4>1. a.cell = NoCell
        BY <3>3, Zenon DEF Inv, TypeOK, Answers
      <4>2. holder' = holder
        BY <2>4, <3>1, <4>1, Zenon DEF Deliver, Inv, TypeOK
      <4>. QED BY <2>4, <3>1, <4>2, Zenon DEF Deliver, Pool!Refuse
    <3>. QED BY <3>2, <3>3, Zenon
  <2>5. CASE \/ \E p \in pushing : Push(p)
             \/ \E t \in Time : Expire(t)
             \/ \E h \in handing : Serve(h)
             \/ \E r \in Requests : Reset(r)
             \/ DisableBegin
             \/ DisableEnd
             \/ \E e \in waiting : DisableNext(e)
             \/ Invalidate
             \/ Tick
             \/ UNCHANGED vars
    BY <2>5, Zenon
       DEF Push, Expire, Serve, Reset, DisableBegin, DisableEnd, DisableNext, Invalidate,
           Tick, vars, poolImplVars
  <2>6. ASSUME NEW e \in waiting, DisableReenters(e) PROVE Pool!PoolNext
    <3>1. e.req \in Requests /\ e.req \in pending
      BY DEF Inv, TypeOK, Entries, TicketInv, ReqsOf
    <3>. QED BY <2>6, <3>1, Zenon DEF DisableReenters, Pool!Refuse
  <2>. QED BY <2>1, <2>2, <2>3, <2>4, <2>5, <2>6, ZenonT(40) DEF Next, Disabling
<1>. QED BY <1>1, <1>2, Invariance, PTL DEF Spec, ImplementsResourcePool, Pool!PoolSpec

-----------------------------------------------------------------------------
(* WaitQueue counts as the pool does.                                      *)
LEMMA SameCount ==
  ASSUME NEW S
  PROVE  Queue!Cardinality(S) = Cardinality(S)
BY Zenon DEF Cardinality, Queue!Cardinality

(* Some request is the last to expire among those that cancel() finds late.*)
LEMMA LastLate ==
  ASSUME NEW W \in SUBSET Entries, NEW t \in Time, {e \in W : e.expires <= t} # {}
  PROVE  \E e \in W : /\ e.expires <= t
                      /\ \A f \in W : f.expires <= t <=> f.expires <= e.expires
<1>. DEFINE L == {e \in W : e.expires <= t}
            D == {t - e.expires : e \in L}
            R == OpToRel(<, Nat)
<1>1. \A e \in W : e.expires \in Nat /\ t \in Nat
  BY StorageAssumption DEF Entries, Time
<1>2. D \subseteq Nat /\ D # {}
  <2>1. L # {}
    BY Zenon
  <2>2. ASSUME NEW e \in L PROVE t - e.expires \in Nat
    BY <1>1, <2>2
  <2>. HIDE DEF L
  <2>3. D \subseteq Nat
    BY <2>2, Zenon
  <2>4. D # {}
    BY <2>1, Zenon
  <2>. QED BY <2>3, <2>4, Zenon
<1>3. IsWellFoundedOn(R, Nat)
  BY NatLessThanWellFounded, Zenon
<1>4. \A x, y \in Nat : x < y => <<x, y>> \in R
  BY DEF OpToRel
<1>. HIDE DEF R, D
<1>5. PICK d \in D : \A x \in D : <<x, d>> \notin R
  BY <1>2, <1>3, WFMin, Zenon
<1>6. PICK e \in L : d = t - e.expires
  BY <1>5, Zenon DEF D
<1>7. ASSUME NEW f \in L PROVE f.expires <= e.expires
  <2>1. t - f.expires \in D /\ t - e.expires \in D
    BY <1>6 DEF D
  <2>2. ~(t - f.expires < t - e.expires)
    BY <1>2, <1>4, <1>5, <1>6, <2>1, Zenon
  <2>. QED BY <1>1, <2>2
<1>8. ASSUME NEW f \in W, f.expires <= e.expires PROVE f.expires <= t
  BY <1>1, <1>8
<1>. QED BY <1>7, <1>8, Zenon

(* push() appends a request that is not yet in the queue, with an expiry   *)
(* that the saturating addition keeps at or after now.                     *)
LEMMA PushQueues ==
  ASSUME Inv, NEW p \in pushing, Push(p), PushEnqueue(p)
  PROVE  Queue!QueueNext
<1>. DEFINE x == Add(now, p.wait)
            e == [req |-> p.req, expires |-> x]
<1>1. p.req \in Requests /\ p.wait \in Nat /\ now \in Time
  BY AsyncPoolAssumption, Zenon DEF Inv, TypeOK, Pushes, StorageTypeOK
<1>2. now <= x
  BY <1>1, AddType, Zenon
<1>3. now' = now
  BY Zenon DEF Push, storageVars
<1>. HIDE DEF x
<1>4. \A f \in waiting : f.req # p.req
  BY DEF Inv, TicketInv, ReqsOf
<1>5. /\ Queue!Cardinality(waiting) < QueueCapacity
      /\ waiting' = waiting \cup {[req |-> p.req, expires |-> x]}
      /\ ahead' = ahead \cup {<<f.req, p.req>> : f \in waiting}
  BY SameCount, Zenon DEF PushEnqueue, x
<1>6. Queue!Join(p.req, x)
  BY <1>2, <1>4, <1>5, Zenon DEF Queue!Join
<1>7. e \in waiting' /\ e.req = p.req /\ e.expires = x
  BY <1>5
<1>. HIDE DEF e
<1>8. e \in waiting' /\ e.req = p.req /\ Queue!Join(p.req, e.expires)
  BY <1>6, <1>7, Zenon
<1>. QED BY <1>1, <1>3, <1>8, Zenon DEF Queue!QueueNext

(* pop() takes the request at the front of the queue: for a returned cell, *)
(* and in the loop of disable().                                           *)
LEMMA FrontQueues ==
  ASSUME NEW e \in waiting, IsFront(e), RemoveFromQueue({e}), now' = now
  PROVE  Queue!QueueNext
<1>1. Queue!Leave({e})
  BY Zenon DEF RemoveFromQueue, Queue!Leave
<1>2. Queue!TakeFront(e)
  BY <1>1, Zenon DEF IsFront, Queue!TakeFront
<1>. QED BY <1>2, Zenon DEF Queue!QueueNext

(* cancel() takes out those that expire by the time of one of them.        *)
LEMMA ExpireQueues ==
  ASSUME Inv, NEW t \in Time, Expire(t)
  PROVE  Queue!QueueNext
<1>. DEFINE L == {e \in waiting : e.expires <= t}
<1>1. t <= now /\ L # {} /\ RemoveFromQueue(L) /\ now' = now
  BY Zenon DEF Expire, storageVars
<1>2. waiting \in SUBSET Entries /\ now \in Time
  BY Zenon DEF Inv, TypeOK, StorageTypeOK
<1>3. PICK e \in waiting : /\ e.expires <= t
                           /\ \A f \in waiting : f.expires <= t <=> f.expires <= e.expires
  BY <1>1, <1>2, LastLate, Zenon
<1>4. e.expires <= now
  <2>1. e.expires \in Int /\ t \in Int /\ now \in Int
    BY <1>2, TimeInt, Zenon DEF Entries
  <2>2. e.expires <= t /\ t <= now
    BY <1>1, <1>3, Zenon
  <2>. QED BY <2>1, <2>2
<1>5. L = {f \in waiting : f.expires <= e.expires}
  BY <1>3, Zenon
<1>. HIDE DEF L
<1>6. Queue!Leave({f \in waiting : f.expires <= e.expires})
  BY <1>1, <1>5, Zenon DEF RemoveFromQueue, Queue!Leave
<1>7. Queue!Expire(e.expires)
  BY <1>4, <1>6, Zenon DEF Queue!Expire
<1>. QED BY <1>1, <1>7, Zenon DEF Queue!QueueNext

(* A returned cell leaves the queue alone or takes its front.              *)
LEMMA GiveBackQueues ==
  ASSUME NEW c, Recycle(c) \/ Waste(c)
  PROVE  Queue!QueueNext \/ UNCHANGED Queue!queueVars
<1>1. ASSUME NEW k, HandOver(c, k) PROVE Queue!QueueNext
  <2>1. PICK e \in waiting : IsFront(e) /\ RemoveFromQueue({e}) /\ UNCHANGED storageVars
    BY <1>1, Zenon DEF HandOver
  <2>2. now' = now
    BY <2>1, Zenon DEF storageVars
  <2>. QED BY <2>1, <2>2, FrontQueues, Zenon
<1>2. ASSUME StorageRecycle(c) \/ StorageWaste(c), UNCHANGED <<waiting, ahead, handing>>
      PROVE  UNCHANGED Queue!queueVars
  BY <1>2, Zenon DEF StorageRecycle, StorageWaste, Queue!queueVars
<1>. QED BY <1>1, <1>2, Zenon DEF Recycle, Waste

(* Every step of the pool is a step of the queue that RequestQueue         *)
(* implements, or leaves the queue and the clock alone: what the two       *)
(* modules show of pool_impl and of queue holds of them together.          *)
THEOREM QueueUse == Spec => UsesWaitQueue
<1>1. Init => Queue!QueueInit
  BY DEF Init, StorageInit, Queue!QueueInit
<1>2. Inv /\ [Next]_vars => [Queue!QueueNext]_(Queue!queueVars)
  <2>. DEFINE A == Queue!QueueNext \/ UNCHANGED Queue!queueVars
  <2>. SUFFICES ASSUME Inv, [Next]_vars PROVE A
    OBVIOUS
  <2>1. ASSUME NEW p \in pushing, Push(p) PROVE A
    <3>1. CASE PushOverflow(p)
      BY <2>1, <3>1, Zenon DEF Push, PushOverflow, storageVars, Queue!queueVars
    <3>2. CASE PushEnqueue(p)
      BY <2>1, <3>2, PushQueues, Zenon
    <3>. QED BY <2>1, <3>1, <3>2, Zenon DEF Push
  <2>2. ASSUME NEW t \in Time, Expire(t) PROVE A
    BY <2>2, ExpireQueues, Zenon
  <2>3. ASSUME NEW r \in Requests, Return(r) PROVE A
    BY <2>3, GiveBackQueues, Zenon DEF Return
  <2>4. ASSUME NEW r \in Requests, NEW q \in Requests, MoveAssign(r, q) PROVE A
    BY <2>4, GiveBackQueues, Zenon DEF MoveAssign
  <2>5. ASSUME NEW r \in Requests, NEW w \in WaitDurations, Get(r, w) PROVE A
    <3>1. waiting' = waiting /\ ahead' = ahead
      BY <2>5, Zenon DEF Get
    <3>2. now' = now
      BY <2>5, Zenon DEF Get, GetDisabled, GetCell, GetNoWait, GetWait, Lease, LeaseAvailable, LeaseWasted, storageVars
    <3>. QED BY <3>1, <3>2, Zenon DEF Queue!queueVars
  <2>6. ASSUME NEW e \in waiting, DisableNext(e) \/ DisableReenters(e) PROVE A
    <3>1. IsFront(e) /\ RemoveFromQueue({e}) /\ now' = now
      BY <2>6, Zenon DEF DisableNext, DisableReenters, storageVars
    <3>. QED BY <3>1, FrontQueues, Zenon
  <2>7. CASE Tick
    <3>1. now' > now /\ UNCHANGED <<waiting, ahead>>
      BY <2>7, TimeInt DEF Tick, poolImplVars, Inv, TypeOK, StorageTypeOK
    <3>. QED BY <3>1, Zenon DEF Queue!QueueNext
  <2>8. CASE \/ \E h \in handing : Serve(h)
             \/ \E a \in posted : Deliver(a)
             \/ \E r \in Requests : Reset(r)
             \/ DisableBegin
             \/ DisableEnd
             \/ Invalidate
             \/ UNCHANGED vars
    <3>1. UNCHANGED <<waiting, ahead>>
      BY <2>8, Zenon DEF Serve, Deliver, Reset, DisableBegin, DisableEnd, Invalidate, vars, poolImplVars
    <3>2. now' = now
      BY <2>8, Zenon DEF Serve, Deliver, Reset, CellReset, DisableBegin, DisableEnd, Invalidate,
           StorageInvalidate, vars, storageVars
    <3>. QED BY <3>1, <3>2, Zenon DEF Queue!queueVars
  <2>. HIDE DEF A
  <2>. QED BY <2>1, <2>2, <2>3, <2>4, <2>5, <2>6, <2>7, <2>8, ZenonT(40) DEF Next, Disabling
<1>. QED BY <1>1, <1>2, Invariance, PTL DEF Spec, UsesWaitQueue, Queue!QueueSpec
=============================================================================
