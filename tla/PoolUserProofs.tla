---------------------------- MODULE PoolUserProofs ----------------------------
(***************************************************************************)
(* Proofs about those who ask pools of connections, for every value of the *)
(* constants.                                                              *)
(*                                                                         *)
(* Threads in get() of the synchronous pool, for every capacity, timeout   *)
(* and clock, up to the first use of a handle without a cell: no cell and  *)
(* no thread is lost or doubled, a disabled pool has nobody asleep, and    *)
(* the pool implements ResourcePool.  ThreadInOnePlace speaks of tagged    *)
(* tuples; the induction is carried out on PlaceInv, which says the same   *)
(* of each container of get().                                             *)
(*                                                                         *)
(* Operations with a failover strategy, for any number of tries, roles and *)
(* any time constraint: the tries of an operation stay within its limit,   *)
(* no try has less time than the one before it, a connection that failed   *)
(* is closed, and a role that runs out of time is followed by the next one.*)
(***************************************************************************)
EXTENDS SyncPool, StorageProofs, Failover

InHand == {holder[r] : r \in Requests} \cap Cells

\* Each thread inside get() is in one of its containers, once.
PlaceInv ==
  /\ OneEach(entering) /\ OneEach(sleeping) /\ OneEach(woken)
  /\ ReqsOf(entering) \cap ReqsOf(sleeping) = {}
  /\ ReqsOf(entering) \cap ReqsOf(woken) = {}
  /\ ReqsOf(sleeping) \cap ReqsOf(woken) = {}
  /\ pending = ReqsOf(entering) \cup ReqsOf(sleeping) \cup ReqsOf(woken)

\* Each used cell has one handle.
OwnInv ==
  /\ \A r, q \in Requests : holder[r] = holder[q] /\ holder[r] \in Cells => r = q
  /\ used = InHand

\* A thread inside get() has no handle that the answer would overwrite.
EmptyHanded == \A r \in pending : holder[r] = NoCell

Inv ==
  /\ TypeOK
  /\ StorageInv
  /\ PlaceInv
  /\ OwnInv
  /\ EmptyHanded
  /\ DisabledWakesAll

-----------------------------------------------------------------------------
(* What the containers say is what ThreadInOnePlace says.                  *)
LEMMA PlaceInvImplies == PlaceInv => ThreadInOnePlace
<1>. SUFFICES ASSUME PlaceInv PROVE ThreadInOnePlace
  OBVIOUS
<1>1. ASSUME NEW t \in Places, NEW u \in Places, t[2] = u[2]
      PROVE  t = u
  BY <1>1 DEF PlaceInv, Places, OneEach, ReqsOf
<1>2. ASSUME NEW t \in Places PROVE t[2] \in pending
  BY DEF PlaceInv, Places, ReqsOf
<1>3. ASSUME NEW r \in pending PROVE \E t \in Places : t[2] = r
  <2>1. CASE r \in ReqsOf(entering)
    <3>1. PICK x \in entering : x.req = r
      BY <2>1 DEF ReqsOf
    <3>2. <<"entering", x.req, x>> \in Places
      BY DEF Places
    <3>. QED BY <3>1, <3>2
  <2>2. CASE r \in ReqsOf(sleeping)
    <3>1. PICK x \in sleeping : x.req = r
      BY <2>2 DEF ReqsOf
    <3>2. <<"sleeping", x.req, x>> \in Places
      BY DEF Places
    <3>. QED BY <3>1, <3>2
  <2>3. CASE r \in ReqsOf(woken)
    <3>1. PICK x \in woken : x.req = r
      BY <2>3 DEF ReqsOf
    <3>2. <<"woken", x.req, x>> \in Places
      BY DEF Places
    <3>. QED BY <3>1, <3>2
  <2>. QED BY <2>1, <2>2, <2>3 DEF PlaceInv
<1>. QED BY <1>1, <1>2, <1>3 DEF ThreadInOnePlace

(* And likewise for the handles and the cells in use.                      *)
LEMMA OwnInvImplies == OwnInv => CellOwnedOnce
BY DEF OwnInv, InHand, CellOwnedOnce, Holders

(* The invariant holds in the initial states of every constructor.         *)
LEMMA InitInv == Init => Inv
<1>. SUFFICES ASSUME Init PROVE Inv
  OBVIOUS
<1>1. StorageInv
  BY StorageInitInv DEF Init
<1>2. TypeOK
  BY <1>1, Zenon DEF Init, TypeOK, StorageInv
<1>3. PlaceInv
  BY DEF Init, PlaceInv, OneEach, ReqsOf
<1>4. OwnInv
  BY SyncPoolAssumption DEF Init, OwnInv, InHand, StorageInit
<1>5. EmptyHanded /\ DisabledWakesAll
  BY DEF Init, EmptyHanded, DisabledWakesAll
<1>. QED BY <1>1, <1>2, <1>3, <1>4, <1>5, Zenon DEF Inv

-----------------------------------------------------------------------------
(* A thread calls get() and waits for the mutex.                           *)
LEMMA CallInv ==
  ASSUME Inv, NEW r \in Requests, NEW w \in WaitDurations, Call(r, w)
  PROVE  Inv'
<1>. USE DEF Inv
<1>. DEFINE x == [req |-> r, wait |-> w]
<1>1. /\ x.req = r /\ x \in Calls /\ entering' = entering \cup {x}
      /\ r \notin pending /\ holder[r] = NoCell /\ pending' = pending \cup {r}
      /\ UNCHANGED <<storageVars, holder, sleeping, woken, disabled, crashed>>
  BY DEF Call, Calls
<1>. HIDE DEF x
<1>2. StorageInv' /\ used' = used
  BY <1>1, StorageUnchangedInv
<1>3. TypeOK'
  BY <1>1, <1>2 DEF TypeOK, StorageInv
<1>4. OneEach(entering') /\ ReqsOf(entering') = ReqsOf(entering) \cup {r}
  BY <1>1, ReqsAdd, Zenon DEF PlaceInv
<1>5. PlaceInv'
  BY <1>1, <1>4, Zenon DEF PlaceInv
<1>6. OwnInv' /\ EmptyHanded' /\ DisabledWakesAll'
  BY <1>1, <1>2, Zenon DEF OwnInv, InHand, EmptyHanded, DisabledWakesAll
<1>. QED BY <1>2, <1>3, <1>5, <1>6, Zenon

(* get() answers thread r with cell c, or with an error: r leaves get(),   *)
(* and its hands were empty.                                               *)
LEMMA AnswerInv ==
  ASSUME Inv, NEW r \in pending, NEW c \in Cells \cup {NullCell},
         StorageInv',
         c \in Cells => used' = used \cup {c} /\ c \notin used,
         c = NullCell => used' = used,
         holder' = [holder EXCEPT ![r] = c],
         pending' = pending \ {r},
         entering' \subseteq entering, sleeping' \subseteq sleeping, woken' \subseteq woken,
         PlaceInv',
         UNCHANGED <<disabled, crashed>>
  PROVE  Inv'
<1>. USE SyncPoolAssumption DEF Inv
<1>1. r \in Requests /\ holder[r] = NoCell /\ holder \in [Requests -> Cells \cup {NoCell, NullCell}]
  BY DEF TypeOK, EmptyHanded
<1>2. TypeOK'
  BY <1>1 DEF TypeOK, StorageInv
<1>3. \A q \in Requests : holder'[q] = IF q = r THEN c ELSE holder[q]
  BY <1>1
<1>4. OwnInv'
  <2>1. ASSUME NEW p \in Requests, NEW q \in Requests, holder'[p] = holder'[q], holder'[p] \in Cells
        PROVE  p = q
    BY <1>3, <2>1 DEF OwnInv, InHand
  <2>2. CASE c \in Cells
    <3>1. InHand' = InHand \cup {c}
      BY <1>1, <1>3, <2>2, Zenon DEF InHand
    <3>. QED BY <2>1, <2>2, <3>1, Zenon DEF OwnInv
  <2>3. CASE c = NullCell
    <3>1. InHand' = InHand
      BY <1>1, <1>3, <2>3, Zenon DEF InHand
    <3>. QED BY <2>1, <2>3, <3>1, Zenon DEF OwnInv
  <2>. QED BY <2>2, <2>3
<1>5. EmptyHanded'
  BY <1>3 DEF EmptyHanded, TypeOK
<1>6. DisabledWakesAll'
  BY DEF DisabledWakesAll
<1>. QED BY <1>2, <1>4, <1>5, <1>6, Zenon

(* One turn of the loop in get(), for a thread that has just left the      *)
(* place it waited at for the mutex.                                       *)
LEMMA TryInv ==
  ASSUME Inv, NEW r \in Requests, NEW w \in WaitDurations,
         r \in pending, r \notin ReqsOf(sleeping),
         entering' \subseteq entering, woken' \subseteq woken,
         OneEach(entering'), OneEach(woken'),
         ReqsOf(entering') = ReqsOf(entering) \ {r},
         ReqsOf(woken') = ReqsOf(woken) \ {r},
         Try(r, w) \/ (AnswerError(r) /\ UNCHANGED sleeping),
         UNCHANGED <<disabled, crashed>>
  PROVE  Inv'
<1>. USE DEF Inv
<1>1. ASSUME sleeping' = sleeping, pending' = pending \ {r} PROVE PlaceInv'
  BY <1>1 DEF PlaceInv
<1>2. CASE AnswerError(r) /\ UNCHANGED sleeping
  <2>1. StorageInv' /\ used' = used
    BY <1>2, StorageUnchangedInv DEF AnswerError
  <2>2. NullCell \notin Cells
    BY SyncPoolAssumption
  <2>. QED BY <1>1, <1>2, <2>1, <2>2, AnswerInv, Zenon DEF AnswerError
<1>3. CASE AnswerCell(r) /\ UNCHANGED sleeping
  <2>1. PICK c \in Cells : Lease(c) /\ holder' = [holder EXCEPT ![r] = c]
    BY <1>3, Zenon DEF AnswerCell
  <2>2. StorageInv' /\ used' = used \cup {c} /\ c \notin used
    BY <2>1, LeaseInv, Zenon
  <2>3. c # NullCell
    BY SyncPoolAssumption
  <2>. QED BY <1>1, <1>3, <2>1, <2>2, <2>3, AnswerInv, Zenon DEF AnswerCell
<1>4. CASE FallAsleep(r, w)
  <2>. DEFINE x == [req |-> r, wait |-> w, until |-> Add(now, w)]
  <2>1. StorageInv' /\ used' = used
    BY <1>4, StorageUnchangedInv, Zenon DEF FallAsleep
  <2>2. Add(now, w) \in Time
    BY AddType, SyncPoolAssumption, Zenon DEF StorageInv, StorageTypeOK
  <2>3. /\ x.req = r /\ x \in Sleeps /\ sleeping' = sleeping \cup {x}
        /\ ~disabled /\ UNCHANGED <<pending, holder>>
    BY <1>4, <2>2, Zenon DEF FallAsleep, Sleeps
  <2>. HIDE DEF x
  <2>4. TypeOK'
    BY <2>1, <2>3 DEF TypeOK, StorageInv
  <2>5. OneEach(sleeping') /\ ReqsOf(sleeping') = ReqsOf(sleeping) \cup {r}
    BY <2>3, ReqsAdd, Zenon DEF PlaceInv
  <2>6. PlaceInv'
    BY <2>3, <2>5, ZenonT(40) DEF PlaceInv
  <2>7. OwnInv' /\ EmptyHanded' /\ DisabledWakesAll'
    BY <2>1, <2>3, Zenon DEF OwnInv, InHand, EmptyHanded, DisabledWakesAll
  <2>. QED BY <2>1, <2>4, <2>6, <2>7, Zenon
<1>. QED BY <1>2, <1>3, <1>4, Zenon DEF Try

(* get() with the mutex for the first time.                                *)
LEMMA GetInv ==
  ASSUME Inv, NEW x \in entering, Get(x)
  PROVE  Inv'
<1>1. /\ x.req \in Requests /\ x.wait \in WaitDurations /\ x.req \in ReqsOf(entering)
      /\ x.req \in pending /\ x.req \notin ReqsOf(sleeping) /\ x.req \notin ReqsOf(woken)
  BY DEF Inv, TypeOK, Calls, PlaceInv, ReqsOf
<1>2. /\ entering' = entering \ {x} /\ woken' = woken
      /\ Try(x.req, x.wait) /\ UNCHANGED <<disabled, crashed>>
  BY DEF Get
<1>3. OneEach(entering') /\ ReqsOf(entering') = ReqsOf(entering) \ {x.req}
  BY <1>2, ReqsRemoveOne, Zenon DEF Inv, PlaceInv
<1>4. OneEach(woken') /\ ReqsOf(woken') = ReqsOf(woken) \ {x.req}
  BY <1>1, <1>2, Zenon DEF Inv, PlaceInv
<1>. QED BY <1>1, <1>2, <1>3, <1>4, TryInv, Zenon

(* wait_for returns to a notified thread.                                  *)
LEMMA ResumeInv ==
  ASSUME Inv, NEW x \in woken, Resume(x)
  PROVE  Inv'
<1>1. /\ x.req \in Requests /\ x.wait \in WaitDurations /\ x.req \in ReqsOf(woken)
      /\ x.req \in pending /\ x.req \notin ReqsOf(sleeping) /\ x.req \notin ReqsOf(entering)
  BY DEF Inv, TypeOK, Sleeps, PlaceInv, ReqsOf
<1>2. /\ woken' = woken \ {x} /\ entering' = entering
      /\ Try(x.req, x.wait) \/ (AnswerError(x.req) /\ UNCHANGED sleeping)
      /\ UNCHANGED <<disabled, crashed>>
  BY DEF Resume
<1>3. OneEach(woken') /\ ReqsOf(woken') = ReqsOf(woken) \ {x.req}
  BY <1>2, ReqsRemoveOne, Zenon DEF Inv, PlaceInv
<1>4. OneEach(entering') /\ ReqsOf(entering') = ReqsOf(entering) \ {x.req}
  BY <1>1, <1>2, Zenon DEF Inv, PlaceInv
<1>. QED BY <1>1, <1>2, <1>3, <1>4, TryInv, Zenon

(* wait_for returns with timeout.                                          *)
LEMMA TimeOutInv ==
  ASSUME Inv, NEW x \in sleeping, TimeOut(x)
  PROVE  Inv'
<1>. USE DEF Inv
<1>1. /\ x.req \in ReqsOf(sleeping) /\ x.req \in pending
      /\ x.req \notin ReqsOf(woken) /\ x.req \notin ReqsOf(entering)
  BY Zenon DEF PlaceInv, ReqsOf
<1>2. /\ sleeping' = sleeping \ {x}
      /\ holder' = [holder EXCEPT ![x.req] = NullCell]
      /\ pending' = pending \ {x.req}
      /\ UNCHANGED <<storageVars, entering, woken, disabled, crashed>>
  BY DEF TimeOut, AnswerError
<1>3. OneEach(sleeping') /\ ReqsOf(sleeping') = ReqsOf(sleeping) \ {x.req}
  BY <1>2, ReqsRemoveOne, Zenon DEF PlaceInv
<1>4. PlaceInv'
  BY <1>1, <1>2, <1>3 DEF PlaceInv
<1>5. StorageInv' /\ used' = used
  BY <1>2, StorageUnchangedInv
<1>6. NullCell \notin Cells
  BY SyncPoolAssumption
<1>. QED BY <1>1, <1>2, <1>4, <1>5, <1>6, AnswerInv, Zenon

-----------------------------------------------------------------------------
(* Threads are woken, by a notification or for no reason.                  *)
LEMMA WakeInv ==
  ASSUME Inv, NEW S \in SUBSET sleeping,
         sleeping' = sleeping \ S, woken' = woken \cup S,
         UNCHANGED <<pending, entering>>
  PROVE  PlaceInv' /\ sleeping' \subseteq Sleeps /\ woken' \subseteq Sleeps
<1>. USE DEF Inv
<1>1. OneEach(sleeping') /\ ReqsOf(sleeping') = ReqsOf(sleeping) \ ReqsOf(S)
  BY ReqsRemove, Zenon DEF PlaceInv
<1>2. OneEach(S) /\ ReqsOf(S) \subseteq ReqsOf(sleeping)
  BY DEF PlaceInv, OneEach, ReqsOf
<1>3. ReqsOf(woken) \cap ReqsOf(S) = {}
  BY <1>2, Zenon DEF PlaceInv
<1>4. OneEach(woken') /\ ReqsOf(woken') = ReqsOf(woken) \cup ReqsOf(S)
  BY <1>2, <1>3, ReqsUnion, Zenon DEF PlaceInv
<1>5. PlaceInv'
  BY <1>1, <1>2, <1>4, Zenon DEF PlaceInv
<1>. QED BY <1>5 DEF TypeOK

(* notify_one wakes one thread or, if nobody sleeps, none.                 *)
LEMMA NotifyInv ==
  ASSUME Inv, NotifyOne, UNCHANGED <<pending, entering>>
  PROVE  /\ PlaceInv' /\ sleeping' \subseteq Sleeps /\ woken' \subseteq Sleeps
         /\ sleeping' \subseteq sleeping
<1>1. PICK S \in SUBSET sleeping : sleeping' = sleeping \ S /\ woken' = woken \cup S
  <2>1. CASE sleeping = {} /\ UNCHANGED <<sleeping, woken>>
    BY <2>1
  <2>2. ASSUME NEW x \in sleeping, sleeping' = sleeping \ {x}, woken' = woken \cup {x}
        PROVE  \E S \in SUBSET sleeping : sleeping' = sleeping \ S /\ woken' = woken \cup S
    <3>1. {x} \in SUBSET sleeping
      OBVIOUS
    <3>. QED BY <2>2, <3>1, Zenon
  <2>. QED BY <2>1, <2>2, Zenon DEF NotifyOne
<1>. QED BY <1>1, WakeInv, Zenon

(* Whatever a handle does with its cell c, it is enough that c leaves the  *)
(* hands it was in, and that no thread inside get() has got a handle.      *)
LEMMA GiveBackInv ==
  ASSUME Inv, NEW c \in InHand, StorageRecycle(c) \/ StorageWaste(c), NotifyOne,
         holder' \in [Requests -> Cells \cup {NoCell, NullCell}],
         InHand' = InHand \ {c},
         \A r, q \in Requests : holder'[r] = holder'[q] /\ holder'[r] \in Cells => r = q,
         \A r \in pending : holder'[r] = NoCell,
         UNCHANGED <<pending, entering, disabled, crashed>>
  PROVE  Inv'
<1>. USE DEF Inv
<1>1. c \in used
  BY DEF OwnInv
<1>2. StorageInv' /\ used' = used \ {c}
  BY <1>1, StorageRecycleInv, StorageWasteInv, Zenon
<1>3. /\ PlaceInv' /\ sleeping' \subseteq Sleeps /\ woken' \subseteq Sleeps
      /\ sleeping' \subseteq sleeping
  BY NotifyInv, Zenon
<1>4. TypeOK'
  BY <1>2, <1>3, Zenon DEF TypeOK, StorageInv
<1>5. OwnInv'
  BY <1>2, Zenon DEF OwnInv
<1>6. EmptyHanded' /\ DisabledWakesAll'
  BY <1>3, Zenon DEF EmptyHanded, DisabledWakesAll
<1>. QED BY <1>2, <1>3, <1>4, <1>5, <1>6, Zenon

(* A handle is returned or destroyed.                                      *)
LEMMA ReturnInv ==
  ASSUME Inv, NEW r \in Requests, Return(r)
  PROVE  Inv'
<1>. USE SyncPoolAssumption DEF Inv
<1>1. /\ holder[r] \in Cells
      /\ StorageRecycle(holder[r]) \/ StorageWaste(holder[r])
      /\ NotifyOne
      /\ holder' = [holder EXCEPT ![r] = NoCell]
      /\ UNCHANGED <<pending, entering, disabled, crashed>>
  BY DEF Return
<1>2. holder \in [Requests -> Cells \cup {NoCell, NullCell}]
  BY DEF TypeOK
<1>3. holder[r] \in InHand
  BY <1>1, Zenon DEF InHand
<1>4. InHand' = InHand \ {holder[r]}
  BY <1>1, <1>2, Zenon DEF InHand, OwnInv
<1>5. \A s, q \in Requests : holder'[s] = holder'[q] /\ holder'[s] \in Cells => s = q
  BY <1>1, <1>2, Zenon DEF OwnInv
<1>6. \A s \in pending : holder'[s] = NoCell
  BY <1>1, <1>2, Zenon DEF EmptyHanded, TypeOK
<1>7. holder' \in [Requests -> Cells \cup {NoCell, NullCell}]
  BY <1>1, <1>2
<1>. QED BY <1>1, <1>3, <1>4, <1>5, <1>6, <1>7, GiveBackInv, Zenon

(* A handle is move-assigned over another one.                             *)
LEMMA MoveAssignInv ==
  ASSUME Inv, NEW r \in Requests, NEW q \in Requests, MoveAssign(r, q)
  PROVE  Inv'
<1>. USE SyncPoolAssumption DEF Inv
<1>1. /\ r # q /\ holder[r] \in Cells
      /\ StorageRecycle(holder[r]) \/ StorageWaste(holder[r])
      /\ NotifyOne
      /\ holder' = [holder EXCEPT ![r] = holder[q], ![q] = NoCell]
      /\ UNCHANGED <<pending, entering, disabled, crashed>>
  BY DEF MoveAssign
<1>2. holder \in [Requests -> Cells \cup {NoCell, NullCell}]
  BY DEF TypeOK
<1>3. holder[r] \in InHand
  BY <1>1, Zenon DEF InHand
<1>4. InHand' = InHand \ {holder[r]}
  BY <1>1, <1>2, Zenon DEF InHand, OwnInv
<1>5. \A s, t \in Requests : holder'[s] = holder'[t] /\ holder'[s] \in Cells => s = t
  BY <1>1, <1>2, Zenon DEF OwnInv
<1>6. \A s \in pending : holder'[s] = NoCell
  BY <1>1, <1>2, Zenon DEF EmptyHanded, TypeOK
<1>7. holder' \in [Requests -> Cells \cup {NoCell, NullCell}]
  BY <1>1, <1>2, Zenon
<1>. QED BY <1>1, <1>3, <1>4, <1>5, <1>6, <1>7, GiveBackInv, Zenon

(* disable() and a spurious wakeup touch only who sleeps.                  *)
LEMMA WakeOnlyInv ==
  ASSUME Inv, NEW S \in SUBSET sleeping,
         sleeping' = sleeping \ S, woken' = woken \cup S,
         disabled' \in BOOLEAN, disabled' => disabled \/ S = sleeping,
         UNCHANGED <<storageVars, pending, holder, entering, crashed>>
  PROVE  Inv'
<1>. USE DEF Inv
<1>1. StorageInv' /\ used' = used
  BY StorageUnchangedInv, Zenon
<1>2. PlaceInv' /\ sleeping' \subseteq Sleeps /\ woken' \subseteq Sleeps
  BY WakeInv, Zenon
<1>3. TypeOK'
  BY <1>1, <1>2, Zenon DEF TypeOK, StorageInv
<1>4. OwnInv' /\ EmptyHanded' /\ DisabledWakesAll'
  BY <1>1 DEF OwnInv, InHand, EmptyHanded, DisabledWakesAll
<1>. QED BY <1>1, <1>2, <1>3, <1>4, Zenon

(* A step that touches only cells, clock and the mark of a crash.          *)
LEMMA PoolUnchangedInv ==
  ASSUME Inv, StorageInv', used' = used, crashed' \in BOOLEAN, UNCHANGED poolImplVars
  PROVE  Inv'
<1>. USE DEF Inv, poolImplVars
<1>1. TypeOK'
  BY Zenon DEF TypeOK, StorageInv
<1>2. PlaceInv' /\ EmptyHanded' /\ DisabledWakesAll'
  BY DEF PlaceInv, EmptyHanded, DisabledWakesAll
<1>3. OwnInv'
  BY DEF OwnInv, InHand
<1>. QED BY <1>1, <1>2, <1>3, Zenon

(* One step per action of the pool.                                        *)
LEMMA NextInv == Inv /\ [Next]_vars => Inv'
<1>. SUFFICES ASSUME Inv, [Next]_vars PROVE Inv'
  OBVIOUS
<1>0. crashed \in BOOLEAN /\ disabled \in BOOLEAN
  BY DEF Inv, TypeOK
<1>1. ASSUME NEW r \in Requests, NEW w \in WaitDurations, Call(r, w) PROVE Inv'
  BY <1>1, CallInv, Zenon
<1>2. ASSUME NEW x \in entering, Get(x) PROVE Inv'
  BY <1>2, GetInv, Zenon
<1>3. ASSUME NEW x \in woken, Resume(x) PROVE Inv'
  BY <1>3, ResumeInv, Zenon
<1>4. ASSUME NEW x \in sleeping, TimeOut(x) PROVE Inv'
  BY <1>4, TimeOutInv
<1>5. ASSUME NEW x \in sleeping, SpuriousWakeup(x) PROVE Inv'
  <2>. DEFINE S == {x}
  <2>1. /\ S \in SUBSET sleeping /\ sleeping' = sleeping \ S /\ woken' = woken \cup S
        /\ UNCHANGED <<storageVars, pending, holder, entering, disabled, crashed>>
    BY <1>5 DEF SpuriousWakeup
  <2>. HIDE DEF S
  <2>. QED BY <1>0, <2>1, WakeOnlyInv, Zenon
<1>6. ASSUME NEW r \in Requests, Return(r) PROVE Inv'
  BY <1>6, ReturnInv, Zenon
<1>7. ASSUME NEW r \in Requests, NEW q \in Requests, MoveAssign(r, q) PROVE Inv'
  BY <1>7, MoveAssignInv, Zenon
<1>8. ASSUME NEW r \in Requests, ReturnNull(r) PROVE Inv'
  BY <1>8, StorageUnchangedInv, PoolUnchangedInv, Zenon DEF ReturnNull, Inv
<1>9. ASSUME NEW r \in Requests, Reset(r) PROVE Inv'
  <2>1. holder[r] \in used
    BY <1>9 DEF Inv, OwnInv, InHand, Reset
  <2>2. StorageInv' /\ used' = used
    BY <1>9, <2>1, CellResetInv, Zenon DEF Inv, Reset
  <2>. QED BY <1>0, <1>9, <2>2, PoolUnchangedInv, Zenon DEF Reset
<1>10. CASE Disable
  <2>1. /\ sleeping' = sleeping \ sleeping /\ woken' = woken \cup sleeping /\ disabled' \in BOOLEAN
        /\ UNCHANGED <<storageVars, pending, holder, entering, crashed>>
    BY <1>10, Zenon DEF Disable
  <2>. QED BY <2>1, WakeOnlyInv, Zenon
<1>11. CASE Invalidate
  BY <1>0, <1>11, StorageInvalidateInv, PoolUnchangedInv, Zenon DEF Invalidate, Inv
<1>12. CASE Tick
  <2>1. now' \in Time
    BY <1>12, StorageAssumption DEF Tick, Inv, TypeOK, StorageTypeOK, Time
  <2>. QED BY <1>0, <1>12, <2>1, ClockInv, PoolUnchangedInv, Zenon DEF Tick, Inv
<1>13. CASE UNCHANGED vars
  BY <1>0, <1>13, StorageUnchangedInv, PoolUnchangedInv, Zenon DEF vars, Inv
<1>. QED BY <1>1, <1>2, <1>3, <1>4, <1>5, <1>6, <1>7, <1>8, <1>9, <1>10, <1>11, <1>12, <1>13, Zenon DEF Next

(* The conjunction of all of it, always.                                   *)
THEOREM Invariance == Spec => []Inv
BY InitInv, NextInv, PTL DEF Spec

-----------------------------------------------------------------------------
(* The state of the pool is well typed: times stay within the clock's      *)
(* range, whatever the waiting times and the lifespan.                     *)
THEOREM TypeCorrect == Spec => []TypeOK
<1>1. Inv => TypeOK
  BY DEF Inv
<1>. QED BY <1>1, Invariance, PTL

(* No locked section of the pool loses or doubles a cell or a thread, or   *)
(* forgets what invalidate() marked.                                       *)
THEOREM Conservation == Spec => []Conserved
<1>1. Inv => Conserved
  BY PlaceInvImplies, OwnInvImplies, Zenon DEF Inv, Conserved
<1>. QED BY <1>1, Invariance, PTL

(* After disable() nobody sleeps in get(), and nobody falls asleep.        *)
THEOREM NobodySleepsDisabled == Spec => []DisabledWakesAll
<1>1. Inv => DisabledWakesAll
  BY DEF Inv
<1>. QED BY <1>1, Invariance, PTL

(* Every step of the pool is a step of the abstract resource pool, or      *)
(* changes nothing that its users see, until a handle without a cell is    *)
(* used.                                                                   *)
THEOREM Refinement == Spec => ImplementsResourcePool
<1>. USE SyncPoolAssumption
<1>1. Init => Pool!PoolInit
  BY Zenon DEF Init, Pool!PoolInit, UserView
<1>2. Inv /\ [Next]_vars => [Pool!PoolNext]_(Pool!poolVars)
  <2>. SUFFICES ASSUME Inv, [Next]_vars, ~UNCHANGED <<pending, UserView>> PROVE Pool!PoolNext
    BY DEF Pool!poolVars
  <2>0. holder \in [Requests -> Cells \cup {NoCell, NullCell}]
    BY Zenon DEF Inv, TypeOK
  <2>. USE DEF Pool!PoolNext
  <2>1. ASSUME NEW r \in Requests, NEW w \in WaitDurations, Call(r, w) PROVE Pool!PoolNext
    BY <2>1, Zenon DEF Call, Pool!Call, UserView
  <2>2. ASSUME NEW r \in pending, AnswerError(r) PROVE Pool!PoolNext
    <3>1. r \in Requests /\ holder[r] = NoCell
      BY Zenon DEF Inv, TypeOK, EmptyHanded
    <3>2. UserView' = UserView
      BY <2>0, <2>2, <3>1, Zenon DEF AnswerError, UserView
    <3>. QED BY <2>2, <3>1, <3>2, Zenon DEF AnswerError, Pool!Refuse
  <2>3. ASSUME NEW r \in pending, AnswerCell(r) PROVE Pool!PoolNext
    <3>1. r \in Requests /\ holder[r] = NoCell
      BY DEF Inv, TypeOK, EmptyHanded
    <3>2. PICK c \in Cells : Lease(c) /\ holder' = [holder EXCEPT ![r] = c]
      BY <2>3, Zenon DEF AnswerCell
    <3>3. c \notin used
      BY <3>2, LeaseInv, Zenon DEF Inv
    <3>4. c \notin Pool!Held
      BY <3>3 DEF Inv, OwnInv, InHand, Pool!Held, UserView
    <3>5. UserView' = [UserView EXCEPT ![r] = c]
      BY <2>0, <3>1, <3>2, Zenon DEF UserView
    <3>. QED BY <2>3, <3>1, <3>4, <3>5, Zenon DEF AnswerCell, Pool!Grant
  <2>4. ASSUME NEW r \in pending, NEW w, Try(r, w) PROVE Pool!PoolNext
    BY <2>2, <2>3, <2>4, Zenon DEF Try, FallAsleep, UserView
  <2>5. ASSUME NEW x \in entering, Get(x) PROVE Pool!PoolNext
    <3>1. x.req \in pending
      BY Zenon DEF Inv, PlaceInv, ReqsOf
    <3>. QED BY <2>4, <2>5, <3>1, Zenon DEF Get
  <2>6. ASSUME NEW x \in woken, Resume(x) PROVE Pool!PoolNext
    <3>1. x.req \in pending
      BY Zenon DEF Inv, PlaceInv, ReqsOf
    <3>. QED BY <2>2, <2>4, <2>6, <3>1, Zenon DEF Resume
  <2>7. ASSUME NEW x \in sleeping, TimeOut(x) PROVE Pool!PoolNext
    <3>1. x.req \in pending
      BY DEF Inv, PlaceInv, ReqsOf
    <3>. QED BY <2>2, <2>7, <3>1, Zenon DEF TimeOut
  <2>8. ASSUME NEW r \in Requests, Return(r) PROVE Pool!PoolNext
    <3>1. UserView' = [UserView EXCEPT ![r] = NoCell] /\ UserView[r] # NoCell
      BY <2>0, <2>8, Zenon DEF Return, UserView
    <3>. QED BY <2>8, <3>1, Zenon DEF Return, Pool!GiveUp
  <2>9. ASSUME NEW r \in Requests, NEW q \in Requests, MoveAssign(r, q) PROVE Pool!PoolNext
    <3>1. /\ UserView' = [UserView EXCEPT ![r] = UserView[q], ![q] = NoCell]
          /\ UserView[r] # NoCell /\ r # q
      BY <2>0, <2>9, Zenon DEF MoveAssign, UserView
    <3>. QED BY <2>9, <3>1, Zenon DEF MoveAssign, Pool!Replace
  <2>10. CASE \/ \E x \in sleeping : SpuriousWakeup(x)
              \/ \E r \in Requests : ReturnNull(r)
              \/ \E r \in Requests : Reset(r)
              \/ Disable
              \/ Invalidate
              \/ Tick
              \/ UNCHANGED vars
    BY <2>10 DEF SpuriousWakeup, ReturnNull, Reset, Disable, Invalidate, Tick, vars, poolImplVars, UserView
  <2>. QED BY <2>1, <2>5, <2>6, <2>7, <2>8, <2>9, <2>10, Zenon DEF Next
<1>. QED BY <1>1, <1>2, Invariance, PTL DEF Spec, ImplementsResourcePool, Pool!PoolSpec

-----------------------------------------------------------------------------
(* Failover: an operation that was begun and is not over.                  *)
Active == pc \in {"asking", "refused", "trying"}

(* The time of the current try: its share is that of the tries left when   *)
(* it started, and it has not gone on for longer than that.                *)
TimeInv ==
    /\ pc \in {"idle", "asking", "refused", "trying", "done"}
    /\ left \in Nat /\ elapsed \in Nat /\ since \in Nat
    /\ opts.limit \in Nat \cup {None}
    /\ (opts.limit # None /\ pc = "idle") => elapsed = 0
    /\ (opts.limit # None /\ Active) =>
         /\ share = IF left > 0 THEN (opts.limit - since) \div left ELSE 0
         /\ since <= opts.limit
         /\ since <= elapsed /\ elapsed <= since + share
    /\ (opts.limit # None /\ pc = "done") => elapsed <= opts.limit
    /\ (opts.limit = None /\ (Active \/ pc = "done")) => share = None

-----------------------------------------------------------------------------
(* The share of one of n tries is a duration, no longer than the time      *)
(* divided, and the n shares together fit into it                          *)
(* (get_try_time_constraint).                                              *)
LEMMA ShareBounds ==
    ASSUME NEW t \in Nat, NEW n \in Nat \ {0}
    PROVE  t \div n \in Nat /\ t \div n <= t /\ n * (t \div n) <= t
<1> DEFINE q == t \div n
<1>1. q \in Int /\ t = n * q + (t % n) /\ t % n \in 0..(n - 1)
  BY SMT
<1>2. q >= 0
  BY <1>1, SMT
<1>3. n * q <= t
  BY <1>1, SMT
<1>4. q <= n * q
  BY <1>1, <1>2, SMT
<1> QED
  BY <1>1, <1>2, <1>3, <1>4

(* A time that holds n shares of s gives each of n tries at least s.       *)
LEMMA ShareAtLeast ==
    ASSUME NEW t \in Nat, NEW n \in Nat \ {0}, NEW s \in Nat, n * s <= t
    PROVE  t \div n >= s
<1> DEFINE q == t \div n
<1>1. q \in Int /\ t = n * q + (t % n) /\ t % n \in 0..(n - 1)
  BY SMT
<1>2. SUFFICES ASSUME q <= s - 1 PROVE FALSE
  BY <1>1
<1>3. n * q <= n * (s - 1)
  BY <1>1, <1>2, SMT
<1>4. n * (s - 1) = n * s - n
  BY SMT
<1> QED
  BY <1>1, <1>3, <1>4
(* A next try has at least one try left, and fewer than the try before it, *)
(* whether a retry counts down or a role_based skips roles.                *)
LEMMA NextIsFewer ==
    ASSUME left \in Nat, NEW e, NEW n \in NextTry(e)
    PROVE  n \in Nat /\ (n > 0 => n < left)
<1>1. CASE opts.kind = "retry"
  BY <1>1 DEF NextTry, get_next_try
<1>2. CASE opts.kind # "retry"
  <2> DEFINE able == {m \in 1..(left - 1) : can_recover(RoleAt(m), e)}
  <2>1. n = 0 \/ n \in able
    BY <1>2 DEF NextTry, initiate_next_try
  <2> QED
    BY <2>1
<1> QED
  BY <1>1, <1>2

(* Starting a try while the operation has not outlasted its limit          *)
(* establishes the invariant on its time (initiate_operation).             *)
LEMMA InitiateTime ==
    ASSUME TimeInv, opts.limit # None => elapsed <= opts.limit,
           NEW n \in Nat, NEW held, NEW returned, initiate_operation(n, held, returned),
           UNCHANGED <<opts, elapsed>>
    PROVE  TimeInv' /\ Active'
<1>1. left' = n /\ since' = elapsed /\ share' = get_try_time_constraint(n) /\ Active'
  BY DEF initiate_operation, Active
<1>2. CASE opts.limit = None
  BY <1>1, <1>2 DEF TimeInv, get_try_time_constraint, Active
<1>3. CASE opts.limit # None
  <2>1. elapsed \in Nat /\ opts.limit \in Nat /\ elapsed <= opts.limit
    BY <1>3 DEF TimeInv
  <2>2. TimeLeft = opts.limit - elapsed /\ TimeLeft \in Nat
    BY <2>1 DEF TimeLeft
  <2>3. share' = IF n > 0 THEN (opts.limit - elapsed) \div n ELSE 0
    BY <1>1, <1>3, <2>2 DEF get_try_time_constraint
  <2>4. share' \in Nat
    BY <2>1, <2>2, <2>3, ShareBounds
  <2> QED
    BY <1>1, <1>3, <2>1, <2>3, <2>4 DEF TimeInv, Active
<1> QED
  BY <1>2, <1>3

(* The share of the current try ends within the limit of the operation, so *)
(* the operation has not outlasted it (get_try_time_constraint).           *)
LEMMA InvWithinLimit == TimeInv => WithinLimit
<1> SUFFICES ASSUME TimeInv, opts.limit # None
             PROVE  elapsed <= opts.limit
  BY DEF WithinLimit
<1>1. opts.limit \in Nat /\ left \in Nat /\ since \in Nat /\ elapsed \in Nat
  BY DEF TimeInv
<1>2. CASE Active
  <2>1. /\ share = IF left > 0 THEN (opts.limit - since) \div left ELSE 0
        /\ since <= opts.limit /\ elapsed <= since + share
    BY <1>2 DEF TimeInv
  <2>2. share \in Nat /\ share <= opts.limit - since
    BY <1>1, <2>1, ShareBounds
  <2> QED
    BY <1>1, <2>1, <2>2
<1>3. CASE ~Active
  BY <1>1, <1>3 DEF TimeInv, Active
<1> QED
  BY <1>2, <1>3

(* A try that follows another one has at least as much time: what is left  *)
(* of the limit holds the old share once for every try left.               *)
LEMMA InitiateShare ==
    ASSUME TimeInv, Active, opts.limit # None,
           NEW n \in Nat, n > 0, n < left, share' = get_try_time_constraint(n)
    PROVE  share' >= share
<1>1. /\ opts.limit \in Nat /\ left \in Nat \ {0} /\ since \in Nat /\ elapsed \in Nat
      /\ share = (opts.limit - since) \div left
      /\ since <= opts.limit /\ elapsed <= since + share
  BY DEF TimeInv
<1> DEFINE t == opts.limit - since
<1>2. share \in Nat /\ left * share <= t
  BY <1>1, ShareBounds
<1>3. elapsed <= opts.limit
  BY InvWithinLimit DEF WithinLimit
<1>4. TimeLeft = opts.limit - elapsed /\ TimeLeft \in Nat
  BY <1>1, <1>3 DEF TimeLeft
<1>5. TimeLeft >= t - share
  BY <1>1, <1>2, <1>4
<1>6. t - share >= (left - 1) * share
  BY <1>1, <1>2, SMT
<1>7. (left - 1) * share >= n * share
  BY <1>1, <1>2, SMT
<1>8. n * share <= TimeLeft
  <2> HIDE DEF t
  <2>1. n * share \in Int /\ (left - 1) * share \in Int /\ t \in Int
    BY <1>1, <1>2 DEF t
  <2> QED
    BY <1>2, <1>4, <1>5, <1>6, <1>7, <2>1
<1>9. TimeLeft \div n >= share
  BY <1>2, <1>4, <1>8, ShareAtLeast
<1> QED
  BY <1>9 DEF get_try_time_constraint

(* The end of a try keeps the invariant on time, and what follows never    *)
(* has a smaller share (continuation::operator()).                         *)
LEMMA ContinuationTime ==
    ASSUME TimeInv, Active, NEW e, NEW c, continuation(e, c)
    PROVE  TimeInv' /\ (share \in Nat => share' >= share)
<1>1. PICK n \in NextTry(e) :
         /\ \/ /\ n > 0
               /\ \E held, returned : initiate_operation(n, held, returned)
            \/ n = 0 /\ pc' = "done" /\ UNCHANGED <<left, share, since>>
         /\ UNCHANGED <<opts, elapsed>>
  BY DEF continuation
<1>2. n \in Nat /\ (n > 0 => n < left)
  BY NextIsFewer DEF TimeInv
<1>3. opts.limit # None => elapsed <= opts.limit
  BY InvWithinLimit DEF WithinLimit
<1>4. CASE n > 0
  <2>1. PICK held, returned : initiate_operation(n, held, returned)
    BY <1>1, <1>4
  <2>2. TimeInv'
    BY <1>1, <1>2, <1>3, <2>1, InitiateTime
  <2>3. share' = get_try_time_constraint(n)
    BY <2>1 DEF initiate_operation
  <2>4. CASE opts.limit # None
    BY <1>2, <1>4, <2>2, <2>3, <2>4, InitiateShare
  <2>5. CASE opts.limit = None
    BY <2>2, <2>5, FailoverAssumption DEF TimeInv
  <2> QED
    BY <2>4, <2>5
<1>5. CASE n = 0
  BY <1>1, <1>3, <1>5 DEF TimeInv, Active
<1> QED
  BY <1>2, <1>4, <1>5

-----------------------------------------------------------------------------
(* Every operation starts with its whole time before it (get_first_try).   *)
LEMMA InitTime == FailoverInit => TimeInv
<1> SUFFICES ASSUME FailoverInit PROVE TimeInv
  OBVIOUS
<1>1. opts.limit \in Nat \cup {None}
  BY FailoverAssumption, Zenon DEF FailoverInit, Options
<1>2. left \in Nat
  <2>1. CASE opts.kind = "retry"
    BY <2>1, FailoverAssumption DEF FailoverInit, Options
  <2>2. CASE opts.kind # "retry"
    <3>1. opts.roles \in UNION {[1..n -> Roles] : n \in 1..MaxTries}
      BY <2>2 DEF FailoverInit, Options
    <3>2. PICK n \in 1..MaxTries : opts.roles \in [1..n -> Roles]
      BY <3>1
    <3>3. Len(opts.roles) \in Nat
      BY <3>2, FailoverAssumption
    <3> QED
      BY <2>2, <3>3 DEF FailoverInit
  <2> QED
    BY <2>1, <2>2
<1> QED
  BY <1>1, <1>2 DEF FailoverInit, TimeInv, Active

(* Every step keeps the invariant on time, and no step but the first gives *)
(* a try a smaller share.                                                  *)
LEMMA NextTime ==
    ASSUME TimeInv, [FailoverNext]_failoverVars
    PROVE  TimeInv' /\ ((share \in Nat /\ pc # "idle") => share' >= share)
<1> USE FailoverAssumption
<1>1. CASE Start
  <2>1. initiate_operation(left, 0, {}) /\ pc = "idle" /\ UNCHANGED <<opts, elapsed>>
    BY <1>1 DEF Start
  <2>2. left \in Nat /\ (opts.limit # None => elapsed <= opts.limit)
    BY <2>1 DEF TimeInv
  <2> QED
    BY <2>1, <2>2, InitiateTime
<1>2. CASE Refused
  BY <1>2, ContinuationTime DEF Refused, Active
<1>3. CASE Granted
  BY <1>3 DEF Granted, TimeInv, Active
<1>4. CASE QueueTimeout
  BY <1>4, ContinuationTime DEF QueueTimeout, Active
<1>5. CASE Succeed
  <2>1. opts.limit # None => elapsed <= opts.limit
    BY InvWithinLimit DEF WithinLimit
  <2> QED
    BY <1>5, <2>1 DEF Succeed, TimeInv, Active
<1>6. CASE Fail
  BY <1>6, ContinuationTime DEF Fail, Active
<1>7. CASE Expire
  BY <1>7, ContinuationTime DEF Expire, Active
<1>8. CASE Others
  BY <1>8 DEF Others, TimeInv, Active
<1>9. CASE TimePasses
  <2>1. /\ pc \in {"asking", "trying"} /\ share # None /\ ~(elapsed >= since + share)
        /\ elapsed' = elapsed + 1 /\ UNCHANGED <<opts, left, pc, share, since>>
    BY <1>9 DEF TimePasses, Timed, Over
  <2>2. CASE opts.limit = None
    BY <2>1, <2>2 DEF TimeInv, Active
  <2>3. CASE opts.limit # None
    <3>1. since \in Nat /\ elapsed \in Nat /\ opts.limit \in Nat /\ left \in Nat
      BY <2>3 DEF TimeInv
    <3>2. /\ share = IF left > 0 THEN (opts.limit - since) \div left ELSE 0
          /\ since <= opts.limit /\ since <= elapsed
      BY <2>1, <2>3 DEF TimeInv, Active
    <3>3. share \in Nat
      BY <3>1, <3>2, ShareBounds
    <3> QED
      BY <2>1, <2>3, <3>1, <3>2, <3>3 DEF TimeInv, Active
  <2> QED
    BY <2>2, <2>3
<1>10. CASE UNCHANGED failoverVars
  BY <1>10 DEF failoverVars, TimeInv, Active
<1> QED
  BY <1>1, <1>2, <1>3, <1>4, <1>5, <1>6, <1>7, <1>8, <1>9, <1>10 DEF FailoverNext, Finished

(* The tries of an operation with a time constraint stay within it, for    *)
(* any limit, number of tries and roles, and whatever the pools do.        *)
THEOREM StaysWithinLimit == FailoverSpec => []WithinLimit
<1>1. FailoverInit => TimeInv
  BY InitTime
<1>2. TimeInv /\ [FailoverNext]_failoverVars => TimeInv'
  BY NextTime
<1>3. TimeInv => WithinLimit
  BY InvWithinLimit
<1> QED
  BY <1>1, <1>2, <1>3, PTL DEF FailoverSpec

(* No try has less time than the one before it: the promise of the comment *)
(* on retry_strategy::tries, for both strategies and in whole ticks.       *)
THEOREM TimeNeverShrinks == FailoverSpec => SharesNeverShrink
<1>1. FailoverInit => TimeInv
  BY InitTime
<1>2. TimeInv /\ [FailoverNext]_failoverVars => TimeInv'
  BY NextTime
<1>3. TimeInv /\ [FailoverNext]_failoverVars => [(share \in Nat /\ pc # "idle") => share' >= share]_failoverVars
  BY NextTime
<1> QED
  BY <1>1, <1>2, <1>3, PTL DEF FailoverSpec, SharesNeverShrink

-----------------------------------------------------------------------------
(* With close_connection the pools get no open connection back from a try  *)
(* that failed, so that there is none to be reused.                        *)
ClosedInv == FailedIsClosed /\ (opts.close_connection => parked = {})

(* The next try starts without a connection that failed                    *)
(* (initiate_operation), if none was parked and none is returned open.     *)
LEMMA InitiateClosed ==
    ASSUME ClosedInv, NEW n, NEW held, NEW returned,
           opts.close_connection => returned = {},
           initiate_operation(n, held, returned), UNCHANGED opts
    PROVE  ClosedInv'
<1>1. pc' # "done" /\ (opts.close_connection => conn' # "reused" /\ parked' = {})
  BY DEF ClosedInv, initiate_operation
<1> QED
  BY <1>1 DEF ClosedInv, FailedIsClosed

(* continuation::operator() closes the connection it was given, also when  *)
(* roles are skipped and when no try is left.                              *)
LEMMA ContinuationClosed ==
    ASSUME ClosedInv, NEW e, NEW c, continuation(e, c)
    PROVE  ClosedInv'
<1> DEFINE after(n) == defer_close_connection(c, n)
<1>1. \A n : opts.close_connection => after(n) \in {"null", "closed"}
  BY DEF defer_close_connection
<1>2. PICK n \in NextTry(e) :
         /\ \/ \E held : initiate_operation(n, held, IF after(n) \in {"open", "reused"} THEN {RoleAt(left)} ELSE {})
            \/ pc' = "done" /\ conn' = after(n) /\ UNCHANGED parked
         /\ UNCHANGED opts
  BY DEF continuation
<1> HIDE DEF after
<1>3. CASE \E held : initiate_operation(n, held, IF after(n) \in {"open", "reused"} THEN {RoleAt(left)} ELSE {})
  <2> DEFINE returned == IF after(n) \in {"open", "reused"} THEN {RoleAt(left)} ELSE {}
  <2>1. opts.close_connection => returned = {}
    BY <1>1
  <2>2. PICK held : initiate_operation(n, held, returned)
    BY <1>3
  <2> HIDE DEF returned
  <2> QED
    BY <1>2, <2>1, <2>2, InitiateClosed
<1>4. CASE pc' = "done" /\ conn' = after(n) /\ UNCHANGED parked
  BY <1>1, <1>2, <1>4 DEF ClosedInv, FailedIsClosed
<1> QED
  BY <1>2, <1>3, <1>4

(* With the close_connection option no try, and no error handler, gets a   *)
(* connection that an earlier try has failed on, for any tries and roles.  *)
THEOREM FailedClosed == FailoverSpec => []FailedIsClosed
<1>1. FailoverInit => ClosedInv
  BY DEF FailoverInit, ClosedInv, FailedIsClosed
<1>2. ClosedInv /\ [FailoverNext]_failoverVars => ClosedInv'
  <2> SUFFICES ASSUME ClosedInv, [FailoverNext]_failoverVars PROVE ClosedInv'
    OBVIOUS
  <2>1. CASE Start
    BY <2>1, InitiateClosed DEF Start
  <2>2. CASE Refused \/ QueueTimeout \/ Fail \/ Expire
    BY <2>2, ContinuationClosed DEF Refused, QueueTimeout, Fail, Expire
  <2>3. CASE Granted \/ Succeed
    BY <2>3 DEF Granted, Succeed, ClosedInv, FailedIsClosed
  <2>4. CASE Others \/ TimePasses \/ UNCHANGED failoverVars
    BY <2>4 DEF Others, TimePasses, failoverVars, ClosedInv, FailedIsClosed
  <2> QED
    BY <2>1, <2>2, <2>3, <2>4 DEF FailoverNext, Finished
<1>3. ClosedInv => FailedIsClosed
  BY DEF ClosedInv
<1> QED
  BY <1>1, <1>2, <1>3, PTL DEF FailoverSpec

-----------------------------------------------------------------------------
(* The tries left of a role_based operation are positions in its roles.    *)
RolesInv ==
    opts.kind # "retry" =>
        /\ Len(opts.roles) \in Nat
        /\ opts.roles \in [1..Len(opts.roles) -> Roles]
        /\ left \in 1..Len(opts.roles)

(* get_first_try() starts with all the roles before it.                    *)
LEMMA InitRoles == FailoverInit => RolesInv
<1> SUFFICES ASSUME FailoverInit, opts.kind # "retry" PROVE RolesInv
  BY DEF RolesInv
<1>1. opts.roles \in UNION {[1..n -> Roles] : n \in 1..MaxTries}
  BY DEF FailoverInit, Options
<1>2. PICK n \in 1..MaxTries : opts.roles \in [1..n -> Roles]
  BY <1>1
<1>3. Len(opts.roles) = n /\ n \in Nat /\ n >= 1
  BY <1>2, FailoverAssumption
<1> QED
  BY <1>2, <1>3 DEF FailoverInit, RolesInv

(* The code that the timer of a try ends it with is a connection error,    *)
(* which can_recover() of both roles accepts.                              *)
LEMMA TimeoutRecovered == \A role : can_recover(role, Timeout)
<1>1. Timeout \in codes_for_condition("connection_error")
  BY DEF Timeout, codes_for_condition, Of
<1>2. SameCode(Timeout, Timeout)
  BY DEF SameCode, Timeout
<1>3. ASSUME NEW role PROVE can_recover(role, Timeout)
  <2> DEFINE names == {"connection_error", "type_mismatch", "protocol_error"}
                        \cup (IF role = "master" THEN {"database_readonly"} ELSE {})
  <2>1. <<"errc", "connection_error">> \in Of("errc", names)
    BY DEF Of
  <2>2. /\ <<"errc", "connection_error">>[1] = "errc"
        /\ <<"errc", "connection_error">>[2] = "connection_error"
    OBVIOUS
  <2> HIDE DEF names
  <2>3. match_code(Of("errc", names), Timeout)
    BY <1>1, <1>2, <2>1, <2>2 DEF match_code
  <2> QED
    BY <2>3 DEF can_recover, names
<1> QED
  BY <1>3

(* initiate_next_try() finds a try for an error that every role recovers,  *)
(* unless the one that ends is the last.                                   *)
LEMMA RecoveredGoesOn ==
    ASSUME RolesInv, opts.kind # "retry", NEW e, \A role : can_recover(role, e),
           0 \in NextTry(e)
    PROVE  left = 1
<1> DEFINE able == {n \in 1..(left - 1) : can_recover(RoleAt(n), e)}
<1>1. left \in Nat \ {0}
  BY DEF RolesInv
<1>2. able = 1..(left - 1) /\ 0 \notin able
  BY <1>1
<1>3. able = {}
  BY <1>2 DEF NextTry, initiate_next_try
<1> QED
  BY <1>1, <1>2, <1>3

(* continuation::operator() keeps to the roles of the operation.           *)
LEMMA ContinuationRoles ==
    ASSUME RolesInv, NEW e, NEW c, continuation(e, c)
    PROVE  RolesInv' /\ (pc' = "done" => 0 \in NextTry(e) /\ answer' = e)
<1>1. PICK n \in NextTry(e) :
         /\ \/ n > 0 /\ left' = n /\ pc' # "done"
            \/ n = 0 /\ pc' = "done" /\ answer' = e /\ UNCHANGED left
         /\ UNCHANGED opts
  BY DEF continuation, initiate_operation
<1>2. CASE opts.kind = "retry"
  BY <1>1, <1>2 DEF RolesInv
<1>3. CASE opts.kind # "retry"
  <2>1. left \in Nat
    BY <1>3 DEF RolesInv
  <2>2. n \in Nat /\ (n > 0 => n < left)
    BY <2>1, NextIsFewer
  <2> QED
    BY <1>1, <1>3, <2>1, <2>2 DEF RolesInv
<1> QED
  BY <1>2, <1>3

(* A role_based operation gives its user a timeout only from its last try, *)
(* for any roles in any order: a try that runs out of time is followed by  *)
(* the next role.                                                          *)
THEOREM TimeoutsFallBack == FailoverSpec => TimeoutFallsBack
<1> DEFINE A == (opts.kind = "role_based" /\ pc' = "done" /\ answer' = Timeout) =>
                  (pc = "done" \/ left = 1)
<1>1. FailoverInit => RolesInv
  BY InitRoles
<1>2. RolesInv /\ [FailoverNext]_failoverVars => RolesInv' /\ [A]_failoverVars
  <2> SUFFICES ASSUME RolesInv, [FailoverNext]_failoverVars PROVE RolesInv' /\ [A]_failoverVars
    OBVIOUS
  <2>1. ASSUME NEW e, NEW c, continuation(e, c) PROVE RolesInv' /\ A
    <3>1. RolesInv' /\ (pc' = "done" => 0 \in NextTry(e) /\ answer' = e)
      BY <2>1, ContinuationRoles
    <3> QED
      BY <3>1, TimeoutRecovered, RecoveredGoesOn
  <2>2. CASE Refused \/ QueueTimeout \/ Fail \/ Expire
    BY <2>1, <2>2 DEF Refused, QueueTimeout, Fail, Expire
  <2>3. CASE Start
    BY <2>3 DEF Start, initiate_operation, RolesInv
  <2>4. CASE Succeed
    BY <2>4 DEF Succeed, RolesInv, Nothing, Timeout
  <2>5. CASE Granted \/ Others \/ TimePasses \/ UNCHANGED failoverVars
    BY <2>5 DEF Granted, Others, TimePasses, failoverVars, RolesInv
  <2> QED
    BY <2>2, <2>3, <2>4, <2>5 DEF FailoverNext, Finished
<1> QED
  BY <1>1, <1>2, PTL DEF FailoverSpec, TimeoutFallsBack

-----------------------------------------------------------------------------
(* Every pool that is asked is one of the roles', and a try that works has *)
(* a connection.                                                           *)
PoolsInv ==
    /\ RolesInv
    /\ left \in Nat
    /\ opts.kind = "retry" => opts.roles[1] \in Roles
    /\ others \in [Roles -> 0..Capacity]
    /\ pc = "trying" => conn # "null"

(* The pool of the try with n tries left is that of one of the roles.      *)
LEMMA RoleType ==
    ASSUME PoolsInv, NEW n \in Nat, opts.kind # "retry" => n \in 1..left
    PROVE  RoleAt(n) \in Roles
<1>1. CASE opts.kind = "retry"
  BY <1>1 DEF PoolsInv, RoleAt
<1>2. CASE opts.kind # "retry"
  <2>1. Len(opts.roles) - n + 1 \in 1..Len(opts.roles)
    BY <1>2 DEF PoolsInv, RolesInv
  <2> QED
    BY <1>2, <2>1 DEF PoolsInv, RolesInv, RoleAt
<1> QED
  BY <1>1, <1>2

(* What initiate_operation() says of a refusal: there is no time to wait   *)
(* in, and the cells of the pool are held by others and the failed try.    *)
LEMMA InitiateRefused ==
    ASSUME PoolsInv, NEW n \in Nat, opts.kind # "retry" => n \in 1..left,
           NEW held \in {0, 1}, NEW returned,
           initiate_operation(n, held, returned), UNCHANGED <<opts, others>>
    PROVE  /\ PoolsInv'
           /\ pc' = "refused" =>
                /\ share' \in {None, 0}
                /\ \/ others[RoleAt(left)'] = Capacity
                   \/ held = 1 /\ others[RoleAt(left)'] = Capacity - 1
<1>1. left' = n /\ RoleAt(left)' = RoleAt(n)
  BY DEF initiate_operation, RoleAt
<1>2. others[RoleAt(n)] \in 0..Capacity /\ Capacity \in Nat
  BY RoleType, FailoverAssumption, Zenon DEF PoolsInv
<1>3. RolesInv'
  BY <1>1 DEF PoolsInv, RolesInv
<1>4. pc' = "trying" => conn' # "null"
  BY DEF initiate_operation
<1>5. PoolsInv'
  BY <1>1, <1>3, <1>4 DEF PoolsInv
<1>6. pc' = "refused" => others[RoleAt(n)] + held >= Capacity /\ share' \in {None, 0}
  BY DEF initiate_operation, queue_timeout
<1> QED
  BY <1>1, <1>2, <1>5, <1>6

(* A request for a connection is refused at once only without time to wait *)
(* in, and because of other operations or of the failed try before it, for *)
(* pools of any size.                                                      *)
THEOREM RefusalsHaveCause == FailoverSpec => RefusedForCause
<1> DEFINE A == (pc' = "refused" /\ (pc # "refused" \/ left' # left)) =>
                  /\ share' \in {None, 0}
                  /\ \/ others[RoleAt(left)'] = Capacity
                     \/ /\ pc = "trying" /\ RoleAt(left)' = RoleAt(left)
                        /\ others[RoleAt(left)] = Capacity - 1
<1>1. FailoverInit => PoolsInv
  <2> SUFFICES ASSUME FailoverInit PROVE PoolsInv
    OBVIOUS
  <2>1. RolesInv
    BY InitRoles
  <2>2. opts.kind = "retry" => opts.roles[1] \in Roles
    BY DEF FailoverInit, Options
  <2>3. left \in Nat
    BY InitTime DEF TimeInv
  <2> QED
    BY <2>1, <2>2, <2>3 DEF FailoverInit, PoolsInv
<1>2. PoolsInv /\ [FailoverNext]_failoverVars => PoolsInv' /\ [A]_failoverVars
  <2> SUFFICES ASSUME PoolsInv, [FailoverNext]_failoverVars PROVE PoolsInv' /\ [A]_failoverVars
    OBVIOUS
  <2>0. /\ pc = "trying" => conn # "null"
        /\ left \in Nat
    BY DEF PoolsInv
  <2>1. ASSUME NEW e, NEW c, continuation(e, c), c # "null" => pc = "trying" PROVE PoolsInv' /\ A
    <3>1. PICK n \in NextTry(e), held \in {0, 1} :
            /\ \/ /\ n > 0
                  /\ \E returned : initiate_operation(n, held, returned)
                  /\ held = 1 => c # "null" /\ RoleAt(n) = RoleAt(left)
               \/ n = 0 /\ pc' = "done" /\ UNCHANGED left
            /\ UNCHANGED <<opts, others>>
      <4>1. PICK n \in NextTry(e) : continuation(e, c)!(n)
        BY <2>1 DEF continuation
      <4> QED
        BY <4>1
    <3>2. CASE n > 0
      <4>1. n \in Nat /\ (opts.kind # "retry" => n \in 1..left)
        BY <2>0, <3>2, NextIsFewer
      <4>2. PICK returned : initiate_operation(n, held, returned)
        BY <3>1, <3>2
      <4>3. RoleAt(left)' = RoleAt(n)
        BY <3>1, <4>2 DEF initiate_operation, RoleAt
      <4> QED
        BY <2>1, <3>1, <3>2, <4>1, <4>2, <4>3, InitiateRefused
    <3>3. CASE pc' = "done" /\ UNCHANGED <<left, opts, others>>
      BY <3>3 DEF PoolsInv, RolesInv
    <3> QED
      BY <3>1, <3>2, <3>3
  <2>2. CASE Refused \/ QueueTimeout
    BY <2>1, <2>2 DEF Refused, QueueTimeout
  <2>3. CASE Fail \/ Expire
    BY <2>1, <2>3 DEF Fail, Expire
  <2>4. CASE Start
    <3>1. opts.kind # "retry" => left \in 1..left
      BY DEF PoolsInv, RolesInv
    <3> QED
      BY <2>0, <2>4, <3>1, InitiateRefused DEF Start
  <2>5. CASE Granted \/ Succeed \/ TimePasses \/ UNCHANGED failoverVars
    BY <2>5 DEF Granted, Succeed, TimePasses, failoverVars, PoolsInv, RolesInv
  <2>6. CASE Others
    BY <2>6, FailoverAssumption DEF Others, PoolsInv, RolesInv
  <2> QED
    BY <2>2, <2>3, <2>4, <2>5, <2>6 DEF FailoverNext, Finished
<1> QED
  BY <1>1, <1>2, PTL DEF FailoverSpec, RefusedForCause
=============================================================================
