---------------------------- MODULE StorageProofs ----------------------------
(***************************************************************************)
(* What every operation of detail/storage.hpp preserves, for any number of *)
(* cells, any timeouts and any clock.  The proofs about the two pools cite *)
(* these lemmas where an action of theirs calls the storage.               *)
(***************************************************************************)
EXTENDS Storage, FiniteSetTheorems, SequenceTheorems, TLAPS

-----------------------------------------------------------------------------
(* Times compare as integers.                                              *)
LEMMA TimeInt == Time \subseteq Int
BY StorageAssumption DEF Time

(* time_traits::add stays within the clock's range and does not go back.   *)
LEMMA AddType ==
  ASSUME NEW t \in Time, NEW d \in Nat
  PROVE  Add(t, d) \in Time /\ t <= Add(t, d)
BY StorageAssumption DEF Add, Time

(* The drop time that recycle() computes is a time not after either bound. *)
LEMMA EarlierType ==
  ASSUME NEW s \in Time, NEW t \in Time
  PROVE  Earlier(s, t) \in Time /\ Earlier(s, t) <= s /\ Earlier(s, t) <= t
BY StorageAssumption DEF Earlier, Time

(* The end of a cell's life is a time.                                     *)
LEMMA LifeEndType ==
  ASSUME StorageTypeOK, NEW c \in Cells
  PROVE  LifeEnd(c) \in Time
BY AddType, StorageAssumption DEF StorageTypeOK, LifeEnd

(* list::push_back in terms of what the list holds.                        *)
LEMMA AppendRange ==
  ASSUME NEW s \in Seq(Cells), NEW c \in Cells, IsInjective(s), c \notin Range(s)
  PROVE  /\ Append(s, c) \in Seq(Cells)
         /\ IsInjective(Append(s, c))
         /\ Range(Append(s, c)) = Range(s) \cup {c}
<1>1. /\ Append(s, c) \in Seq(Cells)
      /\ Len(Append(s, c)) = Len(s) + 1
      /\ \A i \in 1..Len(s) : Append(s, c)[i] = s[i]
      /\ Append(s, c)[Len(s) + 1] = c
  BY AppendProperties
<1>2. /\ Len(s) \in Nat
      /\ DOMAIN s = 1..Len(s)
      /\ DOMAIN Append(s, c) = 1..(Len(s) + 1)
  BY <1>1, LenProperties
<1>3. IsInjective(Append(s, c))
  BY <1>1, <1>2 DEF IsInjective, Range
<1>4. Range(Append(s, c)) = Range(s) \cup {c}
  BY <1>1, <1>2 DEF Range
<1>. QED BY <1>1, <1>3, <1>4

(* The loop of lease() cuts the list of available cells in three.          *)
LEMMA LeaseCut ==
  ASSUME NEW s \in Seq(Cells), NEW i \in DOMAIN s, IsInjective(s)
  PROVE  LET before == {s[j] : j \in 1..(i - 1)}
             after == SubSeq(s, i + 1, Len(s))
         IN /\ after \in Seq(Cells)
            /\ IsInjective(after)
            /\ Range(s) = before \cup {s[i]} \cup Range(after)
            /\ s[i] \in Cells
            /\ s[i] \notin before \cup Range(after)
            /\ before \cap Range(after) = {}
<1>. DEFINE before == {s[j] : j \in 1..(i - 1)}
            after == SubSeq(s, i + 1, Len(s))
<1>1. /\ Len(s) \in Nat
      /\ s \in [1..Len(s) -> Cells]
      /\ DOMAIN s = 1..Len(s)
      /\ i \in 1..Len(s)
  BY LenProperties
<1>2. /\ after \in Seq(Cells)
      /\ Len(after) = Len(s) - i
      /\ \A k \in 1..(Len(s) - i) : after[k] = s[i + k]
  <2>1. \A k \in (i + 1)..Len(s) : s[k] \in Cells
    BY <1>1
  <2>2. /\ after \in Seq(Cells)
        /\ Len(after) = IF i + 1 <= Len(s) THEN Len(s) - (i + 1) + 1 ELSE 0
        /\ \A k \in 1..(Len(s) - (i + 1) + 1) : after[k] = s[(i + 1) + k - 1]
    BY <1>1, <2>1, SubSeqProperties
  <2>. QED BY <1>1, <2>2
<1>3. DOMAIN after = 1..(Len(s) - i)
  BY <1>2, LenProperties
<1>4. Range(after) = {s[k] : k \in (i + 1)..Len(s)}
  <2>1. ASSUME NEW x \in Range(after) PROVE x \in {s[k] : k \in (i + 1)..Len(s)}
    BY <1>1, <1>2, <1>3 DEF Range
  <2>2. ASSUME NEW k \in (i + 1)..Len(s) PROVE s[k] \in Range(after)
    <3>1. k - i \in 1..(Len(s) - i) /\ after[k - i] = s[i + (k - i)]
      BY <1>1, <1>2, SMTT(30)
    <3>. QED BY <1>1, <1>3, <3>1 DEF Range
  <2>. QED BY <2>1, <2>2
<1>5. IsInjective(after)
  BY <1>1, <1>2, <1>3, SMTT(30) DEF IsInjective
<1>6. Range(s) = before \cup {s[i]} \cup Range(after)
  <2>1. 1..Len(s) = 1..(i - 1) \cup {i} \cup (i + 1)..Len(s)
    BY <1>1
  <2>2. Range(s) = {s[k] : k \in 1..(i - 1) \cup {i} \cup (i + 1)..Len(s)}
    BY <1>1, <2>1 DEF Range
  <2>. QED BY <1>4, <2>2
<1>7. s[i] \in Cells /\ s[i] \notin before \cup Range(after)
  BY <1>1, <1>4 DEF IsInjective
<1>8. before \cap Range(after) = {}
  BY <1>1, <1>4 DEF IsInjective
<1>. QED BY <1>2, <1>5, <1>6, <1>7, <1>8

-----------------------------------------------------------------------------
(* Both families of constructors build a storage in order: all cells       *)
(* wasted and empty, or all available with a value.                        *)
LEMMA StorageInitInv == StorageInit => StorageInv
<1>. SUFFICES ASSUME StorageInit PROVE StorageInv
  OBVIOUS
<1>. USE StorageAssumption DEF StorageInit
<1>1. Cardinality(Cells) \in Nat
  BY FS_CardinalityType
<1>2. now \in Time /\ TimeMax \in Time
  BY DEF Time
<1>3. /\ Add(now, IdleTimeout) \in Time
      /\ Add(now, Lifespan) \in Time
      /\ Earlier(Add(now, IdleTimeout), Add(now, Lifespan)) \in Time
      /\ Earlier(Add(now, IdleTimeout), Add(now, Lifespan)) <= Add(now, Lifespan)
  BY <1>2, AddType, EarlierType, Zenon
<1>4. CASE InitWasted
  <2>. USE <1>4 DEF InitWasted
  <2>1. StorageTypeOK
    BY <1>2 DEF StorageTypeOK
  <2>2. CellsPartitioned
    BY DEF CellsPartitioned, AvailableCells, Range, IsInjective
  <2>3. WastedHoldNothing /\ StaleIsMarked /\ DropWithinLifespan
    BY DEF WastedHoldNothing, StaleIsMarked, DropWithinLifespan, AvailableCells, Range
  <2>. QED BY <2>1, <2>2, <2>3 DEF StorageInv
<1>5. CASE InitGenerated
  <2>. USE <1>5 DEF InitGenerated
  <2>1. /\ available \in [1..Cardinality(Cells) -> Cells]
        /\ IsInjective(available)
        /\ \A c \in Cells : \E j \in 1..Cardinality(Cells) : available[j] = c
    BY DEF Bijection, Injection, Surjection
  <2>2. available \in Seq(Cells)
    BY <1>1, <2>1, SeqDef, Zenon
  <2>3. AvailableCells = Cells
    BY <2>1 DEF AvailableCells, Range
  <2>4. StorageTypeOK
    BY <1>2, <1>3, <2>2, Zenon DEF StorageTypeOK
  <2>5. CellsPartitioned
    BY <2>1, <2>3 DEF CellsPartitioned
  <2>6. WastedHoldNothing /\ StaleIsMarked
    BY DEF WastedHoldNothing, StaleIsMarked
  <2>7. DropWithinLifespan
    BY <1>3, <2>3 DEF DropWithinLifespan, LifeEnd
  <2>. QED BY <2>4, <2>5, <2>6, <2>7 DEF StorageInv
<1>. QED BY <1>4, <1>5

(* lease() on its first path, a live available cell: the cell joins used_, *)
(* and it was in nobody's hands before.                                    *)
LEMMA LeaseAvailableInv ==
  ASSUME StorageInv, NEW c \in Cells, LeaseAvailable(c)
  PROVE  StorageInv' /\ used' = used \cup {c} /\ c \notin used
<1>1. PICK i \in DOMAIN available : LeaseAvailable(c)!(i)
  BY Zenon DEF LeaseAvailable
<1>. DEFINE dropped == {available[j] : j \in 1..(i - 1)}
<1>2. /\ available' \in Seq(Cells)
      /\ IsInjective(available')
      /\ AvailableCells = dropped \cup {c} \cup AvailableCells'
      /\ c \notin dropped \cup AvailableCells'
      /\ dropped \cap AvailableCells' = {}
  BY <1>1, LeaseCut, Zenon DEF StorageInv, StorageTypeOK, CellsPartitioned, AvailableCells
<1>3. /\ used' = used \cup {c}
      /\ wasted' = wasted \cup dropped
      /\ value' = [d \in Cells |-> value[d] /\ d \notin dropped]
      /\ UNCHANGED <<drop_time, reset_time, waste_on_recycle, now, stale>>
  BY <1>1
<1>. HIDE DEF dropped
<1>4. StorageTypeOK'
  <2>1. \A d \in Cells : (value[d] /\ d \notin dropped) \in BOOLEAN
    OBVIOUS
  <2>2. value' \in [Cells -> BOOLEAN]
    BY <1>3, <2>1
  <2>3. dropped \subseteq Cells
    BY <1>2 DEF StorageInv, CellsPartitioned
  <2>. QED BY <1>2, <1>3, <2>2, <2>3, Zenon DEF StorageInv, StorageTypeOK, Time
<1>5. CellsPartitioned'
  BY <1>2, <1>3 DEF StorageInv, CellsPartitioned
<1>6. WastedHoldNothing'
  BY <1>2, <1>3, Zenon DEF StorageInv, CellsPartitioned, WastedHoldNothing
<1>7. StaleIsMarked'
  BY <1>2, <1>3 DEF StorageInv, StorageTypeOK, CellsPartitioned, StaleIsMarked
<1>8. DropWithinLifespan'
  BY <1>2, <1>3 DEF StorageInv, DropWithinLifespan, LifeEnd
<1>9. c \notin used
  BY <1>2 DEF StorageInv, CellsPartitioned
<1>. QED BY <1>3, <1>4, <1>5, <1>6, <1>7, <1>8, <1>9, Zenon DEF StorageInv

(* lease() on its second path, a wasted cell.                              *)
LEMMA LeaseWastedInv ==
  ASSUME StorageInv, NEW c \in Cells, LeaseWasted(c)
  PROVE  StorageInv' /\ used' = used \cup {c} /\ c \notin used
<1>. USE DEF LeaseWasted
<1>1. AvailableCells' = {} /\ available' \in Seq(Cells) /\ IsInjective(available')
  BY EmptySeq DEF AvailableCells, Range, IsInjective
<1>2. StorageTypeOK'
  <2>1. value' \in [Cells -> BOOLEAN]
    OBVIOUS
  <2>2. waste_on_recycle' \in [Cells -> BOOLEAN]
    BY DEF StorageInv, StorageTypeOK
  <2>3. AvailableCells \subseteq Cells
    BY DEF StorageInv, CellsPartitioned
  <2>. QED BY <1>1, <2>1, <2>2, <2>3, Zenon DEF StorageInv, StorageTypeOK, Time
<1>3. CellsPartitioned'
  BY <1>1 DEF StorageInv, CellsPartitioned
<1>4. WastedHoldNothing'
  BY Zenon DEF StorageInv, StorageTypeOK, CellsPartitioned, WastedHoldNothing
<1>5. StaleIsMarked'
  BY DEF StorageInv, StorageTypeOK, CellsPartitioned, WastedHoldNothing, StaleIsMarked
<1>6. DropWithinLifespan'
  BY <1>1 DEF DropWithinLifespan
<1>7. c \notin used
  BY DEF StorageInv, CellsPartitioned
<1>. QED BY <1>2, <1>3, <1>4, <1>5, <1>6, <1>7, Zenon DEF StorageInv

(* lease() takes a cell that is in nobody's hands.                         *)
LEMMA LeaseInv ==
  ASSUME StorageInv, NEW c \in Cells, Lease(c)
  PROVE  StorageInv' /\ used' = used \cup {c} /\ c \notin used
BY LeaseAvailableInv, LeaseWastedInv DEF Lease

(* storage::waste on a cell in use.                                        *)
LEMMA StorageWasteInv ==
  ASSUME StorageInv, NEW c \in used, StorageWaste(c)
  PROVE  StorageInv' /\ used' = used \ {c}
<1>. USE DEF StorageWaste
<1>1. c \in Cells /\ AvailableCells' = AvailableCells
  BY DEF StorageInv, StorageTypeOK, AvailableCells
<1>2. StorageTypeOK'
  BY <1>1 DEF StorageInv, StorageTypeOK, Time
<1>3. CellsPartitioned'
  BY <1>1 DEF StorageInv, CellsPartitioned
<1>4. WastedHoldNothing'
  BY <1>1 DEF StorageInv, StorageTypeOK, WastedHoldNothing
<1>5. StaleIsMarked'
  BY <1>1 DEF StorageInv, StorageTypeOK, StaleIsMarked
<1>6. DropWithinLifespan'
  BY <1>1 DEF StorageInv, DropWithinLifespan, LifeEnd
<1>. QED BY <1>2, <1>3, <1>4, <1>5, <1>6, Zenon DEF StorageInv

(* storage::recycle on a cell in use: the drop time it computes is within  *)
(* the cell's life, and a marked cell never becomes available.             *)
LEMMA StorageRecycleInv ==
  ASSUME StorageInv, NEW c \in used, StorageRecycle(c)
  PROVE  StorageInv' /\ used' = used \ {c}
<1>1. CASE ~IsValid(c) /\ StorageWaste(c)
  BY <1>1, StorageWasteInv
<1>2. CASE /\ IsValid(c)
           /\ drop_time' = [drop_time EXCEPT ![c] = Earlier(Add(now, IdleTimeout), LifeEnd(c))]
           /\ used' = used \ {c}
           /\ available' = Append(available, c)
           /\ UNCHANGED <<wasted, value, reset_time, waste_on_recycle, now, stale>>
  <2>. USE <1>2
  <2>1. c \in Cells /\ c \notin AvailableCells /\ c \notin wasted
    BY DEF StorageInv, StorageTypeOK, CellsPartitioned
  <2>2. /\ available' \in Seq(Cells)
        /\ IsInjective(available')
        /\ AvailableCells' = AvailableCells \cup {c}
    BY <2>1, AppendRange, Zenon DEF StorageInv, StorageTypeOK, CellsPartitioned, AvailableCells
  <2>3. /\ Earlier(Add(now, IdleTimeout), LifeEnd(c)) \in Time
        /\ Earlier(Add(now, IdleTimeout), LifeEnd(c)) <= LifeEnd(c)
    BY <2>1, AddType, LifeEndType, EarlierType, StorageAssumption, Zenon DEF StorageInv, StorageTypeOK
  <2>4. StorageTypeOK'
    BY <2>1, <2>2, <2>3, Zenon DEF StorageInv, StorageTypeOK, Time
  <2>5. CellsPartitioned'
    BY <2>1, <2>2 DEF StorageInv, CellsPartitioned
  <2>6. WastedHoldNothing'
    BY DEF StorageInv, WastedHoldNothing
  <2>7. StaleIsMarked'
    BY <2>1, Zenon DEF StorageInv, StaleIsMarked, IsValid
  <2>8. DropWithinLifespan'
    <3>1. \A d \in Cells : LifeEnd(d)' = LifeEnd(d)
      BY DEF LifeEnd
    <3>2. AvailableCells \subseteq Cells
      BY DEF StorageInv, CellsPartitioned
    <3>. QED BY <2>1, <2>2, <2>3, <3>1, <3>2, Zenon DEF StorageInv, StorageTypeOK, DropWithinLifespan
  <2>. QED BY <2>4, <2>5, <2>6, <2>7, <2>8, Zenon DEF StorageInv
<1>. QED BY <1>1, <1>2 DEF StorageRecycle

(* storage::invalidate: no value survives unmarked.                        *)
LEMMA StorageInvalidateInv ==
  ASSUME StorageInv, StorageInvalidate
  PROVE  StorageInv' /\ used' = used
<1>. USE DEF StorageInvalidate
<1>1. AvailableCells' = {} /\ available' \in Seq(Cells) /\ IsInjective(available')
  BY EmptySeq DEF AvailableCells, Range, IsInjective
<1>2. StorageTypeOK'
  <2>1. value' \in [Cells -> BOOLEAN] /\ waste_on_recycle' \in [Cells -> BOOLEAN]
    BY DEF StorageInv, StorageTypeOK
  <2>2. AvailableCells \subseteq Cells
    BY DEF StorageInv, CellsPartitioned
  <2>. QED BY <1>1, <2>1, <2>2, Zenon DEF StorageInv, StorageTypeOK, Time
<1>3. CellsPartitioned'
  BY <1>1 DEF StorageInv, CellsPartitioned
<1>4. WastedHoldNothing'
  BY Zenon DEF StorageInv, StorageTypeOK, CellsPartitioned, WastedHoldNothing
<1>5. StaleIsMarked'
  BY Zenon DEF StorageInv, StorageTypeOK, CellsPartitioned, WastedHoldNothing, StaleIsMarked
<1>6. DropWithinLifespan'
  BY <1>1 DEF DropWithinLifespan
<1>. QED BY <1>2, <1>3, <1>4, <1>5, <1>6, Zenon DEF StorageInv

(* handle::reset writes to a cell in use, without the lock.                *)
LEMMA CellResetInv ==
  ASSUME StorageInv, NEW c \in used, CellReset(c)
  PROVE  StorageInv' /\ used' = used
<1>. USE DEF CellReset, lists
<1>1. c \in Cells /\ AvailableCells' = AvailableCells /\ c \notin AvailableCells /\ c \notin wasted
  BY DEF StorageInv, StorageTypeOK, AvailableCells, CellsPartitioned
<1>2. StorageTypeOK'
  BY <1>1 DEF StorageInv, StorageTypeOK, Time
<1>3. CellsPartitioned'
  BY <1>1 DEF StorageInv, CellsPartitioned
<1>4. WastedHoldNothing'
  BY <1>1 DEF StorageInv, StorageTypeOK, WastedHoldNothing
<1>5. StaleIsMarked'
  BY <1>1 DEF StorageInv, StorageTypeOK, StaleIsMarked
<1>6. DropWithinLifespan'
  BY <1>1 DEF StorageInv, StorageTypeOK, CellsPartitioned, DropWithinLifespan, LifeEnd
<1>. QED BY <1>2, <1>3, <1>4, <1>5, <1>6, Zenon DEF StorageInv

(* The passing of time changes no cell.                                    *)
LEMMA ClockInv ==
  ASSUME StorageInv, now' \in Time, UNCHANGED <<lists, fields, stale>>
  PROVE  StorageInv' /\ used' = used
<1>. USE DEF lists, fields
<1>1. AvailableCells' = AvailableCells
  BY DEF AvailableCells
<1>2. StorageTypeOK'
  BY DEF StorageInv, StorageTypeOK, Time
<1>3. CellsPartitioned' /\ WastedHoldNothing' /\ StaleIsMarked'
  BY <1>1 DEF StorageInv, CellsPartitioned, WastedHoldNothing, StaleIsMarked
<1>4. DropWithinLifespan'
  BY <1>1 DEF StorageInv, DropWithinLifespan, LifeEnd
<1>. QED BY <1>2, <1>3, <1>4 DEF StorageInv

(* A step that leaves the storage alone.                                   *)
LEMMA StorageUnchangedInv ==
  ASSUME StorageInv, UNCHANGED storageVars
  PROVE  StorageInv' /\ used' = used
<1>1. now' \in Time
  BY DEF StorageInv, StorageTypeOK, storageVars, Time
<1>. QED BY <1>1, ClockInv DEF storageVars

-----------------------------------------------------------------------------
\* Both pools keep the calls of get() in containers, each with its request.
ReqsOf(S) == {x.req : x \in S}
OneEach(S) == \A x, y \in S : x.req = y.req => x = y

(* A call enters a container in which its request is not yet.              *)
LEMMA ReqsAdd ==
  ASSUME NEW S, NEW x, OneEach(S), x.req \notin ReqsOf(S)
  PROVE  OneEach(S \cup {x}) /\ ReqsOf(S \cup {x}) = ReqsOf(S) \cup {x.req}
BY DEF OneEach, ReqsOf

(* Calls leave a container.                                                *)
LEMMA ReqsRemove ==
  ASSUME NEW S, NEW G \in SUBSET S, OneEach(S)
  PROVE  OneEach(S \ G) /\ ReqsOf(S \ G) = ReqsOf(S) \ ReqsOf(G)
BY DEF OneEach, ReqsOf

(* One call leaves a container.                                            *)
LEMMA ReqsRemoveOne ==
  ASSUME NEW S, NEW x \in S, OneEach(S)
  PROVE  OneEach(S \ {x}) /\ ReqsOf(S \ {x}) = ReqsOf(S) \ {x.req}
BY DEF OneEach, ReqsOf

(* Calls enter a container in which none of their requests is yet.         *)
LEMMA ReqsUnion ==
  ASSUME NEW S, NEW M, OneEach(S), OneEach(M), ReqsOf(S) \cap ReqsOf(M) = {}
  PROVE  OneEach(S \cup M) /\ ReqsOf(S \cup M) = ReqsOf(S) \cup ReqsOf(M)
BY DEF OneEach, ReqsOf
=============================================================================
