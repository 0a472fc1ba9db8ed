------------------------------- MODULE Storage -------------------------------
(***************************************************************************)
(* detail/storage.hpp and detail/idle.hpp of yamail::resource_pool: the    *)
(* cells of a pool, kept in the three lists available_, used_ and wasted_, *)
(* and the five operations the synchronous and the asynchronous pool call  *)
(* on them under the pool mutex.  An operation is an action on the storage *)
(* variables only; the pool modules conjoin it with their own state.       *)
(*                                                                         *)
(* available is a sequence, because lease() looks at the oldest cell       *)
(* first.  used and wasted are sets: used_ is only spliced by iterator,    *)
(* and the cells of wasted_ hold no value, so which of them lease() takes  *)
(* first is left open.                                                     *)
(***************************************************************************)
EXTENDS Integers, Sequences, FiniteSets, Functions

CONSTANTS Cells,        \* the cells, as many as the pool has capacity
          IdleTimeout,  \* idle_timeout_
          Lifespan,     \* lifespan_
          TimeMax       \* time_point::max()

ASSUME StorageAssumption ==
  /\ IsFiniteSet(Cells)
  /\ IdleTimeout \in Nat
  /\ Lifespan \in Nat
  /\ TimeMax \in Nat

VARIABLES available, used, wasted,              \* the three lists
          value,                                \* does the cell hold a value?
          drop_time, reset_time, waste_on_recycle,
          now,                                  \* time_traits::now()
          stale     \* history: cells whose value is older than an invalidate()

lists == <<available, used, wasted>>
fields == <<value, drop_time, reset_time, waste_on_recycle>>
storageVars == <<lists, fields, now, stale>>

Time == 0..TimeMax

StorageTypeOK ==
  /\ available \in Seq(Cells)
  /\ used \subseteq Cells
  /\ wasted \subseteq Cells
  /\ value \in [Cells -> BOOLEAN]
  /\ drop_time \in [Cells -> Time]
  /\ reset_time \in [Cells -> Time]
  /\ waste_on_recycle \in [Cells -> BOOLEAN]
  /\ now \in Time
  /\ stale \subseteq Cells

\* Mutant: the sum is not saturated and wraps around.
AddWraps(t, d) == (t + d) % (TimeMax + 1)

\* time_traits::add, for the non-negative times of a steady clock: it saturates.
Add(t, d) == IF TimeMax - t < d THEN TimeMax ELSE t + d

Earlier(s, t) == IF s <= t THEN s ELSE t

LifeEnd(c) == Add(reset_time[c], Lifespan)

AvailableCells == Range(available)

-----------------------------------------------------------------------------
\* storage(capacity, ...): every cell is wasted and default-constructed.
InitWasted ==
  /\ available = <<>>
  /\ wasted = Cells
  /\ value = [c \in Cells |-> FALSE]
  /\ drop_time = [c \in Cells |-> TimeMax]

\* storage(generator, capacity, ...): every cell is available with a value.
InitGenerated ==
  /\ available \in Bijection(1..Cardinality(Cells), Cells)
  /\ wasted = {}
  /\ value = [c \in Cells |-> TRUE]
  /\ drop_time = [c \in Cells |-> Earlier(Add(now, IdleTimeout), Add(now, Lifespan))]

StorageInit ==
  /\ now = 0
  /\ used = {}
  /\ reset_time = [c \in Cells |-> now]
  /\ waste_on_recycle = [c \in Cells |-> FALSE]
  /\ stale = {}
  /\ InitWasted \/ InitGenerated

-----------------------------------------------------------------------------
\* Mutant: lease() takes the oldest cell, whatever its drop time.
ExpiredNever(c) == FALSE

Expired(c) == drop_time[c] <= now

\* The loop of lease() ends at position i: the available cells before i are
\* past their drop time, lose their value and go to wasted_; cell i is live.
LeaseAvailable(c) ==
  \E i \in DOMAIN available :
    LET dropped == {available[j] : j \in 1..(i - 1)} IN
    /\ c = available[i]
    /\ ~Expired(c)
    /\ \A d \in dropped : Expired(d)
    /\ available' = SubSeq(available, i + 1, Len(available))
    /\ used' = used \cup {c}
    /\ wasted' = wasted \cup dropped
    /\ value' = [d \in Cells |-> value[d] /\ d \notin dropped]
    /\ UNCHANGED <<drop_time, reset_time, waste_on_recycle, now, stale>>

\* The loop empties available_; the cell comes from wasted_, its mark cleared.
LeaseWasted(c) ==
  /\ \A d \in AvailableCells : Expired(d)
  /\ c \in wasted \cup AvailableCells
  /\ available' = <<>>
  /\ used' = used \cup {c}
  /\ wasted' = (wasted \cup AvailableCells) \ {c}
  /\ value' = [d \in Cells |-> value[d] /\ d \notin AvailableCells]
  /\ waste_on_recycle' = [waste_on_recycle EXCEPT ![c] = FALSE]
  /\ UNCHANGED <<drop_time, reset_time, now, stale>>

Lease(c) == LeaseAvailable(c) \/ LeaseWasted(c)

\* lease() returns nothing: both lists are empty and stay so.
NothingToLease == available = <<>> /\ wasted = {}

StorageWaste(c) ==
  /\ value' = [value EXCEPT ![c] = FALSE]
  /\ used' = used \ {c}
  /\ wasted' = wasted \cup {c}
  /\ UNCHANGED <<available, drop_time, reset_time, waste_on_recycle, now, stale>>

IsValid(c) == ~waste_on_recycle[c] /\ LifeEnd(c) > now

StorageRecycle(c) ==
  \/ ~IsValid(c) /\ StorageWaste(c)
  \/ /\ IsValid(c)
     /\ drop_time' = [drop_time EXCEPT ![c] = Earlier(Add(now, IdleTimeout), LifeEnd(c))]
     /\ used' = used \ {c}
     /\ available' = Append(available, c)
     /\ UNCHANGED <<wasted, value, reset_time, waste_on_recycle, now, stale>>

\* Mutant: the cells in use are not marked.
StorageInvalidateAvailableOnly ==
  /\ value' = [c \in Cells |-> value[c] /\ c \notin AvailableCells]
  /\ wasted' = wasted \cup AvailableCells
  /\ available' = <<>>
  /\ stale' = {c \in Cells : value[c]}
  /\ UNCHANGED <<used, drop_time, reset_time, waste_on_recycle, now>>

StorageInvalidate ==
  /\ value' = [c \in Cells |-> value[c] /\ c \notin AvailableCells]
  /\ wasted' = wasted \cup AvailableCells
  /\ available' = <<>>
  /\ waste_on_recycle' = [c \in Cells |-> waste_on_recycle[c] \/ c \in used]
  /\ stale' = {c \in Cells : value[c]}
  /\ UNCHANGED <<used, drop_time, reset_time, now>>

\* handle::reset on a cell in use: a new value and its reset time, no lock.
CellReset(c) ==
  /\ value' = [value EXCEPT ![c] = TRUE]
  /\ reset_time' = [reset_time EXCEPT ![c] = now]
  /\ stale' = stale \ {c}
  /\ UNCHANGED <<lists, drop_time, waste_on_recycle, now>>

-----------------------------------------------------------------------------
(* Every cell is in exactly one of the three lists, and in available_ at   *)
(* one place: the splices never lose or duplicate a cell, so the size of   *)
(* the pool is its capacity for ever.                                      *)
CellsPartitioned ==
  /\ IsInjective(available)
  /\ AvailableCells \cup used \cup wasted = Cells
  /\ AvailableCells \cap used = {}
  /\ AvailableCells \cap wasted = {}
  /\ used \cap wasted = {}

(* A wasted cell holds no value: storage destroys the resource when it     *)
(* puts a cell into wasted_, on all four paths that lead there.            *)
WastedHoldNothing == \A c \in wasted : ~value[c]

(* A value that is older than an invalidate() only survives in the hands   *)
(* of a user, in a cell marked so that it is destroyed when it comes back. *)
StaleIsMarked == \A c \in stale : value[c] => c \in used /\ waste_on_recycle[c]

(* The drop time of an available cell never lies after the end of its      *)
(* life, which is why lease() may look at the drop time alone.             *)
DropWithinLifespan == \A c \in AvailableCells : drop_time[c] <= LifeEnd(c)

(* What every operation of the storage preserves.  WastedHoldNothing makes *)
(* the rest inductive: lease() clears the mark of a cell it takes from     *)
(* wasted_, which is harmless because that cell holds nothing.             *)
StorageInv ==
  /\ StorageTypeOK
  /\ CellsPartitioned
  /\ WastedHoldNothing
  /\ StaleIsMarked
  /\ DropWithinLifespan
=============================================================================
