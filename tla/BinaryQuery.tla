----------------------------- MODULE BinaryQuery ----------------------------
(***************************************************************************)
(* io/binary_query.h: how the constructor lays the parameters of a query   *)
(* out in one buffer, and what PQsendQueryParams takes from it.  sizes is  *)
(* what size_of says of each parameter, chunks what send writes for it.    *)
(***************************************************************************)
EXTENDS Integers, Sequences

nullptr == -1

(* The sum of the first n numbers, and the first n chunks one after another.*)
Sums(s) ==
    LET t[n \in 0..Len(s)] == IF n = 0 THEN 0 ELSE t[n - 1] + s[n] IN t

Joins(chunks) ==
    LET b[n \in 0..Len(chunks)] == IF n = 0 THEN <<>> ELSE b[n - 1] \o chunks[n] IN b

LengthOf(size) == IF size > 0 THEN size ELSE 0

(* Mutant: a null takes its size of -1 off the offset.                     *)
OffsetsOfSizes(types, sizes, chunks) ==
    [types |-> types,
     lengths |-> [i \in DOMAIN sizes |-> LengthOf(sizes[i])],
     buffer |-> Joins(chunks)[Len(chunks)],
     values |-> [i \in DOMAIN sizes |-> IF LengthOf(sizes[i]) # 0 THEN Sums(sizes)[i - 1] ELSE nullptr]]

impl_type(types, sizes, chunks) ==
    LET lengths == [i \in DOMAIN sizes |-> LengthOf(sizes[i])] IN
    [types |-> types,
     lengths |-> lengths,
     buffer |-> Joins(chunks)[Len(chunks)],
     values |-> [i \in DOMAIN sizes |-> IF lengths[i] # 0 THEN Sums(lengths)[i - 1] ELSE nullptr]]

(* A value of a parameter or of a result.                                  *)
Cell(isnull, bytes) == [isnull |-> isnull, bytes |-> bytes]

(* PQsendQueryParams takes lengths[i] bytes from where values[i] points, or *)
(* a null if it points nowhere; past the buffer it would take anything.     *)
TakenFrom(w, i) ==
    IF w.values[i] = nullptr THEN Cell(TRUE, <<>>)
    ELSE Cell(FALSE, [k \in 1..w.lengths[i] |->
                         IF w.values[i] + k \in DOMAIN w.buffer THEN w.buffer[w.values[i] + k] ELSE 0])
=============================================================================
