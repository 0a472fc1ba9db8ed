---------------------------- MODULE BinaryFormat ----------------------------
(***************************************************************************)
(* The binary representation of parameters and results (include/ozo/io):   *)
(* size_of, send and recv over the kinds of types they tell apart.  A type *)
(* is a record with its PostgreSQL name and its kind: "int" (of a width),  *)
(* "text" (dynamic size), "versioned" (jsonb and ltree, a text behind a    *)
(* version), "interval", "timestamp", "nullable", "array" (count = 0 for a *)
(* container that can be resized, the size of a std::array otherwise),     *)
(* "composite".  A value is an integer, a sequence of bytes, a sequence of *)
(* items or of fields, or Null, the null state of a nullable.              *)
(***************************************************************************)
EXTENDS TimeFormat, SequencesExt, FiniteSetsExt

CONSTANT Null

null_state_size == -1
null_oid == 0

(* The operations do not ask whether a type is nullable but what it wraps. *)
unwrap_type(t) == IF t.kind = "nullable" THEN t.of ELSE t

(* Built-in types have constant oids; the others are looked up in the map  *)
(* of the connection, where an oid that was never set is null_oid.         *)
BuiltInOids == [int2 |-> 21, int4 |-> 23, text |-> 25,
                timestamp |-> 1114, interval |-> 1186, jsonb |-> 3802,
                int2_array |-> 1005, int4_array |-> 1007, text_array |-> 1009]

type_oid(oids, t) ==
    LET u == unwrap_type(t) IN
    IF u.name \in DOMAIN BuiltInOids THEN BuiltInOids[u.name] ELSE oids[u.name]

accepts_oid(oids, t, oid) == type_oid(oids, t) = oid

(* Integers are sent in big-endian order, in two's complement.             *)
convert_to_big_endian(n, width) == [i \in 1..width |-> (n \div 256^(width - i)) % 256]

convert_from_big_endian(bytes) ==
    LET signed == IF bytes[1] >= 128 THEN bytes[1] - 256 ELSE bytes[1]
    IN FoldLeft(LAMBDA n, b : 256 * n + b, signed, Tail(bytes))

-----------------------------------------------------------------------------
(* The size of a value's representation.                                    *)
Total(s) == FoldLeft(+, 0, s)

StaticSize(t) == unwrap_type(t).kind \in {"int", "interval", "timestamp"}

pg_interval_size == TimeBytes + 2 * DateBytes

size_of_versioned(v) == Len(v) + 1

RECURSIVE size_of(_, _)

data_frame_size(t, v) == 4 + Max({size_of(t, v), 0})

frame_size(t, v) == 4 + data_frame_size(t, v)

pg_array_size == 12

pg_array_dimension_size == 8

(* For items of static size only the first item is looked at, also when    *)
(* the items are nullable.                                                  *)
size_of_array(t, v) ==
    pg_array_size + pg_array_dimension_size +
        IF StaticSize(t.of)
        THEN IF v = <<>> THEN 0 ELSE data_frame_size(t.of, v[1]) * Len(v)
        ELSE Total([i \in DOMAIN v |-> data_frame_size(t.of, v[i])])

size_of_composite(t, v) == 4 + Total([i \in DOMAIN v |-> frame_size(t.fields[i], v[i])])

size_of(t, v) ==
    LET u == unwrap_type(t) IN
    CASE v = Null -> null_state_size
      [] v # Null /\ u.kind = "int" -> u.width
      [] v # Null /\ u.kind = "interval" -> pg_interval_size
      [] v # Null /\ u.kind = "timestamp" -> TimeBytes
      [] v # Null /\ u.kind = "text" -> Len(v)
      [] v # Null /\ u.kind = "versioned" -> size_of_versioned(v)
      [] v # Null /\ u.kind = "array" -> size_of_array(u, v)
      [] v # Null /\ u.kind = "composite" -> size_of_composite(u, v)

-----------------------------------------------------------------------------
(* What is written for a value: an array has one dimension and a data frame *)
(* per item, a composite a frame per field, a value in null state nothing.  *)
RECURSIVE send(_, _, _)

write_int4(n) == convert_to_big_endian(n, 4)

send_data_frame(oids, t, v) == write_int4(size_of(t, v)) \o send(oids, t, v)

send_frame(oids, t, v) == write_int4(type_oid(oids, t)) \o send_data_frame(oids, t, v)

send_array(oids, t, v) ==
    write_int4(1) \o write_int4(0) \o write_int4(type_oid(oids, t.of))
        \o write_int4(Len(v)) \o write_int4(0)
        \o FlattenSeq([i \in DOMAIN v |-> send_data_frame(oids, t.of, v[i])])

send_composite(oids, t, v) ==
    write_int4(Len(v)) \o FlattenSeq([i \in DOMAIN v |-> send_frame(oids, t.fields[i], v[i])])

send_versioned(v) == <<1>> \o v

send_interval(interval) ==
    convert_to_big_endian(interval.microseconds, TimeBytes)
        \o convert_to_big_endian(interval.days, DateBytes)
        \o convert_to_big_endian(interval.months, DateBytes)

send(oids, t, v) ==
    LET u == unwrap_type(t) IN
    CASE v = Null -> <<>>
      [] v # Null /\ u.kind = "int" -> convert_to_big_endian(v, u.width)
      [] v # Null /\ u.kind = "interval" -> send_interval(from_chrono_duration(v))
      [] v # Null /\ u.kind = "timestamp" -> convert_to_big_endian(from_time_point(v), TimeBytes)
      [] v # Null /\ u.kind = "text" -> v
      [] v # Null /\ u.kind = "versioned" -> send_versioned(v)
      [] v # Null /\ u.kind = "array" -> send_array(oids, u, v)
      [] v # Null /\ u.kind = "composite" -> send_composite(oids, u, v)

-----------------------------------------------------------------------------
(* Receiving reads from the stream in into the object out and may throw:   *)
(* the object then keeps what was written to it before (what a partly read *)
(* integer or text holds when the stream ends early is left out).          *)
Received(in, out) == [in |-> in, out |-> out, error |-> "none"]

Thrown(out, error) == [in |-> <<>>, out |-> out, error |-> error]

Readable(in, n) == Len(in) >= n

int_at(in, offset) == convert_from_big_endian(SubSeq(in, offset + 1, offset + 4))

Skip(in, n) == SubSeq(in, n + 1, Len(in))

(* A value-initialised object.                                             *)
RECURSIVE Fresh(_)
Fresh(t) ==
    CASE t.kind = "nullable" -> Null
      [] t.kind \in {"int", "interval", "timestamp"} -> 0
      [] t.kind \in {"text", "versioned"} -> <<>>
      [] t.kind = "array" -> [i \in 1..t.count |-> Fresh(t.of)]
      [] t.kind = "composite" -> [i \in DOMAIN t.fields |-> Fresh(t.fields[i])]

RECURSIVE recv(_, _, _, _, _, _)

(* The oid of a frame that has none is null_oid_t: it is not checked.      *)
null_oid_t == -1

recv_data_frame(in, oid, oids, t, out) ==
    IF ~Readable(in, 4) THEN Thrown(out, "unexpected_eof")
    ELSE recv(Skip(in, 4), oid, int_at(in, 0), oids, t, out)

recv_frame(in, oids, t, out) ==
    IF ~Readable(in, 4) THEN Thrown(out, "unexpected_eof")
    ELSE recv_data_frame(Skip(in, 4), int_at(in, 0), oids, t, out)

(* One object after another is received in place, until one throws.        *)
RecvEach(Recv(_, _, _), in, out) ==
    FoldLeft(LAMBDA r, i :
                 IF r.error # "none" THEN r
                 ELSE LET item == Recv(r.in, i, r.out[i])
                      IN [item EXCEPT !.out = [r.out EXCEPT ![i] = item.out]],
             Received(in, out), [i \in DOMAIN out |-> i])

recv_object(in, size, t, out) ==
    IF t.kind = "int" /\ size # t.width THEN Thrown(out, "bad_object_size")
    ELSE IF ~Readable(in, size) THEN Thrown(out, "unexpected_eof")
    ELSE Received(Skip(in, size),
                  IF t.kind = "int" THEN convert_from_big_endian(SubSeq(in, 1, size))
                                    ELSE SubSeq(in, 1, size))

(* The times do not look at the size; the version is not looked at.        *)
interval_at(in) ==
    [microseconds |-> convert_from_big_endian(SubSeq(in, 1, TimeBytes)),
     days |-> convert_from_big_endian(SubSeq(in, TimeBytes + 1, TimeBytes + DateBytes)),
     months |-> convert_from_big_endian(SubSeq(in, TimeBytes + DateBytes + 1, pg_interval_size))]

recv_interval(in, out) ==
    IF ~Readable(in, pg_interval_size) THEN Thrown(out, "unexpected_eof")
    ELSE Received(Skip(in, pg_interval_size), to_chrono_duration(interval_at(in)))

recv_time_point(in, out) ==
    IF ~Readable(in, TimeBytes) THEN Thrown(out, "unexpected_eof")
    ELSE Received(Skip(in, TimeBytes), to_time_point(convert_from_big_endian(SubSeq(in, 1, TimeBytes))))

recv_versioned(in, size, out) ==
    IF size < 1 THEN Thrown(out, "range_error")
    ELSE IF ~Readable(in, size) THEN Thrown(out, "unexpected_eof")
    ELSE Received(Skip(in, size), SubSeq(in, 2, size))

(* The container fits the incoming size, keeping the items it has.         *)
fit_array_size(t, out, size) ==
    IF t.count > 0 THEN out
    ELSE [i \in 1..size |-> IF i \in DOMAIN out THEN out[i] ELSE Fresh(t.of)]

recv_array(in, oids, t, out) ==
    CASE ~Readable(in, pg_array_size) -> Thrown(out, "unexpected_eof")
      [] Readable(in, pg_array_size) ->
         LET dimensions_count == int_at(in, 0)
             body == Skip(in, pg_array_size)
             size == int_at(body, 0)
         IN IF dimensions_count > 1 THEN Thrown(out, "bad_array_dimension")
            ELSE IF ~accepts_oid(oids, t.of, int_at(in, 8)) THEN Thrown(out, "oid_type_mismatch")
            ELSE IF dimensions_count < 1 THEN Received(body, out)
            ELSE IF ~Readable(body, pg_array_dimension_size) THEN Thrown(out, "unexpected_eof")
            ELSE IF size = 0 THEN Received(Skip(body, pg_array_dimension_size), out)
            ELSE IF t.count > 0 /\ size # t.count THEN Thrown(out, "bad_array_size")
            ELSE RecvEach(LAMBDA s, i, item : recv_data_frame(s, null_oid_t, oids, t.of, item),
                          Skip(body, pg_array_dimension_size), fit_array_size(t, out, size))

recv_composite(in, oids, t, out) ==
    IF ~Readable(in, 4) THEN Thrown(out, "unexpected_eof")
    ELSE IF int_at(in, 0) # Len(t.fields) THEN Thrown(out, "bad_composite_size")
    ELSE RecvEach(LAMBDA s, i, item : recv_frame(s, oids, t.fields[i], item), Skip(in, 4), out)

RecvKind(in, size, oids, t, object) ==
    CASE t.kind \in {"int", "text"} -> recv_object(in, size, t, object)
      [] t.kind = "interval" -> recv_interval(in, object)
      [] t.kind = "timestamp" -> recv_time_point(in, object)
      [] t.kind = "versioned" -> recv_versioned(in, size, object)
      [] t.kind = "array" -> recv_array(in, oids, t, object)
      [] t.kind = "composite" -> recv_composite(in, oids, t, object)

(* Mutants: a null does not reset the object; the oid is checked first.    *)
RecvNullKeeps(in, oid, size, oids, t, out) ==
    LET u == unwrap_type(t)
        object == IF out = Null THEN Fresh(u) ELSE out
    IN IF t.kind = "nullable" /\ size = null_state_size THEN Received(in, out)
       ELSE IF oid # null_oid_t /\ ~accepts_oid(oids, t, oid) THEN Thrown(out, "oid_type_mismatch")
       ELSE IF size = null_state_size THEN Thrown(out, "unexpected_null")
       ELSE RecvKind(in, size, oids, u, object)

RecvOidFirst(in, oid, size, oids, t, out) ==
    LET u == unwrap_type(t)
        object == IF out = Null THEN Fresh(u) ELSE out
    IN IF oid # null_oid_t /\ ~accepts_oid(oids, t, oid) THEN Thrown(out, "oid_type_mismatch")
       ELSE IF t.kind = "nullable" /\ size = null_state_size THEN Received(in, Null)
       ELSE IF size = null_state_size THEN Thrown(out, "unexpected_null")
       ELSE RecvKind(in, size, oids, u, object)

(* A null resets a nullable whatever its oid is; a nullable that already   *)
(* holds an object is received in that object.                             *)
recv(in, oid, size, oids, t, out) ==
    LET u == unwrap_type(t)
        object == IF out = Null THEN Fresh(u) ELSE out
    IN IF t.kind = "nullable" /\ size = null_state_size THEN Received(in, Null)
       ELSE IF oid # null_oid_t /\ ~accepts_oid(oids, t, oid) THEN Thrown(out, "oid_type_mismatch")
       ELSE IF size = null_state_size THEN Thrown(out, "unexpected_null")
       ELSE RecvKind(in, size, oids, u, object)
=============================================================================
