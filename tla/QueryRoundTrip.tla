--------------------------- MODULE QueryRoundTrip ---------------------------
(***************************************************************************)
(* A value's way from a query's parameters to the server and back into the *)
(* objects a user receives results in: the text is built or taken from a   *)
(* repository, binary_query lays the parameters out in one buffer,         *)
(* PQsendQueryParams hands them to the server, the server answers with     *)
(* rows, and recv_result stores the rows in a container that may hold the  *)
(* results of an earlier query.                                            *)
(***************************************************************************)
EXTENDS BinaryFormat, BinaryQuery, QuerySource

CONSTANTS
    Oids,           \* the oids of the custom types, as the connection has them
    Targets,        \* what results are received in: [iterator, row, types, names, columns],
                    \* with the number of queries executed one after another, and the
                    \* parameters [type, value] of those from the builder
    Intervals,      \* the intervals that a statement computes, beside the one it was given
    Timestamps,     \* the same of timestamps
    ConfTargets,    \* those of them used with a repository
    MaxRows         \* rows of the container

VARIABLES
    target,     \* the container's iterator and the type of its rows
    out,        \* the container: a sequence of rows, a row a sequence of fields
    wire,       \* the binary_query
    reply,      \* columns and rows of the result
    error,      \* how the last step ended
    made        \* the number of queries made

vars == <<sourceVars, target, out, wire, reply, error, made>>

FreshRow == [i \in DOMAIN target.types |-> Fresh(target.types[i])]

NoWire == [types |-> <<>>, lengths |-> <<>>, values |-> <<>>, buffer |-> <<>>]
NoReply == [columns |-> <<>>, rows |-> <<>>]

(* A forward iterator needs the objects to be there: as many as there will *)
(* be rows.                                                                *)
Init ==
    /\ SourceInit
    /\ target \in Targets
    /\ out = IF target.iterator = "forward" THEN [i \in 1..MaxRows |-> FreshRow] ELSE <<>>
    /\ wire = NoWire /\ reply = NoReply /\ error = "none" /\ made = 0

-----------------------------------------------------------------------------
LoadRepository ==
    /\ target \in ConfTargets
    /\ Load
    /\ error' = repository'.error
    /\ UNCHANGED <<target, out, wire, reply, made>>

NewQuery ==
    /\ made < target.queries
    /\ made' = made + 1
    /\ error' = "none" /\ wire' = NoWire /\ reply' = NoReply
    /\ UNCHANGED <<target, out>>

BuildQuery == NewQuery /\ Build(target.params)

MakeRepositoryQuery == NewQuery /\ MakeQuery

-----------------------------------------------------------------------------
(* binary_query: the parameters are measured, then written.                *)
binary_query(q) ==
    LET n == DOMAIN q.params IN
    impl_type([i \in n |-> type_oid(Oids, q.params[i].type)],
              [i \in n |-> size_of(q.params[i].type, q.params[i].value)],
              [i \in n |-> send(Oids, q.params[i].type, q.params[i].value)])

send_query_params ==
    /\ phase = "made"
    /\ wire' = binary_query(query)
    /\ Execute /\ phase' = "sent"
    /\ UNCHANGED <<target, out, reply, error, made>>

Taken(i) == TakenFrom(wire, i)

(* The server reads a parameter if its bytes are a value of its type.      *)
WellFormed(i) ==
    LET t == query.params[i].type
        read == recv(Taken(i).bytes, null_oid_t, wire.lengths[i], Oids, t, Fresh(t))
    IN \/ Taken(i).isnull
       \/ /\ read.error = "none" /\ read.in = <<>>
          /\ unwrap_type(t).kind = "versioned" => Taken(i).bytes[1] = 1

(* The value comes back as it is, an empty array possibly without its      *)
(* dimension; of times the statement may compute others.                   *)
Echo(i) ==
    LET bytes == Taken(i).bytes
        kind == unwrap_type(query.params[i].type).kind
    IN {Taken(i)} \cup
       CASE Taken(i).isnull -> {}
         [] ~Taken(i).isnull /\ kind = "array" /\ int_at(bytes, pg_array_size) = 0 ->
            {Cell(FALSE, write_int4(0) \o SubSeq(bytes, 5, pg_array_size))}
         [] ~Taken(i).isnull /\ kind = "interval" -> {Cell(FALSE, send_interval(n)) : n \in Intervals}
         [] ~Taken(i).isnull /\ kind = "timestamp" ->
            {Cell(FALSE, convert_to_big_endian(n, TimeBytes)) : n \in Timestamps}
         [] OTHER -> {}

Answer(columns, rows) ==
    /\ reply' = [columns |-> columns, rows |-> rows]
    /\ Execute /\ phase' = "answered"
    /\ UNCHANGED <<target, out, wire, error, made>>

(* The statement selects its placeholders: a row with their values, a row  *)
(* of nulls, both or none.                                                 *)
Rows == UNION {[1..n -> {"values", "nulls"}] : n \in 0..MaxRows}

ColumnName(k) == IF k \in DOMAIN target.columns THEN target.columns[k] ELSE "?column?"

Acceptable ==
    /\ \A k \in DOMAIN Numbered(query.text) : Numbered(query.text)[k].number \in DOMAIN query.params
    /\ \A i \in DOMAIN query.params : WellFormed(i)

ServerAnswers ==
    LET spots == Numbered(query.text)
        at == [k \in DOMAIN spots |-> spots[k].number]
    IN /\ phase = "sent" /\ Acceptable
       /\ \E rows \in Rows, cells \in [DOMAIN query.params -> UNION {Echo(i) : i \in DOMAIN query.params}] :
             /\ \A i \in DOMAIN cells : cells[i] \in Echo(i)
             /\ target.iterator = "insert" => Len(out) + Len(rows) <= MaxRows
             /\ Answer([k \in DOMAIN at |-> [oid |-> wire.types[at[k]], name |-> ColumnName(k)]],
                       [r \in DOMAIN rows |->
                          [k \in DOMAIN at |-> IF rows[r] = "nulls" THEN Cell(TRUE, <<>>)
                                               ELSE cells[at[k]]]])

ServerRefuses ==
    /\ phase = "sent" /\ ~Acceptable
    /\ Execute /\ phase' = "ready" /\ error' = "query"
    /\ UNCHANGED <<target, out, wire, reply, made>>

-----------------------------------------------------------------------------
(* recv for a value of the result, and row::find for a column by its name.  *)
recv_value(cell, oid, t, object) ==
    recv(cell.bytes, oid, IF cell.isnull THEN null_state_size ELSE Len(cell.bytes), Oids, t, object)

find(name) == {k \in DOMAIN reply.columns : reply.columns[k].name = name}

(* One row: an object of its own, a sequence by position, a struct by the  *)
(* names of its members.                                                   *)
recv_row(cells, row) ==
    LET Column(i) == IF target.row = "struct" THEN Min(find(target.names[i])) ELSE i
        Field(in, i, field) ==
            IF target.row = "struct" /\ find(target.names[i]) = {} THEN Thrown(field, "range_error")
            ELSE recv_value(cells[Column(i)], reply.columns[Column(i)].oid, target.types[i], field)
    IN IF Len(cells) # Len(target.types) THEN Thrown(row, "range_error")
       ELSE RecvEach(Field, <<>>, row)

(* All rows of a result: in the objects that are there, or in new ones     *)
(* that are inserted once they are received.                               *)
recv_result ==
    FoldLeft(LAMBDA r, k :
                 LET row == recv_row(reply.rows[k], IF target.iterator = "forward" THEN r.out[k] ELSE FreshRow)
                 IN IF r.error # "none" THEN r
                    ELSE IF target.iterator = "forward"
                    THEN [r EXCEPT !.out[k] = row.out, !.error = row.error]
                    ELSE [r EXCEPT !.out = IF row.error = "none" THEN Append(@, row.out) ELSE @,
                                   !.error = row.error],
             Received(<<>>, out), [k \in DOMAIN reply.rows |-> k])

Receive ==
    /\ phase = "answered"
    /\ out' = recv_result.out /\ error' = recv_result.error
    /\ Execute /\ phase' = "ready"
    /\ UNCHANGED <<target, wire, reply, made>>

Next == LoadRepository \/ BuildQuery \/ MakeRepositoryQuery \/ send_query_params \/ ServerAnswers \/ ServerRefuses \/ Receive

Spec == Init /\ [][Next]_vars

-----------------------------------------------------------------------------
(* An array of nullable items of static size that has null and other items:*)
(* size_of_array takes all of them for the first one.                      *)
Missized(p) ==
    LET u == unwrap_type(p.type) IN
    /\ p.value # Null /\ u.kind = "array" /\ StaticSize(u.of)
    /\ \E i, j \in DOMAIN p.value : p.value[i] = Null /\ p.value[j] # Null

(* An empty text has no byte to point to: binary_query makes it a null.     *)
SentAsNull(p) == p.value = Null \/ (unwrap_type(p.type).kind = "text" /\ p.value = <<>>)

(* binary_query: libpq takes for each parameter exactly the bytes send     *)
(* wrote for it, wherever it lies in the buffer and whatever nulls are     *)
(* around it, as long as size_of is right for it and all before it.        *)
ParametersTaken ==
    phase = "sent" =>
        \A i \in DOMAIN query.params :
           (\A j \in 1..i : ~Missized(query.params[j])) =>
              LET p == query.params[i] IN
              Taken(i) = Cell(SentAsNull(p), IF SentAsNull(p) THEN <<>> ELSE send(Oids, p.type, p.value))

-----------------------------------------------------------------------------
TimeKinds == {"interval", "timestamp"}

(* What a field receives for a parameter: its value, or a null for an      *)
(* empty text; an empty array leaves the object as it was.                 *)
Expected(t, p, before) ==
    LET object == IF before = Null THEN Fresh(unwrap_type(t)) ELSE before IN
    IF SentAsNull(p) THEN Null
    ELSE IF unwrap_type(t).kind = "array" /\ p.value = <<>> THEN object
    ELSE p.value

(* Whether a parameter can be received in a field: a null in a nullable,   *)
(* anything else in an object of the same PostgreSQL type, items and       *)
(* fields included, and as many items as a std::array has.                 *)
RECURSIVE Fits(_, _)
Fits(t, p) ==
    LET u == unwrap_type(t)
        v == unwrap_type(p.type)
        Inside(s, x, y) == IF y = Null THEN s.kind = "nullable" ELSE Fits(s, [type |-> x, value |-> y])
    IN /\ u.name = v.name
       /\ u.kind = "array" =>
             /\ p.value = <<>> \/ u.count \in {0, Len(p.value)}
             /\ \A i \in DOMAIN p.value : Inside(u.of, v.of, p.value[i])
       /\ u.kind = "composite" =>
             \A i \in DOMAIN p.value : Inside(u.fields[i], v.fields[i], p.value[i])

ColumnOf(i) == IF target.row = "struct" THEN Min(find(target.names[i])) ELSE i

FieldFits(r, i) ==
    /\ target.row = "struct" => find(target.names[i]) # {}
    /\ IF reply.rows[r][ColumnOf(i)].isnull THEN target.types[i].kind = "nullable"
       ELSE Fits(target.types[i], asked[ColumnOf(i)])

RowFits(r) == Len(reply.columns) = Len(target.types) /\ \A i \in DOMAIN target.types : FieldFits(r, i)

FieldReceived(r, i, before, after) ==
    \/ ~reply.rows[r][ColumnOf(i)].isnull /\ unwrap_type(target.types[i]).kind \in TimeKinds
    \/ after = IF reply.rows[r][ColumnOf(i)].isnull THEN Null
               ELSE Expected(target.types[i], asked[ColumnOf(i)], before)

Before(r) == IF target.iterator = "forward" THEN out[r] ELSE FreshRow
After(r) == IF target.iterator = "forward" THEN out'[r] ELSE out'[Len(out) + r]

RowReceived(r) ==
    \A i \in DOMAIN target.types : FieldReceived(r, i, Before(r)[i], After(r)[i])

(* recv_result: when it does not throw, every field of every row holds the *)
(* value of the parameter that was asked for in its column, byte order,    *)
(* sign, nulls, items and nested fields included, and objects beyond the   *)
(* result are not touched (for times see TimesReceived).  Two things get   *)
(* lost on the way, an empty text and the emptiness of an array received   *)
(* in an object that has items.                                            *)
ReceivesWhatWasAsked ==
    [][(phase = "answered" /\ error' = "none") =>
          /\ \A r \in DOMAIN reply.rows : RowReceived(r)
          /\ target.iterator = "forward" =>
                \A r \in Len(reply.rows) + 1..Len(out) : out'[r] = out[r]
          /\ target.iterator = "insert" =>
                SubSeq(out', 1, Len(out)) = out /\ Len(out') = Len(out) + Len(reply.rows)]_vars

(* What the server means by the bytes of an interval or of a timestamp.     *)
TimeMeant(kind, bytes) ==
    IF kind = "interval" THEN DurationMeant(interval_at(bytes))
                         ELSE PointMeant(convert_from_big_endian(bytes))

Unnoticed(kind, bytes) ==
    IF kind = "interval" THEN DurationUnnoticed(interval_at(bytes))
                         ELSE TimeMeant(kind, bytes) \notin Least..Greatest

(* duration.h and time_point.h: the server is told the duration or the     *)
(* point in time of a parameter, which loses the fraction of a             *)
(* microsecond only; and what is received is what the server means, the    *)
(* greatest or least duration standing for all beyond it, unless the       *)
(* overflow goes unnoticed.                                                *)
TimesReceived ==
    [][/\ phase = "sent" =>
             \A i \in DOMAIN query.params :
                LET kind == unwrap_type(query.params[i].type).kind
                    v == query.params[i].value
                IN kind \in TimeKinds /\ v # Null =>
                      TimeMeant(kind, Taken(i).bytes) =
                         IF kind = "interval" THEN v ELSE v - Remainder(v - Epoch, Microsecond)
       /\ (phase = "answered" /\ error' = "none") =>
             \A r \in DOMAIN reply.rows, i \in DOMAIN target.types :
                LET kind == unwrap_type(target.types[i]).kind
                    cell == reply.rows[r][ColumnOf(i)]
                IN kind \in TimeKinds /\ ~cell.isnull =>
                      Unnoticed(kind, cell.bytes) \/ After(r)[i] = TimeMeant(kind, cell.bytes)]_vars

(* recv_result: it throws if and only if some row does not fit: another    *)
(* number of columns, a missing name, another type, a null for an object   *)
(* that cannot hold it, another number of items.  Then the rows before the *)
(* one at fault are complete, the fields after the one at fault and the    *)
(* rows after it are as they were, and a row at fault is not inserted.     *)
ThrowsForCause ==
    [][phase = "answered" =>
       /\ error' # "none" <=> \E r \in DOMAIN reply.rows : ~RowFits(r)
       /\ error' # "none" =>
          LET fault == Min({r \in DOMAIN reply.rows : ~RowFits(r)}) IN
          /\ \A r \in 1..fault - 1 : RowReceived(r)
          /\ target.iterator = "insert" => Len(out') = Len(out) + fault - 1
          /\ target.iterator = "forward" =>
                /\ \A r \in fault + 1..Len(out) : out'[r] = out[r]
                /\ \A i, j \in DOMAIN target.types :
                      (i < j /\ (Len(reply.columns) # Len(target.types) \/ ~FieldFits(fault, i)))
                         => out'[fault][j] = out[fault][j]]_vars

-----------------------------------------------------------------------------
(* binary_query.h on lengths(): "Each element represents length of the     *)
(* respective parameter binary representation from `values()`."            *)
LengthsAreSizes ==
    phase = "sent" =>
        \A i \in DOMAIN query.params :
           wire.lengths[i] = Len(send(Oids, query.params[i].type, query.params[i].value))
=============================================================================
