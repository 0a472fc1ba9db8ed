-------------------------- MODULE MCQueryRoundTrip --------------------------
(* A small instance of QueryRoundTrip.                                     *)
EXTENDS QueryRoundTrip, TLC

MCWords == {"name", "select", "x", "y", "q", "0", "1"}
MCNumbers == ("0" :> 0) @@ ("1" :> 1)

int4 == [name |-> "int4", kind |-> "int", width |-> 4]
Text == [name |-> "text", kind |-> "text"]
Optional(t) == [kind |-> "nullable", of |-> t]
Vector(t, array_name) == [name |-> array_name, kind |-> "array", of |-> t, count |-> 0]
int4_vector == Vector(int4, "int4_array")
int4_optional_vector == Vector(Optional(int4), "int4_array")
text_optional_vector == Vector(Optional(Text), "text_array")
text_vector == Vector(Text, "text_array")
int4_array2 == [int4_vector EXCEPT !.count = 2]
jsonb == [name |-> "jsonb", kind |-> "versioned"]
ltree == [name |-> "ltree", kind |-> "versioned"]
interval == [name |-> "interval", kind |-> "interval"]
timestamp == [name |-> "timestamp", kind |-> "timestamp"]
rec == [name |-> "rec", kind |-> "composite", fields |-> <<int4, Optional(Text)>>]

MCOids == [rec |-> 16400, ltree |-> 16401]

Param(t, v) == [type |-> t, value |-> v]

MCParameters ==
    {Param(int4, -2), Param(Text, <<>>), Param(Text, <<97, 98>>), Param(Optional(Text), Null),
     Param(int4_vector, <<>>), Param(int4_vector, <<1, 300>>),
     Param(int4_optional_vector, <<1, Null>>), Param(int4_optional_vector, <<Null, Null>>),
     Param(text_optional_vector, <<Null, <<97>>>>), Param(rec, <<7, <<>>>>)}

\* Durations at the limits of their type, and a time between two microseconds.
MCTimeParameters ==
    {Param(interval, -32768), Param(interval, 32767), Param(interval, -501),
     Param(timestamp, 100), Param(timestamp, -3), Param(int4, -2)}

\* With days of 500 there are 65 whole days in the range: a day more than that,
\* with what exceeds it by less and by more than the rest, and sums of all three.
MCIntervals ==
    [microseconds : {-499, -268, 0, 267, 499}, days : {-66, 66}, months : {0}]
        \cup [microseconds : {-32768, 32767}, days : {-128, 127}, months : {2}]

MCTimestamps == {-32768, -1, 32767}

MCVersionedParameters ==
    {Param(jsonb, <<>>), Param(jsonb, <<123, 125>>), Param(ltree, <<97>>), Param(Text, <<>>),
     Param(Optional(ltree), Null)}

MCConfParameters == {Param(int4, 1), Param(Optional(Text), <<98>>)}

Header(q) == <<"--", " ", "name", ":", " ", q>>
MCConfLines ==
    {Header("q"), Header("x"), <<"--", " ", "q">>, <<>>,
     <<"select", " ", ":", "x">>, <<":", "y", ":", ":", "x">>,
     <<":", "x", ":", ":", ":", "y", ":", "=", "1">>, <<":", " ">>, <<":", "0">>}

Declared(q, adapted_, members_) == [name |-> <<q>>, adapted |-> adapted_, members |-> members_]
MCDeclarations ==
    {<<Declared("q", TRUE, <<"y", "x">>)>>, <<Declared("q", FALSE, <<"0">>)>>,
     <<Declared("q", TRUE, <<"x">>), Declared("x", FALSE, <<"0", "1">>)>>,
     <<Declared("q", TRUE, <<"x">>), Declared("q", TRUE, <<"x">>)>>}

Target(iterator_, row_, types_, names_, columns_) ==
    [iterator |-> iterator_, row |-> row_, types |-> types_, names |-> names_, columns |-> columns_,
     params |-> MCParameters, queries |-> 2]

MCTargets ==
    {Target("forward", "value", <<int4_vector>>, <<"a">>, <<"a", "b">>),
     Target("forward", "value", <<Optional(int4_array2)>>, <<"a">>, <<"a", "b">>),
     Target("forward", "value", <<text_vector>>, <<"a">>, <<"a", "b">>),
     Target("insert", "sequence", <<Optional(Text), rec>>, <<"a", "b">>, <<"a", "b">>),
     Target("forward", "sequence", <<int4, text_optional_vector>>, <<"a", "b">>, <<"a", "b">>),
     Target("forward", "struct", <<Optional(Text), Optional(int4_vector)>>, <<"a", "b">>, <<"b", "a">>),
     Target("insert", "struct", <<int4, Optional(Text)>>, <<"a", "b">>, <<"a", "a">>),
     [Target("forward", "value", <<Optional(interval)>>, <<"a">>, <<"a", "b">>)
        EXCEPT !.params = MCTimeParameters, !.queries = 1],
     [Target("insert", "sequence", <<interval, timestamp>>, <<"a", "b">>, <<"a", "b">>)
        EXCEPT !.params = MCTimeParameters, !.queries = 1],
     [Target("insert", "sequence", <<jsonb, Optional(ltree)>>, <<"a", "b">>, <<"a", "b">>)
        EXCEPT !.params = MCVersionedParameters, !.queries = 1]}

MCConfTargets == {Target("insert", "sequence", <<Optional(Text), rec>>, <<"a", "b">>, <<"a", "b">>)}

MCAllParameters == UNION {t.params : t \in MCTargets}
=============================================================================
