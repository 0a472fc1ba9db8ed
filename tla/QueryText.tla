------------------------------ MODULE QueryText -----------------------------
(***************************************************************************)
(* Where the text of a query comes from: the query builder                 *)
(* (query_builder.h) and the repository of queries read from a             *)
(* configuration (query_conf.h).  A text is a sequence of literal parts    *)
(* and placeholders $n.  A configuration is a sequence of lines, a line a  *)
(* sequence of atoms: "--", ":", "=", " ", and Words, the maximal runs of  *)
(* letters, digits and underscores.  Line ends and the trimming of blanks  *)
(* around a text are left out.                                             *)
(***************************************************************************)
EXTENDS Integers, Sequences, FiniteSetsExt

CONSTANTS
    Words,      \* the atoms that may name a parameter
    Numbers     \* the atoms that are numerals, with their numbers

Literal(atom) == [kind |-> "literal", atom |-> atom]
Named(atom) == [kind |-> "name", atom |-> atom]
Placeholder(n) == [kind |-> "placeholder", number |-> n]

(* The elements of a sequence at some of its indices, in their order: of   *)
(* its first n elements, and of all.                                       *)
Picks(s, indices) ==
    LET p[n \in 0..Len(s)] ==
            IF n = 0 THEN <<>> ELSE IF n \in indices THEN Append(p[n - 1], s[n]) ELSE p[n - 1]
    IN p

Picked(s, indices) == Picks(s, indices)[Len(s)]

-----------------------------------------------------------------------------
(* query_builder: the elements of a query are literals and parameters.  The *)
(* fold counts the parameters from 1; numbers is the number that the next   *)
(* parameter gets after the first n elements.                               *)
numbers(elements) ==
    LET r[n \in 0..Len(elements)] ==
            IF n = 0 THEN 1 ELSE IF elements[n].tag = "query_text" THEN r[n - 1] ELSE r[n - 1] + 1
    IN r

text(elements) ==
    [i \in DOMAIN elements |->
        IF elements[i].tag = "query_text" THEN Literal(elements[i].value)
                                          ELSE Placeholder(numbers(elements)[i - 1])]

params(elements) ==
    Picked([i \in DOMAIN elements |-> elements[i].value],
           {i \in DOMAIN elements : elements[i].tag = "query_param"})

-----------------------------------------------------------------------------
(* The parsers.  A line that begins with "--" is a comment, any other, an  *)
(* empty one included, is text.                                            *)
SkipBlanks(line) ==
    LET first == Min({i \in 1..Len(line) + 1 : i > Len(line) \/ line[i] # " "})
    IN SubSeq(line, first, Len(line))

StartsWith(line, atom) == line # <<>> /\ Head(line) = atom

is_comment(line) == StartsWith(line, "--")

(* "--" *space "name" *space ':' *space, and the rest is the name: <<>> if *)
(* the comment is not a header.                                            *)
parse_header(comment) ==
    LET word == SkipBlanks(Tail(comment))
        colon == IF StartsWith(word, "name") THEN SkipBlanks(Tail(word)) ELSE <<>>
    IN IF StartsWith(colon, ":") THEN SkipBlanks(Tail(colon)) ELSE <<>>

(* The elements of a line of text: ':' and a word is a parameter, "::" and *)
(* ":=" are literal, any other ':' cannot be parsed.  The grammar never    *)
(* goes back beyond a ':', so it is read from left to right; open is a ':' *)
(* whose second atom is not read yet.                                      *)
Scanned(r, atom) ==
    IF ~r.ok THEN r
    ELSE IF ~r.open
    THEN [ok |-> TRUE, open |-> atom = ":",
          text |-> IF atom = ":" THEN r.text ELSE Append(r.text, Literal(atom))]
    ELSE [ok |-> atom \in Words \cup {":", "="}, open |-> FALSE,
          text |-> IF atom \in Words THEN Append(r.text, Named(atom))
                   ELSE r.text \o <<Literal(":"), Literal(atom)>>]

scan(line) ==
    LET s[n \in 0..Len(line)] ==
            IF n = 0 THEN [ok |-> TRUE, open |-> FALSE, text |-> <<>>]
                     ELSE Scanned(s[n - 1], line[n])
    IN s

parse_text(line) ==
    LET r == scan(line)[Len(line)] IN [ok |-> r.ok /\ ~r.open, text |-> r.text]

(* A header begins a query, other comments are dropped, text goes to the   *)
(* query begun last.                                                       *)
line_visitor(r, line) ==
    LET parsed == parse_text(line)
        last == Len(r.queries)
    IN IF r.error # "none" THEN r
       ELSE IF is_comment(line)
       THEN IF parse_header(line) = <<>> THEN r
            ELSE [r EXCEPT !.queries = Append(@, [name |-> parse_header(line), text |-> <<>>])]
       ELSE IF last = 0 THEN [r EXCEPT !.error = "expected comment"]
       ELSE IF ~parsed.ok THEN [r EXCEPT !.error = "failed to parse query text"]
       ELSE [r EXCEPT !.queries[last].text = @ \o parsed.text]

(* What the visitor has made of the first n lines.                         *)
visited(lines) ==
    LET v[n \in 0..Len(lines)] ==
            IF n = 0 THEN [error |-> "none", queries |-> <<>>]
                     ELSE line_visitor(v[n - 1], lines[n])
    IN v

parse_query_conf(lines) == visited(lines)[Len(lines)]

-----------------------------------------------------------------------------
(* The repository.  A declared query has a name and a parameters type: an   *)
(* adapted struct with members, or a tuple.                                 *)
(* Mutant: only neighbours are compared.                                  *)
NeighbourDuplicates(queries) ==
    \E i \in DOMAIN queries : i > 1 /\ queries[i].name = queries[i - 1].name

HasDuplicates(queries) == \E i, j \in DOMAIN queries : i # j /\ queries[i].name = queries[j].name

Names(queries) == {queries[i].name : i \in DOMAIN queries}

(* A named parameter is the member of that name, a numeric one counts the  *)
(* elements of the tuple from 0.                                           *)
(* Mutant: members are counted on after the name is found.               *)
CountsOn(query, name) ==
    IF query.adapted
    THEN IF name \notin Range(query.members) THEN [error |-> "parameter is not found", number |-> 0]
         ELSE [error |-> "none", number |-> Len(query.members) - 1]
    ELSE IF name \notin DOMAIN Numbers THEN [error |-> "only numeric names", number |-> 0]
         ELSE IF Numbers[name] >= Len(query.members) THEN [error |-> "out of range", number |-> 0]
         ELSE [error |-> "none", number |-> Numbers[name]]

query_parameter(query, name) ==
    LET found == {i \in DOMAIN query.members : query.members[i] = name} IN
    IF query.adapted
    THEN IF found = {} THEN [error |-> "parameter is not found", number |-> 0]
         ELSE [error |-> "none", number |-> Min(found) - 1]
    ELSE IF name \notin DOMAIN Numbers THEN [error |-> "only numeric names", number |-> 0]
         ELSE IF Numbers[name] >= Len(query.members) THEN [error |-> "out of range", number |-> 0]
         ELSE [error |-> "none", number |-> Numbers[name]]

query_part_visitor(query, part) ==
    LET parameter == query_parameter(query, part.atom) IN
    IF part.kind = "literal" THEN [error |-> "none", part |-> part]
    ELSE [error |-> parameter.error, part |-> Placeholder(parameter.number + 1)]

(* The parts are visited one after another until one throws.               *)
make_query_description(declared, parsed) ==
    LET is == {i \in DOMAIN declared : declared[i].name = parsed.name}
        visits == [i \in DOMAIN parsed.text |-> query_part_visitor(declared[Min(is)], parsed.text[i])]
        thrown == {i \in DOMAIN visits : visits[i].error # "none"}
    IN IF is = {} THEN [error |-> "query is not declared", text |-> <<>>]
       ELSE IF thrown # {} THEN [error |-> visits[Min(thrown)].error, text |-> <<>>]
       ELSE [error |-> "none", text |-> [i \in DOMAIN visits |-> visits[i].part]]

RefusedFor(error) == [error |-> error, queries |-> <<>>]

make_query_repository(lines, declared) ==
    LET parsed == parse_query_conf(lines)
        queries == parsed.queries
        made == [i \in DOMAIN queries |-> make_query_description(declared, queries[i])]
        failed == {i \in DOMAIN made : made[i].error # "none"}
    IN IF HasDuplicates(declared) THEN RefusedFor("duplicate declaration")
       ELSE IF parsed.error # "none" THEN RefusedFor(parsed.error)
       ELSE IF HasDuplicates(queries) THEN RefusedFor("duplicate definition")
       ELSE IF ~(Names(declared) \subseteq Names(queries)) THEN RefusedFor("query is not defined")
       ELSE IF failed # {} THEN RefusedFor(made[Min(failed)].error)
       ELSE [error |-> "none",
             queries |-> [i \in DOMAIN queries |-> [name |-> queries[i].name, text |-> made[i].text]]]
=============================================================================
