----------------------------- MODULE QuerySource ----------------------------
(***************************************************************************)
(* A user makes queries: with the query builder, or from a repository that *)
(* was read from a configuration, and executes one after another.  What    *)
(* becomes of a query that is executed is told by QueryRoundTrip.          *)
(***************************************************************************)
EXTENDS QueryText

CONSTANTS
    Parameters,     \* the parameters of queries from the builder
    MaxParameters,  \* parameters of one query
    ConfLines,      \* the lines a configuration is made of
    MaxLines,       \* lines of a configuration
    Declarations,   \* the lists of declared queries
    ConfParameters  \* the parameters of repository queries

(* What a line can consist of, and what can be declared: the members of a  *)
(* struct have different names.                                            *)
Atoms == Words \cup {"--", ":", "=", " "}

ASSUME SourceAssumption ==
    /\ {"--", ":", "=", " "} \cap Words = {}
    /\ DOMAIN Numbers \subseteq Words /\ \A name \in DOMAIN Numbers : Numbers[name] \in Nat
    /\ ConfLines \subseteq Seq(Atoms) /\ MaxLines \in Nat /\ MaxParameters \in Nat
    /\ \A declared \in Declarations :
          /\ declared \in Seq([name : Seq(Atoms), adapted : BOOLEAN, members : Seq(Words)])
          /\ \A q \in DOMAIN declared : \A i, j \in DOMAIN declared[q].members :
                declared[q].members[i] = declared[q].members[j] => i = j

VARIABLES
    phase,      \* "start", "ready", "made", "sent", "answered", "stopped"
    declared, lines,    \* the declared queries and the configuration read
    repository,         \* what make_query_repository made of them
    query,      \* the query: text and params
    asked       \* the parameters meant by the author, in the order of the text

sourceVars == <<phase, declared, lines, repository, query, asked>>

NoRepository == [error |-> "none", queries |-> <<>>]
NoQuery == [text |-> <<>>, params |-> <<>>]

SourceInit ==
    /\ phase = "start"
    /\ declared = <<>> /\ lines = <<>> /\ repository = NoRepository
    /\ query = NoQuery /\ asked = <<>>

-----------------------------------------------------------------------------
(* make_query_repository: refused, there is nothing to make queries from.   *)
Load ==
    /\ phase = "start"
    /\ declared' \in Declarations
    /\ lines' \in UNION {[1..n -> ConfLines] : n \in 0..MaxLines}
    /\ repository' = make_query_repository(lines', declared')
    /\ phase' = IF repository'.error = "none" THEN "ready" ELSE "stopped"
    /\ UNCHANGED <<query, asked>>

Make(text_, params_, asked_) ==
    /\ query' = [text |-> text_, params |-> params_]
    /\ asked' = asked_
    /\ phase' = "made"
    /\ UNCHANGED <<declared, lines, repository>>

(* query_builder::build(): literals and parameters in turn.                *)
Elements(ps) ==
    [i \in 1..2 * Len(ps) |-> IF i % 2 = 1 THEN [tag |-> "query_text", value |-> ","]
                              ELSE [tag |-> "query_param", value |-> ps[i \div 2]]]

Build(parameters) ==
    /\ phase \in {"start", "ready"} /\ repository = NoRepository
    /\ \E n \in 1..MaxParameters : \E ps \in [1..n -> parameters] :
          Make(text(Elements(ps)), params(Elements(ps)), ps)

(* The author of a configuration means a parameter wherever a word follows *)
(* a colon that is not the second of a pair; the text of a query is what   *)
(* stands between its header and the next one.                             *)
ColonsBefore(line, i) == i - 1 - Max({0} \cup {j \in 1..i - 1 : line[j] # ":"})

(* A colon that begins something.                                          *)
Opens(line, i) == line[i] = ":" /\ ColonsBefore(line, i) % 2 = 0

SpotsOf(line) ==
    Picked(line, {i \in 2..Len(line) : line[i] \in Words /\ Opens(line, i - 1)})

IsHeader(line) == is_comment(line) /\ parse_header(line) # <<>>

SpotsFrom(header) ==
    LET s[n \in 0..Len(lines)] ==
            IF n = 0 THEN <<>>
            ELSE IF \/ n <= header \/ is_comment(lines[n])
                    \/ \E i \in header + 1..n : IsHeader(lines[i]) THEN s[n - 1]
            ELSE s[n - 1] \o SpotsOf(lines[n])
    IN s

Headers == {i \in DOMAIN lines : IsHeader(lines[i])}

Spots(name) == SpotsFrom(Min({h \in Headers : parse_header(lines[h]) = name}))[Len(lines)]

Meant(q, ps, name) ==
    IF q.adapted THEN ps[CHOOSE i \in DOMAIN q.members : q.members[i] = name]
                 ELSE ps[Numbers[name] + 1]

(* query_repository::make_query<Q>(parameters): the members in their order.*)
MakeQuery ==
    /\ phase = "ready" /\ repository # NoRepository
    /\ \E i \in DOMAIN declared :
       \E ps \in [DOMAIN declared[i].members -> ConfParameters] :
          LET q == declared[i]
              description == CHOOSE d \in Range(repository.queries) : d.name = q.name
              spots == Spots(q.name)
          IN Make(description.text, ps, [k \in DOMAIN spots |-> Meant(q, ps, spots[k])])

(* The query is sent, answered, and received or refused.                   *)
Execute ==
    /\ phase \in {"made", "sent", "answered"}
    /\ phase' \in {"sent", "answered", "ready"}
    /\ UNCHANGED <<declared, lines, repository, query, asked>>

SourceNext == Load \/ Build(Parameters) \/ MakeQuery \/ Execute

SourceSpec == SourceInit /\ [][SourceNext]_sourceVars

-----------------------------------------------------------------------------
Numbered(text_) == Picked(text_, {i \in DOMAIN text_ : text_[i].kind = "placeholder"})

(* query_builder and query_conf: the k-th placeholder of a text refers to  *)
(* the parameter its author wrote or named at that place, casts,           *)
(* assignments and other queries of the configuration notwithstanding.     *)
PlaceholdersMeant ==
    LET spots == Numbered(query.text) IN
    /\ Len(spots) = Len(asked)
    /\ \A k \in DOMAIN spots : /\ spots[k].number \in DOMAIN query.params
                               /\ query.params[spots[k].number] = asked[k]

(* A configuration a repository can be made of: every declared query has   *)
(* one header and there are no other headers, no text stands before the    *)
(* first, no colon is left over, and all names can be resolved.            *)
StrayColon(line) ==
    \E i \in DOMAIN line :
       Opens(line, i) /\ (i = Len(line) \/ line[i + 1] \notin Words \cup {":", "="})

Resolvable(q, name) ==
    IF q.adapted THEN name \in Range(q.members)
                 ELSE name \in DOMAIN Numbers /\ Numbers[name] < Len(q.members)

GoodConf ==
    /\ \A h, i \in Headers : parse_header(lines[h]) = parse_header(lines[i]) => h = i
    /\ \A i, j \in DOMAIN declared : declared[i].name = declared[j].name => i = j
    /\ Names(declared) = {parse_header(lines[h]) : h \in Headers}
    /\ \A i \in DOMAIN lines :
          is_comment(lines[i]) \/ ((\E h \in Headers : h < i) /\ ~StrayColon(lines[i]))
    /\ \A q \in Range(declared) : \A k \in DOMAIN Spots(q.name) : Resolvable(q, Spots(q.name)[k])

(* make_query_repository throws exactly for the configurations that are    *)
(* not good, in whatever order its checks are made, and a repository that  *)
(* was made has every declared query.                                      *)
RepositoryForCause ==
    declared # <<>> => /\ repository.error = "none" <=> GoodConf
                       /\ repository.error = "none" => Names(repository.queries) = Names(declared)
=============================================================================
