---------------------------- MODULE BeginStatement ----------------------------
(***************************************************************************)
(* core/options.h, transaction_options.h and                               *)
(* detail/begin_statement_builder.h: the options of a transaction, a map   *)
(* from some of the option names to values, of which "none" is one, and    *)
(* the statement that begins a transaction with them: the set of clauses   *)
(* that follow BEGIN, whose order says nothing to the server.              *)
(***************************************************************************)

OptionNames == {"isolation_level", "mode", "deferrability"}

OptionValues(k) ==
  CASE k = "isolation_level" -> {"serializable", "repeatable_read", "read_committed", "read_uncommitted"}
    [] k = "mode" -> {"read_write", "read_only"}
    [] k = "deferrability" -> {"deferrable", "not_deferrable"}

Values == (UNION {OptionValues(k) : k \in OptionNames}) \cup {"none"}

\* What make_options() can give.
OptionMaps ==
  {m \in UNION {[S -> Values] : S \in SUBSET OptionNames} :
     \A k \in DOMAIN m : m[k] \in OptionValues(k) \cup {"none"}}

\* make_options() of nothing: the default of begin.
NoOptions == [k \in {} |-> "none"]

get_option(options, k, default) == IF k \in DOMAIN options THEN options[k] ELSE default

\* get_transaction_isolation_level() and its like, for each option.
Reported(options) == [k \in OptionNames |-> get_option(options, k, "none")]

-----------------------------------------------------------------------------
to_string(k, v) ==
  CASE k = "isolation_level" /\ v = "serializable" -> "ISOLATION LEVEL SERIALIZABLE"
    [] k = "isolation_level" /\ v = "repeatable_read" -> "ISOLATION LEVEL REPEATABLE READ"
    [] k = "isolation_level" /\ v = "read_committed" -> "ISOLATION LEVEL READ COMMITTED"
    [] k = "isolation_level" /\ v = "read_uncommitted" -> "ISOLATION LEVEL READ UNCOMMITTED"
    [] k = "mode" /\ v = "read_write" -> "READ WRITE"
    [] k = "mode" /\ v = "read_only" -> "READ ONLY"
    [] k = "deferrability" /\ v = "deferrable" -> "DEFERRABLE"
    [] k = "deferrability" /\ v = "not_deferrable" -> "NOT DEFERRABLE"

\* begin_statement_builder::build
real_options(options) == {k \in DOMAIN options : options[k] # "none"}
build(options) == {to_string(k, options[k]) : k \in real_options(options)}

-----------------------------------------------------------------------------
(* What the server makes of it.                                            *)

SessionDefaults == [k \in OptionNames |-> "none"]

\* The characteristic that a clause sets, and to what.
Sets(clause) ==
  CASE clause = "ISOLATION LEVEL SERIALIZABLE" -> "isolation_level"
    [] clause = "ISOLATION LEVEL REPEATABLE READ" -> "isolation_level"
    [] clause = "ISOLATION LEVEL READ COMMITTED" -> "isolation_level"
    [] clause = "ISOLATION LEVEL READ UNCOMMITTED" -> "isolation_level"
    [] clause \in {"READ WRITE", "READ ONLY"} -> "mode"
    [] clause \in {"DEFERRABLE", "NOT DEFERRABLE"} -> "deferrability"

To(clause) ==
  CASE clause = "ISOLATION LEVEL SERIALIZABLE" -> "serializable"
    [] clause = "ISOLATION LEVEL REPEATABLE READ" -> "repeatable_read"
    [] clause = "ISOLATION LEVEL READ COMMITTED" -> "read_committed"
    [] clause = "ISOLATION LEVEL READ UNCOMMITTED" -> "read_uncommitted"
    [] clause = "READ WRITE" -> "read_write"
    [] clause = "READ ONLY" -> "read_only"
    [] clause = "DEFERRABLE" -> "deferrable"
    [] clause = "NOT DEFERRABLE" -> "not_deferrable"

\* The characteristics of a transaction after a BEGIN, given those before it.
Begun(before, clauses) ==
  [k \in OptionNames |->
     LET said == {c \in clauses : Sets(c) = k} IN
       IF said = {} THEN before[k] ELSE To(CHOOSE c \in said : TRUE)]
=============================================================================
