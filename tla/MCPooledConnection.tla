------------------------ MODULE MCPooledConnection ------------------------
(* A user with a deadline, one without a constraint, and one with a        *)
(* deadline who asks a provider with a bound on the time to get a          *)
(* connection, which makes a duration of it.                               *)
EXTENDS PooledConnection, TLC

CONSTANTS d, b, n

MCConstraint == (d :> "deadline") @@ (b :> "deadline") @@ (n :> "none")

MCBound == (d :> Unbound) @@ (b :> 1) @@ (n :> Unbound)

\* Every option present, absent, none and of several values.
MCOptions ==
  {NoOptions,
   [isolation_level |-> "serializable", mode |-> "read_only", deferrability |-> "deferrable"],
   [isolation_level |-> "none", deferrability |-> "not_deferrable"]}
=============================================================================
