----------------------------- MODULE MCFailover -----------------------------
(***************************************************************************)
(* Failover with two roles, as the master and the replica of               *)
(* failover/role_based.h, and three errors of the operation: the last of   *)
(* SQL state class 08, a write to a replica, and the first of class 09.    *)
(***************************************************************************)
EXTENDS Failover

MCRoles == {"master", "replica"}
MCErrors == {<<"sqlstate", "protocol_violation">>, <<"sqlstate", "read_only_sql_transaction">>,
             <<"sqlstate", "triggered_action_exception">>}
MCConditions == {{}, {<<"errc", "connection_error">>},
                 {<<"errc", "connection_error">>, Refusal}}
MCLimits == {None, 1, 6, 7}
=============================================================================
