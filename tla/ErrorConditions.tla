-------------------------- MODULE ErrorConditions ---------------------------
(***************************************************************************)
(* Error codes and the conditions they are compared with (error.h), and    *)
(* the conditions the host roles recover (failover/role_based.h).  A code  *)
(* or condition is a pair of its category and its name; the numbers of the *)
(* SQL states matter, as a class is a range of them.                       *)
(***************************************************************************)
EXTENDS Integers

Of(category, names) == {category} \X names

(* The SQL states told apart here: the classes 08, 09, 25 and 57, with     *)
(* members of them at both ends and in the middle.                         *)
sqlstate ==
    [connection_exception |-> 373248, connection_failure |-> 373254,
     protocol_violation |-> 405649, triggered_action_exception |-> 419904,
     invalid_transaction_state |-> 3592512, read_only_sql_transaction |-> 3592518,
     operator_intervention |-> 8724672, admin_shutdown |-> 8757073]
SqlClasses == {"connection_exception", "triggered_action_exception",
               "invalid_transaction_state", "operator_intervention"}
class_width == 46656  \* 36^3, 01000 in base 36

(* sqlstate::category::equivalent(): a class stands for all its states, a  *)
(* state for itself.                                                       *)
equivalent(state, condition) ==
    IF condition \in SqlClasses
    THEN sqlstate[state] \in sqlstate[condition]..(sqlstate[condition] + class_width - 1)
    ELSE state = condition

(* ec == x for an error code, or a condition other than errc.              *)
SameCode(ec, x) ==
    IF x[1] = "sqlstate" THEN ec[1] = "sqlstate" /\ equivalent(ec[2], x[2])
    ELSE ec = x

(* A table of connection errors without those a closed or timed out socket *)
(* ends an operation with.                                                 *)
CodesWithoutTimeouts(condition) ==
    CASE condition = "connection_error" ->
           Of("sqlstate", {"connection_exception"}) \cup
           Of("asio", {"broken_pipe", "connection_refused", "connection_reset"})
      [] condition = "database_readonly" -> Of("sqlstate", {"read_only_sql_transaction"})
      [] OTHER -> {}

codes_for_condition(condition) ==
    CASE condition = "connection_error" ->
           Of("sqlstate", {"connection_exception"}) \cup
           Of("asio", {"broken_pipe", "connection_aborted", "connection_refused",
              "connection_reset", "fault", "host_unreachable", "interrupted", "network_reset",
              "not_connected", "operation_aborted", "shut_down", "timed_out", "try_again",
              "host_not_found", "host_not_found_try_again", "no_data", "no_recovery"}) \cup
           Of("system", {"io_error"}) \cup
           Of("ozo", {"pq_connection_start_failed", "pq_socket_failed",
              "pq_connection_status_bad", "pq_connect_poll_failed",
              "pg_send_query_params_failed", "pg_consume_input_failed",
              "pg_set_nonblocking_failed", "pg_flush_failed"})
      [] condition = "database_readonly" -> Of("sqlstate", {"read_only_sql_transaction"})
      [] condition = "introspection_error" ->
           Of("ozo", {"bad_result_process", "bad_object_size", "bad_array_size",
              "bad_array_dimension", "bad_composite_size", "unexpected_eof"})
      [] condition = "type_mismatch" -> Of("ozo", {"oid_type_mismatch"})
      [] condition = "protocol_error" ->
           Of("ozo", {"no_sql_state_found", "result_status_unexpected",
              "result_status_empty_query", "result_status_bad_response",
              "oid_request_failed"})

(* errc::match_code(): ec == x for some x of the conditions.               *)
match_code(conditions, ec) ==
    \E x \in conditions :
       IF x[1] = "errc" THEN \E y \in codes_for_condition(x[2]) : SameCode(ec, y)
       ELSE SameCode(ec, x)

(* can_recover_impl of the two roles the library defines.                  *)
can_recover(role, ec) ==
    match_code(Of("errc", {"connection_error", "type_mismatch", "protocol_error"}
                          \cup (IF role = "master" THEN {"database_readonly"} ELSE {})), ec)
=============================================================================
