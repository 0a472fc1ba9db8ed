---------------------------- MODULE ConnectOutcome ----------------------------
(***************************************************************************)
(* What is left of a connection when connection_info has called the user's *)
(* handler: the contract between AsyncConnect, which ends in one of these  *)
(* states, and PooledConnection, which starts from them.                   *)
(*                                                                         *)
(* status is PQstatus, "none" without a native handle; txn is              *)
(* PQtransactionStatus, of use only while status is "ok", and oids says how *)
(* much of the oid map is loaded.                                          *)
(***************************************************************************)

ConnStates ==
  [status : {"none", "connecting", "ok", "bad"},
   txn : {"idle", "active", "intrans", "inerror"},
   oids : {"unset", "partial", "loaded"}]

NoHandle == [status |-> "none", txn |-> "idle", oids |-> "unset"]

ConnectFailures ==
  {NoHandle}
    \cup [status : {"connecting", "bad"}, txn : {"idle"}, oids : {"unset"}]
    \cup [status : {"ok"}, txn : {"idle", "active"}, oids : {"unset", "partial"}]
    \* The time was over when all was done.
    \cup [status : {"ok"}, txn : {"idle"}, oids : {"loaded"}]

ConnectSuccess == [status |-> "ok", txn |-> "idle", oids |-> "loaded"]
=============================================================================
