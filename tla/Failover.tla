------------------------------ MODULE Failover ------------------------------
(***************************************************************************)
(* An operation performed with a failover strategy: failover::retry        *)
(* (failover/retry.h) or failover::role_based (failover/role_based.h),     *)
(* driven by the continuation of failover/strategy.h.  Each try asks a     *)
(* pool of connections for one, works with it for no longer than its share *)
(* of the time, and completes; on an error the continuation looks for a    *)
(* next try and starts it from inside the completion handler, while the    *)
(* connection of the failed try is still held, or else calls the user's    *)
(* handler.  The operation itself (modules PooledConnection and            *)
(* AsyncRequest) is what Succeed, Fail and Expire say of it.  Time starts  *)
(* at 0, when the user starts the operation.                               *)
(***************************************************************************)
EXTENDS ErrorConditions, Sequences

CONSTANTS Errors,     \* the error codes the operation of a try may fail with
          Roles,      \* the host roles, each with a pool of its own
          Conditions, \* the sets of conditions retry() is given
          MaxTries,   \* bound: tries of a retry, roles of a role_based
          Capacity,   \* cells of each pool
          Limits,     \* the time constraints of the operation, None or a duration
          None

ASSUME FailoverAssumption ==
    /\ Roles \subseteq {"master", "replica"}
    /\ MaxTries \in Nat \ {0} /\ Capacity \in Nat \ {0}
    /\ Limits \subseteq Nat \cup {None} /\ None \notin Nat

(* What a try ends with when its time is over, and when its pool has no    *)
(* cell for it in time.                                                    *)
Timeout == <<"asio", "timed_out">>
Refusal == <<"pool", "get_resource_timeout">>
Nothing == <<"ozo", "ok">>  \* the error code of a success

VARIABLES opts,   \* the options of the strategy and the operation's limit
          left,   \* tries_remain() of a retry, tries_left() of a role_based
          pc,     \* "idle", "asking", "refused", "trying" or "done"
          share,  \* the time constraint of the current try
          since,  \* when the current try started
          conn,   \* its connection: "null", "open", "reused" or "closed"
          parked, \* pools that hold an open connection a try has failed on
          others, \* cells of each pool in the hands of other operations
          elapsed,  \* the time since the user started the operation
          calls, answer

failoverVars == <<opts, left, pc, share, since, conn, parked, others, elapsed, calls, answer>>

(* retry(conditions...)*tries and role_based(roles...): the role of a      *)
(* retry is the single source it was given.                                *)
Options ==
    [kind : {"retry"}, tries : 0..MaxTries, conditions : Conditions,
     roles : {<<r>> : r \in Roles}, close_connection : BOOLEAN, limit : Limits]
    \cup
    [kind : {"role_based"}, tries : {0}, conditions : {{}},
     roles : UNION {[1..n -> Roles] : n \in 1..MaxTries},
     close_connection : BOOLEAN, limit : Limits]

(* role(): the role of the try that has n tries left.                      *)
RoleAt(n) ==
    IF opts.kind = "retry" THEN opts.roles[1]
    ELSE opts.roles[Len(opts.roles) - n + 1]

TimeLeft == IF opts.limit > elapsed THEN opts.limit - elapsed ELSE 0

(* Shares of the whole limit, and shares that ignore the tries made.       *)
WholeShare(n) == IF opts.limit = None THEN None ELSE IF n > 0 THEN opts.limit \div n ELSE 0
FixedShare(n) == IF opts.limit = None THEN None ELSE IF n > 0 THEN TimeLeft \div MaxTries ELSE 0

(* What is left of the operation's time, divided among the tries left.     *)
get_try_time_constraint(n) ==
    IF opts.limit = None THEN None ELSE IF n > 0 THEN TimeLeft \div n ELSE 0

(* Whether a request with the time constraint s waits in the pool's queue: *)
(* the queue timeout without a constraint is 0.                            *)
NeverWaits(s) == FALSE
queue_timeout(s) == s \notin {None, 0}

-----------------------------------------------------------------------------
FailoverInit ==
    /\ opts \in Options
    /\ left = IF opts.kind = "retry" THEN opts.tries ELSE Len(opts.roles)
    /\ pc = "idle" /\ share = 0 /\ since = 0 /\ conn = "null"
    /\ parked = {} /\ others \in [Roles -> 0..Capacity]
    /\ elapsed = 0 /\ calls = 0 /\ answer = Nothing

(* initiate_operation(): the try with n tries left asks the pool of its    *)
(* role, which counts the `held` cells of the failed try as used.  A free  *)
(* cell gives a connection a try has failed on, if one was returned open,  *)
(* or another; without a free cell the request waits or is refused.  The   *)
(* pools in `returned` then get their connection back.                     *)
initiate_operation(n, held, returned) ==
    LET pool == RoleAt(n) IN
    /\ left' = n
    /\ share' = get_try_time_constraint(n)
    /\ since' = elapsed
    /\ \/ /\ others[pool] + held < Capacity
          /\ pc' = "trying"
          /\ \/ conn' = "open" /\ parked' = parked \cup returned
             \/ /\ pool \in parked
                /\ conn' = "reused" /\ parked' = (parked \ {pool}) \cup returned
       \/ /\ others[pool] + held >= Capacity
          /\ pc' = IF queue_timeout(share') THEN "asking" ELSE "refused"
          /\ conn' = "null"
          /\ parked' = parked \cup returned

(* operation_initiator: get_first_try() and its initiation.                *)
Start ==
    /\ pc = "idle"
    /\ initiate_operation(left, 0, {})
    /\ UNCHANGED <<opts, others, elapsed, calls, answer>>

(* basic_try::get_next_try(): the tries the next try has left, 0 if there  *)
(* is none.                                                                *)
get_next_try(e) ==
    LET remain == IF left > 0 THEN left - 1 ELSE 0 IN
    IF remain >= 1 /\ (opts.conditions = {} \/ match_code(opts.conditions, e))
    THEN {remain} ELSE {0}

(* role_based_try::initiate_next_try(): the first of the following roles   *)
(* that can recover the error; the roles that cannot are skipped.          *)
initiate_next_try(e) ==
    LET able == {n \in 1..(left - 1) : can_recover(RoleAt(n), e)} IN
    IF able = {} THEN {0} ELSE {n \in able : \A m \in able : m <= n}

NextTry(e) == IF opts.kind = "retry" THEN get_next_try(e) ELSE initiate_next_try(e)

(* A guard released by the roles that are skipped and taken by no other.   *)
CloseUnlessSkipped(c, n) ==
    IF opts.close_connection /\ c # "null" /\ n \in {0, left - 1} THEN "closed" ELSE c

(* The connection after the guard of defer_close_connection() has run.     *)
defer_close_connection(c, n) ==
    IF opts.close_connection /\ c # "null" THEN "closed" ELSE c

(* continuation::operator(): the try has ended with the error e and holds  *)
(* the connection c.  The next try is initiated while c occupies its cell; *)
(* c goes back to its pool when the handler has returned, and stays there  *)
(* if it is open.                                                          *)
continuation(e, c) ==
    \E n \in NextTry(e) :
    LET used == RoleAt(left)
        held == IF c # "null" /\ RoleAt(n) = used THEN 1 ELSE 0
        after == defer_close_connection(c, n) IN
    /\ \/ /\ n > 0
          /\ initiate_operation(n, held, IF after \in {"open", "reused"} THEN {used} ELSE {})
          /\ UNCHANGED <<calls, answer>>
       \/ /\ n = 0
          /\ pc' = "done" /\ calls' = calls + 1 /\ answer' = e /\ conn' = after
          /\ UNCHANGED <<left, share, since, parked>>
    /\ UNCHANGED <<opts, others, elapsed>>

Timed == share # None
Over == Timed /\ elapsed >= since + share

(* A refusal that is not passed on when no try is left.                    *)
RefusedSilent ==
    pc = "refused" /\ pc' = "done"
    /\ UNCHANGED <<opts, left, share, since, conn, parked, others, elapsed, calls, answer>>

(* The pool answers the request for a cell at once with an error.          *)
Refused == pc = "refused" /\ continuation(Refusal, "null")

(* The queue of the pool serves the request, or its timer expires.         *)
Granted ==
    /\ pc = "asking" /\ others[RoleAt(left)] < Capacity
    /\ pc' = "trying"
    /\ \/ conn' = "open" /\ UNCHANGED parked
       \/ /\ RoleAt(left) \in parked
          /\ conn' = "reused" /\ parked' = parked \ {RoleAt(left)}
    /\ UNCHANGED <<opts, left, share, since, others, elapsed, calls, answer>>

QueueTimeout == pc = "asking" /\ Over /\ continuation(Refusal, "null")

(* The operation of the try succeeds, fails with its connection open or    *)
(* closed, or is stopped by its own deadline.                              *)
Succeed ==
    /\ pc = "trying"
    /\ pc' = "done" /\ calls' = calls + 1 /\ answer' = Nothing
    /\ UNCHANGED <<opts, left, share, since, conn, parked, others, elapsed>>

Fail ==
    /\ pc = "trying"
    /\ \E e \in Errors, c \in {conn, "closed"} : continuation(e, c)

Expire == pc = "trying" /\ Over /\ continuation(Timeout, "closed")

(* Other operations take and return cells of the pools.                    *)
Others ==
    /\ pc # "done"
    /\ \E r \in Roles, k \in 0..Capacity :
         /\ k + (IF pc = "trying" /\ RoleAt(left) = r THEN 1 ELSE 0) <= Capacity
         /\ others' = [others EXCEPT ![r] = k]
    /\ UNCHANGED <<opts, left, pc, share, since, conn, parked, elapsed, calls, answer>>

(* Time passes; a timer that has expired is served first.  Without a time  *)
(* constraint nothing depends on the clock.                                *)
TimePasses ==
    /\ pc \in {"asking", "trying"} /\ Timed /\ ~Over
    /\ elapsed' = elapsed + 1
    /\ UNCHANGED <<opts, left, pc, share, since, conn, parked, others, calls, answer>>

Finished == pc = "done" /\ UNCHANGED failoverVars

FailoverNext ==
    \/ Start \/ Refused \/ Granted \/ QueueTimeout \/ Succeed \/ Fail \/ Expire
    \/ Others \/ TimePasses \/ Finished

(* The executor runs what is ready; an operation answers, within its       *)
(* deadline if it has one; time does not stop.                             *)
FailoverFairness ==
    /\ WF_failoverVars(Start) /\ WF_failoverVars(Refused) /\ WF_failoverVars(QueueTimeout)
    /\ WF_failoverVars(Expire) /\ WF_failoverVars(TimePasses) /\ WF_failoverVars(Succeed \/ Fail)

FailoverSpec == FailoverInit /\ [][FailoverNext]_failoverVars /\ FailoverFairness

-----------------------------------------------------------------------------
(* Type invariant of the continuation, its try and its pools.              *)
FailoverTypeOK ==
    /\ opts \in Options
    /\ left \in 0..MaxTries
    /\ pc \in {"idle", "asking", "refused", "trying", "done"}
    /\ share \in Nat \cup {None} /\ since \in Nat /\ elapsed \in Nat
    /\ conn \in {"null", "open", "reused", "closed"}
    /\ parked \subseteq Roles
    /\ others \in [Roles -> 0..Capacity]
    /\ calls \in 0..1 /\ answer \in Errors \cup {Nothing, Timeout, Refusal}

(* The tries of an operation with a time constraint do not outlast it,     *)
(* however many there are and however their ends interleave with the pools *)
(* (get_try_time_constraint divides what is left of the deadline).         *)
WithinLimit == opts.limit # None => elapsed <= opts.limit

(* A later try never has less time than an earlier one: the "(0,5 - t1) / 2 *)
(* >= 0,5/3 sec" of the comment on retry_strategy::tries, for both         *)
(* strategies, with roles skipped, and in whole ticks.                     *)
SharesNeverShrink ==
    [][(share \in Nat /\ pc # "idle") => share' >= share]_failoverVars

(* With the close_connection option (the default) no try works with a      *)
(* connection an earlier try has failed on, although the next try is       *)
(* started before the failed connection has left the caller's hands.       *)
(* Nor does the user's handler get an error with an open connection,       *)
(* whether no try was left, the error was none to retry, or every role     *)
(* left had to be skipped.                                                 *)
FailedIsClosed ==
    opts.close_connection =>
        /\ conn # "reused"
        /\ (pc = "done" /\ answer # Nothing) => conn \in {"null", "closed"}

(* A try is refused a connection at once only if it has no time to wait    *)
(* in, and either other operations hold every cell of its pool or they     *)
(* hold all but the one of the failed try before it, which asked the same  *)
(* pool.  Every operation without a time constraint has no time to wait.   *)
RefusedForCause ==
    [][(pc' = "refused" /\ (pc # "refused" \/ left' # left)) =>
         /\ share' \in {None, 0}
         /\ \/ others[RoleAt(left)'] = Capacity
            \/ /\ pc = "trying" /\ RoleAt(left)' = RoleAt(left)
               /\ others[RoleAt(left)] = Capacity - 1]_failoverVars

(* A role_based operation whose try runs out of time falls back to the     *)
(* next role, whichever it is, and the user gets the timeout only from the *)
(* last one: the code the timer's handler reports is a connection error,   *)
(* and both roles recover those.                                           *)
TimeoutFallsBack ==
    [][(opts.kind = "role_based" /\ pc' = "done" /\ answer' = Timeout) =>
         (pc = "done" \/ left = 1)]_failoverVars

(* Every operation started ends with exactly one call of the user's        *)
(* handler, as the strategy runs out of tries.                             *)
Answered == (pc = "idle") ~> [](calls = 1)
=============================================================================
