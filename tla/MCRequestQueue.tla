---------------------------- MODULE MCRequestQueue ----------------------------
(* Two io_contexts, the second with two of the three requests.             *)
EXTENDS RequestQueue, TLC

CONSTANTS a, b, z, x, y

MCRequests == {a, b, z}
MCContexts == {x, y}
MCContextOf == (a :> x) @@ (b :> y) @@ (z :> y)
=============================================================================
