----------------------------- MODULE MCTimeSync -----------------------------
(***************************************************************************)
(* A retry period of 3 ms, a response time of 2 ms and a counter that      *)
(* wraps at 5: a wrap falls into every phase of a request.                 *)
(***************************************************************************)
EXTENDS TimeSync
=============================================================================
