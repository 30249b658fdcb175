--------------------------- MODULE MCMicroRosLink ---------------------------
(***************************************************************************)
(* Small instance of MicroRosLink: a queue of two, two failed pings, and   *)
(* more events than the queue and the key task hold.                       *)
(***************************************************************************)
EXTENDS MicroRosLink
=============================================================================
