------------------------------ MODULE MCBootSn ------------------------------
(***************************************************************************)
(* Small instance of BootSn: two numbers, so that the digits of one can be *)
(* mistaken for the other's, and one malformed payload.                    *)
(***************************************************************************)
EXTENDS BootSn
=============================================================================
