--------------------------- MODULE MCDmaTransport ---------------------------
(***************************************************************************)
(* Small instance of DmaTransport: a ring of three bytes that is filled up *)
(* to its last free slot and wraps more than twice, reads of one to three  *)
(* bytes.                                                                  *)
(***************************************************************************)
EXTENDS DmaTransport
=============================================================================
