------------------------------- MODULE MCHeap -------------------------------
(***************************************************************************)
(* Sixteen units of two bytes.  The requests include none, a byte, one     *)
(* more than a unit, the top bit and factors whose product exceeds         *)
(* SIZE_MAX.                                                               *)
(***************************************************************************)
EXTENDS Heap
=============================================================================
