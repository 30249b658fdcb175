------------------------------- MODULE RxFifo -------------------------------
(***************************************************************************)
(* What the micro-ROS client may rely on when it reads from its transport: *)
(* bytes are handed over in the order of their arrival, none twice and     *)
(* none left out, except that opening the transport forgets those that     *)
(* have not been read.  Bytes are numbered as they arrive.                 *)
(***************************************************************************)
EXTENDS Naturals

VARIABLES arrived,   (* the number of the last byte received               *)
          taken      (* the number of the last byte handed over            *)

Init == arrived = 0 /\ taken = 0

Arrive == arrived' = arrived + 1 /\ UNCHANGED taken

Take == taken < arrived /\ taken' = taken + 1 /\ UNCHANGED arrived

Forget == taken' = arrived /\ UNCHANGED arrived

Next == Arrive \/ Take \/ Forget

Spec == Init /\ [][Next]_<<arrived, taken>>
=============================================================================
