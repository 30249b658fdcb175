------------------------------ MODULE SnStore ------------------------------
(***************************************************************************)
(* What the bootloader promises about the device's serial number (SN): it  *)
(* is written at most once, all at once, and it is a number somebody asked *)
(* the device to store.                                                    *)
(***************************************************************************)
CONSTANTS SNs,   (* the well-formed serial numbers                         *)
          NoSN

VARIABLES asked,   (* the numbers a writer has sent                        *)
          stored   (* the number a reader gets, or NoSN                    *)

Init == asked = {} /\ stored = NoSN

Ask == \E sn \in SNs : asked' = asked \union {sn} /\ UNCHANGED stored

Store ==
  /\ stored = NoSN
  /\ stored' \in asked
  /\ UNCHANGED asked

Next == Ask \/ Store

Spec == Init /\ [][Next]_<<asked, stored>>
=============================================================================
