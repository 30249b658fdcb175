---------------------------- MODULE SerialNumber ----------------------------
(* The device's serial numbers (SN), of the form SN-TacGlove-dddddd.       *)

CONSTANTS SNs,   (* the numbers there may be                               *)
          NoSN   (* no number                                              *)

ASSUME SerialNumberAssumption == NoSN \notin SNs
=============================================================================
