---------------------------- MODULE MCLedDriver ----------------------------
(***************************************************************************)
(* Two cameras and the system LED, two slots to a pixel and two low slots: *)
(* the half of the frame is in its data, and a transfer can stop inside a  *)
(* pixel.                                                                  *)
(***************************************************************************)
EXTENDS LedDriver
=============================================================================
