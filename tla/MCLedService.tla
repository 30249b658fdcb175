---------------------------- MODULE MCLedService ----------------------------
(***************************************************************************)
(* Small instance of LedService: one camera LED stands for the five, which *)
(* the code always treats alike in local frames; one remote frame blinks   *)
(* with a double beep, one is solid and silent, and two are refused (an    *)
(* LED mode and a beep mode out of range).                                 *)
(***************************************************************************)
EXTENDS LedService

CONSTANT camera

MCCameras == {camera}

Input(c, s, b) ==
  [led_mode |-> [l \in {camera, System} |-> IF l = camera THEN c ELSE s],
   beep_mode |-> b]

MCInputs == {Input(2, 3, 3), Input(5, 0, 0), Input(1, 6, 0), Input(1, 1, 4)}
=============================================================================
