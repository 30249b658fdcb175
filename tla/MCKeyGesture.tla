---------------------------- MODULE MCKeyGesture ----------------------------
(***************************************************************************)
(* Small instance of KeyGesture: thresholds in the code's order (debounce  *)
(* < double-click window < long press), samples 0 to 2 ms apart, a tick    *)
(* counter that wraps every 16 ms and starts anywhere.                    *)
(***************************************************************************)
EXTENDS KeyGesture
=============================================================================
