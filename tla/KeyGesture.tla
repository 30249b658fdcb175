----------------------------- MODULE KeyGesture -----------------------------
(***************************************************************************)
(* What the key handler promises, judged by an observer that knows nothing *)
(* of its states: the observer debounces the same samples by their run     *)
(* lengths, counts the debounced presses of a gesture and the events the   *)
(* key task forwards for it.                                               *)
(***************************************************************************)
EXTENDS KeyHandler

VARIABLES
  level,     (* the last sample: TRUE is pressed                           *)
  run,       (* ms since the first sample of the present level, capped     *)
  debounced, (* the observer's debounced level                             *)
  clicks,    (* debounced presses since the handler last left IDLE         *)
  held,      (* ms since the last debounced press, capped                  *)
  answered   (* events forwarded since the handler last left IDLE          *)

obsVars == <<level, run, debounced, clicks, held, answered>>
vars == <<keyVars, obsVars>>

(* The observer's clocks stop at a cap, so that the model stays finite.    *)
RunCap == KEY_DEBOUNCE_TIME_MS + KEY_LONG_PRESS_TIME_MS
            + KEY_DOUBLE_CLICK_TIME_MS + 2 * MaxGap
Capped(n, cap) == IF n < cap THEN n ELSE cap

Init ==
  /\ KeyInit
  /\ level = FALSE /\ run = 0 /\ debounced = FALSE
  /\ clicks = 0 /\ held = 0 /\ answered = 0

Observe(pressed) ==
  LET newRun == IF pressed = level THEN run ELSE 0
      stable == newRun >= KEY_DEBOUNCE_TIME_MS
      risen  == stable /\ pressed /\ ~debounced
      before == IF state = "IDLE" THEN 0 ELSE clicks
  IN /\ level' = pressed
     /\ run' = newRun
     /\ debounced' = IF stable THEN pressed ELSE debounced
     /\ clicks' = IF risen THEN before + 1 ELSE before
     /\ held' = IF risen THEN 0 ELSE held
     /\ answered' = IF state = "IDLE" THEN 0 ELSE answered

Process == \E pressed \in BOOLEAN :
  bsp_key_handler_process(pressed) /\ Observe(pressed)

DispatchAndSleep == \E d \in 0 .. MaxGap :
  /\ Dispatch(d)
  /\ run' = Capped(run + d, RunCap)
  /\ held' = Capped(held + d, KEY_LONG_PRESS_TIME_MS)
  /\ answered' = IF event = NONE THEN answered ELSE answered + 1
  /\ UNCHANGED <<level, debounced, clicks>>

Next == Process \/ DispatchAndSleep

Spec == Init /\ [][Next]_vars

-----------------------------------------------------------------------------
TypeOK ==
  /\ state \in KeyStates /\ event \in Gestures \union {NONE}
  /\ state_start_tick \in Ticks /\ press_start_tick \in Ticks
  /\ secondary_start_tick \in Ticks /\ tick \in Ticks
  /\ secondary_timing \in BOOLEAN /\ has_triggered \in BOOLEAN
  /\ pc \in {"process", "dispatch"}
  /\ level \in BOOLEAN /\ debounced \in BOOLEAN
  /\ run \in 0 .. RunCap /\ held \in 0 .. KEY_LONG_PRESS_TIME_MS
  /\ clicks \in Nat /\ answered \in Nat

(* The state machine's view of the key agrees with a plain debouncer at    *)
(* every sample: bounces shorter than the debounce time never start, end   *)
(* or split a press, across counter wrap-around and irregular sampling.    *)
DebounceAgrees ==
  debounced <=> state \in {"HOLD", "DEBOUNCE_RELEASE", "DOUBLE_DONE"}

(* No gesture is reported twice: has_triggered and the clearing of the     *)
(* event keep a press that was answered by LONG_PRESS or DOUBLE_CLICK from *)
(* being answered again, however long it is held or however it bounces.    *)
AtMostOneEvent ==
  answered + (IF event = NONE THEN 0 ELSE 1) <= 1

(* No confirmed press is lost: when the machine is back in IDLE and the    *)
(* task has run, a gesture with a debounced press has been forwarded, and  *)
(* noise without one has not.                                              *)
ConfirmedPressAnswered ==
  (state = "IDLE" /\ pc = "process") => (answered = 1 <=> clicks >= 1)

(* The event names the gesture that was made: one press held for the long  *)
(* threshold, one shorter press that is over, or two presses.              *)
EventMatchesClicks ==
  /\ event = "LONG_PRESS" =>
       clicks = 1 /\ debounced /\ held >= KEY_LONG_PRESS_TIME_MS
  /\ event = "SHORT_PRESS" => clicks = 1 /\ ~debounced
  /\ event = "DOUBLE_CLICK" => clicks = 2 /\ debounced

(* A key held without a bounce is answered within the debounce and long    *)
(* press times plus two sampling gaps, even after a bounce.                *)
HeldPressAnswered ==
  (/\ pc = "process" /\ level
   /\ run >= KEY_DEBOUNCE_TIME_MS + KEY_LONG_PRESS_TIME_MS + 2 * MaxGap)
     => answered = 1

(* A key left alone brings the machine back to IDLE within the debounce    *)
(* time, the double-click window and two sampling gaps, so the next        *)
(* gesture starts afresh.                                                  *)
ReleasedKeyGoesIdle ==
  (/\ pc = "process" /\ ~level
   /\ run >= KEY_DEBOUNCE_TIME_MS + KEY_DOUBLE_CLICK_TIME_MS + 2 * MaxGap)
     => state = "IDLE"

(* What bsp_key_handler.h says of KEY_EVENT_DOUBLE_CLICK: the second valid *)
(* press is completed within the double-click window, which starts when    *)
(* the first release is confirmed (state_start_tick).                      *)
DoubleClickWithinWindow ==
  event = "DOUBLE_CLICK" =>
    (tick - state_start_tick) % TickMod <= KEY_DOUBLE_CLICK_TIME_MS
=============================================================================
