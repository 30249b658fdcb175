----------------------------- MODULE KeyHandler -----------------------------
(***************************************************************************)
(* The acquisition key of the glove: the gesture state machine of          *)
(* Application/BSP/KEY/bsp_key_handler.c and the key task that drives it   *)
(* (Application/Tasks/key_task.c).                                         *)
(*                                                                         *)
(* Each variable is a field of s_key; tick is HAL_GetTick(), which wraps   *)
(* at TickMod (2^32 on the target).  One iteration of the task's loop is   *)
(* two steps: bsp_key_handler_process samples PA11 and advances the state  *)
(* machine, then Dispatch forwards the recognised event, clears it and     *)
(* sleeps.  The handler is always initialised when the loop runs, so its   *)
(* "not initialised" returns do not occur.                                 *)
(***************************************************************************)
EXTENDS Integers

CONSTANTS
  KEY_DEBOUNCE_TIME_MS,      (* 20 in the code                             *)
  KEY_LONG_PRESS_TIME_MS,    (* 400 in the code                            *)
  KEY_DOUBLE_CLICK_TIME_MS,  (* 350 in the code                            *)
  MaxGap,                    (* longest time between two samples, ms       *)
  TickMod                    (* the tick counter's modulus                 *)

(***************************************************************************)
(* The thresholds are positive, and the counter does not wrap within one   *)
(* gesture phase that is sampled at least every MaxGap milliseconds.       *)
(***************************************************************************)
ASSUME KeyAssumption ==
  /\ KEY_DEBOUNCE_TIME_MS \in Nat \ {0}
  /\ KEY_LONG_PRESS_TIME_MS \in Nat \ {0}
  /\ KEY_DOUBLE_CLICK_TIME_MS \in Nat \ {0}
  /\ MaxGap \in Nat \ {0}
  /\ TickMod \in Nat
  /\ TickMod > KEY_DEBOUNCE_TIME_MS + KEY_LONG_PRESS_TIME_MS
                 + KEY_DOUBLE_CLICK_TIME_MS + MaxGap

VARIABLES
  state, event, state_start_tick, press_start_tick, secondary_start_tick,
  secondary_timing, has_triggered,
  tick,   (* HAL_GetTick()                                                 *)
  pc      (* the key task's next step: "process" or "dispatch"             *)

timers == <<state_start_tick, press_start_tick, secondary_start_tick>>
keyVars == <<state, event, timers, secondary_timing, has_triggered, tick, pc>>

KeyStates == {"IDLE", "DEBOUNCE_PRESS", "HOLD", "DEBOUNCE_RELEASE",
              "WAIT_DOUBLE", "DOUBLE_DONE"}
Gestures == {"LONG_PRESS", "SHORT_PRESS", "DOUBLE_CLICK"}
NONE == "NONE"
Ticks == 0 .. TickMod - 1

(* Slips for the mutation check: a strict comparison, a threshold one      *)
(* short, and a comparison of wrapped ticks as plain integers.             *)
TimeReachedStrict(start, duration) == duration < (tick - start) % TickMod
TimeReachedEarly(start, duration) == duration - 1 <= (tick - start) % TickMod
TimeReachedNoWrap(start, duration) == duration <= tick - start

(* Unsigned subtraction: right as long as less than TickMod has elapsed.   *)
key_time_reached(start, duration) == duration <= (tick - start) % TickMod

KeyInit ==
  /\ state = "IDLE" /\ event = NONE
  /\ state_start_tick = 0 /\ press_start_tick = 0 /\ secondary_start_tick = 0
  /\ secondary_timing = FALSE /\ has_triggered = FALSE
  /\ tick \in Ticks
  /\ pc = "process"

-----------------------------------------------------------------------------
(* The cases of bsp_key_handler_process; pressed is the sampled level.     *)

(* Mutation check: has_triggered survives into the next gesture.           *)
IdleKeepsTriggered(pressed) ==
  /\ state = "IDLE"
  /\ secondary_timing' = FALSE
  /\ state' = IF pressed THEN "DEBOUNCE_PRESS" ELSE state
  /\ state_start_tick' = IF pressed THEN tick ELSE state_start_tick
  /\ UNCHANGED <<event, press_start_tick, secondary_start_tick, has_triggered>>

Idle(pressed) ==
  /\ state = "IDLE"
  /\ has_triggered' = FALSE
  /\ secondary_timing' = FALSE
  /\ \/ /\ pressed
        /\ state' = "DEBOUNCE_PRESS"
        /\ state_start_tick' = tick
     \/ /\ ~pressed
        /\ UNCHANGED <<state, state_start_tick>>
  /\ UNCHANGED <<event, press_start_tick, secondary_start_tick>>

DebouncePress(pressed) ==
  /\ state = "DEBOUNCE_PRESS"
  /\ \/ /\ ~pressed
        /\ state' = "IDLE"
        /\ UNCHANGED press_start_tick
     \/ /\ pressed
        /\ key_time_reached(state_start_tick, KEY_DEBOUNCE_TIME_MS)
        /\ state' = "HOLD"
        /\ press_start_tick' = tick
     \/ /\ pressed
        /\ ~key_time_reached(state_start_tick, KEY_DEBOUNCE_TIME_MS)
        /\ UNCHANGED <<state, press_start_tick>>
  /\ UNCHANGED <<event, state_start_tick, secondary_start_tick,
                 secondary_timing, has_triggered>>

Hold(pressed) ==
  /\ state = "HOLD"
  /\ \/ /\ pressed
        /\ key_time_reached(press_start_tick, KEY_LONG_PRESS_TIME_MS)
        /\ ~has_triggered
        /\ event' = "LONG_PRESS"
        /\ has_triggered' = TRUE
        /\ UNCHANGED <<state, state_start_tick>>
     \/ /\ pressed
        /\ \/ ~key_time_reached(press_start_tick, KEY_LONG_PRESS_TIME_MS)
           \/ has_triggered
        /\ UNCHANGED <<state, state_start_tick, event, has_triggered>>
     \/ /\ ~pressed
        /\ state' = "DEBOUNCE_RELEASE"
        /\ state_start_tick' = tick
        /\ UNCHANGED <<event, has_triggered>>
  /\ UNCHANGED <<press_start_tick, secondary_start_tick, secondary_timing>>

DebounceRelease(pressed) ==
  /\ state = "DEBOUNCE_RELEASE"
  /\ \/ /\ pressed
        /\ state' = "HOLD"
        /\ UNCHANGED <<state_start_tick, secondary_timing>>
     \/ /\ ~pressed
        /\ key_time_reached(state_start_tick, KEY_DEBOUNCE_TIME_MS)
        /\ has_triggered
        /\ state' = "IDLE"
        /\ UNCHANGED <<state_start_tick, secondary_timing>>
     \/ /\ ~pressed
        /\ key_time_reached(state_start_tick, KEY_DEBOUNCE_TIME_MS)
        /\ ~has_triggered
        /\ state' = "WAIT_DOUBLE"
        /\ state_start_tick' = tick
        /\ secondary_timing' = FALSE
     \/ /\ ~pressed
        /\ ~key_time_reached(state_start_tick, KEY_DEBOUNCE_TIME_MS)
        /\ UNCHANGED <<state, state_start_tick, secondary_timing>>
  /\ UNCHANGED <<event, press_start_tick, secondary_start_tick, has_triggered>>

WaitDouble(pressed) ==
  /\ state = "WAIT_DOUBLE"
  /\ \/ /\ pressed /\ ~secondary_timing
        /\ secondary_timing' = TRUE
        /\ secondary_start_tick' = tick
        /\ UNCHANGED <<state, event, has_triggered>>
     \/ /\ pressed /\ secondary_timing
        /\ key_time_reached(secondary_start_tick, KEY_DEBOUNCE_TIME_MS)
        /\ ~has_triggered
        /\ event' = "DOUBLE_CLICK"
        /\ has_triggered' = TRUE
        /\ state' = "DOUBLE_DONE"
        /\ secondary_timing' = FALSE
        /\ UNCHANGED secondary_start_tick
     \/ /\ pressed /\ secondary_timing
        /\ \/ ~key_time_reached(secondary_start_tick, KEY_DEBOUNCE_TIME_MS)
           \/ has_triggered
        /\ UNCHANGED <<state, event, has_triggered, secondary_timing,
                       secondary_start_tick>>
     \/ /\ ~pressed
        /\ secondary_timing' = FALSE
        /\ \/ /\ key_time_reached(state_start_tick, KEY_DOUBLE_CLICK_TIME_MS)
              /\ ~has_triggered
              /\ event' = "SHORT_PRESS"
              /\ state' = "IDLE"
           \/ /\ \/ ~key_time_reached(state_start_tick,
                                      KEY_DOUBLE_CLICK_TIME_MS)
                 \/ has_triggered
              /\ UNCHANGED <<state, event>>
        /\ UNCHANGED <<has_triggered, secondary_start_tick>>
  /\ UNCHANGED <<state_start_tick, press_start_tick>>

DoubleDone(pressed) ==
  /\ state = "DOUBLE_DONE"
  /\ \/ /\ pressed
        /\ secondary_timing' = FALSE
        /\ UNCHANGED <<state, secondary_start_tick>>
     \/ /\ ~pressed /\ ~secondary_timing
        /\ secondary_timing' = TRUE
        /\ secondary_start_tick' = tick
        /\ UNCHANGED state
     \/ /\ ~pressed /\ secondary_timing
        /\ key_time_reached(secondary_start_tick, KEY_DEBOUNCE_TIME_MS)
        /\ state' = "IDLE"
        /\ secondary_timing' = FALSE
        /\ UNCHANGED secondary_start_tick
     \/ /\ ~pressed /\ secondary_timing
        /\ ~key_time_reached(secondary_start_tick, KEY_DEBOUNCE_TIME_MS)
        /\ UNCHANGED <<state, secondary_timing, secondary_start_tick>>
  /\ UNCHANGED <<event, state_start_tick, press_start_tick, has_triggered>>

-----------------------------------------------------------------------------
(* The key task's loop.                                                    *)

bsp_key_handler_process(pressed) ==
  /\ pc = "process"
  /\ pc' = "dispatch"
  /\ \/ Idle(pressed) \/ DebouncePress(pressed) \/ Hold(pressed)
     \/ DebounceRelease(pressed) \/ WaitDouble(pressed) \/ DoubleDone(pressed)
  /\ UNCHANGED tick

(* Mutation check: the event is not cleared; the counter does not wrap.    *)
DispatchKeepsEvent(d) ==
  /\ pc = "dispatch" /\ pc' = "process"
  /\ tick' = (tick + d) % TickMod
  /\ UNCHANGED <<event, state, timers, secondary_timing, has_triggered>>

DispatchNoWrap(d) ==
  /\ pc = "dispatch" /\ pc' = "process"
  /\ event' = NONE /\ tick' = tick + d
  /\ UNCHANGED <<state, timers, secondary_timing, has_triggered>>

(* A recognised event is forwarded once and cleared; d is the time to the  *)
(* next sample: 1 ms, 0 when vTaskDelayUntil catches up, more when the     *)
(* task was not scheduled in time.                                         *)
Dispatch(d) ==
  /\ pc = "dispatch"
  /\ pc' = "process"
  /\ event' = NONE
  /\ tick' = (tick + d) % TickMod
  /\ UNCHANGED <<state, timers, secondary_timing, has_triggered>>
=============================================================================
