-------------------------- MODULE KeyGesture_proofs --------------------------
(***************************************************************************)
(* Proofs about the key's gestures, for every debounce time, window, long  *)
(* press time, sampling and width of the tick counter.                     *)
(***************************************************************************)
EXTENDS KeyGesture, TLAPS

(* The conditions TypeOK consists of, in three parts.                      *)
BooleansOK ==
  /\ secondary_timing \in BOOLEAN /\ has_triggered \in BOOLEAN
  /\ level \in BOOLEAN /\ debounced \in BOOLEAN

TicksOK ==
  /\ state_start_tick \in Ticks /\ press_start_tick \in Ticks
  /\ secondary_start_tick \in Ticks /\ tick \in Ticks

ObserverOK ==
  /\ state \in KeyStates /\ event \in Gestures \union {NONE}
  /\ pc \in {"process", "dispatch"}
  /\ run \in 0 .. RunCap /\ held \in 0 .. KEY_LONG_PRESS_TIME_MS
  /\ clicks \in Nat /\ answered \in Nat

LEMMA BooleansNext == BooleansOK /\ [Next]_vars => BooleansOK'
<1> SUFFICES ASSUME BooleansOK, [Next]_vars PROVE BooleansOK'
  OBVIOUS
<1> USE DEF BooleansOK
<1>1. CASE UNCHANGED vars
  BY <1>1 DEF vars, keyVars, obsVars
<1>2. CASE DispatchAndSleep
  BY <1>2 DEF DispatchAndSleep, Dispatch
<1>3. ASSUME NEW pressed \in BOOLEAN,
             bsp_key_handler_process(pressed), Observe(pressed)
      PROVE  BooleansOK'
  <2>1. level' \in BOOLEAN /\ debounced' \in BOOLEAN
    BY <1>3, Zenon DEF Observe
  <2>2. CASE Idle(pressed)
    BY <2>1, <2>2 DEF Idle
  <2>3. CASE DebouncePress(pressed)
    BY <2>1, <2>3 DEF DebouncePress
  <2>4. CASE Hold(pressed)
    BY <2>1, <2>4 DEF Hold
  <2>5. CASE DebounceRelease(pressed)
    BY <2>1, <2>5 DEF DebounceRelease
  <2>6. CASE WaitDouble(pressed)
    BY <2>1, <2>6 DEF WaitDouble
  <2>7. CASE DoubleDone(pressed)
    BY <2>1, <2>7 DEF DoubleDone
  <2> QED
    BY <1>3, <2>2, <2>3, <2>4, <2>5, <2>6, <2>7 DEF bsp_key_handler_process
<1> QED
  BY <1>1, <1>2, <1>3 DEF Next, Process

LEMMA TicksNext == TicksOK /\ [Next]_vars => TicksOK'
<1> SUFFICES ASSUME TicksOK, [Next]_vars PROVE TicksOK'
  OBVIOUS
<1> USE DEF TicksOK
<1>1. CASE UNCHANGED vars
  BY <1>1 DEF vars, keyVars, timers
<1>2. ASSUME NEW d \in 0 .. MaxGap, Dispatch(d)
      PROVE  TicksOK'
  <2>1. (tick + d) % TickMod \in Ticks
    BY KeyAssumption DEF Ticks
  <2> QED
    BY <1>2, <2>1 DEF Dispatch, timers
<1>3. ASSUME NEW pressed \in BOOLEAN, bsp_key_handler_process(pressed)
      PROVE  TicksOK'
  <2>1. tick' \in Ticks
    BY <1>3 DEF bsp_key_handler_process
  <2>2. CASE Idle(pressed)
    BY <2>1, <2>2 DEF Idle
  <2>3. CASE DebouncePress(pressed)
    BY <2>1, <2>3 DEF DebouncePress
  <2>4. CASE Hold(pressed)
    BY <2>1, <2>4 DEF Hold
  <2>5. CASE DebounceRelease(pressed)
    BY <2>1, <2>5 DEF DebounceRelease
  <2>6. CASE WaitDouble(pressed)
    BY <2>1, <2>6 DEF WaitDouble
  <2>7. CASE DoubleDone(pressed)
    BY <2>1, <2>7 DEF DoubleDone
  <2> QED
    BY <1>3, <2>2, <2>3, <2>4, <2>5, <2>6, <2>7 DEF bsp_key_handler_process
<1> QED
  BY <1>1, <1>2, <1>3 DEF Next, Process, DispatchAndSleep

LEMMA ObserverNext == ObserverOK /\ [Next]_vars => ObserverOK'
<1> SUFFICES ASSUME ObserverOK, [Next]_vars PROVE ObserverOK'
  OBVIOUS
<1> USE KeyAssumption DEF ObserverOK
<1>0. RunCap \in Nat
  BY DEF RunCap
<1>1. CASE UNCHANGED vars
  BY <1>1 DEF vars, keyVars, obsVars
<1>2. ASSUME NEW d \in 0 .. MaxGap, Dispatch(d),
             run' = Capped(run + d, RunCap),
             held' = Capped(held + d, KEY_LONG_PRESS_TIME_MS),
             answered' = IF event = NONE THEN answered ELSE answered + 1,
             UNCHANGED clicks
      PROVE  ObserverOK'
  <2>1. run' \in 0 .. RunCap /\ held' \in 0 .. KEY_LONG_PRESS_TIME_MS
    BY <1>0, <1>2 DEF Capped
  <2>2. event' = NONE /\ UNCHANGED state /\ pc' = "process"
    BY <1>2 DEF Dispatch
  <2>3. answered' \in Nat
    BY <1>2
  <2> QED
    BY <1>2, <2>1, <2>2, <2>3
<1>3. ASSUME NEW pressed \in BOOLEAN,
             bsp_key_handler_process(pressed), Observe(pressed)
      PROVE  ObserverOK'
  <2>1. /\ run' \in 0 .. RunCap /\ held' \in 0 .. KEY_LONG_PRESS_TIME_MS
        /\ clicks' \in Nat /\ answered' \in Nat
    BY <1>0, <1>3 DEF Observe
  <2>2. pc' = "dispatch"
    BY <1>3 DEF bsp_key_handler_process
  <2> USE DEF KeyStates, Gestures
  <2>3. CASE Idle(pressed)
    BY <2>1, <2>2, <2>3 DEF Idle
  <2>4. CASE DebouncePress(pressed)
    BY <2>1, <2>2, <2>4 DEF DebouncePress
  <2>5. CASE Hold(pressed)
    BY <2>1, <2>2, <2>5 DEF Hold
  <2>6. CASE DebounceRelease(pressed)
    BY <2>1, <2>2, <2>6 DEF DebounceRelease
  <2>7. CASE WaitDouble(pressed)
    BY <2>1, <2>2, <2>7 DEF WaitDouble
  <2>8. CASE DoubleDone(pressed)
    BY <2>1, <2>2, <2>8 DEF DoubleDone
  <2> QED
    BY <1>3, <2>3, <2>4, <2>5, <2>6, <2>7, <2>8 DEF bsp_key_handler_process
<1> QED
  BY <1>1, <1>2, <1>3 DEF Next, Process, DispatchAndSleep

LEMMA TypeInit == Init => BooleansOK /\ TicksOK /\ ObserverOK
<1>1. Init => BooleansOK
  BY DEF Init, KeyInit, BooleansOK
<1>2. Init => TicksOK
  BY KeyAssumption DEF Init, KeyInit, TicksOK, Ticks
<1>3. Init => ObserverOK
  BY KeyAssumption DEF Init, KeyInit, ObserverOK, KeyStates, RunCap
<1> QED
  BY <1>1, <1>2, <1>3

(* Type correctness: every timestamp stays a tick of the counter.          *)
THEOREM TypeCorrect == Spec => []TypeOK
<1>1. BooleansOK /\ TicksOK /\ ObserverOK => TypeOK
  BY DEF BooleansOK, TicksOK, ObserverOK, TypeOK
<1> QED
  BY <1>1, TypeInit, BooleansNext, TicksNext, ObserverNext, PTL DEF Spec

-----------------------------------------------------------------------------
(* Gestures.                                                               *)

Elapsed(start) == (tick - start) % TickMod
Total == answered + (IF event = NONE THEN 0 ELSE 1)

(* A debounce is under way since start: the observer's clock and the       *)
(* handler's difference of ticks agree, and neither has reached its limit. *)
Debouncing(start) ==
  /\ run = Elapsed(start)
  /\ pc = "dispatch" => run < KEY_DEBOUNCE_TIME_MS
  /\ run < KEY_DEBOUNCE_TIME_MS + MaxGap

(* Each state of the handler against the last sample, the debounced level  *)
(* and the clocks.                                                         *)
LevelInv ==
  /\ pc = "process" => event = NONE
  /\ state = "IDLE" => ~level /\ ~debounced
  /\ state = "DEBOUNCE_PRESS" =>
       level /\ ~debounced /\ Debouncing(state_start_tick)
  /\ state = "HOLD" => level /\ debounced
  /\ state = "DEBOUNCE_RELEASE" =>
       ~level /\ debounced /\ Debouncing(state_start_tick)
  /\ state = "WAIT_DOUBLE" =>
       /\ ~debounced /\ (secondary_timing <=> level)
       /\ secondary_timing => Debouncing(secondary_start_tick)
  /\ state = "DOUBLE_DONE" =>
       /\ debounced /\ (secondary_timing <=> ~level)
       /\ secondary_timing => Debouncing(secondary_start_tick)

(* Each state against the presses and the answers of the gesture; Total    *)
(* counts an event that is not yet forwarded.                              *)
CountInv ==
  /\ state = "IDLE" => Total <= 1 /\ (Total = 1 <=> clicks >= 1)
  /\ state = "DEBOUNCE_PRESS" => ~has_triggered /\ clicks = 0 /\ Total = 0
  /\ state \in {"HOLD", "DEBOUNCE_RELEASE"} =>
       /\ clicks = 1
       /\ has_triggered => Total = 1
       /\ ~has_triggered => Total = 0
       /\ held = KEY_LONG_PRESS_TIME_MS \/ Elapsed(press_start_tick) <= held
  /\ state = "WAIT_DOUBLE" => ~has_triggered /\ clicks = 1 /\ Total = 0
  /\ state = "DOUBLE_DONE" => clicks = 2 /\ Total = 1
  /\ event = "LONG_PRESS" => state = "HOLD" /\ held = KEY_LONG_PRESS_TIME_MS
  /\ event = "SHORT_PRESS" => state = "IDLE" /\ clicks = 1
  /\ event = "DOUBLE_CLICK" => state = "DOUBLE_DONE"

TypeInv == BooleansOK /\ TicksOK /\ ObserverOK
GestureInv == TypeInv /\ LevelInv /\ CountInv

(* The remainder, without the nonlinear arithmetic.                        *)
LEMMA SmallRemainder ==
  ASSUME NEW x \in 0 .. TickMod - 1
  PROVE  x % TickMod = x
BY KeyAssumption

LEMMA RemainderAbove ==
  ASSUME NEW x \in TickMod .. 2 * TickMod - 1
  PROVE  x % TickMod = x - TickMod
BY KeyAssumption

LEMMA RemainderBelow ==
  ASSUME NEW x \in (-TickMod) .. (-1)
  PROVE  x % TickMod = x + TickMod
BY KeyAssumption

(* Unsigned elapsed time: d later it has grown by d, unless that is more   *)
(* than the counter holds.                                                 *)
LEMMA ElapsedLater ==
  ASSUME NEW t \in Ticks, NEW s \in Ticks, NEW d \in 0 .. MaxGap,
         NEW e, e = (t - s) % TickMod,
         NEW f, f = (((t + d) % TickMod) - s) % TickMod
  PROVE  /\ e \in Nat /\ f \in Nat /\ f <= e + d
         /\ e + d < TickMod => f = e + d
<1> USE KeyAssumption DEF Ticks
<1>1. e = IF s <= t THEN t - s ELSE t - s + TickMod
  <2>1. CASE s <= t
    BY <2>1, SmallRemainder
  <2>2. CASE t < s
    BY <2>2, RemainderBelow
  <2> QED
    BY <2>1, <2>2
<1>2. PICK u \in Ticks : u = (t + d) % TickMod /\ (u = t + d \/ u = t + d - TickMod)
  <2>1. CASE t + d < TickMod
    BY <2>1, SmallRemainder
  <2>2. CASE TickMod <= t + d
    BY <2>2, RemainderAbove
  <2> QED
    BY <2>1, <2>2
<1>3. f = IF s <= u THEN u - s ELSE u - s + TickMod
  <2>1. CASE s <= u
    BY <1>2, <2>1, SmallRemainder
  <2>2. CASE u < s
    BY <1>2, <2>2, RemainderBelow
  <2> QED
    BY <2>1, <2>2
<1> QED
  BY <1>1, <1>2, <1>3

LEMMA ElapsedNow == ASSUME NEW t \in Ticks PROVE (t - t) % TickMod = 0
BY SmallRemainder, KeyAssumption DEF Ticks

(* What a sample does to the observer.                                     *)
Sampled(pressed) ==
  LET risen == run' >= KEY_DEBOUNCE_TIME_MS /\ pressed /\ ~debounced
      before == IF state = "IDLE" THEN 0 ELSE clicks
  IN /\ level' <=> pressed
     /\ (pressed <=> level) => run' = run
     /\ ~(pressed <=> level) => run' = 0
     /\ run' >= KEY_DEBOUNCE_TIME_MS => (debounced' <=> pressed)
     /\ run' < KEY_DEBOUNCE_TIME_MS => (debounced' <=> debounced)
     /\ risen => clicks' = before + 1 /\ held' = 0
     /\ ~risen => clicks' = before /\ held' = held
     /\ answered' = IF state = "IDLE" THEN 0 ELSE answered

LEMMA ObserveStep ==
  ASSUME TypeInv, NEW pressed \in BOOLEAN, Observe(pressed)
  PROVE  Sampled(pressed)
BY KeyAssumption DEF TypeInv, BooleansOK, ObserverOK, Observe, Sampled

(* What the time between two samples does.                                 *)
LEMMA SleepStep ==
  ASSUME TypeInv, DispatchAndSleep
  PROVE  /\ pc = "dispatch" /\ pc' = "process" /\ event' = NONE
         /\ Total' = Total
         /\ UNCHANGED <<state, timers, secondary_timing, has_triggered, level,
                        debounced, clicks>>
         /\ \E d \in 0 .. MaxGap :
              /\ tick' = (tick + d) % TickMod
              /\ run' = Capped(run + d, RunCap)
              /\ held' = Capped(held + d, KEY_LONG_PRESS_TIME_MS)
<1>1. PICK d \in 0 .. MaxGap :
        /\ Dispatch(d)
        /\ run' = Capped(run + d, RunCap)
        /\ held' = Capped(held + d, KEY_LONG_PRESS_TIME_MS)
        /\ answered' = IF event = NONE THEN answered ELSE answered + 1
        /\ UNCHANGED <<level, debounced, clicks>>
  BY DEF DispatchAndSleep
<1>2. answered \in Nat
  BY DEF TypeInv, ObserverOK
<1>3. event' = NONE
  BY <1>1 DEF Dispatch
<1>4. Total' = Total
  <2>1. CASE event = NONE
    BY <1>1, <1>2, <1>3, <2>1 DEF Total
  <2>2. CASE event # NONE
    BY <1>1, <1>2, <1>3, <2>2 DEF Total
  <2> QED
    BY <2>1, <2>2
<1> QED
  BY <1>1, <1>3, <1>4 DEF Dispatch

(* A debounce in progress stays in step with the observer's clock.         *)
LEMMA DebouncingStays ==
  ASSUME TypeInv, DispatchAndSleep, NEW s \in Ticks,
         run = Elapsed(s), run < KEY_DEBOUNCE_TIME_MS
  PROVE  /\ run' = (tick' - s) % TickMod
         /\ run' < KEY_DEBOUNCE_TIME_MS + MaxGap
<1>1. PICK d \in 0 .. MaxGap :
        tick' = (tick + d) % TickMod /\ run' = Capped(run + d, RunCap)
  BY SleepStep
<1>2. run \in Nat /\ tick \in Ticks
  BY DEF TypeInv, ObserverOK, TicksOK
<1>3. run + d < RunCap /\ run + d < TickMod
  BY <1>2, KeyAssumption DEF RunCap
<1>4. run' = run + d
  BY <1>1, <1>3 DEF Capped
<1>5. (tick' - s) % TickMod = run + d
  BY <1>1, <1>2, <1>3, ElapsedLater DEF Elapsed
<1> QED
  BY <1>2, <1>4, <1>5, KeyAssumption

LEMMA LevelNextSleep ==
  ASSUME TypeInv, LevelInv, DispatchAndSleep PROVE LevelInv'
<1> USE SleepStep DEF LevelInv, timers
<1>1. /\ state_start_tick \in Ticks /\ secondary_start_tick \in Ticks
  BY DEF TypeInv, TicksOK
<1>2. CASE state \in {"DEBOUNCE_PRESS", "DEBOUNCE_RELEASE"}
  <2>1. Debouncing(state_start_tick)'
    BY <1>1, <1>2, DebouncingStays DEF Debouncing, Elapsed
  <2> QED
    BY <1>2, <2>1
<1>3. CASE state \in {"WAIT_DOUBLE", "DOUBLE_DONE"}
  <2>1. secondary_timing => Debouncing(secondary_start_tick)'
    BY <1>1, <1>3, DebouncingStays DEF Debouncing, Elapsed
  <2> QED
    BY <1>3, <2>1
<1>4. CASE state \in {"IDLE", "HOLD"}
  BY <1>4
<1> QED
  BY <1>2, <1>3, <1>4 DEF TypeInv, ObserverOK, KeyStates

LEMMA LevelNextSample ==
  ASSUME TypeInv, LevelInv, CountInv, NEW pressed \in BOOLEAN,
         bsp_key_handler_process(pressed), Observe(pressed)
  PROVE  LevelInv'
<1>0. /\ pc = "process" /\ pc' = "dispatch" /\ tick' = tick /\ tick \in Ticks
      /\ (tick - tick) % TickMod = 0 /\ run \in Nat
  BY ElapsedNow DEF bsp_key_handler_process, TypeInv, TicksOK, ObserverOK
<1>sampled. Sampled(pressed)
  BY ObserveStep
<1> USE <1>0, <1>sampled, KeyAssumption
    DEF LevelInv, Debouncing, Elapsed, Sampled, key_time_reached
<1>1. CASE Idle(pressed)
  <2>1. CASE pressed
    BY <1>1, <2>1 DEF Idle
  <2>2. CASE ~pressed
    BY <1>1, <2>2 DEF Idle
  <2> QED
    BY <2>1, <2>2
<1>2. CASE DebouncePress(pressed)
  <2>1. CASE ~pressed
    BY <1>2, <2>1 DEF DebouncePress
  <2>2. CASE pressed
    BY <1>2, <2>2 DEF DebouncePress
  <2> QED
    BY <2>1, <2>2
<1>3. CASE Hold(pressed)
  <2>1. CASE ~pressed
    BY <1>3, <2>1 DEF Hold
  <2>2. CASE pressed
    BY <1>3, <2>2 DEF Hold
  <2> QED
    BY <2>1, <2>2
<1>4. CASE DebounceRelease(pressed)
  <2>1. CASE ~pressed
    BY <1>4, <2>1 DEF DebounceRelease
  <2>2. CASE pressed
    BY <1>4, <2>2 DEF DebounceRelease
  <2> QED
    BY <2>1, <2>2
<1>5. CASE WaitDouble(pressed)
  <2>1. CASE ~pressed
    BY <1>5, <2>1 DEF WaitDouble
  <2>2. CASE pressed /\ ~secondary_timing
    BY <1>5, <2>2 DEF WaitDouble
  <2>3. CASE pressed /\ secondary_timing
    <3>1. ~has_triggered
      BY <1>5 DEF WaitDouble, CountInv
    <3>2. run' = run /\ run = (tick - secondary_start_tick) % TickMod /\ level'
      BY <1>5, <2>3 DEF WaitDouble
    <3>3. CASE key_time_reached(secondary_start_tick, KEY_DEBOUNCE_TIME_MS)
      <4>1. /\ state' = "DOUBLE_DONE" /\ secondary_timing' = FALSE
        BY <1>5, <2>3, <3>1, <3>3 DEF WaitDouble
      <4>2. debounced'
        BY <2>3, <3>2, <3>3
      <4> QED
        BY <3>2, <4>1, <4>2
    <3>4. CASE ~key_time_reached(secondary_start_tick, KEY_DEBOUNCE_TIME_MS)
      <4>1. /\ state' = state /\ state = "WAIT_DOUBLE"
            /\ UNCHANGED <<secondary_timing, secondary_start_tick>>
        BY <1>5, <2>3, <3>1, <3>4 DEF WaitDouble
      <4>2. run' < KEY_DEBOUNCE_TIME_MS
        BY <3>2, <3>4
      <4>3. ~debounced' /\ secondary_timing'
        BY <2>3, <4>1, <4>2
      <4> QED
        BY <3>2, <4>1, <4>2, <4>3
    <3> QED
      BY <3>3, <3>4
  <2> QED
    BY <2>1, <2>2, <2>3
<1>6. CASE DoubleDone(pressed)
  <2>1. CASE pressed
    BY <1>6, <2>1 DEF DoubleDone
  <2>2. CASE ~pressed /\ ~secondary_timing
    BY <1>6, <2>2 DEF DoubleDone
  <2>3. CASE ~pressed /\ secondary_timing
    <3>1. CASE key_time_reached(secondary_start_tick, KEY_DEBOUNCE_TIME_MS)
      BY <1>6, <2>3, <3>1 DEF DoubleDone
    <3>2. CASE ~key_time_reached(secondary_start_tick, KEY_DEBOUNCE_TIME_MS)
      <4>1. /\ state' = state /\ state = "DOUBLE_DONE"
            /\ UNCHANGED <<secondary_timing, secondary_start_tick>>
        BY <1>6, <2>3, <3>2 DEF DoubleDone
      <4>2. /\ run' = run /\ run = (tick - secondary_start_tick) % TickMod
            /\ ~level'
        BY <2>3, <4>1
      <4>3. run' < KEY_DEBOUNCE_TIME_MS
        BY <3>2, <4>2
      <4>4. debounced' /\ secondary_timing'
        BY <2>3, <4>1, <4>3
      <4> QED
        BY <4>1, <4>2, <4>3, <4>4
    <3> QED
      BY <3>1, <3>2
  <2> QED
    BY <2>1, <2>2, <2>3
<1> QED
  BY <1>1, <1>2, <1>3, <1>4, <1>5, <1>6 DEF bsp_key_handler_process

LEMMA LevelNext == TypeInv /\ LevelInv /\ CountInv /\ [Next]_vars => LevelInv'
<1> SUFFICES ASSUME TypeInv, LevelInv, CountInv, [Next]_vars PROVE LevelInv'
  OBVIOUS
<1>1. CASE UNCHANGED vars
  BY <1>1 DEF vars, keyVars, timers, obsVars, LevelInv, Debouncing, Elapsed
<1>2. CASE DispatchAndSleep
  BY <1>2, LevelNextSleep
<1>3. CASE Process
  BY <1>3, LevelNextSample DEF Process
<1> QED
  BY <1>1, <1>2, <1>3 DEF Next

LEMMA CountNextSleep ==
  ASSUME TypeInv, CountInv, DispatchAndSleep PROVE CountInv'
<1> USE SleepStep DEF timers
<1>1. held' = KEY_LONG_PRESS_TIME_MS \/ Elapsed(press_start_tick)' <= held'
      \/ ~(held = KEY_LONG_PRESS_TIME_MS \/ Elapsed(press_start_tick) <= held)
  <2>1. PICK d \in 0 .. MaxGap :
          /\ tick' = (tick + d) % TickMod
          /\ held' = Capped(held + d, KEY_LONG_PRESS_TIME_MS)
    OBVIOUS
  <2>2. /\ Elapsed(press_start_tick) \in Nat /\ Elapsed(press_start_tick)' \in Nat
        /\ Elapsed(press_start_tick)' <= Elapsed(press_start_tick) + d
    BY <2>1, ElapsedLater DEF Elapsed, TypeInv, TicksOK
  <2>3. held \in 0 .. KEY_LONG_PRESS_TIME_MS
    BY DEF TypeInv, ObserverOK
  <2> QED
    BY <2>1, <2>2, <2>3, KeyAssumption DEF Capped
<1>2. event' = NONE /\ Total' = Total
  OBVIOUS
<1>3. UNCHANGED <<state, has_triggered, clicks>>
  OBVIOUS
<1> QED
  BY <1>1, <1>2, <1>3 DEF CountInv, NONE

LEMMA CountNextSample ==
  ASSUME TypeInv, LevelInv, CountInv, NEW pressed \in BOOLEAN,
         bsp_key_handler_process(pressed), Observe(pressed)
  PROVE  CountInv'
<1>0. /\ pc = "process" /\ tick' = tick /\ tick \in Ticks
      /\ (tick - tick) % TickMod = 0 /\ run \in Nat
      /\ event = NONE /\ answered \in Nat /\ clicks \in Nat
      /\ held \in 0 .. KEY_LONG_PRESS_TIME_MS
  BY ElapsedNow
  DEF bsp_key_handler_process, TypeInv, TicksOK, ObserverOK, LevelInv
<1>sampled. Sampled(pressed)
  BY ObserveStep
<1> USE <1>0, <1>sampled, KeyAssumption
    DEF LevelInv, CountInv, Debouncing, Elapsed, Total, NONE, Sampled,
        key_time_reached
<1>1. CASE Idle(pressed)
  <2>1. CASE pressed
    BY <1>1, <2>1 DEF Idle
  <2>2. CASE ~pressed
    BY <1>1, <2>2 DEF Idle
  <2> QED
    BY <2>1, <2>2
<1>2. CASE DebouncePress(pressed)
  <2>1. CASE ~pressed
    BY <1>2, <2>1 DEF DebouncePress
  <2>2. CASE pressed
    BY <1>2, <2>2 DEF DebouncePress
  <2> QED
    BY <2>1, <2>2
<1>3. CASE Hold(pressed)
  <2>1. CASE ~pressed
    BY <1>3, <2>1 DEF Hold
  <2>2. CASE pressed
    <3>1. CASE event' = "LONG_PRESS"
      <4>1. ~has_triggered /\ has_triggered' /\ state' = state
        BY <1>3, <2>2, <3>1 DEF Hold
      <4>2. KEY_LONG_PRESS_TIME_MS <= Elapsed(press_start_tick)
        BY <1>3, <2>2, <3>1 DEF Hold
      <4>3. state = "HOLD"
        BY <1>3 DEF Hold
      <4>4. held = KEY_LONG_PRESS_TIME_MS /\ Total = 0 /\ clicks = 1
        <5>1. Elapsed(press_start_tick) \in Nat
          BY ElapsedLater DEF TypeInv, TicksOK
        <5>2. held = KEY_LONG_PRESS_TIME_MS
          BY <4>2, <4>3, <5>1
        <5>3. clicks = 1
          BY <4>3
        <5>4. Total = 0
          BY <4>1, <4>3
        <5> QED
          BY <5>2, <5>3, <5>4
      <4>5. held' = held /\ clicks' = clicks /\ answered' = answered
        BY <1>3, <4>1 DEF Hold
      <4>6. Total' = 1
        BY <3>1, <4>4, <4>5
      <4> QED
        BY <1>3, <3>1, <4>1, <4>4, <4>5, <4>6 DEF Hold
    <3>2. CASE event' = event /\ UNCHANGED <<state, has_triggered>>
      BY <1>3, <2>2, <3>2 DEF Hold
    <3> QED
      BY <1>3, <2>2, <3>1, <3>2 DEF Hold
  <2> QED
    BY <2>1, <2>2
<1>4. CASE DebounceRelease(pressed)
  <2>1. CASE ~pressed
    BY <1>4, <2>1 DEF DebounceRelease
  <2>2. CASE pressed
    BY <1>4, <2>2 DEF DebounceRelease
  <2> QED
    BY <2>1, <2>2
<1>5. CASE WaitDouble(pressed)
  <2>1. CASE ~pressed
    BY <1>5, <2>1 DEF WaitDouble
  <2>2. CASE pressed
    BY <1>5, <2>2 DEF WaitDouble
  <2> QED
    BY <2>1, <2>2
<1>6. CASE DoubleDone(pressed)
  <2>1. CASE pressed
    BY <1>6, <2>1 DEF DoubleDone
  <2>2. CASE ~pressed
    BY <1>6, <2>2 DEF DoubleDone
  <2> QED
    BY <2>1, <2>2
<1> QED
  BY <1>1, <1>2, <1>3, <1>4, <1>5, <1>6 DEF bsp_key_handler_process

LEMMA CountNext == TypeInv /\ LevelInv /\ CountInv /\ [Next]_vars => CountInv'
<1> SUFFICES ASSUME TypeInv, LevelInv, CountInv, [Next]_vars PROVE CountInv'
  OBVIOUS
<1>1. CASE UNCHANGED vars
  BY <1>1 DEF vars, keyVars, timers, obsVars, CountInv, Elapsed, Total
<1>2. CASE DispatchAndSleep
  BY <1>2, CountNextSleep
<1>3. CASE Process
  BY <1>3, CountNextSample DEF Process
<1> QED
  BY <1>1, <1>2, <1>3 DEF Next

LEMMA GestureInvAlways == Spec => []GestureInv
<1>1. Init => GestureInv
  <2>1. Init => TypeInv
    BY TypeInit DEF TypeInv
  <2>2. Init => LevelInv
    BY DEF Init, KeyInit, LevelInv
  <2>3. Init => CountInv
    BY DEF Init, KeyInit, CountInv, Total, NONE
  <2> QED
    BY <2>1, <2>2, <2>3 DEF GestureInv
<1>2. GestureInv /\ [Next]_vars => GestureInv'
  <2>1. TypeInv /\ [Next]_vars => TypeInv'
    BY BooleansNext, TicksNext, ObserverNext DEF TypeInv
  <2> QED
    BY <2>1, LevelNext, CountNext DEF GestureInv
<1> QED
  BY <1>1, <1>2, PTL DEF Spec

(* The handler's state agrees with a plain debouncer of the same samples,  *)
(* for every choice of thresholds and across every wrap of the counter.    *)
THEOREM Debounces == Spec => []DebounceAgrees
<1>1. GestureInv => DebounceAgrees
  BY DEF GestureInv, TypeInv, ObserverOK, LevelInv, DebounceAgrees, KeyStates
<1> QED
  BY <1>1, GestureInvAlways, PTL

(* A gesture is never answered twice.                                      *)
THEOREM AnsweredAtMostOnce == Spec => []AtMostOneEvent
<1>1. GestureInv => AtMostOneEvent
  <2> SUFFICES ASSUME GestureInv PROVE Total <= 1
    BY DEF AtMostOneEvent, Total
  <2> QED
    BY DEF GestureInv, TypeInv, ObserverOK, CountInv, KeyStates
<1> QED
  BY <1>1, GestureInvAlways, PTL

(* A gesture with a confirmed press is answered, one without is not.       *)
THEOREM PressesAnswered == Spec => []ConfirmedPressAnswered
<1>1. GestureInv => ConfirmedPressAnswered
  BY DEF GestureInv, TypeInv, ObserverOK, LevelInv, CountInv, Total,
         ConfirmedPressAnswered
<1> QED
  BY <1>1, GestureInvAlways, PTL

(* Each event names the gesture that was made.                             *)
THEOREM EventsTrue == Spec => []EventMatchesClicks
<1>1. GestureInv => EventMatchesClicks
  BY KeyAssumption
  DEF GestureInv, TypeInv, ObserverOK, LevelInv, CountInv, EventMatchesClicks
<1> QED
  BY <1>1, GestureInvAlways, PTL

-----------------------------------------------------------------------------
(***************************************************************************)
(* The response times.  A press that has not been answered, or a window    *)
(* that is still open, is younger than its limit at every sample, and the  *)
(* present level is not much older than that: by a debounce at most.       *)
(***************************************************************************)
Since(start, limit) ==
  /\ run < Elapsed(start) + KEY_DEBOUNCE_TIME_MS + MaxGap
  /\ Elapsed(start) < IF pc = "dispatch" THEN limit ELSE limit + MaxGap

(* A key that alternates between two samples may go on so past a wrap of   *)
(* the counter: the press is then of any age, but the level is new.        *)
ResponseInv ==
  /\ state = "HOLD" /\ ~has_triggered =>
       \/ run <= IF pc = "dispatch" THEN 0 ELSE MaxGap
       \/ Since(press_start_tick, KEY_LONG_PRESS_TIME_MS)
  /\ state = "WAIT_DOUBLE" /\ ~level =>
       Since(state_start_tick, KEY_DOUBLE_CLICK_TIME_MS)

LEMMA ElapsedTyped ==
  ASSUME TypeInv, NEW s \in Ticks PROVE Elapsed(s) \in Nat
BY ElapsedLater, KeyAssumption DEF Elapsed, TypeInv, TicksOK

(* Time passes by at most MaxGap, for the key as for the handler.          *)
LEMMA SinceStays ==
  ASSUME TypeInv, DispatchAndSleep, NEW s \in Ticks, NEW limit \in Nat,
         limit + MaxGap < TickMod, Since(s, limit)
  PROVE  /\ run' < ((tick' - s) % TickMod) + KEY_DEBOUNCE_TIME_MS + MaxGap
         /\ (tick' - s) % TickMod < limit + MaxGap
<1>1. PICK d \in 0 .. MaxGap :
        tick' = (tick + d) % TickMod /\ run' = Capped(run + d, RunCap)
  BY SleepStep
<1>2. /\ run \in Nat /\ tick \in Ticks /\ Elapsed(s) \in Nat
      /\ Elapsed(s) < limit /\ run < Elapsed(s) + KEY_DEBOUNCE_TIME_MS + MaxGap
  BY SleepStep, ElapsedTyped DEF TypeInv, ObserverOK, TicksOK, Since
<1>3. (tick' - s) % TickMod = Elapsed(s) + d
  <2>1. Elapsed(s) + d < TickMod
    BY <1>2, KeyAssumption
  <2> QED
    BY <2>1, <1>1, <1>2, ElapsedLater DEF Elapsed
<1>4. run' <= run + d
  BY <1>1, <1>2, KeyAssumption DEF Capped, RunCap
<1>5. run' \in Nat
  BY <1>1, <1>2, KeyAssumption DEF Capped, RunCap
<1> QED
  BY <1>2, <1>3, <1>4, <1>5, KeyAssumption

LEMMA ResponseNextSleep ==
  ASSUME TypeInv, ResponseInv, DispatchAndSleep PROVE ResponseInv'
<1>1. /\ state_start_tick \in Ticks /\ press_start_tick \in Ticks /\ run \in Nat
  BY DEF TypeInv, TicksOK, ObserverOK
<1>2. /\ pc = "dispatch" /\ pc' = "process"
      /\ UNCHANGED <<state, state_start_tick, press_start_tick, has_triggered,
                     level>>
  BY SleepStep DEF timers
<1>3. ASSUME Since(press_start_tick, KEY_LONG_PRESS_TIME_MS)
      PROVE  Since(press_start_tick, KEY_LONG_PRESS_TIME_MS)'
  BY <1>1, <1>2, <1>3, SinceStays, KeyAssumption DEF Since, Elapsed
<1>4. ASSUME Since(state_start_tick, KEY_DOUBLE_CLICK_TIME_MS)
      PROVE  Since(state_start_tick, KEY_DOUBLE_CLICK_TIME_MS)'
  BY <1>1, <1>2, <1>4, SinceStays, KeyAssumption DEF Since, Elapsed
<1>5. run <= 0 => run' <= MaxGap
  BY <1>1, SleepStep, KeyAssumption DEF Capped, RunCap
<1> QED
  BY <1>2, <1>3, <1>4, <1>5 DEF ResponseInv

LEMMA ResponseNextSample ==
  ASSUME TypeInv, LevelInv, CountInv, ResponseInv, NEW pressed \in BOOLEAN,
         bsp_key_handler_process(pressed), Observe(pressed)
  PROVE  ResponseInv'
<1>0. /\ pc = "process" /\ pc' = "dispatch" /\ tick' = tick /\ tick \in Ticks
      /\ (tick - tick) % TickMod = 0 /\ run \in Nat
      /\ Elapsed(state_start_tick) \in Nat /\ Elapsed(press_start_tick) \in Nat
  BY ElapsedNow, ElapsedTyped
  DEF bsp_key_handler_process, TypeInv, TicksOK, ObserverOK
<1>sampled. /\ level' <=> pressed
            /\ (pressed <=> level) => run' = run
            /\ ~(pressed <=> level) => run' = 0
  BY ObserveStep DEF Sampled
<1> USE <1>0, <1>sampled, KeyAssumption
    DEF ResponseInv, Since, Elapsed, key_time_reached
<1>1. CASE Idle(pressed)
  BY <1>1 DEF Idle
<1>2. CASE DebouncePress(pressed)
  BY <1>2 DEF DebouncePress, LevelInv, Debouncing
<1>3. CASE Hold(pressed)
  BY <1>3 DEF Hold, LevelInv
<1>4. CASE DebounceRelease(pressed)
  BY <1>4 DEF DebounceRelease, LevelInv, Debouncing
<1>5. CASE WaitDouble(pressed)
  BY <1>5 DEF WaitDouble, LevelInv, CountInv
<1>6. CASE DoubleDone(pressed)
  BY <1>6 DEF DoubleDone
<1> QED
  BY <1>1, <1>2, <1>3, <1>4, <1>5, <1>6 DEF bsp_key_handler_process

LEMMA ResponseInvAlways == Spec => []ResponseInv
<1>1. Init => ResponseInv
  BY DEF Init, KeyInit, ResponseInv
<1>2. GestureInv /\ ResponseInv /\ [Next]_vars => ResponseInv'
  <2> SUFFICES ASSUME GestureInv, ResponseInv, [Next]_vars PROVE ResponseInv'
    OBVIOUS
  <2>1. CASE UNCHANGED vars
    BY <2>1 DEF vars, keyVars, timers, obsVars, ResponseInv, Since, Elapsed
  <2>2. CASE DispatchAndSleep
    BY <2>2, ResponseNextSleep DEF GestureInv
  <2>3. CASE Process
    BY <2>3, ResponseNextSample DEF GestureInv, Process
  <2> QED
    BY <2>1, <2>2, <2>3 DEF Next
<1> QED
  BY <1>1, <1>2, GestureInvAlways, PTL DEF Spec

(* A key that is held is answered within the debounce and long press times *)
(* and two sample periods, whatever bounces and wraps came before.         *)
THEOREM HeldAnswered == Spec => []HeldPressAnswered
<1>1. GestureInv /\ ResponseInv => HeldPressAnswered
  <2> SUFFICES ASSUME GestureInv, ResponseInv, pc = "process", level,
                      run >= KEY_DEBOUNCE_TIME_MS + KEY_LONG_PRESS_TIME_MS
                               + 2 * MaxGap
               PROVE  answered = 1
    BY DEF HeldPressAnswered
  <2>1. run \in Nat /\ state \in KeyStates /\ answered \in Nat
        /\ Elapsed(press_start_tick) \in Nat
    BY ElapsedTyped DEF GestureInv, TypeInv, ObserverOK, TicksOK
  <2>2. state \notin {"IDLE", "DEBOUNCE_PRESS", "DEBOUNCE_RELEASE", "WAIT_DOUBLE"}
    BY <2>1, KeyAssumption DEF GestureInv, LevelInv, Debouncing
  <2>3. state = "HOLD" => has_triggered
    BY <2>1, KeyAssumption DEF ResponseInv, Since
  <2>4. Total = 1
    BY <2>1, <2>2, <2>3 DEF GestureInv, CountInv, KeyStates
  <2> QED
    BY <2>1, <2>4 DEF GestureInv, LevelInv, Total
<1> QED
  BY <1>1, GestureInvAlways, ResponseInvAlways, PTL

(* A key that is left alone brings the handler back to IDLE within the     *)
(* debounce time, the double-click window and two sample periods.          *)
THEOREM ReleasedIdle == Spec => []ReleasedKeyGoesIdle
<1>1. GestureInv /\ ResponseInv => ReleasedKeyGoesIdle
  <2> SUFFICES ASSUME GestureInv, ResponseInv, pc = "process", ~level,
                      run >= KEY_DEBOUNCE_TIME_MS + KEY_DOUBLE_CLICK_TIME_MS
                               + 2 * MaxGap
               PROVE  state = "IDLE"
    BY DEF ReleasedKeyGoesIdle
  <2>1. run \in Nat /\ state \in KeyStates /\ Elapsed(state_start_tick) \in Nat
    BY ElapsedTyped DEF GestureInv, TypeInv, ObserverOK, TicksOK
  <2>2. state \notin {"DEBOUNCE_PRESS", "HOLD", "DEBOUNCE_RELEASE", "DOUBLE_DONE"}
    BY <2>1, KeyAssumption DEF GestureInv, LevelInv, Debouncing
  <2>3. state # "WAIT_DOUBLE"
    BY <2>1, KeyAssumption DEF ResponseInv, Since
  <2> QED
    BY <2>1, <2>2, <2>3 DEF KeyStates
<1> QED
  BY <1>1, GestureInvAlways, ResponseInvAlways, PTL
=============================================================================
