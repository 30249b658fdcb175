-------------------------- MODULE TimeSync_proofs --------------------------
(***************************************************************************)
(* Proofs about the glove's clock, for every width of the tick counter,    *)
(* retry period and response time, and any number of requests.             *)
(***************************************************************************)
EXTENDS TimeSync, TLAPS

USE DEF NEVER

(* A remainder of a difference of two ticks, without the remainder.        *)
LEMMA TickDifference ==
  ASSUME NEW x \in (1 - TickMod) .. (TickMod - 1)
  PROVE  x % TickMod = IF 0 <= x THEN x ELSE x + TickMod
BY TimeSyncAssumption, SMT

LEMMA TickNext ==
  ASSUME NEW t \in Ticks
  PROVE  (t + 1) % TickMod = IF t + 1 = TickMod THEN 0 ELSE t + 1
BY TimeSyncAssumption, SMT DEF Ticks

LEMMA DueTickIsTick == xTickCount \in Ticks => DueTick \in Ticks
BY TimeSyncAssumption, TickDifference, SMT DEF Ticks, DueTick

(* Whole turns of the counter.                                             *)
LEMMA Turns ==
  ASSUME NEW n \in Int, NEW m \in Int
  PROVE  /\ n * TickMod \in Int
         /\ (n - m) * TickMod = n * TickMod - m * TickMod
         /\ (n + 1) * TickMod = n * TickMod + TickMod
         /\ m <= n => 0 <= (n - m) * TickMod
         /\ m < n => TickMod <= (n - m) * TickMod
         /\ n < m => (n - m) * TickMod <= - TickMod
<1>1. TickMod \in Nat
  BY TimeSyncAssumption
<1>2. ASSUME NEW d \in Nat PROVE 0 <= d * TickMod
  BY <1>1, SMT
<1>3. (n - m) * TickMod = n * TickMod - m * TickMod
  BY <1>1, SMT
<1>4. ASSUME m < n PROVE TickMod <= (n - m) * TickMod
  <2>1. 0 <= (n - m - 1) * TickMod
    BY <1>2, <1>4, SMT
  <2>2. (n - m) * TickMod = (n - m - 1) * TickMod + TickMod
    BY <1>1, SMT
  <2> QED
    BY <2>1, <2>2, <1>1, SMT
<1>5. ASSUME n < m PROVE (n - m) * TickMod <= - TickMod
  <2>1. 0 <= (m - n - 1) * TickMod
    BY <1>2, <1>5, SMT
  <2>2. (n - m) * TickMod = - (m - n - 1) * TickMod - TickMod
    BY <1>1, SMT
  <2> QED
    BY <2>1, <2>2, <1>1, SMT
<1> QED
  BY <1>1, <1>2, <1>3, <1>4, <1>5, SMT

LEMMA TurnsBetween ==
  \A n, m \in Nat :
    /\ n * TickMod \in Int /\ m * TickMod \in Int
    /\ (n - m) * TickMod \in Int
    /\ (n - m) * TickMod = n * TickMod - m * TickMod
    /\ m <= n => 0 <= (n - m) * TickMod
    /\ m < n => TickMod <= (n - m) * TickMod
    /\ n < m => (n - m) * TickMod <= - TickMod
<1> TAKE n, m \in Nat
<1>1. n \in Int /\ m \in Int /\ n - m \in Int
  BY SMT
<1>2. m * TickMod \in Int /\ (n - m) * TickMod \in Int
  BY <1>1, TimeSyncAssumption, SMT
<1> QED
  BY <1>1, <1>2, Turns, Zenon

-----------------------------------------------------------------------------
LEMMA TypeNext == TypeOK /\ [Next]_vars => TypeOK'
<1> SUFFICES ASSUME TypeOK, [Next]_vars PROVE TypeOK'
  OBVIOUS
<1> USE TimeSyncAssumption DEF TypeOK, Steps
<1>1. clock_gettime \in Nat /\ PcTime \in Nat
  <2>1. xNumOfOverflows * TickMod \in Nat
    BY SMT
  <2> QED
    BY <2>1 DEF clock_gettime, PcTime, Ticks
<1>2. CASE UNCHANGED vars
  BY <1>2 DEF vars, time, clockVars, syncVars, netVars
<1>3. CASE xTaskIncrementTick
  BY <1>3, TickNext DEF xTaskIncrementTick, clockVars, syncVars, netVars, Ticks
<1>4. CASE Connect
  BY <1>4, <1>1, DueTickIsTick DEF Connect, time, netVars
<1>5. CASE Spin
  <2>1. CASE UNCHANGED <<s_sync_pending, clockVars, answers>>
    BY <1>5, <2>1 DEF Spin, time, clockVars
  <2>2. ASSUME NEW a \in answers, micro_ros_sync_callback(a),
               answers' = answers \ {a}
        PROVE  TypeOK'
    <3>1. a.stamp \in Nat /\ a \in Answers
      BY <2>2 DEF Answers
    <3>2. /\ s_epoch_base' \in Int /\ s_time_synced' \in BOOLEAN
          /\ basis' \in [stamp : Nat, at : Nat, overflows : Nat]
          /\ s_sync_pending' \in BOOLEAN
      <4>1. CASE a.sync_state
        <5>1. /\ s_epoch_base' = a.stamp - xTickCount
              /\ basis' = [stamp |-> a.stamp, at |-> PcTime,
                           overflows |-> xNumOfOverflows]
          BY <2>2, <4>1 DEF micro_ros_sync_callback
        <5>2. s_epoch_base' \in Int
          BY <5>1, <3>1 DEF Ticks
        <5>3. basis' \in [stamp : Nat, at : Nat, overflows : Nat]
          BY <5>1, <3>1, <1>1
        <5>4. s_time_synced' \in BOOLEAN /\ s_sync_pending' \in BOOLEAN
          BY <2>2, <4>1, Zenon DEF micro_ros_sync_callback
        <5> QED
          BY <5>2, <5>3, <5>4
      <4>2. CASE ~a.sync_state
        BY <2>2, <4>2 DEF micro_ros_sync_callback, clockVars
      <4> QED
        BY <4>1, <4>2
    <3> QED
      BY <1>5, <2>2, <3>2 DEF Spin, time
  <2> QED
    BY <1>5, <2>1, <2>2 DEF Spin
<1>6. CASE Publish
  BY <1>6 DEF Publish, micro_ros_fill_stamp, time, clockVars, syncVars, netVars,
              Ticks
<1>7. CASE ReadTick
  BY <1>7, <1>1 DEF ReadTick, time, clockVars, syncVars, netVars
<1>8. CASE micro_ros_process_time_sync
  <2>1. CASE SendRequest
    BY <1>8, <2>1 DEF micro_ros_process_time_sync, SendRequest, time, clockVars
  <2>2. CASE ~SendRequest
    BY <1>8, <2>2
       DEF micro_ros_process_time_sync, SyncElapsed, time, clockVars
  <2> QED
    BY <2>1, <2>2
<1>9. CASE EndRound
  BY <1>9 DEF EndRound, time, clockVars, syncVars, netVars
<1>10. CASE Disconnect
  BY <1>10 DEF Disconnect, time
<1>11. CASE on_sync
  BY <1>11, <1>1 DEF on_sync, Answers, time, clockVars, syncVars
<1>12. CASE Lose
  BY <1>12 DEF Lose, time, clockVars, syncVars
<1> QED
  BY <1>2, <1>3, <1>4, <1>5, <1>6, <1>7, <1>8, <1>9, <1>10, <1>11, <1>12
     DEF Next

(* Every variable of the synchronisation stays of its type: the tick of    *)
(* the first request, computed backwards from the present, is a tick.      *)
THEOREM TypeCorrect == Spec => []TypeOK
<1>1. Init => TypeOK
  <2> SUFFICES ASSUME Init PROVE TypeOK
    OBVIOUS
  <2> USE DEF Init
  <2>1. /\ xTickCount \in Ticks /\ xNumOfOverflows \in Nat
        /\ s_sync_request_tick \in Ticks /\ current_tick \in Ticks
        /\ s_epoch_base \in Int /\ stamp \in Int /\ s_sync_sequence \in Nat
        /\ lastRead \in Nat
    BY TimeSyncAssumption DEF Ticks
  <2>2. basis \in [stamp : Nat, at : Nat, overflows : Nat]
    OBVIOUS
  <2>3. s_time_synced \in BOOLEAN /\ s_sync_pending \in BOOLEAN
    BY Zenon
  <2>4. /\ requests \subseteq Nat /\ answers \subseteq Answers
        /\ session \in Nat \union {NEVER} /\ lastSent \in Nat \union {NEVER}
        /\ pc \in Steps
    BY DEF Steps
  <2> QED
    BY <2>1, <2>2, <2>3, <2>4, Zenon DEF TypeOK
<1> QED
  BY <1>1, TypeNext, PTL DEF Spec

-----------------------------------------------------------------------------
(***************************************************************************)
(* The clock.  BaseInv says what the base is, in terms of the answer it    *)
(* was computed from; SessionInv says what can be under way to the glove.  *)
(***************************************************************************)
BaseInv ==
  s_time_synced =>
    s_epoch_base = basis.stamp - (basis.at - PcEpoch - basis.overflows * TickMod)

SessionInv ==
  /\ pc = "wait" => requests = {} /\ answers = {} /\ ~s_time_synced
  /\ \A a \in answers : PcEpoch + session <= a.stamp /\ a.stamp <= PcTime
  /\ requests # {} => session <= clock_gettime
  /\ pc # "wait" => session <= clock_gettime
  /\ s_time_synced => /\ PcEpoch + session <= basis.stamp
                      /\ basis.stamp <= basis.at
                      /\ basis.overflows <= xNumOfOverflows

LEMMA ClockAdvances ==
  ASSUME TypeOK, [Next]_vars
  PROVE  /\ clock_gettime \in Nat /\ clock_gettime' \in Nat
         /\ clock_gettime <= clock_gettime'
         /\ xNumOfOverflows <= xNumOfOverflows'
         /\ ~ xTaskIncrementTick => UNCHANGED <<time, clock_gettime>>
<1> USE TimeSyncAssumption DEF TypeOK
<1>1. xNumOfOverflows * TickMod \in Nat
  BY SMT
<1>2. clock_gettime \in Nat
  BY <1>1 DEF clock_gettime, Ticks
<1>3. CASE xTaskIncrementTick
  <2>1. \/ xTickCount' = xTickCount + 1 /\ xNumOfOverflows' = xNumOfOverflows
        \/ /\ xTickCount + 1 = TickMod /\ xTickCount' = 0
           /\ xNumOfOverflows' = xNumOfOverflows + 1
    BY <1>3, TickNext DEF xTaskIncrementTick, Ticks
  <2>2. (xNumOfOverflows + 1) * TickMod = xNumOfOverflows * TickMod + TickMod
    BY Turns
  <2>3. clock_gettime' = clock_gettime + 1
    BY <2>1, <2>2, <1>1 DEF clock_gettime, Ticks
  <2> QED
    BY <2>1, <2>3, <1>2, <1>3
<1>4. CASE ~ xTaskIncrementTick
  <2>1. UNCHANGED time
    BY <1>4 DEF Next, Connect, Spin, Publish, ReadTick,
                micro_ros_process_time_sync, EndRound, Disconnect, on_sync,
                Lose, vars
  <2> QED
    BY <2>1, <1>2, <1>4 DEF time, clock_gettime
<1> QED
  BY <1>3, <1>4

LEMMA BaseNext == TypeOK /\ BaseInv /\ [Next]_vars => BaseInv'
<1> SUFFICES ASSUME TypeOK, BaseInv, [Next]_vars, s_time_synced'
             PROVE  s_epoch_base' = basis'.stamp -
                      (basis'.at - PcEpoch - basis'.overflows * TickMod)
  BY DEF BaseInv
<1> USE TimeSyncAssumption
<1>1. ASSUME UNCHANGED clockVars PROVE BaseInv'
  BY <1>1 DEF clockVars, BaseInv
<1>2. ASSUME NEW a \in answers, micro_ros_sync_callback(a), a.sync_state,
             UNCHANGED time
      PROVE  BaseInv'
  <2>1. /\ s_epoch_base' = a.stamp - xTickCount
        /\ basis'.stamp = a.stamp /\ basis'.overflows = xNumOfOverflows
        /\ basis'.at = PcEpoch + xNumOfOverflows * TickMod + xTickCount
    BY <1>2, Turns DEF micro_ros_sync_callback, PcTime, clock_gettime, TypeOK,
                      Ticks
  <2>2. xNumOfOverflows * TickMod \in Int /\ xTickCount \in Int
        /\ a.stamp \in Int
    BY Turns DEF TypeOK, Ticks, Answers
  <2> QED
    BY <2>1, <2>2 DEF BaseInv
<1>3. CASE Spin
  <2>1. UNCHANGED time
    BY <1>3 DEF Spin
  <2>2. CASE UNCHANGED <<s_sync_pending, clockVars, answers>>
    BY <2>2, <1>1 DEF BaseInv
  <2>3. ASSUME NEW a \in answers, micro_ros_sync_callback(a) PROVE BaseInv'
    <3>1. CASE a.sync_state
      BY <2>1, <2>3, <3>1, <1>2
    <3>2. CASE ~a.sync_state
      BY <2>3, <3>2, <1>1 DEF micro_ros_sync_callback
    <3> QED
      BY <3>1, <3>2
  <2> QED
    BY <1>3, <2>2, <2>3 DEF Spin, BaseInv
<1>4. CASE Connect \/ Disconnect
  BY <1>4 DEF Connect, Disconnect
<1>5. CASE ~ (Spin \/ Connect \/ Disconnect)
  <2>1. UNCHANGED clockVars
    BY <1>5 DEF Next, xTaskIncrementTick, Publish, ReadTick, EndRound, on_sync,
                Lose, micro_ros_process_time_sync, vars
  <2> QED
    BY <2>1, <1>1 DEF BaseInv
<1> QED
  BY <1>3, <1>4, <1>5 DEF BaseInv

LEMMA SessionNext == TypeOK /\ SessionInv /\ [Next]_vars => SessionInv'
<1> SUFFICES ASSUME TypeOK, SessionInv, [Next]_vars PROVE SessionInv'
  OBVIOUS
<1>1. /\ clock_gettime \in Nat /\ clock_gettime' \in Nat
      /\ clock_gettime <= clock_gettime' /\ xNumOfOverflows <= xNumOfOverflows'
      /\ xNumOfOverflows \in Nat
      /\ PcEpoch \in Nat /\ PcTime \in Nat /\ PcTime' \in Nat /\ PcTime <= PcTime'
      /\ session \in Int /\ basis.overflows \in Nat
      /\ \A a \in answers : a.stamp \in Nat
  BY ClockAdvances, TimeSyncAssumption DEF PcTime, TypeOK, Answers
<1> USE DEF SessionInv
<1>2. CASE xTaskIncrementTick
  <2>1. UNCHANGED <<pc, clockVars, netVars, session>> /\ xNumOfOverflows' \in Nat
    BY <1>2, TypeNext DEF xTaskIncrementTick, TypeOK
  <2> QED
    BY <2>1, <1>1 DEF clockVars, netVars
<1>3. ASSUME ~ xTaskIncrementTick PROVE UNCHANGED <<clock_gettime, PcTime, time>>
  BY <1>3, ClockAdvances DEF PcTime
<1>4. CASE Connect
  <2>1. /\ session' = clock_gettime /\ answers' = {} /\ requests' = {}
        /\ ~s_time_synced' /\ UNCHANGED time
    BY <1>4 DEF Connect, netVars
  <2> QED
    BY <2>1, <1>1 DEF time, clock_gettime
<1>5. CASE Spin
  <2>1. /\ pc = "spin" /\ pc' = "keys" /\ UNCHANGED <<time, requests, session>>
    BY <1>5 DEF Spin
  <2>2. UNCHANGED <<clock_gettime, PcTime, xNumOfOverflows>>
    BY <2>1 DEF time, clock_gettime, PcTime
  <2>3. CASE UNCHANGED <<s_sync_pending, clockVars, answers>>
    BY <2>1, <2>2, <2>3 DEF clockVars
  <2>4. ASSUME NEW a \in answers, micro_ros_sync_callback(a),
               answers' = answers \ {a}
        PROVE  SessionInv'
    <3>1. CASE a.sync_state
      <4>1. /\ basis'.stamp = a.stamp /\ basis'.at = PcTime
            /\ basis'.overflows = xNumOfOverflows
        BY <2>4, <3>1 DEF micro_ros_sync_callback
      <4> QED
        BY <4>1, <2>1, <2>2, <2>4, <1>1
    <3>2. CASE ~a.sync_state
      BY <2>1, <2>2, <2>4, <3>2 DEF micro_ros_sync_callback, clockVars
    <3> QED
      BY <3>1, <3>2
  <2> QED
    BY <1>5, <2>3, <2>4 DEF Spin
<1>6. CASE Disconnect
  BY <1>6, <1>1, <1>3 DEF Disconnect, time, clock_gettime, PcTime
<1>7. CASE on_sync
  <2>1. PICK r \in requests, granted \in BOOLEAN :
          /\ requests' = requests \ {r}
          /\ answers' = answers \union
               {[sequence |-> r, stamp |-> PcTime, sync_state |-> granted]}
    BY <1>7 DEF on_sync
  <2>2. UNCHANGED <<time, pc, clockVars, session>>
    BY <1>7 DEF on_sync
  <2>3. UNCHANGED <<clock_gettime, PcTime, xNumOfOverflows>>
    BY <2>2 DEF time, clock_gettime, PcTime
  <2>4. PcEpoch + session <= PcTime
    BY <2>1, <1>1 DEF PcTime
  <2> QED
    BY <2>1, <2>2, <2>3, <2>4, <1>1 DEF clockVars
<1>8. CASE Lose
  BY <1>8, <1>1 DEF Lose, time, clockVars, clock_gettime, PcTime
<1>9. CASE micro_ros_process_time_sync
  <2>1. /\ pc = "sync" /\ pc' = "status"
        /\ UNCHANGED <<time, clockVars, answers, session>>
    BY <1>9 DEF micro_ros_process_time_sync
  <2> QED
    BY <2>1, <1>1 DEF time, clockVars, clock_gettime, PcTime
<1>10. CASE ReadTick \/ EndRound \/ Publish \/ UNCHANGED vars
  <2>1. /\ UNCHANGED <<time, clockVars, netVars, session>>
        /\ pc' = "wait" <=> pc = "wait"
    BY <1>10 DEF ReadTick, EndRound, Publish, vars
  <2> QED
    BY <2>1, <1>1 DEF time, clockVars, netVars, clock_gettime, PcTime
<1> QED
  BY <1>2, <1>4, <1>5, <1>6, <1>7, <1>8, <1>9, <1>10 DEF Next
-----------------------------------------------------------------------------

(* The clock's error is known exactly: the delay of the answer it was set  *)
(* by, plus a full turn of the 32-bit tick for each wrap since.            *)
THEOREM ClockKnown == Spec => []ClockTrue
<1>1. Init => BaseInv
  BY DEF Init, BaseInv
<1>2. TypeOK /\ BaseInv => ClockTrue
  <2> SUFFICES ASSUME TypeOK, BaseInv, s_time_synced
               PROVE  PcTime - Clock = (basis.at - basis.stamp)
                         + (xNumOfOverflows - basis.overflows) * TickMod
    BY DEF ClockTrue
  <2>1. /\ xNumOfOverflows \in Nat /\ basis.overflows \in Nat
        /\ basis.at \in Nat /\ basis.stamp \in Nat
        /\ xTickCount \in Int /\ PcEpoch \in Nat
    BY TimeSyncAssumption DEF TypeOK, Ticks
  <2>2. /\ (xNumOfOverflows - basis.overflows) * TickMod
             = xNumOfOverflows * TickMod - basis.overflows * TickMod
        /\ xNumOfOverflows * TickMod \in Int
        /\ basis.overflows * TickMod \in Int
    BY <2>1, TurnsBetween, Zenon
  <2> QED
    BY <2>1, <2>2 DEF BaseInv, PcTime, Clock, clock_gettime
<1> QED
  BY <1>1, <1>2, BaseNext, TypeCorrect, PTL DEF Spec

(* The clock rests on an answer of the present session and is never ahead  *)
(* of the PC's, whatever was lost, late or answered twice.                 *)
THEOREM ClockFresh == Spec => []ClockOfThisSession
<1>1. Init => SessionInv
  BY DEF Init, SessionInv
<1>2. TypeOK /\ SessionInv /\ ClockTrue => ClockOfThisSession
  <2> SUFFICES ASSUME TypeOK, SessionInv, ClockTrue, s_time_synced
               PROVE  Clock <= PcTime
    BY DEF SessionInv, ClockOfThisSession
  <2>1. /\ basis.at \in Nat /\ basis.stamp \in Nat
        /\ xNumOfOverflows \in Nat /\ basis.overflows \in Nat
        /\ Clock \in Int
    BY DEF TypeOK, Clock, Ticks
  <2>2. 0 <= (xNumOfOverflows - basis.overflows) * TickMod
        /\ (xNumOfOverflows - basis.overflows) * TickMod \in Int
    BY <2>1, TurnsBetween, Zenon DEF SessionInv
  <2>3. PcTime \in Int
    BY <2>1, Turns, TimeSyncAssumption DEF PcTime, clock_gettime, TypeOK, Ticks
  <2> QED
    BY <2>1, <2>2, <2>3 DEF ClockTrue, SessionInv
<1> QED
  BY <1>1, <1>2, SessionNext, TypeCorrect, ClockKnown, PTL DEF Spec

-----------------------------------------------------------------------------
(***************************************************************************)
(* The spacing of the requests.  A tick is the moment it was read at, less *)
(* whole turns of the counter.                                             *)
(***************************************************************************)
ReadInv ==
  /\ lastRead <= clock_gettime
  /\ \E k \in Nat : lastRead = k * TickMod + current_tick
  /\ lastSent # NEVER =>
       /\ lastSent <= lastRead
       /\ \E j \in Nat : lastSent = j * TickMod + s_sync_request_tick

LEMMA ReadNext == TypeOK /\ ReadInv /\ [Next]_vars => ReadInv'
<1> SUFFICES ASSUME TypeOK, ReadInv, [Next]_vars PROVE ReadInv'
  OBVIOUS
<1>1. /\ clock_gettime \in Nat /\ clock_gettime' \in Nat
      /\ clock_gettime <= clock_gettime'
      /\ lastRead \in Nat /\ lastSent \in Nat \union {NEVER}
  BY ClockAdvances DEF TypeOK
<1> USE DEF ReadInv
<1>2. CASE Connect
  <2>1. /\ lastSent' = NEVER /\ UNCHANGED <<lastRead, current_tick>>
    BY <1>2 DEF Connect
  <2> QED
    BY <2>1, <1>1
<1>3. CASE ReadTick
  <2>1. /\ current_tick' = xTickCount /\ lastRead' = clock_gettime
        /\ UNCHANGED <<syncVars, time>>
    BY <1>3 DEF ReadTick
  <2>2. clock_gettime' = clock_gettime
    BY <2>1 DEF time, clock_gettime
  <2>3. lastRead' = xNumOfOverflows * TickMod + current_tick'
        /\ xNumOfOverflows \in Nat
    BY <2>1 DEF clock_gettime, TypeOK
  <2> QED
    BY <2>1, <2>2, <2>3, <1>1 DEF syncVars
<1>4. CASE micro_ros_process_time_sync
  <2>1. UNCHANGED <<time, current_tick, lastRead>>
    BY <1>4 DEF micro_ros_process_time_sync
  <2>2. CASE SendRequest
    BY <2>1, <2>2, <1>1 DEF SendRequest, time, clock_gettime
  <2>3. CASE UNCHANGED <<s_sync_request_tick, s_sync_sequence, lastSent, requests>>
    BY <2>1, <2>3, <1>1 DEF time, clock_gettime
  <2> QED
    BY <1>4, <2>2, <2>3 DEF micro_ros_process_time_sync
<1>5. CASE ~ (Connect \/ ReadTick \/ micro_ros_process_time_sync)
  <2>1. UNCHANGED <<lastSent, s_sync_request_tick, current_tick, lastRead>>
    BY <1>5 DEF Next, xTaskIncrementTick, Spin, Publish, EndRound, Disconnect,
                on_sync, Lose, syncVars, vars
  <2> QED
    BY <2>1, <1>1
<1> QED
  BY <1>2, <1>3, <1>4, <1>5

(* Two requests of one session are made from ticks that were read at least *)
(* the retry period apart: the unsigned difference never makes a retry     *)
(* early, however often the counter has wrapped in between.                *)
THEOREM RetriesSpaced == Spec => RequestsSpaced
<1>1. Init => ReadInv
  <2>1. ASSUME Init PROVE lastRead = 0 * TickMod + current_tick
    BY <2>1, TimeSyncAssumption DEF Init
  <2>2. ASSUME Init PROVE lastRead <= clock_gettime
    BY <2>2, TimeSyncAssumption DEF Init, clock_gettime
  <2>3. ASSUME Init PROVE \E k \in Nat : lastRead = k * TickMod + current_tick
    <3>1. 0 \in Nat
      OBVIOUS
    <3> QED
      BY <2>1, <2>3, <3>1, Zenon
  <2>4. Init => lastSent = NEVER
    BY DEF Init
  <2> QED
    BY <2>2, <2>3, <2>4, Zenon DEF ReadInv
<1>2. ASSUME TypeOK, ReadInv, [Next]_vars,
             lastSent' # lastSent, lastSent # NEVER, lastSent' # NEVER
      PROVE  lastSent' - lastSent >= MICRO_ROS_SYNC_RETRY_MS
  <2>1. micro_ros_process_time_sync /\ RetryDue /\ lastSent' = lastRead
    BY <1>2 DEF Next, xTaskIncrementTick, Connect, Spin, Publish, ReadTick,
                EndRound, Disconnect, on_sync, Lose, syncVars, vars,
                micro_ros_process_time_sync, SendRequest
  <2>2. PICK k \in Nat : lastRead = k * TickMod + current_tick
    BY <1>2 DEF ReadInv
  <2>3. PICK j \in Nat : lastSent = j * TickMod + s_sync_request_tick
    BY <1>2 DEF ReadInv
  <2> DEFINE d == current_tick - s_sync_request_tick
  <2>4. /\ d \in (1 - TickMod) .. (TickMod - 1)
        /\ TickMod \in Nat /\ MICRO_ROS_SYNC_RETRY_MS \in Nat
    BY <1>2, TimeSyncAssumption DEF TypeOK, Ticks
  <2>5. MICRO_ROS_SYNC_RETRY_MS <= IF 0 <= d THEN d ELSE d + TickMod
    BY <2>1, <2>4, TickDifference DEF RetryDue, SyncElapsed
  <2>6. /\ (k - j) * TickMod = k * TickMod - j * TickMod
        /\ k * TickMod \in Int /\ j * TickMod \in Int
        /\ j <= k => 0 <= (k - j) * TickMod
        /\ j < k => TickMod <= (k - j) * TickMod
        /\ k < j => (k - j) * TickMod <= - TickMod
    BY TurnsBetween, Zenon
  <2>7. lastRead - lastSent = (k - j) * TickMod + d
    BY <1>2, <2>2, <2>3, <2>6 DEF TypeOK, Ticks
  <2>8. 0 <= lastRead - lastSent
    BY <1>2 DEF ReadInv, TypeOK
  <2>9. j <= k /\ (d < 0 => j < k)
    <3>1. CASE k = j
      <4>1. (k - j) * TickMod = 0
        BY <3>1, <2>6
      <4> QED
        BY <4>1, <3>1, <2>4, <2>7, <2>8
    <3>2. CASE k < j
      BY <3>2, <2>4, <2>6, <2>7, <2>8
    <3> QED
      BY <3>1, <3>2
  <2> HIDE DEF d
  <2> QED
    BY <2>1, <2>4, <2>5, <2>6, <2>7, <2>9
<1> QED
  BY <1>1, <1>2, ReadNext, TypeCorrect, PTL DEF Spec, RequestsSpaced
=============================================================================
