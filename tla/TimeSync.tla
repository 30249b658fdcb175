------------------------------ MODULE TimeSync ------------------------------
(***************************************************************************)
(* The clock the glove puts into its messages: the synchronisation of      *)
(* Application/Tasks/micro_ros_task.c with the PC's service, in exact      *)
(* milliseconds, on a tick counter that wraps.                             *)
(*                                                                         *)
(* One iteration of the running loop is Spin (at most one answer reaches   *)
(* the callback), PublishStamps (key events), ReadTick, ProcessTimeSync    *)
(* with the tick read before, PublishStamps (status) and the end of the    *)
(* round, which may be a disconnection.  Ticks pass between any two steps. *)
(***************************************************************************)
EXTENDS Integers

CONSTANTS
  MICRO_ROS_SYNC_RETRY_MS,     (* 2000 in the code                         *)
  MICRO_ROS_SYNC_RESPONSE_MS,  (* 1500 in the code                         *)
  TickMod,                     (* the tick counter's modulus, 2^32         *)
  PcEpoch,                     (* the PC's time when the glove started     *)
  MaxUptime, MaxRequests       (* bounds of the model-checked instance     *)

ASSUME TimeSyncAssumption ==
  /\ MICRO_ROS_SYNC_RETRY_MS \in Nat \ {0}
  /\ MICRO_ROS_SYNC_RESPONSE_MS \in Nat
  /\ TickMod \in Nat /\ TickMod > MICRO_ROS_SYNC_RETRY_MS
  /\ PcEpoch \in Nat \ {0}
  /\ MaxUptime \in Nat /\ MaxRequests \in Nat

VARIABLES
  xTickCount, xNumOfOverflows,   (* FreeRTOS's tick and its wraps          *)
  pc,
  s_time_synced, s_sync_pending, s_sync_request_tick, s_epoch_base,
  s_sync_sequence,               (* of the last request; compared nowhere  *)
  current_tick,
  requests, answers,             (* under way to and from the PC           *)
  stamp,                         (* of the last message published          *)
  \* What happened, for the properties:
  session,   (* uptime at the connection                                   *)
  lastSent,  (* read of the tick that led to the session's last request    *)
  lastRead,  (* uptime when current_tick was read                          *)
  basis      (* the answer the clock was last set by                       *)

clockVars == <<s_time_synced, s_epoch_base, basis>>
syncVars == <<s_sync_pending, s_sync_request_tick, s_sync_sequence, lastSent>>
netVars == <<requests, answers>>
time == <<xTickCount, xNumOfOverflows>>
vars == <<time, pc, clockVars, syncVars, current_tick, netVars, stamp,
          session, lastRead>>

Ticks == 0 .. TickMod - 1
NEVER == -1

(* The overflow count times 2^32 plus the tick count: microros_time.c takes *)
(* both in one critical section.                                           *)
clock_gettime == xNumOfOverflows * TickMod + xTickCount

PcTime == PcEpoch + clock_gettime

Init ==
  /\ xTickCount = 0 /\ xNumOfOverflows = 0
  /\ pc = "wait"
  /\ s_time_synced = FALSE /\ s_epoch_base = 0
  /\ s_sync_pending = FALSE /\ s_sync_request_tick = 0 /\ s_sync_sequence = 0
  /\ current_tick = 0
  /\ requests = {} /\ answers = {}
  /\ stamp = 0
  /\ session = NEVER /\ lastSent = NEVER /\ lastRead = 0
  /\ basis = [stamp |-> 0, at |-> 0, overflows |-> 0]

xTaskIncrementTick ==
  /\ clock_gettime < MaxUptime
  /\ xTickCount' = (xTickCount + 1) % TickMod
  /\ xNumOfOverflows' = IF xTickCount' = 0 THEN xNumOfOverflows + 1
                        ELSE xNumOfOverflows
  /\ UNCHANGED <<pc, clockVars, syncVars, current_tick, netVars, stamp,
                 session, lastRead>>

DueTick == (xTickCount - MICRO_ROS_SYNC_RETRY_MS) % TickMod

(* The entities exist.  The first request is made due at once.             *)
Connect ==
  /\ pc = "wait" /\ pc' = "spin"
  /\ s_time_synced' = FALSE /\ s_sync_pending' = FALSE
  /\ s_sync_request_tick' = DueTick
  /\ session' = clock_gettime /\ lastSent' = NEVER
  /\ UNCHANGED <<time, s_epoch_base, basis, s_sync_sequence, current_tick,
                 netVars, stamp, lastRead>>

(* Slip for the mutation check: a base that forgets the uptime.            *)
micro_ros_sync_callback_no_uptime(a) ==
  /\ s_sync_pending' = FALSE
  /\ s_epoch_base' = a.stamp /\ s_time_synced' = TRUE
  /\ basis' = [stamp |-> a.stamp, at |-> PcTime, overflows |-> xNumOfOverflows]

(* Any answer ends the wait, also one to an earlier request; one that      *)
(* grants the synchronisation sets the base, again if it is set already.   *)
micro_ros_sync_callback(a) ==
  /\ s_sync_pending' = FALSE
  /\ IF a.sync_state
     THEN /\ s_epoch_base' = a.stamp - xTickCount
          /\ s_time_synced' = TRUE
          /\ basis' = [stamp |-> a.stamp, at |-> PcTime,
                       overflows |-> xNumOfOverflows]
     ELSE UNCHANGED clockVars

Spin ==
  /\ pc = "spin" /\ pc' = "keys"
  /\ \/ UNCHANGED <<s_sync_pending, clockVars, answers>>
     \/ \E a \in answers : /\ micro_ros_sync_callback(a)
                           /\ answers' = answers \ {a}
  /\ UNCHANGED <<time, s_sync_request_tick, s_sync_sequence, lastSent,
                 current_tick, requests, stamp, session, lastRead>>

micro_ros_fill_stamp ==
  IF s_time_synced THEN s_epoch_base + xTickCount ELSE 0

Publish ==
  /\ pc \in {"keys", "status"}
  /\ stamp' = micro_ros_fill_stamp
  /\ UNCHANGED <<time, pc, clockVars, syncVars, current_tick, netVars,
                 session, lastRead>>

ReadTick ==
  /\ pc = "keys" /\ pc' = "sync"
  /\ current_tick' = xTickCount /\ lastRead' = clock_gettime
  /\ UNCHANGED <<time, clockVars, syncVars, netVars, stamp, session>>

SyncElapsed(ms) == ms <= (current_tick - s_sync_request_tick) % TickMod

(* Slip for the mutation check: a retry is due as soon as the last request *)
(* has timed out.                                                          *)
RetryDueOnTimeout == SyncElapsed(MICRO_ROS_SYNC_RESPONSE_MS)
RetryDue == SyncElapsed(MICRO_ROS_SYNC_RETRY_MS)

(* rcl_send_request takes the request: it may still be lost on the way.    *)
SendRequest ==
  /\ s_sync_sequence < MaxRequests
  /\ s_sync_sequence' = s_sync_sequence + 1
  /\ requests' = requests \union {s_sync_sequence'}
  /\ s_sync_pending' = TRUE
  /\ s_sync_request_tick' = current_tick
  /\ lastSent' = lastRead

micro_ros_process_time_sync ==
  /\ pc = "sync" /\ pc' = "status"
  /\ LET pending == /\ s_sync_pending
                    /\ ~ SyncElapsed(MICRO_ROS_SYNC_RESPONSE_MS)
         due == ~s_time_synced /\ ~pending /\ RetryDue
     IN \/ due /\ SendRequest
        \/ /\ s_sync_pending' = IF s_time_synced THEN s_sync_pending ELSE pending
           /\ UNCHANGED <<s_sync_request_tick, s_sync_sequence, lastSent, requests>>
  /\ UNCHANGED <<time, clockVars, current_tick, answers, stamp, session, lastRead>>

EndRound ==
  /\ pc = "status" /\ pc' = "spin"
  /\ UNCHANGED <<time, clockVars, syncVars, current_tick, netVars, stamp,
                 session, lastRead>>

(* Slip for the mutation check: the client is not given up, and receives   *)
(* the answers to its earlier requests in the next session.                *)
DisconnectKeepsClient ==
  /\ pc = "status" /\ pc' = "wait"
  /\ s_time_synced' = FALSE /\ s_sync_pending' = FALSE
  /\ UNCHANGED <<time, s_epoch_base, basis, netVars, s_sync_request_tick,
                 s_sync_sequence, lastSent, current_tick, stamp, session,
                 lastRead>>

(* The health check has failed too often.  What is under way is forgotten  *)
(* with the client.                                                        *)
Disconnect ==
  /\ pc = "status" /\ pc' = "wait"
  /\ s_time_synced' = FALSE /\ s_sync_pending' = FALSE
  /\ requests' = {} /\ answers' = {}
  /\ UNCHANGED <<time, s_epoch_base, basis, s_sync_request_tick,
                 s_sync_sequence, lastSent, current_tick, stamp, session,
                 lastRead>>

(* The PC's service stamps its answer with its own time.                   *)
on_sync ==
  /\ \E r \in requests, granted \in BOOLEAN :
       /\ requests' = requests \ {r}
       /\ answers' = answers \union
            {[sequence |-> r, stamp |-> PcTime, sync_state |-> granted]}
  /\ UNCHANGED <<time, pc, clockVars, syncVars, current_tick, stamp, session,
                 lastRead>>

Lose ==
  /\ \/ \E r \in requests : requests' = requests \ {r} /\ UNCHANGED answers
     \/ \E a \in answers : answers' = answers \ {a} /\ UNCHANGED requests
  /\ UNCHANGED <<time, pc, clockVars, syncVars, current_tick, stamp, session,
                 lastRead>>

Next ==
  \/ xTaskIncrementTick
  \/ Connect \/ Spin \/ Publish \/ ReadTick \/ micro_ros_process_time_sync
  \/ EndRound \/ Disconnect
  \/ on_sync \/ Lose

Spec == Init /\ [][Next]_vars
-----------------------------------------------------------------------------
Steps == {"wait", "spin", "keys", "sync", "status"}
Answers == [sequence : Nat, stamp : Nat, sync_state : BOOLEAN]

TypeOK ==
  /\ xTickCount \in Ticks /\ xNumOfOverflows \in Nat
  /\ pc \in Steps
  /\ s_time_synced \in BOOLEAN /\ s_sync_pending \in BOOLEAN
  /\ s_sync_request_tick \in Ticks /\ current_tick \in Ticks
  /\ s_epoch_base \in Int /\ stamp \in Int
  /\ s_sync_sequence \in Nat
  /\ requests \subseteq Nat /\ answers \subseteq Answers
  /\ session \in Nat \union {NEVER}
  /\ lastSent \in Nat \union {NEVER} /\ lastRead \in Nat
  /\ basis \in [stamp : Nat, at : Nat, overflows : Nat]

(* The clock that a published stamp is read from.                          *)
Clock == s_epoch_base + xTickCount

(* A synchronised clock is behind the PC's by exactly the time the answer  *)
(* took that it was last set by, whichever of the requests that answer was *)
(* for, plus one full turn of the tick counter for each wrap since then    *)
(* (micro_ros_fill_stamp computes from the 32-bit tick).                   *)
ClockTrue ==
  s_time_synced =>
    PcTime - Clock = (basis.at - basis.stamp)
                       + (xNumOfOverflows - basis.overflows) * TickMod

(* A synchronised clock rests on an answer the PC gave within the present  *)
(* session and that had been given when it was used, however late answers  *)
(* arrive and sessions end; nothing the clock shows is ahead of the PC.    *)
ClockOfThisSession ==
  s_time_synced =>
    /\ PcEpoch + session <= basis.stamp
    /\ basis.stamp <= basis.at
    /\ Clock <= PcTime

(* Within a session the requests are made from tick reads at least the     *)
(* retry period of real time apart, through wraps of the counter, failed   *)
(* sends, time-outs and answers that end the wait early.                   *)
RequestsSpaced ==
  [][lastSent' # lastSent /\ lastSent # NEVER /\ lastSent' # NEVER =>
       lastSent' - lastSent >= MICRO_ROS_SYNC_RETRY_MS]_vars

(* "header.stamp = epoch_base_ns + the uptime" once synchronised           *)
(* (Docs/09, section 7): the stamp follows the PC's time, behind by the    *)
(* delay of the answer.                                                    *)
StampFollowsPc ==
  [][s_time_synced /\ stamp' # stamp =>
       PcTime - stamp' = basis.at - basis.stamp]_vars
=============================================================================
