----------------------------- MODULE LedService -----------------------------
(***************************************************************************)
(* The LED task with its callers, and what it promises them: the display   *)
(* and the beeper follow the last command and the collection state, and a  *)
(* hardware failure is never hidden.                                       *)
(***************************************************************************)
EXTENDS LedTask

VARIABLE last   (* history: the last command or release accepted           *)

vars == <<ledVars, last>>

Init == LedInit /\ last = Release

Submit == \E input \in CmdInputs :
  /\ led_task_submit_cmd(input)
  /\ last' = IF input.beep_mode \in BeepModes
                  /\ \A l \in Leds : input.led_mode[l] \in Modes
             THEN [enabled |-> TRUE, led_mode |-> input.led_mode,
                   beep_mode |-> input.beep_mode]
             ELSE last

ReleaseControl == led_task_release_remote_control /\ last' = Release

Notify == \E action \in Actions :
  led_task_notify_action(action) /\ UNCHANGED last

Task == TaskStep /\ UNCHANGED last

Next == Task \/ Submit \/ ReleaseControl \/ Notify

(* The LED task has the lowest priority, but the key task sleeps for most  *)
(* of each millisecond and the micro-ROS task blocks in every read, so it  *)
(* keeps running; nothing is assumed of its callers.                       *)
Spec == Init /\ [][Next]_vars /\ WF_vars(Task)

-----------------------------------------------------------------------------
TypeOK ==
  /\ s_led_ready \in BOOLEAN /\ s_system_state \in SystemStates
  /\ \/ s_led_cmd_queue = <<>>
     \/ Len(s_led_cmd_queue) = 1 /\ s_led_cmd_queue[1] \in Cmd \union {Release}
  /\ notified \subseteq Actions
  /\ collecting \in BOOLEAN /\ remote_active \in BOOLEAN
  /\ remote_cmd \in Cmd \union {Release} /\ remote_blink_on \in BOOLEAN
  /\ led_status \in BOOLEAN /\ beep \in BOOLEAN
  /\ pc \in {"boot", "mailbox", "actions", "blink", "fault"}
  /\ frame \in [Leds -> Colors]

(* The task is between two inputs of its loop.                             *)
AtRest == plan = <<>> /\ pc \in {"mailbox", "actions", "blink"}

(* Whenever the task waits for its next input the LEDs show exactly what   *)
(* its mode asks for, the remote command in its blink phase or the local   *)
(* frame of the present collection state; the reported state agrees with   *)
(* the collection flag and the beeper is silent.  No sequence is left half *)
(* done, whatever gestures and commands were served in whatever order.     *)
RestAgrees ==
  AtRest => /\ frame = IF remote_active THEN RemoteFrame(remote_cmd, remote_blink_on)
                                        ELSE LocalFrame(collecting)
            /\ s_system_state = IF collecting THEN "COLLECTING" ELSE "IDLE"
            /\ ~beep

(* No failed commit is forgotten: the task does not come back to its loop  *)
(* with a bad result, although two results are looked at late.             *)
FailureNotIgnored == AtRest => led_status

(* The one-slot mailbox never replays an old command: a waiting command is *)
(* the last one accepted, and with none waiting the task is in the mode    *)
(* that command asked for.                                                 *)
LatestCommandWins ==
  pc # "fault" =>
    IF s_led_cmd_queue # <<>> THEN s_led_cmd_queue = <<last>>
    ELSE remote_active = last.enabled /\ (last.enabled => remote_cmd = last)

(* While the PC owns the LEDs, a working task shows no frame but one of    *)
(* the remote command's two phases: key feedback is only heard.            *)
RemoteOwnsLeds ==
  [][ (frame' # frame /\ led_status' /\ remote_active /\ s_system_state' # "ERROR")
        => frame' \in {RemoteFrame(remote_cmd, b) : b \in BOOLEAN} ]_vars

(* Every command and every notified press is taken, or the task faulted.   *)
InputsServed ==
  /\ (s_led_cmd_queue # <<>>) ~> (s_led_cmd_queue = <<>> \/ pc = "fault")
  /\ \A a \in Actions : (a \in notified) ~> (a \notin notified \/ pc = "fault")

(* A preparation that was announced ends in collection or in a fault.      *)
PreparationEnds ==
  (s_system_state = "PREPARING") ~> (s_system_state \in {"COLLECTING", "ERROR"})
=============================================================================
