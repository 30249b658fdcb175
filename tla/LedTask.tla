------------------------------ MODULE LedTask ------------------------------
(***************************************************************************)
(* The LED task (Application/Tasks/led_task.c): the only writer of the six *)
(* LEDs and the beeper.  It serves three inputs: the one-slot command      *)
(* mailbox written by the micro-ROS task, the notification bits set by the *)
(* key task, and the blink phase of a remote command.                      *)
(*                                                                         *)
(* The task blocks in vTaskDelay between its LED and beeper operations.    *)
(* The operations still to be made are the sequence plan, and one step of  *)
(* the task makes the first of them: every other task may run in between.  *)
(* Delays take any time, so their lengths do not appear.  A commit may     *)
(* fail (DMA error or timeout); the beeper cannot once it is initialised.  *)
(***************************************************************************)
EXTENDS Integers, Sequences

CONSTANTS
  Cameras, System,        (* LED2..LED6, and the system LED7               *)
  CmdInputs,              (* frames a LedCmd message may carry             *)
  SELF_TEST_BLINK_COUNT,  (* 3 in the code                                 *)
  PREPARE_BLINK_COUNT     (* 3 in the code                                 *)

Leds == Cameras \union {System}
Modes == 0 .. 5           (* LED_TASK_MODE_OFF .. _BLUE_SOLID              *)
BeepModes == 0 .. 3       (* LED_TASK_BEEP_OFF .. LED_TASK_BEEPING         *)
Colors == {"OFF", "GREEN", "RED", "BLUE"}
Actions == {"SHORT", "LONG", "DOUBLE"}
SystemStates == {"SELF_TEST", "IDLE", "PREPARING", "COLLECTING", "ERROR"}

ASSUME LedAssumption ==
  /\ System \notin Cameras
  /\ CmdInputs \subseteq [led_mode : [Leds -> Nat], beep_mode : Nat]
  /\ SELF_TEST_BLINK_COUNT \in Nat /\ PREPARE_BLINK_COUNT \in Nat

VARIABLES
  s_led_ready, s_system_state,
  s_led_cmd_queue,                  (* the mailbox: at most one command    *)
  notified,                         (* pending notification bits           *)
  collecting, remote_active, remote_cmd, remote_blink_on,
  led_status,                       (* the last commit succeeded           *)
  pc,                               (* the loop's next input               *)
  plan,                             (* operations to make before it        *)
  frame, beep                       (* what the LEDs and the beeper do     *)

local == <<collecting, remote_active, remote_cmd, remote_blink_on>>
task == <<local, s_led_ready, s_system_state, led_status, pc, plan, frame, beep>>
ledVars == <<task, s_led_cmd_queue, notified>>

Cmd == [enabled : {TRUE}, led_mode : [Leds -> Modes], beep_mode : BeepModes]
Release == [enabled |-> FALSE]

-----------------------------------------------------------------------------
(* Frames and the operations that show them.                               *)

Show(camera, system) == [l \in Leds |-> IF l = System THEN system ELSE camera]
LocalFrame(c) == Show("GREEN", IF c THEN "BLUE" ELSE "OFF")

mode_to_color(mode, blink_on) ==
  CASE mode = 1 -> "GREEN"
    [] mode = 2 -> IF blink_on THEN "GREEN" ELSE "OFF"
    [] mode = 3 -> "RED"
    [] mode = 4 -> IF blink_on THEN "BLUE" ELSE "OFF"
    [] mode = 5 -> "BLUE"
    [] OTHER -> "OFF"

RemoteFrame(cmd, blink_on) ==
  [l \in Leds |-> mode_to_color(cmd.led_mode[l], blink_on)]

cmd_has_blink(cmd) == \E l \in Leds : cmd.led_mode[l] \in {2, 4}

Commit(f) == [op |-> "commit", frame |-> f]
Check == [op |-> "check"]
SetBeep(on) == [op |-> "beep", on |-> on]
SetState(s, c) == [op |-> "state", state |-> s, collecting |-> c]
Ready == [op |-> "ready"]

Shown(f) == <<Commit(f), Check>>
Repeat(n, ops) == [k \in 1 .. n * Len(ops) |-> ops[((k - 1) % Len(ops)) + 1]]
Beeped == <<SetBeep(TRUE), SetBeep(FALSE)>>
UnlessRemote(r, ops) == IF r THEN <<>> ELSE ops

SelfTestPlan ==
  Repeat(SELF_TEST_BLINK_COUNT,
         Shown(Show("GREEN", "OFF")) \o Shown(Show("OFF", "OFF")))
    \o Shown(LocalFrame(FALSE)) \o <<SetState("IDLE", FALSE), Ready>>

PreparePlan ==
  Repeat(PREPARE_BLINK_COUNT,
         Shown(Show("GREEN", "BLUE")) \o Shown(Show("GREEN", "OFF")))

RemoteBeepPlan(mode) ==
  CASE mode = 0 -> <<SetBeep(FALSE)>>
    [] mode \in {1, 2} -> Beeped
    [] mode = 3 -> Beeped \o Beeped

(* The LED result is looked at only after the beeper has been served.      *)
CommandPlan(cmd, c) ==
  IF cmd.enabled
  THEN <<Commit(RemoteFrame(cmd, TRUE))>> \o RemoteBeepPlan(cmd.beep_mode)
         \o <<Check>>
  ELSE <<Commit(LocalFrame(c)), SetBeep(FALSE), Check>>

FeedbackPlan(c) ==
  Shown(Show("GREEN", IF c THEN "OFF" ELSE "BLUE")) \o Shown(LocalFrame(c))

(* Mutation checks: a local frame is shown although the PC owns the LEDs;  *)
(* PREPARING is left behind; the result of a commit is not looked at.      *)
ShortPlanIgnoresRemote(c, r) ==
  PreparePlan \o Beeped \o Shown(LocalFrame(~c))
    \o <<SetState(IF c THEN "IDLE" ELSE "COLLECTING", ~c)>>
ShortPlanStaysPreparing(c, r) ==
  <<SetState("PREPARING", c)>> \o Beeped
    \o UnlessRemote(r, Shown(LocalFrame(~c))) \o <<SetState("PREPARING", ~c)>>
ShortPlanUnchecked(c, r) ==
  Beeped \o UnlessRemote(r, <<Commit(LocalFrame(~c))>>)
    \o <<SetState(IF c THEN "IDLE" ELSE "COLLECTING", ~c)>>

ShortPlan(c, r) ==
  (IF c THEN <<>>
        ELSE <<SetState("PREPARING", c)>> \o UnlessRemote(r, PreparePlan))
    \o Beeped
    \o UnlessRemote(r, <<Commit(LocalFrame(~c))>>)
    \o <<SetState(IF c THEN "IDLE" ELSE "COLLECTING", ~c)>>
    \o UnlessRemote(r, <<Check>>)

LongPlan(c, r) == UnlessRemote(r, FeedbackPlan(c)) \o Beeped
DoublePlan(c, r) == Repeat(2, LongPlan(c, r))

(* Served in this order, whatever the order of the presses; the later ones *)
(* see the collecting flag the short press has toggled.                    *)
ActionsPlan(actions, c, r) ==
  LET after == IF "SHORT" \in actions THEN ~c ELSE c
  IN (IF "SHORT" \in actions THEN ShortPlan(c, r) ELSE <<>>)
       \o (IF "LONG" \in actions THEN LongPlan(after, r) ELSE <<>>)
       \o (IF "DOUBLE" \in actions THEN DoublePlan(after, r) ELSE <<>>)

-----------------------------------------------------------------------------
LedInit ==
  /\ s_led_ready = FALSE /\ s_system_state = "SELF_TEST"
  /\ s_led_cmd_queue = <<>> /\ notified = {}
  /\ collecting = FALSE /\ remote_active = FALSE
  /\ remote_cmd = Release /\ remote_blink_on = TRUE
  /\ led_status = TRUE /\ pc = "boot" /\ plan = <<>>
  /\ frame = Show("OFF", "OFF") /\ beep = FALSE

(* A commit that fails may have shifted out part of the frame.             *)
PartlyShown(f) == \E done \in SUBSET Leds :
  frame' = [l \in Leds |-> IF l \in done THEN f[l] ELSE frame[l]]

(* led_task_show_fault: beeper off, all red if that commit works, and the  *)
(* task never leaves its delay loop.                                       *)
Fault ==
  /\ s_system_state' = "ERROR"
  /\ beep' = FALSE
  /\ PartlyShown(Show("RED", "RED"))
  /\ pc' = "fault" /\ plan' = <<>>
  /\ UNCHANGED <<local, s_led_ready, led_status>>

InitHardware ==
  /\ pc = "boot" /\ plan = <<>>
  /\ \/ Fault
     \/ /\ plan' = SelfTestPlan
        /\ pc' = "mailbox"
        /\ UNCHANGED <<local, s_led_ready, s_system_state, led_status,
                       frame, beep>>
  /\ UNCHANGED <<s_led_cmd_queue, notified>>

(* One operation of the plan.                                              *)
Operate ==
  /\ plan # <<>>
  /\ LET step == Head(plan) IN
     \/ /\ step.op = "commit"
        /\ \/ frame' = step.frame /\ led_status' = TRUE
           \/ PartlyShown(step.frame) /\ led_status' = FALSE
        /\ plan' = Tail(plan)
        /\ UNCHANGED <<local, s_led_ready, s_system_state, pc, beep>>
     \/ /\ step.op = "check" /\ led_status
        /\ plan' = Tail(plan)
        /\ UNCHANGED <<local, s_led_ready, s_system_state, led_status, pc,
                       frame, beep>>
     \/ step.op = "check" /\ ~led_status /\ Fault
     \/ /\ step.op = "beep"
        /\ beep' = step.on
        /\ plan' = Tail(plan)
        /\ UNCHANGED <<local, s_led_ready, s_system_state, led_status, pc,
                       frame>>
     \/ /\ step.op = "state"
        /\ s_system_state' = step.state
        /\ collecting' = step.collecting
        /\ plan' = Tail(plan)
        /\ UNCHANGED <<remote_active, remote_cmd, remote_blink_on,
                       s_led_ready, led_status, pc, frame, beep>>
     \/ /\ step.op = "ready"
        /\ s_led_ready' = TRUE
        /\ plan' = Tail(plan)
        /\ UNCHANGED <<local, s_system_state, led_status, pc, frame, beep>>
  /\ UNCHANGED <<s_led_cmd_queue, notified>>

(* The mailbox is emptied and the command takes effect.                    *)
ReceiveCmd ==
  /\ pc = "mailbox" /\ plan = <<>>
  /\ pc' = "actions"
  /\ \/ /\ s_led_cmd_queue = <<>>
        /\ UNCHANGED <<local, plan, s_led_cmd_queue>>
     \/ /\ s_led_cmd_queue # <<>>
        /\ LET cmd == Head(s_led_cmd_queue) IN
           /\ remote_active' = cmd.enabled
           /\ remote_cmd' = IF cmd.enabled THEN cmd ELSE remote_cmd
           /\ remote_blink_on' = IF cmd.enabled THEN TRUE ELSE remote_blink_on
           /\ plan' = CommandPlan(cmd, collecting)
        /\ s_led_cmd_queue' = <<>>
        /\ UNCHANGED collecting
  /\ UNCHANGED <<notified, s_led_ready, s_system_state, led_status, frame, beep>>

(* Mutation check: the clear mask covers the short press only.             *)
TakeActionsPartMask ==
  /\ pc = "actions" /\ plan = <<>>
  /\ pc' = "blink"
  /\ plan' = ActionsPlan(notified, collecting, remote_active)
  /\ notified' = notified \ {"SHORT"}
  /\ UNCHANGED <<local, s_led_cmd_queue, s_led_ready, s_system_state,
                 led_status, frame, beep>>

(* All pending bits are taken and cleared at once.                         *)
TakeActions ==
  /\ pc = "actions" /\ plan = <<>>
  /\ pc' = "blink"
  /\ plan' = ActionsPlan(notified, collecting, remote_active)
  /\ notified' = {}
  /\ UNCHANGED <<local, s_led_cmd_queue, s_led_ready, s_system_state,
                 led_status, frame, beep>>

(* The blink phase changes when its half period is over, then the task     *)
(* sleeps 1 ms and starts the next iteration.                              *)
Blink ==
  /\ pc = "blink" /\ plan = <<>>
  /\ pc' = "mailbox"
  /\ \/ /\ remote_active /\ cmd_has_blink(remote_cmd)
        /\ remote_blink_on' = ~remote_blink_on
        /\ plan' = Shown(RemoteFrame(remote_cmd, ~remote_blink_on))
     \/ UNCHANGED <<remote_blink_on, plan>>
  /\ UNCHANGED <<collecting, remote_active, remote_cmd, s_led_cmd_queue,
                 notified, s_led_ready, s_system_state, led_status, frame, beep>>

TaskStep == InitHardware \/ Operate \/ ReceiveCmd \/ TakeActions \/ Blink

-----------------------------------------------------------------------------
(* Calls made by the other tasks.                                          *)

(* Mutation check: a full mailbox is kept.                                 *)
ReleaseKeepsFull ==
  /\ s_led_cmd_queue' = IF s_led_cmd_queue = <<>> THEN <<Release>>
                                                  ELSE s_led_cmd_queue
  /\ UNCHANGED <<task, notified>>

(* A command with any illegal mode is refused as a whole; a legal one      *)
(* replaces whatever the mailbox holds.                                    *)
led_task_submit_cmd(input) ==
  /\ s_led_cmd_queue' =
       IF input.beep_mode \in BeepModes /\ \A l \in Leds : input.led_mode[l] \in Modes
       THEN <<[enabled |-> TRUE, led_mode |-> input.led_mode,
               beep_mode |-> input.beep_mode]>>
       ELSE s_led_cmd_queue
  /\ UNCHANGED <<task, notified>>

led_task_release_remote_control ==
  /\ s_led_cmd_queue' = <<Release>>
  /\ UNCHANGED <<task, notified>>

(* Bits accumulate; before the task is ready the press is dropped.         *)
led_task_notify_action(action) ==
  /\ notified' = IF s_led_ready THEN notified \union {action} ELSE notified
  /\ UNCHANGED <<task, s_led_cmd_queue>>
=============================================================================
