---------------------------- MODULE MicroRosLink ----------------------------
(***************************************************************************)
(* The link to the micro-ROS agent as a service: the micro-ROS task, the   *)
(* key task's calls into it and the agent coming and going, under the      *)
(* scheduler's fairness, with what the link promises.                      *)
(***************************************************************************)
EXTENDS MicroRosTask

(***************************************************************************)
(* The task runs again and again (every round ends in a vTaskDelay) and a  *)
(* health check falls due again and again as time passes.  Of the agent it *)
(* is assumed that it does not miss every ping, and of the creations that  *)
(* those repeated for ever do not fail for ever.  None of this helps once  *)
(* the transport cannot be opened: no ping can be answered then.           *)
(***************************************************************************)
PingAnswered == WaitAgentPing /\ pc' = "create"

Fairness ==
  /\ WF_vars(MicroRosStep)
  /\ SF_vars(HealthPing)
  /\ SF_vars(PingAnswered)
  /\ []<><<CreateFails>>_vars => []<><<CreateDone>>_vars

Spec == Init /\ [][Next]_vars /\ Fairness

InHand == IF key_pc = "send" THEN {key_event} ELSE {}
Queued == {s_key_event_queue[i] : i \in 1 .. Len(s_key_event_queue)}

TypeOK ==
  /\ pc \in Steps /\ stage \in 1 .. Len(CreateOrder) + 1
  /\ flags \subseteq Entities /\ allocated \subseteq Entities
  /\ s_agent_connected \in BOOLEAN
  /\ ping_failure_count \in 0 .. MICRO_ROS_AGENT_FAILURE_LIMIT
  /\ s_time_synced \in BOOLEAN /\ s_sync_pending \in BOOLEAN
  /\ answers \in 0 .. MaxAnswers
  /\ led_cmd \in {"none", "remote", "release"}
  /\ s_key_event_queue \in Seq(1 .. MaxPresses)
  /\ Len(s_key_event_queue) <= MICRO_ROS_KEY_QUEUE_LENGTH
  /\ s_key_drop_count \in 0 .. MaxPresses
  /\ key_pc \in {"idle", "send"} /\ key_event \in 0 .. MaxPresses
  /\ agentUp \in BOOLEAN /\ transportStuck \in BOOLEAN
  /\ presses \in 0 .. MaxPresses /\ cut \in 0 .. MaxPresses
  /\ published \subseteq 1 .. MaxPresses

(* Nothing leaks across reconnections: the running loop has every entity,  *)
(* and a task that waits for the agent holds none, whatever creation step  *)
(* failed; the key task is only let in between.                            *)
EntitiesMatchState ==
  /\ pc \in Running => allocated = Entities
  /\ pc = "wait" => allocated = {}
  /\ s_agent_connected => allocated = Entities

(* What an entity needs is alive as long as the entity is, during creation *)
(* and during release.                                                     *)
Uses == [e \in Entities |->
           CASE e = "support" -> {}
             [] e = "node" -> {"support"}
             [] e = "executor" -> {"support"}
             [] OTHER -> {"node"}]
DependenciesAlive == \A e \in allocated : Uses[e] \subseteq allocated

(* Events reach the agent in the order they were recognised and at most    *)
(* once, over queue-full losses, failed publications and reconnections.    *)
OrderedReporting ==
  /\ \A i, j \in 1 .. Len(s_key_event_queue) :
       i < j => s_key_event_queue[i] < s_key_event_queue[j]
  /\ \A e \in InHand, q \in Queued : q < e
  /\ \A e \in InHand \union Queued, p \in published : p < e

(* The queue reset of a disconnection leaves at most one event of an older *)
(* session, the one the key task was about to send.                        *)
AtMostOneStraggler ==
  pc # "reset" =>
    \A a, b \in InHand \union Queued : a <= cut /\ b <= cut => a = b

(* A PC that is gone does not keep the LEDs: before the task waits for the *)
(* agent again it has taken back any remote control.                       *)
ReleasedWhenWaiting ==
  pc \in {"wait", "create"} => led_cmd # "remote"

(* Once the clock is set no request is pending, so none is ever sent       *)
(* again in that session.                                                  *)
SyncedNotPending == s_time_synced => ~s_sync_pending

(* An agent that is gone for good is noticed for good.                     *)
AgentLossNoticed == <>[]~agentUp => <>[]~s_agent_connected

(* As long as the transport can be opened, an agent that stays is found    *)
(* again after every failure.                                              *)
Reconnects == <>[](agentUp /\ ~transportStuck) => []<>s_agent_connected

(* Docs/02:238: whichever of MCU and agent starts first the two connect,   *)
(* and after a disconnection they recover by themselves.                   *)
RecoversByItself == <>[]agentUp => []<>s_agent_connected

(* Docs/08:116 and the porting notes Docs/09:78: an expired key event, one *)
(* of a session that is over, is not sent after a reconnection.            *)
NoStaleReplay ==
  [][\A e \in published' \ published : e > cut]_vars

(* Docs/08, "Queue full or disconnected ... recorded as an internal error  *)
(* count": a refused event raises s_key_drop_count.                        *)
DropsCounted ==
  [][(presses' # presses /\ key_pc' = "idle")
       => s_key_drop_count' = s_key_drop_count + 1]_vars
=============================================================================
