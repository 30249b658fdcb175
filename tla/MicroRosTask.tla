---------------------------- MODULE MicroRosTask ----------------------------
(***************************************************************************)
(* The micro-ROS task (Application/Tasks/micro_ros_task.c): agent          *)
(* discovery and supervision, creation and release of the ROS entities,    *)
(* the executor, the time synchronisation and the queue of key events.     *)
(*                                                                         *)
(* The key task calls micro_ros_task_enqueue_key_event from its own        *)
(* context; both tasks have the same priority and are time-sliced, so its  *)
(* check of s_agent_connected and its send to the queue are two steps.     *)
(* pc is the micro-ROS task's next piece of work; between two pieces the   *)
(* key task and the environment may run.  Periods and timeouts expire at   *)
(* any time.  Key events are numbered in the order they are recognised.    *)
(***************************************************************************)
EXTENDS Integers, Sequences, FiniteSets

CONSTANTS
  MICRO_ROS_KEY_QUEUE_LENGTH,     (* 8 in the code                         *)
  MICRO_ROS_AGENT_FAILURE_LIMIT,  (* 3 in the code                         *)
  MaxPresses,                     (* bound: key events of a behaviour      *)
  MaxAnswers                      (* bound: sync answers under way         *)

ASSUME MicroRosAssumption ==
  /\ MICRO_ROS_KEY_QUEUE_LENGTH \in Nat \ {0}
  /\ MICRO_ROS_AGENT_FAILURE_LIMIT \in Nat \ {0}
  /\ MaxPresses \in Nat /\ MaxAnswers \in Nat

(* micro_ros_entity_flags_t, in creation order and in release order; the   *)
(* last two creation steps only register the handles with the executor.    *)
Entities == {"support", "node", "key_pub", "status_pub", "led_cmd_sub",
             "sync_client", "executor"}
CreateOrder == <<"support", "node", "key_pub", "status_pub", "led_cmd_sub",
                 "sync_client", "executor", "add_sub", "add_client">>

(* Mutation check: the node is released before its publishers.             *)
FiniOrderNodeFirst == <<"executor", "node", "led_cmd_sub", "sync_client",
                        "status_pub", "key_pub", "support">>

FiniOrder == <<"executor", "led_cmd_sub", "sync_client", "status_pub",
               "key_pub", "node", "support">>

Running == {"spin", "keys", "sync", "status", "health"}
Steps == Running \union {"wait", "create", "fini", "disconnect", "reset",
                         "release"}

VARIABLES
  pc, stage,               (* stage: position in CreateOrder or FiniOrder   *)
  flags,                   (* s_entity_flags                                *)
  allocated,               (* what libmicroros really holds                 *)
  s_agent_connected, ping_failure_count,
  s_time_synced, s_sync_pending,
  answers,                 (* sync answers on their way to the client       *)
  led_cmd,                 (* the last call made to the LED task            *)
  s_key_event_queue, s_key_drop_count,
  key_pc, key_event,       (* the key task inside enqueue_key_event         *)
  agentUp,                 (* the agent is reachable                        *)
  transportStuck,          (* no further open of the transport succeeds     *)
  presses, cut,            (* history: events so far; of sessions now over  *)
  published                (* history: events handed to the agent           *)

conn == <<s_agent_connected, ping_failure_count, s_time_synced,
          s_sync_pending, answers>>
ents == <<flags, allocated>>
keyq == <<s_key_event_queue, s_key_drop_count>>
keyTask == <<key_pc, key_event, presses>>
world == <<agentUp, transportStuck>>
history == <<cut, published>>
vars == <<pc, stage, ents, conn, led_cmd, keyq, keyTask, world, history>>

Init ==
  /\ pc = "wait" /\ stage = 1 /\ flags = {} /\ allocated = {}
  /\ s_agent_connected = FALSE /\ ping_failure_count = 0
  /\ s_time_synced = FALSE /\ s_sync_pending = FALSE /\ answers = 0
  /\ led_cmd = "none"
  /\ s_key_event_queue = <<>> /\ s_key_drop_count = 0
  /\ key_pc = "idle" /\ key_event = 0
  /\ agentUp \in BOOLEAN /\ transportStuck = FALSE
  /\ presses = 0 /\ cut = 0 /\ published = {}

-----------------------------------------------------------------------------
(* WAIT_AGENT.                                                             *)

(* The ping opens the transport and closes it again; a reachable agent may *)
(* still miss one ping of 100 ms.                                          *)
WaitAgentPing ==
  /\ pc = "wait"
  /\ s_agent_connected' = FALSE
  /\ \/ /\ agentUp /\ ~transportStuck
        /\ pc' = "create" /\ stage' = 1 /\ flags' = {}
     \/ UNCHANGED <<pc, stage, flags>>
  /\ UNCHANGED <<allocated, ping_failure_count, s_time_synced, s_sync_pending,
                 answers, led_cmd, keyq, keyTask, world, history>>

(* One initialisation of micro_ros_create_entities succeeds; that of the   *)
(* support opens the transport for the session.                            *)
CreateEntity ==
  /\ pc = "create" /\ stage <= Len(CreateOrder)
  /\ CreateOrder[stage] = "support" => ~transportStuck
  /\ stage' = stage + 1
  /\ allocated' = allocated \union ({CreateOrder[stage]} \intersect Entities)
  /\ flags' = flags \union ({CreateOrder[stage]} \intersect Entities)
  /\ UNCHANGED <<pc, conn, led_cmd, keyq, keyTask, world, history>>

(* Mutation check: the entities made so far are forgotten, not released.   *)
CreateFailsNoRollback ==
  /\ pc = "create" /\ stage <= Len(CreateOrder)
  /\ pc' = "wait" /\ stage' = 1
  /\ UNCHANGED <<ents, conn, led_cmd, keyq, keyTask, world, history>>

(* Mutation check: a failed creation stops the task, as a failed start-up   *)
(* does.                                                                   *)
CreateGivesUp ==
  /\ pc = "create" /\ stage <= Len(CreateOrder)
  /\ pc' = "suspended"
  /\ UNCHANGED <<stage, ents, conn, led_cmd, keyq, keyTask, world, history>>

(* One fails: those made so far are released.                              *)
CreateFails ==
  /\ pc = "create" /\ stage <= Len(CreateOrder)
  /\ pc' = "fini" /\ stage' = 1
  /\ UNCHANGED <<ents, conn, led_cmd, keyq, keyTask, world, history>>

CreateDone ==
  /\ pc = "create" /\ stage > Len(CreateOrder)
  /\ s_agent_connected' = TRUE
  /\ s_time_synced' = FALSE /\ s_sync_pending' = FALSE
  /\ ping_failure_count' = 0
  /\ pc' = "spin"
  /\ UNCHANGED <<stage, ents, answers, led_cmd, keyq, keyTask, world, history>>

(* micro_ros_fini_entities: each flagged entity in turn, then the flags;   *)
(* the answers still under way belonged to the released client.  The code  *)
(* looks at no result: a release that the agent does not confirm still     *)
(* gives the memory back, and is taken to do so here.                      *)
FiniEntity ==
  /\ pc = "fini" /\ stage <= Len(FiniOrder)
  /\ stage' = stage + 1
  /\ allocated' = allocated \ (flags \intersect {FiniOrder[stage]})
  /\ UNCHANGED <<pc, flags, conn, led_cmd, keyq, keyTask, world, history>>

FiniDone ==
  /\ pc = "fini" /\ stage > Len(FiniOrder)
  /\ flags' = {}
  /\ answers' = 0
  /\ pc' = "wait" /\ stage' = 1
  /\ UNCHANGED <<allocated, s_agent_connected, ping_failure_count,
                 s_time_synced, s_sync_pending, led_cmd, keyq, keyTask,
                 world, history>>

-----------------------------------------------------------------------------
(* RUNNING: one iteration of the loop.                                     *)

(* The executor runs no callback, the LedCmd callback, the sync callback   *)
(* (whose answer may be a refusal), or both.                               *)
Spin ==
  /\ pc = "spin" /\ pc' = "keys"
  /\ led_cmd' \in {led_cmd, "remote"}
  /\ \/ UNCHANGED <<s_time_synced, s_sync_pending, answers>>
     \/ /\ answers > 0
        /\ answers' = answers - 1
        /\ s_sync_pending' = FALSE
        /\ s_time_synced' \in {s_time_synced, TRUE}
  /\ UNCHANGED <<stage, ents, s_agent_connected, ping_failure_count, keyq,
                 keyTask, world, history>>

(* Mutation check: the newest event is published first.                    *)
PublishNewestFirst ==
  LET n == Len(s_key_event_queue) IN
  /\ pc = "keys"
  /\ IF n = 0 THEN pc' = "sync" /\ UNCHANGED <<s_key_event_queue, published>>
     ELSE /\ s_key_event_queue' = SubSeq(s_key_event_queue, 1, n - 1)
          /\ published' = published \union {s_key_event_queue[n]}
          /\ UNCHANGED pc
  /\ UNCHANGED <<stage, ents, conn, led_cmd, s_key_drop_count, keyTask,
                 world, cut>>

(* One turn of the publishing loop: an event leaves the queue and is gone  *)
(* whether or not rcl_publish succeeds; an empty queue ends the loop.      *)
PublishKeyEvent ==
  /\ pc = "keys"
  /\ \/ /\ s_key_event_queue # <<>>
        /\ s_key_event_queue' = Tail(s_key_event_queue)
        /\ published' \in {published, published \union {Head(s_key_event_queue)}}
        /\ UNCHANGED pc
     \/ /\ s_key_event_queue = <<>>
        /\ pc' = "sync"
        /\ UNCHANGED <<s_key_event_queue, published>>
  /\ UNCHANGED <<stage, ents, conn, led_cmd, s_key_drop_count, keyTask,
                 world, cut>>

(* A pending request may time out; a retry may be due and may be sent, the *)
(* answer to it then arrives at some later spin or never.                  *)
ProcessTimeSync ==
  /\ pc = "sync" /\ pc' = "status"
  /\ \/ UNCHANGED <<s_sync_pending, answers>>
     \/ ~s_time_synced /\ s_sync_pending' = FALSE /\ UNCHANGED answers
     \/ /\ ~s_time_synced
        /\ s_sync_pending' = TRUE
        /\ answers' \in {answers, answers + 1}
        /\ answers' <= MaxAnswers
  /\ UNCHANGED <<stage, ents, s_agent_connected, ping_failure_count,
                 s_time_synced, led_cmd, keyq, keyTask, world, history>>

(* The status message, when due: no state but its counters.                *)
PublishStatus ==
  /\ pc = "status" /\ pc' = "health"
  /\ UNCHANGED <<stage, ents, conn, led_cmd, keyq, keyTask, world, history>>

(* Mutation check: the failure count saturates below the limit.            *)
HealthPingSaturates ==
  /\ pc = "health" /\ pc' = "spin"
  /\ ping_failure_count' \in {ping_failure_count, 0}
  /\ UNCHANGED <<stage, ents, s_agent_connected, s_time_synced, s_sync_pending,
                 answers, led_cmd, keyq, keyTask, world, history>>

(* The health check is due: an answer clears the failure count, the last   *)
(* failure allowed starts the disconnection.                               *)
HealthPing ==
  /\ pc = "health"
  /\ \/ agentUp /\ pc' = "spin" /\ ping_failure_count' = 0
     \/ /\ ping_failure_count' = ping_failure_count + 1
        /\ pc' = IF MICRO_ROS_AGENT_FAILURE_LIMIT <= ping_failure_count'
                 THEN "disconnect" ELSE "spin"
  /\ UNCHANGED <<stage, ents, s_agent_connected, s_time_synced, s_sync_pending,
                 answers, led_cmd, keyq, keyTask, world, history>>

HealthNotDue ==
  /\ pc = "health" /\ pc' = "spin"
  /\ UNCHANGED <<stage, ents, conn, led_cmd, keyq, keyTask, world, history>>

(* From here on the events recognised so far are of a session that is over. *)
Disconnect ==
  /\ pc = "disconnect" /\ pc' = "reset"
  /\ s_agent_connected' = FALSE
  /\ s_time_synced' = FALSE /\ s_sync_pending' = FALSE
  /\ cut' = presses
  /\ UNCHANGED <<stage, ents, ping_failure_count, answers, led_cmd, keyq,
                 keyTask, world, published>>

(* Mutation checks: the queue keeps its events; the PC keeps the LEDs.     *)
QueueNotReset ==
  /\ pc = "reset" /\ pc' = "release"
  /\ UNCHANGED <<stage, ents, conn, led_cmd, keyq, keyTask, world, history>>
LedsNotReleased ==
  /\ pc = "release" /\ pc' = "fini" /\ stage' = 1
  /\ UNCHANGED <<ents, conn, led_cmd, keyq, keyTask, world, history>>

ResetKeyQueue ==
  /\ pc = "reset" /\ pc' = "release"
  /\ s_key_event_queue' = <<>>
  /\ UNCHANGED <<stage, ents, conn, led_cmd, s_key_drop_count, keyTask,
                 world, history>>

ReleaseLeds ==
  /\ pc = "release" /\ pc' = "fini" /\ stage' = 1
  /\ led_cmd' = "release"
  /\ UNCHANGED <<ents, conn, keyq, keyTask, world, history>>

-----------------------------------------------------------------------------
(* The key task in micro_ros_task_enqueue_key_event: presses numbers the   *)
(* event it has just recognised.                                           *)

(* Not connected: refused, and counted nowhere.                            *)
EnqueueRefused ==
  /\ key_pc = "idle" /\ presses < MaxPresses
  /\ ~s_agent_connected
  /\ presses' = presses + 1
  /\ UNCHANGED <<pc, stage, ents, conn, led_cmd, keyq, key_pc, key_event,
                 world, history>>

EnqueueAllowed ==
  /\ key_pc = "idle" /\ presses < MaxPresses
  /\ s_agent_connected
  /\ presses' = presses + 1
  /\ key_pc' = "send" /\ key_event' = presses + 1
  /\ UNCHANGED <<pc, stage, ents, conn, led_cmd, keyq, world, history>>

(* The send never blocks: a full queue loses the event and counts it.      *)
EnqueueSend ==
  /\ key_pc = "send"
  /\ key_pc' = "idle" /\ key_event' = 0
  /\ \/ /\ Len(s_key_event_queue) < MICRO_ROS_KEY_QUEUE_LENGTH
        /\ s_key_event_queue' = Append(s_key_event_queue, key_event)
        /\ UNCHANGED s_key_drop_count
     \/ /\ Len(s_key_event_queue) >= MICRO_ROS_KEY_QUEUE_LENGTH
        /\ s_key_drop_count' = s_key_drop_count + 1
        /\ UNCHANGED s_key_event_queue
  /\ UNCHANGED <<pc, stage, ents, conn, led_cmd, presses, world, history>>

(* The PC starts, stops, is plugged in or unplugged.                       *)
AgentChanges ==
  /\ agentUp' = ~agentUp
  /\ UNCHANGED <<pc, stage, ents, conn, led_cmd, keyq, keyTask,
                 transportStuck, history>>

(* A DMA error while a message is sent: UART_DMAError also makes the       *)
(* receiver READY and leaves its channel running.  The session under way   *)
(* goes on, but HAL_UART_DMAStop now leaves that channel alone, so every   *)
(* later HAL_UART_Receive_DMA finds it busy (OpenRefused in DmaTransport). *)
(* Nothing is sent between a lost agent and the release of the entities.   *)
TransmitDmaError ==
  /\ pc \in Running \union {"wait", "create", "fini"}
  /\ transportStuck' = TRUE
  /\ UNCHANGED <<pc, stage, ents, conn, led_cmd, keyq, keyTask, agentUp,
                 history>>

-----------------------------------------------------------------------------
MicroRosStep ==
  \/ WaitAgentPing \/ CreateEntity \/ CreateFails \/ CreateDone
  \/ FiniEntity \/ FiniDone
  \/ Spin \/ PublishKeyEvent \/ ProcessTimeSync \/ PublishStatus
  \/ HealthPing \/ HealthNotDue
  \/ Disconnect \/ ResetKeyQueue \/ ReleaseLeds

KeyTaskStep == EnqueueRefused \/ EnqueueAllowed \/ EnqueueSend

Next == MicroRosStep \/ KeyTaskStep \/ AgentChanges \/ TransmitDmaError
=============================================================================
