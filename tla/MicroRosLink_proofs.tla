------------------------- MODULE MicroRosLink_proofs -------------------------
(***************************************************************************)
(* Proofs about the micro-ROS link, for every queue length, failure limit  *)
(* and number of events.                                                   *)
(***************************************************************************)
EXTENDS MicroRosLink, SequenceTheorems, TLAPS

(* The conditions TypeOK consists of, in two parts.                        *)
BooleansOK ==
  /\ s_agent_connected \in BOOLEAN
  /\ s_time_synced \in BOOLEAN /\ s_sync_pending \in BOOLEAN
  /\ agentUp \in BOOLEAN /\ transportStuck \in BOOLEAN

DataOK ==
  /\ pc \in Steps /\ stage \in 1 .. Len(CreateOrder) + 1
  /\ flags \subseteq Entities /\ allocated \subseteq Entities
  /\ ping_failure_count \in 0 .. MICRO_ROS_AGENT_FAILURE_LIMIT
  /\ answers \in 0 .. MaxAnswers
  /\ led_cmd \in {"none", "remote", "release"}
  /\ s_key_event_queue \in Seq(1 .. MaxPresses)
  /\ Len(s_key_event_queue) <= MICRO_ROS_KEY_QUEUE_LENGTH
  /\ s_key_drop_count \in 0 .. MaxPresses
  /\ key_pc \in {"idle", "send"} /\ key_event \in 0 .. MaxPresses
  /\ presses \in 0 .. MaxPresses /\ cut \in 0 .. MaxPresses
  /\ published \subseteq 1 .. MaxPresses

(* What they need to be inductive: a running task is below the failure     *)
(* limit, an event in the key task's hand is the newest one, and each of   *)
(* the events counted as lost is another one.                              *)
TypeInv ==
  /\ DataOK
  /\ pc \in Running => ping_failure_count < MICRO_ROS_AGENT_FAILURE_LIMIT
  /\ pc = "fini" => stage <= Len(FiniOrder) + 1
  /\ key_pc = "send" => key_event = presses /\ presses >= 1
  /\ s_key_drop_count <= presses
  /\ key_pc = "send" => s_key_drop_count < presses
  /\ cut <= presses

(* The two orders have nine and seven entries.                             *)
LEMMA OrderLengths == Len(CreateOrder) = 9 /\ Len(FiniOrder) = 7
BY DEF CreateOrder, FiniOrder

LEMMA BooleansNext == BooleansOK /\ [Next]_vars => BooleansOK'
<1> SUFFICES ASSUME BooleansOK, [Next]_vars PROVE BooleansOK'
  OBVIOUS
<1> USE DEF BooleansOK, world
<1>1. CASE WaitAgentPing
  BY <1>1 DEF WaitAgentPing, keyq, keyTask, history
<1>2. CASE CreateEntity
  BY <1>2 DEF CreateEntity, conn, keyq, keyTask, history
<1>3. CASE CreateFails
  BY <1>3 DEF CreateFails, ents, conn, keyq, keyTask, history
<1>4. CASE CreateDone
  BY <1>4 DEF CreateDone, ents, keyq, keyTask, history
<1>5. CASE FiniEntity
  BY <1>5 DEF FiniEntity, conn, keyq, keyTask, history
<1>6. CASE FiniDone
  BY <1>6 DEF FiniDone, keyq, keyTask, history
<1>7. CASE Spin
  BY <1>7 DEF Spin, ents, keyq, keyTask, history
<1>8. CASE PublishKeyEvent
  BY <1>8 DEF PublishKeyEvent, ents, conn, keyTask
<1>9. CASE ProcessTimeSync
  BY <1>9 DEF ProcessTimeSync, ents, keyq, keyTask, history
<1>10. CASE PublishStatus
  BY <1>10 DEF PublishStatus, ents, conn, keyq, keyTask, history
<1>11. CASE HealthPing
  BY <1>11 DEF HealthPing, ents, keyq, keyTask, history
<1>12. CASE HealthNotDue
  BY <1>12 DEF HealthNotDue, ents, conn, keyq, keyTask, history
<1>13. CASE Disconnect
  BY <1>13 DEF Disconnect, ents, keyq, keyTask
<1>14. CASE ResetKeyQueue
  BY <1>14 DEF ResetKeyQueue, ents, conn, keyTask, history
<1>15. CASE ReleaseLeds
  BY <1>15 DEF ReleaseLeds, ents, conn, keyq, keyTask, history
<1>16. CASE EnqueueRefused
  BY <1>16 DEF EnqueueRefused, ents, conn, keyq, history
<1>17. CASE EnqueueAllowed
  BY <1>17 DEF EnqueueAllowed, ents, conn, keyq, history
<1>18. CASE EnqueueSend
  BY <1>18 DEF EnqueueSend, ents, conn, history
<1>19. CASE AgentChanges
  BY <1>19 DEF AgentChanges, ents, conn, keyq, keyTask, history
<1>20. CASE UNCHANGED vars
  BY <1>20 DEF vars, ents, conn, keyq, keyTask, history
<1>21. CASE TransmitDmaError
  BY <1>21 DEF TransmitDmaError, ents, conn, keyq, keyTask, history
<1> QED
  BY <1>1, <1>2, <1>3, <1>4, <1>5, <1>6, <1>7, <1>8, <1>9, <1>10, <1>11,
     <1>12, <1>13, <1>14, <1>15, <1>16, <1>17, <1>18, <1>19, <1>20, <1>21
  DEF Next, MicroRosStep, KeyTaskStep

LEMMA TypeInvNext == TypeInv /\ [Next]_vars => TypeInv'
<1> SUFFICES ASSUME TypeInv, [Next]_vars PROVE TypeInv'
  OBVIOUS
<1> USE MicroRosAssumption, OrderLengths DEF TypeInv, DataOK, Steps, Running
<1>1. CASE WaitAgentPing
  BY <1>1 DEF WaitAgentPing, keyq, keyTask, history
<1>2. CASE CreateEntity
  BY <1>2 DEF CreateEntity, conn, keyq, keyTask, history
<1>3. CASE CreateFails
  BY <1>3 DEF CreateFails, ents, conn, keyq, keyTask, history
<1>4. CASE CreateDone
  BY <1>4 DEF CreateDone, ents, keyq, keyTask, history
<1>5. CASE FiniEntity
  BY <1>5 DEF FiniEntity, conn, keyq, keyTask, history
<1>6. CASE FiniDone
  BY <1>6 DEF FiniDone, keyq, keyTask, history
<1>7. CASE Spin
  <2>1. answers' \in 0 .. MaxAnswers
    <3>1. CASE UNCHANGED <<s_time_synced, s_sync_pending, answers>>
      BY <3>1
    <3>2. CASE answers > 0 /\ answers' = answers - 1
      BY <3>2
    <3> QED
      BY <1>7, <3>1, <3>2, Zenon DEF Spin
  <2>2. led_cmd' \in {"none", "remote", "release"}
    BY <1>7 DEF Spin
  <2>3. /\ pc = "spin" /\ pc' = "keys"
        /\ UNCHANGED <<stage, ents, ping_failure_count, keyq, keyTask, history>>
    BY <1>7 DEF Spin
  <2> QED
    BY <2>1, <2>2, <2>3 DEF ents, keyq, keyTask, history
<1>8. CASE PublishKeyEvent
  <2>1. CASE s_key_event_queue = <<>>
    BY <1>8, <2>1 DEF PublishKeyEvent, ents, conn, keyTask
  <2>2. CASE s_key_event_queue # <<>>
    <3>1. /\ Head(s_key_event_queue) \in 1 .. MaxPresses
          /\ Tail(s_key_event_queue) \in Seq(1 .. MaxPresses)
          /\ Len(Tail(s_key_event_queue)) = Len(s_key_event_queue) - 1
      BY <2>2, HeadTailProperties
    <3>2. published' \subseteq 1 .. MaxPresses
      BY <1>8, <2>2, <3>1 DEF PublishKeyEvent
    <3>3. s_key_event_queue' = Tail(s_key_event_queue)
      BY <1>8, <2>2, Zenon DEF PublishKeyEvent
    <3>4. UNCHANGED <<pc, stage, ents, conn, led_cmd, s_key_drop_count,
                      keyTask, cut>>
      BY <1>8, <2>2 DEF PublishKeyEvent
    <3> QED
      BY <3>1, <3>2, <3>3, <3>4 DEF ents, conn, keyTask
  <2> QED
    BY <2>1, <2>2
<1>9. CASE ProcessTimeSync
  BY <1>9 DEF ProcessTimeSync, ents, keyq, keyTask, history
<1>10. CASE PublishStatus
  BY <1>10 DEF PublishStatus, ents, conn, keyq, keyTask, history
<1>11. CASE HealthPing
  BY <1>11 DEF HealthPing, ents, keyq, keyTask, history
<1>12. CASE HealthNotDue
  BY <1>12 DEF HealthNotDue, ents, conn, keyq, keyTask, history
<1>13. CASE Disconnect
  BY <1>13 DEF Disconnect, ents, keyq, keyTask
<1>14. CASE ResetKeyQueue
  BY <1>14 DEF ResetKeyQueue, ents, conn, keyTask, history
<1>15. CASE ReleaseLeds
  BY <1>15 DEF ReleaseLeds, ents, conn, keyq, keyTask, history
<1>16. CASE EnqueueRefused
  BY <1>16 DEF EnqueueRefused, ents, conn, keyq, history
<1>17. CASE EnqueueAllowed
  BY <1>17 DEF EnqueueAllowed, ents, conn, keyq, history
<1>18. CASE EnqueueSend
  <2>1. key_event \in 1 .. MaxPresses
    BY <1>18 DEF EnqueueSend
  <2>2. /\ s_key_event_queue' \in Seq(1 .. MaxPresses)
        /\ Len(s_key_event_queue') <= MICRO_ROS_KEY_QUEUE_LENGTH
    <3>1. CASE UNCHANGED s_key_event_queue
      BY <3>1
    <3>2. CASE /\ Len(s_key_event_queue) < MICRO_ROS_KEY_QUEUE_LENGTH
               /\ s_key_event_queue' = Append(s_key_event_queue, key_event)
      BY <2>1, <3>2, AppendProperties
    <3> QED
      BY <1>18, <3>1, <3>2 DEF EnqueueSend
  <2>3. s_key_drop_count' \in 0 .. MaxPresses /\ s_key_drop_count' <= presses
    BY <1>18 DEF EnqueueSend
  <2>4. /\ key_pc' = "idle" /\ key_event' = 0
        /\ UNCHANGED <<pc, stage, flags, allocated, ping_failure_count,
                       answers, led_cmd, presses, cut, published>>
    BY <1>18 DEF EnqueueSend, ents, conn, history
  <2>5. DataOK'
    BY <2>2, <2>3, <2>4
  <2> QED
    BY <2>3, <2>4, <2>5
<1>19. CASE AgentChanges
  BY <1>19 DEF AgentChanges, ents, conn, keyq, keyTask, history
<1>20. CASE UNCHANGED vars
  BY <1>20 DEF vars, ents, conn, keyq, keyTask, history
<1>21. CASE TransmitDmaError
  BY <1>21 DEF TransmitDmaError, ents, conn, keyq, keyTask, history
<1> QED
  BY <1>1, <1>2, <1>3, <1>4, <1>5, <1>6, <1>7, <1>8, <1>9, <1>10, <1>11,
     <1>12, <1>13, <1>14, <1>15, <1>16, <1>17, <1>18, <1>19, <1>20, <1>21
  DEF Next, MicroRosStep, KeyTaskStep

(* Type correctness of the micro-ROS link.                                 *)
THEOREM TypeCorrect == Spec => []TypeOK
<1>1. Init => BooleansOK /\ TypeInv
  <2>1. Init => BooleansOK
    BY DEF Init, BooleansOK
  <2>2. Init => TypeInv
    BY MicroRosAssumption, OrderLengths
    DEF Init, TypeInv, DataOK, Steps, Running
  <2> QED
    BY <2>1, <2>2
<1>2. BooleansOK /\ TypeInv => TypeOK
  BY DEF TypeInv, DataOK, BooleansOK, TypeOK
<1> QED
  BY BooleansNext, TypeInvNext, <1>1, <1>2, PTL DEF Spec

-----------------------------------------------------------------------------
(* Entities.                                                               *)

Made(n) == {CreateOrder[i] : i \in 1 .. n - 1}
Freed(n) == {FiniOrder[i] : i \in 1 .. n - 1}
Closed(S) == \A e \in S : Uses[e] \subseteq S

(* What is flagged and allocated at each step of the task.  The flags are  *)
(* at all times a set that could have been created, which is what the      *)
(* order of release relies on after a creation that failed half way.       *)
EntityInv ==
  /\ pc = "wait" => allocated = {}
  /\ pc = "create" => flags = allocated /\ flags = Made(stage) \intersect Entities
  /\ pc \in Running \union {"disconnect", "reset", "release"} =>
       flags = Entities /\ allocated = Entities
  /\ pc = "fini" => allocated = flags \ Freed(stage)
  /\ Closed(flags)
  /\ s_agent_connected => pc \in Running \union {"disconnect"}

(* An entity is created after what it needs, and released before it.       *)
LEMMA CreateRespectsUses ==
  \A k \in 1 .. 9 :
    CreateOrder[k] \in Entities => Uses[CreateOrder[k]] \subseteq Made(k)
<1> SUFFICES ASSUME NEW k \in 1 .. 9, CreateOrder[k] \in Entities
             PROVE  Uses[CreateOrder[k]] \subseteq Made(k)
  OBVIOUS
<1>1. k = 1 \/ k = 2 \/ k \in 3 .. 7
  BY DEF CreateOrder, Entities
<1>2. CASE k = 1
  BY <1>2 DEF CreateOrder, Entities, Uses
<1>3. CASE k = 2
  BY <1>3 DEF CreateOrder, Entities, Uses, Made
<1>4. CASE k \in 3 .. 7
  <2>1. "support" \in Made(k) /\ "node" \in Made(k)
    BY <1>4 DEF CreateOrder, Made
  <2>2. Uses[CreateOrder[k]] \subseteq {"support", "node"}
    BY DEF Uses
  <2> QED
    BY <2>1, <2>2
<1> QED
  BY <1>1, <1>2, <1>3, <1>4

LEMMA FiniRespectsUses ==
  \A k \in 1 .. 7 : \A e \in Entities :
    FiniOrder[k] \in Uses[e] => e \in Freed(k)
<1> SUFFICES ASSUME NEW k \in 1 .. 7, NEW e \in Entities,
                    FiniOrder[k] \in Uses[e]
             PROVE  e \in Freed(k)
  OBVIOUS
<1>1. CASE k \in 1 .. 5
  BY <1>1 DEF FiniOrder, Uses
<1>2. CASE k = 6
  <2>1. e \in {"key_pub", "status_pub", "led_cmd_sub", "sync_client"}
    BY <1>2 DEF FiniOrder, Uses, Entities
  <2> QED
    BY <1>2, <2>1 DEF FiniOrder, Freed
<1>3. CASE k = 7
  <2>1. e \in {"node", "executor"}
    BY <1>3 DEF FiniOrder, Uses, Entities
  <2> QED
    BY <1>3, <2>1 DEF FiniOrder, Freed
<1> QED
  BY <1>1, <1>2, <1>3

LEMMA OrdersCoverEntities ==
  Entities \subseteq Made(10) /\ Entities \subseteq Freed(8)
BY DEF Entities, Made, Freed, CreateOrder, FiniOrder

LEMMA EntityInvNext == TypeInv /\ EntityInv /\ [Next]_vars => EntityInv'
<1> SUFFICES ASSUME TypeInv, EntityInv, [Next]_vars PROVE EntityInv'
  OBVIOUS
<1> USE OrderLengths DEF EntityInv, Running
<1>0. /\ stage \in 1 .. 10 /\ flags \subseteq Entities
      /\ pc = "fini" => stage <= 8
  BY DEF TypeInv, DataOK
<1> USE <1>0
<1>1. CASE WaitAgentPing
  <2>1. CASE pc' = "create" /\ stage' = 1 /\ flags' = {}
    BY <1>1, <2>1 DEF WaitAgentPing, Made, Closed
  <2>2. CASE UNCHANGED <<pc, stage, flags>>
    BY <1>1, <2>2 DEF WaitAgentPing
  <2> QED
    BY <1>1, <2>1, <2>2 DEF WaitAgentPing
<1>2. CASE CreateEntity
  <2>1. stage \in 1 .. 9 /\ stage' = stage + 1
    BY <1>2 DEF CreateEntity
  <2>2. Made(stage + 1) = Made(stage) \union {CreateOrder[stage]}
    BY <2>1 DEF Made
  <2>3. flags' = Made(stage') \intersect Entities /\ allocated' = flags'
    BY <1>2, <2>1, <2>2 DEF CreateEntity
  <2>4. Closed(flags')
    <3> SUFFICES ASSUME NEW e \in flags' PROVE Uses[e] \subseteq flags'
      BY DEF Closed
    <3>1. CASE e \in flags
      BY <1>2, <3>1 DEF CreateEntity, Closed
    <3>2. CASE e = CreateOrder[stage] /\ e \in Entities
      <4>1. Uses[e] \subseteq Made(stage)
        BY <2>1, <3>2, CreateRespectsUses
      <4>2. Uses[e] \subseteq Entities
        BY <3>2 DEF Uses, Entities
      <4> QED
        BY <1>2, <4>1, <4>2 DEF CreateEntity
    <3> QED
      BY <1>2, <3>1, <3>2 DEF CreateEntity
  <2>5. pc' = "create" /\ s_agent_connected' = s_agent_connected
    BY <1>2 DEF CreateEntity, conn
  <2> QED
    BY <1>2, <2>3, <2>4, <2>5 DEF CreateEntity
<1>3. CASE CreateFails
  <2>1. Freed(1) = {}
    BY DEF Freed
  <2> QED
    BY <1>3, <2>1 DEF CreateFails, ents, conn
<1>4. CASE CreateDone
  <2>1. stage = 10
    BY <1>4 DEF CreateDone
  <2> QED
    BY <1>4, <2>1, OrdersCoverEntities DEF CreateDone, ents
<1>5. CASE FiniEntity
  <2>1. stage \in 1 .. 7 /\ stage' = stage + 1
    BY <1>5 DEF FiniEntity
  <2>2. Freed(stage + 1) = Freed(stage) \union {FiniOrder[stage]}
    BY <2>1 DEF Freed
  <2> QED
    BY <1>5, <2>1, <2>2 DEF FiniEntity, conn
<1>6. CASE FiniDone
  <2>1. stage = 8
    BY <1>6 DEF FiniDone
  <2> QED
    BY <1>6, <2>1, OrdersCoverEntities DEF FiniDone, Closed
<1>7. CASE Spin
  BY <1>7 DEF Spin, ents
<1>8. CASE PublishKeyEvent
  BY <1>8 DEF PublishKeyEvent, ents, conn
<1>9. CASE ProcessTimeSync
  BY <1>9 DEF ProcessTimeSync, ents
<1>10. CASE PublishStatus
  BY <1>10 DEF PublishStatus, ents, conn
<1>11. CASE HealthPing
  BY <1>11 DEF HealthPing, ents
<1>12. CASE HealthNotDue
  BY <1>12 DEF HealthNotDue, ents, conn
<1>13. CASE Disconnect
  BY <1>13 DEF Disconnect, ents
<1>14. CASE ResetKeyQueue
  BY <1>14 DEF ResetKeyQueue, ents, conn
<1>15. CASE ReleaseLeds
  <2>1. Freed(1) = {}
    BY DEF Freed
  <2> QED
    BY <1>15, <2>1 DEF ReleaseLeds, ents, conn
<1>16. CASE EnqueueRefused
  BY <1>16 DEF EnqueueRefused, ents, conn
<1>17. CASE EnqueueAllowed
  BY <1>17 DEF EnqueueAllowed, ents, conn
<1>18. CASE EnqueueSend
  BY <1>18 DEF EnqueueSend, ents, conn
<1>19. CASE AgentChanges
  BY <1>19 DEF AgentChanges, ents, conn
<1>20. CASE UNCHANGED vars
  BY <1>20 DEF vars, ents, conn
<1>21. CASE TransmitDmaError
  BY <1>21 DEF TransmitDmaError, ents, conn
<1> QED
  BY <1>1, <1>2, <1>3, <1>4, <1>5, <1>6, <1>7, <1>8, <1>9, <1>10, <1>11,
     <1>12, <1>13, <1>14, <1>15, <1>16, <1>17, <1>18, <1>19, <1>20, <1>21
  DEF Next, MicroRosStep, KeyTaskStep

LEMMA EntityInvSafe ==
  TypeInv /\ EntityInv => EntitiesMatchState /\ DependenciesAlive
<1> SUFFICES ASSUME TypeInv, EntityInv
             PROVE  EntitiesMatchState /\ DependenciesAlive
  OBVIOUS
<1> USE DEF EntityInv, Running
<1>1. EntitiesMatchState
  BY DEF EntitiesMatchState
<1>2. DependenciesAlive
  <2>1. CASE pc = "fini"
    <3> SUFFICES ASSUME NEW e \in allocated, NEW u \in Uses[e]
                 PROVE  u \in allocated
      BY DEF DependenciesAlive
    <3>1. e \in flags /\ e \notin Freed(stage) /\ e \in Entities
      BY <2>1 DEF TypeInv, DataOK
    <3>2. u \in flags
      BY <3>1 DEF Closed
    <3>3. u \notin Freed(stage)
      <4> SUFFICES ASSUME u \in Freed(stage) PROVE FALSE
        OBVIOUS
      <4>1. stage \in 1 .. 8
        BY <2>1, OrderLengths DEF TypeInv, DataOK
      <4>2. PICK i \in 1 .. stage - 1 : u = FiniOrder[i]
        BY DEF Freed
      <4>3. e \in Freed(i)
        BY <3>1, <4>1, <4>2, FiniRespectsUses
      <4>4. Freed(i) \subseteq Freed(stage)
        BY <4>1 DEF Freed
      <4> QED
        BY <3>1, <4>3, <4>4
    <3> QED
      BY <2>1, <3>2, <3>3
  <2>2. CASE pc = "wait"
    BY <2>2 DEF DependenciesAlive
  <2>3. CASE pc \notin {"fini", "wait"}
    <3>1. allocated = flags
      BY <2>3 DEF TypeInv, DataOK, Steps
    <3> QED
      BY <3>1 DEF DependenciesAlive, Closed
  <2> QED
    BY <2>1, <2>2, <2>3
<1> QED
  BY <1>1, <1>2

LEMMA TypeInvAlways == Spec => []TypeInv
<1>1. Init => TypeInv
  BY MicroRosAssumption, OrderLengths
  DEF Init, TypeInv, DataOK, Steps, Running
<1> QED
  BY <1>1, TypeInvNext, PTL DEF Spec

LEMMA EntityInvAlways == Spec => []EntityInv
<1>1. Init => EntityInv
  BY DEF Init, EntityInv, Running, Closed
<1> QED
  BY <1>1, TypeInvAlways, EntityInvNext, PTL DEF Spec

(* The entities that exist match the task's state, whatever creation step  *)
(* failed before.                                                          *)
THEOREM EntitiesSafe == Spec => []EntitiesMatchState
BY TypeInvAlways, EntityInvAlways, EntityInvSafe, PTL

(* Each entity has what it needs as long as it exists, in every step of a  *)
(* creation, a rollback and a release.                                     *)
THEOREM DependenciesKept == Spec => []DependenciesAlive
BY TypeInvAlways, EntityInvAlways, EntityInvSafe, PTL

-----------------------------------------------------------------------------
(* Key events.                                                             *)

(* Events are numbered as they are recognised, so a new one is the last.   *)
OrderInv ==
  /\ OrderedReporting
  /\ \A e \in Queued \union published : e <= presses

(* The steps that neither touch the queue, the hand nor the history.       *)
QueueUntouched ==
  UNCHANGED <<s_key_event_queue, key_pc, key_event, presses, cut, published>>

LEMMA EventsTyped ==
  ASSUME TypeInv
  PROVE  /\ presses \in Nat /\ cut \in Nat /\ key_event \in Nat
         /\ cut <= presses
         /\ s_key_event_queue \in Seq(1 .. MaxPresses)
         /\ Queued \subseteq Nat /\ published \subseteq Nat
         /\ key_pc = "send" => key_event = presses
<1>1. \A i \in 1 .. Len(s_key_event_queue) :
        s_key_event_queue[i] \in 1 .. MaxPresses
  BY ElementOfSeq DEF TypeInv, DataOK
<1>2. Queued \subseteq Nat
  BY <1>1 DEF Queued
<1> QED
  BY <1>2, MicroRosAssumption DEF TypeInv, DataOK

(* A send appends the event in hand, or loses it.                          *)
LEMMA SendStep ==
  ASSUME TypeInv, EnqueueSend
  PROVE  /\ InHand' = {} /\ InHand = {key_event}
         /\ \/ s_key_event_queue' = s_key_event_queue
            \/ /\ Len(s_key_event_queue') = Len(s_key_event_queue) + 1
               /\ \A i \in 1 .. Len(s_key_event_queue) :
                    s_key_event_queue'[i] = s_key_event_queue[i]
               /\ s_key_event_queue'[Len(s_key_event_queue) + 1] = key_event
         /\ Queued' \subseteq Queued \union {key_event}
         /\ UNCHANGED <<pc, presses, cut, published>>
         /\ s_key_event_queue' \in Seq(1 .. MaxPresses)
<1>1. /\ s_key_event_queue \in Seq(1 .. MaxPresses)
      /\ key_event \in 1 .. MaxPresses
  BY DEF TypeInv, DataOK, EnqueueSend
<1>2. InHand' = {} /\ InHand = {key_event}
  BY DEF EnqueueSend, InHand
<1>3. UNCHANGED <<pc, presses, cut, published>>
  BY DEF EnqueueSend, history
<1>4. CASE UNCHANGED s_key_event_queue
  BY <1>1, <1>2, <1>3, <1>4 DEF Queued
<1>5. CASE s_key_event_queue' = Append(s_key_event_queue, key_event)
  <2>1. /\ Len(s_key_event_queue') = Len(s_key_event_queue) + 1
        /\ \A i \in 1 .. Len(s_key_event_queue) :
             s_key_event_queue'[i] = s_key_event_queue[i]
        /\ s_key_event_queue'[Len(s_key_event_queue) + 1] = key_event
        /\ s_key_event_queue' \in Seq(1 .. MaxPresses)
    BY <1>1, <1>5, AppendProperties
  <2>2. Queued' \subseteq Queued \union {key_event}
    BY <1>1, <2>1 DEF Queued
  <2> QED
    BY <1>2, <1>3, <2>1, <2>2
<1> QED
  BY <1>4, <1>5 DEF EnqueueSend

(* One turn of the publishing loop takes the queue's head, if it has one.  *)
LEMMA PublishStep ==
  ASSUME TypeInv, PublishKeyEvent
  PROVE  /\ UNCHANGED <<key_pc, key_event, presses, cut>>
         /\ pc = "keys" /\ pc' # "reset"
         /\ Queued' \subseteq Queued
         /\ \/ UNCHANGED <<s_key_event_queue, published>>
            \/ /\ s_key_event_queue # <<>>
               /\ s_key_event_queue' \in Seq(1 .. MaxPresses)
               /\ Len(s_key_event_queue') = Len(s_key_event_queue) - 1
               /\ \A i \in 1 .. Len(s_key_event_queue') :
                    s_key_event_queue'[i] = s_key_event_queue[i + 1]
               /\ published' \subseteq published \union {s_key_event_queue[1]}
<1>1. s_key_event_queue \in Seq(1 .. MaxPresses)
  BY DEF TypeInv, DataOK
<1>2. UNCHANGED <<key_pc, key_event, presses, cut>> /\ pc = "keys" /\ pc' # "reset"
  BY DEF PublishKeyEvent, keyTask
<1>3. CASE s_key_event_queue = <<>>
  <2>1. UNCHANGED <<s_key_event_queue, published>>
    BY <1>3 DEF PublishKeyEvent
  <2> QED
    BY <1>2, <2>1 DEF Queued
<1>4. CASE s_key_event_queue # <<>>
  <2>1. s_key_event_queue' = Tail(s_key_event_queue)
    BY <1>4, Zenon DEF PublishKeyEvent
  <2>2. published' \subseteq published \union {Head(s_key_event_queue)}
    BY <1>4 DEF PublishKeyEvent
  <2>3. /\ s_key_event_queue' \in Seq(1 .. MaxPresses)
        /\ Len(s_key_event_queue') = Len(s_key_event_queue) - 1
        /\ \A i \in 1 .. Len(s_key_event_queue') :
             s_key_event_queue'[i] = s_key_event_queue[i + 1]
    BY <1>1, <1>4, <2>1, HeadTailProperties
  <2>4. Queued' \subseteq Queued
    BY <1>1, <2>3 DEF Queued
  <2>5. Head(s_key_event_queue) = s_key_event_queue[1]
    BY <1>1, <1>4
  <2> QED
    BY <1>2, <1>4, <2>2, <2>3, <2>4, <2>5
<1> QED
  BY <1>3, <1>4

(* Every other step leaves them alone, numbers a new event or empties the  *)
(* queue; the number of ended sessions' events moves only to presses.      *)
LEMMA OtherSteps ==
  ASSUME TypeInv, [Next]_vars, ~PublishKeyEvent, ~EnqueueSend
  PROVE  \/ QueueUntouched /\ (pc' # "reset" => pc # "reset")
         \/ EnqueueRefused \/ EnqueueAllowed \/ Disconnect \/ ResetKeyQueue
<1> USE DEF QueueUntouched
<1>1. CASE WaitAgentPing
  BY <1>1 DEF WaitAgentPing, keyq, keyTask, history
<1>2. CASE CreateEntity
  BY <1>2 DEF CreateEntity, keyq, keyTask, history
<1>3. CASE CreateFails
  BY <1>3 DEF CreateFails, keyq, keyTask, history
<1>4. CASE CreateDone
  BY <1>4 DEF CreateDone, keyq, keyTask, history
<1>5. CASE FiniEntity
  BY <1>5 DEF FiniEntity, keyq, keyTask, history
<1>6. CASE FiniDone
  BY <1>6 DEF FiniDone, keyq, keyTask, history
<1>7. CASE Spin
  BY <1>7 DEF Spin, keyq, keyTask, history
<1>8. CASE PublishKeyEvent
  BY <1>8
<1>9. CASE ProcessTimeSync
  BY <1>9 DEF ProcessTimeSync, keyq, keyTask, history
<1>10. CASE PublishStatus
  BY <1>10 DEF PublishStatus, keyq, keyTask, history
<1>11. CASE HealthPing
  BY <1>11 DEF HealthPing, keyq, keyTask, history
<1>12. CASE HealthNotDue
  BY <1>12 DEF HealthNotDue, keyq, keyTask, history
<1>13. CASE Disconnect
  BY <1>13
<1>14. CASE ResetKeyQueue
  BY <1>14
<1>15. CASE ReleaseLeds
  BY <1>15 DEF ReleaseLeds, keyq, keyTask, history
<1>16. CASE EnqueueRefused
  BY <1>16
<1>17. CASE EnqueueAllowed
  BY <1>17
<1>18. CASE EnqueueSend
  BY <1>18
<1>19. CASE AgentChanges
  BY <1>19 DEF AgentChanges, keyq, keyTask, history
<1>20. CASE UNCHANGED vars
  BY <1>20 DEF vars, keyq, keyTask, history
<1>21. CASE TransmitDmaError
  BY <1>21 DEF TransmitDmaError, keyq, keyTask, history
<1> QED
  BY <1>1, <1>2, <1>3, <1>4, <1>5, <1>6, <1>7, <1>8, <1>9, <1>10, <1>11,
     <1>12, <1>13, <1>14, <1>15, <1>16, <1>17, <1>18, <1>19, <1>20, <1>21
  DEF Next, MicroRosStep, KeyTaskStep

LEMMA OrderInvNext == TypeInv /\ OrderInv /\ [Next]_vars => OrderInv'
<1> SUFFICES ASSUME TypeInv, OrderInv, [Next]_vars PROVE OrderInv'
  OBVIOUS
<1> USE EventsTyped DEF OrderInv, OrderedReporting
<1>1. CASE PublishKeyEvent
  <2> USE PublishStep, <1>1
  <2>1. InHand' = InHand
    BY DEF InHand
  <2>2. CASE UNCHANGED <<s_key_event_queue, published>>
    BY <2>1, <2>2 DEF Queued
  <2>3. CASE /\ s_key_event_queue # <<>>
             /\ s_key_event_queue' \in Seq(1 .. MaxPresses)
             /\ Len(s_key_event_queue') = Len(s_key_event_queue) - 1
             /\ \A i \in 1 .. Len(s_key_event_queue') :
                  s_key_event_queue'[i] = s_key_event_queue[i + 1]
             /\ published' \subseteq published \union {s_key_event_queue[1]}
    <3>1. s_key_event_queue[1] \in Queued
      BY <2>3 DEF Queued
    <3>2. \A e \in Queued' : s_key_event_queue[1] < e
      <4> SUFFICES ASSUME NEW e \in Queued' PROVE s_key_event_queue[1] < e
        OBVIOUS
      <4>1. PICK i \in 1 .. Len(s_key_event_queue') : e = s_key_event_queue'[i]
        BY DEF Queued
      <4>2. /\ 1 \in 1 .. Len(s_key_event_queue) /\ 1 < i + 1
            /\ i + 1 \in 1 .. Len(s_key_event_queue)
        BY <2>3
      <4>3. e = s_key_event_queue[i + 1]
        BY <2>3, <4>1
      <4> QED
        BY <4>2, <4>3
    <3>3. \A i, j \in 1 .. Len(s_key_event_queue') :
            i < j => s_key_event_queue'[i] < s_key_event_queue'[j]
      BY <2>3
    <3> QED
      BY <2>1, <2>3, <3>1, <3>2, <3>3
  <2> QED
    BY <2>2, <2>3
<1>2. CASE EnqueueSend
  <2> USE SendStep, <1>2
  <2>1. \A i, j \in 1 .. Len(s_key_event_queue') :
          i < j => s_key_event_queue'[i] < s_key_event_queue'[j]
    <3>1. \A q \in Queued : q < key_event
      OBVIOUS
    <3> QED
      BY <3>1 DEF Queued
  <2>2. Queued' \subseteq Queued \union InHand /\ InHand' = {}
    OBVIOUS
  <2>3. key_event <= presses
    BY DEF EnqueueSend
  <2> QED
    BY <2>1, <2>2, <2>3
<1>3. CASE QueueUntouched
  <2>1. Queued' = Queued /\ InHand' = InHand
    BY <1>3 DEF QueueUntouched, Queued, InHand
  <2>2. UNCHANGED <<s_key_event_queue, presses, published>>
    BY <1>3 DEF QueueUntouched
  <2> QED
    BY <2>1, <2>2
<1>4. CASE EnqueueRefused
  <2>1. Queued' = Queued /\ InHand' = InHand
    BY <1>4 DEF EnqueueRefused, keyq, Queued, InHand
  <2>2. UNCHANGED <<s_key_event_queue, published>> /\ presses' = presses + 1
    BY <1>4 DEF EnqueueRefused, keyq, history
  <2> QED
    BY <2>1, <2>2
<1>5. CASE EnqueueAllowed
  <2>1. Queued' = Queued /\ InHand' = {presses + 1} /\ presses' = presses + 1
    BY <1>5 DEF EnqueueAllowed, keyq, Queued, InHand
  <2>2. UNCHANGED <<s_key_event_queue, published>>
    BY <1>5 DEF EnqueueAllowed, keyq, history
  <2> QED
    BY <2>1, <2>2
<1>6. CASE Disconnect
  BY <1>6 DEF Disconnect, keyq, keyTask, Queued, InHand
<1>7. CASE ResetKeyQueue
  <2>1. Queued' = {} /\ Len(s_key_event_queue') = 0
    BY <1>7 DEF ResetKeyQueue, Queued
  <2>2. InHand' = InHand /\ UNCHANGED <<presses, published>>
    BY <1>7 DEF ResetKeyQueue, keyTask, history, InHand
  <2>3. \A i, j \in 1 .. Len(s_key_event_queue') :
          i < j => s_key_event_queue'[i] < s_key_event_queue'[j]
    BY <2>1
  <2> QED
    BY <2>1, <2>2, <2>3
<1> QED
  BY <1>1, <1>2, <1>3, <1>4, <1>5, <1>6, <1>7, OtherSteps

LEMMA StragglerNext ==
  TypeInv /\ AtMostOneStraggler /\ [Next]_vars => AtMostOneStraggler'
<1> SUFFICES ASSUME TypeInv, AtMostOneStraggler, [Next]_vars
             PROVE  AtMostOneStraggler'
  OBVIOUS
<1> USE EventsTyped DEF AtMostOneStraggler
<1>1. CASE PublishKeyEvent
  <2>1. InHand' = InHand /\ Queued' \subseteq Queued /\ cut' = cut /\ pc # "reset"
    BY <1>1, PublishStep DEF InHand
  <2> QED
    BY <2>1
<1>2. CASE EnqueueSend
  BY <1>2, SendStep
<1>3. CASE QueueUntouched /\ (pc' # "reset" => pc # "reset")
  BY <1>3 DEF QueueUntouched, Queued, InHand
<1>4. CASE EnqueueRefused
  BY <1>4 DEF EnqueueRefused, keyq, history, Queued, InHand
<1>5. CASE EnqueueAllowed
  <2>1. Queued' = Queued /\ InHand' = {presses + 1}
    BY <1>5 DEF EnqueueAllowed, keyq, Queued, InHand
  <2>2. UNCHANGED <<pc, cut>>
    BY <1>5 DEF EnqueueAllowed, history
  <2> QED
    BY <2>1, <2>2
<1>6. CASE Disconnect
  BY <1>6 DEF Disconnect
<1>7. CASE ResetKeyQueue
  <2>1. Queued' = {}
    BY <1>7 DEF ResetKeyQueue, Queued
  <2> QED
    BY <2>1 DEF InHand
<1> QED
  BY <1>1, <1>2, <1>3, <1>4, <1>5, <1>6, <1>7, OtherSteps

(* Events are reported in order and at most once, for every queue length,  *)
(* number of events and sequence of disconnections.                        *)
THEOREM ReportingOrdered == Spec => []OrderedReporting
<1>1. Init => OrderInv
  BY DEF Init, OrderInv, OrderedReporting, Queued, InHand
<1>2. OrderInv => OrderedReporting
  BY DEF OrderInv
<1> QED
  BY <1>1, <1>2, TypeInvAlways, OrderInvNext, PTL DEF Spec

(* However the two tasks are time-sliced, a disconnection leaves at most   *)
(* one event that a later session can replay.                              *)
THEOREM StragglerUnique == Spec => []AtMostOneStraggler
<1>1. Init => AtMostOneStraggler
  BY DEF Init, AtMostOneStraggler, Queued, InHand
<1> QED
  BY <1>1, TypeInvAlways, StragglerNext, PTL DEF Spec

-----------------------------------------------------------------------------
(* Remote control and time synchronisation.                                *)

(* The release made on the way out lasts through the release of the        *)
(* entities: no callback can run any more.                                 *)
ReleaseInv == pc \in {"wait", "create", "fini"} => led_cmd # "remote"

LEMMA ReleaseInvNext == ReleaseInv /\ [Next]_vars => ReleaseInv'
<1> SUFFICES ASSUME ReleaseInv, [Next]_vars PROVE ReleaseInv'
  OBVIOUS
<1> USE DEF ReleaseInv
<1>1. CASE WaitAgentPing
  BY <1>1 DEF WaitAgentPing
<1>2. CASE CreateEntity
  BY <1>2 DEF CreateEntity
<1>3. CASE CreateFails
  BY <1>3 DEF CreateFails
<1>4. CASE CreateDone
  BY <1>4 DEF CreateDone
<1>5. CASE FiniEntity
  BY <1>5 DEF FiniEntity
<1>6. CASE FiniDone
  BY <1>6 DEF FiniDone
<1>7. CASE Spin
  BY <1>7 DEF Spin
<1>8. CASE PublishKeyEvent
  BY <1>8 DEF PublishKeyEvent
<1>9. CASE ProcessTimeSync
  BY <1>9 DEF ProcessTimeSync
<1>10. CASE PublishStatus
  BY <1>10 DEF PublishStatus
<1>11. CASE HealthPing
  BY <1>11 DEF HealthPing
<1>12. CASE HealthNotDue
  BY <1>12 DEF HealthNotDue
<1>13. CASE Disconnect
  BY <1>13 DEF Disconnect
<1>14. CASE ResetKeyQueue
  BY <1>14 DEF ResetKeyQueue
<1>15. CASE ReleaseLeds
  BY <1>15 DEF ReleaseLeds
<1>16. CASE EnqueueRefused
  BY <1>16 DEF EnqueueRefused
<1>17. CASE EnqueueAllowed
  BY <1>17 DEF EnqueueAllowed
<1>18. CASE EnqueueSend
  BY <1>18 DEF EnqueueSend
<1>19. CASE AgentChanges
  BY <1>19 DEF AgentChanges
<1>20. CASE UNCHANGED vars
  BY <1>20 DEF vars
<1>21. CASE TransmitDmaError
  BY <1>21 DEF TransmitDmaError
<1> QED
  BY <1>1, <1>2, <1>3, <1>4, <1>5, <1>6, <1>7, <1>8, <1>9, <1>10, <1>11,
     <1>12, <1>13, <1>14, <1>15, <1>16, <1>17, <1>18, <1>19, <1>20, <1>21
  DEF Next, MicroRosStep, KeyTaskStep

(* A task that waits for the agent has taken the LEDs back from the PC.    *)
THEOREM LedsReleased == Spec => []ReleasedWhenWaiting
<1>1. Init => ReleaseInv
  BY DEF Init, ReleaseInv
<1>2. ReleaseInv => ReleasedWhenWaiting
  BY DEF ReleaseInv, ReleasedWhenWaiting
<1> QED
  BY <1>1, <1>2, ReleaseInvNext, PTL DEF Spec

LEMMA SyncedNext ==
  BooleansOK /\ SyncedNotPending /\ [Next]_vars => SyncedNotPending'
<1> SUFFICES ASSUME BooleansOK, SyncedNotPending, [Next]_vars
             PROVE  SyncedNotPending'
  OBVIOUS
<1> USE DEF BooleansOK, SyncedNotPending
<1>1. CASE WaitAgentPing
  BY <1>1 DEF WaitAgentPing
<1>2. CASE CreateEntity
  BY <1>2 DEF CreateEntity, conn
<1>3. CASE CreateFails
  BY <1>3 DEF CreateFails, conn
<1>4. CASE CreateDone
  BY <1>4 DEF CreateDone
<1>5. CASE FiniEntity
  BY <1>5 DEF FiniEntity, conn
<1>6. CASE FiniDone
  BY <1>6 DEF FiniDone
<1>7. CASE Spin
  BY <1>7 DEF Spin
<1>8. CASE PublishKeyEvent
  BY <1>8 DEF PublishKeyEvent, conn
<1>9. CASE ProcessTimeSync
  BY <1>9 DEF ProcessTimeSync
<1>10. CASE PublishStatus
  BY <1>10 DEF PublishStatus, conn
<1>11. CASE HealthPing
  BY <1>11 DEF HealthPing
<1>12. CASE HealthNotDue
  BY <1>12 DEF HealthNotDue, conn
<1>13. CASE Disconnect
  BY <1>13 DEF Disconnect
<1>14. CASE ResetKeyQueue
  BY <1>14 DEF ResetKeyQueue, conn
<1>15. CASE ReleaseLeds
  BY <1>15 DEF ReleaseLeds, conn
<1>16. CASE EnqueueRefused
  BY <1>16 DEF EnqueueRefused, conn
<1>17. CASE EnqueueAllowed
  BY <1>17 DEF EnqueueAllowed, conn
<1>18. CASE EnqueueSend
  BY <1>18 DEF EnqueueSend, conn
<1>19. CASE AgentChanges
  BY <1>19 DEF AgentChanges, conn
<1>20. CASE UNCHANGED vars
  BY <1>20 DEF vars, conn
<1>21. CASE TransmitDmaError
  BY <1>21 DEF TransmitDmaError, conn
<1> QED
  BY <1>1, <1>2, <1>3, <1>4, <1>5, <1>6, <1>7, <1>8, <1>9, <1>10, <1>11,
     <1>12, <1>13, <1>14, <1>15, <1>16, <1>17, <1>18, <1>19, <1>20, <1>21
  DEF Next, MicroRosStep, KeyTaskStep

(* Once the clock is set no request is pending or sent in that session.    *)
THEOREM SyncDone == Spec => []SyncedNotPending
<1>1. Init => BooleansOK /\ SyncedNotPending
  BY DEF Init, BooleansOK, SyncedNotPending
<1> QED
  BY <1>1, BooleansNext, SyncedNext, PTL DEF Spec
=============================================================================
