CONSTANTS
  MICRO_ROS_KEY_QUEUE_LENGTH = 2
  MICRO_ROS_AGENT_FAILURE_LIMIT = 2
  MaxPresses = 4
  MaxAnswers = 2
SPECIFICATION Spec
INVARIANTS
  EntitiesMatchState
  DependenciesAlive
  OrderedReporting
  AtMostOneStraggler
  ReleasedWhenWaiting
PROPERTIES
  AgentLossNoticed
  Reconnects
