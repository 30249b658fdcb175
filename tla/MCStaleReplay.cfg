CONSTANTS
  MICRO_ROS_KEY_QUEUE_LENGTH = 2
  MICRO_ROS_AGENT_FAILURE_LIMIT = 2
  MaxPresses = 4
  MaxAnswers = 2
SPECIFICATION Spec
PROPERTY NoStaleReplay
