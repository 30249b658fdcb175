CONSTANTS
  MICRO_ROS_KEY_QUEUE_LENGTH = 2
  MICRO_ROS_AGENT_FAILURE_LIMIT = 2
  MaxPresses = 1
  MaxAnswers = 1
SPECIFICATION Spec
PROPERTIES
  RecoversByItself
