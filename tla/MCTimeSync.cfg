CONSTANTS
  MICRO_ROS_SYNC_RETRY_MS = 3
  MICRO_ROS_SYNC_RESPONSE_MS = 2
  TickMod = 5
  PcEpoch = 1
  MaxUptime = 9
  MaxRequests = 3
SPECIFICATION Spec
INVARIANTS
  ClockTrue
  ClockOfThisSession
PROPERTIES
  RequestsSpaced
