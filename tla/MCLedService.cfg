CONSTANTS
  camera = camera
  System = system
  Cameras <- MCCameras
  CmdInputs <- MCInputs
  SELF_TEST_BLINK_COUNT = 3
  PREPARE_BLINK_COUNT = 3
SPECIFICATION Spec
INVARIANTS
  RestAgrees
  FailureNotIgnored
  LatestCommandWins
PROPERTIES
  RemoteOwnsLeds
  InputsServed
  PreparationEnds
