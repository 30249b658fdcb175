CONSTANTS
  BSP_LED_PIXEL_COUNT = 3
  SK6805_RESET_SLOT_COUNT = 2
  SlotsPerPixel = 2
  SK6805_TRANSFER_TIMEOUT_MS = 2
  Colors = {off, on}
  Off = off
SPECIFICATION Spec
INVARIANTS
  OkSendsAllButLastBit
  LeavesReady
PROPERTIES
  CommitReturns
