CONSTANTS
  KEY_DEBOUNCE_TIME_MS = 2
  KEY_LONG_PRESS_TIME_MS = 5
  KEY_DOUBLE_CLICK_TIME_MS = 4
  MaxGap = 2
  TickMod = 16
SPECIFICATION Spec
INVARIANTS
  TypeOK
  DebounceAgrees
  AtMostOneEvent
  ConfirmedPressAnswered
  EventMatchesClicks
  HeldPressAnswered
  ReleasedKeyGoesIdle
