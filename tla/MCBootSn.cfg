CONSTANTS
  SNs = {sn1, sn2}
  Malformed = {bad}
  NoSN = NoSN
SPECIFICATION Spec
INVARIANTS
  AppTakesSentDigits
  ProgramsErasedWords
  SuccessIsTrue
PROPERTIES
  MarkedPageUntouched
  ImplementsStore
