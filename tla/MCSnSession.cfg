CONSTANTS
  sn1 = sn1
  sn3 = sn3
  SNs = {sn1, sn3}
  SN_LENGTH = 4
  ReadBody <- MCReadBody
  WriteBody <- MCWriteBody
  Characters = {"S", "N", "-", "1", "3"}
  Text <- MCText
  NoSN = NoSN
  MaxLine = 5
SPECIFICATION SessionSpec
INVARIANTS
  AnswersTrue
PROPERTIES
  StoresSubmitted
