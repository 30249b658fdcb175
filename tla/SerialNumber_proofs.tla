------------------------ MODULE SerialNumber_proofs ------------------------
(***************************************************************************)
(* The serial number, from the flash to the PC tool's user.                *)
(*                                                                         *)
(* First BootSn, for any set of numbers and any pattern of flash errors    *)
(* and power failures: the reader's view of the page implements the        *)
(* write-once register SnStore.                                            *)
(*                                                                         *)
(* Then SnSession, for numbers and commands of any length and a line of    *)
(* any capacity: what the tool tells its user is so, and the device stores *)
(* only what the tool has sent, once.                                      *)
(***************************************************************************)
EXTENDS BootSn, SnSession, SequenceTheorems, TLAPS

(* How far the record is when the next double word is programmed.          *)
Progress ==
  /\ page["second"] = IF written = 0 THEN "erased" ELSE "middle"
  /\ page["third"] = IF written \in {0, 1} THEN "erased" ELSE sn
  /\ page["first"] = IF written = 3 THEN "head" ELSE "erased"

(* A write that has got this far is of a well-formed number that was asked *)
(* for, on a page that had no mark; F016 is only heard in the menu.        *)
WriteInv ==
  /\ pc \in {"check", "erase", "program"} /\ sn \in SNs => sn \in asked
  /\ pc \in {"erase", "program"} => sn \in SNs
  /\ pc = "erase" => ~HasMark
  /\ pc = "program" => Progress
  /\ pc # "menu" => reply # "F016"

IInv == TypeOK /\ LockedOutsideWrite /\ SuccessIsTrue /\ WriteInv

-----------------------------------------------------------------------------
LEMMA OrderFacts ==
  /\ Len(ProgramOrder) = 3
  /\ ProgramOrder[1] = "second" /\ ProgramOrder[2] = "third"
  /\ ProgramOrder[3] = "first"
  BY DEF ProgramOrder

LEMMA PageFacts ==
  /\ Erased \in Pages
  /\ \A n \in SNs : Record(n) \in Pages
  /\ \A n : /\ Record(n)["first"] = "head" /\ Record(n)["second"] = "middle"
           /\ Record(n)["third"] = n
  BY DEF Erased, Record, Pages, Words, Heads, Middles, Digits

(* A page is known by its three double words.                              *)
LEMMA PageEquality ==
  ASSUME NEW p \in Pages, NEW q \in Pages,
         p["first"] = q["first"], p["second"] = q["second"],
         p["third"] = q["third"]
  PROVE  p = q
  <1>1. \A w \in Words : p[w] = q[w]
    BY DEF Words
  <1> QED BY <1>1 DEF Pages

LEMMA Initial == Init => IInv
  BY OrderFacts DEF Init, IInv, TypeOK, LockedOutsideWrite, SuccessIsTrue,
    WriteInv, Codes

LEMMA VisibleType == Visible \in SNs \union {NoSN}
  BY DEF Visible

-----------------------------------------------------------------------------
(* Preservation: the actions that leave the page alone.                    *)

LEMMA MenuStep ==
  ASSUME IInv,
         UnknownCommand \/ BrokenWriteCommand \/ CheckAppPartition
           \/ ReadCommand \/ Boot_JumpToApp \/ WriteCommand
  PROVE  IInv'
  <1>1. CASE UnknownCommand \/ BrokenWriteCommand \/ CheckAppPartition
    <2>1. reply' \in Codes \ {"F016"}
      BY <1>1 DEF UnknownCommand, BrokenWriteCommand, CheckAppPartition,
        MenuReplies, Codes
    <2> QED BY <1>1, <2>1 DEF UnknownCommand, BrokenWriteCommand,
      CheckAppPartition, MenuReplies, IInv, TypeOK, LockedOutsideWrite,
      SuccessIsTrue, WriteInv
  <1>2. CASE ReadCommand
    <2>1. reply' \in Codes \union SNs /\ reply' # "F016"
      BY <1>2, VisibleType, BootSnAssumption DEF ReadCommand, MenuReplies,
        Codes
    <2> QED BY <1>2, <2>1 DEF ReadCommand, MenuReplies, IInv, TypeOK,
      LockedOutsideWrite, SuccessIsTrue, WriteInv
  <1>3. CASE Boot_JumpToApp \/ WriteCommand
    <2>1. /\ pc' \in {"menu", "app", "receive"} /\ reply' \in Codes
          /\ reply' # "F016" /\ locked
      BY <1>3 DEF Boot_JumpToApp, WriteCommand, Codes, IInv, LockedOutsideWrite
    <2> QED BY <1>3, <2>1 DEF Boot_JumpToApp, WriteCommand, IInv, TypeOK,
      LockedOutsideWrite, SuccessIsTrue, WriteInv
  <1> QED BY <1>1, <1>2, <1>3

LEMMA ReceiveStep ==
  ASSUME IInv, ReceiveTimesOut \/ ReceiveSn
  PROVE  IInv'
  <1>1. CASE ReceiveTimesOut
    BY <1>1 DEF ReceiveTimesOut, Fails, Codes, IInv, TypeOK,
      LockedOutsideWrite, SuccessIsTrue, WriteInv
  <1>2. CASE ReceiveSn
    BY <1>2 DEF ReceiveSn, IInv, TypeOK, LockedOutsideWrite, SuccessIsTrue,
      WriteInv
  <1> QED BY <1>1, <1>2

LEMMA CheckStep ==
  ASSUME IInv, CheckAndUnlock
  PROVE  IInv'
  <1>1. CASE pc' = "menu"
    <2>1. reply' \in Codes \ {"F016"} /\ locked' = locked /\ locked
      BY <1>1 DEF CheckAndUnlock, Fails, Codes, IInv, LockedOutsideWrite
    <2> QED BY <1>1, <2>1 DEF CheckAndUnlock, IInv, TypeOK,
      LockedOutsideWrite, SuccessIsTrue, WriteInv
  <1>2. CASE pc' = "erase"
    <2>1. /\ ~HasMark /\ sn \in SNs /\ locked' = FALSE /\ reply' = reply
          /\ pc = "check"
      BY <1>2 DEF CheckAndUnlock, Fails
    <2> QED BY <1>2, <2>1 DEF CheckAndUnlock, HasMark, IInv, TypeOK,
      LockedOutsideWrite, SuccessIsTrue, WriteInv
  <1> QED BY <1>1, <1>2 DEF CheckAndUnlock, Fails

LEMMA VerifyStep ==
  ASSUME IInv, Verify
  PROVE  IInv'
  <1>1. reply' = "F016" => Visible' = sn'
    <2> SUFFICES ASSUME page = Record(sn) PROVE Visible' = sn'
      BY DEF Verify, Fails
    <2>1. sn \in SNs
      BY DEF Verify, IInv, WriteInv
    <2> QED BY <2>1, PageFacts DEF Verify, Visible
  <1>2. reply' \in Codes /\ pc' = "menu" /\ locked' = TRUE
    BY DEF Verify, Fails, Codes
  <1> QED BY <1>1, <1>2 DEF Verify, IInv, TypeOK, LockedOutsideWrite,
    SuccessIsTrue, WriteInv

-----------------------------------------------------------------------------
(* Preservation: the actions that write the flash.                         *)

LEMMA EraseStep ==
  ASSUME IInv, ErasePage
  PROVE  IInv'
  <1>1. CASE page' = Erased /\ pc' = "program"
    <2>1. written' = 0 /\ Progress'
      BY <1>1, BootSnAssumption
      DEF ErasePage, Fails, Progress, Erased, Words, IInv, WriteInv
    <2>2. locked' = locked /\ reply' = reply /\ reply # "F016" /\ pc = "erase"
      BY <1>1 DEF ErasePage, Fails, IInv, WriteInv
    <2> QED BY <1>1, <2>1, <2>2, PageFacts, OrderFacts DEF ErasePage, IInv,
      TypeOK, LockedOutsideWrite, SuccessIsTrue, WriteInv
  <1>2. CASE PartlyErased /\ pc' = "menu"
    <2>1. /\ reply' = "F017" /\ locked' = TRUE /\ page' \in Pages
          /\ written' = written
      BY <1>2 DEF ErasePage, Fails, PartlyErased
    <2> QED BY <1>2, <2>1 DEF ErasePage, Codes, IInv, TypeOK,
      LockedOutsideWrite, SuccessIsTrue, WriteInv
  <1> QED BY <1>1, <1>2 DEF ErasePage, Fails

LEMMA ProgramStep ==
  ASSUME IInv, ProgramWord
  PROVE  IInv'
  <1> DEFINE w == ProgramOrder[written + 1]
  <1>1. written \in {0, 1, 2} /\ sn \in SNs /\ Progress
    BY OrderFacts DEF ProgramWord, IInv, TypeOK, WriteInv
  <1>2. CASE page' = [page EXCEPT ![w] = Record(sn)[w]]
               /\ written' = written + 1 /\ UNCHANGED <<pc, locked, reply>>
    <2>1. page' \in Pages /\ Progress'
      <3>1. page \in Pages
        BY DEF IInv, TypeOK
      <3>2. CASE written = 0
        BY <1>1, <1>2, <3>1, <3>2, OrderFacts, PageFacts DEF ProgramWord,
          Progress, Pages, Words, Heads, Middles, Digits
      <3>3. CASE written = 1
        BY <1>1, <1>2, <3>1, <3>3, OrderFacts, PageFacts DEF ProgramWord,
          Progress, Pages, Words, Heads, Middles, Digits
      <3>4. CASE written = 2
        BY <1>1, <1>2, <3>1, <3>4, OrderFacts, PageFacts DEF ProgramWord,
          Progress, Pages, Words, Heads, Middles, Digits
      <3> QED BY <1>1, <3>2, <3>3, <3>4
    <2>2. pc = "program" /\ reply # "F016"
      BY DEF ProgramWord, IInv, WriteInv
    <2> QED BY <1>1, <1>2, <2>1, <2>2, OrderFacts DEF ProgramWord, IInv,
      TypeOK, LockedOutsideWrite, SuccessIsTrue, WriteInv
  <1>3. CASE PartlyProgrammed(w) /\ locked' = TRUE /\ Fails("F017")
               /\ UNCHANGED written
    BY <1>3 DEF ProgramWord, PartlyProgrammed, Fails, Codes, IInv, TypeOK,
      LockedOutsideWrite, SuccessIsTrue, WriteInv
  <1> QED BY <1>2, <1>3 DEF ProgramWord

LEMMA PowerStep ==
  ASSUME IInv, PowerCycle
  PROVE  IInv'
  <1>1. page' \in Pages
    BY DEF PowerCycle, PartlyErased, PartlyProgrammed, IInv, TypeOK
  <1>2. reply' = "F00E" /\ pc' = "menu" /\ sn' = NoSN
    BY DEF PowerCycle
  <1> QED BY <1>1, <1>2, OrderFacts, BootSnAssumption DEF PowerCycle, Codes,
    IInv, TypeOK, LockedOutsideWrite, SuccessIsTrue, WriteInv

LEMMA StutterStep ==
  ASSUME IInv, UNCHANGED vars
  PROVE  IInv'
  BY DEF vars, IInv, TypeOK, LockedOutsideWrite, SuccessIsTrue, WriteInv,
    Visible, HasMark, Progress

LEMMA Inductive == IInv /\ [Next]_vars => IInv'
  BY MenuStep, ReceiveStep, CheckStep, VerifyStep, EraseStep, ProgramStep,
    PowerStep, StutterStep DEF Next

LEMMA Invariance == Spec => []IInv
  BY Initial, Inductive, PTL DEF Spec

-----------------------------------------------------------------------------
(* Type correctness of the bootloader model.                               *)
THEOREM TypeCorrect == Spec => []TypeOK
  <1>1. IInv => TypeOK
    BY DEF IInv
  <1> QED BY <1>1, Invariance, PTL

(* Boot_ProgramSN programs erased double words only.                       *)
THEOREM ProgramsErased == Spec => []ProgramsErasedWords
  <1>1. IInv => ProgramsErasedWords
    <2> SUFFICES ASSUME IInv, pc = "program", written < Len(ProgramOrder)
                 PROVE  page[ProgramOrder[written + 1]] = "erased"
      BY DEF ProgramsErasedWords
    <2>1. written \in {0, 1, 2} /\ Progress
      BY OrderFacts DEF IInv, TypeOK, WriteInv
    <2> QED BY <2>1, OrderFacts DEF Progress
  <1> QED BY <1>1, Invariance, PTL

(* F016 tells the truth: the reader gets the number that was sent.         *)
THEOREM SuccessTrue == Spec => []SuccessIsTrue
  <1>1. IInv => SuccessIsTrue
    BY DEF IInv
  <1> QED BY <1>1, Invariance, PTL

(* The flash is locked whenever no write is under way.                     *)
THEOREM FlashLocked == Spec => []LockedOutsideWrite
  <1>1. IInv => LockedOutsideWrite
    BY DEF IInv
  <1> QED BY <1>1, Invariance, PTL

(* A step either leaves the page alone or is a flash operation of a write  *)
(* that found no mark.                                                     *)
LEMMA PageChange ==
  ASSUME IInv, [Next]_vars, page' # page
  PROVE  /\ pc \in {"erase", "program"}
         /\ ~HasMark
         /\ asked' = asked
  <1>1. pc = "program" /\ written < Len(ProgramOrder) => ~HasMark
    <2> SUFFICES ASSUME pc = "program", written < Len(ProgramOrder)
                 PROVE  ~HasMark
      OBVIOUS
    <2>1. written \in {0, 1, 2} /\ Progress
      BY OrderFacts DEF IInv, TypeOK, WriteInv
    <2> QED BY <2>1 DEF Progress, HasMark
  <1>2. pc = "erase" => ~HasMark
    BY DEF IInv, WriteInv
  <1> QED BY <1>1, <1>2 DEF Next, vars, UnknownCommand, BrokenWriteCommand,
    CheckAppPartition, ReadCommand, MenuReplies, Boot_JumpToApp,
    WriteCommand, ReceiveTimesOut, ReceiveSn, CheckAndUnlock, ErasePage,
    ProgramWord, Verify, PowerCycle

(* The marked record is never touched again.                               *)
THEOREM MarkedUntouched == Spec => MarkedPageUntouched
  <1>1. IInv /\ [Next]_vars => [HasMark => page' = page]_vars
    BY PageChange
  <1> QED BY <1>1, Invariance, PTL DEF Spec, MarkedPageUntouched

-----------------------------------------------------------------------------
(* The mark appears only when its word is programmed, behind the rest of   *)
(* the record of the present write.                                        *)
LEMMA MarkAppears ==
  ASSUME IInv, [Next]_vars, ~HasMark, HasMark'
  PROVE  /\ page'["second"] = "middle" /\ page'["third"] = sn
         /\ sn \in asked /\ asked' = asked
  <1>1. page' # page
    BY DEF HasMark
  <1>2. pc \in {"erase", "program"} /\ asked' = asked
    BY <1>1, PageChange
  <1>3. sn \in asked
    BY <1>2 DEF IInv, WriteInv
  <1>4. ~(pc = "erase")
    <2> SUFFICES ASSUME pc = "erase" PROVE FALSE
      OBVIOUS
    <2>1. page' = Erased \/ PartlyErased
      BY <1>1 DEF Next, vars, UnknownCommand, BrokenWriteCommand,
        CheckAppPartition, ReadCommand, MenuReplies, Boot_JumpToApp,
        WriteCommand, ReceiveTimesOut, ReceiveSn, CheckAndUnlock, ErasePage,
        ProgramWord, Verify, PowerCycle
    <2> QED BY <2>1 DEF HasMark, Erased, Words, PartlyErased
  <1>5. /\ pc = "program" /\ written < Len(ProgramOrder)
        /\ \A v \in Words \ {ProgramOrder[written + 1]} : page'[v] = page[v]
    <2>1. /\ pc = "program" /\ written < Len(ProgramOrder)
          /\ \/ page' = [page EXCEPT ![ProgramOrder[written + 1]]
                            = Record(sn)[ProgramOrder[written + 1]]]
             \/ PartlyProgrammed(ProgramOrder[written + 1])
      BY <1>1, <1>2, <1>4 DEF Next, vars, UnknownCommand, BrokenWriteCommand,
        CheckAppPartition, ReadCommand, MenuReplies, Boot_JumpToApp,
        WriteCommand, ReceiveTimesOut, ReceiveSn, CheckAndUnlock, ErasePage,
        ProgramWord, Verify, PowerCycle
    <2> QED BY <2>1 DEF PartlyProgrammed, IInv, TypeOK, Pages
  <1>6. written = 2
    <2>1. written \in {0, 1, 2}
      BY <1>5, OrderFacts DEF IInv, TypeOK
    <2> QED BY <2>1, <1>5, OrderFacts DEF Words, HasMark
  <1>7. page'["second"] = "middle" /\ page'["third"] = sn
    BY <1>5, <1>6, OrderFacts DEF Words, IInv, WriteInv, Progress
  <1> QED BY <1>2, <1>3, <1>7

(* Behind the mark, well written or not, are the characters of a number    *)
(* that was sent.                                                          *)
MarkInv == HasMark => page["second"] = "middle" /\ page["third"] \in asked

LEMMA MarkInductive ==
  ASSUME IInv, MarkInv, [Next]_vars
  PROVE  MarkInv'
  <1> SUFFICES ASSUME HasMark'
               PROVE  page'["second"] = "middle" /\ page'["third"] \in asked'
    BY DEF MarkInv
  <1>1. CASE ~HasMark
    BY <1>1, MarkAppears
  <1>2. CASE HasMark
    <2>1. page' = page
      BY <1>2, PageChange
    <2>2. asked \subseteq asked'
      BY DEF Next, vars, UnknownCommand, BrokenWriteCommand,
        CheckAppPartition, ReadCommand, MenuReplies, Boot_JumpToApp,
        WriteCommand, ReceiveTimesOut, ReceiveSn, CheckAndUnlock, ErasePage,
        ProgramWord, Verify, PowerCycle
    <2> QED BY <1>2, <2>1, <2>2 DEF MarkInv
  <1> QED BY <1>1, <1>2

(* The application takes the digits of a number that was sent, and never   *)
(* half a record, although its format check is the looser one.             *)
THEOREM AppNamed == Spec => []AppTakesSentDigits
  <1>1. Init => MarkInv
    BY DEF Init, MarkInv
  <1>2. IInv /\ MarkInv /\ [Next]_vars => MarkInv'
    BY MarkInductive
  <1>3. MarkInv => AppTakesSentDigits
    BY DEF MarkInv, AppTakesSentDigits, bsp_sn_driver_read, HasMark
  <1> QED BY <1>1, <1>2, <1>3, Invariance, PTL DEF Spec

-----------------------------------------------------------------------------
(* Refinement.                                                             *)

LEMMA StoreInitial == Init => Store!Init
  BY DEF Init, Store!Init, Visible, HasMark

(* What a reader gets changes only when the mark appears, from nothing to  *)
(* the number of the present write.                                        *)
LEMMA VisibleChange ==
  ASSUME IInv, [Next]_vars, Visible' # Visible
  PROVE  Visible = NoSN /\ Visible' = sn /\ sn \in asked /\ asked' = asked
  <1>1. page' # page
    BY DEF Visible
  <1>2. ~HasMark
    BY <1>1, PageChange
  <1>3. Visible = NoSN
    BY <1>2 DEF Visible, HasMark
  <1>4. HasMark' /\ page'["third"] = Visible'
    BY <1>3 DEF Visible, HasMark
  <1> QED BY <1>2, <1>3, <1>4, MarkAppears

LEMMA StoreStep ==
  ASSUME IInv, [Next]_vars
  PROVE  [Store!Next]_<<asked, Visible>>
  <1>1. CASE Visible' # Visible
    BY <1>1, VisibleChange DEF Store!Next, Store!Store
  <1>2. CASE Visible' = Visible /\ asked' # asked
    <2>1. ReceiveSn
      BY <1>2 DEF Next, vars, UnknownCommand, BrokenWriteCommand,
        CheckAppPartition, ReadCommand, MenuReplies, Boot_JumpToApp,
        WriteCommand, ReceiveTimesOut, CheckAndUnlock, ErasePage,
        ProgramWord, Verify, PowerCycle
    <2>2. PICK payload \in SNs \union Malformed :
            asked' = asked \union ({payload} \intersect SNs)
      BY <2>1 DEF ReceiveSn
    <2>3. payload \in SNs /\ asked' = asked \union {payload}
      BY <1>2, <2>2
    <2> QED BY <1>2, <2>3 DEF Store!Next, Store!Ask
  <1> QED BY <1>1, <1>2

(* Whatever fails and whenever the power goes, a reader of the device sees *)
(* a write-once register that holds a number somebody asked for.           *)
THEOREM StoreImplemented == Spec => ImplementsStore
  BY StoreInitial, StoreStep, Invariance, PTL
  DEF Spec, ImplementsStore, Store!Spec
-----------------------------------------------------------------------------
(* The session of the PC tool with the device.                             *)

(* What travels on the line.                                               *)
LineBytes == Characters \union Keys \union PrefixBytes \union StatusBytes
               \union BodyBytes
Line == Seq(LineBytes)

(* The bytes numbers begin with, which stand nowhere else in an answer.    *)
Starts == {Text[n][1] : n \in SNs}

(* Number n stands on the line from byte i on.                             *)
NumberFrom(line, i, n) ==
  /\ n \in SNs /\ i + SN_LENGTH - 1 <= Len(line)
  /\ \A k \in 0 .. SN_LENGTH - 1 : line[i + k] = Text[n][k + 1]

(* A status follows byte i before a number from i could be complete.       *)
StatusAfter(line, i) ==
  \E k \in i + 1 .. i + SN_LENGTH - 1 : k <= Len(line) /\ line[k] = "F0"

(* Only number n can be read off the line: where one begins, either n      *)
(* stands complete, or its last byte was cut off and a status took its     *)
(* place.  This survives what the tool throws away and what a power        *)
(* failure cuts.                                                           *)
WholeNumbers(line, n) ==
  \A i \in 1 .. Len(line) :
     line[i] \in Starts => NumberFrom(line, i, n) \/ StatusAfter(line, i)

(* On the way to the device the letter that completes a write command is   *)
(* the last byte, or is not there.                                         *)
WLast(line) == \A i \in 1 .. Len(line) : line[i] = "W" => i = Len(line)
NoW(line) == \A i \in 1 .. Len(line) : line[i] # "W"

-----------------------------------------------------------------------------
(* Facts about the line.                                                   *)

LEMMA LengthFacts == SN_LENGTH \in Nat /\ SN_LENGTH > 2
  BY SnToolAssumption

LEMMA BodyFacts ==
  /\ ReadBody \in Line /\ WriteBody \in Line
  /\ Len(WriteBody) \in 1 .. Len(WriteBody)
  /\ WriteBody[Len(WriteBody)] = "W"
  /\ WLast(WriteBody) /\ NoW(ReadBody)
  <1>1. ReadBody \in Line /\ WriteBody \in Line
    BY CommandAssumption DEF Line, LineBytes
  <1>2. Len(WriteBody) \in Nat /\ (Len(WriteBody) = 0 => WriteBody = <<>>)
    BY CommandAssumption
  <1>3. Len(WriteBody) \in 1 .. Len(WriteBody)
    BY <1>2, CommandAssumption
  <1> QED BY <1>1, <1>3, CommandAssumption DEF WLast, NoW

LEMMA StartsFacts ==
  /\ Starts \intersect StatusBytes = {}
  /\ \A n \in SNs, i \in 2 .. SN_LENGTH : Text[n][i] \notin Starts
  /\ \A n \in SNs : /\ Text[n][1] \in Starts /\ Text[n] \in Line
                    /\ Len(Text[n]) = SN_LENGTH
  BY SnToolAssumption DEF Starts, Line, LineBytes

LEMMA TextFacts ==
  ASSUME NEW n \in SNs, NEW i \in 1 .. SN_LENGTH
  PROVE  /\ Text[n][i] \in Characters
         /\ Text[n][i] \notin PrefixBytes \union StatusBytes \union {"W"}
  <1>1. Text[n] \in Seq(Characters) /\ Len(Text[n]) = SN_LENGTH
    BY SnToolAssumption
  <1>2. Text[n][i] \in Characters
    BY <1>1
  <1> QED BY <1>2, SnToolAssumption

LEMMA StatusFacts ==
  ASSUME NEW code \in StatusBytes
  PROVE  /\ Status(code) \in Line /\ Len(Status(code)) = 2
         /\ Status(code)[1] = "F0" /\ Status(code)[2] = code
  <1>1. "F0" \in LineBytes /\ code \in LineBytes
    BY DEF LineBytes, StatusBytes
  <1> QED BY <1>1 DEF Status, Line

LEMMA Suffix ==
  ASSUME NEW line \in Line, NEW d \in 0 .. Len(line)
  PROVE  /\ SubSeq(line, d + 1, Len(line)) \in Line
         /\ Len(SubSeq(line, d + 1, Len(line))) = Len(line) - d
         /\ \A i \in 1 .. Len(line) - d :
              SubSeq(line, d + 1, Len(line))[i] = line[i + d]
  BY DEF Line

LEMMA TailFacts ==
  ASSUME NEW line \in Line, line # <<>>
  PROVE  /\ Tail(line) \in Line
         /\ Len(Tail(line)) = Len(line) - 1
         /\ \A i \in 1 .. Len(line) - 1 : Tail(line)[i] = line[i + 1]
  BY DEF Line

LEMMA Concat ==
  ASSUME NEW s \in Line, NEW t \in Line
  PROVE  /\ s \o t \in Line
         /\ Len(s) \in Nat /\ Len(t) \in Nat
         /\ Len(s \o t) = Len(s) + Len(t)
         /\ \A i \in 1 .. Len(s) : (s \o t)[i] = s[i]
         /\ \A i \in 1 .. Len(s) + Len(t) :
              i > Len(s) => /\ i - Len(s) \in 1 .. Len(t)
                            /\ (s \o t)[i] = t[i - Len(s)]
  BY DEF Line

(* An overrun invents nothing and changes no order.                        *)
LEMMA OverrunFacts ==
  ASSUME NEW line \in Line, NEW l \in Overrun(line)
  PROVE  /\ l \in Line
         /\ WLast(line) => WLast(l)
         /\ NoW(line) => NoW(l)
         /\ line = <<>> => l = <<>>
  <1>1. CASE l = line
    BY <1>1
  <1>2. CASE l # line
    <2>1. PICK i \in 0 .. Len(line), j \in 1 .. Len(line) + 1 :
            /\ i < j
            /\ l = SubSeq(line, 1, i) \o SubSeq(line, j, Len(line))
      BY <1>2 DEF Overrun
    <2> DEFINE a == SubSeq(line, 1, i)
               b == SubSeq(line, j, Len(line))
    <2>2. i < j
      BY <2>1
    <2>3. Len(line) \in Nat
      BY DEF Line
    <2>4. /\ a \in Line /\ Len(a) = i
          /\ \A p \in 1 .. i : a[p] = line[p]
      BY DEF Line
    <2>5. /\ b \in Line /\ Len(b) = Len(line) + 1 - j
          /\ \A p \in 1 .. Len(line) + 1 - j : b[p] = line[p + j - 1]
      BY DEF Line
    <2> HIDE DEF a, b
    <2>6. l = a \o b
      BY <2>1 DEF a, b
    <2>7. /\ a \o b \in Line /\ Len(a \o b) = Len(a) + Len(b)
          /\ \A p \in 1 .. Len(a) : (a \o b)[p] = a[p]
          /\ \A p \in 1 .. Len(a) + Len(b) :
               p > Len(a) => /\ p - Len(a) \in 1 .. Len(b)
                             /\ (a \o b)[p] = b[p - Len(a)]
      BY <2>4, <2>5, Concat
    <2>8. l \in Line /\ Len(l) = i + (Len(line) + 1 - j)
      BY <2>3, <2>4, <2>5, <2>6, <2>7
    <2>9. ASSUME NEW p \in 1 .. Len(l)
          PROVE  /\ p <= i => l[p] = line[p] 
                 /\ p > i => /\ l[p] = line[(p - i) + j - 1]
                             /\ (p - i) + j - 1 \in 1 .. Len(line)
      <3>1. CASE p <= i
        BY <3>1, <2>3, <2>4, <2>5, <2>6, <2>7, <2>8
      <3>2. CASE p > i
        <4>1. p - i \in 1 .. Len(b) /\ l[p] = b[p - i]
          BY <3>2, <2>3, <2>4, <2>5, <2>6, <2>7, <2>8
        <4> QED BY <4>1, <3>2, <2>3, <2>5, <2>8
      <3> QED BY <3>1, <3>2, <2>3, <2>8
    <2>10. ASSUME WLast(line), NEW p \in 1 .. Len(l), l[p] = "W"
          PROVE  p = Len(l)
      <3>1. CASE p <= i
        <4>1. line[p] = "W" /\ p \in 1 .. Len(line)
          BY <3>1, <2>2, <2>3, <2>9, <2>8, <2>10
        <4>2. p = Len(line)
          BY <4>1, <2>10 DEF WLast
        <4> QED BY <4>2, <3>1, <2>2, <2>3, <2>8
      <3>2. CASE p > i
        <4>1. line[(p - i) + j - 1] = "W" /\ (p - i) + j - 1 \in 1 .. Len(line)
          BY <3>2, <2>9, <2>10, <2>3, <2>8
        <4>2. (p - i) + j - 1 = Len(line)
          BY <4>1, <2>10 DEF WLast
        <4> QED BY <4>2, <2>3, <2>8
      <3> QED BY <3>1, <3>2, <2>3, <2>8
    <2>11. ASSUME NoW(line), NEW p \in 1 .. Len(l)
          PROVE  l[p] # "W"
      <3>1. CASE p <= i
        BY <3>1, <2>2, <2>3, <2>9, <2>8, <2>11 DEF NoW
      <3>2. CASE p > i
        BY <3>2, <2>9, <2>11, <2>3, <2>8 DEF NoW
      <3> QED BY <3>1, <3>2, <2>3, <2>8
    <2>12. line = <<>> => l = <<>>
      BY <2>1, <2>3, <2>8 DEF Line
    <2> QED BY <2>8, <2>10, <2>11, <2>12 DEF WLast, NoW
  <1> QED BY <1>1, <1>2

-----------------------------------------------------------------------------
(* What keeps WholeNumbers: the tool reads, the device adds a status, or   *)
(* the number itself; and what it is for, NumberTold.                      *)

LEMMA SuffixWhole ==
  ASSUME NEW line \in Line, NEW d \in 0 .. Len(line), NEW n,
         WholeNumbers(line, n)
  PROVE  WholeNumbers(SubSeq(line, d + 1, Len(line)), n)
  <1> DEFINE t == SubSeq(line, d + 1, Len(line))
  <1>1. /\ t \in Line /\ Len(t) = Len(line) - d /\ Len(line) \in Nat
        /\ \A i \in 1 .. Len(line) - d : t[i] = line[i + d]
    BY Suffix DEF Line
  <1> HIDE DEF t
  <1> SUFFICES ASSUME NEW i \in 1 .. Len(t), t[i] \in Starts
               PROVE  NumberFrom(t, i, n) \/ StatusAfter(t, i)
    BY DEF WholeNumbers, t
  <1>2. i + d \in 1 .. Len(line) /\ line[i + d] \in Starts
    BY <1>1
  <1>3. CASE NumberFrom(line, i + d, n)
    <2>1. n \in SNs /\ i + SN_LENGTH - 1 <= Len(t)
      BY LengthFacts, <1>3, <1>1 DEF NumberFrom
    <2>2. ASSUME NEW k \in 0 .. SN_LENGTH - 1
          PROVE  t[i + k] = Text[n][k + 1]
      <3>1. i + k \in 1 .. Len(line) - d /\ (i + k) + d = (i + d) + k
        BY LengthFacts, <2>1, <1>1
      <3>2. line[(i + d) + k] = Text[n][k + 1]
        BY <1>3 DEF NumberFrom
      <3> QED BY <3>1, <3>2, <1>1
    <2> QED BY <2>1, <2>2 DEF NumberFrom
  <1>4. CASE StatusAfter(line, i + d)
    <2>1. PICK k \in i + d + 1 .. i + d + SN_LENGTH - 1 :
            k <= Len(line) /\ line[k] = "F0"
      BY <1>4 DEF StatusAfter
    <2>2. /\ k - d \in i + 1 .. i + SN_LENGTH - 1
          /\ k - d \in 1 .. Len(line) - d /\ (k - d) + d = k
      BY LengthFacts, <2>1, <1>1
    <2>3. t[k - d] = "F0"
      BY <2>1, <2>2, <1>1
    <2> QED BY <2>2, <2>3, <1>1 DEF StatusAfter
  <1> QED BY <1>2, <1>3, <1>4 DEF WholeNumbers

(* s is line with a status added, at its end or over its last byte.        *)
Extended(line, code, s) ==
  /\ Len(s) \in Nat /\ Len(s) >= 2 /\ Len(line) \in Nat
  /\ Len(s) - 2 = Len(line) \/ Len(s) - 2 = Len(line) - 1
  /\ \A i \in 1 .. Len(s) - 2 : s[i] = line[i]
  /\ s[Len(s) - 1] = "F0" /\ s[Len(s)] = code

LEMMA StatusWhole ==
  ASSUME NEW line \in Line, NEW n, NEW code \in StatusBytes, NEW s \in Line,
         WholeNumbers(line, n), Extended(line, code, s)
  PROVE  WholeNumbers(s, n)
  <1> DEFINE m == Len(s) - 2
  <1>1. /\ m \in Nat /\ Len(s) = m + 2
        /\ m = Len(line) \/ m = Len(line) - 1
        /\ \A i \in 1 .. m : s[i] = line[i]
        /\ s[m + 1] = "F0" /\ s[m + 2] = code
    <2>1. Len(s) - 1 = m + 1 /\ Len(s) = m + 2 /\ m \in Nat
      BY DEF Extended
    <2>2. s[Len(s) - 1] = "F0" /\ s[Len(s)] = code
      BY DEF Extended
    <2>3. s[m + 1] = "F0" /\ s[m + 2] = code
      BY <2>1, <2>2
    <2> QED BY <2>1, <2>3 DEF Extended
  <1>2. Len(line) \in Nat
    BY DEF Line
  <1> HIDE DEF m
  <1> SUFFICES ASSUME NEW i \in 1 .. Len(s), s[i] \in Starts
               PROVE  NumberFrom(s, i, n) \/ StatusAfter(s, i)
    BY DEF WholeNumbers
  <1>3. i \in 1 .. m
    <2>1. s[m + 1] \notin Starts /\ s[m + 2] \notin Starts
      BY <1>1, StartsFacts DEF StatusBytes
    <2> QED BY <2>1, <1>1
  <1>4. i \in 1 .. Len(line) /\ line[i] \in Starts
    BY <1>1, <1>2, <1>3
  <1>5. CASE NumberFrom(line, i, n)
    <2>1. n \in SNs /\ i + SN_LENGTH - 1 <= Len(line)
      BY <1>5 DEF NumberFrom
    <2>2. CASE i + SN_LENGTH - 1 <= m
      <3>1. ASSUME NEW k \in 0 .. SN_LENGTH - 1
            PROVE  s[i + k] = Text[n][k + 1]
        <4>1. i + k \in 1 .. m
          BY LengthFacts, <2>2, <1>1
        <4> QED BY <4>1, <1>1, <1>5 DEF NumberFrom
      <3> QED BY LengthFacts, <3>1, <2>1, <2>2, <1>1, <1>2 DEF NumberFrom
    <2>3. CASE i + SN_LENGTH - 1 = m + 1
      BY LengthFacts, <2>3, <1>1 DEF StatusAfter
    <2> QED BY LengthFacts, <2>1, <2>2, <2>3, <1>1, <1>2
  <1>6. CASE StatusAfter(line, i)
    <2>1. PICK k \in i + 1 .. i + SN_LENGTH - 1 :
            k <= Len(line) /\ line[k] = "F0"
      BY <1>6 DEF StatusAfter
    <2>2. CASE k <= m
      <3>1. s[k] = "F0" /\ k <= Len(s)
        BY <2>1, <2>2, <1>1
      <3> QED BY <3>1 DEF StatusAfter
    <2>3. CASE k = m + 1
      <3>1. s[k] = "F0" /\ k <= Len(s)
        BY <2>3, <1>1
      <3> QED BY <3>1 DEF StatusAfter
    <2> QED BY <2>1, <2>2, <2>3, <1>1, <1>2
  <1> QED BY <1>4, <1>5, <1>6 DEF WholeNumbers

LEMMA TextWhole ==
  ASSUME NEW line \in Line, NEW n \in SNs, WholeNumbers(line, n)
  PROVE  WholeNumbers(line \o Text[n], n)
  <1> DEFINE s == line \o Text[n]
             m == Len(line)
  <1>1. /\ s \in Line /\ Len(s) = m + SN_LENGTH /\ m \in Nat
        /\ \A i \in 1 .. m : s[i] = line[i]
        /\ \A i \in 1 .. m + SN_LENGTH :
             i > m => i - m \in 1 .. SN_LENGTH /\ s[i] = Text[n][i - m]
    <2> DEFINE t == Text[n]
    <2>1. t \in Line /\ Len(t) = SN_LENGTH
      BY StartsFacts
    <2> HIDE DEF t
    <2>2. /\ line \o t \in Line /\ Len(line) \in Nat
          /\ Len(line \o t) = Len(line) + Len(t)
          /\ \A i \in 1 .. Len(line) : (line \o t)[i] = line[i]
          /\ \A i \in 1 .. Len(line) + Len(t) :
               i > Len(line) => i - Len(line) \in 1 .. Len(t)
                                /\ (line \o t)[i] = t[i - Len(line)]
      BY <2>1, Concat
    <2> QED BY <2>1, <2>2 DEF t
  <1> HIDE DEF s, m
  <1>2. m = Len(line)
    BY DEF m
  <1> SUFFICES ASSUME NEW i \in 1 .. Len(s), s[i] \in Starts
               PROVE  NumberFrom(s, i, n) \/ StatusAfter(s, i)
    BY DEF WholeNumbers, s
  <1>3. CASE i > m
    <2>1. i - m = 1
      <3>1. i - m \in 1 .. SN_LENGTH /\ Text[n][i - m] \in Starts
        BY <1>1, <1>3
      <3> QED BY <3>1, <1>1, StartsFacts
    <2>2. ASSUME NEW k \in 0 .. SN_LENGTH - 1
          PROVE  s[i + k] = Text[n][k + 1]
      <3>1. i + k \in 1 .. m + SN_LENGTH /\ i + k > m /\ (i + k) - m = k + 1
        BY LengthFacts, <2>1, <1>1
      <3> QED BY <3>1, <1>1
    <2> QED BY LengthFacts, <2>1, <2>2, <1>1 DEF NumberFrom
  <1>4. CASE i <= m
    <2>1. i \in 1 .. m /\ line[i] \in Starts
      BY <1>1, <1>4
    <2>2. CASE NumberFrom(line, i, n)
      <3>1. i + SN_LENGTH - 1 <= m
        BY <2>2, <1>2 DEF NumberFrom
      <3>2. ASSUME NEW k \in 0 .. SN_LENGTH - 1
            PROVE  s[i + k] = Text[n][k + 1]
        <4>1. i + k \in 1 .. m
          BY LengthFacts, <3>1, <1>1
        <4> QED BY <4>1, <1>1, <2>2 DEF NumberFrom
      <3> QED BY LengthFacts, <3>1, <3>2, <1>1 DEF NumberFrom
    <2>3. CASE StatusAfter(line, i)
      <3>1. PICK k \in i + 1 .. i + SN_LENGTH - 1 : k <= m /\ line[k] = "F0"
        BY <2>3, <1>2 DEF StatusAfter
      <3>2. s[k] = "F0" /\ k <= Len(s)
        BY LengthFacts, <3>1, <1>1
      <3> QED BY <3>2 DEF StatusAfter
    <2> QED BY <2>1, <2>2, <2>3, <1>2 DEF WholeNumbers
  <1> QED BY <1>1, <1>3, <1>4

(* The device writes its first number: none was on the line before.        *)
LEMMA NoneWhole ==
  ASSUME NEW line, NEW n, WholeNumbers(line, NoSN)
  PROVE  WholeNumbers(line, n)
  BY SerialNumberAssumption DEF WholeNumbers, NumberFrom

(* The byte _start_command leaves over begins no number.                   *)
LEMMA LastWhole ==
  ASSUME NEW line \in Line, NEW n, line # <<>>, WholeNumbers(line, n)
  PROVE  <<Last(line)>> \in Line /\ WholeNumbers(<<Last(line)>>, n)
  <1>1. Len(line) \in 1 .. Len(line) /\ line[Len(line)] \in LineBytes
    BY DEF Line
  <1>2. line[Len(line)] \notin Starts
    BY LengthFacts, <1>1 DEF WholeNumbers, NumberFrom, StatusAfter
  <1> QED BY <1>1, <1>2 DEF WholeNumbers, Last, Line

LEMMA EmptyWhole == \A n : <<>> \in Line /\ WholeNumbers(<<>>, n)
  BY DEF WholeNumbers, Line

(* A number that is read off the line is the one that may stand on it.     *)
LEMMA NumberTold ==
  ASSUME NEW line \in Line, NEW n, NEW m \in SNs, WholeNumbers(line, n),
         Len(line) >= SN_LENGTH, \A i \in 1 .. SN_LENGTH : line[i] = Text[m][i]
  PROVE  n = m
  <1>1. line[1] \in Starts
    BY LengthFacts, StartsFacts
  <1>2. ~StatusAfter(line, 1)
    <2> SUFFICES ASSUME NEW k \in 2 .. SN_LENGTH PROVE line[k] # "F0"
      BY LengthFacts DEF StatusAfter
    <2>1. Text[m][k] # "F0"
      BY LengthFacts, TextFacts DEF StatusBytes
    <2> QED BY <2>1
  <1>3. NumberFrom(line, 1, n)
    BY LengthFacts, <1>1, <1>2 DEF WholeNumbers, Line
  <1>4. n \in SNs /\ \A i \in 1 .. SN_LENGTH : Text[n][i] = line[i]
    <2> SUFFICES ASSUME NEW i \in 1 .. SN_LENGTH PROVE Text[n][i] = line[i]
      BY <1>3 DEF NumberFrom
    <2>1. i - 1 \in 0 .. SN_LENGTH - 1 /\ 1 + (i - 1) = i /\ (i - 1) + 1 = i
      BY LengthFacts
    <2> QED BY <2>1, <1>3 DEF NumberFrom
  <1>5. Text[n] = Text[m]
    BY <1>4, StartsFacts DEF Line
  <1> QED BY <1>4, <1>5, SnToolAssumption

-----------------------------------------------------------------------------
(* The inductive invariant.                                                *)

SessionTypeOK ==
  /\ toDevice \in Line /\ toTool \in Line /\ got \in Line /\ first \in Line
  /\ doing \in {"menu", "answer", "ready", "result", "number", "rest"}
  /\ at \in {"menu", "app", "#", "*", "receive", "program"}
  /\ {writing, received, stored} \subseteq SNs \union {NoSN}
  /\ submitted \subseteq SNs
  /\ doing \in {"ready", "result"} => writing \in SNs
  /\ IF doing = "rest" THEN Len(first) = 2 ELSE first = <<>>

(* Nothing has been sent behind a write command that is under way; and     *)
(* while a payload's result is awaited none is under way.                  *)
CommandInv ==
  /\ WLast(toDevice)
  /\ doing = "result" => NoW(toDevice)

(* A device that waits for a payload is about to get the payload of the    *)
(* present call or of one given up, or else, at its first byte, something  *)
(* that begins like no number: a payload is never put together from the    *)
(* bytes of two.                                                           *)
Due == got \o toDevice
ReceiveInv == at = "receive" =>
  /\ Len(got) < SN_LENGTH
  /\ \/ doing # "result" /\ Due = <<>>
     \/ doing # "result" /\ Due # <<>> /\ Due[1] \in PrefixBytes \union Keys
     \/ /\ doing \in {"result", "menu"} /\ writing \in submitted
        /\ Due = Text[writing]

(* The second byte of a status has arrived: the first one may be a byte    *)
(* _start_command left over.                                               *)
Arrived(code) == \E i \in 2 .. Len(toTool) : toTool[i] = code

(* A go-ahead (F013) that waits for the tool answers the present call, and *)
(* the F016 of an earlier one is in front of it.                           *)
ReadyInv == doing = "ready" /\ Arrived("F013") =>
  /\ toDevice = <<>> /\ at # "program" /\ (at = "receive" => got = <<>>)
  /\ \A i \in 2 .. Len(toTool), j \in 1 .. Len(toTool) :
       toTool[i] = "F013" /\ toTool[j] = "F016" => j < i

(* Behind a payload, what is programmed and what F016 reports is its       *)
(* number.                                                                 *)
ResultInv == doing = "result" =>
  /\ at = "program" => received \in {writing, NoSN}
  /\ Arrived("F016") => stored = writing

ProgramInv == at = "program" => received \in submitted \union {NoSN}

(* The tool can read no number but the stored one, with the two bytes it   *)
(* may have taken for a number's start already.                            *)
StreamInv == WholeNumbers(first \o toTool, stored)

ToldInv ==
  \/ told \in {Nothing, Failed}
  \/ stored \in SNs /\ told \in {Written(stored), Read(stored)}

SessionInv ==
  /\ SessionTypeOK /\ CommandInv /\ ReceiveInv /\ ReadyInv
  /\ ResultInv /\ ProgramInv /\ StreamInv /\ ToldInv
-----------------------------------------------------------------------------
(* What the device says.                                                   *)
Said(code) ==
  \/ doing = "menu" /\ toTool' = Status(code)
  \/ toTool' = toTool \o Status(code)
  \/ toTool # <<>> /\ toTool' = Front(toTool) \o Status(code)

LEMMA PrefixFacts ==
  ASSUME NEW line \in Line, NEW d \in 0 .. Len(line)
  PROVE  /\ SubSeq(line, 1, d) \in Line /\ Len(SubSeq(line, 1, d)) = d
         /\ \A i \in 1 .. d : SubSeq(line, 1, d)[i] = line[i]
  BY DEF Line

LEMMA FrontFacts ==
  ASSUME NEW line \in Line, line # <<>>
  PROVE  /\ Front(line) \in Line /\ Len(line) \in Nat \ {0}
         /\ Len(Front(line)) = Len(line) - 1
         /\ \A i \in 1 .. Len(line) - 1 : Front(line)[i] = line[i]
  <1>1. Len(line) \in Nat \ {0}
    <2>1. Len(line) \in Nat /\ (Len(line) = 0 => line = <<>>)
      BY DEF Line
    <2> QED BY <2>1
  <1>2. Len(line) - 1 \in 0 .. Len(line)
    BY <1>1
  <1> QED BY <1>1, <1>2, PrefixFacts DEF Front

LEMMA EmptyConcat == \A s \in Line : <<>> \o s = s /\ s \o <<>> = s
  BY DEF Line

LEMMA Associates ==
  ASSUME NEW s \in Line, NEW t \in Line, NEW u \in Line
  PROVE  s \o (t \o u) = (s \o t) \o u
  BY DEF Line

LEMMA StatusAdded ==
  ASSUME NEW line \in Line, NEW code \in StatusBytes, NEW s,
         \/ s = line \o Status(code)
         \/ line # <<>> /\ s = Front(line) \o Status(code)
  PROVE  s \in Line /\ Extended(line, code, s)
  <1> DEFINE t == Status(code)
  <1>1. t \in Line /\ Len(t) = 2 /\ t[1] = "F0" /\ t[2] = code
    BY StatusFacts
  <1> HIDE DEF t
  <1>2. ASSUME NEW h \in Line, s = h \o t
        PROVE  /\ s \in Line /\ Len(s) = Len(h) + 2 /\ Len(h) \in Nat
               /\ \A i \in 1 .. Len(h) : s[i] = h[i]
               /\ s[Len(s) - 1] = "F0" /\ s[Len(s)] = code
    <2>1. /\ h \o t \in Line /\ Len(h) \in Nat
          /\ Len(h \o t) = Len(h) + Len(t)
          /\ \A i \in 1 .. Len(h) : (h \o t)[i] = h[i]
          /\ \A i \in 1 .. Len(h) + Len(t) :
               i > Len(h) => i - Len(h) \in 1 .. Len(t)
                             /\ (h \o t)[i] = t[i - Len(h)]
      BY <1>1, Concat
    <2>2. s[Len(h) + 1] = t[1] /\ s[Len(h) + 2] = t[2]
      <3>1. /\ Len(h) + 1 \in 1 .. Len(h) + Len(t) /\ (Len(h) + 1) - Len(h) = 1
            /\ Len(h) + 2 \in 1 .. Len(h) + Len(t) /\ (Len(h) + 2) - Len(h) = 2
        BY <2>1, <1>1
      <3> QED BY <3>1, <2>1, <1>2
    <2> QED BY <2>1, <2>2, <1>1, <1>2
  <1>3. CASE s = line \o t
    <2>1. /\ s \in Line /\ Len(s) = Len(line) + 2 /\ Len(line) \in Nat
          /\ \A i \in 1 .. Len(line) : s[i] = line[i]
          /\ s[Len(s) - 1] = "F0" /\ s[Len(s)] = code
      BY <1>2, <1>3
    <2> QED BY <2>1 DEF Extended
  <1>4. CASE line # <<>> /\ s = Front(line) \o t
    <2> DEFINE h == Front(line)
    <2>1. /\ h \in Line /\ Len(line) \in Nat \ {0} /\ Len(h) = Len(line) - 1
          /\ \A i \in 1 .. Len(line) - 1 : h[i] = line[i]
      BY <1>4, FrontFacts
    <2> HIDE DEF h
    <2>2. s = h \o t
      BY <1>4 DEF h
    <2>3. /\ s \in Line /\ Len(s) = Len(h) + 2 /\ Len(h) \in Nat
          /\ \A i \in 1 .. Len(h) : s[i] = h[i]
          /\ s[Len(s) - 1] = "F0" /\ s[Len(s)] = code
      BY <2>1, <2>2, <1>2
    <2> QED BY <2>1, <2>3 DEF Extended
  <1> QED BY <1>3, <1>4 DEF t

LEMMA SaidBytes ==
  ASSUME toTool \in Line, NEW code \in StatusBytes, Said(code)
  PROVE  /\ toTool' \in Line
         /\ \A i \in 1 .. Len(toTool') : toTool'[i] \notin {"F0", code} =>
              i \in 1 .. Len(toTool) /\ toTool'[i] = toTool[i]
  <1> DEFINE line == IF toTool' = Status(code) THEN <<>> ELSE toTool
             s == toTool'
  <1>1. line \in Line /\ s \in Line /\ Extended(line, code, s)
    <2>1. CASE toTool' = Status(code)
      <3>1. Status(code) \in Line /\ Status(code) = <<>> \o Status(code)
        BY StatusFacts, EmptyConcat
      <3> QED BY <2>1, <3>1, EmptyWhole, StatusAdded
    <2>2. CASE toTool' # Status(code)
      BY <2>2, StatusAdded DEF Said
    <2> QED BY <2>1, <2>2
  <1>2. line = <<>> \/ line = toTool
    OBVIOUS
  <1> HIDE DEF line, s
  <1>3. ASSUME NEW i \in 1 .. Len(s), s[i] \notin {"F0", code}
        PROVE  i \in 1 .. Len(toTool) /\ s[i] = toTool[i]
    <2>1. i \in 1 .. Len(s) - 2
      BY <1>1, <1>3 DEF Extended
    <2>2. i \in 1 .. Len(line) /\ s[i] = line[i]
      BY <2>1, <1>1 DEF Extended
    <2> QED BY <2>2, <1>2
  <1> QED BY <1>1, <1>3 DEF s

LEMMA SaidWhole ==
  ASSUME SessionTypeOK, NEW code \in StatusBytes, Said(code), first' = first,
         NEW n, WholeNumbers(first \o toTool, n)
  PROVE  WholeNumbers(first' \o toTool', n)
  <1> DEFINE t == Status(code)
             line == first \o toTool
  <1>1. t \in Line /\ first \in Line /\ toTool \in Line
    BY StatusFacts DEF SessionTypeOK
  <1>2. line \in Line
    BY <1>1, Concat
  <1>3. CASE doing = "menu" /\ toTool' = t
    <2>1. first = <<>>
      BY <1>3 DEF SessionTypeOK
    <2>2. <<>> \o t = t /\ <<>> \in Line /\ WholeNumbers(<<>>, n)
      BY <1>1, EmptyConcat, EmptyWhole
    <2>3. Extended(<<>>, code, t)
      BY <2>2, StatusAdded
    <2>4. WholeNumbers(t, n)
      BY <1>1, <2>2, <2>3, StatusWhole
    <2> QED BY <2>1, <2>2, <2>4, <1>3
  <1>4. CASE toTool' = toTool \o t
    <2>1. first' \o toTool' = line \o t
      <3> HIDE DEF t
      <3> QED BY <1>1, <1>4 DEF Line
    <2> HIDE DEF line
    <2>2. line \o t \in Line /\ Extended(line, code, line \o t)
      BY <1>2, StatusAdded
    <2> QED BY <1>2, <2>1, <2>2, StatusWhole DEF line
  <1>5. CASE toTool # <<>> /\ toTool' = Front(toTool) \o t
    <2>1. line # <<>>
      BY <1>1, <1>5 DEF Line
    <2>2. Front(toTool) \in Line
      BY <1>1, <1>5, FrontFacts
    <2>3. first \o Front(toTool) = Front(line)
      BY <1>1, <1>5 DEF Line, Front
    <2>4. first' \o toTool' = Front(line) \o t
      <3> HIDE DEF t, line
      <3>1. first \o (Front(toTool) \o t) = (first \o Front(toTool)) \o t
        BY <1>1, <2>2 DEF Line
      <3> QED BY <3>1, <2>3, <1>5
    <2> HIDE DEF line
    <2>5. Front(line) \o t \in Line /\ Extended(line, code, Front(line) \o t)
      BY <1>2, <2>1, StatusAdded
    <2> QED BY <1>2, <2>4, <2>5, StatusWhole DEF line
  <1> QED BY <1>3, <1>4, <1>5 DEF Said
-----------------------------------------------------------------------------
(* What happens to the bytes on their way to the device.                   *)

LEMMA TailW ==
  ASSUME NEW line \in Line, line # <<>>
  PROVE  /\ WLast(line) => WLast(Tail(line))
         /\ NoW(line) => NoW(Tail(line)) /\ Head(line) # "W"
         /\ WLast(line) /\ Head(line) = "W" => Tail(line) = <<>>
  <1>1. /\ Tail(line) \in Line /\ Len(line) \in Nat
        /\ Len(Tail(line)) = Len(line) - 1
        /\ \A i \in 1 .. Len(line) - 1 : Tail(line)[i] = line[i + 1]
    BY TailFacts DEF Line
  <1>2. Len(line) >= 1 /\ Head(line) = line[1]
    <2>1. Len(line) = 0 => line = <<>>
      BY DEF Line
    <2> QED BY <2>1, <1>1 DEF Line
  <1>3. WLast(line) => WLast(Tail(line))
    <2> SUFFICES ASSUME WLast(line), NEW i \in 1 .. Len(Tail(line)),
                        Tail(line)[i] = "W"
                 PROVE  i = Len(Tail(line))
      BY DEF WLast
    <2>1. i + 1 \in 1 .. Len(line) /\ line[i + 1] = "W"
      BY <1>1
    <2>2. i + 1 = Len(line)
      BY <2>1 DEF WLast
    <2> QED BY <2>2, <1>1
  <1>4. NoW(line) => NoW(Tail(line)) /\ Head(line) # "W"
    BY <1>1, <1>2 DEF NoW
  <1>5. WLast(line) /\ Head(line) = "W" => Tail(line) = <<>>
    <2> SUFFICES ASSUME WLast(line), Head(line) = "W" PROVE Tail(line) = <<>>
      OBVIOUS
    <2>1. 1 \in 1 .. Len(line) /\ line[1] = "W"
      BY <1>1, <1>2
    <2>3. Len(line) = 1
      BY <2>1 DEF WLast
    <2>2. Len(Tail(line)) = 0
      BY <2>3, <1>1
    <2> QED BY <2>2, <1>1 DEF Line
  <1> QED BY <1>3, <1>4, <1>5

Dwindles ==
  \/ toDevice' \in Overrun(toDevice)
  \/ toDevice # <<>> /\ toDevice' \in Overrun(Tail(toDevice))
  \/ toDevice # <<>> /\ toDevice' = Tail(toDevice)

LEMMA DwindlesFacts ==
  ASSUME toDevice \in Line, Dwindles
  PROVE  /\ toDevice' \in Line
         /\ WLast(toDevice) => WLast(toDevice')
         /\ NoW(toDevice) => NoW(toDevice')
         /\ toDevice = <<>> => toDevice' = <<>>
  <1>1. CASE toDevice' \in Overrun(toDevice)
    BY <1>1, OverrunFacts
  <1>2. CASE toDevice # <<>> /\ toDevice' \in Overrun(Tail(toDevice))
    <2>1. Tail(toDevice) \in Line
      BY <1>2, TailFacts
    <2> QED BY <1>2, <2>1, TailW, OverrunFacts
  <1>3. CASE toDevice # <<>> /\ toDevice' = Tail(toDevice)
    BY <1>3, TailFacts, TailW
  <1> QED BY <1>1, <1>2, <1>3 DEF Dwindles
-----------------------------------------------------------------------------
(* The device says something that is no success, and is in no command.     *)
Rests ==
  /\ UNCHANGED <<doing, writing, first, told, submitted>>
  /\ at' \in {"menu", "app"} /\ got' \in {got, <<>>}
  /\ received' \in {received, NoSN}
  /\ Dwindles
  /\ stored' = stored \/ (stored = NoSN /\ stored' = received)

LEMMA RestsStep ==
  ASSUME SessionInv, Rests, toTool' \in Line,
         WholeNumbers(first' \o toTool', stored'),
         \A i \in 1 .. Len(toTool') : toTool'[i] \in {"F013", "F016"} =>
           i \in 1 .. Len(toTool) /\ toTool'[i] = toTool[i]
  PROVE  SessionInv'
  <1>1. /\ toDevice' \in Line
        /\ WLast(toDevice) => WLast(toDevice')
        /\ NoW(toDevice) => NoW(toDevice')
        /\ toDevice = <<>> => toDevice' = <<>>
    BY DwindlesFacts DEF Rests, SessionInv, SessionTypeOK
  <1>2. UNCHANGED <<doing, writing, first, told, submitted>>
    BY DEF Rests
  <1>3. SessionTypeOK'
    BY <1>1, <1>2, EmptyWhole DEF Rests, SessionInv, SessionTypeOK
  <1>4. CommandInv'
    BY <1>1, <1>2 DEF SessionInv, CommandInv
  <1>5. ReceiveInv' /\ ProgramInv'
    BY DEF Rests, ReceiveInv, ProgramInv
  <1>6. \A c \in {"F013", "F016"} : Arrived(c)' => Arrived(c)
    BY DEF Arrived
  <1>7. ReadyInv'
    <2> SUFFICES ASSUME doing' = "ready", Arrived("F013")'
                 PROVE  /\ toDevice' = <<>>
                        /\ \A i \in 2 .. Len(toTool'), j \in 1 .. Len(toTool') :
                             toTool'[i] = "F013" /\ toTool'[j] = "F016" => j < i
      BY DEF ReadyInv, Rests
    <2>1. /\ toDevice = <<>>
          /\ \A i \in 2 .. Len(toTool), j \in 1 .. Len(toTool) :
               toTool[i] = "F013" /\ toTool[j] = "F016" => j < i
      BY <1>2, <1>6 DEF SessionInv, ReadyInv
    <2>2. ASSUME NEW i \in 2 .. Len(toTool'), NEW j \in 1 .. Len(toTool'),
                 toTool'[i] = "F013", toTool'[j] = "F016"
          PROVE  j < i
      <3>1. i \in 2 .. Len(toTool) /\ toTool[i] = "F013"
        BY <2>2
      <3>2. j \in 1 .. Len(toTool) /\ toTool[j] = "F016"
        BY <2>2
      <3> QED BY <2>1, <3>1, <3>2
    <2> QED BY <2>1, <2>2, <1>1
  <1>8. ResultInv'
    <2> SUFFICES ASSUME doing' = "result", Arrived("F016")'
                 PROVE  stored' = writing'
      BY DEF ResultInv, Rests
    <2>1. stored = writing /\ writing \in SNs
      BY <1>2, <1>6 DEF SessionInv, ResultInv, SessionTypeOK
    <2> QED BY <1>2, <2>1, SerialNumberAssumption DEF Rests
  <1>9. StreamInv'
    BY DEF StreamInv
  <1>10. ToldInv'
    BY <1>2, SerialNumberAssumption DEF Rests, SessionInv, ToldInv
  <1> QED BY <1>3, <1>4, <1>5, <1>7, <1>8, <1>9, <1>10 DEF SessionInv

Quiet(code) == Said(code) /\ Rests

LEMMA QuietStep ==
  ASSUME SessionInv, NEW code \in StatusBytes \ {"F0", "F013", "F016"},
         Quiet(code)
  PROVE  SessionInv'
  <1>1. /\ toTool' \in Line
        /\ \A i \in 1 .. Len(toTool') : toTool'[i] \notin {"F0", code} =>
              i \in 1 .. Len(toTool) /\ toTool'[i] = toTool[i]
    BY SaidBytes DEF Quiet, SessionInv, SessionTypeOK
  <1>2. WholeNumbers(first \o toTool, stored')
    BY NoneWhole DEF Quiet, Rests, SessionInv, StreamInv
  <1>3. WholeNumbers(first' \o toTool', stored')
    BY <1>2, SaidWhole DEF Quiet, Rests, SessionInv
  <1> QED BY <1>1, <1>3, RestsStep DEF Quiet

LEMMA AnswersSaid ==
  ASSUME NEW code, Answers(Status(code))
  PROVE  Said(code)
  BY DEF Answers, Said

LEMMA DeviceQuiet ==
  ASSUME SessionInv,
         WaitStatus \/ Jump \/ CheckApp \/ OtherKey \/ OtherCommand
           \/ CommandTimesOut \/ PayloadTimesOut \/ ProgramFails \/ PowerFails
  PROVE  SessionInv'
  <1>1. CASE WaitStatus
    <2>1. Quiet("F00F")
      BY <1>1, AnswersSaid DEF WaitStatus, Busy, Replies, Quiet, Rests,
        toolVars, Dwindles
    <2> QED BY <2>1, QuietStep DEF StatusBytes
  <1>2. CASE Jump
    <2>1. Quiet("F000") \/ Quiet("F008")
      BY <1>2, AnswersSaid DEF Jump, Key, Received, TakesLast, Busy, Replies,
        Quiet, Rests,
        toolVars, Dwindles
    <2> QED BY <2>1, QuietStep DEF StatusBytes
  <1>3. CASE CheckApp
    <2>1. Quiet("F009") \/ Quiet("F008")
      BY <1>3, AnswersSaid DEF CheckApp, Key, Received, TakesLast, Busy,
        Replies, Quiet, Rests,
        toolVars, Dwindles
    <2> QED BY <2>1, QuietStep DEF StatusBytes
  <1>4. CASE OtherKey
    <2>1. Quiet("F010")
      BY <1>4, AnswersSaid DEF OtherKey, Key, Received, TakesLast, Busy,
        Replies, Quiet, Rests,
        toolVars, Dwindles
    <2> QED BY <2>1, QuietStep DEF StatusBytes
  <1>5. CASE OtherCommand
    <2>1. Quiet("F010")
      BY <1>5, AnswersSaid DEF OtherCommand, Received, TakesLast, Busy,
        Replies, Quiet, Rests,
        toolVars, Dwindles
    <2> QED BY <2>1, QuietStep DEF StatusBytes
  <1>6. CASE CommandTimesOut
    <2>1. Quiet("F014") \/ Quiet("F010")
      BY <1>6, AnswersSaid DEF CommandTimesOut, TimesOut, Busy, Replies,
        Quiet, Rests,
        toolVars, Dwindles
    <2> QED BY <2>1, QuietStep DEF StatusBytes
  <1>7. CASE PayloadTimesOut
    <2>1. Quiet("F014")
      BY <1>7, AnswersSaid DEF PayloadTimesOut, TimesOut, Busy, Replies,
        Quiet, Rests,
        toolVars, Dwindles
    <2> QED BY <2>1, QuietStep DEF StatusBytes
  <1>8. CASE ProgramFails
    <2>1. Quiet("F015") \/ Quiet("F017")
      BY <1>8, AnswersSaid DEF ProgramFails, Busy, Replies, Quiet, Rests,
        toolVars, Dwindles
    <2> QED BY <2>1, QuietStep DEF StatusBytes
  <1>9. CASE PowerFails
    <2>1. Said("F00E")
      BY <1>9, AnswersSaid DEF PowerFails, Said
    <2>2. Quiet("F00E")
      BY <1>9, <2>1 DEF PowerFails, Busy, Quiet, Rests,
        toolVars, Dwindles
    <2> QED BY <2>2, QuietStep DEF StatusBytes
  <1> QED BY <1>1, <1>2, <1>3, <1>4, <1>5, <1>6, <1>7, <1>8, <1>9

LEMMA ReadRequestStep ==
  ASSUME SessionInv, ReadRequest
  PROVE  SessionInv'
  <1>1. CASE stored = NoSN
    <2>1. Quiet("F017")
      BY <1>1, AnswersSaid DEF ReadRequest, Command, Received, TakesLast, Busy,
        Quiet, Rests, toolVars, Dwindles
    <2> QED BY <2>1, QuietStep DEF StatusBytes
  <1>2. CASE stored # NoSN
    <2> DEFINE t == Text[stored]
    <2>1. stored \in SNs
      BY <1>2 DEF SessionInv, SessionTypeOK
    <2>2. /\ t \in Line /\ Len(t) = SN_LENGTH
          /\ \A i \in 1 .. SN_LENGTH : t[i] \notin {"F013", "F016"}
      <3>1. {"F013", "F016"} \subseteq StatusBytes
        BY DEF StatusBytes
      <3> QED BY <2>1, <3>1, StartsFacts, TextFacts
    <2>3. IF doing = "menu" THEN toTool' = t ELSE toTool' = toTool \o t
      BY <1>2 DEF ReadRequest, Answers
    <2>4. Rests
      BY DEF ReadRequest, Command, Received, TakesLast, Busy, Rests, toolVars,
        Dwindles
    <2>5. toTool \in Line /\ first \in Line /\ (doing = "menu" => first = <<>>)
      BY DEF SessionInv, SessionTypeOK
    <2>6. CASE doing = "menu"
      <3>1. WholeNumbers(<<>> \o t, stored)
        BY <2>1, EmptyWhole, TextWhole
      <3>2. first' \o toTool' = <<>> \o t /\ stored' = stored
        BY <2>3, <2>4, <2>5, <2>6 DEF Rests, ReadRequest
      <3>3. WholeNumbers(first' \o toTool', stored')
        BY <3>1, <3>2
      <3> HIDE DEF t
      <3> QED BY <2>2, <2>3, <2>4, <2>6, <3>3, RestsStep
    <2>7. CASE doing # "menu"
      <3> DEFINE line == first \o toTool
      <3>1. line \in Line /\ WholeNumbers(line, stored)
        BY <2>5, Concat DEF SessionInv, StreamInv
      <3>2. WholeNumbers(line \o t, stored)
        BY <2>1, <3>1, TextWhole
      <3>3. first' \o toTool' = line \o t
        <4>1. first' = first /\ toTool' = toTool \o t
          BY <2>3, <2>7, <2>4 DEF Rests
        <4> HIDE DEF t
        <4>2. first \o (toTool \o t) = (first \o toTool) \o t
          BY <2>2, <2>5, Associates
        <4> QED BY <4>1, <4>2
      <3>4. WholeNumbers(first' \o toTool', stored')
        BY <3>2, <3>3 DEF ReadRequest
      <3> HIDE DEF t
      <3>5. /\ toTool \o t \in Line
            /\ Len(toTool \o t) = Len(toTool) + Len(t) /\ Len(toTool) \in Nat
            /\ \A i \in 1 .. Len(toTool) : (toTool \o t)[i] = toTool[i]
            /\ \A i \in 1 .. Len(toTool) + Len(t) :
                 i > Len(toTool) => i - Len(toTool) \in 1 .. Len(t)
                               /\ (toTool \o t)[i] = t[i - Len(toTool)]
        BY <2>2, <2>5, Concat
      <3>6. toTool' = toTool \o t
        BY <2>3, <2>7
      <3>7. ASSUME NEW i \in 1 .. Len(toTool'), toTool'[i] \in {"F013", "F016"}
            PROVE  i \in 1 .. Len(toTool) /\ toTool'[i] = toTool[i]
        <4>1. ASSUME i > Len(toTool) PROVE FALSE
          <5>1. /\ i - Len(toTool) \in 1 .. SN_LENGTH
                /\ toTool'[i] = t[i - Len(toTool)]
            BY <4>1, <3>5, <3>6, <2>2
          <5> QED BY <5>1, <3>7, <2>2
        <4> QED BY <4>1, <3>5, <3>6
      <3> QED BY <2>4, <3>4, <3>5, <3>6, <3>7, RestsStep
    <2> QED BY <2>6, <2>7
  <1> QED BY <1>1, <1>2
-----------------------------------------------------------------------------
(* The device takes bytes.                                                 *)

LEMMA MoveByte ==
  ASSUME NEW s \in Line, NEW t \in Line, t # <<>>
  PROVE  /\ Append(s, Head(t)) \in Line
         /\ Len(Append(s, Head(t))) = Len(s) + 1 /\ Len(s) \in Nat
         /\ Append(s, Head(t)) \o Tail(t) = s \o t
  <1> DEFINE h == Head(t)
             r == Tail(t)
  <1>1. h \in LineBytes /\ r \in Line
    BY DEF Line
  <1>2. t = <<h>> \o r
    BY DEF Line
  <1>3. <<h>> \in Line /\ Append(s, h) = s \o <<h>>
    BY <1>1 DEF Line
  <1>4. Append(s, h) \in Line /\ Len(Append(s, h)) = Len(s) + 1 /\ Len(s) \in Nat
    BY <1>1 DEF Line
  <1> HIDE DEF h, r
  <1>5. (s \o <<h>>) \o r = s \o (<<h>> \o r)
    BY <1>1, <1>3 DEF Line
  <1> QED BY <1>2, <1>3, <1>4, <1>5 DEF h, r

Takes ==
  /\ toDevice # <<>> /\ toDevice' = Tail(toDevice)
  /\ UNCHANGED <<toTool, doing, writing, first, told, submitted, received,
                 stored>>
  /\ at' \in {"menu", "app", "#", "*", "receive", "program"}
  /\ at' = "program" => at = "program"

LEMMA TakesStep ==
  ASSUME SessionInv, Takes, got' \in Line, ReceiveInv'
  PROVE  SessionInv'
  <1>1. /\ toDevice' \in Line
        /\ WLast(toDevice) => WLast(toDevice')
        /\ NoW(toDevice) => NoW(toDevice')
    BY DwindlesFacts DEF Takes, Dwindles, SessionInv, SessionTypeOK
  <1>2. SessionTypeOK' /\ CommandInv'
    BY <1>1 DEF Takes, SessionInv, SessionTypeOK, CommandInv
  <1>3. ReadyInv'
    BY DEF Takes, SessionInv, ReadyInv, Arrived
  <1>4. ResultInv' /\ ProgramInv'
    BY DEF Takes, SessionInv, ResultInv, ProgramInv, Arrived
  <1>5. StreamInv' /\ ToldInv'
    BY DEF Takes, SessionInv, StreamInv, ToldInv
  <1> QED BY <1>2, <1>3, <1>4, <1>5 DEF SessionInv

LEMMA DeviceTakes ==
  ASSUME SessionInv, Receiving \/ Prefix \/ Ignored
  PROVE  SessionInv'
  <1>1. CASE Receiving
    <2>1. got \in Line /\ toDevice \in Line /\ toDevice # <<>>
      BY <1>1 DEF Receiving, SessionInv, SessionTypeOK
    <2>2. /\ got' \in Line /\ Len(got') = Len(got) + 1 /\ Len(got) \in Nat
          /\ Due' = Due
      BY <1>1, <2>1, MoveByte DEF Receiving, Bytes, Due
    <2>3. ReceiveInv'
      <3>1. at = "receive" => Len(got') < SN_LENGTH
        BY LengthFacts, <1>1, <2>2 DEF Receiving, PrefixBytes
      <3> QED BY <1>1, <2>2, <3>1 DEF Receiving, toolVars, SessionInv,
        ReceiveInv
    <2>4. Takes
      BY <1>1 DEF Receiving, Takes, toolVars, SessionInv, SessionTypeOK
    <2> QED BY <2>2, <2>3, <2>4, TakesStep
  <1>2. CASE Prefix
    <2>1. Takes /\ at' # "receive" /\ got' = got
      BY <1>2 DEF Prefix, PrefixBytes, Takes, toolVars
    <2> QED BY <2>1, TakesStep DEF ReceiveInv, SessionInv, SessionTypeOK
  <1>3. CASE Ignored
    <2>1. Takes /\ at' # "receive" /\ got' = got
      BY <1>3 DEF Ignored, Takes, toolVars, deviceVars
    <2> QED BY <2>1, TakesStep DEF ReceiveInv, SessionInv, SessionTypeOK
  <1> QED BY <1>1, <1>2, <1>3

LEMMA WriteRequestStep ==
  ASSUME SessionInv, WriteRequest
  PROVE  SessionInv'
  <1>1. /\ toDevice \in Line /\ toDevice # <<>> /\ got \in Line /\ toTool \in Line
        /\ at = "#" /\ at' = "receive" /\ got' = <<>>
        /\ UNCHANGED <<doing, writing, first, told, submitted, received, stored>>
    BY DEF WriteRequest, Command, Received, TakesLast, toolVars, SessionInv,
      SessionTypeOK
  <1>2. Head(toDevice) = "W"
    <2>1. Append(got, Head(toDevice)) = WriteBody /\ Len(got) = Len(WriteBody) - 1
      BY DEF WriteRequest, Command, Received, Bytes
    <2> DEFINE h == Head(toDevice)
    <2>2. h \in LineBytes
      BY <1>1 DEF Line
    <2> HIDE DEF h
    <2>3. Append(got, h)[Len(got) + 1] = h /\ Len(got) \in Nat
      BY <1>1, <2>2 DEF Line
    <2>4. /\ Len(WriteBody) \in 1 .. Len(WriteBody)
          /\ WriteBody[Len(WriteBody)] = "W"
      BY BodyFacts
    <2>5. Len(got) + 1 = Len(WriteBody)
      BY <2>1, <2>3, <2>4
    <2> QED BY <2>1, <2>3, <2>4, <2>5 DEF h
  <1>3. Tail(toDevice) = <<>> /\ Tail(toDevice) \in Line /\ doing # "result"
    BY <1>1, <1>2, TailW, TailFacts DEF SessionInv, CommandInv
  <1>4. toDevice' = <<>>
    BY <1>3, OverrunFacts DEF WriteRequest, Command, TakesLast, Busy
  <1>5. Answers(Status("F013")) /\ Said("F013") /\ "F013" \in StatusBytes
    BY AnswersSaid DEF WriteRequest, StatusBytes
  <1>6. /\ toTool' \in Line
        /\ \A i \in 1 .. Len(toTool') : toTool'[i] \notin {"F0", "F013"} =>
              i \in 1 .. Len(toTool) /\ toTool'[i] = toTool[i]
    BY <1>1, <1>5, SaidBytes
  <1>7. SessionTypeOK'
    BY <1>1, <1>4, <1>6, EmptyWhole DEF SessionInv, SessionTypeOK
  <1>8. CommandInv'
    BY <1>1, <1>3, <1>4 DEF CommandInv, WLast
  <1>9. ReceiveInv'
    <2>1. Due' = <<>>
      BY <1>1, <1>4, EmptyConcat, EmptyWhole DEF Due
    <2> QED BY LengthFacts, <2>1, <1>1, <1>3 DEF ReceiveInv
  <1>10. ReadyInv'
    <2> SUFFICES ASSUME doing' = "ready",
                        NEW i \in 2 .. Len(toTool'), NEW j \in 1 .. Len(toTool'),
                        toTool'[i] = "F013", toTool'[j] = "F016"
                 PROVE  j < i
      BY <1>1, <1>4 DEF ReadyInv
    <2>1. \A k \in 2 .. Len(toTool) : toTool[k] # "F013"
      BY <1>1 DEF SessionInv, ReadyInv, Arrived
    <2>2. j \in 1 .. Len(toTool)
      BY <1>6
    <2>3. toTool' = toTool \o Status("F013")
      BY <1>1, <1>5 DEF Answers
    <2> DEFINE t == Status("F013")
    <2>4. t \in Line
      BY <1>5, StatusFacts
    <2> HIDE DEF t
    <2>5. /\ Len(toTool) \in Nat
          /\ \A k \in 1 .. Len(toTool) : (toTool \o t)[k] = toTool[k]
      BY <1>1, <2>4, Concat
    <2>6. ~(i <= Len(toTool))
      BY <2>1, <2>3, <2>5, <1>6 DEF t
    <2> QED BY <2>2, <2>5, <2>6
  <1>11. ResultInv' /\ ProgramInv'
    BY <1>1, <1>3 DEF ResultInv, ProgramInv
  <1>12. StreamInv'
    BY <1>1, <1>5, SaidWhole DEF SessionInv, StreamInv
  <1>13. ToldInv'
    BY <1>1 DEF SessionInv, ToldInv
  <1> QED BY <1>7, <1>8, <1>9, <1>10, <1>11, <1>12, <1>13 DEF SessionInv

LEMMA PayloadFacts ==
  ASSUME NEW bytes
  PROVE  /\ PayloadOf(bytes) \in SNs \union {NoSN}
         /\ PayloadOf(bytes) \in SNs => bytes = Text[PayloadOf(bytes)]
         /\ \A n \in SNs : bytes = Text[n] => PayloadOf(bytes) = n
  <1>1. CASE \E n \in SNs : bytes = Text[n]
    <2> DEFINE c == CHOOSE n \in SNs : bytes = Text[n]
    <2>1. c \in SNs /\ bytes = Text[c]
      BY <1>1
    <2>2. PayloadOf(bytes) = c
      BY <1>1 DEF PayloadOf
    <2> HIDE DEF c
    <2> QED BY <2>1, <2>2, SnToolAssumption
  <1>2. CASE ~ \E n \in SNs : bytes = Text[n]
    BY <1>2, SerialNumberAssumption DEF PayloadOf
  <1> QED BY <1>1, <1>2

LEMMA PayloadStep ==
  ASSUME SessionInv, Payload
  PROVE  SessionInv'
  <1>1. /\ toDevice \in Line /\ toDevice # <<>> /\ got \in Line
        /\ at = "receive" /\ at' = "program" /\ got' = <<>>
        /\ received' = PayloadOf(Bytes)
        /\ UNCHANGED <<toTool, doing, writing, first, told, submitted, stored>>
    BY DEF Payload, Received, TakesLast, toolVars, SessionInv, SessionTypeOK
  <1>2. Dwindles
    BY DEF Payload, Received, TakesLast, Busy, Dwindles
  <1>3. /\ Bytes \in Line /\ Len(Bytes) = SN_LENGTH /\ Due = Bytes \o Tail(toDevice)
        /\ Tail(toDevice) \in Line
    <2>1. /\ Bytes \in Line /\ Len(Bytes) = Len(got) + 1
          /\ Bytes \o Tail(toDevice) = Due
      BY <1>1, MoveByte DEF Bytes, Due
    <2>2. Len(got) = SN_LENGTH - 1
      BY DEF Payload, Received
    <2> QED BY LengthFacts, <1>1, <2>1, <2>2, TailFacts
  <1>4. /\ Due \in Line /\ Len(Due) = SN_LENGTH + Len(Tail(toDevice))
        /\ \A i \in 1 .. SN_LENGTH : Bytes[i] = Due[i]
    <2> DEFINE b == Bytes
               r == Tail(toDevice)
    <2>1. b \in Line /\ Len(b) = SN_LENGTH /\ Due = b \o r /\ r \in Line
      BY <1>3
    <2> HIDE DEF b, r
    <2>2. /\ b \o r \in Line /\ Len(b \o r) = Len(b) + Len(r)
          /\ \A i \in 1 .. Len(b) : (b \o r)[i] = b[i]
      BY <2>1, Concat
    <2> QED BY <2>1, <2>2 DEF b, r
  <1>5. \/ doing # "result" /\ Due[1] \in PrefixBytes \union Keys
        \/ writing \in submitted /\ Bytes = Text[writing] /\ writing \in SNs
    <2>1. Due # <<>>
      <3>1. Len(Tail(toDevice)) \in Nat
        BY <1>3 DEF Line
      <3>2. Len(Due) # 0
        BY LengthFacts, <3>1, <1>4
      <3> QED BY <3>2
    <2>2. ASSUME writing \in submitted, Due = Text[writing]
          PROVE  writing \in SNs /\ Bytes = Text[writing]
      <3>1. writing \in SNs /\ Len(Due) = SN_LENGTH
        BY <2>2, StartsFacts DEF SessionInv, SessionTypeOK
      <3>2. Bytes = Due
        BY <3>1, <1>3, <1>4 DEF Line
      <3> QED BY <3>1, <3>2, <2>2
    <2> QED BY <2>1, <2>2, <1>1 DEF SessionInv, ReceiveInv
  <1>6. received' \in submitted \union {NoSN}
        /\ (doing = "result" => received' \in {writing, NoSN})
    <2>1. CASE Due[1] \in PrefixBytes \union Keys /\ doing # "result"
      <3>1. 1 \in 1 .. SN_LENGTH
        BY LengthFacts
      <3>2. \A n \in SNs : Text[n][1] \notin PrefixBytes \union Keys
        BY <3>1, TextFacts, SnToolAssumption
      <3>3. Bytes[1] = Due[1]
        BY <3>1, <1>4
      <3> QED BY <2>1, <3>2, <3>3, <1>1, PayloadFacts
    <2>2. CASE writing \in submitted /\ Bytes = Text[writing] /\ writing \in SNs
      BY <2>2, <1>1, PayloadFacts
    <2> QED BY <2>1, <2>2, <1>5
  <1>7. /\ toDevice' \in Line
        /\ WLast(toDevice) => WLast(toDevice')
        /\ NoW(toDevice) => NoW(toDevice')
    BY <1>1, <1>2, DwindlesFacts
  <1>8. SessionTypeOK'
    BY <1>1, <1>6, <1>7, EmptyWhole DEF SessionInv, SessionTypeOK
  <1>9. CommandInv' /\ ReceiveInv'
    BY <1>1, <1>7 DEF SessionInv, CommandInv, ReceiveInv
  <1>10. ReadyInv'
    BY <1>1 DEF SessionInv, ReadyInv, Arrived
  <1>11. ResultInv' /\ ProgramInv'
    BY <1>1, <1>6 DEF SessionInv, ResultInv, ProgramInv, Arrived
  <1>12. StreamInv' /\ ToldInv'
    BY <1>1 DEF SessionInv, StreamInv, ToldInv
  <1> QED BY <1>8, <1>9, <1>10, <1>11, <1>12 DEF SessionInv

LEMMA ProgramSucceedsStep ==
  ASSUME SessionInv, ProgramSucceeds
  PROVE  SessionInv'
  <1>1. /\ toDevice \in Line /\ toTool \in Line
        /\ at = "program" /\ at' = "menu" /\ received # NoSN
        /\ stored = NoSN /\ stored' = received /\ received \in SNs
        /\ UNCHANGED <<doing, writing, first, told, submitted, got, received>>
    BY DEF ProgramSucceeds, Replies, toolVars, SessionInv, SessionTypeOK
  <1>2. Said("F016") /\ "F016" \in StatusBytes /\ Dwindles
    BY AnswersSaid DEF ProgramSucceeds, Replies, Busy, Dwindles, StatusBytes
  <1>3. /\ toTool' \in Line
        /\ \A i \in 1 .. Len(toTool') : toTool'[i] \notin {"F0", "F016"} =>
              i \in 1 .. Len(toTool) /\ toTool'[i] = toTool[i]
    BY <1>1, <1>2, SaidBytes
  <1>4. /\ toDevice' \in Line
        /\ WLast(toDevice) => WLast(toDevice')
        /\ NoW(toDevice) => NoW(toDevice')
    BY <1>1, <1>2, DwindlesFacts
  <1>5. SessionTypeOK'
    BY <1>1, <1>3, <1>4 DEF SessionInv, SessionTypeOK
  <1>6. CommandInv' /\ ReceiveInv' /\ ProgramInv'
    BY <1>1, <1>4 DEF SessionInv, CommandInv, ReceiveInv, ProgramInv
  <1>7. ReadyInv'
    <2>1. doing = "ready" => \A i \in 2 .. Len(toTool) : toTool[i] # "F013"
      BY <1>1 DEF SessionInv, ReadyInv, Arrived
    <2> QED BY <2>1, <1>1, <1>3 DEF ReadyInv, Arrived
  <1>8. ResultInv'
    BY <1>1 DEF SessionInv, ResultInv
  <1>9. StreamInv'
    <2>1. WholeNumbers(first \o toTool, stored')
      BY <1>1, NoneWhole DEF SessionInv, StreamInv
    <2>2. WholeNumbers(first' \o toTool', stored')
      BY <1>1, <1>2, <2>1, SaidWhole DEF SessionInv
    <2> QED BY <2>2 DEF StreamInv
  <1>10. ToldInv'
    BY <1>1, SerialNumberAssumption DEF SessionInv, ToldInv
  <1> QED BY <1>5, <1>6, <1>7, <1>8, <1>9, <1>10 DEF SessionInv
-----------------------------------------------------------------------------
(* The user calls the tool.                                                *)

LEMMA CallStep ==
  ASSUME SessionInv, NEW what \in {"answer", "number", "ready"},
         NEW bytes \in Line, Calls(what, bytes), UNCHANGED deviceVars,
         bytes # <<>>, bytes[1] \in PrefixBytes \union Keys, WLast(bytes),
         writing' \in SNs \union {NoSN}, what = "ready" => writing' \in SNs
  PROVE  SessionInv'
  <1>1. /\ toDevice = <<>> /\ toDevice' = bytes /\ told' = Nothing
        /\ doing = "menu" /\ doing' = what /\ first = <<>>
        /\ UNCHANGED <<first, submitted, at, got, received, stored>>
        /\ toTool \in Line /\ got \in Line
    BY EmptyConcat DEF Calls, _start_command, Sends, deviceVars, SessionInv,
      SessionTypeOK
  <1>2. toTool' = <<>> \/ (toTool # <<>> /\ toTool' = <<Last(toTool)>>)
    BY DEF Calls, _start_command
  <1>3. /\ toTool' \in Line /\ Len(toTool') \in {0, 1}
        /\ WholeNumbers(first' \o toTool', stored')
    <2>1. WholeNumbers(toTool, stored)
      BY <1>1, EmptyConcat DEF SessionInv, StreamInv
    <2>2. toTool' \in Line /\ WholeNumbers(toTool', stored)
      BY <1>1, <1>2, <2>1, EmptyWhole, LastWhole
    <2>3. Len(toTool') \in {0, 1}
      BY <1>2
    <2> QED BY <1>1, <2>2, <2>3, EmptyConcat
  <1>4. SessionTypeOK'
    BY <1>1, <1>3 DEF SessionInv, SessionTypeOK
  <1>5. CommandInv'
    BY <1>1 DEF CommandInv
  <1>6. ReceiveInv'
    <2> SUFFICES ASSUME at = "receive"
                 PROVE  /\ Len(got') < SN_LENGTH
                        /\ Due' # <<>> /\ Due'[1] \in PrefixBytes \union Keys
      BY <1>1 DEF ReceiveInv
    <2>1. Due = got /\ Due' = got \o bytes
      BY <1>1, EmptyConcat DEF Due
    <2>2. Len(got) < SN_LENGTH /\ Len(got') < SN_LENGTH
      BY <1>1 DEF SessionInv, ReceiveInv
    <2>3. CASE got = <<>>
      <3>1. Due' = bytes
        BY <2>1, <2>3, EmptyConcat
      <3> QED BY <2>2, <3>1
    <2>4. CASE got # <<>> /\ got[1] \in PrefixBytes \union Keys
      <3>1. Len(got) >= 1
        <4>1. Len(got) \in Nat /\ (Len(got) = 0 => got = <<>>)
          BY <1>1 DEF Line
        <4> QED BY <4>1, <2>4
      <3>2. /\ got \o bytes \in Line /\ Len(got \o bytes) = Len(got) + Len(bytes)
            /\ Len(got) \in Nat /\ Len(bytes) \in Nat
            /\ \A i \in 1 .. Len(got) : (got \o bytes)[i] = got[i]
        BY <1>1, Concat
      <3>3. Due'[1] = got[1] /\ Due' # <<>>
        BY <2>1, <3>1, <3>2
      <3> QED BY <2>2, <2>4, <3>3
    <2>5. ~(writing \in submitted /\ got = Text[writing])
      BY <2>2, StartsFacts DEF SessionInv, SessionTypeOK
    <2> QED BY <2>1, <2>3, <2>4, <2>5 DEF SessionInv, ReceiveInv
  <1>7. ReadyInv' /\ ResultInv'
    BY <1>1, <1>3 DEF ReadyInv, ResultInv, Arrived
  <1>8. ProgramInv' /\ StreamInv' /\ ToldInv'
    BY <1>1, <1>3 DEF SessionInv, ProgramInv, StreamInv, ToldInv
  <1> QED BY <1>4, <1>5, <1>6, <1>7, <1>8 DEF SessionInv

LEMMA CommandFacts ==
  ASSUME NEW prefix \in PrefixBytes, NEW body \in Line, WLast(body)
  PROVE  LET b == <<prefix>> \o body
         IN  b \in Line /\ b # <<>> /\ b[1] = prefix /\ WLast(b)
  <1> DEFINE p == <<prefix>>
             b == p \o body
  <1>1. p \in Line /\ Len(p) = 1 /\ p[1] = prefix /\ prefix # "W"
    <2>1. prefix \in LineBytes
      BY DEF LineBytes
    <2> QED BY <2>1 DEF Line, PrefixBytes
  <1> HIDE DEF p
  <1>2. /\ b \in Line /\ Len(body) \in Nat /\ Len(b) = Len(p) + Len(body)
        /\ \A i \in 1 .. Len(p) : b[i] = p[i]
        /\ \A i \in 1 .. Len(p) + Len(body) :
             i > Len(p) => i - Len(p) \in 1 .. Len(body) /\ b[i] = body[i - Len(p)]
    BY <1>1, Concat
  <1> HIDE DEF b
  <1>3. b[1] = prefix /\ b # <<>>
    BY <1>1, <1>2
  <1>4. ASSUME NEW i \in 1 .. Len(b), b[i] = "W" PROVE i = Len(b)
    <2>1. i > 1
      BY <1>1, <1>2, <1>3, <1>4
    <2>2. i - 1 \in 1 .. Len(body) /\ body[i - 1] = "W"
      BY <1>1, <1>2, <1>4, <2>1
    <2>3. i - 1 = Len(body)
      BY <2>2 DEF WLast
    <2> QED BY <2>3, <1>1, <1>2
  <1> QED BY <1>2, <1>3, <1>4 DEF WLast, b, p

LEMMA ToolCalls ==
  ASSUME SessionInv, press_key \/ read_sn \/ write_sn, UNCHANGED deviceVars
  PROVE  SessionInv'
  <1>1. CASE press_key
    <2>1. PICK key \in Keys : Calls("answer", <<key>>)
      BY <1>1 DEF press_key
    <2>2. /\ <<key>> \in Line /\ <<key>> # <<>>
          /\ <<key>>[1] \in Keys /\ WLast(<<key>>)
      <3>1. key \in LineBytes /\ key # "W"
        BY DEF LineBytes, Keys
      <3> QED BY <3>1 DEF Line, WLast
    <2>3. writing' \in SNs \union {NoSN}
      BY <1>1 DEF press_key, SessionInv, SessionTypeOK
    <2> QED BY <2>1, <2>2, <2>3, CallStep
  <1>2. CASE read_sn
    <2> DEFINE b == <<"*">> \o ReadBody
    <2>1. /\ b \in Line /\ b # <<>> /\ b[1] = "*" /\ WLast(b)
      BY BodyFacts, CommandFacts DEF PrefixBytes, NoW, WLast
    <2>2. b[1] \in PrefixBytes
      BY <2>1 DEF PrefixBytes
    <2>3. writing' \in SNs \union {NoSN} /\ Calls("number", b)
      BY <1>2 DEF read_sn, SessionInv, SessionTypeOK
    <2> HIDE DEF b
    <2> QED BY <2>1, <2>2, <2>3, CallStep
  <1>3. CASE write_sn
    <2> DEFINE b == <<"#">> \o WriteBody
    <2>1. /\ b \in Line /\ b # <<>> /\ b[1] = "#" /\ WLast(b)
      BY BodyFacts, CommandFacts DEF PrefixBytes, NoW, WLast
    <2>2. b[1] \in PrefixBytes
      BY <2>1 DEF PrefixBytes
    <2>3. writing' \in SNs /\ Calls("ready", b)
      BY <1>3 DEF write_sn
    <2> HIDE DEF b
    <2> QED BY <2>1, <2>2, <2>3, CallStep
  <1> QED BY <1>1, <1>2, <1>3
-----------------------------------------------------------------------------
(* The tool reads.                                                         *)

LEMMA ToolWhole ==
  ASSUME SessionInv
  PROVE  WholeNumbers(toTool, stored)
  <1> DEFINE line == first \o toTool
             d == Len(first)
  <1>1. first \in Line /\ toTool \in Line
    BY DEF SessionInv, SessionTypeOK
  <1>2. /\ line \in Line /\ Len(line) = d + Len(toTool)
        /\ d \in Nat /\ Len(toTool) \in Nat
        /\ \A i \in 1 .. d + Len(toTool) :
             i > d => i - d \in 1 .. Len(toTool) /\ line[i] = toTool[i - d]
    BY <1>1, Concat
  <1>3. WholeNumbers(line, stored)
    BY DEF SessionInv, StreamInv
  <1> HIDE DEF line, d
  <1> DEFINE s == SubSeq(line, d + 1, Len(line))
  <1>4. d \in 0 .. Len(line)
    BY <1>2
  <1>5. WholeNumbers(s, stored)
    BY <1>2, <1>3, <1>4, SuffixWhole
  <1>6. /\ s \in Line /\ Len(s) = Len(line) - d
        /\ \A i \in 1 .. Len(line) - d : s[i] = line[i + d]
    BY <1>2, <1>4, Suffix
  <1> HIDE DEF s
  <1>7. Len(s) = Len(toTool)
    BY <1>2, <1>6
  <1>8. ASSUME NEW i \in 1 .. Len(toTool)
        PROVE  s[i] = toTool[i]
    <2>1. /\ i + d \in 1 .. d + Len(toTool) /\ i + d > d /\ (i + d) - d = i
          /\ i \in 1 .. Len(line) - d
      BY <1>2
    <2>2. line[i + d] = toTool[i]
      BY <2>1, <1>2
    <2> QED BY <2>1, <2>2, <1>6
  <1>9. s = toTool
    BY <1>1, <1>6, <1>7, <1>8, SeqEqual DEF Line
  <1> QED BY <1>5, <1>9

(* The tool takes d bytes.                                                 *)
Reads(d) ==
  /\ toTool' \in Line /\ WholeNumbers(toTool', stored)
  /\ d \in 1 .. Len(toTool) /\ Len(toTool') = Len(toTool) - d
  /\ Len(toTool) \in Nat
  /\ \A i \in 1 .. Len(toTool) - d : toTool'[i] = toTool[i + d]

LEMMA FrameRead ==
  ASSUME SessionInv, HaveFrame
  PROVE  Reads(2) /\ Frame = <<toTool[1], toTool[2]>> /\ Frame \in Line
  <1>1. toTool \in Line /\ Len(toTool) \in Nat /\ 2 \in 0 .. Len(toTool)
        /\ 2 \in 1 .. Len(toTool)
    BY DEF SessionInv, SessionTypeOK, HaveFrame, Line
  <1>2. toTool' = SubSeq(toTool, 2 + 1, Len(toTool))
    BY DEF HaveFrame
  <1>3. WholeNumbers(toTool', stored)
    BY <1>1, <1>2, ToolWhole, SuffixWhole
  <1>4. Reads(2)
    BY <1>1, <1>2, <1>3, Suffix DEF Reads
  <1>5. /\ SubSeq(toTool, 1, 2) \in Line /\ Len(SubSeq(toTool, 1, 2)) = 2
        /\ \A i \in 1 .. 2 : SubSeq(toTool, 1, 2)[i] = toTool[i]
    BY <1>1, PrefixFacts
  <1>6. Frame = <<toTool[1], toTool[2]>>
    <2> DEFINE f == SubSeq(toTool, 1, 2)
    <2>1. f \in Seq(LineBytes) /\ Len(f) = 2 /\ f[1] = toTool[1] /\ f[2] = toTool[2]
      BY <1>5 DEF Line
    <2> HIDE DEF f
    <2>2. f = <<f[1], f[2]>>
      BY <2>1
    <2> QED BY <2>1, <2>2 DEF Frame, f
  <1> QED BY <1>4, <1>5, <1>6 DEF Frame

LEMMA ReadStep ==
  ASSUME SessionInv, NEW d, Reads(d), first = <<>>,
         UNCHANGED <<toDevice, toolVars, deviceVars>>
  PROVE  SessionInv'
  <1>1. UNCHANGED <<toDevice, doing, writing, first, told, submitted, at, got,
                    received, stored>>
    BY DEF toolVars, deviceVars
  <1>2. \A c : Arrived(c)' => Arrived(c)
    <2> SUFFICES ASSUME NEW c, NEW i \in 2 .. Len(toTool'), toTool'[i] = c
                 PROVE  Arrived(c)
      BY DEF Arrived
    <2>1. i + d \in 2 .. Len(toTool) /\ toTool[i + d] = c
      BY DEF Reads
    <2> QED BY <2>1 DEF Arrived
  <1>3. SessionTypeOK' /\ CommandInv'
    BY <1>1 DEF Reads, SessionInv, SessionTypeOK, CommandInv
  <1>4. ReceiveInv' /\ ProgramInv' /\ ToldInv'
    BY <1>1 DEF SessionInv, ReceiveInv, ProgramInv, ToldInv, Due
  <1>5. ReadyInv'
    <2> SUFFICES ASSUME doing' = "ready", Arrived("F013")'
                 PROVE  ReadyInv'
      BY DEF ReadyInv
    <2>1. doing = "ready" /\ Arrived("F013")
      BY <1>1, <1>2
    <2>2. /\ toDevice = <<>> /\ at # "program" /\ (at = "receive" => got = <<>>)
          /\ \A i \in 2 .. Len(toTool), j \in 1 .. Len(toTool) :
               toTool[i] = "F013" /\ toTool[j] = "F016" => j < i
      BY <2>1 DEF SessionInv, ReadyInv
    <2>3. ASSUME NEW i \in 2 .. Len(toTool'), NEW j \in 1 .. Len(toTool'),
                 toTool'[i] = "F013", toTool'[j] = "F016"
          PROVE  j < i
      <3>1. i + d \in 2 .. Len(toTool) /\ toTool[i + d] = "F013"
        BY <2>3 DEF Reads
      <3>2. j + d \in 1 .. Len(toTool) /\ toTool[j + d] = "F016"
        BY <2>3 DEF Reads
      <3>3. j + d < i + d
        BY <3>1, <3>2, <2>2
      <3> QED BY <3>3 DEF Reads
    <2> QED BY <2>2, <2>3, <1>1 DEF ReadyInv
  <1>6. ResultInv'
    BY <1>1, <1>2 DEF SessionInv, ResultInv
  <1>7. StreamInv'
    BY <1>1, EmptyConcat DEF Reads, StreamInv
  <1> QED BY <1>3, <1>4, <1>5, <1>6, <1>7 DEF SessionInv

(* A call ends.                                                            *)
LEMMA EndStep ==
  ASSUME SessionInv, doing' = "menu", first' = <<>>, ToldInv',
         toTool' \in Line, WholeNumbers(toTool', stored),
         UNCHANGED <<toDevice, writing, submitted, deviceVars>>
  PROVE  SessionInv'
  <1>1. UNCHANGED <<toDevice, writing, submitted, at, got, received, stored>>
    BY DEF deviceVars
  <1>2. SessionTypeOK' /\ CommandInv'
    BY <1>1, EmptyWhole DEF SessionInv, SessionTypeOK, CommandInv
  <1>3. ReceiveInv' /\ ProgramInv'
    BY <1>1 DEF SessionInv, ReceiveInv, ProgramInv, Due
  <1>4. ReadyInv' /\ ResultInv'
    BY DEF ReadyInv, ResultInv
  <1>5. StreamInv'
    BY <1>1, EmptyConcat DEF StreamInv
  <1> QED BY <1>2, <1>3, <1>4, <1>5 DEF SessionInv

LEMMA NumberFacts ==
  ASSUME NEW bytes
  PROVE  \/ NumberOf(bytes) = Failed
         \/ \E n \in SNs : bytes = Text[n] /\ NumberOf(bytes) = Read(n)
  <1>1. CASE \E n \in SNs : bytes = Text[n]
    <2> DEFINE c == CHOOSE n \in SNs : bytes = Text[n]
    <2>1. c \in SNs /\ bytes = Text[c]
      BY <1>1
    <2>2. NumberOf(bytes) = Read(c)
      BY <1>1 DEF NumberOf
    <2> HIDE DEF c
    <2> QED BY <2>1, <2>2
  <1>2. CASE ~ \E n \in SNs : bytes = Text[n]
    BY <1>2 DEF NumberOf
  <1> QED BY <1>1, <1>2

LEMMA ToolReads ==
  ASSUME SessionInv, SkipBackground \/ AwaitAnswer \/ DropLoneByte \/ GiveUp,
         UNCHANGED deviceVars
  PROVE  SessionInv'
  <1>1. CASE SkipBackground
    <2>1. HaveFrame /\ first = <<>> /\ UNCHANGED <<toDevice, toolVars>>
      BY <1>1 DEF SkipBackground, SessionInv, SessionTypeOK
    <2> QED BY <2>1, FrameRead, ReadStep
  <1>2. CASE AwaitAnswer
    <2>1. /\ HaveFrame /\ doing' = "menu" /\ told' = Nothing /\ first' = <<>>
          /\ UNCHANGED <<toDevice, writing, submitted>>
      BY <1>2 DEF AwaitAnswer, Tells, SessionInv, SessionTypeOK
    <2>2. toTool' \in Line /\ WholeNumbers(toTool', stored)
      BY <2>1, FrameRead DEF Reads
    <2> QED BY <2>1, <2>2, EndStep DEF ToldInv
  <1>3. CASE DropLoneByte
    <2>1. /\ toTool \in Line /\ Len(toTool) >= 1 /\ toTool' = Tail(toTool)
          /\ first = <<>> /\ UNCHANGED <<toDevice, toolVars>>
      BY <1>3 DEF DropLoneByte, SessionInv, SessionTypeOK
    <2>2. toTool # <<>> /\ Len(toTool) \in Nat
      BY <2>1 DEF Line
    <2>3. /\ toTool' \in Line /\ Len(toTool') = Len(toTool) - 1
          /\ \A i \in 1 .. Len(toTool) - 1 : toTool'[i] = toTool[i + 1]
      BY <2>1, <2>2, TailFacts
    <2>4. toTool' = SubSeq(toTool, 1 + 1, Len(toTool)) /\ 1 \in 0 .. Len(toTool)
      BY <2>1, <2>2, TailIsSubSeq DEF Line
    <2>5. WholeNumbers(toTool', stored)
      BY <2>1, <2>4, ToolWhole, SuffixWhole
    <2>6. Reads(1)
      BY <2>1, <2>2, <2>3, <2>5 DEF Reads
    <2> QED BY <2>1, <2>6, ReadStep
  <1>4. CASE GiveUp
    <2>1. /\ doing' = "menu" /\ told' = Failed /\ first' = <<>>
          /\ UNCHANGED <<toDevice, toTool, writing, submitted>>
      BY <1>4 DEF GiveUp, Tells
    <2>2. toTool' \in Line /\ WholeNumbers(toTool', stored)
      BY <2>1, ToolWhole DEF SessionInv, SessionTypeOK
    <2> QED BY <2>1, <2>2, EndStep DEF ToldInv
  <1> QED BY <1>1, <1>2, <1>3, <1>4

LEMMA AwaitResultStep ==
  ASSUME SessionInv, AwaitResult, UNCHANGED deviceVars
  PROVE  SessionInv'
  <1>1. /\ HaveFrame /\ doing = "result" /\ doing' = "menu" /\ first' = <<>>
        /\ told' = IF Frame = Status("F016") THEN Written(writing) ELSE Failed
        /\ UNCHANGED <<toDevice, writing, submitted>>
    BY DEF AwaitResult, Tells, SessionInv, SessionTypeOK
  <1>2. toTool' \in Line /\ WholeNumbers(toTool', stored) /\ Len(toTool) >= 2
        /\ Len(toTool) \in Nat
    BY <1>1, FrameRead DEF Reads
  <1>3. ToldInv'
    <2>1. CASE Frame = Status("F016")
      <3>1. toTool[2] = "F016"
        BY <1>1, <2>1, FrameRead DEF Status
      <3>2. Arrived("F016")
        BY <3>1, <1>2 DEF Arrived
      <3>3. stored = writing /\ writing \in SNs
        BY <1>1, <3>2 DEF SessionInv, ResultInv, SessionTypeOK
      <3>4. stored' = stored
        BY DEF deviceVars
      <3> QED BY <1>1, <2>1, <3>3, <3>4 DEF ToldInv
    <2>2. CASE Frame # Status("F016")
      BY <1>1, <2>2 DEF ToldInv
    <2> QED BY <2>1, <2>2
  <1> QED BY <1>1, <1>2, <1>3, EndStep

LEMMA AwaitReadyStep ==
  ASSUME SessionInv, AwaitReady, UNCHANGED deviceVars
  PROVE  SessionInv'
  <1>1. HaveFrame /\ Reads(2) /\ first = <<>> /\ UNCHANGED <<writing, first>>
        /\ doing = "ready" /\ writing \in SNs
    BY FrameRead DEF AwaitReady, SessionInv, SessionTypeOK
  <1>2. CASE Frame = Status("F013")
    <2>1. /\ Sends(Text[writing]) /\ submitted' = submitted \union {writing}
          /\ doing' = "result" /\ UNCHANGED <<told, at, got, received, stored>>
      BY <1>2 DEF AwaitReady, deviceVars
    <2>2. toTool[2] = "F013" /\ 2 \in 2 .. Len(toTool)
      BY <1>1, <1>2, FrameRead DEF Status, Reads
    <2>3. /\ toDevice = <<>> /\ at # "program" /\ (at = "receive" => got = <<>>)
          /\ \A i \in 2 .. Len(toTool), j \in 1 .. Len(toTool) :
               toTool[i] = "F013" /\ toTool[j] = "F016" => j < i
      BY <1>1, <2>2 DEF SessionInv, ReadyInv, Arrived
    <2>4. /\ Text[writing] \in Line /\ NoW(Text[writing])
          /\ Len(Text[writing]) = SN_LENGTH
      BY <1>1, StartsFacts, TextFacts DEF NoW
    <2>5. toDevice' = Text[writing]
      BY <2>1, <2>3, <2>4, EmptyConcat DEF Sends
    <2>6. SessionTypeOK'
      BY <1>1, <2>1, <2>4, <2>5 DEF Reads, SessionInv, SessionTypeOK
    <2>7. CommandInv'
      BY <2>4, <2>5 DEF CommandInv, WLast, NoW
    <2>8. ReceiveInv'
      <3> SUFFICES ASSUME at = "receive"
                   PROVE  Len(got') < SN_LENGTH /\ Due' = Text[writing']
        BY <1>1, <2>1 DEF ReceiveInv
      <3>1. got = <<>> /\ got' = <<>>
        BY <2>1, <2>3
      <3> QED BY LengthFacts, <3>1, <2>4, <2>5, <1>1, EmptyConcat DEF Due
    <2>9. ReadyInv'
      BY <2>1 DEF ReadyInv
    <2>10. ResultInv'
      <3>1. ASSUME NEW i \in 2 .. Len(toTool'), toTool'[i] = "F016"
            PROVE  FALSE
        <4>1. i + 2 \in 1 .. Len(toTool) /\ toTool[i + 2] = "F016"
          BY <3>1, <1>1 DEF Reads
        <4>2. i + 2 < 2
          BY <4>1, <2>2, <2>3
        <4> QED BY <4>2
      <3> QED BY <2>1, <2>3, <3>1 DEF ResultInv, Arrived
    <2>11. ProgramInv' /\ ToldInv'
      BY <2>1 DEF SessionInv, ProgramInv, ToldInv
    <2>12. StreamInv'
      BY <1>1, <2>1, EmptyConcat DEF Reads, StreamInv
    <2> QED BY <2>6, <2>7, <2>8, <2>9, <2>10, <2>11, <2>12 DEF SessionInv
  <1>3. CASE Frame # Status("F013")
    <2>1. doing' = "menu" /\ told' = Failed /\ UNCHANGED <<toDevice, submitted>>
      BY <1>3 DEF AwaitReady, Tells
    <2> QED BY <1>1, <2>1, EndStep DEF Reads, ToldInv
  <1> QED BY <1>2, <1>3

LEMMA AwaitNumberStep ==
  ASSUME SessionInv, AwaitNumber, UNCHANGED deviceVars
  PROVE  SessionInv'
  <1>1. HaveFrame /\ Reads(2) /\ Frame \in Line /\ first = <<>> /\ doing = "number"
        /\ UNCHANGED <<toDevice, writing, submitted>>
    BY FrameRead DEF AwaitNumber, SessionInv, SessionTypeOK
  <1>2. CASE doing' = "rest" /\ first' = Frame /\ UNCHANGED told
    <2>1. UNCHANGED <<at, got, received, stored>>
      BY DEF deviceVars
    <2>2. Len(Frame) = 2
      BY <1>1, FrameRead
    <2>3. SessionTypeOK' /\ CommandInv'
      BY <1>1, <1>2, <2>1, <2>2 DEF Reads, SessionInv, SessionTypeOK,
        CommandInv
    <2>4. ReceiveInv' /\ ProgramInv' /\ ToldInv'
      BY <1>1, <1>2, <2>1 DEF SessionInv, ReceiveInv, ProgramInv, ToldInv, Due
    <2>5. ReadyInv' /\ ResultInv'
      BY <1>2 DEF ReadyInv, ResultInv
    <2>6. StreamInv'
      <3>1. Frame \o toTool' = toTool
        <4>1. /\ toTool \in Line /\ Len(toTool) \in Nat /\ Len(toTool) >= 2
              /\ toTool' \in Line /\ Len(toTool') = Len(toTool) - 2
              /\ \A i \in 1 .. Len(toTool) - 2 : toTool'[i] = toTool[i + 2]
              /\ Frame = <<toTool[1], toTool[2]>>
          BY <1>1, FrameRead DEF Reads, SessionInv, SessionTypeOK
        <4> DEFINE f == Frame
                   r == toTool'
                   s == f \o r
        <4>2. /\ f \in Line /\ r \in Line /\ Len(f) = 2
              /\ f[1] = toTool[1] /\ f[2] = toTool[2]
          BY <1>1, <4>1
        <4> HIDE DEF f, r
        <4>3. /\ s \in Line /\ Len(s) = Len(f) + Len(r)
              /\ \A i \in 1 .. Len(f) : s[i] = f[i]
              /\ \A i \in 1 .. Len(f) + Len(r) :
                   i > Len(f) => i - Len(f) \in 1 .. Len(r) /\ s[i] = r[i - Len(f)]
          BY <4>2, Concat
        <4> HIDE DEF s
        <4>4. Len(r) = Len(toTool) - 2
              /\ \A i \in 1 .. Len(toTool) - 2 : r[i] = toTool[i + 2]
          BY <4>1 DEF r
        <4>5. ASSUME NEW i \in 1 .. Len(toTool)
              PROVE  s[i] = toTool[i]
          <5>1. CASE i \in {1, 2}
            BY <5>1, <4>2, <4>3
          <5>2. CASE i > 2
            <6>1. i - 2 \in 1 .. Len(toTool) - 2 /\ (i - 2) + 2 = i
              BY <5>2, <4>1
            <6>2. s[i] = r[i - 2]
              BY <5>2, <4>1, <4>2, <4>3, <4>4
            <6> QED BY <6>1, <6>2, <4>4
          <5> QED BY <5>1, <5>2
        <4>6. s = toTool
          BY <4>1, <4>2, <4>3, <4>4, <4>5, SeqEqual DEF Line
        <4> QED BY <4>6 DEF s, f, r
      <3> QED BY <3>1, <1>2, <2>1, ToolWhole DEF StreamInv
    <2> QED BY <2>3, <2>4, <2>5, <2>6 DEF SessionInv
  <1>3. CASE UNCHANGED <<doing, first, told>>
    BY <1>1, <1>3, ReadStep DEF toolVars
  <1>4. CASE doing' = "menu" /\ told' = Failed /\ UNCHANGED first
    BY <1>1, <1>4, EndStep DEF Reads, ToldInv
  <1> QED BY <1>2, <1>3, <1>4 DEF AwaitNumber, Tells

LEMMA AwaitRestStep ==
  ASSUME SessionInv, AwaitRest, UNCHANGED deviceVars
  PROVE  SessionInv'
  <1> DEFINE d == SN_LENGTH - 2
             p == SubSeq(toTool, 1, d)
             line == first \o toTool
  <1>1. /\ first \in Line /\ Len(first) = 2 /\ toTool \in Line
        /\ Len(toTool) \in Nat /\ Len(toTool) >= d
        /\ toTool' = SubSeq(toTool, d + 1, Len(toTool))
        /\ told' = NumberOf(first \o p) /\ doing' = "menu" /\ first' = <<>>
        /\ UNCHANGED <<toDevice, writing, submitted>>
    BY LengthFacts DEF AwaitRest, Tells, SessionInv, SessionTypeOK, Line
  <1>2. d \in 0 .. Len(toTool) /\ d \in Nat /\ SN_LENGTH = 2 + d
    BY <1>1, LengthFacts
  <1> HIDE DEF d
  <1>3. toTool' \in Line /\ WholeNumbers(toTool', stored)
    BY <1>1, <1>2, ToolWhole, SuffixWhole, Suffix
  <1>4. p \in Line /\ Len(p) = d /\ \A i \in 1 .. d : p[i] = toTool[i]
    BY <1>1, <1>2, PrefixFacts
  <1> HIDE DEF p
  <1>5. ASSUME NEW n \in SNs, first \o p = Text[n]
        PROVE  stored = n
    <2>1. /\ line \in Line /\ Len(line) = Len(first) + Len(toTool)
          /\ \A i \in 1 .. Len(first) : line[i] = first[i]
          /\ \A i \in 1 .. Len(first) + Len(toTool) :
               i > Len(first) => line[i] = toTool[i - Len(first)]
      BY <1>1, Concat
    <2>2. /\ \A i \in 1 .. Len(first) : (first \o p)[i] = first[i]
          /\ \A i \in 1 .. Len(first) + Len(p) :
               i > Len(first) => (first \o p)[i] = p[i - Len(first)]
      BY <1>1, <1>4, Concat
    <2>3. WholeNumbers(line, stored)
      BY DEF SessionInv, StreamInv
    <2> HIDE DEF line
    <2>4. ASSUME NEW i \in 1 .. SN_LENGTH
          PROVE  line[i] = Text[n][i]
      <3>1. CASE i <= 2
        BY <3>1, <1>1, <1>5, <2>1, <2>2
      <3>2. CASE i > 2
        <4>1. i - 2 \in 1 .. d
          BY <3>2, <1>2
        <4>2. i \in 1 .. Len(first) + Len(p) /\ i \in 1 .. Len(first) + Len(toTool)
          BY <3>2, <1>1, <1>2, <1>4
        <4>3. line[i] = toTool[i - 2]
          BY <3>2, <4>2, <1>1, <2>1
        <4>4. (first \o p)[i] = p[i - 2]
          BY <3>2, <4>2, <1>1, <2>2
        <4> QED BY <4>1, <4>3, <4>4, <1>4, <1>5
      <3> QED BY <3>1, <3>2
    <2>5. line \in Line /\ Len(line) >= SN_LENGTH
      BY <1>1, <1>2, <2>1
    <2> QED BY <2>3, <2>4, <2>5, NumberTold
  <1>6. ToldInv'
    <2>1. stored' = stored
      BY DEF deviceVars
    <2>2. CASE NumberOf(first \o p) = Failed
      BY <1>1, <2>2 DEF ToldInv
    <2>3. CASE \E n \in SNs : first \o p = Text[n] /\ NumberOf(first \o p) = Read(n)
      BY <1>1, <1>5, <2>1, <2>3 DEF ToldInv
    <2> QED BY <2>2, <2>3, NumberFacts
  <1> QED BY <1>1, <1>3, <1>6, EndStep
-----------------------------------------------------------------------------

(* All steps together.                                                     *)

LEMMA SessionInitial == SessionInit => SessionInv
  <1> SUFFICES ASSUME SessionInit PROVE SessionInv
    OBVIOUS
  <1> DEFINE t == Status("F00E")
  <1>1. /\ toDevice = <<>> /\ toTool = t /\ got = <<>> /\ first = <<>>
        /\ doing = "menu" /\ at = "menu" /\ writing = NoSN /\ received = NoSN
        /\ stored = NoSN /\ submitted = {} /\ told = Nothing
    BY DEF SessionInit, ToolInit
  <1>2. "F00E" \in StatusBytes
    BY DEF StatusBytes
  <1>3. t \in Line
    BY <1>2, StatusFacts
  <1>4. WholeNumbers(t, NoSN)
    <2>1. Extended(<<>>, "F00E", <<>> \o t)
      BY <1>2, EmptyWhole, StatusAdded
    <2>2. <<>> \o t = t /\ <<>> \in Line /\ WholeNumbers(<<>>, NoSN)
      BY <1>3, EmptyConcat, EmptyWhole
    <2> HIDE DEF t
    <2> QED BY <1>2, <1>3, <2>1, <2>2, StatusWhole
  <1> HIDE DEF t
  <1>5. SessionTypeOK /\ CommandInv
    BY <1>1, <1>3, EmptyWhole DEF SessionTypeOK, CommandInv, WLast
  <1>6. ReceiveInv /\ ReadyInv /\ ResultInv /\ ProgramInv /\ ToldInv
    BY <1>1 DEF ReceiveInv, ReadyInv, ResultInv, ProgramInv, ToldInv
  <1>7. StreamInv
    BY <1>1, <1>3, <1>4, EmptyConcat DEF StreamInv
  <1> QED BY <1>5, <1>6, <1>7 DEF SessionInv

LEMMA SessionInductive == SessionInv /\ [SessionNext]_sessionVars => SessionInv'
  <1> SUFFICES ASSUME SessionInv, [SessionNext]_sessionVars
               PROVE  SessionInv'
    OBVIOUS
  <1>1. CASE UNCHANGED sessionVars
    <2>1. UNCHANGED <<toDevice, toTool, doing, writing, first, told, submitted,
                      at, got, received, stored>>
      BY <1>1 DEF sessionVars, toolVars, deviceVars
    <2> QED BY <2>1 DEF SessionInv, SessionTypeOK, CommandInv, ReceiveInv, Due,
      ReadyInv, ResultInv, ProgramInv, StreamInv, ToldInv, Arrived
  <1>2. CASE Tool
    BY <1>2, ToolCalls, ToolReads, AwaitResultStep, AwaitReadyStep,
      AwaitNumberStep, AwaitRestStep DEF Tool, ToolNext
  <1>3. CASE SessionNext /\ ~Tool
    BY <1>3, DeviceTakes, DeviceQuiet, WriteRequestStep, ReadRequestStep,
      PayloadStep, ProgramSucceedsStep DEF SessionNext
  <1> QED BY <1>1, <1>2, <1>3

LEMMA SessionInvariance == SessionSpec => []SessionInv
  BY SessionInitial, SessionInductive, PTL DEF SessionSpec

(* What the tool tells its user is so: the number it reports as written or *)
(* read is in the device, whatever is cut, lost, late or left over.        *)
THEOREM ToolTruthful == SessionSpec => []AnswersTrue
  <1>1. SessionInv => AnswersTrue
    BY DEF SessionInv, ToldInv, AnswersTrue, Nothing, Failed, Written, Read
  <1> QED BY <1>1, SessionInvariance, PTL

(* Only a payload extends the numbers asked for, and only programming      *)
(* changes the one that is stored.                                         *)
LEMMA RegisterStep ==
  ASSUME SessionInv, [SessionNext]_sessionVars
  PROVE  [Register!Next]_<<submitted, stored>>
  <1>1. CASE submitted' # submitted
    <2>1. AwaitReady /\ UNCHANGED deviceVars
      BY <1>1 DEF SessionNext, sessionVars, Tool, ToolNext, toolVars,
        deviceVars,
        press_key, read_sn, write_sn, Calls, SkipBackground, AwaitAnswer,
        AwaitResult, AwaitNumber, AwaitRest, DropLoneByte, GiveUp, Receiving,
        WaitStatus, Prefix, Jump, CheckApp, OtherKey, WriteRequest, ReadRequest,
        OtherCommand, CommandTimesOut, PayloadTimesOut, Payload,
        ProgramSucceeds, ProgramFails, PowerFails, Ignored
    <2>2. submitted' = submitted \union {writing} /\ writing \in SNs
      BY <1>1, <2>1 DEF AwaitReady, SessionInv, SessionTypeOK
    <2>3. stored' = stored
      BY <2>1 DEF deviceVars
    <2> QED BY <2>2, <2>3 DEF Register!Next, Register!Ask
  <1>2. CASE submitted' = submitted /\ stored' # stored
    <2>1. at = "program" /\ stored = NoSN /\ stored' = received
      BY <1>2 DEF SessionNext, sessionVars, Tool, ToolNext, toolVars,
        deviceVars,
        Receiving, WaitStatus, Prefix, Jump, CheckApp, OtherKey, WriteRequest,
        ReadRequest, OtherCommand, CommandTimesOut, PayloadTimesOut, Payload,
        ProgramSucceeds, ProgramFails, PowerFails, Ignored
    <2>2. received \in submitted
      BY <1>2, <2>1 DEF SessionInv, ProgramInv
    <2> QED BY <1>2, <2>1, <2>2 DEF Register!Next, Register!Store
  <1> QED BY <1>1, <1>2

(* The tool and the device together implement the write-once register      *)
(* SnStore, with the numbers the tool has sent as those asked for.         *)
THEOREM RegisterImplemented == SessionSpec => StoresSubmitted
  <1>1. SessionInit => Register!Init
    BY DEF SessionInit, ToolInit, Register!Init
  <1> QED BY <1>1, RegisterStep, SessionInvariance, PTL
    DEF SessionSpec, StoresSubmitted, Register!Spec
=============================================================================
