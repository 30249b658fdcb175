------------------------------- MODULE BootSn -------------------------------
(***************************************************************************)
(* The bootloader's serial menu and the one-time write of the serial       *)
(* number (Bootloader/Middleware/YMODEM/menu.c and flash_if.c), and the    *)
(* application's reading of it (Application/BSP/SN/bsp_sn_driver.c).       *)
(*                                                                         *)
(* The record in the last flash page is three double words: the valid mark *)
(* with the first four characters, which are the same in every number, the *)
(* next eight, also the same, and the six digits.  Each erase and each     *)
(* double word programmed is a step of its own; the power may fail at any  *)
(* step and the HAL may report an error from any flash operation.          *)
(*                                                                         *)
(* Hardware assumption: an interrupted or failed erase leaves each double  *)
(* word as it was, erased, or unreadable as what it should be; it may read *)
(* as other text, the digits even as those of another number.  It does not *)
(* make the valid mark appear.  An interrupted or failed programming       *)
(* leaves its own double word in any state and the others alone.           *)
(***************************************************************************)
EXTENDS Integers, Sequences, SerialNumber

CONSTANT Malformed   (* payloads of SN_LENGTH bytes that are no number     *)

(* The status codes of menu.h the modelled commands answer with.           *)
Codes == {"F000", "F008", "F009", "F00E", "F010", "F013", "F014", "F015",
          "F016", "F017"}

ASSUME BootSnAssumption ==
  /\ SNs \intersect Malformed = {}
  /\ NoSN \notin Malformed
  /\ SNs \intersect {"erased", "garbage", "text", "head", "marked", "named",
                        "middle"} = {}
  /\ SNs \intersect Codes = {}

VARIABLES
  page,     (* the three double words of the record                        *)
  pc,       (* where the bootloader is; "app" once it has jumped           *)
  written,  (* double words programmed by the present write                *)
  sn,       (* Serial_ProgramSN's buffer                                   *)
  locked,   (* the flash control register                                  *)
  reply,    (* the last status code or number sent on the serial line      *)
  appValid, (* FLASH_If_Check accepts the APP1 vector table                *)
  asked     (* history: well-formed numbers received                       *)

vars == <<page, pc, written, sn, locked, reply, appValid, asked>>

Words == {"first", "second", "third"}

(* "marked" has the valid mark but not the right characters after it; of   *)
(* "named" only the fourth character is wrong, and is text.  Text is made  *)
(* of letters, digits and dashes.                                          *)
Heads == {"erased", "garbage", "marked", "named", "head"}
Middles == {"erased", "garbage", "text", "middle"}
Digits == {"erased", "garbage", "text"} \union SNs
Pages == {p \in [Words -> Heads \union Middles \union Digits] :
            p["first"] \in Heads /\ p["second"] \in Middles /\ p["third"] \in Digits}

Erased == [w \in Words |-> "erased"]
Record(n) == [w \in Words |-> CASE w = "first" -> "head"
                                [] w = "second" -> "middle"
                                [] w = "third" -> n]

HasMark == page["first"] \in {"marked", "named", "head"}

(* Boot_ReadSN: the mark and the format are checked.                       *)
Visible == IF /\ page["first"] = "head" /\ page["second"] = "middle"
              /\ page["third"] \in SNs
           THEN page["third"] ELSE NoSN

(* The application's reader accepts the record: the mark, "SN-" and text.  *)
bsp_sn_driver_read ==
  /\ page["first"] \in {"named", "head"}
  /\ page["second"] \in {"text", "middle"}
  /\ page["third"] \in SNs \union {"text"}

Init ==
  /\ page \in Pages /\ ~HasMark
  /\ pc = "menu" /\ written = 0 /\ sn = NoSN /\ locked = TRUE
  /\ reply = "F00E"
  /\ appValid \in BOOLEAN
  /\ asked = {}

-----------------------------------------------------------------------------
(* The menu: one command is received and answered.                         *)

MenuReplies(code) ==
  /\ pc = "menu"
  /\ reply' = code
  /\ UNCHANGED <<page, pc, written, sn, locked, appValid, asked>>

(* An unknown key, the reserved YMODEM key, a prefix followed by another   *)
(* command; a '#' with too few bytes is answered as a failed reception.    *)
UnknownCommand == MenuReplies("F010")
BrokenWriteCommand == MenuReplies("F014")

CheckAppPartition == MenuReplies(IF appValid THEN "F009" ELSE "F008")

ReadCommand == MenuReplies(IF Visible = NoSN THEN "F017" ELSE Visible)

Boot_JumpToApp ==
  /\ pc = "menu"
  /\ pc' = IF appValid THEN "app" ELSE "menu"
  /\ reply' = IF appValid THEN "F000" ELSE "F008"
  /\ UNCHANGED <<page, written, sn, locked, appValid, asked>>

WriteCommand ==
  /\ pc = "menu"
  /\ pc' = "receive"
  /\ reply' = "F013"
  /\ UNCHANGED <<page, written, sn, locked, appValid, asked>>

-----------------------------------------------------------------------------
(* Serial_ProgramSN and Boot_ProgramSN.                                    *)

Fails(code) == pc' = "menu" /\ reply' = code

ReceiveTimesOut ==
  /\ pc = "receive"
  /\ Fails("F014")
  /\ UNCHANGED <<page, written, sn, locked, appValid, asked>>

ReceiveSn == \E payload \in SNs \union Malformed :
  /\ pc = "receive"
  /\ pc' = "check"
  /\ sn' = payload
  /\ asked' = asked \union ({payload} \intersect SNs)
  /\ UNCHANGED <<page, written, locked, reply, appValid>>

(* Mutation checks: an existing record is not looked for, or is taken for  *)
(* a successful write.                                                     *)
CheckFormatOnly ==
  /\ pc = "check"
  /\ IF sn \notin SNs THEN Fails("F017") /\ UNCHANGED locked
     ELSE pc' = "erase" /\ locked' = FALSE /\ UNCHANGED reply
  /\ UNCHANGED <<page, written, sn, appValid, asked>>
CheckExistsIsSuccess ==
  /\ pc = "check"
  /\ IF HasMark THEN Fails("F016") /\ UNCHANGED locked
     ELSE IF sn \notin SNs THEN Fails("F017") /\ UNCHANGED locked
     ELSE pc' = "erase" /\ locked' = FALSE /\ UNCHANGED reply
  /\ UNCHANGED <<page, written, sn, appValid, asked>>

(* The mark alone decides that a record exists; then the format is checked *)
(* and the flash is unlocked, which may fail.                              *)
CheckAndUnlock ==
  /\ pc = "check"
  /\ \/ HasMark /\ Fails("F015") /\ UNCHANGED locked
     \/ ~HasMark /\ Fails("F017") /\ UNCHANGED locked
     \/ /\ ~HasMark /\ sn \in SNs
        /\ pc' = "erase"
        /\ locked' = FALSE
        /\ UNCHANGED reply
  /\ UNCHANGED <<page, written, sn, appValid, asked>>

(* What an erase that does not complete may leave behind.                  *)
PartlyErased ==
  /\ page' \in Pages
  /\ page'["first"] \in {page["first"], "erased", "garbage"}
  /\ page'["second"] \in {page["second"], "erased", "garbage", "text"}

(* What a programming of word w that does not complete may leave behind.   *)
PartlyProgrammed(w) ==
  /\ page' \in Pages
  /\ \A v \in Words \ {w} : page'[v] = page[v]

(* Mutation check: an error of the erase is ignored.                       *)
EraseUnchecked ==
  /\ pc = "erase"
  /\ page' = Erased \/ PartlyErased
  /\ pc' = "program" /\ written' = 0
  /\ UNCHANGED <<sn, locked, reply, appValid, asked>>

ErasePage ==
  /\ pc = "erase"
  /\ \/ /\ page' = Erased
        /\ pc' = "program" /\ written' = 0
        /\ UNCHANGED <<locked, reply>>
     \/ /\ PartlyErased
        /\ locked' = TRUE
        /\ Fails("F017")
        /\ UNCHANGED written
  /\ UNCHANGED <<sn, appValid, asked>>

(* Mutation check: the word with the mark is programmed first.             *)
MarkFirst == <<"first", "second", "third">>

(* The two tail words, then the word with the mark.                        *)
ProgramOrder == <<"second", "third", "first">>

ProgramWord ==
  /\ pc = "program" /\ written < Len(ProgramOrder)
  /\ LET w == ProgramOrder[written + 1] IN
     \/ /\ page' = [page EXCEPT ![w] = Record(sn)[w]]
        /\ written' = written + 1
        /\ UNCHANGED <<pc, locked, reply>>
     \/ /\ PartlyProgrammed(w)
        /\ locked' = TRUE
        /\ Fails("F017")
        /\ UNCHANGED written
  /\ UNCHANGED <<sn, appValid, asked>>

(* The flash is locked and the record is read back.  It is the one sent:   *)
(* a double word that the HAL reports as programmed is programmed here, so *)
(* the read-back never fails.                                              *)
Verify ==
  /\ pc = "program" /\ written = Len(ProgramOrder)
  /\ locked' = TRUE
  /\ Fails(IF page = Record(sn) THEN "F016" ELSE "F017")
  /\ UNCHANGED <<page, written, sn, appValid, asked>>

-----------------------------------------------------------------------------
(* The power fails or the device is reset, in the bootloader or in the     *)
(* application; the menu is entered again with the flash locked.           *)
PowerCycle ==
  /\ \/ UNCHANGED page
     \/ pc = "erase" /\ PartlyErased
     \/ /\ pc = "program" /\ written < Len(ProgramOrder)
        /\ PartlyProgrammed(ProgramOrder[written + 1])
  /\ pc' = "menu" /\ written' = 0 /\ sn' = NoSN /\ locked' = TRUE
  /\ reply' = "F00E"
  /\ UNCHANGED <<appValid, asked>>

Next ==
  \/ UnknownCommand \/ BrokenWriteCommand \/ CheckAppPartition
  \/ ReadCommand \/ Boot_JumpToApp \/ WriteCommand
  \/ ReceiveTimesOut \/ ReceiveSn \/ CheckAndUnlock
  \/ ErasePage \/ ProgramWord \/ Verify
  \/ PowerCycle

Spec == Init /\ [][Next]_vars

-----------------------------------------------------------------------------
TypeOK ==
  /\ page \in Pages
  /\ pc \in {"menu", "receive", "check", "erase", "program", "app"}
  /\ written \in 0 .. Len(ProgramOrder)
  /\ sn \in SNs \union Malformed \union {NoSN}
  /\ locked \in BOOLEAN
  /\ reply \in Codes \union SNs
  /\ appValid \in BOOLEAN
  /\ asked \subseteq SNs

(* Once the mark is there the record is never erased or programmed again,  *)
(* by any command, error or power failure, even if the characters after    *)
(* the mark are wrong.                                                     *)
MarkedPageUntouched == [][HasMark => page' = page]_vars

(* A double word is programmed only when it is erased, as the flash        *)
(* requires, whatever an earlier attempt has left in the page.             *)
ProgramsErasedWords ==
  (pc = "program" /\ written < Len(ProgramOrder))
    => page[ProgramOrder[written + 1]] = "erased"

(* The writer who is told F016 finds its number in the flash.              *)
SuccessIsTrue == reply = "F016" => Visible = sn

(* The application's format check is looser than the bootloader's.  All    *)
(* the same, whatever failed writes have left, what it takes for its       *)
(* number ends in the digits of a number that was sent, after all of       *)
(* "acGlove-": never half a record.                                        *)
AppTakesSentDigits ==
  bsp_sn_driver_read => page["second"] = "middle" /\ page["third"] \in asked

(* The flash is unlocked only inside a write: every error path locks it    *)
(* again before the menu or the application runs.                          *)
LockedOutsideWrite == pc \notin {"erase", "program"} => locked

(* The number a reader gets behaves as a write-once register.              *)
Store == INSTANCE SnStore WITH stored <- Visible
ImplementsStore == Store!Spec
=============================================================================
