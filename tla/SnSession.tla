----------------------------- MODULE SnSession -----------------------------
(***************************************************************************)
(* Sessions of the PC tool with the bootloader's menu over the serial      *)
(* line.  The menu (Bootloader/Middleware/YMODEM/menu.c) is modelled byte  *)
(* by byte; of the flash only the number a reader gets is kept, which the  *)
(* module BootSn justifies.                                                *)
(*                                                                         *)
(* The line delays.  The device polls its receiver without a FIFO and      *)
(* loses what arrives while it sends or programs the flash: a run of the   *)
(* bytes under way.  The power may fail at any step.  The application      *)
(* takes no notice of the tool's bytes and its own traffic is left out.    *)
(***************************************************************************)
EXTENDS SnTool

VARIABLES
  at,       (* where the bootloader is; "app" once it has jumped           *)
  got,      (* bytes of the present reception                              *)
  received, (* the number in Serial_ProgramSN's buffer                     *)
  stored    (* the number Boot_ReadSN finds in the flash                   *)

deviceVars == <<at, got, received, stored>>
sessionVars == <<toDevice, toTool, toolVars, deviceVars>>

SessionInit ==
  /\ ToolInit
  /\ toDevice = <<>> /\ toTool = Status("F00E")
  /\ at = "menu" /\ got = <<>> /\ received = NoSN /\ stored = NoSN

Tool == ToolNext /\ UNCHANGED deviceVars

(* Of what comes between two calls the next call empties all but the last. *)
Answers(bytes) ==
  IF doing = "menu" THEN toTool' = bytes
  ELSE /\ Len(toTool) + Len(bytes) <= MaxLine
       /\ toTool' = toTool \o bytes

Replies(code) == at' = "menu" /\ Answers(Status(code))

(* What an overrun may leave of the bytes under way.                       *)
Overrun(line) == {line} \union
  {SubSeq(line, 1, cut[1]) \o SubSeq(line, cut[2], Len(line)) :
     cut \in {p \in (0 .. Len(line)) \X (1 .. Len(line) + 1) : p[1] < p[2]}}

(* The device is busy with something else than the line.                   *)
Busy(line) == toDevice' \in Overrun(line)

(* HAL_UART_Receive has all its n bytes with the next one, or the time is  *)
(* over before and those that came are lost.                               *)
Received(n) == toDevice # <<>> /\ Len(got) = n - 1
Bytes == Append(got, Head(toDevice))
TakesLast == got' = <<>> /\ Busy(Tail(toDevice))
TimesOut == got' = <<>> /\ Busy(toDevice)

Receiving ==
  /\ \/ at \in PrefixBytes /\ Len(got) < Len(WriteBody) - 1
     \/ at = "receive" /\ Len(got) < SN_LENGTH - 1
  /\ toDevice # <<>>
  /\ got' = Bytes /\ toDevice' = Tail(toDevice)
  /\ UNCHANGED <<toTool, toolVars, at, received, stored>>
-----------------------------------------------------------------------------
(* Main_Menu: the status that is sent while nothing is received.           *)
WaitStatus ==
  /\ at = "menu"
  /\ Busy(toDevice)
  /\ Replies("F00F")
  /\ UNCHANGED <<toolVars, got, received, stored>>

Key(keys) ==
  /\ at = "menu" /\ Received(1) /\ Head(toDevice) \in keys
  /\ TakesLast

Prefix ==
  /\ at = "menu" /\ toDevice # <<>> /\ Head(toDevice) \in PrefixBytes
  /\ at' = Head(toDevice)
  /\ toDevice' = Tail(toDevice)
  /\ UNCHANGED <<toTool, toolVars, got, received, stored>>

Jump ==
  /\ Key({"1"})
  /\ \/ at' = "app" /\ Answers(Status("F000"))
     \/ Replies("F008")
  /\ UNCHANGED <<toolVars, received, stored>>

CheckApp ==
  /\ Key({"3"})
  /\ Replies("F009") \/ Replies("F008")
  /\ UNCHANGED <<toolVars, received, stored>>

(* The reserved key 2 and bytes that are no command.                       *)
OtherKey ==
  /\ Key(({"2"} \union BodyBytes \union Characters) \ {"1", "3"})
  /\ Replies("F010")
  /\ UNCHANGED <<toolVars, received, stored>>
-----------------------------------------------------------------------------
(* HandlePrefixedCommand.                                                  *)

Command(prefix, body) ==
  /\ at = prefix /\ Received(Len(WriteBody)) /\ Bytes = body
  /\ TakesLast

WriteRequest ==
  /\ Command("#", WriteBody)
  /\ at' = "receive" /\ Answers(Status("F013"))
  /\ UNCHANGED <<toolVars, received, stored>>

ReadRequest ==
  /\ Command("*", ReadBody)
  /\ at' = "menu"
  /\ Answers(IF stored = NoSN THEN Status("F017") ELSE Text[stored])
  /\ UNCHANGED <<toolVars, received, stored>>

OtherCommand ==
  /\ at \in PrefixBytes /\ Received(Len(WriteBody))
  /\ <<at, Bytes>> \notin {<<"#", WriteBody>>, <<"*", ReadBody>>}
  /\ TakesLast
  /\ Replies("F010")
  /\ UNCHANGED <<toolVars, received, stored>>

CommandTimesOut ==
  /\ at \in PrefixBytes /\ TimesOut
  /\ Replies(IF at = "#" THEN "F014" ELSE "F010")
  /\ UNCHANGED <<toolVars, received, stored>>
-----------------------------------------------------------------------------
(* Serial_ProgramSN, and Boot_ProgramSN as BootSn implements it.           *)

PayloadTimesOut ==
  /\ at = "receive" /\ TimesOut
  /\ Replies("F014")
  /\ UNCHANGED <<toolVars, received, stored>>

(* Slip for the mutation check: only the end of the payload is looked at.  *)
PayloadOfAny(bytes) ==
  IF \E n \in SNs : Last(bytes) = Last(Text[n])
  THEN CHOOSE n \in SNs : Last(bytes) = Last(Text[n]) ELSE NoSN

(* Boot_IsSnFormatValid.                                                   *)
PayloadOf(bytes) ==
  IF \E n \in SNs : bytes = Text[n] THEN CHOOSE n \in SNs : bytes = Text[n]
  ELSE NoSN

Payload ==
  /\ at = "receive" /\ Received(SN_LENGTH)
  /\ received' = PayloadOf(Bytes)
  /\ TakesLast
  /\ at' = "program"
  /\ UNCHANGED <<toTool, toolVars, stored>>

ProgramSucceeds ==
  /\ at = "program" /\ received # NoSN /\ stored = NoSN
  /\ stored' = received
  /\ Busy(toDevice)
  /\ Replies("F016")
  /\ UNCHANGED <<toolVars, got, received>>

(* A number exists, if only its mark; or the format is wrong; or the flash *)
(* fails, and may hold the number all the same.                            *)
ProgramFails ==
  /\ at = "program"
  /\ \/ Replies("F015") /\ UNCHANGED stored
     \/ stored = NoSN /\ Replies("F017") /\ stored' \in {NoSN, received}
  /\ Busy(toDevice)
  /\ UNCHANGED <<toolVars, got, received>>
-----------------------------------------------------------------------------
(* The power fails: bytes on their way may be lost in both directions, the *)
(* last status may be cut, and the number may have been written.           *)
PowerFails ==
  /\ stored' \in (IF at = "program" /\ stored = NoSN THEN {NoSN, received} ELSE {stored})
  /\ at' = "menu" /\ got' = <<>> /\ received' = NoSN
  /\ Busy(toDevice)
  /\ \/ Answers(Status("F00E"))
     \/ /\ toTool # <<>>
        /\ toTool' = Front(toTool) \o Status("F00E") /\ Len(toTool') <= MaxLine
  /\ UNCHANGED toolVars

(* The application runs.                                                   *)
Ignored ==
  /\ at = "app" /\ toDevice # <<>>
  /\ toDevice' = Tail(toDevice)
  /\ UNCHANGED <<toTool, toolVars, deviceVars>>

SessionNext ==
  \/ Tool
  \/ Receiving \/ WaitStatus \/ Prefix \/ Jump \/ CheckApp \/ OtherKey
  \/ WriteRequest \/ ReadRequest \/ OtherCommand \/ CommandTimesOut
  \/ PayloadTimesOut \/ Payload \/ ProgramSucceeds \/ ProgramFails
  \/ PowerFails \/ Ignored

SessionSpec == SessionInit /\ [][SessionNext]_sessionVars
-----------------------------------------------------------------------------
(* What the tool tells its user is so: a number it reports as written or   *)
(* as read is the one in the device, although frames may arrive cut, late, *)
(* or as answers to an earlier call that was given up.                     *)
AnswersTrue == told.what \in {"written", "read"} => stored = told.sn

(* The device stores only a number the tool has sent, and that once:       *)
(* payloads that are cut, late or read as something else never make one.   *)
Register == INSTANCE SnStore WITH asked <- submitted
StoresSubmitted == Register!Spec
=============================================================================
