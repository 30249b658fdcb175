------------------------------- MODULE SnTool -------------------------------
(***************************************************************************)
(* The PC tool that reads and writes the serial number through the         *)
(* bootloader's menu (cmdfile/sn_tool.py), as one end of a serial line.    *)
(*                                                                         *)
(* A status is two bytes on the line: "F0" and the rest of the code.  A    *)
(* command is its prefix and a body, a number SN_LENGTH bytes.  Timeouts   *)
(* may strike whenever the bytes that are waited for are not there, or     *)
(* late; the user may interrupt the tool at any time.                      *)
(***************************************************************************)
EXTENDS Integers, Sequences, SequencesExt, SerialNumber

CONSTANTS
  SN_LENGTH,           (* bytes of a number; 18 in the code                *)
  ReadBody, WriteBody, (* what follows the prefix: F_SN_R, F_SN_W          *)
  Characters,          (* the bytes numbers are made of                    *)
  Text,                (* number -> its bytes                              *)
  MaxLine              (* bound: bytes under way in one direction          *)

Keys == {"1", "2", "3"}
PrefixBytes == {"#", "*"}
BodyBytes == {"F", "_", "S", "N", "R", "W"}
StatusBytes == {"F0", "F000", "F008", "F009", "F00E", "F00F", "F010", "F013",
                "F014", "F015", "F016", "F017"}

(* The write command ends in a letter that is nowhere else in a command.   *)
ASSUME CommandAssumption ==
  /\ ReadBody \in Seq(BodyBytes) /\ WriteBody \in Seq(BodyBytes)
  /\ Len(ReadBody) = Len(WriteBody) /\ WriteBody # <<>>
  /\ \A i \in 1 .. Len(WriteBody) : WriteBody[i] = "W" <=> i = Len(WriteBody)
  /\ \A i \in 1 .. Len(ReadBody) : ReadBody[i] # "W"

(* A number is told by its bytes.  It begins with a letter that comes      *)
(* later in no number, and holds no prefix, no byte of a status (these are *)
(* no characters) and not the letter the write command ends in.            *)
ASSUME SnToolAssumption ==
  /\ SN_LENGTH \in Nat /\ SN_LENGTH > 2
  /\ Text \in [SNs -> Seq(Characters)]
  /\ \A n \in SNs : Len(Text[n]) = SN_LENGTH /\ Text[n][1] \notin Keys
  /\ \A m, n \in SNs : Text[m] = Text[n] => m = n
  /\ \A m, n \in SNs, i \in 2 .. SN_LENGTH : Text[n][i] # Text[m][1]
  /\ Characters \intersect (PrefixBytes \union StatusBytes \union {"W"}) = {}

VARIABLES
  toDevice, toTool,   (* bytes sent and not yet read                       *)
  doing,              (* what the tool waits for                           *)
  writing,            (* the number write_sn was called with               *)
  first,              (* read_sn: the two bytes taken for a number's start *)
  told,               (* what the tool has told its user last              *)
  submitted           (* history: the numbers it has sent                  *)

toolVars == <<doing, writing, first, told, submitted>>

Status(code) == <<"F0", code>>
BACKGROUND == {Status("F00E"), Status("F00F")}
Nothing == [what |-> "nothing"]
Failed == [what |-> "failed"]
Written(n) == [what |-> "written", sn |-> n]
Read(n) == [what |-> "read", sn |-> n]

ToolInit ==
  /\ doing = "menu" /\ writing = NoSN /\ first = <<>>
  /\ told = Nothing /\ submitted = {}

Sends(bytes) ==
  /\ Len(toDevice) + Len(bytes) <= MaxLine
  /\ toDevice' = toDevice \o bytes

(* The input buffer is emptied.  The user's choices are slower than the    *)
(* line: what an earlier call has sent is no longer under way, nor is what *)
(* the device has answered, except for the last byte of a status that the  *)
(* device sends at this moment: its first byte is thrown away.             *)
_start_command(bytes) ==
  /\ toDevice = <<>>
  /\ Sends(bytes)
  /\ \/ toTool' = <<>>
     \/ Len(toTool) >= 2 /\ toTool' = <<Last(toTool)>>

Calls(what, bytes) ==
  /\ doing = "menu"
  /\ _start_command(bytes)
  /\ doing' = what /\ told' = Nothing
  /\ UNCHANGED <<first, submitted>>

(* jump_app, download_app and check_app send one key and wait for a code.  *)
press_key == \E key \in Keys : Calls("answer", <<key>>) /\ UNCHANGED writing

read_sn == Calls("number", <<"*">> \o ReadBody) /\ UNCHANGED writing

write_sn == \E n \in SNs : Calls("ready", <<"#">> \o WriteBody) /\ writing' = n

Tells(answer) == doing' = "menu" /\ told' = answer

(* _read_exact(2) is over.                                                 *)
Frame == SubSeq(toTool, 1, 2)
HaveFrame == Len(toTool) >= 2 /\ toTool' = SubSeq(toTool, 3, Len(toTool))

(* _read_status goes on reading after a background code.                   *)
SkipBackground ==
  /\ doing \in {"answer", "ready", "result"}
  /\ HaveFrame /\ Frame \in BACKGROUND
  /\ UNCHANGED <<toDevice, toolVars>>

AwaitAnswer ==
  /\ doing = "answer"
  /\ HaveFrame /\ Frame \notin BACKGROUND
  /\ Tells(Nothing)
  /\ UNCHANGED <<toDevice, writing, first, submitted>>

AwaitReady ==
  /\ doing = "ready"
  /\ HaveFrame /\ Frame \notin BACKGROUND
  /\ IF Frame = Status("F013")
     THEN /\ Sends(Text[writing])
          /\ submitted' = submitted \union {writing}
          /\ doing' = "result" /\ UNCHANGED told
     ELSE Tells(Failed) /\ UNCHANGED <<toDevice, submitted>>
  /\ UNCHANGED <<writing, first>>

(* Slip for the mutation check: any complete frame ends a write well.      *)
AwaitResultAny ==
  /\ doing = "result"
  /\ HaveFrame /\ Frame \notin BACKGROUND
  /\ Tells(Written(writing))
  /\ UNCHANGED <<toDevice, writing, first, submitted>>

AwaitResult ==
  /\ doing = "result"
  /\ HaveFrame /\ Frame \notin BACKGROUND
  /\ Tells(IF Frame = Status("F016") THEN Written(writing) ELSE Failed)
  /\ UNCHANGED <<toDevice, writing, first, submitted>>

(* What does not begin like a status is the beginning of a number.  When   *)
(* the time is over after a background code, that code is.                 *)
AwaitNumber ==
  /\ doing = "number"
  /\ HaveFrame
  /\ \/ /\ Frame[1] # "F0" \/ Frame \in BACKGROUND
        /\ doing' = "rest" /\ first' = Frame /\ UNCHANGED told
     \/ Frame \in BACKGROUND /\ UNCHANGED <<doing, first, told>>
     \/ /\ Frame[1] = "F0" /\ Frame \notin BACKGROUND
        /\ Tells(Failed) /\ UNCHANGED first
  /\ UNCHANGED <<toDevice, writing, submitted>>

NumberOf(bytes) ==
  IF \E n \in SNs : bytes = Text[n]
  THEN Read(CHOOSE n \in SNs : bytes = Text[n]) ELSE Failed

AwaitRest ==
  /\ doing = "rest"
  /\ Len(toTool) >= SN_LENGTH - 2
  /\ Tells(NumberOf(first \o SubSeq(toTool, 1, SN_LENGTH - 2)))
  /\ toTool' = SubSeq(toTool, SN_LENGTH - 1, Len(toTool))
  /\ first' = <<>>
  /\ UNCHANGED <<toDevice, writing, submitted>>

(* A lone byte is thrown away when the second does not come in time.       *)
DropLoneByte ==
  /\ doing \in {"answer", "ready", "result", "number"}
  /\ Len(toTool) >= 1
  /\ toTool' = Tail(toTool)
  /\ UNCHANGED <<toDevice, toolVars>>

(* The time is over, or the user interrupts.                               *)
GiveUp ==
  /\ doing # "menu"
  /\ Tells(Failed)
  /\ first' = <<>>
  /\ UNCHANGED <<toDevice, toTool, writing, submitted>>

ToolNext ==
  \/ press_key \/ read_sn \/ write_sn
  \/ SkipBackground \/ AwaitAnswer \/ AwaitReady \/ AwaitResult
  \/ AwaitNumber \/ AwaitRest \/ DropLoneByte \/ GiveUp
=============================================================================
