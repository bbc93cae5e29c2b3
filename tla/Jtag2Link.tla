----------------------------- MODULE Jtag2Link -----------------------------
(***************************************************************************)
(* The command link between AVaRICE and a JTAGICE mkII or AVR Dragon       *)
(* (src/jtag2io.cc): numbered command frames, replies that carry the       *)
(* number of the command they answer, retries after a silence or a FAILED  *)
(* reply, and asynchronous event frames on the same wire.                  *)
(*                                                                         *)
(* A frame's bytes are abstracted to its sequence number, the command it   *)
(* carries or answers, the class of its response code and what the wire    *)
(* did to it.  Commands are told apart by the order in which they were     *)
(* issued, which no frame carries: "cmd" fields are there for the          *)
(* properties only, and no action of the host decides on one.              *)
(***************************************************************************)
EXTENDS Naturals, Sequences

CONSTANTS
  SeqMod,        \* sequence numbers in use are 0 .. SeqMod-1 (0xffff of them)
  RetryTries,    \* bound of the retry loop of doJtagCommand (8)
  CommAttempts,  \* MAX_JTAG_COMM_ATTEMPS (10)
  MaxIssue,      \* bound: commands issued in a behaviour
  MaxFlight,     \* bound: frames the wire holds on their way to the host
  MaxEvents      \* bound: events the box emits in a behaviour

ASSUME LinkAssumption ==
  /\ SeqMod \in Nat \ {0, 1}
  /\ RetryTries \in Nat \ {0}
  /\ CommAttempts \in Nat \ {0}
  /\ MaxIssue \in Nat
  /\ MaxFlight \in Nat
  /\ MaxEvents \in Nat

VARIABLES
  command_sequence, \* the number the next frame is sent under
  cmd,              \* commands issued so far; the latest one's name
  caller,           \* the function waiting for a reply, or "none"
  tries,            \* its tryCount
  sizeseen,         \* doJtagCommand: some attempt was answered
  usbReset,         \* resetUSB() was called for this command
  outcome,          \* how the last command ended
  toBox,            \* command frames on their way to the box
  toHost,           \* reply and event frames on their way back
  events,           \* events emitted so far
  base,             \* history: first command sent under command_sequence
  accepted          \* history: the reply recv() took last, and for what

vars == <<command_sequence, cmd, caller, tries, sizeseen, usbReset, outcome,
          toBox, toHost, events, base, accepted>>

seqVars == <<command_sequence, base, accepted>>

(* Events travel under a number no command ever gets (0xffff). *)
EventSeq == SeqMod

(* Response classes: OK .. below FAILED, FAILED itself, and the codes      *)
(* above FAILED, which doJtagCommand does not retry.                       *)
Codes == {"ok", "failed", "error"}

(* "cut": the header arrived and the line fell silent before the CRC;      *)
(* "damaged": complete, with a wrong CRC.                                  *)
Wires == {"whole", "damaged", "cut"}

CommandFrames == [seq : 0 .. SeqMod - 1, cmd : 1 .. MaxIssue]
HostFrames ==
  [seq : 0 .. SeqMod, cmd : 0 .. MaxIssue, code : Codes, wire : Wires]

NextSeqStuck(s) == s
NextSeqUnwrapped(s) == s + 1

NextSeq(s) == IF s + 1 = SeqMod THEN 0 ELSE s + 1

NoReply == [cmd |-> 0, lo |-> 0, hi |-> 0, wire |-> "whole"]

Init ==
  /\ command_sequence = 0
  /\ cmd = 0
  /\ caller = "none"
  /\ tries = 0
  /\ sizeseen = FALSE
  /\ usbReset = FALSE
  /\ outcome = "none"
  /\ toBox = <<>>
  /\ toHost = <<>>
  /\ events = 0
  /\ base = 1
  /\ accepted = NoReply

-----------------------------------------------------------------------------
(* Host: sending.                                                          *)

sendFrame(seq, c) == toBox' = Append(toBox, [seq |-> seq, cmd |-> c])

(* A caller enters doJtagCommand or doSimpleJtagCommand: the first attempt *)
(* goes out and recv() starts waiting.                                     *)
Issue(who) ==
  /\ caller = "none"
  /\ cmd < MaxIssue
  /\ cmd' = cmd + 1
  /\ caller' = who
  /\ tries' = 1
  /\ sizeseen' = FALSE
  /\ usbReset' = FALSE
  /\ outcome' = "none"
  /\ sendFrame(command_sequence, cmd + 1)
  /\ UNCHANGED <<toHost, events, seqVars>>

(* The attempt brought no OK: go round the caller's loop once more, under  *)
(* the number seq, or give the command up.  doJtagCommand hands its loop   *)
(* counter to sendJtagCommand by reference, so each round adds two.        *)
Resend(seq) ==
  /\ sendFrame(seq, cmd)
  /\ UNCHANGED <<cmd, caller, outcome>>

GiveUp(how) ==
  /\ caller' = "none"
  /\ outcome' = how
  /\ UNCHANGED <<cmd, tries, toBox>>

ResetDue(got) == caller = "doJtagCommand" /\ tries = 4 /\ got = "silence"

AnotherRound ==
  \/ caller = "doJtagCommand" /\ tries + 1 < RetryTries
  \/ caller = "doSimpleJtagCommand" /\ tries < CommAttempts

NextAttempt(seq, got) ==
  /\ sizeseen' = (sizeseen \/ (caller = "doJtagCommand" /\ got = "reply"))
  /\ usbReset' = (usbReset \/ ResetDue(got))
  /\ \/ /\ AnotherRound
        /\ tries' = IF caller = "doJtagCommand" THEN tries + 2 ELSE tries + 1
        /\ Resend(seq)
     \/ /\ ~AnotherRound
        /\ GiveUp(IF caller = "doSimpleJtagCommand" THEN "comm failed"
                  ELSE IF sizeseen' THEN "io error" ELSE "timeout")

-----------------------------------------------------------------------------
(* Host: recv(), one frame or one silence at a time.                       *)

Awaiting == caller # "none"

DropHead == toHost' = Tail(toHost)

RecvTimeoutWaitsOn ==
  /\ Awaiting
  /\ toHost = <<>>
  /\ UNCHANGED vars

RecvTimeoutSkipsNumber ==
  /\ Awaiting
  /\ toHost = <<>>
  /\ NextAttempt(NextSeq(command_sequence), "silence")
  /\ command_sequence' = NextSeq(command_sequence)
  /\ UNCHANGED <<toHost, events, base, accepted>>

(* recvFrame() runs out of its timeout before a start byte: recv() returns *)
(* 0 and the sequence number stays.                                        *)
RecvTimeout ==
  /\ Awaiting
  /\ toHost = <<>>
  /\ NextAttempt(command_sequence, "silence")
  /\ UNCHANGED <<toHost, events, seqVars>>

(* The CRC of the frame at the head is wrong: recvFrame() returns -1 and   *)
(* so does recv().  A cut frame swallows the bytes of the one that         *)
(* follows it and fails the CRC as well.                                   *)
RecvDamaged ==
  /\ Awaiting
  /\ toHost # <<>>
  /\ \/ Head(toHost).wire = "damaged" /\ DropHead
     \/ /\ Head(toHost).wire = "cut"
        /\ Len(toHost) > 1
        /\ toHost' = Tail(Tail(toHost))
  /\ NextAttempt(command_sequence, "damaged")
  /\ UNCHANGED <<events, seqVars>>

(* What recvFrame() hands to recv() as a frame: one that passed the CRC,   *)
(* or one the timeout broke off after its header, which is returned with   *)
(* the announced length and no check.                                      *)
FrameReturned ==
  /\ toHost # <<>>
  /\ \/ Head(toHost).wire = "whole"
     \/ Head(toHost).wire = "cut" /\ Len(toHost) = 1

(* A frame under another number is freed: a late reply, or an event.       *)
RecvOther ==
  /\ Awaiting
  /\ FrameReturned
  /\ Head(toHost).seq # command_sequence
  /\ DropHead
  /\ UNCHANGED <<cmd, caller, tries, sizeseen, usbReset, outcome, toBox,
                 events, seqVars>>

(* The response code the caller reads: that of the frame, or, when the     *)
(* payload never arrived, whatever the new buffer holds.                   *)
CodesRead(f) == IF f.wire = "cut" THEN Codes ELSE {f.code}

(* A positive reply ends the command.  doSimpleJtagCommand throws when it  *)
(* is positive in another way than RSP_OK, or longer than a code.          *)
OkVerdicts ==
  {"done"} \cup IF caller = "doSimpleJtagCommand" THEN {"io error"} ELSE {}

(* A frame under the current number is the reply.  recv() moves on to the  *)
(* next number; then the caller looks at the response code.                *)
RecvReply ==
  /\ Awaiting
  /\ FrameReturned
  /\ Head(toHost).seq = command_sequence
  /\ DropHead
  /\ command_sequence' = NextSeq(command_sequence)
  /\ accepted' = [cmd |-> Head(toHost).cmd, lo |-> base, hi |-> cmd,
                  wire |-> Head(toHost).wire]
  /\ \E code \in CodesRead(Head(toHost)) :
       \/ /\ code = "ok"
          /\ \E how \in OkVerdicts : GiveUp(how)
          /\ UNCHANGED <<sizeseen, usbReset>>
       \/ /\ code = "error"
          /\ caller = "doJtagCommand"
          /\ GiveUp("io error")
          /\ UNCHANGED <<sizeseen, usbReset>>
       \/ /\ \/ code = "failed"
             \/ code = "error" /\ caller = "doSimpleJtagCommand"
          /\ NextAttempt(NextSeq(command_sequence), "reply")
  /\ base' = IF caller' = "none" THEN cmd + 1 ELSE cmd
  /\ UNCHANGED events

(* expectEvent() and eventLoop() read single frames themselves after a     *)
(* command that succeeded: an event is handled, any other frame freed.     *)
ExpectEvent ==
  /\ caller = "none"
  /\ outcome = "done"
  /\ FrameReturned
  /\ DropHead
  /\ UNCHANGED <<cmd, caller, tries, sizeseen, usbReset, outcome, toBox,
                 events, seqVars>>

Host ==
  \/ \E who \in {"doJtagCommand", "doSimpleJtagCommand"} : Issue(who)
  \/ RecvTimeout
  \/ RecvDamaged
  \/ RecvOther
  \/ RecvReply
  \/ ExpectEvent

-----------------------------------------------------------------------------
(* The box and the wire, as src/jtag2io.cc uses them.                      *)

hostVars == <<cmd, caller, tries, sizeseen, usbReset, outcome, seqVars>>

(* The box executes the oldest command frame and answers under its number. *)
BoxReply ==
  /\ toBox # <<>>
  /\ Len(toHost) < MaxFlight
  /\ toBox' = Tail(toBox)
  /\ \E wire \in Wires, code \in Codes :
       /\ wire # "whole" => code = "ok"  \* a code that is never read
       /\ toHost' = Append(toHost, [seq  |-> Head(toBox).seq,
                                    cmd  |-> Head(toBox).cmd,
                                    code |-> code, wire |-> wire])
  /\ UNCHANGED <<events, hostVars>>

(* The command or its reply is lost. *)
Lose ==
  /\ toBox # <<>>
  /\ toBox' = Tail(toBox)
  /\ UNCHANGED <<toHost, events, hostVars>>

BoxEvent ==
  /\ events < MaxEvents
  /\ Len(toHost) < MaxFlight
  /\ events' = events + 1
  /\ toHost' = Append(toHost, [seq |-> EventSeq, cmd |-> 0, code |-> "ok",
                               wire |-> "whole"])
  /\ UNCHANGED <<toBox, hostVars>>

Box == BoxReply \/ Lose \/ BoxEvent

Next == Host \/ Box

Spec == Init /\ [][Next]_vars

(* The host never stops reading while it waits: select() in timeout_read   *)
(* returns within JTAG_RESPONSE_TIMEOUT.                                   *)
Recv == RecvTimeout \/ RecvDamaged \/ RecvOther \/ RecvReply

FairSpec == Spec /\ WF_vars(Recv)

-----------------------------------------------------------------------------
(* Properties.                                                             *)

TypeOK ==
  /\ command_sequence \in 0 .. SeqMod - 1
  /\ cmd \in 0 .. MaxIssue
  /\ caller \in {"none", "doJtagCommand", "doSimpleJtagCommand"}
  /\ tries \in Nat
  /\ sizeseen \in BOOLEAN
  /\ usbReset \in BOOLEAN
  /\ outcome \in {"none", "done", "io error", "timeout", "comm failed"}
  /\ toBox \in Seq(CommandFrames)
  /\ toHost \in Seq(HostFrames)
  /\ events \in 0 .. MaxEvents
  /\ base \in 1 .. cmd + 1
  /\ accepted \in [cmd : 0 .. MaxIssue, lo : 0 .. MaxIssue + 1,
                   hi : 0 .. MaxIssue, wire : Wires]

(* The reply recv() returns answers one of the commands sent under the     *)
(* current number: the latest command, or one that was given up since the  *)
(* number last moved.  Nothing older is ever taken for a reply, however    *)
(* often the numbers wrap around.                                          *)
ReplyOfThisNumber == accepted.cmd \in accepted.lo .. accepted.hi

(* Commands and replies in flight are under the current number or the one  *)
(* before it: the 16-bit counter can wrap without two generations meeting. *)
Recent(seq) == seq = command_sequence \/ NextSeq(seq) = command_sequence

OneNumberBehind ==
  /\ \A i \in 1 .. Len(toBox) : Recent(toBox[i].seq)
  /\ \A i \in 1 .. Len(toHost) :
       toHost[i].seq # EventSeq => Recent(toHost[i].seq)

(* Every command comes back to its caller, with a reply or an exception,   *)
(* whatever the wire loses.                                                *)
CommandReturns == (caller # "none") ~> (caller = "none")

=============================================================================
