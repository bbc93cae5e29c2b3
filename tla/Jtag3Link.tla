----------------------------- MODULE Jtag3Link -----------------------------
(***************************************************************************)
(* The command link between AVaRICE and a JTAGICE3 or an EDBG tool         *)
(* (src/jtag3io.cc, src/jtag3run.cc): numbered commands, replies under the *)
(* number of the command they answer, and events, of which one is kept     *)
(* while a command waits.  Frames come through the threads of jtag2usb.cc: *)
(* with libusb, replies and events are passed on by a thread each and so   *)
(* in any order between them; with HIDAPI one thread asks the tool once    *)
(* for a reply after each command, and for an event when nothing else is   *)
(* to be done.  UsbBridge has what these threads do to a frame's bytes.    *)
(*                                                                         *)
(* "cmd" fields name the command a frame belongs to, for the properties    *)
(* only: no action decides on one.  Events are told apart by a serial.     *)
(***************************************************************************)
EXTENDS Naturals, Sequences, FiniteSets

CONSTANTS
  SeqMod,       \* sequence numbers in use are 0 .. SeqMod-1 (0xffff of them)
  SimpleTries,  \* attempts of doSimpleJtagCommand (10)
  MaxIssue,     \* bound: commands issued in a behaviour
  MaxEvents,    \* bound: events the tool emits in a behaviour
  MaxEnds,      \* bound: threads that end of an error in a behaviour
  MaxFlight     \* bound: replies an HID tool keeps until they are asked for

ASSUME Jtag3Assumption ==
  /\ SeqMod \in Nat \ {0, 1}
  /\ SimpleTries \in Nat \ {0}
  /\ MaxIssue \in Nat
  /\ MaxEvents \in Nat
  /\ MaxEnds \in Nat
  /\ MaxFlight \in Nat

VARIABLES
  hid,              \* the tool is reached through HIDAPI, not libusb
  command_sequence, \* the number the next frame is sent under
  cmd,              \* commands issued so far; the latest one's name
  caller,           \* the function waiting for a reply, or "none"
  tries,            \* its attempts
  outcome,          \* how the last command ended; "going": the program runs
  cached_event,     \* serial of the event recv() kept, 0 for none
  handled,          \* serial of the event expectEvent() took last
  toTool,           \* commands on their way to the tool
  replies,          \* replies an HID tool has ready
  pipe,             \* frames for AVaRICE to read
  running,          \* the threads that have not ended
  events,           \* events emitted so far
  base,             \* history: first command sent under command_sequence
  accepted          \* history: the reply recv() took last, and for what

seqVars == <<command_sequence, base, accepted>>
eventVars == <<cached_event, handled>>
hostVars == <<cmd, caller, tries, outcome, seqVars, eventVars>>
toolVars == <<hid, replies, running, events>>
vars == <<hostVars, toolVars, toTool, pipe>>

EventSeq == SeqMod  \* 0xffff

Threads == {"write", "read", "event"}

Codes == {"ok", "positive", "failed"}

(* jtagContinue() sends its GO with doSimpleJtagCommand().                 *)
Callers == {"doJtagCommand", "doSimpleJtagCommand", "jtagContinue"}

Commands == [seq : 0 .. SeqMod - 1, cmd : 1 .. MaxIssue]
Replies == Commands  \* a reply goes under the number of its command
Events == [seq : {EventSeq}, serial : 1 .. MaxEvents]
Frames == Replies \cup Events

IsEvent(f) == f.seq = EventSeq

NextSeq_Stuck(s) == s
NextSeq_Unwrapped(s) == s + 1

NextSeq(s) == IF s + 1 = SeqMod THEN 0 ELSE s + 1

NoReply == [cmd |-> 0, lo |-> 0, hi |-> 0]

Init ==
  /\ hid \in BOOLEAN
  /\ command_sequence = 0
  /\ cmd = 0
  /\ caller = "none"
  /\ tries = 0
  /\ outcome = "none"
  /\ cached_event = 0
  /\ handled = 0
  /\ toTool = <<>>
  /\ replies = <<>>
  /\ pipe = <<>>
  /\ running = Threads
  /\ events = 0
  /\ base = 1
  /\ accepted = NoReply

-----------------------------------------------------------------------------
(* AVaRICE: sending, and what becomes of an attempt.                       *)

sendFrame(seq, c) == toTool' = Append(toTool, [seq |-> seq, cmd |-> c])

doCommand(who) ==
  /\ caller = "none"
  /\ cmd < MaxIssue
  /\ cmd' = cmd + 1
  /\ caller' = who
  /\ tries' = 1
  /\ outcome' = "none"
  /\ sendFrame(command_sequence, cmd + 1)
  /\ accepted' = NoReply
  /\ UNCHANGED <<command_sequence, base, toolVars, pipe>>

Issue(who) == doCommand(who) /\ UNCHANGED eventVars

(* The event kept so far is deleted before the program goes.               *)
jtagContinue ==
  /\ doCommand("jtagContinue")
  /\ cached_event' = 0
  /\ UNCHANGED handled

Return(how) ==
  /\ caller' = "none"
  /\ outcome' = how
  /\ tries' = 0
  /\ UNCHANGED <<cmd, toTool>>

(* sendJtagCommand() returned false: doJtagCommand throws, and             *)
(* doSimpleJtagCommand tries again under the number seq, or throws.        *)
AttemptFailed(seq) ==
  \/ caller = "doJtagCommand" /\ Return("thrown")
  \/ /\ caller # "doJtagCommand"
     /\ tries >= SimpleTries
     /\ Return("thrown")
  \/ /\ caller # "doJtagCommand"
     /\ tries < SimpleTries
     /\ tries' = tries + 1
     /\ sendFrame(seq, cmd)
     /\ UNCHANGED <<cmd, caller, outcome>>

(* One of the failures that a reply tells of, RSP3_FAIL_WRONG_MODE, is     *)
(* caught by jtagSingleStep(), which goes on as if the step was made.      *)
StepInWrongMode == caller = "doJtagCommand" /\ Return("done")

-----------------------------------------------------------------------------
(* AVaRICE: recv(), one frame or one silence at a time.                    *)

Waiting == caller # "none"

RecvTimeout_WaitsOn == Waiting /\ pipe = <<>> /\ UNCHANGED vars

RecvTimeout_SkipsNumber ==
  /\ Waiting
  /\ pipe = <<>>
  /\ AttemptFailed(NextSeq(command_sequence))
  /\ command_sequence' = NextSeq(command_sequence)
  /\ UNCHANGED <<base, accepted, eventVars, toolVars, pipe>>

(* Nothing within JTAG_RESPONSE_TIMEOUT: the number stays. *)
RecvTimeout ==
  /\ Waiting
  /\ pipe = <<>>
  /\ AttemptFailed(command_sequence)
  /\ UNCHANGED <<seqVars, eventVars, toolVars, pipe>>

(* A frame under the current number is the reply, and moves the number on. *)
(* Nothing before looks at its code, which is any.                         *)
RecvReply ==
  /\ Waiting
  /\ pipe # <<>>
  /\ Head(pipe).seq = command_sequence
  /\ pipe' = Tail(pipe)
  /\ command_sequence' = NextSeq(command_sequence)
  /\ accepted' = [cmd |-> Head(pipe).cmd, lo |-> base, hi |-> cmd]
  /\ \E code \in Codes :
       \/ /\ code = "ok"
          /\ Return(IF caller = "jtagContinue" THEN "going" ELSE "done")
       \/ /\ code = "positive"
          /\ Return(IF caller = "doJtagCommand" THEN "done" ELSE "thrown")
       \/ /\ code = "failed"
          /\ AttemptFailed(NextSeq(command_sequence)) \/ StepInWrongMode
  /\ base' = IF caller' = "none" THEN cmd + 1 ELSE cmd
  /\ UNCHANGED <<eventVars, toolVars>>

RecvEvent_KeepsLast ==
  /\ Waiting
  /\ pipe # <<>>
  /\ IsEvent(Head(pipe))
  /\ pipe' = Tail(pipe)
  /\ cached_event' = Head(pipe).serial
  /\ UNCHANGED <<cmd, caller, tries, outcome, handled, seqVars, toolVars,
                 toTool>>

(* An event is kept if none is kept yet, and freed otherwise. *)
RecvEvent ==
  /\ Waiting
  /\ pipe # <<>>
  /\ IsEvent(Head(pipe))
  /\ pipe' = Tail(pipe)
  /\ cached_event' =
       IF cached_event = 0 THEN Head(pipe).serial ELSE cached_event
  /\ UNCHANGED <<cmd, caller, tries, outcome, handled, seqVars, toolVars,
                 toTool>>

(* A reply under another number is freed. *)
RecvOther ==
  /\ Waiting
  /\ pipe # <<>>
  /\ Head(pipe).seq \notin {command_sequence, EventSeq}
  /\ pipe' = Tail(pipe)
  /\ UNCHANGED <<hostVars, toolVars, toTool>>

(* expectEvent(), after a reset, a stop, or a step, even one in the wrong  *)
(* mode, and in eventLoop() when there is something to read: the kept      *)
(* event, else one frame, which is thrown away when it is no event, else a *)
(* timeout, which changes nothing.                                         *)
ExpectEvent ==
  /\ caller = "none"
  /\ \/ outcome = "done"
     \/ outcome = "going" /\ pipe # <<>>
  /\ \/ /\ cached_event # 0
        /\ handled' = cached_event
        /\ cached_event' = 0
        /\ UNCHANGED pipe
     \/ /\ cached_event = 0
        /\ pipe # <<>>
        /\ handled' = IF IsEvent(Head(pipe)) THEN Head(pipe).serial
                                             ELSE handled
        /\ pipe' = Tail(pipe)
        /\ UNCHANGED cached_event
  /\ UNCHANGED <<cmd, caller, tries, outcome, seqVars, toolVars, toTool>>

Recv == RecvTimeout \/ RecvReply \/ RecvEvent \/ RecvOther

Host ==
  \/ \E who \in {"doJtagCommand", "doSimpleJtagCommand"} : Issue(who)
  \/ jtagContinue
  \/ Recv
  \/ ExpectEvent

-----------------------------------------------------------------------------
(* The tool and the threads in between.                                    *)

(* The tool executes the oldest command, and the reading thread passes the *)
(* reply on, however late.                                                 *)
UsbCommand ==
  /\ ~hid
  /\ {"write", "read"} \subseteq running
  /\ toTool # <<>>
  /\ pipe' = Append(pipe, Head(toTool))
  /\ toTool' = Tail(toTool)
  /\ UNCHANGED <<hostVars, toolVars>>

(* A command gets no reply: it or its reply got lost, or it went out glued *)
(* to another one (see UsbBridge).                                         *)
Lose ==
  /\ toTool # <<>>
  /\ toTool' = Tail(toTool)
  /\ UNCHANGED <<hostVars, toolVars, pipe>>

(* The HID thread passes a command on and asks once for a reply.  The tool *)
(* answers with the oldest one it has, with nothing when it is not ready,  *)
(* or with something else, which ends the attempt.                         *)
HidCommand ==
  /\ hid
  /\ toTool # <<>>
  /\ Len(replies) < MaxFlight
  /\ toTool' = Tail(toTool)
  /\ LET ready == Append(replies, Head(toTool))
     IN  \/ pipe' = Append(pipe, Head(ready)) /\ replies' = Tail(ready)
         \/ UNCHANGED pipe /\ replies' = ready
  /\ UNCHANGED <<hostVars, hid, running, events>>

(* An event is passed on by its own thread, at any time, or by the HID     *)
(* thread when there is no command to send.                                *)
ToolEvent ==
  /\ "event" \in running
  /\ hid => toTool = <<>>
  /\ events < MaxEvents
  /\ events' = events + 1
  /\ pipe' = Append(pipe, [seq |-> EventSeq, serial |-> events + 1])
  /\ UNCHANGED <<hostVars, hid, replies, running, toTool>>

(* An USB error ends a thread, and nobody is told.  (In the HID thread it  *)
(* is an exception nobody catches: the program ends.)                      *)
ThreadEnds ==
  /\ ~hid
  /\ Cardinality(Threads \ running) < MaxEnds
  /\ \E t \in running : running' = running \ {t}
  /\ UNCHANGED <<hostVars, hid, replies, events, toTool, pipe>>

Tool ==
  \/ UsbCommand
  \/ Lose
  \/ HidCommand
  \/ ToolEvent
  \/ ThreadEnds

Next == Host \/ Tool

Spec == Init /\ [][Next]_vars

(* While a command waits AVaRICE keeps reading: select() in timeout_read() *)
(* returns within JTAG_RESPONSE_TIMEOUT.  Nothing is assumed of the tool   *)
(* or of the threads.                                                      *)
FairSpec == Spec /\ WF_vars(Recv)

-----------------------------------------------------------------------------
(* Properties.                                                             *)

(* The variables keep their types. *)
TypeOK ==
  /\ hid \in BOOLEAN
  /\ command_sequence \in 0 .. SeqMod - 1
  /\ cmd \in 0 .. MaxIssue
  /\ caller \in {"none"} \cup Callers
  /\ tries \in 0 .. SimpleTries
  /\ outcome \in {"none", "done", "going", "thrown"}
  /\ cached_event \in 0 .. MaxEvents
  /\ handled \in 0 .. MaxEvents
  /\ toTool \in Seq(Commands)
  /\ replies \in Seq(Replies)
  /\ pipe \in Seq(Frames)
  /\ running \subseteq Threads
  /\ events \in 0 .. MaxEvents
  /\ base \in 1 .. cmd + 1
  /\ accepted \in [cmd : 0 .. MaxIssue, lo : 0 .. MaxIssue + 1,
                   hi : 0 .. MaxIssue]

(* The reply recv() returns answers a command sent under the current       *)
(* number: the one that waits, or one given up since the number last moved *)
(* (jtag3io.cc:247).  The kept number lets a late reply be taken for that  *)
(* of the next command, but never for that of one further on, even with    *)
(* HIDAPI, where an unfetched reply leaves each later fetch one behind.    *)
ReplyOfThisNumber == accepted.cmd \in accepted.lo .. accepted.hi

(* Whatever is on its way was sent under the current number or the one     *)
(* before it: the 16-bit counter wraps without two generations meeting.    *)
OneNumberBehind ==
  LET Recent(f) == command_sequence \in {f.seq, NextSeq(f.seq)}
  IN  /\ \A i \in 1 .. Len(toTool) : Recent(toTool[i])
      /\ \A i \in 1 .. Len(replies) : Recent(replies[i])
      /\ \A i \in 1 .. Len(pipe) : IsEvent(pipe[i]) \/ Recent(pipe[i])

(* Events are acted upon in the order in which they happened, although one *)
(* is kept aside in recv() while others are still to be read: a stale      *)
(* BREAK never follows a newer event (jtag3run.cc:163).  And no later      *)
(* event takes the place of the one recv() kept (jtag3io.cc:254): while a  *)
(* command waits for its reply the event stays, so a BREAK kept after GO   *)
(* was sent is there for eventLoop(), and then it goes to expectEvent() or *)
(* when jtagContinue() deletes it to send the next GO (jtag3run.cc:395).   *)
EventsKept ==
  [][/\ handled' >= handled
     /\ cached_event # 0 =>
          \/ cached_event' = cached_event
          \/ /\ cached_event' = 0
             /\ caller = "none"
             /\ \/ handled' = cached_event
                \/ caller' = "jtagContinue"
    ]_<<handled, cached_event>>

(* Every command comes back to its caller, with a reply or an exception,   *)
(* when its reply is lost and when the threads in between have ended.      *)
CommandReturns == (caller # "none") ~> (caller = "none")

=============================================================================
