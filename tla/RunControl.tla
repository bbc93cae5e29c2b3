----------------------------- MODULE RunControl -----------------------------
(***************************************************************************)
(* Running and stopping the target: what GDB's continue, step, reset and   *)
(* Ctrl-C do (src/remote.cc) with the mkII or Dragon (src/jtag2run.cc) or  *)
(* with a JTAGICE3 (src/jtag3run.cc) as the box.  The box answers each     *)
(* command and posts events of its own accord; recv() meets them while it  *)
(* waits for a reply, expectEvent() takes one, and eventLoop() waits for   *)
(* an event or for Ctrl-C.                                                 *)
(*                                                                         *)
(* The link is taken as it is when it works (Jtag2Link has its failures):  *)
(* each command is answered, once, and nothing is lost.  Breakpoints are   *)
(* in module Breakpoints; here the target may stop anywhere.               *)
(***************************************************************************)
EXTENDS Naturals, SequencesExt

CONSTANTS
  Boxes,    \* the boxes there may be, see Wirings
  PCs,      \* bound: program addresses
  MaxNews,  \* bound: power, sleep and other such events in a behaviour
  MaxLine   \* bound: frames on their way when the box posts

(* "jtag2": class jtag2, one stream of frames.  "edbg": class jtag3 over    *)
(* HID, where one thread asks for replies and events in turn.  "jtag3":     *)
(* class jtag3 over USB, where a thread of its own reads the events, so     *)
(* that an event and a reply may overtake each other.                       *)
Wirings == {"jtag2", "edbg", "jtag3"}

ASSUME RunAssumption ==
  /\ Boxes \subseteq Wirings
  /\ PCs # {}
  /\ MaxNews \in Nat
  /\ MaxLine \in Nat \ {0}

VARIABLES
  theJtagICE,    \* the box chosen at start-up
  srv,           \* the command the server awaits the reply of, or its place
  goal,          \* the GDB command under way, or the last one
  stepping,      \* a step met an interrupt: handleInterrupt() took over
  tries,         \* attempts of the step or read of the PC that were refused
  pcCache,       \* cached_pc while cached_pc_is_valid, or none
  cached_event,  \* class jtag3: the event recv() met, or none
  sent,          \* the command the box has not executed yet, or "none"
  line,          \* replies and events on their way to the server
  owed,          \* the event the box has yet to post after its reply, or none
  running, pc,   \* the target
  news,          \* power, sleep and other such events so far
  ctrlC          \* a Ctrl-C of GDB waits to be read

target == <<running, pc, news, owed>>
vars == <<theJtagICE, srv, goal, stepping, tries, pcCache, cached_event,
          sent, line, target, ctrlC>>

None == [kind |-> "none"]
At(p) == [kind |-> "pc", pc |-> p]

(* What comes up the line.  "stop": the events the mkII's server takes for  *)
(* a breakpoint that tell no PC, a reset from outside among them;           *)
(* "attention": those it takes for a user interrupt; "quiet": those it      *)
(* ignores, the ones in nonbreaking_events among them.                      *)
Reply(code) == [kind |-> "reply", code |-> code]
ReplyPC(p) == [kind |-> "reply", code |-> "ok", pc |-> p]
Break(p) == [kind |-> "break", pc |-> p]
Stop == [kind |-> "stop"]
NewsKinds == {"attention", "quiet"}
News(kind) == [kind |-> kind]

Codes == {"ok", "mode", "fail"}
Commands == {"update", "go", "stop", "step", "reset", "writePC", "readPC",
             "regs", "stack"}
EventsAwaited == {"stepEvent", "stopEvent", "resetEvent"}
IsReply(f) == f.kind = "reply"
BreaksWithPC(f) == f.kind = "break"
Breaks(f) == f.kind \in {"break", "stop"}
Attention(f) == f.kind = "attention"

Jtag2 == theJtagICE = "jtag2"

Init ==
  /\ theJtagICE \in Boxes
  /\ srv = "gdb"
  /\ goal = "none"
  /\ stepping = FALSE
  /\ tries = 0
  /\ pcCache = None
  /\ cached_event = None
  /\ sent = "none"
  /\ line = <<>>
  /\ owed = None
  /\ running = FALSE
  /\ pc \in PCs
  /\ news = 0
  /\ ctrlC = FALSE

-----------------------------------------------------------------------------
(* Sending a command, or going on without one; how a run starts.           *)

Send(c) == srv' = c /\ sent' = c
Stay(place) == srv' = place /\ UNCHANGED sent

(* An exception reaches main() and ends the session, unless it is 'R', 'C' *)
(* or "monitor reset" that catches it.                                     *)
Failed == Stay(IF goal \in {"reset", "reset and report"} THEN "gdb" ELSE "ended")

(* GO, before which the JTAGICE3 drops the event it holds.                 *)
Go == Send("go") /\ cached_event' = None

(* One command stands for all those of updateBreakpoints().                *)
jtagContinue == Go \/ (Send("update") /\ UNCHANGED cached_event)

jtagSingleStepKeepsPC == Send("step") /\ UNCHANGED <<pcCache, cached_event>>

(* jtagSingleStep(): the PC is not believed from here on.                  *)
jtagSingleStep == Send("step") /\ pcCache' = None /\ UNCHANGED cached_event

Resume(g) ==
  \/ g = "step" /\ jtagSingleStep
  \/ g = "continue" /\ jtagContinue /\ UNCHANGED pcCache

(* 's' and 'c', with an address or without; 'R' and "monitor reset"        *)
(* ("reset"); 'C' with SIGHUP ("reset and report").  getpacket() skips a   *)
(* Ctrl-C that came too late.                                              *)
GdbCommand ==
  /\ srv = "gdb"
  /\ stepping' = FALSE
  /\ ctrlC' = FALSE
  /\ \/ /\ goal' \in {"continue", "step"}
        /\ \/ Resume(goal')
           \/ Send("writePC") /\ UNCHANGED <<pcCache, cached_event>>
     \/ /\ goal' \in {"reset", "reset and report"}
        /\ Send("reset")
        /\ UNCHANGED <<pcCache, cached_event>>
  /\ UNCHANGED <<theJtagICE, tries, line, target>>

-----------------------------------------------------------------------------
(* recv()                                                                  *)

Overtakes(f, g) == theJtagICE = "jtag3" /\ IsReply(f) # IsReply(g)

Take(f) ==
  \E i \in DOMAIN line :
    /\ f = line[i]
    /\ \A j \in 1 .. i - 1 : Overtakes(f, line[j])
    /\ line' = RemoveAt(line, i)

(* An event among the replies is dropped; class jtag3 keeps one.           *)
RecvEvent ==
  /\ srv \in Commands
  /\ \E f \in ToSet(line) :
       /\ ~IsReply(f)
       /\ Take(f)
       /\ cached_event' = IF ~Jtag2 /\ cached_event = None THEN f ELSE cached_event
  /\ UNCHANGED <<theJtagICE, srv, goal, stepping, tries, pcCache, sent,
                 target, ctrlC>>

-----------------------------------------------------------------------------
(* getProgramCounter(), and what is done with the PC: singleStep() looks   *)
(* whether it is an interrupt vector's, and has handleInterrupt() read the *)
(* stack then; otherwise reportStatusExtended() reads SP and SREG.         *)

UsePC ==
  \/ Send("regs")
  \/ goal = "step" /\ ~stepping /\ Send("stack")

getProgramCounter == IF pcCache' # None THEN UsePC ELSE Send("readPC")

-----------------------------------------------------------------------------
(* The replies, one disjunct for each command.                             *)

UpdateReply(r) ==
  /\ srv = "update"
  /\ r.code = "ok"
  /\ Go
  /\ UNCHANGED <<pcCache, stepping, tries>>

GoReply(r) ==
  /\ srv = "go"
  /\ r.code = "ok"
  /\ Stay("loop")
  /\ UNCHANGED <<pcCache, cached_event, stepping, tries>>

(* setProgramCounter() forgets the PC; when it fails, 's' and 'c' go on.   *)
WritePCReply(r) ==
  /\ srv = "writePC"
  /\ IF r.code = "ok" THEN
       /\ pcCache' = None
       /\ \/ goal = "step" /\ Send("step") /\ UNCHANGED cached_event
          \/ goal = "continue" /\ jtagContinue
     ELSE Resume(goal)
  /\ UNCHANGED <<stepping, tries>>

(* class jtag2 tries three times to step an MCU in the wrong state; class  *)
(* jtag3 goes on as if it had stepped.  singleStep() catches the failure   *)
(* and asks for the PC, which jtagSingleStep() forgot.                     *)
StepReplyTriesMore(r) ==
  /\ srv = "step"
  /\ IF r.code = "mode" /\ Jtag2 /\ tries < 3
     THEN Send("step") /\ tries' = tries + 1
     ELSE Stay("stepEvent") /\ tries' = 0
  /\ UNCHANGED <<pcCache, cached_event, stepping>>

StepReply(r) ==
  /\ srv = "step"
  /\ UNCHANGED <<pcCache, cached_event, stepping>>
  /\ IF r.code = "ok" \/ (r.code = "mode" /\ ~Jtag2) THEN
       Stay("stepEvent") /\ tries' = 0
     ELSE IF r.code = "mode" /\ tries < 2 THEN
       Send("step") /\ tries' = tries + 1
     ELSE Send("readPC") /\ tries' = 0

StopOrResetReply(r) ==
  /\ r.code = "ok"
  /\ \/ srv = "stop" /\ Stay("stopEvent")
     \/ srv = "reset" /\ Stay("resetEvent")
  /\ UNCHANGED <<pcCache, cached_event, stepping, tries>>

(* In the wrong mode class jtag3 stops the target and reads once more.     *)
ReadPCReply(r) ==
  /\ srv = "readPC"
  /\ \/ /\ r.code = "ok"
        /\ pcCache' = At(r.pc)
        /\ tries' = 0
        /\ UsePC
     \/ /\ r.code = "mode" /\ ~Jtag2 /\ tries = 0
        /\ tries' = 1
        /\ Send("stop")
        /\ UNCHANGED pcCache
  /\ UNCHANGED <<cached_event, stepping>>

RegsReply(r) ==
  /\ srv = "regs"
  /\ r.code = "ok"
  /\ Stay("gdb")
  /\ UNCHANGED <<pcCache, cached_event, stepping, tries>>

(* handleInterrupt(): run to the return address, or stop if there is no    *)
(* room for a breakpoint there; once there, run again if the stack shows   *)
(* an unrelated visit, or report where it is: the PC is in the cache.      *)
StackReply(r) ==
  /\ srv = "stack"
  /\ r.code = "ok"
  /\ UNCHANGED <<pcCache, tries>>
  /\ \/ jtagContinue
     \/ Send("stop") /\ UNCHANGED cached_event
     \/ stepping /\ Send("regs") /\ UNCHANGED cached_event
  /\ stepping' = TRUE

CommandFailed(r) ==
  /\ \/ srv \in {"update", "go", "stop", "reset", "regs", "stack"} /\ r.code = "fail"
     \/ srv = "readPC" /\ (r.code = "fail" \/ (r.code = "mode" /\ (Jtag2 \/ tries = 1)))
  /\ Failed
  /\ tries' = 0
  /\ UNCHANGED <<pcCache, cached_event, stepping>>

RecvReply ==
  /\ srv \in Commands
  /\ \E r \in ToSet(line) :
       /\ IsReply(r)
       /\ Take(r)
       /\ \/ UpdateReply(r) \/ GoReply(r) \/ WritePCReply(r) \/ StepReply(r)
          \/ StopOrResetReply(r) \/ ReadPCReply(r) \/ RegsReply(r)
          \/ StackReply(r) \/ CommandFailed(r)
  /\ UNCHANGED <<theJtagICE, goal, target, ctrlC>>

-----------------------------------------------------------------------------
(* expectEvent(): the event recv() kept comes first.                       *)

NextEvent(e) ==
  IF cached_event # None
  THEN e = cached_event /\ cached_event' = None /\ UNCHANGED line
  ELSE Take(e) /\ ~IsReply(e) /\ UNCHANGED cached_event

Waiting == ToSet(line) \cup ({cached_event} \ {None})

PCAfter(e) == IF e.kind = "break" THEN At(e.pc) ELSE pcCache

AfterEvent ==
  \/ srv = "stepEvent" /\ getProgramCounter
  \/ srv = "stopEvent" /\ IF tries = 1 THEN Send("readPC") ELSE getProgramCounter
  \/ srv = "resetEvent" /\ IF goal = "reset" THEN Stay("gdb") ELSE getProgramCounter

(* After a reset class jtag3 does not believe the event's PC.              *)
PCLearnt(e) ==
  pcCache' = IF srv = "resetEvent" /\ ~Jtag2 THEN None ELSE PCAfter(e)

expectEvent ==
  /\ srv \in EventsAwaited
  /\ \/ \E e \in Waiting : NextEvent(e) /\ PCLearnt(e)
     \/ /\ Waiting = {} /\ owed = None  \* timed out
        /\ PCLearnt(None)
        /\ UNCHANGED <<line, cached_event>>
  /\ AfterEvent
  /\ UNCHANGED <<theJtagICE, goal, stepping, tries, target, ctrlC>>

-----------------------------------------------------------------------------
(* eventLoop(): one pass of it, and what its caller does with the answer.  *)

LoopReturnsAtOnce(gdbInterrupt, breakpoint) ==
  IF gdbInterrupt \/ breakpoint THEN getProgramCounter ELSE Stay("loop")

LoopReturns(gdbInterrupt, breakpoint) ==
  IF gdbInterrupt THEN Send("stop")
  ELSE IF ~breakpoint THEN Stay("loop")
  ELSE \/ getProgramCounter
       \/ stepping /\ Send("stack")

(* select() found a Ctrl-C, a frame, or both.  With both, class jtag2 adds *)
(* what the event means to the interrupt; class jtag3 clears both flags    *)
(* before it looks at the event.                                           *)
InterruptForgotten(e) == Attention(e)
InterruptKept(e) == Jtag2 \/ Attention(e)

eventLoop ==
  /\ srv = "loop"
  /\ \/ /\ ctrlC /\ ctrlC' = FALSE
        /\ Send("stop")
        /\ UNCHANGED <<pcCache, cached_event, line>>
     \/ /\ line # <<>>
        /\ \E e \in Waiting :
             /\ NextEvent(e)
             /\ pcCache' = PCAfter(e)
             /\ \/ /\ LoopReturns(Attention(e), Breaks(e))
                   /\ UNCHANGED ctrlC
                \/ /\ ctrlC /\ ctrlC' = FALSE
                   /\ LoopReturns(InterruptKept(e), Breaks(e))
  /\ UNCHANGED <<theJtagICE, goal, stepping, tries, target>>

Server == RecvEvent \/ RecvReply \/ expectEvent \/ eventLoop

-----------------------------------------------------------------------------
(* The box and the target, GDB's Ctrl-C.                                   *)

Room == Len(line) < MaxLine

Post(frame) == Room /\ line' = Append(line, frame)

(* Each command the box carries out, its reply and the event to follow it. *)
Answer(frame, event) == Post(frame) /\ owed' = event

Execute(c) ==
  \/ /\ c \in {"update", "regs", "stack"}
     /\ Answer(Reply("ok"), None) /\ UNCHANGED <<running, pc>>
  \/ c = "go" /\ running' = TRUE /\ Answer(Reply("ok"), None) /\ UNCHANGED pc
  \/ /\ c = "writePC" /\ pc' \in PCs
     /\ Answer(Reply("ok"), None) /\ UNCHANGED running
  \/ /\ c = "readPC" /\ ~running
     /\ Answer(ReplyPC(pc), None) /\ UNCHANGED <<running, pc>>
  \/ /\ c = "step" /\ ~running /\ pc' \in PCs
     /\ Answer(Reply("ok"), Break(pc')) /\ UNCHANGED running
  \/ /\ c = "stop" /\ running /\ running' = FALSE /\ pc' \in PCs
     /\ Answer(Reply("ok"), Break(pc'))
  \/ /\ c = "stop" /\ ~running /\ UNCHANGED <<running, pc>>
     /\ \E event \in {None, Break(pc)} : Answer(Reply("ok"), event)
  \/ /\ c = "reset" /\ running' = FALSE /\ pc' \in PCs
     /\ Answer(Reply("ok"), IF Jtag2 THEN Break(pc') ELSE Break(pc))

Refuse(c) ==
  /\ \/ Answer(Reply("fail"), None)
     \/ c \in {"step", "readPC"} /\ Answer(Reply("mode"), None)
  /\ UNCHANGED <<running, pc>>

BoxExecutes ==
  /\ sent # "none" /\ sent' = "none"
  /\ owed = None
  /\ Execute(sent) \/ Refuse(sent)
  /\ UNCHANGED <<theJtagICE, srv, goal, stepping, tries, pcCache, cached_event,
                 news, ctrlC>>

BoxPostsEvent ==
  /\ owed # None /\ owed' = None
  /\ Post(owed)
  /\ UNCHANGED <<theJtagICE, srv, goal, stepping, tries, pcCache, cached_event,
                 sent, running, pc, news, ctrlC>>

TargetStops ==
  /\ running /\ running' = FALSE
  /\ pc' \in PCs
  /\ \/ Post(Break(pc'))
     \/ Jtag2 /\ Post(Stop)
  /\ UNCHANGED <<theJtagICE, srv, goal, stepping, tries, pcCache, cached_event,
                 sent, owed, news, ctrlC>>

BoxNews ==
  /\ news < MaxNews /\ news' = news + 1
  /\ \E kind \in NewsKinds : Post(News(kind))
  /\ UNCHANGED <<theJtagICE, srv, goal, stepping, tries, pcCache, cached_event,
                 sent, owed, running, pc, ctrlC>>

GdbInterrupt ==
  /\ srv \notin {"gdb", "ended"}
  /\ ~ctrlC /\ ctrlC' = TRUE
  /\ UNCHANGED <<theJtagICE, srv, goal, stepping, tries, pcCache, cached_event,
                 sent, line, target>>

Next ==
  \/ GdbCommand \/ GdbInterrupt \/ Server
  \/ BoxExecutes \/ BoxPostsEvent \/ TargetStops \/ BoxNews

(* The server never stops working while it can, and the box carries out    *)
(* what it is told.  Nothing obliges GDB to go on, nor the target to stop. *)
Spec ==
  /\ Init /\ [][Next]_vars
  /\ WF_vars(Server) /\ WF_vars(BoxExecutes) /\ WF_vars(BoxPostsEvent)

-----------------------------------------------------------------------------
(* Properties                                                              *)

Frames == [kind : {"reply"}, code : Codes] \cup [kind : {"reply"}, code : {"ok"}, pc : PCs]
Events == [kind : {"break"}, pc : PCs] \cup [kind : NewsKinds \cup {"stop"}]

TypeOK ==
  /\ theJtagICE \in Boxes
  /\ srv \in Commands \cup EventsAwaited \cup {"gdb", "loop", "ended"}
  /\ goal \in {"none", "continue", "step", "reset", "reset and report"}
  /\ stepping \in BOOLEAN
  /\ tries \in 0 .. 2
  /\ pcCache \in {None} \cup [kind : {"pc"}, pc : PCs]
  /\ cached_event \in Events \cup {None}
  /\ sent \in Commands \cup {"none"}
  /\ line \in Seq(Frames \cup Events)
  /\ owed \in [kind : {"break"}, pc : PCs] \cup {None}
  /\ running \in BOOLEAN
  /\ pc \in PCs
  /\ news \in 0 .. MaxNews
  /\ ctrlC \in BOOLEAN

(* With class jtag2 the target stands still whenever GDB is told that it   *)
(* does: no event left over from an earlier stop, step or reset is taken   *)
(* for the end of a run, because recv() drops what it meets.               *)
ReportedStopped == Jtag2 /\ srv = "gdb" => ~running

(* After a single step the mkII's server reports where the target is,      *)
(* whatever event came instead of the one it expected.                     *)
StepReportsPC ==
  Jtag2 /\ srv = "gdb" /\ goal = "step" /\ ~stepping => pcCache = At(pc)

(* The server does not sit in eventLoop() over a target that has stopped,  *)
(* where replies and events come in order.                                 *)
StopIsReported ==
  theJtagICE # "jtag3" /\ srv = "loop" /\ ~running ~> srv # "loop"

(* With class jtag2 a Ctrl-C gets GDB's run out of eventLoop().            *)
InterruptServed == Jtag2 /\ srv = "loop" /\ ctrlC ~> srv # "loop"

(* "We give priority to user interrupts": a pass of eventLoop() that reads *)
(* a Ctrl-C is the last one.  Class jtag3 forgets the Ctrl-C when the same *)
(* pass reads an event, and waits on when that event means nothing to it.  *)
InterruptFirst ==
  [][srv = "loop" /\ ctrlC /\ ~ctrlC' => srv' # "loop"]_vars

=============================================================================
