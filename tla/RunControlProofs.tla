-------------------------- MODULE RunControlProofs --------------------------
(***************************************************************************)
(* Proofs about RunControl for all program addresses, numbers of events    *)
(* and lengths of the line, whichever boxes there are.  The argument: the  *)
(* server never has two commands under way, so the reply in the line is    *)
(* the one it waits for; and with class jtag2, where the line keeps its    *)
(* order, what is left of it behind that reply was posted since the box    *)
(* executed the command.  A stop seen there is therefore one of this run,  *)
(* and tells where the target stands now.                                  *)
(***************************************************************************)
EXTENDS RunControl, SequenceLemmas

Places(l) == 1 .. Len(l)

(* One command at a time: it is at the box, or its reply is in the line.   *)
OneCommand ==
  /\ \A i, j \in Places(line) : IsReply(line[i]) /\ IsReply(line[j]) => i = j
  /\ sent # "none" =>
       sent = srv /\ \A i \in Places(line) : ~IsReply(line[i])
  /\ srv \notin Commands =>
       sent = "none" /\ \A i \in Places(line) : ~IsReply(line[i])

(* Only the reply to the request for the PC tells a PC, and that one does. *)
TellsPC ==
  srv = "readPC" =>
    \A i \in Places(line) :
      IsReply(line[i]) /\ line[i].code = "ok" => line[i].pc \in PCs

-----------------------------------------------------------------------------
(* What holds with class jtag2.                                            *)

(* An event posted since the box executed the last command.                *)
Recent(l, i) == \A j \in Places(l) : IsReply(l[j]) => j < i

RecentStops ==
  sent = "none" =>
    \A i \in Places(line) :
      Recent(line, i) /\ Breaks(line[i]) =>
        ~running /\ (BreaksWithPC(line[i]) => line[i].pc = pc)

OwedIsTrue == owed # None => ~running /\ owed = Break(pc)

PCIsTrue ==
  srv = "readPC" =>
    \A i \in Places(line) :
      IsReply(line[i]) /\ line[i].code = "ok" => line[i].pc = pc

(* Where the server is while the target runs. *)
RunsUnderGo ==
  running =>
    \/ srv = "go" /\ sent = "none"
    \/ srv \in {"loop", "ended"}
    \/ /\ srv = "stop"
       /\ sent = "none" =>
            \A i \in Places(line) : IsReply(line[i]) => line[i].code # "ok"

(* Only a run or a step leads there. *)
GoalOK ==
  srv \in {"update", "go", "stop", "stopEvent", "loop", "stack", "step",
           "stepEvent", "writePC"} => goal \in {"continue", "step"}

(* A single step, before handleInterrupt() takes over. *)
SteppingOK ==
  goal = "step" /\ ~stepping =>
    /\ srv \in {"writePC", "step", "stepEvent", "readPC", "regs", "stack",
                "gdb", "ended"}
    /\ srv \in {"step", "stepEvent"} => pcCache = None
    /\ srv \in {"regs", "stack", "gdb"} => pcCache = At(pc)

Jtag2OK ==
  /\ cached_event = None
  /\ RecentStops /\ OwedIsTrue /\ PCIsTrue
  /\ RunsUnderGo /\ GoalOK /\ SteppingOK

(* The inductive invariant. *)
IInv == TypeOK /\ OneCommand /\ TellsPC /\ (Jtag2 => Jtag2OK)

-----------------------------------------------------------------------------
(* Lemmas about the line and what the server does next.                    *)

(* Where the frame at place i was before the one at place k was taken. *)
Old(k, i) == IF i < k THEN i ELSE i + 1

(* Taking a frame leaves the others, in their order; class jtag2 takes the *)
(* oldest.                                                                 *)
LEMMA TakeProperties ==
  ASSUME TypeOK, NEW f, Take(f)
  PROVE  /\ line' \in Seq(Frames \cup Events)
         /\ f \in Frames \cup Events
         /\ \E k \in Places(line) :
              /\ f = line[k]
              /\ Jtag2 => k = 1
              /\ \A i \in Places(line') :
                   /\ Old(k, i) \in Places(line) /\ Old(k, i) # k
                   /\ line'[i] = line[Old(k, i)]
              /\ \A i, j \in Places(line') :
                   Old(k, i) = Old(k, j) => i = j
              /\ \A i, j \in Places(line') :
                   Old(k, i) < Old(k, j) => i < j
              /\ \A j \in Places(line) :
                   j # k => \E i \in Places(line') : Old(k, i) = j
              /\ Jtag2 => \A i \in Places(line') : 1 < Old(k, i)
<1> DEFINE S == Frames \cup Events
<1>1. line \in Seq(S) /\ DOMAIN line = Places(line) /\ Len(line) \in Nat
  BY LenProperties DEF TypeOK, Places
<1>2. PICK k \in Places(line) :
        /\ f = line[k]
        /\ \A j \in 1 .. k - 1 : Overtakes(f, line[j])
        /\ line' = RemoveAt(line, k)
  BY <1>1 DEF Take
<1> HIDE DEF S
<1>3. /\ line' \in Seq(S)
      /\ Len(line') = Len(line) - 1
      /\ \A i \in 1 .. Len(line) - 1 :
           line'[i] = IF i < k THEN line[i] ELSE line[i + 1]
  BY <1>1, <1>2, RemoveAtProperties DEF Places
<1>4. f \in S
  BY <1>1, <1>2, ElementOfSeq DEF Places
<1>5. Jtag2 => k = 1
  <2> SUFFICES ASSUME Jtag2, k # 1 PROVE FALSE
    OBVIOUS
  <2>1. 1 \in 1 .. k - 1
    BY <1>1 DEF Places
  <2>2. QED
    BY <1>2, <2>1 DEF Overtakes, Jtag2
<1>6. /\ \A i \in Places(line') :
           /\ Old(k, i) \in Places(line) /\ Old(k, i) # k
           /\ line'[i] = line[Old(k, i)]
      /\ \A i, j \in Places(line') : Old(k, i) = Old(k, j) => i = j
      /\ \A i, j \in Places(line') : Old(k, i) < Old(k, j) => i < j
  BY <1>1, <1>3 DEF Places, Old
<1>7. k = 1 => \A i \in Places(line') : 1 < Old(k, i)
  BY <1>1, <1>3 DEF Places, Old
<1>8. ASSUME NEW j \in Places(line), j # k
      PROVE  \E i \in Places(line') : Old(k, i) = j
  <2>1. CASE j < k
    <3>1. j \in Places(line') /\ Old(k, j) = j
      BY <1>1, <1>3, <2>1 DEF Places, Old
    <3>2. QED
      BY <3>1
  <2>2. CASE j > k
    <3>1. j - 1 \in Places(line') /\ Old(k, j - 1) = j
      BY <1>1, <1>3, <2>2 DEF Places, Old
    <3>2. QED
      BY <3>1
  <2>3. QED
    BY <1>8, <2>1, <2>2 DEF Places
<1>9. QED
  BY <1>2, <1>3, <1>4, <1>5, <1>6, <1>7, <1>8 DEF S

(* What comes up the line. *)
LEMMA FrameKinds ==
  /\ \A f \in Frames \cup Events :
       /\ IsReply(f) => f \in Frames /\ f.code \in Codes
       /\ ~IsReply(f) => f \in Events /\ f # None
       /\ IsReply(f) => ~Breaks(f)
       /\ BreaksWithPC(f) => f.pc \in PCs /\ Breaks(f)
  /\ \A c \in Codes : Reply(c) \in Frames /\ IsReply(Reply(c))
                      /\ Reply(c).code = c
  /\ \A p \in PCs : /\ ReplyPC(p) \in Frames /\ IsReply(ReplyPC(p))
                    /\ ReplyPC(p).code = "ok" /\ ReplyPC(p).pc = p
  /\ \A p \in PCs : Break(p) \in Events /\ ~IsReply(Break(p))
                    /\ Break(p).pc = p /\ Break(p) # None
                    /\ Break(p) \in [kind : {"break"}, pc : PCs]
  /\ Stop \in Events /\ ~IsReply(Stop) /\ ~BreaksWithPC(Stop)
  /\ \A n \in NewsKinds : News(n) \in Events /\ ~IsReply(News(n))
                          /\ ~Breaks(News(n))
BY DEF Frames, Events, IsReply, Breaks, BreaksWithPC, Codes, Reply, ReplyPC,
       Break, Stop, News, NewsKinds, None

(* A frame joins the line. *)
LEMMA PostProperties ==
  ASSUME TypeOK, NEW f \in Frames \cup Events, Post(f)
  PROVE  /\ line' \in Seq(Frames \cup Events)
         /\ Len(line) \in Nat
         /\ Places(line') = Places(line) \cup {Len(line) + 1}
         /\ Len(line) + 1 \notin Places(line)
         /\ \A i \in Places(line) : line'[i] = line[i] /\ i < Len(line) + 1
         /\ line'[Len(line) + 1] = f
<1>1. /\ line \in Seq(Frames \cup Events)
      /\ line' = Append(line, f)
  BY DEF TypeOK, Post
<1>2. /\ line' \in Seq(Frames \cup Events)
      /\ Len(line') = Len(line) + 1 /\ Len(line) \in Nat
      /\ \A i \in 1 .. Len(line) : line'[i] = line[i]
      /\ line'[Len(line) + 1] = f
  BY <1>1, AppendProperties, LenProperties
<1>3. QED
  BY <1>2 DEF Places

(* The server sends a command, or goes to a place where it waits. *)
Moves ==
  \/ srv' \in Commands /\ sent' = srv'
  \/ srv' \in EventsAwaited \cup {"gdb", "loop", "ended"} /\ sent' = sent

Kept(e) == cached_event' = None \/ cached_event' = e

(* Sending the commands of a run or a step. *)
LEMMA RunProperties ==
  /\ jtagContinue => Moves /\ Kept(cached_event) /\ srv' \in {"go", "update"}
  /\ \A g : Resume(g) =>
       /\ Moves /\ Kept(cached_event)
       /\ pcCache' \in {None, pcCache}
       /\ \/ g = "step" /\ srv' = "step" /\ pcCache' = None
          \/ g = "continue" /\ srv' \in {"go", "update"}
BY DEF jtagContinue, Go, Send, Resume, jtagSingleStep, Moves, Kept, Commands

(* Going on with the PC, or to ask for it. *)
LEMMA PCProperties ==
  /\ UsePC => /\ Moves
              /\ \/ srv' = "regs"
                 \/ srv' = "stack" /\ goal = "step" /\ ~stepping
  /\ getProgramCounter =>
       /\ Moves
       /\ \/ srv' = "readPC"
          \/ pcCache' # None /\ srv' = "regs"
          \/ pcCache' # None /\ srv' = "stack" /\ goal = "step" /\ ~stepping
BY DEF UsePC, getProgramCounter, Send, Moves, Commands

-----------------------------------------------------------------------------
(* The inductive invariant.                                                *)

LEMMA InitInv == Init => IInv
<1> SUFFICES ASSUME Init PROVE IInv
  OBVIOUS
<1>1. TypeOK
  <2>1. <<>> \in Seq(Frames \cup Events) /\ 0 \in 0 .. MaxNews /\ 0 \in 0 .. 2
    BY EmptySeq, RunAssumption
  <2>2. QED
    BY <2>1 DEF Init, TypeOK
<1>2. Places(line) = {}
  BY DEF Init, Places
<1>3. OneCommand /\ TellsPC
  BY <1>2 DEF Init, OneCommand, TellsPC, Commands
<1>4. Jtag2OK
  BY <1>2 DEF Init, Jtag2OK, RecentStops, OwedIsTrue, PCIsTrue, RunsUnderGo,
              GoalOK, SteppingOK
<1>5. QED
  BY <1>1, <1>3, <1>4 DEF IInv

(* A line without replies, and a server that moves on. *)
LEMMA MovesProtocol ==
  ASSUME Moves, sent = "none", \A i \in Places(line') : ~IsReply(line'[i])
  PROVE  OneCommand' /\ TellsPC' /\ PCIsTrue'
         /\ srv' \in Commands \cup EventsAwaited \cup {"gdb", "loop", "ended"}
         /\ sent' \in Commands \cup {"none"}
BY DEF Moves, OneCommand, TellsPC, PCIsTrue, Commands, EventsAwaited

(* GDB's requests. *)
LEMMA GdbCommandInv == IInv /\ GdbCommand => IInv'
<1> SUFFICES ASSUME IInv, GdbCommand PROVE IInv'
  OBVIOUS
<1>1. /\ srv = "gdb" /\ srv \notin Commands /\ sent = "none"
      /\ \A i \in Places(line) : ~IsReply(line[i])
      /\ UNCHANGED <<theJtagICE, tries, line, running, pc, news, owed>>
      /\ stepping' = FALSE /\ ctrlC' = FALSE
  BY DEF IInv, OneCommand, GdbCommand, Commands, target
<1>2. /\ Moves /\ Kept(cached_event) /\ pcCache' \in {None, pcCache}
      /\ sent' # "none"
      /\ \/ goal' = "step" /\ srv' = "step" /\ pcCache' = None
         \/ goal' = "continue" /\ srv' \in {"go", "update"}
         \/ goal' \in {"continue", "step"} /\ srv' = "writePC"
         \/ goal' \in {"reset", "reset and report"} /\ srv' = "reset"
  <2>1. CASE goal' \in {"continue", "step"} /\ Resume(goal')
    <3>1. sent' # "none"
      BY <2>1 DEF Resume, jtagSingleStep, jtagContinue, Go, Send
    <3>2. QED
      BY <2>1, <3>1, RunProperties
  <2>2. CASE Send("writePC") /\ goal' \in {"continue", "step"}
             /\ UNCHANGED <<pcCache, cached_event>>
    BY <2>2 DEF Send, Moves, Commands, Kept
  <2>3. CASE Send("reset") /\ goal' \in {"reset", "reset and report"}
             /\ UNCHANGED <<pcCache, cached_event>>
    BY <2>3 DEF Send, Moves, Commands, Kept
  <2>4. QED
    BY <2>1, <2>2, <2>3 DEF GdbCommand
<1>3. \A i \in Places(line') : ~IsReply(line'[i])
  BY <1>1
<1>4. OneCommand' /\ TellsPC' /\ PCIsTrue'
  BY <1>1, <1>2, <1>3, MovesProtocol
<1>5. TypeOK'
  <2>1. /\ srv' \in Commands \cup EventsAwaited \cup {"gdb", "loop", "ended"}
        /\ sent' \in Commands \cup {"none"}
    BY <1>1, <1>2, <1>3, MovesProtocol
  <2>2. /\ goal' \in {"none", "continue", "step", "reset", "reset and report"}
        /\ cached_event' \in Events \cup {None}
        /\ pcCache' \in {None} \cup [kind : {"pc"}, pc : PCs]
    BY <1>2 DEF IInv, TypeOK, Kept
  <2>3. QED
    BY <1>1, <2>1, <2>2 DEF IInv, TypeOK
<1>6. Jtag2' => Jtag2OK'
  <2> SUFFICES ASSUME Jtag2 PROVE Jtag2OK'
    BY <1>1 DEF Jtag2
  <2>1. cached_event' = None /\ ~running /\ owed' = owed
    BY <1>1, <1>2 DEF IInv, Jtag2OK, Kept, RunsUnderGo
  <2>2. RecentStops' /\ OwedIsTrue' /\ RunsUnderGo'
    BY <1>1, <1>2, <2>1
       DEF IInv, Jtag2OK, RecentStops, OwedIsTrue, RunsUnderGo
  <2>3. GoalOK' /\ SteppingOK'
    BY <1>2 DEF GoalOK, SteppingOK
  <2>4. QED
    BY <1>4, <2>1, <2>2, <2>3 DEF Jtag2OK
<1>7. QED
  BY <1>4, <1>5, <1>6 DEF IInv

(* An event met while a reply is awaited. *)
LEMMA RecvEventInv == IInv /\ RecvEvent => IInv'
<1> SUFFICES ASSUME IInv, RecvEvent PROVE IInv'
  OBVIOUS
<1>1. PICK f \in ToSet(line) :
        /\ ~IsReply(f) /\ Take(f)
        /\ cached_event' = IF ~Jtag2 /\ cached_event = None THEN f
                           ELSE cached_event
  BY DEF RecvEvent
<1>2. UNCHANGED <<theJtagICE, srv, goal, stepping, tries, pcCache, sent,
                  running, pc, news, owed, ctrlC>>
  BY DEF RecvEvent, target
<1>3. TypeOK
  BY DEF IInv
<1>4. /\ line' \in Seq(Frames \cup Events)
      /\ f \in Frames \cup Events
      /\ \E k \in Places(line) :
           /\ f = line[k]
           /\ \A i \in Places(line') :
                /\ Old(k, i) \in Places(line) /\ Old(k, i) # k
                /\ line'[i] = line[Old(k, i)]
           /\ \A i, j \in Places(line') : Old(k, i) = Old(k, j) => i = j
           /\ \A i, j \in Places(line') : Old(k, i) < Old(k, j) => i < j
           /\ \A j \in Places(line) :
                j # k => \E i \in Places(line') : Old(k, i) = j
  BY <1>1, <1>3, TakeProperties
<1>5. PICK k \in Places(line) :
        /\ f = line[k]
        /\ \A i \in Places(line') :
             /\ Old(k, i) \in Places(line) /\ Old(k, i) # k
             /\ line'[i] = line[Old(k, i)]
        /\ \A i, j \in Places(line') : Old(k, i) = Old(k, j) => i = j
        /\ \A i, j \in Places(line') : Old(k, i) < Old(k, j) => i < j
        /\ \A j \in Places(line) :
             j # k => \E i \in Places(line') : Old(k, i) = j
  BY <1>4
<1>6. TypeOK'
  <2>1. cached_event' \in Events \cup {None}
    BY <1>1, <1>3, <1>4, FrameKinds DEF TypeOK
  <2>2. QED
    BY <1>2, <1>3, <1>4, <2>1 DEF TypeOK
<1>7. OneCommand'
  BY <1>2, <1>5 DEF IInv, OneCommand
<1>8. TellsPC'
  BY <1>2, <1>5 DEF IInv, TellsPC
<1>9. Jtag2' => Jtag2OK'
  <2> SUFFICES ASSUME Jtag2 PROVE Jtag2OK'
    BY <1>2 DEF Jtag2
  <2>1. Jtag2OK
    BY DEF IInv
  <2>2. cached_event' = None
    BY <1>1, <2>1 DEF Jtag2OK
  <2>3. \A i \in Places(line') : Recent(line', i) => Recent(line, Old(k, i))
    <3> SUFFICES ASSUME NEW i \in Places(line'), Recent(line', i),
                        NEW j \in Places(line), IsReply(line[j])
                 PROVE  j < Old(k, i)
      BY DEF Recent
    <3>1. j # k
      BY <1>1, <1>5
    <3>2. PICK h \in Places(line') : Old(k, h) = j
      BY <1>5, <3>1
    <3>3. h < i
      BY <1>5, <3>2 DEF Recent
    <3>4. QED
      BY <3>2, <3>3 DEF Old, Places
  <2>4. RecentStops'
    BY <1>2, <1>5, <2>1, <2>3 DEF Jtag2OK, RecentStops
  <2>5. PCIsTrue' /\ RunsUnderGo'
    BY <1>2, <1>5, <2>1 DEF Jtag2OK, PCIsTrue, RunsUnderGo
  <2>6. OwedIsTrue' /\ GoalOK' /\ SteppingOK'
    BY <1>2, <2>1 DEF Jtag2OK, OwedIsTrue, GoalOK, SteppingOK
  <2>7. QED
    BY <2>2, <2>4, <2>5, <2>6 DEF Jtag2OK
<1>10. QED
  BY <1>6, <1>7, <1>8, <1>9 DEF IInv

(* What the server does with a reply r: where it goes from where, and what *)
(* it believes then.                                                       *)
LEMMA ReplyProperties ==
  ASSUME TypeOK, NEW r, r.code = "ok" /\ srv = "readPC" => r.pc \in PCs,
         \/ UpdateReply(r) \/ GoReply(r) \/ WritePCReply(r) \/ StepReply(r)
         \/ StopOrResetReply(r) \/ ReadPCReply(r) \/ RegsReply(r)
         \/ StackReply(r) \/ CommandFailed(r)
  PROVE  /\ Moves /\ Kept(cached_event)
         /\ tries' \in 0 .. 2
         /\ stepping' = TRUE \/ stepping' = stepping
         /\ pcCache' \in {None, pcCache} \/ (pcCache' = At(r.pc) /\ r.pc \in PCs)
<1>1. tries \in 0 .. 2
  BY DEF TypeOK
<1>2. \A n \in 0 .. 2 : n < 2 => n + 1 \in 0 .. 2
  OBVIOUS
<1> USE <1>1, <1>2 DEF Moves, Kept, Commands, EventsAwaited, Send, Stay
<1>3. CASE UpdateReply(r)
  BY <1>1, <1>3 DEF UpdateReply, Go
<1>4. CASE GoReply(r)
  BY <1>1, <1>4 DEF GoReply
<1>5. CASE WritePCReply(r)
  <2>1. tries' = tries /\ stepping' = stepping
    BY <1>5 DEF WritePCReply
  <2>2. CASE r.code = "ok"
    BY <1>1, <1>5, <2>1, <2>2, RunProperties DEF WritePCReply
  <2>3. CASE r.code # "ok"
    BY <1>1, <1>5, <2>1, <2>3, RunProperties DEF WritePCReply
  <2>4. QED
    BY <2>2, <2>3
<1>6. CASE StepReply(r)
  BY <1>1, <1>6 DEF StepReply
<1>7. CASE StopOrResetReply(r)
  BY <1>1, <1>7 DEF StopOrResetReply
<1>8. CASE ReadPCReply(r)
  BY <1>1, <1>8, PCProperties DEF ReadPCReply
<1>9. CASE RegsReply(r)
  BY <1>1, <1>9 DEF RegsReply
<1>10. CASE StackReply(r)
  BY <1>1, <1>10, RunProperties DEF StackReply
<1>11. CASE CommandFailed(r)
  <2>1. srv' \in {"gdb", "ended"} /\ sent' = sent
    BY <1>11 DEF CommandFailed, Failed
  <2>2. QED
    BY <1>1, <1>11, <2>1 DEF CommandFailed
<1>12. QED
  BY <1>3, <1>4, <1>5, <1>6, <1>7, <1>8, <1>9, <1>10, <1>11

(* And, with class jtag2, that it goes to no place that would be wrong.    *)
LEMMA ReplyKeepsPlace ==
  ASSUME IInv, Jtag2, NEW r,
         \/ UpdateReply(r) \/ GoReply(r) \/ WritePCReply(r) \/ StepReply(r)
         \/ StopOrResetReply(r) \/ ReadPCReply(r) \/ RegsReply(r)
         \/ StackReply(r) \/ CommandFailed(r),
         srv = "readPC" /\ r.code = "ok" => r.pc = pc,
         srv = "stop" /\ running => r.code # "ok",
         sent = "none", UNCHANGED <<goal, running, pc>>
  PROVE  RunsUnderGo' /\ GoalOK' /\ SteppingOK'
<1>1. GoalOK /\ SteppingOK /\ RunsUnderGo
  BY DEF IInv, Jtag2OK
<1>2. CASE UpdateReply(r)
  <2>1. srv = "update" /\ srv' = "go" /\ stepping' = stepping
    BY <1>2 DEF UpdateReply, Go, Send
  <2>2. QED
    BY <1>1, <2>1 DEF RunsUnderGo, GoalOK, SteppingOK
<1>3. CASE GoReply(r)
  <2>1. srv = "go" /\ srv' = "loop" /\ stepping' = stepping
    BY <1>3 DEF GoReply, Stay
  <2>2. QED
    BY <1>1, <2>1 DEF RunsUnderGo, GoalOK, SteppingOK
<1>4. CASE WritePCReply(r)
  <2>1. srv = "writePC" /\ stepping' = stepping
    BY <1>4 DEF WritePCReply
  <2>2. \/ goal = "step" /\ srv' = "step" /\ pcCache' = None
        \/ goal = "continue" /\ srv' \in {"go", "update"}
    <3>1. CASE r.code = "ok"
      BY <1>4, <3>1, RunProperties DEF WritePCReply, Send
    <3>2. CASE r.code # "ok"
      BY <1>4, <3>2, RunProperties DEF WritePCReply
    <3>3. QED
      BY <3>1, <3>2
  <2>3. QED
    BY <1>1, <2>1, <2>2 DEF RunsUnderGo, GoalOK, SteppingOK
<1>5. CASE StepReply(r)
  <2>1. srv = "step" /\ stepping' = stepping /\ pcCache' = pcCache
        /\ srv' \in {"stepEvent", "step", "readPC"}
    BY <1>5 DEF StepReply, Send, Stay
  <2>2. QED
    BY <1>1, <2>1 DEF RunsUnderGo, GoalOK, SteppingOK
<1>6. CASE StopOrResetReply(r)
  <2>1. /\ r.code = "ok" /\ stepping' = stepping
        /\ \/ srv = "stop" /\ srv' = "stopEvent"
           \/ srv = "reset" /\ srv' = "resetEvent"
    BY <1>6 DEF StopOrResetReply, Stay
  <2>2. QED
    BY <1>1, <2>1 DEF RunsUnderGo, GoalOK, SteppingOK
<1>7. CASE ReadPCReply(r)
  <2>1. /\ srv = "readPC" /\ stepping' = stepping /\ pcCache' = At(pc)
        /\ UsePC
    BY <1>7 DEF ReadPCReply
  <2>2. \/ srv' = "regs"
        \/ srv' = "stack" /\ goal = "step" /\ ~stepping
    BY <2>1, PCProperties
  <2>3. QED
    BY <1>1, <2>1, <2>2 DEF RunsUnderGo, GoalOK, SteppingOK
<1>8. CASE RegsReply(r)
  <2>1. /\ srv = "regs" /\ srv' = "gdb"
        /\ stepping' = stepping /\ pcCache' = pcCache
    BY <1>8 DEF RegsReply, Stay
  <2>2. QED
    BY <1>1, <2>1 DEF RunsUnderGo, GoalOK, SteppingOK
<1>9. CASE StackReply(r)
  <2>1. /\ srv = "stack" /\ stepping' = TRUE
        /\ srv' \in {"go", "update", "stop", "regs"}
    BY <1>9, RunProperties DEF StackReply, Send
  <2>2. QED
    BY <1>1, <2>1 DEF RunsUnderGo, GoalOK, SteppingOK
<1>10. CASE CommandFailed(r)
  <2>1. /\ srv' = IF goal \in {"reset", "reset and report"} THEN "gdb"
                  ELSE "ended"
        /\ stepping' = stepping
        /\ srv \in {"update", "go", "stop", "reset", "regs", "stack", "readPC"}
    BY <1>10 DEF CommandFailed, Failed, Stay
  <2>2. RunsUnderGo'
    BY <1>1, <2>1 DEF RunsUnderGo, GoalOK
  <2>3. QED
    BY <1>1, <2>1, <2>2 DEF GoalOK, SteppingOK
<1>11. QED
  BY <1>2, <1>3, <1>4, <1>5, <1>6, <1>7, <1>8, <1>9, <1>10

(* The reply is taken: there is no other, and what is left of the line is  *)
(* younger than it with class jtag2.                                       *)
LEMMA RecvReplyInv == IInv /\ RecvReply => IInv'
<1> SUFFICES ASSUME IInv, RecvReply PROVE IInv'
  OBVIOUS
<1>1. PICK r \in ToSet(line) :
        /\ IsReply(r) /\ Take(r)
        /\ \/ UpdateReply(r) \/ GoReply(r) \/ WritePCReply(r) \/ StepReply(r)
           \/ StopOrResetReply(r) \/ ReadPCReply(r) \/ RegsReply(r)
           \/ StackReply(r) \/ CommandFailed(r)
  BY DEF RecvReply
<1>2. /\ UNCHANGED <<theJtagICE, goal, running, pc, news, owed, ctrlC>>
      /\ TypeOK /\ OneCommand /\ TellsPC
  BY DEF RecvReply, target, IInv
<1>3. line' \in Seq(Frames \cup Events)
  BY <1>1, <1>2, TakeProperties
<1>4. PICK k \in Places(line) :
        /\ r = line[k]
        /\ Jtag2 => k = 1
        /\ \A i \in Places(line') :
             /\ Old(k, i) \in Places(line) /\ Old(k, i) # k
             /\ line'[i] = line[Old(k, i)]
        /\ Jtag2 => \A i \in Places(line') : 1 < Old(k, i)
  BY <1>1, <1>2, TakeProperties
<1>5. sent = "none" /\ \A i \in Places(line') : ~IsReply(line'[i])
  BY <1>1, <1>2, <1>4 DEF OneCommand
<1>6. r.code = "ok" /\ srv = "readPC" => r.pc \in PCs
  BY <1>1, <1>2, <1>4 DEF TellsPC
<1>7. /\ Moves /\ Kept(cached_event)
      /\ tries' \in 0 .. 2
      /\ stepping' = TRUE \/ stepping' = stepping
      /\ pcCache' \in {None, pcCache} \/ (pcCache' = At(r.pc) /\ r.pc \in PCs)
  BY <1>1, <1>2, <1>6, ReplyProperties
<1>8. /\ OneCommand' /\ TellsPC' /\ PCIsTrue'
      /\ srv' \in Commands \cup EventsAwaited \cup {"gdb", "loop", "ended"}
      /\ sent' \in Commands \cup {"none"}
  BY <1>5, <1>7, MovesProtocol
<1>9. TypeOK'
  <2>1. cached_event' \in Events \cup {None}
    BY <1>2, <1>7 DEF TypeOK, Kept
  <2>2. stepping' \in BOOLEAN
    BY <1>2, <1>7 DEF TypeOK
  <2>3. pcCache' \in {None} \cup [kind : {"pc"}, pc : PCs]
    <3>1. r.pc \in PCs => At(r.pc) \in [kind : {"pc"}, pc : PCs]
      BY DEF At
    <3>2. pcCache \in {None} \cup [kind : {"pc"}, pc : PCs]
      BY <1>2 DEF TypeOK
    <3>3. QED
      BY <1>7, <3>1, <3>2
  <2>4. QED
    BY <1>2, <1>3, <1>7, <1>8, <2>1, <2>2, <2>3 DEF TypeOK
<1>10. Jtag2' => Jtag2OK'
  <2> SUFFICES ASSUME Jtag2 PROVE Jtag2OK'
    BY <1>2 DEF Jtag2
  <2>1. Jtag2OK
    BY DEF IInv
  <2>2. cached_event' = None
    BY <1>7, <2>1 DEF Jtag2OK, Kept
  <2>3. RecentStops'
    <3>1. \A i \in Places(line') : Recent(line, Old(k, i))
      BY <1>1, <1>2, <1>4 DEF OneCommand, Recent
    <3>2. QED
      BY <1>2, <1>4, <1>5, <2>1, <3>1 DEF Jtag2OK, RecentStops
  <2>4. OwedIsTrue'
    BY <1>2, <2>1 DEF Jtag2OK, OwedIsTrue
  <2>5. RunsUnderGo' /\ GoalOK' /\ SteppingOK'
    <3>1. srv = "readPC" /\ r.code = "ok" => r.pc = pc
      BY <1>1, <1>4, <2>1 DEF Jtag2OK, PCIsTrue
    <3>2. srv = "stop" /\ running => r.code # "ok"
      BY <1>1, <1>4, <1>5, <2>1 DEF Jtag2OK, RunsUnderGo
    <3>3. QED
      BY <1>1, <1>2, <1>5, <3>1, <3>2, ReplyKeepsPlace
  <2>6. QED
    BY <1>8, <2>2, <2>3, <2>4, <2>5 DEF Jtag2OK
<1>11. QED
  BY <1>8, <1>9, <1>10 DEF IInv

(* An event is taken while no command is under way: it is in Events, and   *)
(* with class jtag2 it comes from the line, where a stop is a true one.    *)
LEMMA NextEventProperties ==
  ASSUME IInv, NEW e, NextEvent(e), sent = "none",
         \A i \in Places(line) : ~IsReply(line[i])
  PROVE  /\ line' \in Seq(Frames \cup Events)
         /\ \A i \in Places(line') : ~IsReply(line'[i])
         /\ cached_event' \in Events \cup {None}
         /\ PCAfter(e) \in {None} \cup [kind : {"pc"}, pc : PCs]
         /\ Jtag2 =>
              /\ cached_event' = None
              /\ \A i \in Places(line') : \E j \in Places(line) :
                   line'[i] = line[j]
              /\ Breaks(e) => ~running
              /\ PCAfter(e) = At(pc) \/ PCAfter(e) = pcCache
<1>1. TypeOK /\ cached_event \in Events \cup {None}
      /\ pcCache \in {None} \cup [kind : {"pc"}, pc : PCs]
      /\ line \in Seq(Frames \cup Events)
  BY DEF IInv, TypeOK
<1>2. e \in Events => PCAfter(e) \in {None} \cup [kind : {"pc"}, pc : PCs]
  <2>1. CASE BreaksWithPC(e) /\ e \in Events
    <3>1. PCAfter(e) = At(e.pc) /\ e.pc \in PCs
      BY <2>1, FrameKinds DEF PCAfter, BreaksWithPC
    <3>2. QED
      BY <3>1 DEF At
  <2>2. CASE ~BreaksWithPC(e)
    BY <1>1, <2>2 DEF PCAfter, BreaksWithPC
  <2>3. QED
    BY <2>1, <2>2
<1>3. CASE cached_event # None
  <2>1. e = cached_event /\ cached_event' = None /\ line' = line
    BY <1>3 DEF NextEvent
  <2>2. ~Jtag2
    BY <1>3 DEF IInv, Jtag2OK
  <2>3. QED
    BY <1>1, <1>2, <1>3, <2>1, <2>2
<1>4. CASE cached_event = None
  <2>1. Take(e) /\ ~IsReply(e) /\ cached_event' = None
    BY <1>4 DEF NextEvent
  <2>2. line' \in Seq(Frames \cup Events) /\ e \in Frames \cup Events
    BY <1>1, <2>1, TakeProperties
  <2>3. PICK k \in Places(line) :
          /\ e = line[k]
          /\ \A i \in Places(line') :
               /\ Old(k, i) \in Places(line)
               /\ line'[i] = line[Old(k, i)]
    BY <1>1, <2>1, TakeProperties
  <2>4. e \in Events
    BY <2>1, <2>2, FrameKinds
  <2>5. ASSUME Jtag2
        PROVE  /\ Breaks(e) => ~running
               /\ PCAfter(e) = At(pc) \/ PCAfter(e) = pcCache
    <3>1. Recent(line, k)
      BY DEF Recent
    <3>2. Breaks(e) => ~running /\ (BreaksWithPC(e) => e.pc = pc)
      BY <2>3, <2>5, <3>1 DEF IInv, Jtag2OK, RecentStops
    <3>3. BreaksWithPC(e) => Breaks(e)
      BY DEF BreaksWithPC, Breaks
    <3>4. QED
      BY <3>2, <3>3 DEF PCAfter, BreaksWithPC
  <2>6. QED
    BY <1>2, <2>1, <2>2, <2>3, <2>4, <2>5
<1>5. QED
  BY <1>3, <1>4

(* Where the server goes from an event loop or an awaited event. *)
LEMMA AfterEventInv ==
  ASSUME IInv, Moves, sent = "none",
         UNCHANGED <<theJtagICE, goal, running, pc, news, owed>>,
         line' \in Seq(Frames \cup Events), ctrlC' \in BOOLEAN,
         stepping' = stepping, tries' = tries,
         \A i \in Places(line') : ~IsReply(line'[i]),
         cached_event' \in Events \cup {None},
         pcCache' \in {None} \cup [kind : {"pc"}, pc : PCs],
         Jtag2 => /\ cached_event' = None
                  /\ \A i \in Places(line) : ~IsReply(line[i])
                  /\ \A i \in Places(line') : \E j \in Places(line) :
                       line'[i] = line[j]
                  /\ RunsUnderGo' /\ GoalOK' /\ SteppingOK'
  PROVE  IInv'
<1>1. /\ OneCommand' /\ TellsPC' /\ PCIsTrue'
      /\ srv' \in Commands \cup EventsAwaited \cup {"gdb", "loop", "ended"}
      /\ sent' \in Commands \cup {"none"}
  BY MovesProtocol
<1>2. TypeOK'
  BY <1>1 DEF IInv, TypeOK
<1>3. ASSUME Jtag2 PROVE Jtag2OK'
  <2>1. Jtag2OK
    BY <1>3 DEF IInv
  <2>2. \A i \in Places(line) : Recent(line, i)
    BY <1>3 DEF Recent
  <2>3. RecentStops'
    BY <1>3, <2>1, <2>2 DEF Jtag2OK, RecentStops
  <2>4. OwedIsTrue'
    BY <2>1 DEF Jtag2OK, OwedIsTrue
  <2>5. QED
    BY <1>1, <1>3, <2>3, <2>4 DEF Jtag2OK
<1>4. QED
  BY <1>1, <1>2, <1>3 DEF IInv, Jtag2

LEMMA ExpectEventInv == IInv /\ expectEvent => IInv'
<1> SUFFICES ASSUME IInv, expectEvent PROVE IInv'
  OBVIOUS
<1>1. /\ srv \in EventsAwaited /\ AfterEvent
      /\ UNCHANGED <<theJtagICE, goal, stepping, tries, running, pc, news, owed,
                     ctrlC>>
  BY DEF expectEvent, target
<1>2. sent = "none" /\ \A i \in Places(line) : ~IsReply(line[i])
  <2>1. srv \notin Commands
    BY <1>1 DEF EventsAwaited, Commands
  <2>2. QED
    BY <2>1 DEF IInv, OneCommand
<1>3. Moves
  <2>1. CASE srv = "stepEvent"
    BY <1>1, <2>1, PCProperties DEF AfterEvent
  <2>2. CASE srv = "stopEvent"
    BY <1>1, <2>2, PCProperties DEF AfterEvent, Send, Moves, Commands
  <2>3. CASE srv = "resetEvent"
    BY <1>1, <2>3, PCProperties DEF AfterEvent, Stay, Moves
  <2>4. QED
    BY <1>1, <2>1, <2>2, <2>3 DEF EventsAwaited
<1>4. /\ pcCache \in {None} \cup [kind : {"pc"}, pc : PCs]
      /\ cached_event \in Events \cup {None}
      /\ line \in Seq(Frames \cup Events) /\ ctrlC \in BOOLEAN
  BY DEF IInv, TypeOK
<1>5. /\ line' \in Seq(Frames \cup Events)
      /\ \A i \in Places(line') : ~IsReply(line'[i])
      /\ cached_event' \in Events \cup {None}
      /\ pcCache' \in {None} \cup [kind : {"pc"}, pc : PCs]
      /\ Jtag2 =>
           /\ cached_event' = None
           /\ \A i \in Places(line') : \E j \in Places(line) :
                line'[i] = line[j]
           /\ srv # "resetEvent" => pcCache' = At(pc) \/ pcCache' = pcCache
  <2>1. CASE \E e \in Waiting : NextEvent(e) /\ PCLearnt(e)
    <3>1. PICK e : NextEvent(e) /\ PCLearnt(e)
      BY <2>1
    <3>2. pcCache' = None \/ pcCache' = PCAfter(e)
      BY <3>1 DEF PCLearnt
    <3>3. srv # "resetEvent" => pcCache' = PCAfter(e)
      BY <3>1 DEF PCLearnt
    <3>4. QED
      BY <1>2, <3>1, <3>2, <3>3, NextEventProperties
  <2>2. CASE PCLearnt(None) /\ UNCHANGED <<line, cached_event>>
    <3>1. PCAfter(None) = pcCache
      BY DEF PCAfter, None
    <3>2. pcCache' = None \/ pcCache' = pcCache
      BY <2>2, <3>1 DEF PCLearnt
    <3>3. srv # "resetEvent" => pcCache' = pcCache
      BY <2>2, <3>1 DEF PCLearnt
    <3>4. Jtag2 => cached_event = None
      BY DEF IInv, Jtag2OK
    <3>5. QED
      BY <1>2, <1>4, <2>2, <3>2, <3>3, <3>4
  <2>3. QED
    BY <2>1, <2>2 DEF expectEvent
<1>6. ASSUME Jtag2
      PROVE  RunsUnderGo' /\ GoalOK' /\ SteppingOK'
  <2>1. RunsUnderGo /\ GoalOK /\ SteppingOK
    BY <1>6 DEF IInv, Jtag2OK
  <2>2. ~running'
    BY <1>1, <2>1 DEF RunsUnderGo, EventsAwaited
  <2>3. CASE srv = "stepEvent"
    <3>1. \/ srv' = "readPC"
          \/ pcCache' # None /\ srv' = "regs"
          \/ pcCache' # None /\ srv' = "stack" /\ goal = "step" /\ ~stepping
      BY <1>1, <2>3, PCProperties DEF AfterEvent
    <3>2. QED
      BY <1>1, <1>5, <1>6, <2>1, <2>2, <2>3, <3>1
         DEF RunsUnderGo, GoalOK, SteppingOK
  <2>4. CASE srv \in {"stopEvent", "resetEvent"}
    <3>1. \/ srv' \in {"gdb", "readPC", "regs"}
          \/ srv' = "stack" /\ goal = "step"
      BY <1>1, <2>4, PCProperties DEF AfterEvent, Send, Stay
    <3>2. QED
      BY <1>1, <2>1, <2>2, <2>4, <3>1 DEF RunsUnderGo, GoalOK, SteppingOK
  <2>5. QED
    BY <1>1, <2>3, <2>4 DEF EventsAwaited
<1>7. QED
  BY <1>1, <1>2, <1>3, <1>4, <1>5, <1>6, AfterEventInv

LEMMA EventLoopInv == IInv /\ eventLoop => IInv'
<1> SUFFICES ASSUME IInv, eventLoop PROVE IInv'
  OBVIOUS
<1>1. /\ srv = "loop"
      /\ UNCHANGED <<theJtagICE, goal, stepping, tries, running, pc, news,
                     owed>>
  BY DEF eventLoop, target
<1>2. sent = "none" /\ \A i \in Places(line) : ~IsReply(line[i])
  <2>1. srv \notin Commands
    BY <1>1 DEF Commands
  <2>2. QED
    BY <2>1 DEF IInv, OneCommand
<1>3. /\ pcCache \in {None} \cup [kind : {"pc"}, pc : PCs]
      /\ cached_event \in Events \cup {None}
      /\ line \in Seq(Frames \cup Events) /\ ctrlC \in BOOLEAN
  BY DEF IInv, TypeOK
<1>4. Jtag2 => RunsUnderGo /\ GoalOK /\ SteppingOK /\ cached_event = None
  BY DEF IInv, Jtag2OK
<1>5. CASE /\ ctrlC' = FALSE /\ Send("stop")
           /\ UNCHANGED <<pcCache, cached_event, line>>
  <2>1. Moves /\ srv' = "stop" /\ sent' = "stop"
    BY <1>5 DEF Send, Moves, Commands
  <2>2. Jtag2 => RunsUnderGo' /\ GoalOK' /\ SteppingOK'
    BY <1>1, <1>4, <2>1 DEF RunsUnderGo, GoalOK, SteppingOK
  <2>3. QED
    BY <1>1, <1>2, <1>3, <1>4, <1>5, <2>1, <2>2, AfterEventInv
<1>6. CASE \E e \in Waiting :
             /\ NextEvent(e)
             /\ pcCache' = PCAfter(e)
             /\ \/ LoopReturns(Attention(e), Breaks(e)) /\ UNCHANGED ctrlC
                \/ /\ ctrlC' = FALSE
                   /\ LoopReturns(InterruptKept(e), Breaks(e))
  <2>1. PICK e \in Waiting :
          /\ NextEvent(e)
          /\ pcCache' = PCAfter(e)
          /\ \E interrupt \in BOOLEAN : LoopReturns(interrupt, Breaks(e))
          /\ ctrlC' \in BOOLEAN
    <3>1. PICK e \in Waiting :
            /\ NextEvent(e)
            /\ pcCache' = PCAfter(e)
            /\ \/ LoopReturns(Attention(e), Breaks(e)) /\ UNCHANGED ctrlC
               \/ /\ ctrlC' = FALSE
                  /\ LoopReturns(InterruptKept(e), Breaks(e))
      BY <1>6
    <3>2. Attention(e) \in BOOLEAN /\ InterruptKept(e) \in BOOLEAN
      BY DEF Attention, InterruptKept, Jtag2
    <3>3. QED
      BY <1>3, <3>1, <3>2
  <2>2. PICK interrupt \in BOOLEAN : LoopReturns(interrupt, Breaks(e))
    BY <2>1
  <2>3. /\ line' \in Seq(Frames \cup Events)
        /\ \A i \in Places(line') : ~IsReply(line'[i])
        /\ cached_event' \in Events \cup {None}
        /\ pcCache' \in {None} \cup [kind : {"pc"}, pc : PCs]
        /\ Jtag2 =>
             /\ cached_event' = None
             /\ \A i \in Places(line') : \E j \in Places(line) :
                  line'[i] = line[j]
             /\ Breaks(e) => ~running
    BY <1>2, <2>1, NextEventProperties
  <2>4. /\ Moves
        /\ \/ srv' = "stop" /\ sent' = "stop"
           \/ srv' = "loop"
           \/ /\ Breaks(e)
              /\ \/ srv' \in {"readPC", "regs", "stack"}
    <3>1. CASE interrupt
      BY <2>2, <3>1 DEF LoopReturns, Send, Moves, Commands
    <3>2. CASE ~interrupt /\ ~Breaks(e)
      BY <2>2, <3>2 DEF LoopReturns, Stay, Moves
    <3>3. CASE ~interrupt /\ Breaks(e)
      BY <2>2, <3>3, PCProperties DEF LoopReturns, Send, Moves, Commands
    <3>4. QED
      BY <3>1, <3>2, <3>3
  <2>5. Jtag2 => RunsUnderGo' /\ GoalOK' /\ SteppingOK'
    BY <1>1, <1>4, <2>3, <2>4 DEF RunsUnderGo, GoalOK, SteppingOK
  <2>6. QED
    BY <1>1, <1>2, <2>1, <2>3, <2>4, <2>5, AfterEventInv
<1>7. QED
  BY <1>5, <1>6 DEF eventLoop

-----------------------------------------------------------------------------
(* The box and the target.                                                 *)

(* What the box makes of a command: a reply, and what may follow it.       *)
LEMMA ExecuteProperties ==
  ASSUME IInv, sent # "none", Execute(sent) \/ Refuse(sent)
  PROVE  \E r \in Frames :
           /\ IsReply(r) /\ Post(r)
           /\ sent = "readPC" /\ r.code = "ok" => r.pc = pc /\ r.pc \in PCs
           /\ running' \in BOOLEAN /\ pc' \in PCs
           /\ owed' \in {None} \cup [kind : {"break"}, pc : PCs]
           /\ running' => sent = "go" \/ running
           /\ running' /\ sent = "stop" => r.code # "ok"
           /\ Jtag2 => (owed' # None => ~running' /\ owed' = Break(pc'))
           /\ sent \in {"readPC", "regs", "stack"} => pc' = pc
<1>1. running \in BOOLEAN /\ pc \in PCs /\ sent \in Commands
  BY DEF IInv, TypeOK
<1>2. Jtag2 => (running => sent = "stop")
  BY <1>1 DEF IInv, OneCommand, Jtag2OK, RunsUnderGo, Commands
<1>3. /\ Reply("ok") \in Frames /\ IsReply(Reply("ok"))
      /\ Reply("fail") \in Frames /\ IsReply(Reply("fail"))
      /\ Reply("fail").code = "fail"
      /\ Reply("mode") \in Frames /\ IsReply(Reply("mode"))
      /\ Reply("mode").code = "mode"
  BY FrameKinds DEF Codes
<1>4. /\ ReplyPC(pc) \in Frames /\ IsReply(ReplyPC(pc)) /\ ReplyPC(pc).pc = pc
      /\ \A p \in PCs : Break(p) \in [kind : {"break"}, pc : PCs]
  BY <1>1, FrameKinds
<1>5. CASE Refuse(sent)
  <2>1. /\ UNCHANGED <<running, pc>> /\ owed' = None
        /\ Post(Reply("fail")) \/ Post(Reply("mode"))
    BY <1>5 DEF Refuse, Answer
  <2>2. QED
    BY <1>1, <1>3, <2>1
<1>6. CASE Execute(sent)
  <2>1. CASE sent \in {"update", "regs", "stack"}
    <3>1. Post(Reply("ok")) /\ owed' = None /\ UNCHANGED <<running, pc>>
      BY <1>6, <2>1 DEF Execute, Answer
    <3>2. QED
      BY <1>1, <1>3, <2>1, <3>1
  <2>2. CASE sent = "go"
    <3>1. Post(Reply("ok")) /\ owed' = None /\ running' = TRUE /\ pc' = pc
      BY <1>6, <2>2 DEF Execute, Answer
    <3>2. QED
      BY <1>1, <1>3, <2>2, <3>1
  <2>3. CASE sent = "writePC"
    <3>1. Post(Reply("ok")) /\ owed' = None /\ running' = running /\ pc' \in PCs
      BY <1>6, <2>3 DEF Execute, Answer
    <3>2. QED
      BY <1>1, <1>3, <2>3, <3>1
  <2>4. CASE sent = "readPC"
    <3>1. Post(ReplyPC(pc)) /\ owed' = None /\ UNCHANGED <<running, pc>>
      BY <1>6, <2>4 DEF Execute, Answer
    <3>2. QED
      BY <1>1, <1>4, <2>4, <3>1
  <2>5. CASE sent = "step"
    <3>1. /\ Post(Reply("ok")) /\ owed' = Break(pc') /\ running' = running
          /\ ~running /\ pc' \in PCs
      BY <1>6, <2>5 DEF Execute, Answer
    <3>2. QED
      BY <1>1, <1>3, <1>4, <2>5, <3>1
  <2>6. CASE sent = "stop"
    <3>1. /\ Post(Reply("ok")) /\ owed' \in {None, Break(pc')}
          /\ running' = FALSE /\ pc' \in PCs
      BY <1>1, <1>6, <2>6 DEF Execute, Answer
    <3>2. QED
      BY <1>3, <1>4, <2>6, <3>1
  <2>7. CASE sent = "reset"
    <3>1. /\ Post(Reply("ok")) /\ running' = FALSE /\ pc' \in PCs
          /\ owed' = IF Jtag2 THEN Break(pc') ELSE Break(pc)
      BY <1>6, <2>7 DEF Execute, Answer
    <3>2. QED
      BY <1>1, <1>3, <1>4, <2>7, <3>1
  <2>8. QED
    BY <1>1, <2>1, <2>2, <2>3, <2>4, <2>5, <2>6, <2>7 DEF Commands
<1>7. QED
  BY <1>5, <1>6

(* The reply comes last, so nothing in the line is recent; until then the  *)
(* line held no reply.                                                     *)
LEMMA BoxExecutesInv == IInv /\ BoxExecutes => IInv'
<1> SUFFICES ASSUME IInv, BoxExecutes PROVE IInv'
  OBVIOUS
<1>1. /\ sent # "none" /\ sent' = "none" /\ owed = None
      /\ UNCHANGED <<theJtagICE, srv, goal, stepping, tries, pcCache,
                     cached_event, news, ctrlC>>
      /\ Execute(sent) \/ Refuse(sent)
  BY DEF BoxExecutes
<1>2. PICK r \in Frames :
        /\ IsReply(r) /\ Post(r)
        /\ sent = "readPC" /\ r.code = "ok" => r.pc = pc /\ r.pc \in PCs
        /\ running' \in BOOLEAN /\ pc' \in PCs
        /\ owed' \in {None} \cup [kind : {"break"}, pc : PCs]
        /\ running' => sent = "go" \/ running
        /\ running' /\ sent = "stop" => r.code # "ok"
        /\ Jtag2 => (owed' # None => ~running' /\ owed' = Break(pc'))
        /\ sent \in {"readPC", "regs", "stack"} => pc' = pc
  BY <1>1, ExecuteProperties
<1>3. /\ sent = srv /\ srv \in Commands
      /\ \A i \in Places(line) : ~IsReply(line[i])
  BY <1>1 DEF IInv, OneCommand
<1> DEFINE n == Len(line) + 1
<1>4. /\ line' \in Seq(Frames \cup Events)
      /\ Places(line') = Places(line) \cup {n}
      /\ \A i \in Places(line) : line'[i] = line[i] /\ i < n
      /\ line'[n] = r
  BY <1>2, PostProperties DEF IInv
<1> HIDE DEF n
<1>5. \A i \in Places(line') : IsReply(line'[i]) => i = n
  BY <1>3, <1>4
<1>6. TypeOK'
  BY <1>1, <1>2, <1>4 DEF IInv, TypeOK
<1>7. OneCommand'
  BY <1>1, <1>3, <1>5 DEF OneCommand
<1>8. TellsPC'
  BY <1>1, <1>2, <1>3, <1>4, <1>5 DEF TellsPC
<1>9. Jtag2' => Jtag2OK'
  <2> SUFFICES ASSUME Jtag2 PROVE Jtag2OK'
    BY <1>1 DEF Jtag2
  <2>1. Jtag2OK
    BY DEF IInv
  <2>2. RecentStops'
    <3>1. \A i \in Places(line') : Recent(line', i) => n < i
      BY <1>2, <1>4 DEF Recent
    <3>2. \A i \in Places(line') : ~(n < i)
      BY <1>4 DEF Places, n
    <3>3. QED
      BY <3>1, <3>2 DEF RecentStops
  <2>3. PCIsTrue'
    BY <1>1, <1>2, <1>3, <1>4, <1>5 DEF PCIsTrue
  <2>4. RunsUnderGo'
    <3>1. running' => srv \in {"go", "stop"}
      BY <1>1, <1>2, <1>3, <2>1 DEF Jtag2OK, RunsUnderGo, Commands
    <3>2. QED
      BY <1>1, <1>2, <1>3, <1>4, <1>5, <3>1 DEF RunsUnderGo
  <2>5. GoalOK' /\ cached_event' = None
    BY <1>1, <2>1 DEF Jtag2OK, GoalOK
  <2>6. SteppingOK'
    BY <1>1, <1>2, <1>3, <2>1 DEF Jtag2OK, SteppingOK, Commands
  <2>7. OwedIsTrue'
    BY <1>2 DEF OwedIsTrue
  <2>8. QED
    BY <2>2, <2>3, <2>4, <2>5, <2>6, <2>7 DEF Jtag2OK
<1>10. QED
  BY <1>6, <1>7, <1>8, <1>9 DEF IInv

(* An event joins the line: when it is a stop, a true one. *)
LEMMA EventPosted ==
  ASSUME IInv, NEW e \in Events, ~IsReply(e), Post(e),
         UNCHANGED <<theJtagICE, srv, goal, stepping, tries, pcCache,
                     cached_event, sent, ctrlC>>,
         running' \in BOOLEAN, pc' \in PCs, news' \in 0 .. MaxNews,
         owed' \in {None} \cup [kind : {"break"}, pc : PCs],
         Jtag2 =>
           /\ Breaks(e) => ~running'
           /\ BreaksWithPC(e) => e.pc = pc'
           /\ OwedIsTrue' /\ RunsUnderGo
           /\ running' => running
           /\ running => srv \notin {"readPC", "regs", "stack", "gdb"}
           /\ pc' = pc \/ running
  PROVE  IInv'
<1> DEFINE n == Len(line) + 1
<1>1. /\ line' \in Seq(Frames \cup Events)
      /\ Places(line') = Places(line) \cup {n}
      /\ \A i \in Places(line) : line'[i] = line[i] /\ i < n
      /\ line'[n] = e
      /\ n \notin Places(line)
  BY PostProperties DEF IInv
<1> HIDE DEF n
<1>2. TypeOK'
  BY <1>1 DEF IInv, TypeOK
<1>3. OneCommand'
  BY <1>1 DEF IInv, OneCommand
<1>4. TellsPC'
  BY <1>1 DEF IInv, TellsPC
<1>5. ASSUME Jtag2 PROVE Jtag2OK'
  <2>1. Jtag2OK
    BY <1>5 DEF IInv
  <2>2. \A i \in Places(line) : Recent(line', i) => Recent(line, i)
    BY <1>1 DEF Recent
  <2>3. RecentStops'
    <3>1. ASSUME NEW i \in Places(line), sent = "none",
                 Recent(line, i), Breaks(line[i])
          PROVE  ~running /\ ~running' /\ (BreaksWithPC(line[i]) => line[i].pc = pc')
      BY <1>5, <2>1, <3>1 DEF Jtag2OK, RecentStops
    <3>2. QED
      BY <1>1, <1>5, <2>2, <3>1 DEF RecentStops
  <2>4. PCIsTrue'
    BY <1>1, <1>5, <2>1 DEF Jtag2OK, PCIsTrue
  <2>5. RunsUnderGo'
    BY <1>1, <1>5 DEF RunsUnderGo
  <2>6. GoalOK' /\ cached_event' = None
    BY <2>1 DEF Jtag2OK, GoalOK
  <2>7. SteppingOK'
    BY <1>5, <2>1 DEF Jtag2OK, SteppingOK
  <2>8. QED
    BY <1>5, <2>3, <2>4, <2>5, <2>6, <2>7 DEF Jtag2OK
<1>6. QED
  BY <1>2, <1>3, <1>4, <1>5 DEF IInv, Jtag2

LEMMA BoxEventsInv ==
  IInv /\ (BoxPostsEvent \/ TargetStops \/ BoxNews) => IInv'
<1> SUFFICES ASSUME IInv, BoxPostsEvent \/ TargetStops \/ BoxNews PROVE IInv'
  OBVIOUS
<1>1. /\ running \in BOOLEAN /\ pc \in PCs /\ news \in 0 .. MaxNews
      /\ owed \in {None} \cup [kind : {"break"}, pc : PCs]
  BY DEF IInv, TypeOK
<1>2. /\ \A p \in PCs : Break(p) \in Events /\ ~IsReply(Break(p))
                        /\ Break(p).pc = p
      /\ Stop \in Events /\ ~IsReply(Stop) /\ ~BreaksWithPC(Stop)
      /\ \A n \in NewsKinds : News(n) \in Events /\ ~IsReply(News(n))
                              /\ ~Breaks(News(n))
      /\ \A f : BreaksWithPC(f) => Breaks(f)
  BY FrameKinds DEF Breaks, BreaksWithPC
<1>3. Jtag2 =>
        /\ RunsUnderGo /\ OwedIsTrue
        /\ running => srv \notin {"readPC", "regs", "stack", "gdb"}
  BY DEF IInv, Jtag2OK, RunsUnderGo
<1>4. CASE BoxPostsEvent
  <2>1. /\ owed # None /\ owed' = None /\ Post(owed)
        /\ UNCHANGED <<theJtagICE, srv, goal, stepping, tries, pcCache,
                       cached_event, sent, running, pc, news, ctrlC>>
    BY <1>4 DEF BoxPostsEvent
  <2>2. owed \in Events /\ ~IsReply(owed)
    BY <1>1, <2>1 DEF Events, IsReply
  <2>3. Jtag2 => ~running /\ owed.pc = pc
    BY <1>1, <1>2, <1>3, <2>1 DEF OwedIsTrue
  <2>4. OwedIsTrue'
    BY <2>1 DEF OwedIsTrue
  <2>5. QED
    BY <1>1, <1>3, <2>1, <2>2, <2>3, <2>4, EventPosted
<1>5. CASE TargetStops
  <2>1. /\ running /\ running' = FALSE /\ pc' \in PCs
        /\ Post(Break(pc')) \/ Post(Stop)
        /\ UNCHANGED <<theJtagICE, srv, goal, stepping, tries, pcCache,
                       cached_event, sent, owed, news, ctrlC>>
    BY <1>5 DEF TargetStops
  <2>2. Jtag2 => OwedIsTrue'
    BY <1>3, <2>1 DEF OwedIsTrue
  <2>3. CASE Post(Break(pc'))
    BY <1>1, <1>2, <1>3, <2>1, <2>2, <2>3, EventPosted
  <2>4. CASE Post(Stop)
    BY <1>1, <1>2, <1>3, <2>1, <2>2, <2>4, EventPosted
  <2>5. QED
    BY <2>1, <2>3, <2>4
<1>6. CASE BoxNews
  <2>1. /\ news < MaxNews /\ news' = news + 1
        /\ UNCHANGED <<theJtagICE, srv, goal, stepping, tries, pcCache,
                       cached_event, sent, owed, running, pc, ctrlC>>
    BY <1>6 DEF BoxNews
  <2>2. PICK kind \in NewsKinds : Post(News(kind))
    BY <1>6 DEF BoxNews
  <2>3. news' \in 0 .. MaxNews
    BY <1>1, <2>1, RunAssumption
  <2>4. Jtag2 => OwedIsTrue'
    BY <1>3, <2>1 DEF OwedIsTrue
  <2>5. ~Breaks(News(kind)) /\ ~BreaksWithPC(News(kind))
    BY <1>2
  <2>6. QED
    BY <1>1, <1>2, <1>3, <2>1, <2>2, <2>3, <2>4, <2>5, EventPosted
<1>7. QED
  BY <1>4, <1>5, <1>6

(* A Ctrl-C, and a step that changes nothing the invariant speaks of. *)
LEMMA QuietInv ==
  ASSUME IInv, ctrlC' \in BOOLEAN,
         UNCHANGED <<theJtagICE, srv, goal, stepping, tries, pcCache,
                     cached_event, sent, line, running, pc, news, owed>>
  PROVE  IInv'
<1>1. TypeOK'
  BY ZenonT(60) DEF IInv, TypeOK
<1>2. OneCommand' /\ TellsPC'
  BY DEF IInv, OneCommand, TellsPC
<1>3. Jtag2OK => Jtag2OK'
  BY DEF Jtag2OK, RecentStops, OwedIsTrue, PCIsTrue, RunsUnderGo, GoalOK,
         SteppingOK
<1>4. QED
  BY <1>1, <1>2, <1>3 DEF IInv, Jtag2

LEMMA StepInv == IInv /\ [Next]_vars => IInv'
<1> SUFFICES ASSUME IInv, [Next]_vars PROVE IInv'
  OBVIOUS
<1>1. CASE GdbInterrupt
  BY <1>1, QuietInv DEF GdbInterrupt, target
<1>2. CASE UNCHANGED vars
  <2>1. ctrlC \in BOOLEAN
    BY DEF IInv, TypeOK
  <2>2. QED
    BY <1>2, <2>1, QuietInv DEF vars, target
<1>3. CASE Server
  BY <1>3, RecvEventInv, RecvReplyInv, ExpectEventInv, EventLoopInv DEF Server
<1>4. QED
  BY <1>1, <1>2, <1>3, GdbCommandInv, BoxExecutesInv, BoxEventsInv DEF Next

LEMMA Invariance == Spec => []IInv
<1>1. Spec => Init /\ [][Next]_vars
  BY PTL DEF Spec
<1>2. QED
  BY <1>1, InitInv, StepInv, PTL

-----------------------------------------------------------------------------
(* The variables keep their types: among them, what recv() and             *)
(* expectEvent() take from the line, which readPC() and the breakpoint     *)
(* events bring, and the count of attempts in jtagSingleStep().            *)
THEOREM RunTypeCorrect == Spec => []TypeOK
<1>1. IInv => TypeOK
  BY DEF IInv
<1>2. QED
  BY <1>1, Invariance, PTL

(* With class jtag2 (jtag2run.cc) GDB is told that the target stopped only *)
(* when it has: no event left over from an earlier stop, step or reset is  *)
(* taken for the end of a run.                                             *)
THEOREM RunReportedStopped == Spec => []ReportedStopped
<1>1. IInv => ReportedStopped
  BY DEF IInv, Jtag2OK, RunsUnderGo, ReportedStopped
<1>2. QED
  BY <1>1, Invariance, PTL

(* With class jtag2, after a single step (remote.cc) the PC reported is    *)
(* the target's, whatever event was taken for the end of the step.         *)
THEOREM RunStepReportsPC == Spec => []StepReportsPC
<1>1. IInv => StepReportsPC
  BY DEF IInv, Jtag2OK, SteppingOK, StepReportsPC
<1>2. QED
  BY <1>1, Invariance, PTL

=============================================================================
