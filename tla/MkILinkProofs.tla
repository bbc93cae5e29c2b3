--------------------------- MODULE MkILinkProofs ---------------------------
(***************************************************************************)
(* Proofs about MkILink for every list of bit rates, every number of       *)
(* attempts, of commands and of faults.  The argument: as long as no       *)
(* answer was given up that came later, at most one frame is on its way,   *)
(* it is the one the host waits for, and what has arrived answers it.  So  *)
(* an 'A' with a whole response behind it, read while a command is         *)
(* waiting, is the box's answer to that command; and until it arrives the  *)
(* box has executed the command no more often than something went wrong.   *)
(***************************************************************************)
EXTENDS MkILink, SequenceTheorems, TLAPS

(* The frame whose answer is awaited. *)
Current == [what |-> awaiting, call |-> calls, n |-> frames, at |-> hostRate]

InCall == awaiting \in {"command", "sync", "stop"}

(* At most one frame, and what has arrived answers it. *)
OnItsWay ==
  \/ toBox = <<>>
  \/ toBox = <<Current>> /\ toHost = <<>> /\ awaiting # "none"

(* An 'A' and a response behind it. *)
Acknowledged == Len(toHost) > ResponseSize /\ toHost[1].b = "A"

ArrivedOK ==
  awaiting = "command" /\ Acknowledged =>
    /\ toHost = Plain(Current)
    /\ boxRate = FastRate

StageOK ==
  /\ link \in {"starting", "fresh", "up", "down"}
  /\ awaiting \in {"none", "probe", "sign", "command", "sync", "stop"}
  /\ awaiting \in {"probe", "sign"} => link = "starting"
  /\ InCall => link \in {"fresh", "up"} /\ calls >= 1
  /\ link = "starting" => calls = 0
  /\ link = "fresh" /\ awaiting = "none" => calls = 0
  /\ link = "fresh" /\ awaiting # "none" => calls = 1
  /\ link = "up" => /\ calls >= 1 /\ (awaiting # "none" => calls >= 2)
                    /\ hostRate = FastRate /\ boxRate = FastRate

ResultOK ==
  /\ awaiting # "none" \/ link = "starting" => result = NoResult
  /\ result # NoResult =>
       result = [of |-> calls, frame |-> frames, whole |-> TRUE]

CountsOK ==
  /\ executed \in [Calls -> Nat] /\ trouble \in [Calls -> Nat]
  /\ \A c \in Calls : /\ executed[c] <= 1 + trouble[c]
                      /\ c > calls => executed[c] = 0
  /\ InCall /\ ~(awaiting = "command" /\ Acknowledged) =>
       executed[calls] <= trouble[calls]

Kept ==
  /\ calls \in 0 .. MaxCalls /\ frames \in Nat
  /\ OnItsWay /\ ArrivedOK /\ StageOK /\ ResultOK /\ CountsOK

IInv == ~late => Kept

-----------------------------------------------------------------------------
(* The answers of the box, whole and damaged.                              *)

(* No damaged answer looks like an 'A' with a response behind it: what     *)
(* begins with 'A' has lost its last byte.                                 *)
NoAck(bytes) == ~(Len(bytes) > ResponseSize /\ bytes[1].b = "A")

(* Every answer is one of these four.                                      *)
LEMMA PlainCases ==
  ASSUME NEW f, f.what \in {"sync", "stop", "sign", "probe", "command"}
  PROVE  \/ Plain(f) = <<Byte(f, "A", 1)>>
         \/ Plain(f) = <<Byte(f, "x", 1)>>
         \/ Plain(f) = <<Byte(f, "A", 1), Byte(f, "s", 2), Byte(f, "s", 3)>>
         \/ Plain(f) = <<Byte(f, "A", 1), Byte(f, "d", 2), Byte(f, "A", 3)>>
  BY DEF Plain

(* Damage of any kind leaves no acknowledgement with a whole response.     *)
LEMMA DamagedNoAck ==
  ASSUME NEW f, f.what \in {"sync", "stop", "sign", "probe", "command"}
  PROVE  /\ NoAck(<<Byte(f, "x", 1)>> \o Tail(Plain(f)))
         /\ NoAck(Tail(Plain(f)))
         /\ NoAck(SubSeq(Plain(f), 1, Len(Plain(f)) - 1))
         /\ NoAck(Infoed(f))
         /\ NoAck(<<Byte(f, "x", 1)>>)
<1> DEFINE x == Byte(f, "x", 1)
           g == Byte(f, "G", 0)
           i == Byte(f, "i", 0)
           p == Plain(f)
           R == {x, g, i, Byte(f, "A", 1), Byte(f, "s", 2), Byte(f, "s", 3),
                 Byte(f, "d", 2), Byte(f, "A", 3)}
<1>1. x.b = "x" /\ g.b = "G"
  BY DEF Byte
<1>2. p \in Seq(R) /\ (Len(p) = 1 \/ Len(p) = 3)
  <2>1. CASE p = <<Byte(f, "A", 1)>>
    BY <2>1
  <2>4. CASE p = <<x>>
    BY <2>4
  <2>2. CASE p = <<Byte(f, "A", 1), Byte(f, "s", 2), Byte(f, "s", 3)>>
    BY <2>2
  <2>3. CASE p = <<Byte(f, "A", 1), Byte(f, "d", 2), Byte(f, "A", 3)>>
    BY <2>3
  <2> QED  BY <2>1, <2>2, <2>3, <2>4, PlainCases
<1> x \in R /\ g \in R /\ i \in R
  OBVIOUS
<1> HIDE DEF R, p, x, g, i
<1>3. Tail(p) \in Seq(R) /\ Len(Tail(p)) <= 2
  <2>1. p # <<>>
    BY <1>2
  <2>2. Tail(p) \in Seq(R) /\ Len(Tail(p)) = Len(p) - 1
    BY <2>1, <1>2, HeadTailProperties
  <2>3. ASSUME NEW n, n = Len(p) - 1
        PROVE  n <= 2
    BY <2>3, <1>2
  <2> QED  BY <2>2, <2>3, Zenon
<1>4. NoAck(<<x>> \o Tail(p))
  <2>1. <<x>> \in Seq(R) /\ Len(<<x>>) = 1 /\ <<x>>[1] = x
    BY <1>1
  <2>2. (<<x>> \o Tail(p))[1] = x
    BY <2>1, <1>3
  <2> QED  BY <2>2, <1>1 DEF NoAck
<1>5. NoAck(Tail(p))
  BY <1>3 DEF NoAck, ResponseSize
<1>6. NoAck(SubSeq(p, 1, Len(p) - 1))
  <2>1. /\ Len(p) - 1 = 0 \/ Len(p) - 1 = 2
        /\ \A k \in 1 .. Len(p) - 1 : p[k] \in R
    BY <1>2
  <2>2. Len(SubSeq(p, 1, Len(p) - 1))
          = IF 1 <= Len(p) - 1 THEN Len(p) - 1 - 1 + 1 ELSE 0
    <3> DEFINE m == Len(p) - 1
    <3>1. m \in Int /\ \A k \in 1 .. m : p[k] \in R
      BY <2>1
    <3> HIDE DEF m
    <3>2. Len(SubSeq(p, 1, m)) = IF 1 <= m THEN m - 1 + 1 ELSE 0
      BY <3>1, SubSeqProperties
    <3> QED  BY <3>2 DEF m
  <2>3. ASSUME NEW m, m = 0 \/ m = 2
        PROVE  (IF 1 <= m THEN m - 1 + 1 ELSE 0) <= 2
    BY <2>3
  <2>4. Len(SubSeq(p, 1, Len(p) - 1)) <= 2
    BY <2>1, <2>2, <2>3, Zenon
  <2> QED  BY <2>4 DEF NoAck, ResponseSize
<1>7. NoAck(Infoed(f))
  <2>1. <<g, i>> \in Seq(R) /\ Len(<<g, i>>) = 2 /\ <<g, i>>[1] = g
    OBVIOUS
  <2>2. (<<g, i>> \o p)[1] = g
    BY <2>1, <1>2
  <2>3. Infoed(f) = <<g, i>> \o p
    BY DEF Infoed, g, i, p
  <2> QED  BY <2>2, <2>3, <1>1 DEF NoAck
<1>8. NoAck(<<x>>)
  BY <1>1 DEF NoAck, ResponseSize
<1> QED  BY <1>4, <1>5, <1>6, <1>7, <1>8 DEF p, x

(* The response behind a command's 'A' is the frame's own and whole.       *)
LEMMA PlainResponse ==
  ASSUME NEW f, f.what = "command", toHost = Plain(f)
  PROVE  /\ Got = "ok" /\ HasResponse
         /\ Taken = [of |-> f.call, frame |-> f.n, whole |-> TRUE]
<1> DEFINE a == Byte(f, "A", 1)
           d == Byte(f, "d", 2)
           e == Byte(f, "A", 3)
<1>1. toHost = <<a, d, e>>
  BY DEF Plain
<1>2. /\ a.b = "A" /\ d.call = f.call /\ d.n = f.n
      /\ d.at = 2 /\ e.at = 3
  BY DEF Byte
<1> HIDE DEF a, d, e
<1>3. Response = <<d, e>>
  <2>1. toHost \in Seq({a, d, e}) /\ Len(toHost) = 3
    BY <1>1
  <2>2. \A k \in 2 .. 3 : toHost[k] \in {a, d, e}
    BY <1>1
  <2>3. /\ Response \in Seq({a, d, e}) /\ Len(Response) = 2
        /\ \A k \in 1 .. 2 : Response[k] = toHost[2 + k - 1]
    BY <2>2, SubSeqProperties DEF Response, ResponseSize
  <2>4. Response[1] = d /\ Response[2] = e
    BY <2>3, <1>1
  <2> QED  BY <2>3, <2>4
<1>4. Got = "ok" /\ HasResponse
  <2>1. toHost # <<>> /\ Len(toHost) = 3 /\ toHost[1].b = "A"
    BY <1>1, <1>2
  <2>2. ~IsInfo
    BY <2>1 DEF IsInfo
  <2>3. Got = "ok"
    BY <2>1, <2>2, Zenon DEF Got
  <2> QED  BY <2>1, <2>3 DEF HasResponse, ResponseSize
<1>5. [i \in 1 .. ResponseSize |-> Response[i].at]
        = [i \in 1 .. ResponseSize |-> i + 1]
  <2>1. ASSUME NEW i \in 1 .. 2
        PROVE  Response[i].at = i + 1
    <3>1. i = 1 \/ i = 2
      OBVIOUS
    <3> QED  BY <3>1, <1>3, <1>2
  <2> QED  BY <2>1 DEF ResponseSize
<1>6. Response[1].call = f.call /\ Response[1].n = f.n
  BY <1>3, <1>2
<1> QED  BY <1>4, <1>5, <1>6 DEF Taken
-----------------------------------------------------------------------------
(* The inductive invariant, action by action.                              *)

(* Nothing given up: what is late stays late, and a reader that drops what *)
(* it waited for finds the line empty.                                     *)
LEMMA NothingWaits ==
  ASSUME Kept, NotesLate, ~late'
  PROVE  toBox = <<>>
  BY DEF Kept, OnItsWay, NotesLate

(* A frame written on an empty line is the only one on its way.            *)
LEMMA TransmitOne ==
  ASSUME NEW what, toBox = <<>>, frames \in Nat, Transmit(what),
         calls' = calls, hostRate' = hostRate, what # "none"
  PROVE  /\ OnItsWay' /\ toHost' = <<>> /\ frames' \in Nat
         /\ awaiting' = what
<1>1. toBox' = <<Frame(what, calls)>>
  BY DEF Transmit
<1>2. Frame(what, calls) = Current'
  BY DEF Frame, Current, Transmit
<1> QED  BY <1>1, <1>2 DEF OnItsWay, Transmit, Flushed

(* An empty input acknowledges nothing.                                    *)
LEMMA EmptyNoAck ==
  ASSUME toHost = <<>>
  PROVE  ~Acknowledged
  BY DEF Acknowledged, ResponseSize

LEMMA InitKept ==
  ASSUME Init
  PROVE  Kept
<1> USE MkILinkAssumption DEF Init
<1>1. calls \in 0 .. MaxCalls /\ frames \in Nat
  BY DEF MkILinkAssumption
<1>2. OnItsWay
  BY DEF OnItsWay
<1>3. ArrivedOK /\ StageOK
  BY DEF ArrivedOK, StageOK, InCall
<1>4. ResultOK
  BY DEF ResultOK
<1>5. CountsOK
  BY DEF CountsOK, InCall, Calls
<1> QED  BY <1>1, <1>2, <1>3, <1>4, <1>5 DEF Kept

LEMMA ProbeKept ==
  ASSUME Kept, Probe, ~late'
  PROVE  Kept'
<1> USE DEF Kept
<1>1. /\ toBox = <<>>
      /\ UNCHANGED <<link, hostRate, boxRate, calls, result, executed,
                     trouble>>
  BY DEF Probe, OnItsWay, boxVars, faultVars
<1>2. OnItsWay' /\ toHost' = <<>> /\ frames' \in Nat /\ awaiting' = "probe"
  BY <1>1, TransmitOne DEF Probe
<1>3. ArrivedOK'
  BY <1>2 DEF ArrivedOK
<1>4. StageOK'
  BY <1>1, <1>2 DEF Probe, StageOK, InCall
<1>5. ResultOK'
  BY <1>1, <1>2 DEF Probe, ResultOK
<1>6. CountsOK'
  BY <1>1, <1>2 DEF CountsOK, InCall
<1> QED  BY <1>1, <1>2, <1>3, <1>4, <1>5, <1>6

LEMMA IssueKept ==
  ASSUME Kept, Issue, ~late'
  PROVE  Kept'
<1> USE DEF Kept
<1>1. /\ toBox = <<>>
      /\ UNCHANGED <<link, hostRate, boxRate, executed, trouble>>
      /\ calls' = calls + 1 /\ calls' \in Calls /\ frames' = frames + 1
      /\ awaiting' = "command" /\ toHost' = <<>> /\ result' = NoResult
      /\ toBox' = <<Frame("command", calls')>>
  BY MkILinkAssumption
     DEF Issue, OnItsWay, boxVars, faultVars, MkILinkAssumption, Calls, Flushed
<1>2. OnItsWay'
  BY <1>1 DEF OnItsWay, Frame, Current
<1>3. ArrivedOK'
  BY <1>1 DEF ArrivedOK, Acknowledged, ResponseSize
<1>4. StageOK'
  BY <1>1 DEF Issue, StageOK, InCall
<1>5. ResultOK'
  BY <1>1 DEF ResultOK
<1>6. CountsOK'
  <2>1. executed[calls'] = 0 /\ trouble[calls'] \in Nat
    BY <1>1 DEF CountsOK, Calls
  <2>2. ASSUME NEW c \in Calls
        PROVE  executed[c] <= 1 + trouble[c] /\ (c > calls' => executed[c] = 0)
    BY <1>1 DEF CountsOK, Calls
  <2> QED  BY <1>1, <2>1, <2>2 DEF CountsOK
<1> QED  BY <1>1, <1>2, <1>3, <1>4, <1>5, <1>6 DEF Calls

(* What is left of a command that threw.                                   *)
LEMMA ThrowKept ==
  ASSUME Kept, Throw, InCall, toBox = <<>>,
         UNCHANGED <<calls, boxRate, executed, trouble>>
  PROVE  Kept'
<1> USE DEF Kept
<1>1. /\ awaiting' = "none" /\ UNCHANGED <<frames, toBox, hostRate, result>>
      /\ link' = IF link = "up" THEN "up" ELSE "down"
  BY DEF Throw
<1>2. OnItsWay' /\ ArrivedOK'
  BY <1>1 DEF OnItsWay, ArrivedOK
<1>3. StageOK'
  BY <1>1 DEF StageOK, InCall
<1>4. ResultOK'
  BY <1>1 DEF ResultOK, InCall
<1>5. CountsOK'
  BY <1>1 DEF CountsOK, InCall
<1> QED  BY <1>1, <1>2, <1>3, <1>4, <1>5

LEMMA CommandOkKept ==
  ASSUME Kept, CommandOk, ~late'
  PROVE  Kept'
<1> USE DEF Kept
<1>1. UNCHANGED <<calls, boxRate, executed, trouble>> /\ awaiting = "command"
  BY DEF CommandOk, boxVars, faultVars
<1>2. toBox = <<>>
  <2>1. CASE HasResponse
    <3>1. toHost # <<>>
      BY <2>1 DEF HasResponse, ResponseSize
    <3> QED  BY <3>1 DEF OnItsWay
  <2>2. CASE ~HasResponse
    BY <2>2 DEF CommandOk
  <2> QED  BY <2>1, <2>2
<1>3. CASE ~HasResponse
  BY <1>1, <1>2, <1>3, ThrowKept DEF CommandOk, InCall
<1>4. CASE HasResponse
  <2>1. /\ result' = Taken /\ awaiting' = "none" /\ hostRate' = NewRate
        /\ link' = "up" /\ UNCHANGED <<frames, toBox>>
    BY <1>4 DEF CommandOk
  <2>2. Acknowledged
    <3>1. toHost # <<>> /\ toHost[1].b = "A"
      BY Zenon DEF CommandOk, Got
    <3> QED  BY <3>1, <1>4 DEF Acknowledged, HasResponse
  <2>3. toHost = Plain(Current) /\ boxRate = FastRate
    BY <1>1, <2>2 DEF ArrivedOK
  <2>4. Taken = [of |-> calls, frame |-> frames, whole |-> TRUE]
    <3>1. Current.what = "command" /\ Current.call = calls /\ Current.n = frames
      BY <1>1 DEF Current
    <3> QED  BY <2>3, <3>1, PlainResponse
  <2>5. OnItsWay' /\ ArrivedOK'
    BY <1>2, <2>1 DEF OnItsWay, ArrivedOK
  <2>6. StageOK'
    <3>1. hostRate' = FastRate
      BY <1>1, <2>1 DEF NewRate, StageOK, InCall
    <3> QED  BY <1>1, <2>1, <2>3, <3>1 DEF StageOK, InCall
  <2>7. ResultOK'
    BY <1>1, <2>1, <2>4 DEF ResultOK
  <2>8. CountsOK'
    BY <1>1, <2>1 DEF CountsOK, InCall
  <2> QED  BY <1>1, <2>1, <2>5, <2>6, <2>7, <2>8
<1> QED  BY <1>3, <1>4

LEMMA RetryKept ==
  ASSUME Kept, Retry, ~late'
  PROVE  Kept'
<1> USE DEF Kept
<1>1. UNCHANGED <<calls, boxRate, executed, trouble>> /\ InCall
  BY DEF Retry, boxVars, faultVars, InCall
<1>2. toBox = <<>>
  BY NothingWaits DEF Retry
<1> DEFINE next == FollowUp(awaiting, Got)
<1>3. next \in {"command", "sync", "stop"}
  BY <1>1 DEF InCall, FollowUp
<1>4. SendNext(next)
  BY DEF Retry
<1>5. ~(awaiting = "command" /\ Acknowledged)
  <2>1. Acknowledged => Got = "ok"
    <3>1. Acknowledged => toHost # <<>> /\ toHost[1].b = "A" /\ ~IsInfo
      BY DEF Acknowledged, ResponseSize, IsInfo
    <3> QED  BY <3>1, Zenon DEF Got
  <2> QED  BY <2>1 DEF Retry
<1> HIDE DEF next
<1>6. CASE tries >= CommAttempts
  BY <1>1, <1>2, <1>4, <1>6, ThrowKept DEF SendNext
<1>7. CASE ~(tries >= CommAttempts)
  <2>1. Transmit(next) /\ UNCHANGED <<link, hostRate, result>>
    BY <1>4, <1>7 DEF SendNext
  <2>2. OnItsWay' /\ toHost' = <<>> /\ frames' \in Nat /\ awaiting' = next
    BY <1>1, <1>2, <1>3, <2>1, TransmitOne
  <2>3. ArrivedOK'
    BY <2>2 DEF ArrivedOK, Acknowledged, ResponseSize
  <2>4. StageOK'
    BY <1>1, <1>3, <2>1, <2>2 DEF StageOK, InCall
  <2>5. ResultOK'
    BY <1>1, <1>3, <2>1, <2>2 DEF ResultOK, InCall
  <2>6. CountsOK'
    BY <1>1, <1>5 DEF CountsOK
  <2> QED  BY <1>1, <2>2, <2>3, <2>4, <2>5, <2>6
<1> QED  BY <1>6, <1>7

LEMMA SignKept ==
  ASSUME Kept, Sign, ~late'
  PROVE  Kept'
<1> USE DEF Kept
<1>1. UNCHANGED <<link, hostRate, boxRate, calls, result, executed, trouble>>
  BY DEF Sign, boxVars, faultVars
<1>2. toBox = <<>>
  BY NothingWaits DEF Sign
<1>3. OnItsWay' /\ toHost' = <<>> /\ frames' \in Nat /\ awaiting' = "sign"
  BY <1>1, <1>2, TransmitOne DEF Sign
<1>4. ArrivedOK'
  BY <1>3 DEF ArrivedOK
<1>5. StageOK'
  BY <1>1, <1>3 DEF Sign, StageOK, InCall
<1>6. ResultOK'
  BY <1>1, <1>3 DEF Sign, ResultOK
<1>7. CountsOK'
  BY <1>1, <1>3 DEF CountsOK, InCall
<1> QED  BY <1>1, <1>3, <1>4, <1>5, <1>6, <1>7

LEMMA CheckForEmulatorKept ==
  ASSUME Kept, CheckForEmulator, ~late'
  PROVE  Kept'
<1> USE DEF Kept
<1>1. /\ UNCHANGED <<calls, frames, toBox, boxRate, result, executed, trouble>>
      /\ awaiting = "sign" /\ awaiting' = "none" /\ toHost' = <<>>
      /\ link' \in {link, "fresh", "down"}
  BY DEF CheckForEmulator, boxVars, faultVars
<1>2. toBox = <<>>
  BY NothingWaits DEF CheckForEmulator
<1>3. OnItsWay' /\ ArrivedOK'
  BY <1>1, <1>2 DEF OnItsWay, ArrivedOK
<1>4. link = "starting" /\ calls = 0 /\ result = NoResult
  BY <1>1 DEF StageOK, ResultOK
<1>5. StageOK' /\ ResultOK'
  BY <1>1, <1>4 DEF StageOK, InCall, ResultOK
<1>6. CountsOK'
  BY <1>1 DEF CountsOK, InCall
<1> QED  BY <1>1, <1>3, <1>5, <1>6

(* What the host knows of its own does not change while the box acts.      *)
LEMMA HostStill ==
  ASSUME UNCHANGED hostVars
  PROVE  /\ UNCHANGED <<link, hostRate, calls, awaiting, frames, late, result>>
         /\ Current' = Current /\ InCall' = InCall
  BY DEF hostVars, Current, InCall

(* The frame the box finds is the one the host waits for.                  *)
LEMMA OneFrame ==
  ASSUME Kept, toBox # <<>>
  PROVE  /\ toBox = <<Current>> /\ toHost = <<>> /\ awaiting # "none"
         /\ Head(toBox) = Current /\ Tail(toBox) = <<>>
         /\ Current.what = awaiting /\ Current.call = calls
         /\ Current.at = hostRate
         /\ awaiting \in {"sync", "stop", "sign", "probe", "command"}
         /\ InCall => executed[calls] <= trouble[calls] /\ calls \in Calls
<1>1. toBox = <<Current>> /\ toHost = <<>> /\ awaiting # "none"
  BY DEF Kept, OnItsWay
<1>2. Head(toBox) = Current /\ Tail(toBox) = <<>>
  BY <1>1
<1>3. awaiting \in {"sync", "stop", "sign", "probe", "command"}
  BY <1>1 DEF Kept, StageOK
<1>4. InCall => executed[calls] <= trouble[calls] /\ calls \in Calls
  BY <1>1, EmptyNoAck, MkILinkAssumption
     DEF Kept, CountsOK, StageOK, Calls, MkILinkAssumption
<1> QED  BY <1>1, <1>2, <1>3, <1>4 DEF Current
(* An answer brings nothing, or itself.                                    *)
LEMMA ArrivesOnEmpty ==
  ASSUME NEW bytes, Arrives(bytes), toHost = <<>>, toBox # <<>>, Kept
  PROVE  \/ toHost' = <<>> /\ ~(hostRate = boxRate)
         \/ toHost' = <<>> \o bytes /\ hostRate = boxRate
<1>1. Head(toBox).at = hostRate
  BY OneFrame
<1> QED  BY <1>1 DEF Arrives

(* The first command's execution sets the box's rate; a box that is up     *)
(* stays at the fast one.                                                  *)
LEMMA StageStands ==
  ASSUME StageOK, UNCHANGED hostVars, boxRate' = boxRate \/ boxRate' = FastRate
  PROVE  StageOK'
  BY HostStill DEF StageOK

(* Nothing that is taken for an acknowledgement has arrived.               *)
LEMMA FaultKept ==
  ASSUME Kept, Fault, UNCHANGED hostVars, toBox # <<>>,
         toBox' = Tail(toBox), ~Acknowledged',
         Executes(Current) \/ Ignores(Current) \/ UNCHANGED boxVars
  PROVE  Kept'
<1>1. /\ toBox = <<Current>> /\ toHost = <<>> /\ awaiting # "none"
      /\ toBox' = <<>>
      /\ Current.what = awaiting /\ Current.call = calls
      /\ InCall => executed[calls] <= trouble[calls] /\ calls \in Calls
  BY OneFrame
<1>2. UNCHANGED <<link, hostRate, calls, awaiting, frames, late, result>>
  BY HostStill
<1>3. OnItsWay' /\ ArrivedOK'
  BY <1>1 DEF OnItsWay, ArrivedOK
<1>4. /\ boxRate' = boxRate \/ boxRate' = FastRate
      /\ \/ executed' = executed
         \/ /\ awaiting = "command"
            /\ executed' = [executed EXCEPT ![calls] = @ + 1]
  BY <1>1 DEF Executes, Ignores, boxVars
<1>5. StageOK'
  BY <1>4, StageStands DEF Kept
<1>6. ResultOK'
  BY <1>2 DEF Kept, ResultOK
<1>7. CountsOK'
  <2>1. CASE InCall
    <3>1. calls \in Calls /\ executed[calls] <= trouble[calls] /\ calls \in Nat
      BY <1>1, <2>1, MkILinkAssumption DEF Calls, MkILinkAssumption
    <3>2. trouble' = [trouble EXCEPT ![calls] = @ + 1]
      BY <1>1, <3>1 DEF Fault, Calls
    <3>3. executed \in [Calls -> Nat] /\ trouble \in [Calls -> Nat]
      BY DEF Kept, CountsOK
    <3>4. /\ executed' \in [Calls -> Nat] /\ trouble' \in [Calls -> Nat]
          /\ executed'[calls] <= executed[calls] + 1
          /\ trouble'[calls] = trouble[calls] + 1
          /\ \A c \in Calls \ {calls} : executed'[c] = executed[c]
                                        /\ trouble'[c] = trouble[c]
      BY <1>4, <3>1, <3>2, <3>3
    <3>5. executed'[calls] <= trouble'[calls]
      BY <3>1, <3>3, <3>4
    <3>6. ASSUME NEW c \in Calls
          PROVE  /\ executed'[c] <= 1 + trouble'[c]
                 /\ c > calls => executed'[c] = 0
      <4>1. CASE c = calls
        BY <4>1, <3>1, <3>4, <3>5
      <4>2. CASE c # calls
        BY <4>2, <3>4 DEF Kept, CountsOK
      <4> QED  BY <4>1, <4>2
    <3> QED  BY <1>2, <3>4, <3>5, <3>6 DEF CountsOK
  <2>2. CASE ~InCall
    <3>1. executed' = executed /\ ~InCall'
      BY <1>2, <1>4, <2>2 DEF InCall
    <3>2. link = "starting" /\ calls = 0
      BY <1>1, <2>2 DEF Kept, StageOK, InCall
    <3>3. trouble' = trouble
      BY <3>2 DEF Fault
    <3> QED  BY <1>2, <3>1, <3>3 DEF Kept, CountsOK
  <2> QED  BY <2>1, <2>2
<1> QED  BY <1>2, <1>3, <1>5, <1>6, <1>7 DEF Kept

LEMMA FrameLostKept ==
  ASSUME Kept, FrameLost
  PROVE  Kept'
<1>1. toHost = <<>> /\ toHost' = <<>>
  BY OneFrame DEF FrameLost
<1>2. ~Acknowledged'
  BY <1>1 DEF Acknowledged, ResponseSize
<1> QED  BY <1>2, FaultKept DEF FrameLost

LEMMA AnswerFaultyKept ==
  ASSUME Kept, AnswerFaulty
  PROVE  Kept'
<1> DEFINE f == Current
           a == Plain(f)
           x == <<Byte(f, "x", 1)>>
<1>1. /\ Fault /\ UNCHANGED hostVars /\ toBox # <<>> /\ toBox' = Tail(toBox)
      /\ Head(toBox) = f /\ toHost = <<>>
      /\ f.what \in {"sync", "stop", "sign", "probe", "command"}
  BY OneFrame DEF AnswerFaulty
<1>2. /\ Executes(f) \/ Ignores(f) \/ UNCHANGED boxVars
      /\ \/ Arrives(x \o Tail(a)) \/ Arrives(Tail(a))
         \/ Arrives(SubSeq(a, 1, Len(a) - 1)) \/ Arrives(Infoed(f))
         \/ Arrives(x)
  BY <1>1 DEF AnswerFaulty
<1>3. PICK bytes : Arrives(bytes) /\ NoAck(bytes)
  <2>1. /\ NoAck(x \o Tail(a)) /\ NoAck(Tail(a)) /\ NoAck(Infoed(f))
        /\ NoAck(SubSeq(a, 1, Len(a) - 1)) /\ NoAck(x)
    BY <1>1, DamagedNoAck
  <2> HIDE DEF a, x
  <2> QED  BY <1>2, <2>1, Zenon
<1>4. ~Acknowledged'
  BY <1>1, <1>3, ArrivesOnEmpty DEF NoAck, Acknowledged, ResponseSize
<1> QED  BY <1>1, <1>2, <1>4, FaultKept
LEMMA BoxKept ==
  ASSUME Kept, Box
  PROVE  Kept'
<1>1. /\ toBox = <<Current>> /\ toHost = <<>> /\ awaiting # "none"
      /\ toBox # <<>> /\ toBox' = <<>>
      /\ Current.what = awaiting /\ Current.call = calls
      /\ Current.at = hostRate
      /\ awaiting \in {"sync", "stop", "sign", "probe", "command"}
      /\ InCall => executed[calls] <= trouble[calls] /\ calls \in Calls
      /\ Executes(Current) \/ Ignores(Current)
      /\ Arrives(Plain(Current))
  BY OneFrame DEF Box
<1>2. /\ UNCHANGED <<link, hostRate, calls, awaiting, frames, late, result>>
      /\ Current' = Current /\ InCall' = InCall
      /\ UNCHANGED hostVars /\ trouble' = trouble
  BY HostStill DEF Box, faultVars
<1>3. OnItsWay'
  BY <1>1 DEF OnItsWay
<1>4. /\ boxRate' = boxRate \/ boxRate' = FastRate
      /\ \/ executed' = executed /\ (awaiting = "command" => hostRate # boxRate)
         \/ /\ awaiting = "command" /\ hostRate = boxRate
            /\ executed' = [executed EXCEPT ![calls] = @ + 1]
            /\ calls = 1 => boxRate' = FastRate
  BY <1>1 DEF Executes, Ignores, boxVars
<1>5. \/ toHost' = <<>> /\ ~(hostRate = boxRate)
      \/ toHost' = <<>> \o Plain(Current) /\ hostRate = boxRate
  BY <1>1, ArrivesOnEmpty
<1>6. StageOK'
  BY <1>2, <1>4, StageStands DEF Kept
<1>7. ResultOK'
  BY <1>2 DEF Kept, ResultOK
<1>8. CASE awaiting = "command" /\ hostRate = boxRate
  <2> DEFINE p == Plain(Current)
  <2>1. /\ p = <<Byte(Current, "A", 1), Byte(Current, "d", 2),
                 Byte(Current, "A", 3)>>
        /\ Byte(Current, "A", 1).b = "A"
    BY <1>1, <1>8 DEF Plain, Byte
  <2>2. toHost' = p
    BY <1>5, <1>8, <2>1
  <2>3. Acknowledged'
    BY <2>1, <2>2 DEF Acknowledged, ResponseSize
  <2>4. p' = p
    BY <1>2 DEF Plain, Byte
  <2>5. boxRate' = FastRate
    BY <1>2, <1>4, <1>8, <1>6 DEF Kept, StageOK, InCall
  <2>6. ArrivedOK'
    BY <2>2, <2>4, <2>5 DEF ArrivedOK
  <2>7. CountsOK'
    <3>1. calls \in Calls /\ executed[calls] <= trouble[calls]
      BY <1>1, <1>8 DEF InCall
    <3>2. executed \in [Calls -> Nat] /\ trouble \in [Calls -> Nat]
      BY DEF Kept, CountsOK
    <3>3. executed' = [executed EXCEPT ![calls] = @ + 1]
      BY <1>4, <1>8
    <3>4. ASSUME NEW c \in Calls
          PROVE  /\ executed'[c] <= 1 + trouble[c]
                 /\ c > calls => executed'[c] = 0
      <4>1. CASE c = calls
        <5>1. c \in Int
          BY DEF Calls
        <5> QED  BY <4>1, <5>1, <3>1, <3>2, <3>3
      <4>2. CASE c # calls
        BY <4>2, <3>2, <3>3 DEF Kept, CountsOK
      <4> QED  BY <4>1, <4>2
    <3>5. executed' \in [Calls -> Nat]
      BY <3>1, <3>2, <3>3
    <3> QED  BY <1>2, <1>8, <2>3, <3>2, <3>4, <3>5 DEF CountsOK
  <2> QED  BY <1>2, <1>3, <1>6, <1>7, <2>6, <2>7 DEF Kept
<1>9. CASE ~(awaiting = "command" /\ hostRate = boxRate)
  <2>1. executed' = executed
    BY <1>4, <1>9
  <2>2. awaiting = "command" => toHost' = <<>>
    BY <1>5, <1>9
  <2>3. ArrivedOK'
    BY <1>2, <2>2 DEF ArrivedOK, Acknowledged, ResponseSize
  <2>4. InCall => executed[calls] <= trouble[calls]
    BY <1>1
  <2>5. CountsOK'
    BY <1>2, <2>1, <2>4 DEF Kept, CountsOK
  <2> QED  BY <1>2, <1>3, <1>6, <1>7, <2>3, <2>5 DEF Kept
<1> QED  BY <1>8, <1>9

-----------------------------------------------------------------------------
(* The invariant, and the properties.                                      *)

(* Once an answer was given up that came later, it stays so.               *)
LEMMA LateStays ==
  ASSUME Next
  PROVE  ~late' => ~late
<1>1. CASE Probe \/ Issue
  BY <1>1 DEF Probe, Issue
<1>2. CASE HostReads
  BY <1>2 DEF HostReads, CommandOk, Retry, Sign, CheckForEmulator, NotesLate
<1>3. CASE Box \/ FrameLost \/ AnswerFaulty
  BY <1>3 DEF Box, FrameLost, AnswerFaulty, hostVars
<1> QED  BY <1>1, <1>2, <1>3 DEF Next

LEMMA Invariance == Spec => []IInv
<1>1. Init => IInv
  BY InitKept DEF IInv
<1>2. IInv /\ [Next]_vars => IInv'
  <2>1. ASSUME Next, Kept, ~late'
        PROVE  Kept'
    BY <2>1, ProbeKept, IssueKept, CommandOkKept, RetryKept, SignKept,
       CheckForEmulatorKept, BoxKept, FrameLostKept, AnswerFaultyKept
       DEF Next, HostReads
  <2>2. ASSUME vars' = vars, Kept
        PROVE  Kept' /\ late' = late
    <3>1. UNCHANGED <<link, hostRate, boxRate, calls, awaiting, frames, toBox,
                      toHost, late, executed, trouble, result>>
      BY <2>2 DEF vars, hostVars, boxVars, faultVars
    <3>2. OnItsWay' /\ ArrivedOK' /\ StageOK'
      BY <2>2, <3>1
         DEF Kept, OnItsWay, ArrivedOK, StageOK, Current, InCall,
             Acknowledged, Plain, Byte
    <3>3. ResultOK' /\ CountsOK'
      BY <2>2, <3>1 DEF Kept, ResultOK, CountsOK, InCall, Acknowledged
    <3> QED  BY <2>2, <3>1, <3>2, <3>3 DEF Kept
  <2>3. vars' = vars => late' = late
    BY DEF vars, hostVars
  <2> QED  BY <2>1, <2>2, <2>3, LateStays DEF IInv
<1> QED  BY <1>1, <1>2, PTL DEF Spec

(* The response a caller gets is that of its own command, of the frame     *)
(* sent last, whole: sendJtagCommand() throws away what has arrived before *)
(* it writes, so that an 'A' and what follows it are the answer to what is *)
(* waited for, unless an answer was given up that came later.              *)
THEOREM MkIResponseIsOwn == Spec => []ResponseIsOwn
<1>1. IInv => ResponseIsOwn
  BY DEF IInv, Kept, ResultOK, ResponseIsOwn
<1> QED  BY <1>1, Invariance, PTL

(* The box executes no command more often than once and once per fault:    *)
(* doJtagCommand() sends a command again only when the answer it got was   *)
(* no acknowledgement, and the box's answer to an executed command is one  *)
(* unless something went wrong.                                            *)
THEOREM MkIRepeatedForFaultsOnly == Spec => []RepeatedForFaultsOnly
<1>1. IInv => RepeatedForFaultsOnly
  BY DEF IInv, Kept, CountsOK, RepeatedForFaultsOnly
<1> QED  BY <1>1, Invariance, PTL

(* Serial port and box are at one rate once the link is up and idle: the   *)
(* command that changes the box's rate is acknowledged before              *)
(* changeBitRate() changes the port's, and the program ends if it is not.  *)
THEOREM MkIRatesAgree == Spec => []RatesAgree
<1>1. IInv => RatesAgree
  BY DEF IInv, Kept, StageOK, RatesAgree
<1> QED  BY <1>1, Invariance, PTL

=============================================================================
