------------------------------ MODULE MkILink ------------------------------
(***************************************************************************)
(* The command link between AVaRICE and a JTAGICE mkI (src/jtagio.cc): a   *)
(* serial line without frames or numbers.  A command is answered by one    *)
(* byte, 'A', and then by its response; anything else makes AVaRICE send   *)
(* blanks until one is answered by 'A' and then the command again.  Before *)
(* every write the bytes that have arrived are thrown away.                *)
(*                                                                         *)
(* The answer to one frame arrives in one piece.  Bytes are told apart as  *)
(* far as the code looks at them: 'A', 'G' (info) and others; "of" names   *)
(* the frame a byte answers, for the properties only.                      *)
(***************************************************************************)
EXTENDS Naturals, Sequences

CONSTANTS
  Bitrates,      \* the rates startJtagLink() tries, in order
  FastRate,      \* the rate initJtagBox() changes to (115200)
  CommAttempts,  \* MAX_JTAG_COMM_ATTEMPS (10)
  SyncAttempts,  \* MAX_JTAG_SYNC_ATTEMPS (3)
  MaxCalls,      \* bound: commands issued in a behaviour
  MaxFaults      \* bound: faults of the line or the box in a behaviour

Rates == {Bitrates[i] : i \in 1 .. Len(Bitrates)}

ASSUME MkILinkAssumption ==
  /\ Bitrates # <<>>
  /\ FastRate \in Rates
  /\ CommAttempts \in Nat \ {0}
  /\ SyncAttempts \in 1 .. CommAttempts
  /\ MaxCalls \in Nat
  /\ MaxFaults \in Nat

VARIABLES
  link,      \* "starting", "fresh", "up" or "down"
  rate,      \* index in Bitrates of the rate tried
  hostRate,  \* what the serial port is set to
  boxRate,   \* what the box is set to
  calls,     \* commands issued so far; the last one's name
  awaiting,  \* the frame whose answer is read next, or "none"
  tries,     \* tryCount of doJtagCommand, tries of synchroniseAt
  frames,    \* frames written so far
  toBox,     \* frames the box has not answered yet
  toHost,    \* bytes that have arrived
  faults,    \* faults so far
  late,      \* history: an answer was given up that came later
  executed,  \* history: how often the box executed each command
  trouble,   \* history: faults while each command was waiting
  result     \* history: the response that was returned last

hostVars == <<link, rate, hostRate, calls, awaiting, tries, frames, late,
              result>>
boxVars == <<boxRate, executed>>
faultVars == <<faults, trouble>>
vars == <<hostVars, boxVars, faultVars, toBox, toHost>>

Calls == 1 .. MaxCalls
Frame(what, call) ==
  [what |-> what, call |-> call, n |-> frames + 1, at |-> hostRate]

NoResult == [of |-> 0, frame |-> 0, whole |-> TRUE]

Init ==
  /\ link = "starting"
  /\ rate = 1
  /\ hostRate = Bitrates[1]
  /\ boxRate \in Rates
  /\ calls = 0
  /\ awaiting = "none"
  /\ tries = 0
  /\ frames = 0
  /\ toBox = <<>>
  /\ toHost = <<>>
  /\ faults = 0
  /\ late = FALSE
  /\ executed = [c \in Calls |-> 0]
  /\ trouble = [c \in Calls |-> 0]
  /\ result = NoResult

-----------------------------------------------------------------------------
(* sendJtagCommand(): writing.                                             *)

Flushed_Not(bytes) == bytes

(* tcflush(TCIFLUSH): what has arrived is gone. *)
Flushed(bytes) == <<>>

Transmit(what) ==
  /\ toHost' = Flushed(toHost)
  /\ toBox' = Append(toBox, Frame(what, calls))
  /\ frames' = frames + 1
  /\ awaiting' = what

(* Every frame counts as an attempt of the command, a blank as well.  A    *)
(* command that runs out of attempts throws; the link goes on, unless it   *)
(* is still being set up, when the exception ends the program.             *)
Throw ==
  /\ awaiting' = "none"
  /\ tries' = 0
  /\ link' = IF link = "up" THEN "up" ELSE "down"
  /\ UNCHANGED <<hostRate, frames, toBox, toHost, result>>

SendNext(what) ==
  IF tries >= CommAttempts
    THEN Throw
    ELSE /\ Transmit(what)
         /\ tries' = tries + 1
         /\ UNCHANGED <<link, hostRate, result>>

-----------------------------------------------------------------------------
(* sendJtagCommand(): the answer's first byte.  An info of the target is   *)
(* 'G', a byte of data and the 'A' that belonged first.                    *)

IsInfo == Len(toHost) >= 3 /\ toHost[1].b = "G" /\ toHost[3].b = "A"

Got ==
  CASE toHost # <<>> /\ toHost[1].b = "A" -> "ok"
    [] IsInfo                             -> "data"
    [] OTHER                              -> "failed"

(* A timeout, with an answer still to come or not. *)
NotesLate == late' = (late \/ (toHost = <<>> /\ toBox # <<>>))

(* The response: ResponseSize bytes after the 'A'. *)
ResponseSize == 2
HasResponse == Len(toHost) > ResponseSize
Response == SubSeq(toHost, 2, ResponseSize + 1)

Taken == [of |-> Response[1].call, frame |-> Response[1].n,
          whole |-> [i \in 1 .. ResponseSize |-> Response[i].at]
                      = [i \in 1 .. ResponseSize |-> i + 1]]

NewRate_Kept == hostRate

(* changeBitRate() has changed the box when it changes the port.           *)
NewRate == IF link = "fresh" THEN FastRate ELSE hostRate

(* doJtagCommand(): the command was acknowledged; a response cut short     *)
(* throws.                                                                 *)
CommandOk ==
  /\ awaiting = "command"
  /\ Got = "ok"
  /\ IF ~HasResponse
       THEN Throw
       ELSE /\ result' = Taken
            /\ awaiting' = "none"
            /\ tries' = 0
            /\ toHost' = SubSeq(toHost, ResponseSize + 2, Len(toHost))
            /\ hostRate' = NewRate
            /\ link' = "up"
            /\ UNCHANGED <<frames, toBox>>
  /\ late' = (late \/ (~HasResponse /\ toBox # <<>>))
  /\ UNCHANGED <<rate, calls, boxVars, faultVars>>

(* What doJtagCommand() sends after what it got: a blank to get in step, a *)
(* sign-on request to stop the box from repeating an info, or the command  *)
(* once more.                                                              *)
FollowUp(what, got) ==
  CASE what = "command" -> IF got = "data" THEN "stop" ELSE "sync"
    [] what = "sync"    -> IF got = "ok" THEN "command" ELSE "sync"
    [] what = "stop"    -> "command"

Retry_WaitsOn ==
  /\ awaiting \in {"command", "sync", "stop"}
  /\ ~(awaiting = "command" /\ Got = "ok")
  /\ toHost # <<>>
  /\ NotesLate
  /\ SendNext(FollowUp(awaiting, Got))
  /\ UNCHANGED <<rate, calls, boxVars, faultVars>>

Retry ==
  /\ awaiting \in {"command", "sync", "stop"}
  /\ ~(awaiting = "command" /\ Got = "ok")
  /\ NotesLate
  /\ SendNext(FollowUp(awaiting, Got))
  /\ UNCHANGED <<rate, calls, boxVars, faultVars>>

(* A caller enters doJtagCommand(): the first command sets the bit rate.   *)
Issue ==
  /\ link \in {"fresh", "up"}
  /\ awaiting = "none"
  /\ calls < MaxCalls
  /\ calls' = calls + 1
  /\ toHost' = Flushed(toHost)
  /\ toBox' = Append(toBox, Frame("command", calls + 1))
  /\ frames' = frames + 1
  /\ awaiting' = "command"
  /\ tries' = 1
  /\ result' = NoResult
  /\ UNCHANGED <<link, rate, hostRate, late, boxVars, faultVars>>

-----------------------------------------------------------------------------
(* startJtagLink(): at each rate "SE  ", whatever it brings, and then the  *)
(* sign-on request, without a retry.                                       *)

Probe ==
  /\ link = "starting"
  /\ awaiting = "none"
  /\ Transmit("probe")
  /\ tries' = tries + 1
  /\ UNCHANGED <<link, rate, hostRate, calls, late, result, boxVars,
                 faultVars>>

(* synchroniseAt() waits for the rest of the answer and drops it. *)
Sign ==
  /\ awaiting = "probe"
  /\ NotesLate
  /\ Transmit("sign")
  /\ UNCHANGED <<link, rate, hostRate, calls, tries, result, boxVars,
                 faultVars>>

(* checkForEmulator(): "AVRNOCDA" behind an 'A', or behind an info.        *)
SignedOn ==
  LET ack == IF Got = "data" THEN 3 ELSE 1
  IN  /\ Got # "failed"
      /\ Len(toHost) >= ack + ResponseSize
      /\ \A i \in 1 .. ResponseSize : toHost[ack + i].b = "s"

(* Signed on; else once more, at the next rate, or not at all.             *)
CheckForEmulator ==
  /\ awaiting = "sign"
  /\ NotesLate
  /\ awaiting' = "none"
  /\ \/ /\ SignedOn
        /\ link' = "fresh"
        /\ tries' = 0
        /\ UNCHANGED <<rate, hostRate>>
     \/ /\ ~SignedOn
        /\ tries < SyncAttempts
        /\ UNCHANGED <<link, rate, hostRate, tries>>
     \/ /\ ~SignedOn
        /\ tries >= SyncAttempts
        /\ tries' = 0
        /\ IF rate < Len(Bitrates)
             THEN /\ rate' = rate + 1
                  /\ hostRate' = Bitrates[rate + 1]
                  /\ UNCHANGED link
             ELSE link' = "down" /\ UNCHANGED <<rate, hostRate>>
  /\ toHost' = <<>>
  /\ UNCHANGED <<calls, frames, toBox, result, boxVars, faultVars>>

HostReads == CommandOk \/ Retry \/ Sign \/ CheckForEmulator

-----------------------------------------------------------------------------
(* The box, as the code expects it, and what may go wrong.                 *)

Byte(f, b, at) == [b |-> b, call |-> f.call, n |-> f.n, at |-> at]

Plain(f) ==
  CASE f.what = "sync"              -> <<Byte(f, "A", 1)>>
    [] f.what \in {"stop", "sign"}  -> <<Byte(f, "A", 1), Byte(f, "s", 2),
                                         Byte(f, "s", 3)>>
    [] f.what = "probe"             -> <<Byte(f, "x", 1)>>
    [] f.what = "command"           -> <<Byte(f, "A", 1), Byte(f, "d", 2),
                                         Byte(f, "A", 3)>>

Infoed(f) == <<Byte(f, "G", 0), Byte(f, "i", 0)>> \o Plain(f)

(* The box answers what reaches it at its own rate, at that rate.          *)
Arrives(bytes) ==
  toHost' = IF Head(toBox).at = boxRate /\ hostRate = boxRate
              THEN toHost \o bytes ELSE toHost

Executes(f) ==
  /\ f.what = "command" /\ f.at = boxRate
  /\ executed' = [executed EXCEPT ![f.call] = @ + 1]
  /\ boxRate' = IF f.call = 1 THEN FastRate ELSE boxRate

Ignores(f) ==
  /\ f.what # "command" \/ f.at # boxRate
  /\ UNCHANGED boxVars

Box ==
  /\ toBox # <<>>
  /\ toBox' = Tail(toBox)
  /\ Executes(Head(toBox)) \/ Ignores(Head(toBox))
  /\ Arrives(Plain(Head(toBox)))
  /\ UNCHANGED <<hostVars, faultVars>>

Fault ==
  /\ faults < MaxFaults
  /\ faults' = faults + 1
  /\ trouble' = IF awaiting # "none" /\ calls > 0
                  THEN [trouble EXCEPT ![calls] = @ + 1] ELSE trouble

(* The frame does not reach the box. *)
FrameLost ==
  /\ Fault
  /\ toBox # <<>>
  /\ toBox' = Tail(toBox)
  /\ UNCHANGED <<hostVars, boxVars, toHost>>

(* The answer is damaged in its first byte, loses its first or its last    *)
(* byte, says that the command failed, or comes behind an info.            *)
AnswerFaulty ==
  /\ Fault
  /\ toBox # <<>>
  /\ toBox' = Tail(toBox)
  /\ LET f == Head(toBox)
         a == Plain(f)
     IN  \/ /\ Executes(f) \/ Ignores(f)
            /\ \/ Arrives(<<Byte(f, "x", 1)>> \o Tail(a))
               \/ Arrives(Tail(a))
               \/ Arrives(SubSeq(a, 1, Len(a) - 1))
               \/ Arrives(Infoed(f))
         \/ Arrives(<<Byte(f, "x", 1)>>) /\ UNCHANGED boxVars
  /\ UNCHANGED hostVars

Next ==
  \/ Probe
  \/ Issue
  \/ HostReads
  \/ Box
  \/ FrameLost
  \/ AnswerFaulty

Spec == Init /\ [][Next]_vars

(* timeout_read() returns within JTAG_RESPONSE_TIMEOUT, so that what waits *)
(* for an answer goes on, and so does the start of the link.               *)
FairSpec == Spec /\ WF_vars(HostReads) /\ WF_vars(Probe)

-----------------------------------------------------------------------------
(* Properties.                                                             *)

(* The response a caller gets answers its command, the frame sent last,    *)
(* from its first byte on, whatever the line damaged before: a command     *)
(* starts with an empty input (jtagio.cc:59).  Only an answer that comes   *)
(* after it was given up is taken for another one's.                       *)
ResponseIsOwn ==
  result # NoResult /\ ~late =>
    result = [of |-> calls, frame |-> frames, whole |-> TRUE]

(* The box executes a command once, and once more for each fault at most;  *)
(* an info costs one repetition as well, for the 'A' behind it is not      *)
(* taken for the command's (jtagio.cc:107, 173).                           *)
RepeatedForFaultsOnly ==
  ~late => \A c \in Calls : executed[c] <= 1 + trouble[c]

(* Serial port and box are at the same rate once the link is up and idle:  *)
(* the port is changed after the box has acknowledged, and when that is    *)
(* lost the program ends (jtagio.cc:245).                                  *)
RatesAgree ==
  link = "up" /\ awaiting = "none" /\ ~late => hostRate = boxRate

(* Every command returns or throws, and starting the link ends, whatever   *)
(* the box does: silence counts as an answer, and the attempts are counted *)
(* across resynchronisation (jtagio.cc:178).                               *)
Returns ==
  /\ (awaiting # "none") ~> (awaiting = "none")
  /\ (link = "starting") ~> (link # "starting")

=============================================================================
