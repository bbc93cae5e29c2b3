--------------------------- MODULE MkIBreakpoints ---------------------------
(***************************************************************************)
(* The breakpoints of the JTAGICE mkI (src/jtagbp.cc): two packed arrays,  *)
(* one of code breakpoints and one of data breakpoints, sent to the box in *)
(* full before every run.  The first two code breakpoints go to the        *)
(* code-only breakpoints Z0 and Z1, what is left goes to X and Y, which a  *)
(* mode byte turns on.                                                     *)
(***************************************************************************)
EXTENDS Naturals, SequencesExt

CONSTANTS
  MAX_BREAKPOINTS,       \* 4
  MAX_BREAKPOINTS_CODE,  \* 4
  MAX_BREAKPOINTS_DATA,  \* 2
  CodeAddrs,             \* bound: code addresses GDB asks for
  DataAddrs,             \* bound: data addresses GDB asks for
  DataTypes              \* bound: kinds of watchpoint GDB asks for

ASSUME MkIAssumption ==
  /\ {MAX_BREAKPOINTS, MAX_BREAKPOINTS_CODE, MAX_BREAKPOINTS_DATA} \subseteq Nat
  /\ DataTypes \subseteq {"WRITE_DATA", "READ_DATA", "ACCESS_DATA"}

(* There are four registers, and two of them take data breakpoints. *)
ASSUME RegisterAssumption ==
  MAX_BREAKPOINTS <= 4 /\ MAX_BREAKPOINTS_DATA <= 2

VARIABLES
  bpCode,     \* bpCode[0 .. numBreakpointsCode)
  bpData,     \* bpData[0 .. numBreakpointsData)
  phase,      \* "stopped", "running" or "ended"
  momentary,  \* the breakpoint handleInterrupt() runs to, a set of at most one
  z, xy,      \* box: code breakpoints of this run; the registers X and Y
  mode,       \* box: which of X and Y are turned on
  wanted,     \* history: breakpoints GDB was told are set
  refused     \* history: some breakpoint did not fit

table == <<bpCode, bpData>>
box == <<z, xy, mode>>
vars == <<table, phase, momentary, box, wanted, refused>>

Code(a) == [type |-> "CODE", address |-> a]
CodeBreakpoints == {Code(a) : a \in CodeAddrs}
DataBreakpoints == [type : DataTypes, address : DataAddrs]
Breakpoints == CodeBreakpoints \cup DataBreakpoints

Unset == [type |-> "NONE"]

Init ==
  /\ bpCode = <<>> /\ bpData = <<>>
  /\ phase = "stopped"
  /\ momentary = {}
  /\ z = <<>>
  /\ xy = [r \in {"X", "Y"} |-> Unset]
  /\ mode = {}
  /\ wanted = {}
  /\ refused = FALSE

codeBreakpointAt(b) == b \in ToSet(bpCode)

-----------------------------------------------------------------------------
(* addBreakpoint() and deleteBreakpoint().                                 *)

FitsWithoutTotal(b) ==
  IF b.type = "CODE" THEN Len(bpCode) # MAX_BREAKPOINTS_CODE
  ELSE Len(bpData) # MAX_BREAKPOINTS_DATA

FitsInTotal(b) == Len(bpCode) + Len(bpData) # MAX_BREAKPOINTS

Fits(b) ==
  /\ Len(bpCode) + Len(bpData) # MAX_BREAKPOINTS
  /\ IF b.type = "CODE" THEN Len(bpCode) # MAX_BREAKPOINTS_CODE
     ELSE Len(bpData) # MAX_BREAKPOINTS_DATA

addBreakpoint(b) ==
  IF b.type = "CODE" THEN bpCode' = Append(bpCode, b) /\ UNCHANGED bpData
  ELSE bpData' = Append(bpData, b) /\ UNCHANGED bpCode

RemoveTail(s, b) ==
  IF b \notin ToSet(s) THEN s
  ELSE SubSeq(s, 1, SelectInSeq(s, LAMBDA e : e = b) - 1)

Removed(s, b) == RemoveFirst(s, b)

deleteBreakpoint(b) ==
  /\ bpCode' = Removed(bpCode, b)
  /\ bpData' = Removed(bpData, b)

-----------------------------------------------------------------------------
(* GDB's requests.  A breakpoint that is set is not set again.             *)

InsertBreakpoint ==
  /\ phase = "stopped"
  /\ \E b \in Breakpoints \ wanted :
       /\ wanted' = wanted \cup {b}
       /\ IF Fits(b) THEN addBreakpoint(b) /\ UNCHANGED refused
          ELSE refused' = TRUE /\ UNCHANGED table
  /\ UNCHANGED <<phase, momentary, box>>

RemoveBreakpoint ==
  /\ phase = "stopped"
  /\ \E b \in wanted : deleteBreakpoint(b) /\ wanted' = wanted \ {b}
  /\ UNCHANGED <<phase, momentary, box, refused>>

-----------------------------------------------------------------------------
(* updateBreakpoints() and the run.                                        *)

(* What is left for X and Y, code breakpoints first. *)
ForXY(code, data) == SubSeq(code, 3, Len(code)) \o data

ModeOf(rest) == IF Len(rest) = 1 THEN {"X"} ELSE {"X", "Y"}

SetXY(rest) ==
  IF rest = <<>> THEN UNCHANGED <<xy, mode>>
  ELSE /\ xy' = [X |-> rest[1], Y |-> IF Len(rest) > 1 THEN rest[2] ELSE xy["Y"]]
       /\ mode' = ModeOf(rest)

updateBreakpoints(code, data) ==
  /\ z' = SubSeq(code, 1, IF Len(code) < 2 THEN Len(code) ELSE 2)
  /\ SetXY(ForXY(code, data))

(* A command that fails on the way throws, and the session ends. *)
Run ==
  \/ updateBreakpoints(bpCode', bpData') /\ phase' = "running"
  \/ phase' = "ended" /\ UNCHANGED box

jtagContinue ==
  /\ phase = "stopped"
  /\ UNCHANGED table
  /\ Run
  /\ UNCHANGED <<momentary, wanted, refused>>

(* handleInterrupt(): run to the return address, by a momentary breakpoint *)
(* unless there is a breakpoint already.                                   *)
StepIntoInterrupt ==
  /\ phase = "stopped"
  /\ \E b \in CodeBreakpoints :
       \/ /\ codeBreakpointAt(b)
          /\ UNCHANGED <<table, momentary>>
          /\ Run
       \/ /\ ~codeBreakpointAt(b) /\ Fits(b)
          /\ addBreakpoint(b)
          /\ momentary' = {b}
          /\ Run
  /\ UNCHANGED <<wanted, refused>>

(* The target stops; the box drops the breakpoints written for this run.   *)
(* A momentary breakpoint is taken back, or, when the return address was   *)
(* reached from elsewhere, put back for another run.                       *)
TargetStops ==
  /\ phase = "running"
  /\ \/ /\ \A b \in momentary : deleteBreakpoint(b)
        /\ momentary = {} => UNCHANGED table
        /\ momentary' = {}
        /\ phase' = "stopped"
        /\ z' = <<>>
        /\ UNCHANGED <<xy, mode>>
     \/ \E b \in momentary :
          /\ bpCode' = Append(Removed(bpCode, b), b)
          /\ UNCHANGED <<bpData, momentary>>
          /\ Run
  /\ UNCHANGED <<wanted, refused>>

Next ==
  \/ InsertBreakpoint \/ RemoveBreakpoint
  \/ jtagContinue \/ StepIntoInterrupt \/ TargetStops

Spec == Init /\ [][Next]_vars

-----------------------------------------------------------------------------
(* Properties.                                                             *)

TypeOK ==
  /\ bpCode \in Seq(CodeBreakpoints)
  /\ Len(bpCode) <= MAX_BREAKPOINTS_CODE
  /\ bpData \in Seq(DataBreakpoints)
  /\ Len(bpData) <= MAX_BREAKPOINTS_DATA
  /\ phase \in {"stopped", "running", "ended"}
  /\ momentary \subseteq CodeBreakpoints
  /\ z \in Seq(CodeBreakpoints)
  /\ xy \in [{"X", "Y"} -> Breakpoints \cup {Unset}]
  /\ mode \subseteq {"X", "Y"}
  /\ wanted \subseteq Breakpoints
  /\ refused \in BOOLEAN

(* The arrays hold what GDB was told is set, each breakpoint once, and the *)
(* momentary one, as long as nothing was refused.                          *)
TableIsAsAsked ==
  LET all == bpCode \o bpData IN
  ~refused => IsInjective(all) /\ ToSet(all) = wanted \cup momentary

Armed == ToSet(z) \cup {xy[r] : r \in mode}

(* Whatever the mix of code and data breakpoints the limits admit, none is *)
(* left without a breakpoint register.                                     *)
EveryBreakpointArmed ==
  phase = "running" => ToSet(bpCode) \cup ToSet(bpData) \subseteq Armed

=============================================================================
