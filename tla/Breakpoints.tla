---------------------------- MODULE Breakpoints ----------------------------
(***************************************************************************)
(* The breakpoint table of the JTAGICE mkII, the AVR Dragon and the        *)
(* JTAGICE3: GDB's requests (src/remote.cc), the table and the layout of   *)
(* hardware slots (src/jtaggeneric.cc), and the download before a run      *)
(* (src/jtag2bp.cc, src/jtag3bp.cc).                                       *)
(*                                                                         *)
(* The table is the code's array: entries up to the first one whose "last" *)
(* flag is set, and behind it whatever earlier use left there.  A range    *)
(* mask ~(length - 1) is the integer -length, as in two's complement.      *)
(***************************************************************************)
EXTENDS Integers, FiniteSetsExt, SequencesExt

CONSTANTS
  Settings,     \* bound: the boxes and targets of a session
  MaxTotal,     \* MAX_TOTAL_BREAKPOINTS2 (255)
  CodeAddrs,    \* bound: code addresses GDB asks for
  DataAddrs,    \* bound: data addresses GDB asks for
  DataTypes,    \* bound: kinds of watchpoint GDB asks for
  Lengths       \* bound: lengths of watchpoints

ASSUME TableAssumption ==
  /\ Settings \subseteq [box : {"mkII", "JTAGICE3"}, no_softbp : BOOLEAN,
                        softbp_only : BOOLEAN, is_xmega : BOOLEAN,
                        full_xmega : BOOLEAN]
  /\ \A s \in Settings : s.no_softbp => ~s.is_xmega  \* only the ATmega128
  /\ MaxTotal \in Nat \ {0, 1}
  /\ -1 \notin CodeAddrs                            \* NoAddr
  /\ DataTypes \subseteq {"WRITE_DATA", "READ_DATA", "ACCESS_DATA"}
  /\ Lengths \subseteq Nat \ {0}
  /\ Lengths # {1} => DataAddrs \subseteq Nat  \* alignment is computed

VARIABLES
  setting,     \* the box and the target of this session
  bp,          \* the table
  xmega_bps,   \* Xmega code breakpoints collected for the next run
  phase,       \* where the server is between two stops of the target
  momentary,   \* return address handleInterrupt() runs to, or NoAddr
  ice,         \* box: what each hardware slot holds
  iceSoft,     \* box: addresses of software breakpoints
  iceXmega,    \* box: Xmega code breakpoints of this run
  wanted,      \* history: breakpoints GDB was told are set
  refused      \* history: some breakpoint did not fit

iceVars == <<ice, iceSoft, iceXmega>>
vars == <<setting, bp, xmega_bps, phase, momentary, iceVars, wanted, refused>>

Box == setting.box                  \* "mkII" or "JTAGICE3"
NoSoftBp == setting.no_softbp       \* device_flags is DEVFL_NO_SOFTBP
softbp_only == setting.softbp_only  \* debugWire, or old mkII firmware
is_xmega == setting.is_xmega        \* the target is an Xmega
FullXmega == setting.full_xmega     \* has_full_xmega_support of a mkII

WatchTypes == {"WRITE_DATA", "READ_DATA", "ACCESS_DATA"}
Index == 0 .. MaxTotal - 1
NoAddr == -1

Slots == 1 .. 3      \* hardware slots; slot 4 is never given out
FirstData == 2       \* BREAKPOINT2_FIRST_DATA
DataMask == 3        \* BREAKPOINT2_DATA_MASK
Software == 0        \* the bpnum of a software breakpoint
XmegaUnavail == 1    \* BREAKPOINT2_XMEGA_UNAVAIL

default_bp ==
  [address |-> 0, type |-> "NONE", enabled |-> FALSE, last |-> TRUE,
   icestatus |-> FALSE, toremove |-> FALSE, toadd |-> FALSE,
   bpnum |-> Software, has_mask |-> FALSE, mask_pointer |-> 0]

-----------------------------------------------------------------------------
(* The table.                                                              *)

LastIndex(t) == Min({i \in Index : t[i].last})
Listed(t) == 0 .. LastIndex(t) - 1
Is(e, address, type) == e.address = address /\ e.type = type

(* Where a search for a breakpoint ends: at its entry, or at the end mark. *)
Find(t, address, type) ==
  Min({i \in Index : t[i].last \/ (i \in Listed(t) /\ Is(t[i], address, type))})

codeBreakpointAt(t, address) ==
  \E i \in Listed(t) : Is(t[i], address, "CODE") /\ t[i].enabled

-----------------------------------------------------------------------------
(* layoutBreakpoints(): slots for the entries still to be downloaded.      *)

Stable(e) == e.enabled /\ ~e.toremove /\ e.icestatus
Pending(e) == e.enabled /\ e.toadd

UsableOnXmega == IF softbp_only THEN {} ELSE Slots

Usable ==
  IF softbp_only THEN {} ELSE IF is_xmega THEN Slots \ {XmegaUnavail} ELSE Slots

FreeSlots(t) ==
  Usable \ {t[i].bpnum : i \in {j \in Listed(t) : Stable(t[j])}}

(* A layout in progress: the table, the free slots, and whether all fitted. *)
Disable(t, i) == [t EXCEPT ![i].enabled = FALSE, ![i].toadd = FALSE]

PlaceNext(lay, i, slot) ==
  [lay EXCEPT !.table[i].bpnum = slot + 1, !.free = @ \ {slot}]

Place(lay, i, slot) ==
  [lay EXCEPT !.table[i].bpnum = slot, !.free = @ \ {slot}]

LayMask(lay, i) ==
  IF DataMask \in lay.free THEN Place(lay, i, DataMask)
  ELSE [lay EXCEPT !.table = Disable(Disable(@, @[i].mask_pointer), i),
                   !.hadroom = FALSE]

LayWatch(lay, i) ==
  LET room == lay.free \cap {FirstData, DataMask} IN
  IF room # {} THEN Place(lay, i, Min(room))
  ELSE [lay EXCEPT !.table = Disable(@, i), !.hadroom = FALSE]

LayData(lay, i) ==
  IF ~Pending(lay.table[i]) THEN lay
  ELSE IF lay.table[i].type = "DATA_MASK" THEN LayMask(lay, i)
  ELSE IF lay.table[i].type \in WatchTypes THEN LayWatch(lay, i)
  ELSE lay

LayCodeAgain(lay, i) ==
  IF ~(lay.table[i].enabled /\ lay.table[i].type = "CODE") THEN lay
  ELSE IF lay.free # {} THEN Place(lay, i, Min(lay.free))
  ELSE Place(lay, i, Software)

LayCode(lay, i) ==
  IF ~(Pending(lay.table[i]) /\ lay.table[i].type = "CODE") THEN lay
  ELSE IF lay.free # {} THEN Place(lay, i, Min(lay.free))
  ELSE IF ~NoSoftBp THEN Place(lay, i, Software)
  ELSE [lay EXCEPT !.hadroom = FALSE]

(* The watchpoints of the list first, then its code breakpoints. *)
LayNext(lay, k, n) ==
  IF k < n THEN LayData(lay, k) ELSE LayCode(lay, k - n)

Passes(t) ==
  LET n     == LastIndex(t)
      start == [table |-> t, free |-> FreeSlots(t), hadroom |-> TRUE]
      lay[k \in 0 .. 2 * n] ==
        IF k = 0 THEN start ELSE LayNext(lay[k - 1], k - 1, n)
  IN lay

layoutBreakpoints(t) == Passes(t)[2 * LastIndex(t)]

-----------------------------------------------------------------------------
(* addBreakpoint() and deleteBreakpoint(): a table and a verdict.          *)

Result(t, ok) == [table |-> t, ok |-> ok]

EntryForAnyDisabled(t, address, type) ==
  LET i == Find(t, address, type) IN
  IF i + 1 # MaxTotal THEN i ELSE Min({k \in Index : ~t[k].enabled})

(* The entry a breakpoint goes to: its own, the end mark, or, when the end *)
(* mark is at the end of the array, one that is neither set nor still to   *)
(* be removed; MaxTotal - 1 says that there is none.                       *)
EntryFor(t, address, type) ==
  LET i == Find(t, address, type) IN
  IF i + 1 # MaxTotal THEN i
  ELSE Min({k \in Index : ~t[k].enabled /\ ~t[k].toremove})

Enter(t, i, address, type) ==
  LET marked ==
        IF ~t[i].last THEN t
        ELSE [t EXCEPT ![i + 1].last = TRUE, ![i + 1].enabled = FALSE,
                       ![i + 1].address = 0, ![i + 1].type = "NONE"]
  IN [marked EXCEPT ![i].last = FALSE, ![i].enabled = TRUE,
                    ![i].address = address, ![i].type = type]

MarkForDownloadOnly(t, i) == [t EXCEPT ![i].toadd = ~t[i].icestatus]

MarkForDownload(t, i) ==
  [t EXCEPT ![i].toadd = ~t[i].icestatus, ![i].toremove = FALSE]

(* Mark the entry for download and see whether everything still fits. *)
Fit(t, i) ==
  LET lay == layoutBreakpoints(MarkForDownload(t, i))
      off == Disable(lay.table, i)
  IN IF lay.hadroom THEN Result(lay.table, TRUE)
     ELSE Result(IF off[i].has_mask THEN Disable(off, off[i].mask_pointer)
                 ELSE off, FALSE)

AddPlain(t, address, type) ==
  LET i == EntryFor(t, address, type) IN
  IF i + 1 = MaxTotal THEN Result(t, FALSE)
  ELSE Fit(Enter(t, i, address, type), i)

PowerOf2(n) == \E k \in 0 .. n : n = 2 ^ k

(* The entry found for the mask: the loop compares the address of the      *)
(* watchpoint with the mask.                                               *)
MaskIndex(t, i, mask) ==
  Min({j \in Index : \/ t[j].last
                     \/ t[j].type = "DATA_MASK" /\ t[i].address = mask})

Abandon(t, i) == [t EXCEPT ![i].last = TRUE, ![i].enabled = FALSE]

AddRange(t, address, type, length) ==
  LET i      == EntryFor(t, address, type)
      in     == Enter(t, i, address, type)
      masked == AddPlain(in, -length, "DATA_MASK")
  IN CASE i + 1 = MaxTotal -> Result(t, FALSE)
       [] i + 1 # MaxTotal /\ ~(PowerOf2(length) /\ address % length = 0) ->
            Result(Abandon(in, i), FALSE)
       [] i + 1 # MaxTotal /\ PowerOf2(length) /\ address % length = 0 ->
            IF ~masked.ok
            THEN Result([Abandon(masked.table, i) EXCEPT ![i].has_mask = TRUE],
                        FALSE)
            ELSE Fit([masked.table EXCEPT ![i].mask_pointer =
                        MaskIndex(masked.table, i, -length)], i)

addBreakpoint(t, address, type, length) ==
  IF length > 1 /\ type \in WatchTypes
  THEN AddRange(t, address, type, length)
  ELSE AddPlain(t, address, type)

deleteBreakpoint(t, address, type) ==
  LET i == Find(t, address, type) IN
  IF i \notin Listed(t) THEN t
  ELSE [t EXCEPT ![i].enabled = FALSE, ![i].toadd = FALSE,
                 ![i].toremove = t[i].icestatus]

-----------------------------------------------------------------------------
(* GDB's requests, and the ways the target is set running.                 *)

Requests ==
  [type : {"CODE"}, address : CodeAddrs]
    \cup [type : DataTypes, address : DataAddrs]

LengthsOf(r) == IF r.type = "CODE" THEN {2} ELSE Lengths

Init ==
  /\ setting \in Settings
  /\ bp = [i \in Index |-> default_bp]
  /\ xmega_bps = <<>>
  /\ phase = "stopped"
  /\ momentary = NoAddr
  /\ ice = [s \in Slots |-> default_bp]
  /\ iceSoft = {}
  /\ iceXmega = {}
  /\ wanted = {}
  /\ refused = FALSE

(* 'Z': whatever addBreakpoint() answers, GDB is told "OK". *)
InsertBreakpoint ==
  /\ phase = "stopped"
  /\ \E r \in Requests : \E length \in LengthsOf(r) :
       LET added == addBreakpoint(bp, r.address, r.type, length) IN
       /\ bp' = added.table
       /\ refused' = (refused \/ ~added.ok)
       /\ wanted' = wanted \cup {r}
  /\ UNCHANGED <<setting, xmega_bps, phase, momentary, iceVars>>

(* 'z' *)
RemoveBreakpoint ==
  /\ phase = "stopped"
  /\ \E r \in Requests :
       /\ bp' = deleteBreakpoint(bp, r.address, r.type)
       /\ wanted' = wanted \ {r}
  /\ UNCHANGED <<setting, xmega_bps, phase, momentary, iceVars, refused>>

(* jtagContinue(), on entry to updateBreakpoints(). *)
StartUpdate(t) ==
  LET lay == layoutBreakpoints(t) IN
  /\ bp' = lay.table
  /\ phase' = "clearing"
  /\ refused' = (refused \/ ~lay.hadroom)

jtagContinue ==
  /\ phase = "stopped"
  /\ StartUpdate(bp)
  /\ UNCHANGED <<setting, xmega_bps, momentary, iceVars, wanted>>

(* handleInterrupt(): put a breakpoint on the return address and run; one  *)
(* that does not fit ends the step in the interrupt handler.               *)
RunToReturn(t, retPC) ==
  LET added == AddPlain(t, retPC, "CODE") IN
  IF added.ok THEN StartUpdate(added.table) /\ momentary' = retPC
  ELSE /\ bp' = added.table
       /\ refused' = TRUE
       /\ phase' = "stopped"
       /\ momentary' = NoAddr

StepIntoInterrupt ==
  /\ phase = "stopped"
  /\ \E retPC \in CodeAddrs :
       IF codeBreakpointAt(bp, retPC)
       THEN StartUpdate(bp) /\ UNCHANGED momentary
       ELSE RunToReturn(bp, retPC)
  /\ UNCHANGED <<setting, xmega_bps, iceVars, wanted>>

-----------------------------------------------------------------------------
(* updateBreakpoints(): one command to the box per step.                   *)

Removing == {i \in Listed(bp) : bp[i].toremove}
Adding == {i \in Listed(bp) : Pending(bp[i])}

HardCode(e) == is_xmega /\ e.type = "CODE" /\ e.bpnum # Software

(* Code breakpoints the box removes by itself when the target stops. *)
AutoRemoved2(e) == HardCode(e) /\ FullXmega
AutoRemoved3(e) == HardCode(e)

(* The box takes one breakpoint out, or puts one in, as the command says. *)
IceClear(e) ==
  IF e.bpnum = Software
  THEN iceSoft' = iceSoft \ {e.address} /\ UNCHANGED ice
  ELSE ice' = [ice EXCEPT ![e.bpnum] = default_bp] /\ UNCHANGED iceSoft

IceSet(e) ==
  IF e.bpnum = Software
  THEN iceSoft' = iceSoft \cup {e.address} /\ UNCHANGED ice
  ELSE /\ ice' = [ice EXCEPT ![e.bpnum] =
                    [default_bp EXCEPT !.type = e.type, !.address = e.address]]
       /\ UNCHANGED iceSoft

ClearOne(AutoRemoved(_)) ==
  /\ Removing # {}
  /\ LET i == Min(Removing) IN
     /\ IF AutoRemoved(bp[i]) THEN UNCHANGED <<ice, iceSoft>>
        ELSE IceClear(bp[i])
     /\ bp' = [bp EXCEPT ![i].icestatus = FALSE, ![i].toremove = FALSE]
  /\ UNCHANGED <<phase, xmega_bps>>

Clear2 == ClearOne(AutoRemoved2)
Clear3 == ClearOne(AutoRemoved3)

ClearBreakpoint ==
  /\ phase = "clearing"
  /\ \/ Box = "mkII" /\ Clear2
     \/ Box = "JTAGICE3" /\ Clear3
  /\ UNCHANGED <<setting, momentary, iceXmega, wanted, refused>>

AllClearedEarly ==
  /\ phase = "clearing"
  /\ phase' = "setting"
  /\ UNCHANGED <<setting, bp, xmega_bps, momentary, iceVars, wanted, refused>>

AllCleared ==
  /\ phase = "clearing"
  /\ Removing = {}
  /\ phase' = "setting"
  /\ UNCHANGED <<setting, bp, xmega_bps, momentary, iceVars, wanted, refused>>

(* The third Xmega code breakpoint throws, and the session ends. *)
CollectXmega(i) ==
  /\ IF Len(xmega_bps) < 2
     THEN /\ xmega_bps' = Append(xmega_bps, bp[i].address)
          /\ bp' = [bp EXCEPT ![i].toremove = TRUE, ![i].icestatus = FALSE,
                              ![i].toadd = FALSE]
          /\ UNCHANGED phase
     ELSE phase' = "too many" /\ UNCHANGED <<bp, xmega_bps>>
  /\ UNCHANGED <<ice, iceSoft>>

Download(i) ==
  /\ IceSet(bp[i])
  /\ bp' = [bp EXCEPT ![i].icestatus = TRUE, ![i].toadd = FALSE]
  /\ UNCHANGED <<xmega_bps, phase>>

SetOne(AutoRemoved(_)) ==
  /\ Adding # {}
  /\ LET i == Min(Adding) IN
     IF AutoRemoved(bp[i]) THEN CollectXmega(i) ELSE Download(i)

Set2 == SetOne(AutoRemoved2)
Set3 == SetOne(AutoRemoved3)

SetBreakpoint ==
  /\ phase = "setting"
  /\ \/ Box = "mkII" /\ Set2
     \/ Box = "JTAGICE3" /\ Set3
  /\ UNCHANGED <<setting, momentary, iceXmega, wanted, refused>>

(* xmegaSendBPs() and the GO command. *)
xmegaSendBPs ==
  IF is_xmega /\ (Box = "mkII" => FullXmega)
  THEN iceXmega' = ToSet(xmega_bps) /\ xmega_bps' = <<>>
  ELSE UNCHANGED <<iceXmega, xmega_bps>>

Go ==
  /\ phase = "setting"
  /\ Adding = {}
  /\ xmegaSendBPs
  /\ phase' = "running"
  /\ UNCHANGED <<setting, bp, momentary, ice, iceSoft, wanted, refused>>

(* Any command to the box may fail: the exception ends the session. *)
CommandFails ==
  /\ phase \in {"clearing", "setting"}
  /\ phase' = "ended"
  /\ UNCHANGED <<setting, bp, xmega_bps, momentary, iceVars, wanted, refused>>

(* The target stops.  handleInterrupt() takes its breakpoint back and,     *)
(* when the return address was reached from elsewhere, runs once more.     *)
TargetStops ==
  /\ phase = "running"
  /\ iceXmega' = {}
  /\ \/ /\ momentary = NoAddr
        /\ phase' = "stopped"
        /\ UNCHANGED <<bp, momentary, refused>>
     \/ /\ momentary # NoAddr
        /\ LET gone == deleteBreakpoint(bp, momentary, "CODE") IN
           \/ /\ bp' = gone
              /\ phase' = "stopped"
              /\ momentary' = NoAddr
              /\ UNCHANGED refused
           \/ RunToReturn(gone, momentary)
  /\ UNCHANGED <<setting, xmega_bps, ice, iceSoft, wanted>>

Next ==
  \/ InsertBreakpoint \/ RemoveBreakpoint
  \/ jtagContinue \/ StepIntoInterrupt
  \/ ClearBreakpoint \/ AllCleared \/ SetBreakpoint \/ Go
  \/ CommandFails \/ TargetStops

Spec == Init /\ [][Next]_vars

-----------------------------------------------------------------------------
(* Properties.                                                             *)

Entry ==
  [address : Int \cup CodeAddrs \cup DataAddrs,
   type : WatchTypes \cup {"NONE", "CODE", "DATA_MASK"},
   enabled : BOOLEAN, last : BOOLEAN, icestatus : BOOLEAN,
   toremove : BOOLEAN, toadd : BOOLEAN, bpnum : Slots \cup {Software},
   has_mask : BOOLEAN, mask_pointer : Index]

TypeOK ==
  /\ setting \in Settings
  /\ bp \in [Index -> Entry]
  /\ \E i \in Index : bp[i].last
  /\ xmega_bps \in Seq(CodeAddrs)
  /\ phase \in {"stopped", "clearing", "setting", "running", "ended",
               "too many"}
  /\ momentary \in CodeAddrs \cup {NoAddr}
  /\ ice \in [Slots -> Entry]
  /\ iceSoft \subseteq CodeAddrs
  /\ iceXmega \subseteq CodeAddrs
  /\ wanted \subseteq Requests
  /\ refused \in BOOLEAN

Asked(e) == [type |-> e.type, address |-> e.address]

(* What the box stops at. *)
Armed ==
  {Asked(ice[s]) : s \in {k \in Slots : ice[k].type # "NONE"}}
    \cup {[type |-> "CODE", address |-> a] : a \in iceSoft \cup iceXmega}

(* What it should stop at: GDB's breakpoints and the momentary one. *)
Due ==
  wanted \cup (IF momentary = NoAddr THEN {}
              ELSE {[type |-> "CODE", address |-> momentary]})

(* icestatus, "Status of breakpoint in ICE itself": an entry that is said  *)
(* to be in the box is there, in the slot the table remembers.             *)
HeldByIce(e) ==
  IF e.bpnum = Software THEN e.type = "CODE" /\ e.address \in iceSoft
  ELSE Asked(ice[e.bpnum]) = Asked(e)

IceStatusTruthful ==
  \A i \in Listed(bp) : bp[i].icestatus => HeldByIce(bp[i])

(* And everything the box holds is in the table, so that it can still be   *)
(* taken out.                                                              *)
NothingForgotten ==
  /\ \A s \in Slots : ice[s].type # "NONE" =>
       \E i \in Listed(bp) : bp[i].icestatus /\ bp[i].bpnum = s
  /\ \A a \in iceSoft :
       \E i \in Listed(bp) : /\ bp[i].icestatus /\ bp[i].bpnum = Software
                             /\ Is(bp[i], a, "CODE")

(* As long as nothing was refused for lack of room, the table and the box  *)
(* agree, at every moment of an update too.                                *)
TableMatchesIce == refused \/ (IceStatusTruthful /\ NothingForgotten)

(* The target runs with the breakpoints GDB was told are set, no more and  *)
(* no less.  On an Xmega that takes a GDB which sets its breakpoints anew  *)
(* at every stop: the table collects them only when they are to be added.  *)
RunsAsAsked ==
  phase = "running" /\ ~refused /\ ~is_xmega => Armed = Due

(* A breakpoint that is in the box stays in the slot it was given until it *)
(* is taken out, whatever is refused meanwhile: the table and the box have *)
(* no way to move it.                                                      *)
SlotKept ==
  [][\A i \in Index : bp[i].icestatus /\ bp'[i].icestatus =>
                      bp'[i].bpnum = bp[i].bpnum]_vars

(* "Too many hard BPs for Xmega" is never thrown: the layout gives out no  *)
(* more slots than the command for them has room for.                      *)
XmegaHasRoom == phase # "too many"

(* "only thing is we need to find it afterwards": the mask of a range      *)
(* watchpoint leaves the box with the watchpoint.                          *)
MaskHasWatchpoint ==
  phase = "running" /\ ice[DataMask].type = "DATA_MASK" =>
    \E r \in wanted : r.type # "CODE"

-----------------------------------------------------------------------------
(* The table implements the promise, where it makes one.                   *)

Breakpoint ==
  [type : {"CODE"}, address : CodeAddrs]
    \cup [type : DataTypes, address : DataAddrs]

Mode == CASE phase \in {"clearing", "setting"} -> "updating"
          [] phase = "too many"                -> "ended"
          [] phase \in {"stopped", "running", "ended"} -> phase

Promise == INSTANCE BreakpointPromise
             WITH wanted <- Due, armed <- Armed, mode <- Mode,
                  released <- refused \/ is_xmega

PromiseKept == Promise!Spec
=============================================================================
