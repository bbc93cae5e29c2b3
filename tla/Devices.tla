------------------------------- MODULE Devices -------------------------------
(***************************************************************************)
(* From the device on the JTAG ICE to the IO registers GDB shows: the      *)
(* start-up of a session finds the device in deviceDefinitions, tells the  *)
(* box its descriptor and sees to the OCDEN fuse; GDB then asks for the    *)
(* IO registers in batches (qRavr.io_reg), and the server reads those that *)
(* reading does not disturb, as few reads as the gaps in the table allow.  *)
(*                                                                         *)
(* The tables are the ones of the source (IoRegisters, DeviceDefinitions). *)
(* The link works or the session ends; Jtag2Link has its failures.         *)
(***************************************************************************)
EXTENDS DeviceDefinitions

LOCAL INSTANCE FiniteSetsExt

CONSTANTS
  Ices,        \* the classes of theJtagICE there may be
  Targets,     \* the devices that may be connected, as indices
  Forced,      \* what -P may name besides the device that is connected
  FuseStates,  \* the fuse bits of a target that may be unprogrammed
  Batch        \* registers GDB asks for at a time

N == Len(deviceDefinitions)
Unknown == N + 1          \* a name that is not in the table, and its last record
NoName == 0               \* device_name == 0: identify the device

ASSUME DevicesAssumption ==
  /\ Ices \subseteq {"jtag1", "jtag2", "jtag3"}
  /\ Targets \subseteq 1..N
  /\ Forced \subseteq 1..Unknown
  /\ FuseStates \subseteq SUBSET (0..23)
  /\ Batch \in Nat \ {0}

VARIABLES
  theJtagICE,   \* the class of the box
  full,         \* has_full_xmega_support, from the firmware's version
  target,       \* the device that is connected
  fuses,        \* its fuse bits that read 1
  device_name,  \* the device -P names, or NoName
  is_xmega,     \* from the command line, until the name overrides it
  phase,        \* how far the session is
  deviceDef,    \* the entry in use, or 0
  told,         \* the descriptor the box has
  query,        \* the io_reg query under way: from, asked, i, j, reply
  touched       \* history: the register addresses read so far

device == <<theJtagICE, full, target, device_name>>
vars == <<device, fuses, is_xmega, phase, deviceDef, told, query, touched>>

NoQuery == [from |-> 0, asked |-> 0, i |-> 0, j |-> 0, reply |-> <<>>]

Unread == -1              \* shown for a register that is not read: "00"

Def(p) == deviceDefinitions[p]
Regs == Def(deviceDef).io_reg_defs
regcount == Len(Regs.addr)
RegAddr(i) == Regs.addr[i + 1]                      \* io_reg_defs[i].reg_addr
Flagged(i) == RegAddr(i) \in Regs.rse               \* io_reg_defs[i].flags

Init ==
  /\ theJtagICE \in Ices
  /\ full \in BOOLEAN
  /\ target \in Targets
  /\ fuses \in FuseStates
  /\ device_name \in {NoName, target} \union Forced
  /\ is_xmega \in BOOLEAN
  /\ phase = "off"
  /\ deviceDef = 0
  /\ told = Empty
  /\ query = NoQuery
  /\ touched = {}

-----------------------------------------------------------------------------
(* Start-up *)

(* jtag2, jtag3::initJtagBox(): a name overrides the is_xmega of the        *)
(* command line.  jtag1 has no Xmega support and no such step.              *)
NamedArchitecture ==
  IF theJtagICE # "jtag1" /\ device_name \in 1..N
    THEN Def(device_name).is_xmega
    ELSE is_xmega

InitJtagBox ==
  /\ phase = "off"
  /\ is_xmega' = NamedArchitecture
  /\ phase' = "linked"
  /\ UNCHANGED <<device, fuses, deviceDef, told, query, touched>>

(* The while loop of deviceAutoConfig(): pDevice stops at the first entry   *)
(* that matches, or at the termination record.                              *)
Matches(p) ==
  IF device_name = NoName
    THEN Def(p).device_id = Def(target).device_id
    ELSE p = device_name

\* Mutant: pDevice is moved on once more after the entry was found.
FirstMatch_PastIt ==
  Min({Unknown} \union {p \in 2..N : Matches(p - 1)})

FirstMatch ==
  Min({Unknown} \union {p \in 1..N : Matches(p)})

(* setDeviceDescriptor(): class jtag1 sends the first descriptor, jtag2 the *)
(* second or, for an Xmega and with a firmware that knows it, the third.    *)
Jtag1Descriptor(p) == Def(p).dev_desc1

Jtag2Descriptor(p) ==
  IF is_xmega /\ full THEN Def(p).dev_desc3 ELSE Def(p).dev_desc2

(* Class jtag3 sends the third, or one it puts together of the second and   *)
(* of the sizes in the entry itself.                                        *)
Jtag3Descriptor(p) ==
  IF is_xmega
    THEN Def(p).dev_desc3
    ELSE [Def(p).dev_desc2 EXCEPT !.eepage = Def(p).eeprom[1]]

Descriptor(p) ==
  CASE theJtagICE = "jtag1" -> Jtag1Descriptor(p)
    [] theJtagICE = "jtag2" -> Jtag2Descriptor(p)
    [] theJtagICE = "jtag3" -> Jtag3Descriptor(p)

(* jtag1::deviceAutoConfig() gives up at a device only the mkII knows.      *)
Supported(p) ==
  theJtagICE = "jtag1" => Def(p).device_flags # DEVFL_MKII_ONLY

DeviceAutoConfig ==
  /\ phase = "linked"
  /\ FirstMatch # Unknown
  /\ Supported(FirstMatch)
  /\ deviceDef' = FirstMatch
  /\ told' = Descriptor(FirstMatch)
  /\ phase' = "configured"
  /\ UNCHANGED <<device, fuses, is_xmega, query, touched>>

(* unknownDevice(), or a device the mkI does not support: the exception     *)
(* ends the session.                                                        *)
DeviceRefused ==
  /\ phase = "linked"
  /\ FirstMatch # Unknown => ~Supported(FirstMatch)
  /\ phase' = "gone"
  /\ UNCHANGED <<device, fuses, is_xmega, deviceDef, told, query, touched>>

Bits(byte) == 8 * byte .. 8 * byte + 7
Mask(bits) == MapThenSumSet(LAMBDA b : 2^b, bits)

\* Mutant: >= for >.
OcdenByte_Ge(mask) ==
  IF mask >= 32768 THEN 2 ELSE IF mask >= 128 THEN 1 ELSE 0

(* The byte that holds the OCDEN bit, jtaggeneric.cc:533.                   *)
OcdenByte(mask) ==
  IF mask > 32768 THEN 2 ELSE IF mask > 128 THEN 1 ELSE 0

(* jtagActivateOcdenFuse(): clear the bit, and write the byte it is in.     *)
ActivatedFuses ==
  LET ocden == Def(deviceDef).ocden_fuse
      byte  == Bits(OcdenByte(Mask(ocden)))
  IN  IF fuses \intersect ocden = {}
        THEN fuses
        ELSE (fuses \ byte) \union ((fuses \ ocden) \intersect byte)

InitJtagOnChipDebugging ==
  /\ phase = "configured"
  /\ fuses' = ActivatedFuses
  /\ phase' = "serving"
  /\ UNCHANGED <<device, is_xmega, deviceDef, told, query, touched>>

-----------------------------------------------------------------------------
(* GDB's info io_registers *)

(* "qRavr.io_reg:i,j": GDB asks for the next Batch registers, from any      *)
(* multiple of it.  A device without a table answers nothing.               *)
QueryIoRegs(i) ==
  /\ phase = "serving"
  /\ Regs # NoTable
  /\ query' = [from |-> i, asked |-> Batch, i |-> i, j |-> Batch, reply |-> <<>>]
  /\ phase' = "query"
  /\ UNCHANGED <<device, fuses, is_xmega, deviceDef, told, touched>>

(* while ((j > 0) && (i < regcount)) *)
Looping == phase = "query" /\ query.j > 0 /\ query.i < regcount

(* A register with a flag is shown without a read, as "00".                 *)
SkipFlagged ==
  /\ Looping
  /\ Flagged(query.i)
  /\ query' = [query EXCEPT !.i = @ + 1, !.j = @ - 1,
                            !.reply = Append(@, <<query.i, Unread>>)]
  /\ UNCHANGED <<device, fuses, is_xmega, phase, deviceDef, told, touched>>

\* Mutant: flags not looked at.
Consecutive_Flagged(i, count) ==
  \A k \in 0..count - 1 : i + k < regcount /\ RegAddr(i + k) = RegAddr(i) + k

(* The for loop at remote.cc:983: registers without a flag at consecutive   *)
(* addresses, at most those still asked for.                                *)
Consecutive(i, count) ==
  \A k \in 0..count - 1 :
    /\ i + k < regcount
    /\ ~Flagged(i + k)
    /\ RegAddr(i + k) = RegAddr(i) + k

\* Mutant: count < j - 1.
RunLength_Short(i, j) == Max({count \in 0..j - 1 : Consecutive(i, count)})

RunLength(i, j) == Max({count \in 0..j : Consecutive(i, count)})

(* One jtagRead() for the run; byte k of it is shown for register i + k.    *)
ReadRun ==
  /\ Looping
  /\ ~Flagged(query.i)
  /\ LET i     == query.i
         count == RunLength(i, query.j)
         Byte(k) == RegAddr(i) + k
     IN  /\ query' = [query EXCEPT
                        !.i = i + count, !.j = @ - count,
                        !.reply = @ \o [k \in 1..count |-> <<i + k - 1, Byte(k - 1)>>]]
         /\ touched' = touched \union {Byte(k) : k \in 0..count - 1}
  /\ UNCHANGED <<device, fuses, is_xmega, phase, deviceDef, told>>

(* A jtagRead() that fails throws through talkToGdb(): the session ends.    *)
ReadFails ==
  /\ Looping
  /\ ~Flagged(query.i)
  /\ phase' = "gone"
  /\ UNCHANGED <<device, fuses, is_xmega, deviceDef, told, query, touched>>

(* putpacket(): the reply is complete.                                      *)
SendReply ==
  /\ phase = "query"
  /\ ~Looping
  /\ phase' = "serving"
  /\ query' = NoQuery
  /\ UNCHANGED <<device, fuses, is_xmega, deviceDef, told, touched>>

Serve == SkipFlagged \/ ReadRun \/ SendReply

(* Bound: one batch is asked for in a session, and only with the name given *)
(* and an old firmware.  What is answered depends on the entry alone.       *)
QueryBound == touched = {} /\ device_name = target /\ ~full

Next ==
  \/ InitJtagBox
  \/ DeviceAutoConfig
  \/ DeviceRefused
  \/ InitJtagOnChipDebugging
  \/ /\ phase = "serving"
     /\ QueryBound
     /\ \E n \in 0..regcount \div Batch : QueryIoRegs(Batch * n)
  \/ Serve
  \/ ReadFails

(* The server computes on until it has answered.                            *)
Spec == Init /\ [][Next]_vars /\ WF_vars(Serve)

-----------------------------------------------------------------------------
(* Properties *)

Identified == deviceDef # 0 /\ device_name \in {NoName, target}
Geometry(p) == <<Def(p).flash, Def(p).eeprom, Def(p).is_xmega, Def(p).device_flags>>

SameGeometry == Geometry(deviceDef) = Geometry(target)

\* (The mkI's descriptor leaves the EEPROM's page size out for two devices.)
DescriptorFits ==
  is_xmega = Def(target).is_xmega
    => /\ told.page = Def(target).flash[1]
       /\ theJtagICE # "jtag1" => told.eepage = Def(target).eeprom[1]

\* A session has the memory layout of the device that is connected, though
\* several devices share a part number and the first entry is taken
\* (deviceAutoConfig(), jtag2io.cc:685; the ids are data, devdescr.cc); and
\* the descriptor the box got, whichever of the three the class sends, has
\* the page sizes jtagRead() and jtagWrite() use, provided the architecture
\* is the device's.  The mkI is never told the "{ 0 }" of a device it does
\* not know.
TargetGeometry == Identified => SameGeometry /\ DescriptorFits

\* Activating on-chip debugging clears the OCDEN bit of the device and
\* leaves every other fuse as it was, for all masks in the table
\* (jtagActivateOcdenFuse() picks the byte it writes by comparing the mask).
OcdenActivated ==
  [][phase = "configured" => fuses' = fuses \ Def(deviceDef).ocden_fuse]_vars

InOrder ==
  /\ query.i = query.from + Len(query.reply)
  /\ query.j = query.asked - Len(query.reply)
  /\ \A n \in DOMAIN query.reply :
       LET r == query.from + n - 1
       IN  query.reply[n] = <<r, IF Flagged(r) THEN Unread ELSE RegAddr(r)>>

\* "Reading during a conversion corrupts ADC result" (ioreg.cc:31), yet two
\* tables leave the halves of the result without the flag (ioreg.cc:8058,
\* 8315).
AdcUnflagged == {atmega128rfa1_io_registers, atmega256rfr2_io_registers}

Undisturbed ==
  touched \intersect
    (Regs.rse \union IF Regs \in AdcUnflagged THEN {} ELSE Regs.adc) = {}

\* The answer lists the registers asked for in the table's order, none left
\* out and none beyond, each with its own byte; and although registers are
\* read in runs, none is read whose read has a side effect: none that is
\* marked IO_REG_RSE and, but for two tables, no half of the ADC's result.
RegistersAsShown ==
  /\ deviceDef # 0 => Undisturbed
  /\ phase = "query" => InOrder

\* Each query is answered: the loop at remote.cc:960 always gets on (a run
\* of length 0 would leave it where it is).
QueryAnswered == phase = "query" ~> phase # "query"

=============================================================================
