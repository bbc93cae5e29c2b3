# AVaRICE: specifications, model checking and proofs

AVaRICE connects GDB's remote protocol on a TCP port with an Atmel debugging
box (JTAGICE, JTAGICE mkII, AVR Dragon, JTAGICE3, EDBG) on a serial port or on
USB.  It is a single-threaded event-driven program, plus one or two helper
processes or threads that carry USB traffic.  Nothing is stored on disk: its state is
what it believes about the box, the box has state of its own, and most of what
can go wrong is that the two disagree.

Paths below are relative to `src/src/`.

## 1. Inventory

| Component | State it keeps | Operations | Talks to |
|---|---|---|---|
| mkII link, `jtag2io.cc` | `command_sequence`, the frame receiver's state, attempts | `sendJtagCommand`, `recvFrame`, `recv`, `doJtagCommand`, `doSimpleJtagCommand` | serial port or USB bridge; every mkII operation |
| JTAGICE3 link, `jtag3io.cc` | `command_sequence`, `cached_event` | `sendJtagCommand`, `recvFrame`, `recv`, `doJtagCommand` | USB bridge; every JTAGICE3 operation |
| mkI link, `jtagio.cc` | none between commands | `sendJtagCommand`, `doJtagCommand`, `doSimpleJtagCommand`, resynchronisation | serial port |
| breakpoints, mkII and JTAGICE3: `jtaggeneric.cc`, `jtag2bp.cc`, `jtag3bp.cc` | table `bp[]`, `xmega_bps` | `addBreakpoint`, `deleteBreakpoint`, `layoutBreakpoints`, `updateBreakpoints`, `xmegaSendBPs` | `remote.cc`, run control, link |
| breakpoints, mkI: `jtagbp.cc` | `bpCode[]`, `bpData[]` and their counts | the same names | the same |
| run control: `jtagrun.cc`, `jtag2run.cc`, `jtag3run.cc`, `remote.cc` | `cached_pc`, `cached_event`, `nonbreaking_events` | `jtagContinue`, `jtagSingleStep`, `interruptProgram`, `resetProgram`, `eventLoop`, `handleInterrupt` | GDB socket, link, breakpoints |
| memory access: `jtagrw.cc`, `jtag2rw.cc`, `jtag3rw.cc` | flash and EEPROM page caches, `programmingEnabled` | `jtagRead`, `jtagWrite` | link, programming mode |
| programming: `jtagprog.cc`, `jtag2prog.cc`, `jtag3prog.cc` | `programmingEnabled` | enable, disable, erase, download | link |
| fuses and lock bits, parameters and daisy chain: `jtaggeneric.cc`, `jtag*misc.cc` | none | single commands | link |
| GDB protocol: `remote.cc` | input and output buffers, odd byte of `M`, flash buffer, `dontSendReply` | `getpacket`, `putpacket`, `talkToGdb` | GDB, every operation of the box |
| USB and HID bridge: `jtag2usb.cc` | pipes, threads, `signal` flags | daemon process, HID and USB threads, `resetUSB` | libusb/hidapi, links |
| serial port and base class: `jtaggeneric.cc` | file descriptors, terminal settings | `timeout_read`, `safewrite`, baud rates | links |
| session: `main.cc` | options, `theJtagICE` | start-up, accept loop, clean-up | all |
| device tables: `devdescr.cc`, `ioreg.cc` | `deviceDef`, the entry in use | `deviceAutoConfig`, `setDeviceDescriptor`, `qRavr.io_reg` | start-up, programming, GDB protocol |
| helpers: `utils.cc`, CRC, getopt | none | pure functions | - |

How they meet: GDB's packets come in on a socket, `talkToGdb()` handles one at a
time and calls the box's class; each operation sends commands and waits for each
reply before the next.  The box, however, speaks of its own accord as well: a
breakpoint, a power failure or a sleep arrives as an event on the same line, at
any time, and whoever happens to be reading then meets it: `recv()`,
`expectEvent()` or `eventLoop()`.  Failures are C++ exceptions; most end the
session.

### What is hard, and what makes each part correct

* **Links.**  Answers are lost, late, damaged or cut off; commands are repeated.
  The mkI's line has no frames and no numbers, and both its ends change the bit
  rate in mid-conversation.
  Correct: every command comes back with an answer or a failure, the answer is
  to this command, and an event is never taken for an answer.
* **Breakpoints.**  A fixed table with an end mark, entries used again while the
  box still holds what they said before, few hardware slots with preferences,
  requests that are refused, downloads that fail halfway.  Correct: table and
  box agree, and the target runs with what GDB asked for.
* **Run control.**  Stops, Ctrl-C, the box's other events and the end of a step
  come in any order.  Correct: GDB is told the target stopped only when it has,
  it *is* told, at the right PC, and a Ctrl-C is served.
* **Memory.**  Cached pages that the program, an erase or a write makes stale;
  programming mode, in which the target cannot be debugged, has to be left on
  every path.
* **GDB protocol.**  Acknowledgements and repeated packets, state kept from one
  packet to the next.
* **Bridge.**  A thread per direction, a socket pair that is a stream, packets of
  another size than the messages, and a thread that may end without anybody
  being told.  Correct: bytes keep their order, a message stays a message, and
  what was written does not lie there for ever.
* **Tables.**  Masks, flags and sizes by the thousand, of which code computes
  addresses, counts and bytes.  Correct: no register is read that reading
  disturbs, and no fuse is written but OCDEN.

The full list, with lines and the properties that cover each item, is under
`hazards` in `PROJECT.json`.

## 2. Modules

| Module | Models | Uses |
|---|---|---|
| `Jtag2Link` | the mkII's command link | - |
| `Jtag2LinkProofs` | theorems about it | `Jtag2Link` |
| `BreakpointPromise` | abstract: what the breakpoint table promises GDB | - |
| `Breakpoints` | table, layout and download, mkII and JTAGICE3; refines the promise | `BreakpointPromise` by `INSTANCE` |
| `BreakpointsProofs` | theorems about it, the refinement among them | `Breakpoints`, `SequenceLemmas` |
| `MkIBreakpoints` | the mkI's two arrays and its registers | - |
| `MkIBreakpointsProofs` | theorems about it | `MkIBreakpoints`, `SequenceLemmas` |
| `RunControl` | step, continue, reset and Ctrl-C, with GDB, server, box and target as actors | - |
| `RunControlProofs` | theorems about it | `RunControl`, `SequenceLemmas` |
| `Jtag3Link` | the JTAGICE3's command link, with the event `recv()` keeps | - |
| `Jtag3LinkProofs` | theorems about it | `Jtag3Link` |
| `MkILink` | the mkI's serial link, from the search for the bit rate on | - |
| `MkILinkProofs` | theorems about it | `MkILink` |
| `SequenceLemmas` | lemmas about sequences, folds and recursion that the proofs share | - |
| `UsbBridge` | what the threads of `jtag2usb.cc` do to the bytes of messages | - |
| `TargetMemory` | memory access, programming mode, erasing, downloading, `m`, `M`, `vFlash*` | - |
| `TargetMemoryProofs` | theorems about it | `TargetMemory`, `SequenceLemmas` |
| `IoRegisters` | the tables of `ioreg.cc`, as data | - |
| `DeviceDefinitions` | the tables of `devdescr.cc`, as data | `IoRegisters` |
| `Devices` | identifying the device, its descriptor, OCDEN, the IO register packets | `DeviceDefinitions` |
| `MC*` | instances for TLC, one configuration file per run | |

`map` in `PROJECT.json` gives for each definition the lines it stands for.

### Jtag2Link

State: `command_sequence`; who waits (`caller`) and its `tries`; `sizeseen`;
`usbReset`, whether `resetUSB()` was called; the frames on their way in each
direction; and, for the properties only, which command a frame belongs to,
the first command sent under the present number (`base`), and the reply taken
last (`accepted`).  The host has one action per outcome of a pass of `recv()`:
silence, a damaged frame, a frame under another number, the reply.  Box and wire
answer, lose, damage or cut a frame and emit events.  `doJtagCommand()` hands
its own loop counter to `sendJtagCommand()` by reference, which counts it up a
second time; `NextAttempt` counts the same way.  The bytes of a frame and its
CRC are abstracted to *whole*, *damaged* and *cut*; a cut frame that silence
follows is returned as if it were whole (`jtag2io.cc` 160-190), and so it is
here.

### Breakpoints and BreakpointPromise

State: the `setting` (the class of the box, whether only software breakpoints
or none can be had, an Xmega or not, firmware with full Xmega support or not),
which stays as it was; the array `bp` itself, with its end mark and the stale
entries behind it; `xmega_bps`; where in `updateBreakpoints()` the server is; the
box's three slots, its software breakpoints and the Xmega breakpoints of this
run.  An action is one GDB request, one entry downloaded, one removed, the GO
command, a failure of any command, or a stop of the target.
`layoutBreakpoints`, `addBreakpoint` and `deleteBreakpoint` are operators from
table to table; the two passes of the first are a recursive function, `Passes`,
over the entries of the list, so that they can be reasoned about.
`TableAssumption` says that a target without software breakpoints is no Xmega:
the one device with `DEVFL_NO_SOFTBP` is the ATmega128 (`devdescr.cc` 514).  `handleInterrupt()`'s momentary breakpoint is part of the model,
because it adds, removes and adds again between two GDB requests.

`BreakpointPromise` has no table: a set of breakpoints wanted, a set the box
stops at, and the rule that they are equal when a run begins and change one at
a time in between.  `PromiseKept` states that the table implements it, with
`wanted` mapped to GDB's set and the momentary breakpoint, `armed` to what
the box's slots hold, and `released` (from when on nothing
is promised) to whether a request has been refused or the target is an Xmega.

### MkIBreakpoints

The mkI gets all its breakpoints before every run: `Run` is the whole of
`updateBreakpoints()`.  Z0 and Z1 take code breakpoints; X and Y take what is
left, and a mode byte turns them on.  The box forgets Z0 and Z1 when the target
stops, but not X, Y and the mode byte.

### RunControl

State: where the server is (`srv`: the command whose reply it awaits, an
`expectEvent()`, `eventLoop()`, or GDB's turn), the GDB command under way,
`cached_pc`, class `jtag3`'s `cached_event`, the frames on the line, the command
the box has yet to execute, the target (`running`, `pc`), and a pending Ctrl-C.
`Boxes` picks the class and the wiring:

* `jtag2`: the mkII and the Dragon, everything on one stream.
* `edbg`: class `jtag3` over HID; one thread asks for replies and events in turn,
  so they stay in order.
* `jtag3`: class `jtag3` over USB; a thread of its own reads the event endpoint, so
  events and replies overtake one another.

The box posts the event a command leads to (a BREAK after a step, say) after its
reply, as the source expects; anything else may come between.  The link is
assumed to work here: the link modules have its failures.

### Jtag3Link

As `Jtag2Link`, with what is different: a number moves on with a reply only, a
command is sent once by `doJtagCommand()` and again by `doSimpleJtagCommand()`,
and an event met in `recv()` goes to `cached_event`, one at most, where
`expectEvent()` looks first.  `jtagContinue` is an action of its own: it deletes the
kept event before it sends GO, and `eventLoop()` then calls `expectEvent()` only
when there is something to read.  `expectEvent()` also follows a reset, a stop
and a step, even one that was refused for the wrong mode (`StepInWrongMode`).
What a reply says is chosen when it is taken, since nothing looks at it before.
`hid` chooses the wiring.  With libusb a thread
each passes on replies and events, in any order between them; a thread may end
of an USB error, which nobody is told.  With HIDAPI one thread fetches one reply
after each command, so that a reply which is not ready is fetched after the
next one, and all later replies are one behind.

### UsbBridge

State: the socket pair as a stream in each direction, the packets on the wire,
the messages the tool received, the frames AVaRICE read, and the threads that
ended.  A byte is known by its message and its place in it.  An action is one
round of a thread's loop: read up to 512 bytes and cut them into packets (with an
empty one behind a full one), join packets to a message until a short one, take
an event, or send the packets of a HID command and fetch its reply.  A packet
that fails ends the writing thread (`WriteFails`), but nobody looks whether the
empty one went out: the thread goes on, and the tool takes the next message for
the rest of this one (`WriteLosesEnd`).  The
JTAGICE mkII finds its frames in the stream; the others are told a length.

### MkILink

State: how far the link is (`starting`, `fresh` before the rate is changed, `up`
or `down`), both ends' bit rate, the frame that is waited for and the attempts,
the frames and bytes on the line.  Bytes are told apart as far as the code looks:
`A`, `G` (an information) and others.  Before each write the input is flushed.
Sending at different rates arrives as nothing.  A fault loses a frame, or
damages or shortens an answer, puts an info in front of it, or has the box refuse.

### TargetMemory

State: the session's options and where in them `main()` is, `programmingEnabled`
and the box's own mode, the memories and the two page caches, the buffer of
`vFlashWrite`, the odd byte of `M`.  A byte is known by its address and by what
wrote it.  A request is an *agenda*: a call is replaced by the calls and
commands it makes, one command at a time goes to the box, and a refused one
drops what is left of the `try` block it comes from, up to its `catch`.  This makes
every exception path of `jtagRead()`, `jtagWrite()`, `downloadToTarget()` and
`main()` a behaviour.

### Devices, DeviceDefinitions and IoRegisters

The two data modules hold the tables, entry by entry, with what the code reads:
part number, sizes, flags, OCDEN mask, the addresses of the registers, those
flagged as having read side effects, and which of them are the halves of an
ADC result.  `Devices` runs a session's start-up on them (a device that is
identified, named by `-P` or named wrongly, on each class of box) and then
GDB's `qRavr.io_reg` packets with their nested loops.

## 3. Runs

| Run | Module, instance | Shows |
|---|---|---|
| `link2_numbers` | `Jtag2Link`, 3 numbers, 3 commands, 3 frames in flight, 1 event | a reply taken is to a command of the present number, nothing in flight is more than one number old, every command returns |
| `jtag3_link` | `Jtag3Link`, both wirings, 3 numbers, 4 commands, 2 events, 1 thread that ends | the same; events are handled in their order, and the one `recv()` kept stays until `expectEvent()` takes it or the next GO deletes it |
| `mki_link` | `MkILink`, 2 bit rates, 2 commands, 2 faults | a response is to its command and whole, commands are repeated for faults only, both ends keep one bit rate, everything returns |
| `usb_bridge` | `UsbBridge`, each kind of tool, 3 commands, 1 event, empty packets that are lost, a thread that ends | commands arrive in order and whole, replies and events are read whole, nothing is left lying |
| `breakpoints` | `Breakpoints`, every class of box and kind of target, 3 code addresses, a watchpoint, a table of 4 | table and box agree at every step, runs are as asked, slots are kept, the Xmega command's two places are never exceeded, the promise is implemented |
| `bp_range` (violation) | one range watchpoint | its mask stays in the box when it is deleted |
| `mki_safety` | `MkIBreakpoints`, the code's limits, 5 code addresses, 3 watchpoints | arrays hold what was asked, every entry finds a register |
| `rc_run` | `RunControl`, all three wirings, 2 addresses, 2 other events | for `jtag2` GDB is told of a stop only when the target stands, a step reports the true PC, a Ctrl-C is served; for `jtag2` and `edbg` a stop is reported |
| `rc_interrupt` (violation) | `edbg`, 1 other event | a Ctrl-C read in one pass with an event that means nothing is forgotten |
| `memory` | `TargetMemory`, six kinds of session, 4 packets, 1 refused command | programming mode is as it has to be after each request; reads, writes, vFlash loading and verified downloads are right, but for the exceptions below |
| `memory_reads` (violation) | a debugWIRE target, one read | across the end of a flash page a read returns other bytes than the memory's |
| `devices` | `Devices`, all devices on all classes | geometry is the device's, only OCDEN is changed, no register is read that reading disturbs, every query is answered |

The runs marked *violation* check what a comment in the source says and end in
a counterexample; `findings` in `PROJECT.json` quotes the comment.  The
operators whose names say what they leave out or add to the definition after
them (`NextSeqStuck`, `EntryForAnyDisabled`, `Offset_None`, ...) are plausible
mistakes in it.  Nothing in a specification uses them; put in place of the real
definition, each breaks the property listed beside it under `mutants`.

### What the properties except

A property that the code keeps only in part says so itself, and states what
holds.  The exceptions, each of them a behaviour of the code:

* *Links.*  A late reply is taken by the **next** command (the number is kept
  when a command is given up): `ReplyOfThisNumber` says that it is never taken by
  one further on.  On the mkI's line an answer that comes after it was given up
  may be taken for any other's (`late`).
* *Endpoint reset.*  `doJtagCommand()` of class `jtag2` compares its counter with 4
  when it is 1, 3, 5 or 7: the reset it is meant for never happens (`jtag2io.cc`
  396, `ResetDue` in the model).
* *Breakpoints.*  A refused request may leave an entry that says the box holds
  what it does not (`TableMatchesIce` and `PromiseKept` hold up to the first
  refusal), and an Xmega gets no breakpoints on a second run without a change
  (`RunsAsAsked` and `PromiseKept` leave the Xmega out).  The mkI's mode byte is
  kept when no register needs it, so a deleted watchpoint stays on.
* *Running.*  `ReportedStopped`, `StepReportsPC` and `InterruptServed` are stated
  for class `jtag2`: class `jtag3` keeps an event that `recv()` met, and it may
  answer a later `expectEvent()`.  `StopIsReported` leaves out the `jtag3` wiring,
  where a BREAK may overtake GO's reply, be kept, and not be looked at until
  another frame makes `select()` return.  A run ended by an event without a PC
  is reported with the PC of the stop before.
* *Memory.*  `ReadsSound` excepts a read across the end of a page, a read from a
  page that was written behind the cache, and an even number of SPM bytes from an
  odd address; `WritesArrive` the odd byte kept for the next packet and a page
  sent to an address within a page; `ModeAsFound` a session in which an error
  kept the mode from being changed (`slipped`).
* *Events.*  `EventsKept` excepts the event that `jtagContinue()` deletes before GO
  (`jtag3run.cc` 395).
* *Bridge.*  `CommandsArrive` excepts a command written behind one given up, one
  longer than the threads' buffer, a message that begins with a command whose
  empty packet was lost (`unended`), and the HID commands whose last bytes the
  number of packets has no room for (it is worked out without the four bytes of
  each packet that are no payload, `jtag2usb.cc` 1301).
* *Tables.*  `RegistersAsShown` excepts the ADC result of two devices whose
  tables leave its flag out (`ioreg.cc` 8058, 8315).

### Bounds, and why they are enough

* *Numbers.*  The code uses 65535; three are the fewest with which a number two
  behind differs from one ahead, and more attempts than numbers make them wrap.
  The proofs below need no bound.
* *Attempts.*  `link2_numbers` lowers them (4 and 2 instead of 8 and 10), as do
  `jtag3_link` (2 instead of 10) and `mki_link` (5 and 2 instead of 10 and 3),
  which changes only how soon a command is given up.
* *Breakpoints.*  Four breakpoints, or three and the momentary one, against
  three slots: some are software breakpoints, or are refused where the target has
  none, and every slot is used again.  The table is 4 long instead of 255: it overflows,
  and its entries are used again.  Addresses are interchangeable when no length
  is computed with, hence the symmetry; liveness is not checked under symmetry.
* *mkI breakpoints.*  The code's own limits, with one code address and one data
  address more than fit.
* *RunControl.*  Two addresses tell a true PC from a stale one.  Two other
  events are enough for one in each of two places where an event is awaited; three
  frames on the line hold an event, a reply and an event.  A box with a full line
  waits, which delays it but takes nothing away.
* *Jtag3Link.*  Two events: one that is kept and one that could take its place.
  Four commands take the three numbers once round.  Over HID the tool holds two replies not yet fetched, which is one more than
  makes the fetches slip.
* *MkILink.*  Two rates: the one of the box and another.  A fault on the command
  and one on its repetition, or one on each of two commands.
* *UsbBridge.*  Sizes are scaled: 8 bytes for the threads' 512, 2 for the mkII's 64,
  HID packets of 4 of which one is no payload instead of four.  Commands of 5, 8
  and 9 bytes and replies of 4, 8 and 9 leave room in the last packet or fill it,
  fill the buffer, and exceed it by one.  Over HID a command of 5 takes two packets
  and is whole, one of 8 is cut; a reply of 8 takes three, and one of 4 is dropped
  for its short last fragment.
* *TargetMemory.*  A flash of two pages of four bytes in blocks of two, an EEPROM
  of two pages of two: two pages are enough to leave a page and to come back to it.
  The ranges read and written begin and end at a page's ends and within one, cross a
  boundary, begin at an odd address and have an odd length.  Four packets hold
  read, write and read, or a whole vFlash sequence with two writes.
* *Devices.*  No bound: every entry of the tables is connected, on every class
  of box, identified and named; `-P` may name a mega, an Xmega and an unknown device
  besides.  Batches of 8 registers (GDB chooses how many) are as many as have a
  run of several registers between flagged ones in them.

### Fairness

`Jtag2Link`: weak fairness of the host's receiving, `Recv`.  `timeout_read()`
calls `select()` with a timeout, so a waiting host goes on, with a frame or with
silence.  Nothing is assumed of box or wire.

`Jtag3Link` and `MkILink`: the same, of `Recv` and `HostReads`; for the latter also
of `Probe`, which starts the next attempt without waiting for anything.

`UsbBridge`: weak fairness of the threads' loops (`Write`, `Read`, `HidExchange`),
which block only in a read that has something to return, and of the tool's taking
packets, without which `usb_bulk_write()` fails after five seconds and the
thread ends.

`Devices`: weak fairness of the server's own computation, `Serve`.

`Breakpoints`, `MkIBreakpoints` and `TargetMemory` state no liveness and assume
none.

`RunControl`: weak fairness of the server (it never stops working when it can),
of the box's carrying out a command and posting the event it owes.  Nothing makes
GDB go on, the target stop, or a Ctrl-C be sent; that is why the
configurations switch the deadlock check off: a session may end, and GDB may
have nothing more to ask.  The same holds of the other modules: each may stop
when there is no further command, event or fault within the bounds, or when the
program has ended.

## 4. Proofs

Eight modules hold theorems (`SequenceLemmas` only lemmas), each checked by TLAPS to the last leaf; what a
theorem states holds for every value of the constants that the named
assumptions allow.  In each, the invariants of the runs are not inductive by
themselves; `IInv` is the strengthening that is, and TLC checked it on the run's
instance before it was proved.

**`Jtag2LinkProofs`**, from `LinkAssumption` (at least two sequence numbers;
limits and bounds are natural numbers):

* `LinkTypeCorrect`: `Spec => []TypeOK`
* `LinkReplyOfThisNumber`: `Spec => []ReplyOfThisNumber`
* `LinkOneNumberBehind`: `Spec => []OneNumberBehind`

`ReplyOfThisNumber` is not inductive: that an old frame is not taken for a reply
depends on which frames are in flight.  The invariant adds `WireOK`.  Read the
frames in flight from the oldest, first those to the host, then the commands
to the box: those under the previous number all come before those under the
present one, and the latter belong to commands since `base`.  When `recv()`
takes a frame of the present number and moves on, what remains is of that number
only, which is then the previous one: nothing two behind is left, whatever the
modulus.  `NextSeqProperties` is the only arithmetic; a lemma each says that
dropping, sending, answering, losing and accepting keeps `WireOK`.

**`Jtag3LinkProofs`**, from the same assumption of its module:

* `Jtag3TypeCorrect`: `Spec => []TypeOK`
* `Jtag3ReplyOfThisNumber`: `Spec => []ReplyOfThisNumber`
* `Jtag3OneNumberBehind`: `Spec => []OneNumberBehind`
* `Jtag3EventsKept`: `Spec => EventsKept`, an action property

There are three queues: what a thread has passed on (`pipe`), replies at the tool
which it has not yet fetched (over HID), and commands to the tool.  `WireOK` says
of the three in this order what it says of two in `Jtag2LinkProofs`; events,
which carry a number of their own, may stand anywhere in the first.  For
`EventsKept` the invariant adds `EventsOK`: the events in the pipe are in the order in
which they happened, later than the one kept and than the one handled last; taking
or deleting the kept one leaves this so (`DropKeepsEvents`).

**`MkILinkProofs`**, from `MkILinkAssumption`:

* `MkIResponseIsOwn`: `Spec => []ResponseIsOwn`
* `MkIRepeatedForFaultsOnly`: `Spec => []RepeatedForFaultsOnly`
* `MkIRatesAgree`: `Spec => []RatesAgree`

All three hold as long as no answer was given up that came later (`late`), which
never becomes false again; the invariant is stated under the same condition.
Then at most one frame is on its way, it is the one the host waits for, and
nothing has arrived while it is (`OnItsWay`): a reader that gives up finds the line
empty, and writing flushes what there is.  No damaged answer has an `A` first and
a whole response behind it (`DamagedNoAck`), so that what is taken for one while
a command waits is the box's answer to it, and the box is at the fast rate by then
(`ArrivedOK`).  Until it has arrived, the box has executed the command no more
often than something went wrong (`CountsOK`).

**`MkIBreakpointsProofs`**, from `MkIAssumption` and `RegisterAssumption` (at
most four breakpoints, two of them for data):

* `MkITypeCorrect`: `Spec => []TypeOK`
* `MkIEveryBreakpointArmed`: `Spec => []EveryBreakpointArmed`
* `MkITableIsAsAsked`: `Spec => []TableIsAsAsked`

The limits of the arrays are tested on insertion with `!=`, and not at all when
`handleInterrupt()` puts its momentary breakpoint back.  The invariant
therefore says that a momentary breakpoint is in the array while the target
runs, so that putting it back takes the place it had, and that the arrays
together stay within the limits.  From that, `AtMostTwoLeft` bounds what is left
for X and Y, and `SetXYArms` shows that it is turned on.  `TableIsAsAsked` needs
that the arrays repeat nothing, or deleting would leave a copy, and that the
momentary breakpoint is not one GDB asked for (`AskedOK`).

**`RunControlProofs`**, from the module's assumption on its constants:

* `RunTypeCorrect`: `Spec => []TypeOK`
* `RunReportedStopped`: `Spec => []ReportedStopped`
* `RunStepReportsPC`: `Spec => []StepReportsPC`

The server has one command under way at most: it is at the box, or its reply is
in the line, and that reply is to what the server waits for (`OneCommand`).  With
class `jtag2` the line keeps its order, so an event behind that reply is one the
box posted since it executed the command; a BREAK among those means that the
target stands, and where (`RecentStops`).  Since `recv()` drops what comes
before the reply, no other BREAK is ever looked at.

**`BreakpointsProofs`**, from `TableAssumption`:

* `BreakpointsTypeCorrect`: `Spec => []TypeOK`
* `XmegaRoom`: `Spec => []XmegaHasRoom`
* `TableAgreesWithBox`: `Spec => []TableMatchesIce`
* `RunAsAsked`: `OneByte` implies `Spec => []RunsAsAsked`
* `TableKeepsPromise`: `OneByte` implies `Spec => PromiseKept`, the refinement
* `SlotsAreKept`: `Spec => SlotKept`, an action property

What is always so (`Typed`): the list has an end, what is pending is not in the
box, an entry with a type has an address.  What is so until a request is
refused (`Sound`, `MarksOK`): no two entries of the list hold one slot, and the
marks of an entry agree with one another, so that its state says exactly which
command it still needs; and `InBox`: the box's slots hold what the entries with
`icestatus` say, no less and no more.  Then each command of a download changes
box and entry alike, and when nothing is pending or to be removed, what the
box holds is what is enabled (`UpToDate`), which is what was asked for (`AskedOK`).
The main lemmas are about the layout: it moves only pending entries, never gives
out a slot that a stable or an earlier entry has, and gives an Xmega no more
than two (`LayoutSlots`, `XmegaOK`).  They go by induction over the passes'
steps, as membership of every number in a set that holds 0 and with each number
the next (`AllNumbers` in `SequenceLemmas`), which needs no operator parameter;
this is why `Passes` is a recursive function.  A download that fails halfway, or
a refused request, only ever falls back to what is always so.

`TableKeepsPromise` maps the steps one by one: a request changes `wanted`, the
start of an update begins a change, each of the box's commands changes `armed` by one
element or by none, GO begins a run, and everything else stutters; a refusal
releases the promise.

`OneByte` says that only watchpoints of one byte are asked for (`Lengths = {1}`,
as in the run `breakpoints`).  It is not there for the proof's sake: with a range
the box holds a mask entry that GDB never asked for and that outlives its
watchpoint, as the run `bp_range` shows, so the two statements are false
without it.

**`TargetMemoryProofs`**, from `TargetMemoryAssumption` (pages are not empty and of
an even size or of one byte, as in every entry of the device tables; memories are
whole pages; the ranges asked for lie within them):

* `MemoryModeAsFound`: `Spec => []ModeAsFound`
* `MemoryGoodbye`: `Spec => []GoodbyeUnlessMissized`
* `Flashed`: `Spec => []FlashedAsSent`
* `Written`: `Spec => []WritesArrive`
* `ReadRight`: `Spec => []ReadsSound`
* `Downloaded`: `Spec => []DownloadVerified`

All the invariants are about the agenda.  Carried out from the present mode on, what is
left of it ends in the mode that is due (`EndsIn(agenda, progmode, Due)` in
`ModeOK`), as long as no error kept a change of the mode from being made.  An
agenda ends in a mode if its last switch sets it, or if it has no switch and the
mode is the present one.  One lemma each says that this survives a command
(`HeadDone`), an error that goes to the nearest catch (`ThrowKept`), and a call
replaced by commands in front of the rest (`ExpandKept`): the latter because
`enableProgramming()` and `disableProgramming()` stand around an access only if
programming mode was off, and then it ends where it began (`InProgmodeFits`).  The
requests are the base: every option of the command line ends outside programming
mode (`OptionFits`), every packet in its own mode.  Nothing is left behind an
answer but the ends of try blocks (`Well`), so that no switch comes after it.

For the second, `CallOK` says of each call that is still to be made that it
writes whole pages unless the packet is `M`; the pages of an image are whole
whatever the image (`FlashImageFits`), those of the vFlash buffer whatever was
written to it (`PagesFit`).

The other four are about bytes, and share an invariant of shape (`Shaped`): what the
agenda of `m`, `M` and `vFlashDone` may hold, that their ranges lie in the
memory, and that an error of theirs drops the answer, since no `catch` stands
in front of it (`ThrowShape`).  So if the answer is still *promised*, nothing was
dropped (`PromisedBefore`).  For the writes, `WritesDue` says of every cell the
request owes a byte: the memory has that byte and nothing left of the agenda touches the cell, or
something left brings it and nothing behind that touches the cell (`CellEnds`).
A call to `jtagWrite()` may touch every cell if it begins at address 0, where it
may erase the chip first; it is therefore part of the argument that the other pages
of `vFlashDone` come behind the page at 0 (`PagesLand`), and that the blocks of a
page bring each of its bytes once (`PartsEnd`, `WriteEnds`).  `CellKept` takes this through
every step.  For the reads, `ReadDue` says that one call or command is left that
reads, with `result` still empty if it reads a page, or that none is left and the
result is acceptable.  `ReadsOne` is the arithmetic behind it: a read within
a page is one command, which copies from the right place of the page.

For the download, `DownloadDue` says of every byte of the file that it is settled
(the memory has it, and nothing left of the agenda changes its memory), or that
something to come decides about it (`CellChecked`): its page is still to be read
(`Asked`), or is being read, in one command or in blocks, up to the comparison
(`Under`: what `result` holds is what the memory holds there), or was compared,
and then the byte is settled unless the comparison failed and `verified` is still
to be looked at.  The settled byte stays because a memory is read back only
after the last write to it (`OrderOK`), the reads through the cache are right
because the cache of a memory that was read holds what the memory holds
(`FreshOK`), and the errors that are passed over drop nothing of this because a
`catch` of the download has its `try` right before the write (`BlocksOK`,
`Enclosed`).  That the agenda of the option is of this kind for every file is
`DownloadIs`, that a command keeps it `WorkDue`; before the download the caches
are empty since no earlier option reads a page (`OptionReadsNone`).

**Only model-checked**: `CommandReturns`, `Returns`, `Drains`, `QueryAnswered`,
`StopIsReported` and `InterruptServed` (liveness is out of the prover's reach), and
the properties of `UsbBridge` and `Devices`.  Those of
`Devices` are about particular tables, all of which the run goes through; a proof would be
the same enumeration.

## 5. What is not modelled

* The packet layer of GDB's protocol (`getpacket`, `putpacket`): whether the ends
  get out of step depends on when GDB sends again, which is not in this
  repository.  CPU registers and SRAM, which are single commands.
* Class `jtag1`'s own memory accessors (`jtagrw.cc`) and its event loop, which
  reads single bytes from the serial line.
* The bytes of a mkII frame and its CRC (`recvFrame()`): a frame is whole,
  damaged or cut.  `jtag2io.cc` 160-190 returns a frame cut by silence as whole,
  and so does `Jtag2Link`.
* The threads written for FreeBSD's libusb 2.0 (`HAVE_LIBUSB_2_0`), finding and
  opening the tool, and the end of the process when the HID thread throws.
  In the libusb 2.0 reader `jtag2usb.cc` 920 looks at `rv` where the length just
  read is in `result`.
* A serial line that is hung up, on which `timeout_read()` does not end
  (`jtaggeneric.cc` 169).
* Parameters, the daisy chain, sign-on and sign-off, beyond their being
  commands; the values of fuses other than OCDEN; reading the file to download
  with BFD; the command line; getopt, CRC and other pure helpers.
* In `RunControl`: debugWIRE's reset (`jtag2run.cc` 102-106), detaching, GDB's
  end of file in `eventLoop()`, the contents of `nonbreaking_events` (whether
  an event is in it is an arbitrary choice), BREAKs the JTAGICE3 ignores, and
  events that come later than `expectEvent()` waits.
* In `Breakpoints`: requests that ask for one address with two lengths, after
  which a refused range watchpoint would mark an entry in the middle of the table
  as the last one (`jtaggeneric.cc` 743).
* In `TargetMemory`: the running target writing its own memory, and an mkII
  whose firmware takes an Xmega for a mega.
* In `Devices`: the descriptors' bytes other than the page sizes; they are passed
  on to the box as they are.
* Noted while reading and not part of a model: `doSimpleJtagCommand('G')` of the
  mkI cannot return false, so "Failed to continue" (`jtagrun.cc` 119-123) is dead
  code; `jtag1.h` 45 speaks of three breakpoints where the limit is four; the
  mkI's constructor leaves `softbp_only` unset (`jtaggeneric.cc` 85).

## 6. Plan

The modules planned for the core, the links, memory, the bridge and the tables
are written.  What is left, in this order:

1. **Proofs.**  `UsbBridge`: `CommandsArrive`, along the order of the bytes in the
   stream.
2. **Class `jtag1`**: its accessors in `TargetMemory` and its event loop.
3. **Frames**: the byte state machine of `recvFrame()`, checked against a
   definition of a frame over short byte strings.
4. **Composition**: `Jtag3Link` under `RunControl`, to state for class `jtag3`
   how far behind the event may be that a step is answered with.

## 7. Running

```
tlc -workers 2 -config MCRunControl_run.cfg MCRunControl
tlapm MkIBreakpointsProofs.tla
```

The longest runs are `usb_bridge` (less than three minutes), `memory` (one and a
half), `jtag3_link` (about as long) and `breakpoints` (about one).
