----------------------------- MODULE TargetMemory -----------------------------
(***************************************************************************)
(* The memories of the target, as the options of the command line and GDB  *)
(* read and write them: jtagRead() and jtagWrite() of the classes jtag2    *)
(* and jtag3, programming mode, chip erase, the download of an image, and  *)
(* the packets m, M and vFlash.  (jtag1 has accessors of its own.)         *)
(*                                                                         *)
(* A request is carried out as an agenda: calls are replaced by the calls  *)
(* and commands they make, commands go to the box one at a time, and a     *)
(* command that is refused drops what is left of its try block.            *)
(* The box and its target are external; RunControl has the running target. *)
(***************************************************************************)
EXTENDS Integers, Sequences, SequencesExt

CONSTANTS
  Boxes,        \* the sessions: [ice, proto, xmega]
  PageSize,     \* deviceDef's page size of flash and EEPROM
  Size,         \* bytes of flash and EEPROM
  Block,        \* bytes of flash an mkII takes at a time (256)
  LoadBytes,    \* more than this at address 0 is a GDB "load" (4)
  Ranges,       \* the <<address, length>> that are asked for, per memory
  Image,        \* the addresses the downloaded file has bytes for
  MaxRequests,  \* bound: requests of GDB
  MaxFaults     \* bound: commands refused without a reason

Areas == {"flash", "eeprom"}

\* What the command line may ask for, in main()'s order; what comes after.
Options == <<"erase", "readFuses", "readLockBits", "writeFuses", "debug",
             "download", "writeLockBits">>
serving == Len(Options) + 1
gone    == Len(Options) + 2

ASSUME TargetMemoryAssumption ==
  /\ Boxes \subseteq [ice : {"jtag2", "jtag3"}, proto : {"jtag", "dw", "pdi"}, xmega : BOOLEAN]
  /\ \A x \in Areas :
       /\ PageSize[x] \in Nat \ {0} /\ Size[x] \in Nat
       /\ PageSize[x] = 1 \/ PageSize[x] % 2 = 0
       /\ Size[x] % PageSize[x] = 0 /\ Size[x] % 2 = 0
       /\ Ranges[x] \subseteq Nat \X Nat
       /\ \A r \in Ranges[x] : r[2] > 0 /\ r[1] + r[2] <= Size[x]
       /\ Image[x] \subseteq 0..Size[x] - 1
  /\ Block \in Nat \ {0} /\ PageSize["flash"] % Block = 0
  /\ {LoadBytes, MaxRequests, MaxFaults} \subseteq Nat

VARIABLES
  box,                 \* the class, the protocol, the architecture
  programmingEnabled,  \* what the class thinks
  progmode,            \* whether the box is in programming mode
  mem,                 \* the target's memories
  cache,               \* flashCache and eepromCache
  agenda,              \* what is left of the request under way
  request,             \* the request under way or answered last
  result,              \* the bytes jtagRead() has put together
  reply,               \* the answer to it
  flashbuf,            \* what vFlashWrite has collected; and maxaddr
  orphan,              \* last_orphan_pending, last_orphan
  verified,            \* is_verified
  stage,               \* the options of main() done, then serving, then gone
  goodbye,             \* whether theJtagICE was deleted
  slipped,             \* history: an error kept a change of the mode from being made
  served, faults       \* counted for the bounds

session == <<stage, goodbye, slipped>>
answer  == <<request, result, reply, verified>>
gdb     == <<flashbuf, orphan, served>>
mode    == <<programmingEnabled, progmode>>
vars == <<box, mode, mem, cache, agenda, answer, gdb, session, faults>>

\* A byte is known by its address and by what wrote it: nothing yet, the
\* image, or the k-th packet of GDB.
Byte(a, writer) == <<a, writer>>
nothing  == 0
image    == 1
packet(k) == 2 + k
FF   == <<-1, nothing>>
Junk == <<-2, nothing>>                 \* what happened to be in the buffer
Zero == <<-3, nothing>>                 \* where the image has no byte
Erased(x) == [a \in 0..Size[x] - 1 |-> FF]
NoPage == -1

NoBuffer == [data |-> Erased("flash"), max |-> 0, erased |-> FALSE]
NoRequest == [cmd |-> "none", area |-> "flash", addr |-> 0, n |-> 0, found |-> FALSE]

Init ==
  /\ box \in Boxes
  /\ programmingEnabled = FALSE /\ progmode = FALSE /\ slipped = FALSE
  /\ mem = [x \in Areas |-> [a \in 0..Size[x] - 1 |-> Byte(a, nothing)]]
  /\ cache = [x \in Areas |-> [page |-> NoPage, data |-> [i \in 0..PageSize[x] - 1 |-> Junk]]]
  /\ agenda = <<>>
  /\ request = NoRequest /\ result = <<>> /\ reply = "none" /\ verified = TRUE
  /\ flashbuf = NoBuffer
  /\ orphan = [pending |-> FALSE, byte |-> FF]
  /\ stage = 0 /\ goodbye = FALSE
  /\ served = 0 /\ faults = 0

-----------------------------------------------------------------------------
(* Where a request goes *)

\* jtag2, jtag3::memorySpace().  (An mkII whose firmware lacks the full Xmega
\* support takes an Xmega for a mega.)
MemorySpace(x) ==
  CASE x = "eeprom" -> IF box.proto # "dw" /\ programmingEnabled
                         THEN "EEPROM_PAGE" ELSE "EEPROM"
    [] x = "flash"  -> IF box.xmega THEN "XMEGA_APP_FLASH"
                       ELSE IF box.proto = "dw" \/ programmingEnabled
                         THEN "FLASH_PAGE" ELSE "SPM"
    [] x = "fuse"   -> "FUSE_BITS"
    [] x = "lock"   -> "LOCK_BITS"

\* whichSpace >= MTYPE_FLASH_PAGE && whichSpace < MTYPE_XMEGA_REG
NeedProgmode(space) == space \in {"FLASH_PAGE", "EEPROM_PAGE", "FUSE_BITS", "LOCK_BITS"}

\* The spaces with a page size: class jtag3 takes an Xmega's flash in bytes.
Paged(space) ==
  \/ space \in {"FLASH_PAGE", "EEPROM_PAGE"}
  \/ space = "XMEGA_APP_FLASH" /\ box.ice = "jtag2"

\* The most a command carries of a page: an mkII takes 256 bytes at a time.
Carried(x) == IF box.ice = "jtag2" /\ x = "flash" THEN Block ELSE PageSize[x]

\* Calls and commands of the agenda.
Do(what) == [do |-> what]
jtagRead(x, addr, n) == [do |-> "jtagRead", area |-> x, addr |-> addr, n |-> n]
jtagWrite(x, addr, bytes) == [do |-> "jtagWrite", area |-> x, addr |-> addr, bytes |-> bytes]

\* Mutant: programming mode is left after each access.
InProgmode_Always(space, commands) ==
  IF NeedProgmode(space)
    THEN <<Do("enable")>> \o commands \o <<Do("disable")>>
    ELSE commands

\* enableProgramming(), disableProgramming() around an access that needs it.
InProgmode(space, commands) ==
  IF NeedProgmode(space) /\ ~programmingEnabled
    THEN <<Do("enable")>> \o commands \o <<Do("disable")>>
    ELSE commands

\* Mutant: the offset is left out.
Offset_None(addr, P) == 0

\* jtagRead() of a paged space: the rest of the first page, then page by
\* page.  The offset is the one of the first page throughout.
PageStart(addr, P) == addr - (addr % P)
Offset(addr, P) == addr - PageStart(addr, P)

PageCommands(x, addr, n) ==
  LET P     == Carried(x)
      base  == PageStart(addr, P)
      first == IF addr + n >= base + P THEN base + P - addr ELSE n
      pages == 1 + ((n - first + P - 1) \div P)
      Left(k) == n - first - (k - 2) * P
  IN  [k \in 1..pages |->
         [do |-> "page", area |-> x, page |-> base + (k - 1) * P, offset |-> Offset(addr, P),
          n |-> IF k = 1 THEN first ELSE IF Left(k) > P THEN P ELSE Left(k)]]

\* jtagRead() of another space: SPM wants an even address and count, and the
\* first byte is dropped if the address was odd.
ByteCommand(x, space, addr, n) ==
  LET skip == IF space = "SPM" THEN addr % 2 ELSE 0
      even == IF space = "SPM" THEN n + (n % 2) ELSE n
  IN  [do |-> "bytes", area |-> x, space |-> space, addr |-> addr - skip, skip |-> skip,
       n |-> even, asked |-> n, cnt |-> 0]

ReadCommands(x, addr, n) ==
  LET space == MemorySpace(x)
  IN  InProgmode(space, IF Paged(space) THEN PageCommands(x, addr, n)
                        ELSE <<ByteCommand(x, space, addr, n)>>)

WriteCommand(x, space, addr, bytes) ==
  [do |-> "write", area |-> x, space |-> space, addr |-> addr, bytes |-> bytes]

\* Mutant: bp is not moved on.
BlockOf_First(bytes, k, C) == SubSeq(bytes, 1, C)

\* The k-th block of a page.
BlockOf(bytes, k, C) == SubSeq(bytes, (k - 1) * C + 1, k * C)

\* jtagWrite(): a page goes in blocks the box can take, from the page's start.
WriteCommands(x, addr, bytes) ==
  LET space == MemorySpace(x)
      n     == Len(bytes)
      load  == box.proto # "dw" /\ space = "SPM" /\ addr = 0 /\ n > LoadBytes
      C     == Carried(x)
      Part(k) == WriteCommand(x, space, PageStart(addr, PageSize[x]) + (k - 1) * C,
                              BlockOf(bytes, k, C))
  IN  (IF load THEN <<Do("erase")>> ELSE <<>>) \o
      InProgmode(space, IF ~Paged(space) THEN <<WriteCommand(x, space, addr, bytes)>>
                        ELSE IF n # PageSize[x] THEN <<Do("throw")>>
                        ELSE [k \in 1..(n \div C) |-> Part(k)])

-----------------------------------------------------------------------------
(* Calls *)

Rest == Tail(agenda)
Doing(what) == agenda # <<>> /\ Head(agenda).do = what

CallRead ==
  /\ Doing("jtagRead")
  /\ agenda' = ReadCommands(Head(agenda).area, Head(agenda).addr, Head(agenda).n) \o Rest
  /\ result' = <<>>
  /\ UNCHANGED <<box, mode, mem, cache, request, reply, verified, gdb, session, faults>>

CallWrite ==
  /\ Doing("jtagWrite")
  /\ LET c == Head(agenda)
     IN  agenda' = (IF c.bytes = <<>> THEN <<>>
                    ELSE WriteCommands(c.area, c.addr, c.bytes)) \o Rest
  /\ UNCHANGED <<box, mode, mem, cache, answer, gdb, session, faults>>

\* throw ("jtagWrite(): numByte does not match page size"): no handler but
\* the one of main(), which does not delete theJtagICE.
ThrowText ==
  /\ Doing("throw")
  /\ agenda' = <<>>
  /\ stage' = gone
  /\ UNCHANGED <<box, mode, mem, cache, answer, gdb, goodbye, slipped, faults>>

\* The beginning and the end of a try block.  (An agenda that has a catch and
\* no try before it begins within the block.)
TryBlock ==
  /\ Doing("try") \/ Doing("catch")
  /\ agenda' = Rest
  /\ UNCHANGED <<box, mode, mem, cache, answer, gdb, session, faults>>

Answer ==
  /\ Doing("reply")
  /\ agenda' = Rest
  /\ reply' = "ok"
  /\ UNCHANGED <<box, mode, mem, cache, request, result, verified, gdb, session, faults>>

-----------------------------------------------------------------------------
(* Commands *)

\* A jtag_exception: on with what follows the catch of the block it comes
\* from, or the end of the session, whose handler deletes theJtagICE.
Throw ==
  LET catches == {k \in DOMAIN agenda :
                    /\ agenda[k].do = "catch"
                    /\ \A j \in 1..k : agenda[j].do # "try"}
  IN  IF catches # {}
        THEN LET k == CHOOSE k \in catches : \A j \in catches : k <= j
             IN  /\ agenda' = SubSeq(agenda, k + 1, Len(agenda))
                 /\ slipped' = (slipped \/ \E j \in 1..k :
                                              agenda[j].do \in {"enable", "disable"})
                 /\ UNCHANGED <<stage, goodbye>>
        ELSE agenda' = <<>> /\ stage' = gone /\ goodbye' = TRUE /\ UNCHANGED slipped

\* The box takes a command of its mode; debugWIRE has no fuses and no lock bits.
Accepts(space) ==
  IF box.proto = "dw" THEN space \notin {"FUSE_BITS", "LOCK_BITS"}
  ELSE space = "XMEGA_APP_FLASH" \/ progmode = NeedProgmode(space)

Refusal(accepts) ==
  \/ ~accepts /\ UNCHANGED faults
  \/ accepts /\ faults < MaxFaults /\ faults' = faults + 1

\* The flag is set or cleared before the command, whatever becomes of that.
SetMode(on) ==
  /\ Doing(IF on THEN "enable" ELSE "disable")
  /\ UNCHANGED <<box, mem, cache, answer, gdb>>
  /\ IF box.proto = "dw"
       THEN agenda' = Rest /\ UNCHANGED <<mode, session, faults>>
       ELSE /\ programmingEnabled' = on
            /\ \/ /\ progmode' = on
                  /\ agenda' = Rest
                  /\ UNCHANGED <<session, faults>>
               \/ /\ Refusal(TRUE)
                  /\ Throw
                  /\ UNCHANGED progmode

enableProgramming == SetMode(TRUE)
disableProgramming == SetMode(FALSE)

\* eraseProgramMemory(): the EEPROM too, unless a fuse saves it.
EraseProgramMemory ==
  /\ Doing("erase")
  /\ UNCHANGED <<box, mode, cache, answer, gdb>>
  /\ \/ /\ box.proto = "dw"
        /\ agenda' = Rest
        /\ UNCHANGED <<mem, session, faults>>
     \/ /\ box.proto # "dw"
        /\ mem' \in {[mem EXCEPT !["flash"] = Erased("flash")], [x \in Areas |-> Erased(x)]}
        /\ agenda' = Rest
        /\ UNCHANGED <<session, faults>>
     \/ /\ box.proto # "dw"
        /\ Refusal(TRUE)
        /\ Throw
        /\ UNCHANGED mem

\* A page is read unless it is the one read last; its bytes from the offset
\* on, past its end if so be, are copied from the cache.
Cached(x, page) == cache[x].page = page

FilledCache(x, page) ==
  [page |-> page,
   data |-> [i \in DOMAIN cache[x].data |->
               IF i < Carried(x) THEN mem[x][page + i] ELSE cache[x].data[i]]]

CopiedFrom(c, from, n) ==
  [i \in 1..n |-> IF from + i - 1 \in DOMAIN c.data THEN c.data[from + i - 1] ELSE Junk]

ReadPage ==
  /\ Doing("page")
  /\ UNCHANGED <<box, mode, mem, request, reply, verified, gdb>>
  /\ LET c     == Head(agenda)
         space == MemorySpace(c.area)
         Copy(from) == result' = result \o CopiedFrom(from, c.offset, c.n)
     IN  \/ /\ Cached(c.area, c.page)
            /\ Copy(cache[c.area])
            /\ agenda' = Rest
            /\ UNCHANGED <<cache, session, faults>>
         \/ /\ ~Cached(c.area, c.page)
            /\ Accepts(space)
            /\ cache' = [cache EXCEPT ![c.area] = FilledCache(c.area, c.page)]
            /\ Copy(FilledCache(c.area, c.page))
            /\ agenda' = Rest
            /\ UNCHANGED <<session, faults>>
         \/ /\ ~Cached(c.area, c.page)
            /\ Refusal(Accepts(space))
            /\ Throw
            /\ UNCHANGED <<cache, result>>

\* The bytes of a space without pages.  What the answer does not reach of the
\* caller's buffer is what was there.
BytesOf(c) ==
  IF c.area \notin Areas THEN [i \in 1..c.asked |-> Junk]
  ELSE [i \in 1..c.asked |->
          IF i <= c.n - c.skip THEN mem[c.area][c.addr + c.skip + i - 1] ELSE Junk]

\* Class jtag3 interrupts the target and tries once more if the box says
\* that its mode is wrong.
ReadBytes ==
  /\ Doing("bytes")
  /\ UNCHANGED <<box, mode, mem, cache, request, reply, verified, gdb>>
  /\ LET c == Head(agenda)
     IN  \/ /\ Accepts(c.space)
            /\ result' = BytesOf(c)
            /\ agenda' = Rest
            /\ UNCHANGED <<session, faults>>
         \/ /\ Refusal(Accepts(c.space))
            /\ Throw
            /\ UNCHANGED result
         \/ /\ box.ice = "jtag3" /\ c.cnt = 0
            /\ Refusal(Accepts(c.space))
            /\ agenda' = <<[c EXCEPT !.cnt = 1]>> \o Rest
            /\ UNCHANGED <<result, session>>

Overlaid(f, addr, bytes) ==
  [a \in DOMAIN f |-> IF a - addr + 1 \in DOMAIN bytes THEN bytes[a - addr + 1] ELSE f[a]]

WriteBytes ==
  /\ Doing("write")
  /\ UNCHANGED <<box, mode, cache, answer, gdb>>
  /\ LET c == Head(agenda)
     IN  \/ /\ Accepts(c.space)
            /\ mem' = IF c.area \in Areas
                        THEN [mem EXCEPT ![c.area] = Overlaid(@, c.addr, c.bytes)]
                        ELSE mem
            /\ agenda' = Rest
            /\ UNCHANGED <<session, faults>>
         \/ /\ Refusal(Accepts(c.space))
            /\ Throw
            /\ UNCHANGED mem

-----------------------------------------------------------------------------
(* The options of the command line *)

ImageByte(x, a) == IF a \in Image[x] THEN Byte(a, image) ELSE Zero
ImagePage(x, addr) == [i \in 1..PageSize[x] |-> ImageByte(x, addr + i - 1)]

\* Mutant: the loop ends a page early.
InImage_Short(x, addr) ==
  /\ \E a \in Image[x] : a < addr + PageSize[x]
  /\ \E a \in Image[x] : a >= addr + PageSize[x]

\* The loops go from the page of the image's first address to that of its last.
InImage(x, addr) ==
  /\ \E a \in Image[x] : a < addr + PageSize[x]
  /\ \E a \in Image[x] : a >= addr

PageIsEmpty(x, addr) == \A i \in 0..PageSize[x] - 1 : addr + i \notin Image[x]

\* An error of a write is printed and passed over.
ProgramPage(x, addr) ==
  IF ~InImage(x, addr) \/ PageIsEmpty(x, addr) THEN <<>>
  ELSE <<Do("try"), jtagWrite(x, addr, ImagePage(x, addr)), Do("catch")>>

ReadBack(x, addr) ==
  IF ~InImage(x, addr) THEN <<>>
  ELSE <<jtagRead(x, addr, PageSize[x]), [do |-> "verify", area |-> x, addr |-> addr]>>

\* jtag_flash_image()
FlashImage(x, program, verify) ==
  LET pages   == 1..(Size[x] \div PageSize[x])
      Addr(k) == (k - 1) * PageSize[x]
  IN  IF Image[x] = {} THEN <<>>
      ELSE (IF program THEN FlattenSeq([k \in pages |-> ProgramPage(x, Addr(k))]) ELSE <<>>) \o
           (IF verify THEN FlattenSeq([k \in pages |-> ReadBack(x, Addr(k))])
                             \o <<Do("verified")>> ELSE <<>>)

Option(name, program, verify) ==
  CASE name = "erase" ->
         IF box.proto = "dw" THEN <<>> ELSE <<Do("enable"), Do("erase"), Do("disable")>>
    [] name = "readFuses" -> <<jtagRead("fuse", 0, 3)>>
    [] name = "readLockBits" -> <<Do("enable"), jtagRead("lock", 0, 1), Do("disable")>>
    [] name = "writeFuses" ->
         <<jtagWrite("fuse", 0, <<FF, FF, FF>>), Do("catch"), jtagRead("fuse", 0, 3)>>
    [] name = "debug" ->
         LET ocden == IF box.xmega \/ box.proto = "dw" THEN <<>>
                      ELSE <<jtagRead("fuse", 0, 3)>> \o
                           (IF program THEN <<jtagWrite("fuse", 0, <<FF>>)>> ELSE <<>>)
         IN  IF box.ice = "jtag2" THEN <<Do("enable")>> \o ocden \o <<Do("disable")>> ELSE ocden
    [] name = "download" ->
         IF box.ice = "jtag3" THEN <<Do("give up")>>
         ELSE <<Do("enable")>> \o FlashImage("flash", program, verify)
                \o FlashImage("eeprom", program, verify) \o <<Do("disable")>>
    [] name = "writeLockBits" ->
         <<Do("enable"), Do("try"), jtagWrite("lock", 0, <<FF>>), Do("catch"),
           jtagRead("lock", 0, 1), Do("disable")>>

Idle == agenda = <<>>

\* One of the options that are left, the ones before it not being given.  For
\* "debug", program says that the OCDEN fuse is not programmed yet.
TakeOption(k, program, verify) ==
  /\ stage < k /\ Idle
  /\ program \/ verify
  /\ Options[k] # "download" => verify
  /\ Options[k] \notin {"debug", "download"} => program
  /\ stage' = k
  /\ agenda' = Option(Options[k], program, verify) \o <<Do("reply")>>
  /\ request' = [NoRequest EXCEPT !.cmd = Options[k], !.found = programmingEnabled,
                                  !.n = IF verify THEN 1 ELSE 0]
  /\ result' = <<>> /\ reply' = "none" /\ verified' = TRUE
  /\ UNCHANGED <<box, mode, mem, cache, gdb, goodbye, slipped, faults>>

\* The comparison of a page that was read with the image.
VerifyPage ==
  /\ Doing("verify")
  /\ LET c == Head(agenda)
     IN  verified' = (verified /\ \A i \in DOMAIN result :
                        c.addr + i - 1 \in Image[c.area] =>
                          result[i] = ImageByte(c.area, c.addr + i - 1))
  /\ agenda' = Rest
  /\ UNCHANGED <<box, mode, mem, cache, request, result, reply, gdb, session, faults>>

Verified ==
  /\ Doing("verified")
  /\ IF verified THEN agenda' = Rest /\ UNCHANGED session ELSE Throw
  /\ UNCHANGED <<box, mode, mem, cache, answer, gdb, faults>>

\* jtag3::downloadToTarget() throws.
GiveUp ==
  /\ Doing("give up")
  /\ Throw
  /\ UNCHANGED <<box, mode, mem, cache, answer, gdb, faults>>

\* GDB has connected.
Serve ==
  /\ stage < serving /\ Idle
  /\ stage' = serving
  /\ UNCHANGED <<box, mode, mem, cache, agenda, answer, gdb, goodbye, slipped, faults>>

-----------------------------------------------------------------------------
(* The packets *)

\* A packet is taken when the one before has been answered.
Packet(cmd, x, addr, n, todo) ==
  /\ stage = serving /\ Idle
  /\ served < MaxRequests
  /\ served' = served + 1
  /\ agenda' = todo
  /\ request' = [cmd |-> cmd, area |-> x, addr |-> addr, n |-> n, found |-> programmingEnabled]
  /\ result' = <<>>
  /\ reply' = "error"          \* error(1); // default is error
  /\ UNCHANGED <<box, mode, mem, cache, verified, session, faults>>

ReadMemory(x, addr, n) ==
  /\ Packet("m", x, addr, n, <<jtagRead(x, addr, n), Do("reply"), Do("catch")>>)
  /\ UNCHANGED <<flashbuf, orphan>>

\* The bytes GDB sends with its packet, and what lies behind them.
Sent(addr, n) == [i \in 1..n |-> Byte(addr + i - 1, packet(served))]

\* 'M': an odd byte is kept for the next packet, and written with it.
WriteMemory(x, addr, n) ==
  LET lead   == addr % 2 = 1 /\ request.cmd = "M" /\ orphan.pending
      buffer == IF lead THEN <<orphan.byte>> \o Sent(addr, n) ELSE Sent(addr, n)
      odd    == x = "flash" /\ Len(buffer) % 2 = 1
  IN  /\ Packet("M", x, addr, n,
                <<jtagWrite(x, IF lead THEN addr - 1 ELSE addr,
                            IF odd THEN Front(buffer) ELSE buffer),
                  Do("reply"), Do("catch")>>)
      /\ orphan' = [pending |-> odd, byte |-> IF odd THEN Junk ELSE orphan.byte]
      /\ UNCHANGED flashbuf

\* GDB erases first, then writes, then is done.
FlashErase ==
  /\ flashbuf.erased => flashbuf.max = 0
  /\ Packet("vFlashErase", "flash", 0, 0, <<Do("enable"), Do("erase"), Do("reply")>>)
  /\ flashbuf' = [NoBuffer EXCEPT !.erased = TRUE]
  /\ UNCHANGED orphan

FlashWrite(addr, n) ==
  /\ flashbuf.erased
  /\ Packet("vFlashWrite", "flash", addr, n, <<Do("reply")>>)
  /\ flashbuf' = [flashbuf EXCEPT !.data = Overlaid(@, addr, Sent(addr, n)),
                                  !.max = IF addr + n > @ THEN addr + n ELSE @]
  /\ UNCHANGED orphan

BufferedPage(addr, n) ==
  jtagWrite("flash", addr, [i \in 1..n |-> flashbuf.data[addr + i - 1]])

\* Mutants: a last page that is not full is left out, or is sent as it is.
Pages_Full(max) ==
  [k \in 1..(max \div PageSize["flash"]) |->
     BufferedPage((k - 1) * PageSize["flash"], PageSize["flash"])]

Pages_Rest(max) ==
  LET P == PageSize["flash"]
  IN  [k \in 1..((max + P - 1) \div P) |->
         BufferedPage((k - 1) * P, IF k * P > max THEN max - (k - 1) * P ELSE P)]

\* The pages up to maxaddr.
Pages(max) ==
  LET P == PageSize["flash"]
  IN  [k \in 1..((max + P - 1) \div P) |-> BufferedPage((k - 1) * P, P)]

FlashDone ==
  /\ flashbuf.erased
  /\ Packet("vFlashDone", "flash", 0, flashbuf.max,
            Pages(flashbuf.max) \o <<Do("disable"), Do("reply")>>)
  /\ flashbuf' = [flashbuf EXCEPT !.erased = FALSE]
  /\ UNCHANGED orphan

Work ==
  \/ CallRead \/ CallWrite \/ ThrowText \/ TryBlock \/ Answer
  \/ enableProgramming \/ disableProgramming \/ EraseProgramMemory
  \/ ReadPage \/ ReadBytes \/ WriteBytes
  \/ VerifyPage \/ Verified \/ GiveUp

Next ==
  \/ Work
  \/ \E k \in DOMAIN Options, program, verify \in BOOLEAN : TakeOption(k, program, verify)
  \/ Serve
  \/ \E x \in Areas : \E r \in Ranges[x] : ReadMemory(x, r[1], r[2])
  \/ \E x \in Areas : \E r \in Ranges[x] : WriteMemory(x, r[1], r[2])
  \/ FlashErase
  \/ \E r \in Ranges["flash"] : FlashWrite(r[1], r[2])
  \/ FlashDone

Spec == Init /\ [][Next]_vars

-----------------------------------------------------------------------------
(* Properties *)

Answered(cmd) == Idle /\ request.cmd = cmd /\ reply = "ok"
Wanted == [i \in 1..request.n |-> mem[request.area][request.addr + i - 1]]

\* A command that was carried out leaves the target in the mode it has to:
\* in programming mode from vFlashErase to vFlashDone, out of it after the
\* options, and as it was after a read or a write; and the class knows the
\* mode.  (Not once an error kept the mode from being changed.)
ModeAsFound ==
  Idle /\ reply = "ok" /\ ~slipped
    => /\ programmingEnabled = progmode
       /\ progmode = CASE request.cmd = "vFlashErase" -> box.proto # "dw"
                       [] request.cmd \in {"m", "M", "vFlashWrite"} -> request.found
                       [] OTHER -> FALSE

CacheFresh(x) ==
  cache[x].page # NoPage =>
    \A i \in 0..Carried(x) - 1 : cache[x].data[i] = mem[x][cache[x].page + i]

OnOnePage(x, addr, n) == addr \div Carried(x) = (addr + n - 1) \div Carried(x)

\* What GDB reads is what is in the memory, through any of the accesses
\* (whole pages and their cache, SPM words, bytes), as far as the code gets
\* it right: not across the end of a page, not from a cache that was written
\* behind, and not an even count of words from an odd address.
ReadsSound ==
  Answered("m") =>
    \/ result = Wanted
    \/ /\ Paged(MemorySpace(request.area))
       /\ OnOnePage(request.area, request.addr, request.n) => ~CacheFresh(request.area)
    \/ /\ MemorySpace(request.area) = "SPM"
       /\ request.addr % 2 = 1 /\ request.n % 2 = 0

\* "Returns a dynamically allocated buffer with the requested bytes if
\* successful" (jtag.h:946).
ReadsReturnMemory == Answered("m") => result = Wanted

\* What GDB wrote is in the memory, though an mkII takes a page in blocks and
\* a chip erase may come first: all but an odd byte that was kept back, and
\* but a page sent to an address within a page.
WritesArrive ==
  Answered("M") /\ (Paged(MemorySpace(request.area))
                      => request.addr % PageSize[request.area] = 0)
    => \A i \in 1..request.n - (IF orphan.pending /\ request.area = "flash" THEN 1 ELSE 0) :
         Wanted[i] = Byte(request.addr + i - 1, packet(served - 1))

\* After vFlashDone the flash holds what vFlashWrite brought, in whatever
\* pieces and order, and FF in the rest of its pages.
FlashedAsSent ==
  Answered("vFlashDone") =>
    \A addr \in DOMAIN mem["flash"] :
      /\ request.n > 0
      /\ addr \div PageSize["flash"] <= (request.n - 1) \div PageSize["flash"]
      => mem["flash"][addr] = flashbuf.data[addr]

\* A download that was verified is in the target, though errors of its
\* writes are passed over and the pages are read through the cache.
DownloadVerified ==
  Answered("download") /\ request.n = 1 =>
    \A x \in Areas : \A a \in Image[x] : mem[x][a] = ImageByte(x, a)

\* Nothing but a GDB packet 'M' of another size than a page ends the session
\* without a good-bye to the box: the pages of vFlashDone and of a download
\* are whole (jtagWrite() throws a text otherwise, which main() handles
\* without deleting theJtagICE).
GoodbyeUnlessMissized ==
  stage = gone => goodbye \/ request.cmd = "M"

=============================================================================
