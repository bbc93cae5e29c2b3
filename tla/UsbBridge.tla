----------------------------- MODULE UsbBridge -----------------------------
(***************************************************************************)
(* The threads between AVaRICE and an USB tool (src/jtag2usb.cc, libusb    *)
(* 0.1 and HIDAPI): what becomes of the bytes of a command or reply on the *)
(* way from the socket pair to the tool's packets and back.  The socket    *)
(* pair is a stream: the writing thread takes up to MaxMessage bytes of    *)
(* whatever is there for one message.                                      *)
(*                                                                         *)
(* A byte is a pair: which command or reply it is of, and its place there; *)
(* an event is one byte.  MaxMessage and the packet sizes are scaled down. *)
(* The JTAGICE mkII has frames of its own on top of the stream (see        *)
(* Jtag2Link); for the others a length goes before each message.           *)
(***************************************************************************)
EXTENDS Naturals, FiniteSets, SequencesExt

CONSTANTS
  MaxMessage,     \* MAX_MESSAGE (512)
  MkIIPacket,     \* max_xfer of the JTAGICE mkII (64)
  HidPacket,      \* max_pkt_size of an EDBG tool (64 or 512)
  HidWrap,        \* bytes of a HID packet that are no payload (4)
  HidLeastCommand,  \* a shorter read is no command (6)
  HidLeastFragment, \* a shorter fragment of a reply is refused (5)
  CommandSizes,   \* bound: lengths of commands
  ReplySizes,     \* bound: lengths of replies
  MaxCommands,    \* bound: commands sent in a behaviour
  MaxEvents       \* bound: events in a behaviour

ASSUME BridgeAssumption ==
  /\ \A n \in {MaxMessage, MkIIPacket, HidPacket} : n \in Nat \ {0}
  /\ HidWrap \in 1 .. HidPacket - 1
  /\ MkIIPacket <= MaxMessage
  /\ HidLeastCommand \in Nat \ {0}
  /\ HidLeastFragment \in Nat \ {0}
  /\ CommandSizes \subseteq Nat \ {0}
  /\ ReplySizes \subseteq Nat \ {0}

VARIABLES
  kind,     \* "mkII", "JTAGICE3" or "EDBG"
  sent,     \* lengths of the commands AVaRICE wrote
  pipeOut,  \* bytes in the socket pair, on their way out
  wireOut,  \* packets the tool has not read yet
  got,      \* messages the tool received
  answers,  \* lengths of its replies
  wireIn,   \* packets of replies nobody has read yet
  pipeIn,   \* bytes and lengths in the socket pair, on their way in
  frames,   \* what AVaRICE read: frames, or single bytes from a mkII
  events,   \* events emitted so far
  ended,    \* threads that ended of an USB error
  glued,    \* history: a command was written behind another one
  unended   \* history: commands whose message lost its empty packet

history == <<glued, unended>>
vars == <<kind, sent, pipeOut, wireOut, got, answers, wireIn, pipeIn, frames,
          events, ended, history>>

Kinds == {"mkII", "JTAGICE3", "EDBG"}
Threads == {"write", "read", "event"}

(* The JTAGICE3 is refused unless its packets take a whole message.        *)
max_xfer == IF kind = "mkII" THEN MkIIPacket ELSE MaxMessage

Shorter(a, b) == IF a < b THEN a ELSE b

Bytes(n, len) == [k \in 1 .. len |-> <<n, k>>]
EventMark == <<0, 1>>
LengthMark(len) == [length |-> len]

Init ==
  /\ kind \in Kinds
  /\ sent = <<>>
  /\ pipeOut = <<>>
  /\ wireOut = <<>>
  /\ got = <<>>
  /\ answers = <<>>
  /\ wireIn = <<>>
  /\ pipeIn = <<>>
  /\ frames = <<>>
  /\ events = 0
  /\ ended = {}
  /\ glued = FALSE
  /\ unended = {}

-----------------------------------------------------------------------------
(* Splitting into packets and putting together again.                      *)

(* Cut(b, n) is b in pieces of n, the last one shorter or not.             *)
Cut(b, n) ==
  [i \in 1 .. (Len(b) + n - 1) \div n |->
     SubSeq(b, (i - 1) * n + 1, Shorter(i * n, Len(b)))]

Packets_NoZlp(b) == Cut(b, max_xfer)

(* A message ends with a short packet: one that fills its last packet is   *)
(* followed by an empty one.                                               *)
Packets(b) ==
  Cut(b, max_xfer) \o IF Len(b) % max_xfer = 0 THEN <<<<>>>> ELSE <<>>

ToolPackets(b) ==
  Cut(b, max_xfer) \o IF Len(b) % max_xfer = 0 THEN <<<<>>>> ELSE <<>>

Joined(packets) == FlattenSeq(packets)

(* The packets of the first message in the wire: up to a short one.        *)
MessageEnd(wire) ==
  LET short == {i \in 1 .. Len(wire) : Len(wire[i]) < max_xfer}
  IN  CHOOSE i \in short : \A j \in short : i <= j

HasMessage(wire) == \E i \in 1 .. Len(wire) : Len(wire[i]) < max_xfer

(* How many packets the reading thread takes for one message: it also      *)
(* stops when its buffer is full, and leaves what is left to the next one. *)
ReadEnd(wire) ==
  LET full == {i \in 1 .. Len(wire) :
                 Len(Joined(SubSeq(wire, 1, i))) >= MaxMessage}
      ends == {MessageEnd(wire)} \cup full
  IN  CHOOSE i \in ends : \A j \in ends : i <= j

ReadBytes_OfFirst(packets) == Head(packets)

ReadBytes(packets) == Joined(packets)

Skip(s, n) == SubSeq(s, n + 1, Len(s))

(* With an event endpoint the length goes first. *)
Upstream(b) ==
  IF kind = "mkII" THEN b ELSE <<LengthMark(Len(b))>> \o b

-----------------------------------------------------------------------------
(* AVaRICE.                                                                *)

(* safewrite(): a command, whether or not an earlier one, given up since,  *)
(* is still there.                                                         *)
Send ==
  /\ Len(sent) < MaxCommands
  /\ \E len \in CommandSizes :
       /\ sent' = Append(sent, len)
       /\ pipeOut' = pipeOut \o Bytes(Len(sent) + 1, len)
  /\ glued' = (glued \/ pipeOut # <<>>)
  /\ UNCHANGED <<kind, wireOut, got, answers, wireIn, pipeIn, frames, events,
                 ended, unended>>

(* recvFrame(): the length, then so many bytes; or the bytes there are.    *)
Receive ==
  /\ pipeIn # <<>>
  /\ IF kind = "mkII"
       THEN frames' = frames \o pipeIn /\ pipeIn' = <<>>
       ELSE LET n == Head(pipeIn).length
            IN  /\ frames' = Append(frames, SubSeq(pipeIn, 2, n + 1))
                /\ pipeIn' = Skip(pipeIn, n + 1)
  /\ UNCHANGED <<kind, sent, pipeOut, wireOut, got, answers, wireIn, events,
                 ended, history>>

-----------------------------------------------------------------------------
(* The threads of libusb 0.1.                                              *)

NextRead == SubSeq(pipeOut, 1, Shorter(MaxMessage, Len(pipeOut)))

Write_WhenFull ==
  /\ kind # "EDBG"
  /\ "write" \notin ended
  /\ Len(pipeOut) >= MaxMessage
  /\ wireOut' = wireOut \o Packets(NextRead)
  /\ pipeOut' = Skip(pipeOut, Len(NextRead))
  /\ UNCHANGED <<kind, sent, got, answers, wireIn, pipeIn, frames, events,
                 ended, history>>

(* usb_thread_write(): what one read() returns goes out as one message.    *)
Write ==
  /\ kind # "EDBG"
  /\ "write" \notin ended
  /\ pipeOut # <<>>
  /\ wireOut' = wireOut \o Packets(NextRead)
  /\ pipeOut' = Skip(pipeOut, Len(NextRead))
  /\ UNCHANGED <<kind, sent, got, answers, wireIn, pipeIn, frames, events,
                 ended, history>>

(* A packet of the message fails: those before it are out, and the thread  *)
(* ends.                                                                   *)
WriteFails ==
  /\ kind # "EDBG"
  /\ ended = {}
  /\ pipeOut # <<>>
  /\ \E n \in 0 .. Len(Cut(NextRead, max_xfer)) - 1 :
       wireOut' = wireOut \o SubSeq(Cut(NextRead, max_xfer), 1, n)
  /\ pipeOut' = Skip(pipeOut, Len(NextRead))
  /\ ended' = {"write"}
  /\ UNCHANGED <<kind, sent, got, answers, wireIn, pipeIn, frames, events,
                 history>>

(* The empty packet fails, which nobody looks at: the thread goes on, and  *)
(* the tool takes what comes next for the rest of this message.            *)
WriteLosesEnd ==
  /\ kind # "EDBG"
  /\ "write" \notin ended
  /\ pipeOut # <<>>
  /\ Len(NextRead) % max_xfer = 0
  /\ wireOut' = wireOut \o Cut(NextRead, max_xfer)
  /\ pipeOut' = Skip(pipeOut, Len(NextRead))
  /\ unended' = unended \cup {Last(NextRead)[1]}
  /\ UNCHANGED <<kind, sent, got, answers, wireIn, pipeIn, frames, events,
                 ended, glued>>

(* usb_thread_read(): an empty packet alone is nothing.                    *)
Read ==
  /\ kind # "EDBG"
  /\ "read" \notin ended
  /\ HasMessage(wireIn)
  /\ LET n == ReadEnd(wireIn)
         b == ReadBytes(SubSeq(wireIn, 1, n))
     IN  /\ pipeIn' = IF b = <<>> THEN pipeIn ELSE pipeIn \o Upstream(b)
         /\ wireIn' = Skip(wireIn, n)
  /\ UNCHANGED <<kind, sent, pipeOut, wireOut, got, answers, frames, events,
                 ended, history>>

(* A bulk read fails, within a message or not: what was read of it is gone *)
(* with the thread.                                                        *)
ReadFails ==
  /\ kind # "EDBG"
  /\ ended = {}
  /\ wireIn # <<>>
  /\ ended' = {"read"}
  /\ UNCHANGED <<kind, sent, pipeOut, wireOut, got, answers, wireIn, pipeIn,
                 frames, events, history>>

(* usb_thread_event() passes on an event of the JTAGICE3; the HID thread   *)
(* fetches one when no command is there.                                   *)
Event ==
  /\ \/ kind = "JTAGICE3" /\ "event" \notin ended
     \/ kind = "EDBG" /\ pipeOut = <<>>
  /\ events < MaxEvents
  /\ events' = events + 1
  /\ pipeIn' = pipeIn \o Upstream(<<EventMark>>)
  /\ UNCHANGED <<kind, sent, pipeOut, wireOut, got, answers, wireIn, frames,
                 ended, history>>

-----------------------------------------------------------------------------
(* The HID thread: a command in numbered packets, then its reply.          *)

HidPayload == HidPacket - HidWrap

(* npackets is worked out from the size of a packet, not of its payload.   *)
HidFragments(len) == (len + HidPacket - 1) \div HidPacket

HidCommand(b) == Joined(SubSeq(Cut(b, HidPayload), 1, HidFragments(Len(b))))

(* Every fragment of the reply must be long enough, the last one too.      *)
HidReplyPasses(len) ==
  \A i \in 1 .. Len(Cut(Bytes(0, len), HidPayload)) :
    Len(Cut(Bytes(0, len), HidPayload)[i]) >= HidLeastFragment

IsWhole(m) == \E n \in 1 .. Len(sent) : m = Bytes(n, sent[n])

HidExchange ==
  /\ kind = "EDBG"
  /\ pipeOut # <<>>
  /\ pipeOut' = Skip(pipeOut, Len(NextRead))
  /\ IF Len(NextRead) < HidLeastCommand
       THEN UNCHANGED <<got, answers, pipeIn>>
       ELSE /\ got' = Append(got, HidCommand(NextRead))
            /\ \/ UNCHANGED <<answers, pipeIn>>
               \/ /\ IsWhole(HidCommand(NextRead))
                  /\ \E len \in ReplySizes :
                       /\ len <= MaxMessage
                       /\ answers' = Append(answers, len)
                       /\ pipeIn' = IF HidReplyPasses(len)
                            THEN pipeIn \o Upstream(Bytes(Len(answers'), len))
                            ELSE pipeIn
  /\ UNCHANGED <<kind, sent, wireOut, wireIn, frames, events, ended, history>>

-----------------------------------------------------------------------------
(* The tool on libusb, as the code expects it: it takes a message at a     *)
(* time, and may answer when a command is complete; the mkII collects the  *)
(* command from the stream.                                                *)

Completes(m) ==
  \/ IsWhole(m)
  \/ kind = "mkII" /\ m # <<>> /\ Last(m)[2] = sent[Last(m)[1]]

Tool ==
  /\ HasMessage(wireOut)
  /\ LET m == Joined(SubSeq(wireOut, 1, MessageEnd(wireOut)))
     IN  /\ wireOut' = Skip(wireOut, MessageEnd(wireOut))
         /\ got' = IF m = <<>> THEN got ELSE Append(got, m)
         /\ \/ UNCHANGED <<answers, wireIn>>
            \/ /\ Completes(m)
               /\ \E len \in ReplySizes :
                    /\ kind = "JTAGICE3" => len <= MaxMessage
                    /\ answers' = Append(answers, len)
                    /\ wireIn' = wireIn \o ToolPackets(Bytes(Len(answers'), len))
  /\ UNCHANGED <<kind, sent, pipeOut, pipeIn, frames, events, ended, history>>

Bridge ==
  \/ Write
  \/ WriteFails
  \/ WriteLosesEnd
  \/ Read
  \/ ReadFails
  \/ Event
  \/ HidExchange

Next == Send \/ Receive \/ Bridge \/ Tool

Spec == Init /\ [][Next]_vars

(* A thread that has not ended goes on with what its read returns, and the *)
(* tool takes its packets: usb_bulk_write() gives up after five seconds.   *)
FairSpec ==
  /\ Spec
  /\ WF_vars(Write)
  /\ WF_vars(HidExchange)
  /\ WF_vars(Read)
  /\ WF_vars(Tool)

-----------------------------------------------------------------------------
(* Properties.                                                             *)

AllBytes(lengths) ==
  FlattenSeq([n \in 1 .. Len(lengths) |-> Bytes(n, lengths[n])])

(* With libusb the tool gets the bytes AVaRICE wrote, in order and without *)
(* a gap, however they are cut into packets and whenever a thread ends     *)
(* (jtag2usb.cc:1010).                                                     *)
StreamKept ==
  kind # "EDBG" => IsPrefix(Joined(got) \o Joined(wireOut), AllBytes(sent))

(* A message that reaches a tool without frames of its own is one command  *)
(* whole, unless a command was written behind another one that waited      *)
(* (which takes a command given up), or the message starts with a command  *)
(* whose empty packet was lost (jtag2usb.cc:1030), or one is longer than   *)
(* the threads' buffer, or than the HID thread's packets hold              *)
(* (jtag2usb.cc:1301).                                                     *)
CommandsWhole ==
  LET Fits(n) == /\ sent[n] <= MaxMessage
                 /\ kind = "EDBG" =>
                      HidFragments(sent[n]) * HidPayload >= sent[n]
  IN  kind # "mkII" =>
        \A i \in 1 .. Len(got) :
          \/ IsWhole(got[i])
          \/ glued
          \/ got[i][1][1] \in unended
          \/ ~Fits(got[i][1][1])

(* Commands arrive as they were written, as a stream where the tool looks  *)
(* for the frames itself, whole where a message is a command.              *)
CommandsArrive == StreamKept /\ CommandsWhole

(* AVaRICE reads replies and events as they were sent: from a mkII the     *)
(* bytes of the replies in order and without a gap, from the others one    *)
(* whole reply or event at a time, replies in their order.  What is lost   *)
(* is lost whole.                                                          *)
RepliesWhole ==
  IF kind = "mkII"
    THEN IsPrefix(frames \o pipeIn, AllBytes(answers))
    ELSE /\ \A i \in 1 .. Len(frames) :
              \/ frames[i] = <<EventMark>>
              \/ \E n \in 1 .. Len(answers) : frames[i] = Bytes(n, answers[n])
         /\ \A i, j \in 1 .. Len(frames) :
              i < j /\ EventMark \notin {Head(frames[i]), Head(frames[j])} =>
                frames[i][1][1] < frames[j][1][1]

(* What AVaRICE wrote leaves the socket pair, unless the writing thread    *)
(* has ended; and what the tool answered comes in, unless the reading one  *)
(* has.                                                                    *)
Drains ==
  /\ (pipeOut # <<>>) ~> (pipeOut = <<>> \/ "write" \in ended)
  /\ (wireIn # <<>>) ~> (wireIn = <<>> \/ "read" \in ended)

=============================================================================
