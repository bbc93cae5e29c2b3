-------------------------- MODULE Jtag3LinkProofs --------------------------
(***************************************************************************)
(* Proofs about Jtag3Link for every number of sequence numbers, attempts,  *)
(* commands, events and kept replies, over libusb and over HID.  The       *)
(* argument: reading pipe, replies and toTool one behind the other, from   *)
(* the oldest frame on, those of the previous number come first and those  *)
(* of the current number after them, although a HID reply may be fetched   *)
(* late; and the serials of the event handled last, of the one kept aside  *)
(* and of those in the pipe go up in this order.                           *)
(***************************************************************************)
EXTENDS Jtag3Link, SequenceTheorems, TLAPS

(* The frames of queue f, while s is the current number and lo .. hi are   *)
(* the commands sent under it.                                             *)
Recent(f, s) ==
  \A i \in 1 .. Len(f) :
    f[i].seq = EventSeq \/ f[i].seq = s \/ NextSeq(f[i].seq) = s

Fresh(f, s, lo, hi) ==
  \A i \in 1 .. Len(f) : f[i].seq = s => f[i].cmd \in lo .. hi

(* Behind a frame of the current number there are no older ones.           *)
Ordered(f, s) ==
  \A i, j \in 1 .. Len(f) :
    i < j /\ f[i].seq = s => f[j].seq = s \/ f[j].seq = EventSeq

(* Nor are there in a queue g whose frames are all younger than f's.       *)
Before(f, g, s) ==
  \A i \in 1 .. Len(f), j \in 1 .. Len(g) :
    f[i].seq = s => g[j].seq = s \/ g[j].seq = EventSeq

QueueOK(f, s, lo, hi) == Recent(f, s) /\ Fresh(f, s, lo, hi) /\ Ordered(f, s)

WireOK(p, r, q, s, lo, hi) ==
  /\ QueueOK(p, s, lo, hi) /\ QueueOK(r, s, lo, hi) /\ QueueOK(q, s, lo, hi)
  /\ Before(p, r, s) /\ Before(p, q, s) /\ Before(r, q, s)

(* The events of the pipe are younger than the one kept, and that than the *)
(* one handled last.                                                       *)
Younger(p, serial) ==
  \A i \in 1 .. Len(p) : IsEvent(p[i]) => p[i].serial > serial

Ascending(p) ==
  \A i, j \in 1 .. Len(p) :
    i < j /\ IsEvent(p[i]) /\ IsEvent(p[j]) => p[i].serial < p[j].serial

EventsOK(p, cached, done, last) ==
  /\ Younger(p, cached) /\ Younger(p, done)
  /\ Ascending(p)
  /\ \A i \in 1 .. Len(p) : IsEvent(p[i]) => p[i].serial <= last
  /\ cached # 0 => done < cached
  /\ cached <= last /\ done <= last

(* The inductive invariant. *)
IInv ==
  /\ TypeOK
  /\ ReplyOfThisNumber
  /\ WireOK(pipe, replies, toTool, command_sequence, base, cmd)
  /\ EventsOK(pipe, cached_event, handled, events)
  /\ ~hid => replies = <<>>
  /\ caller # "none" => base <= cmd

-----------------------------------------------------------------------------
(* Lemmas about the wire.                                                  *)

(* Successive numbers differ, stay in range, and are never an event's. *)
LEMMA NextSeqProperties ==
  ASSUME NEW s \in 0 .. SeqMod - 1
  PROVE  /\ NextSeq(s) \in 0 .. SeqMod - 1
         /\ NextSeq(s) # s
         /\ s # EventSeq
BY Jtag3Assumption DEF NextSeq, EventSeq

(* What is left of a queue when its oldest frame is taken off. *)
LEMMA TailOf ==
  ASSUME NEW S, NEW f \in Seq(S), f # <<>>
  PROVE  /\ Tail(f) \in Seq(S)
         /\ Head(f) \in S
         /\ Head(f) = f[1]
         /\ Len(f) \in Nat \ {0}
         /\ Len(Tail(f)) \in Nat
         /\ \A i \in 1 .. Len(Tail(f)) :
              i + 1 \in 1 .. Len(f) /\ Tail(f)[i] = f[i + 1]
BY HeadTailProperties, LenProperties, EmptySeq

(* A queue with a frame put behind it. *)
LEMMA AppendTo ==
  ASSUME NEW S, NEW f \in Seq(S), NEW e \in S
  PROVE  /\ Append(f, e) \in Seq(S)
         /\ Len(f) \in Nat
         /\ \A i \in 1 .. Len(Append(f, e)) :
              \/ i \in 1 .. Len(f) /\ Append(f, e)[i] = f[i]
              \/ i = Len(f) + 1 /\ Append(f, e)[i] = e
<1>1. /\ Append(f, e) \in Seq(S)
      /\ Len(Append(f, e)) = Len(f) + 1
      /\ \A i \in 1 .. Len(f) : Append(f, e)[i] = f[i]
      /\ Append(f, e)[Len(f) + 1] = e
      /\ Len(f) \in Nat
  BY AppendProperties, LenProperties
<1>2. QED
  BY <1>1

(* Taking the oldest frame off any queue keeps the wire in order. *)
LEMMA TailKeepsQueue ==
  ASSUME NEW S, NEW f \in Seq(S), f # <<>>,
         NEW s, NEW lo, NEW hi, QueueOK(f, s, lo, hi)
  PROVE  /\ QueueOK(Tail(f), s, lo, hi)
         /\ \A g : Before(f, g, s) => Before(Tail(f), g, s)
         /\ \A g : Before(g, f, s) => Before(g, Tail(f), s)
<1>1. /\ Len(f) \in Nat \ {0} /\ Len(Tail(f)) \in Nat
      /\ \A i \in 1 .. Len(Tail(f)) :
           i + 1 \in 1 .. Len(f) /\ Tail(f)[i] = f[i + 1]
  BY TailOf
<1> DEFINE t == Tail(f)
<1> HIDE DEF t
<1>2. \A i \in 1 .. Len(t) : i + 1 \in 1 .. Len(f) /\ t[i] = f[i + 1]
  BY <1>1 DEF t
<1>3. Recent(t, s) /\ Fresh(t, s, lo, hi)
  BY <1>2 DEF QueueOK, Recent, Fresh
<1>4. Ordered(t, s)
  <2>1. \A i, j \in 1 .. Len(t) : i < j => i + 1 < j + 1
    BY <1>1 DEF t
  <2>2. QED
    BY <1>2, <2>1 DEF QueueOK, Ordered
<1>5. /\ \A g : Before(f, g, s) => Before(t, g, s)
      /\ \A g : Before(g, f, s) => Before(g, t, s)
  BY <1>2 DEF Before
<1>6. QED
  BY <1>3, <1>4, <1>5 DEF QueueOK, t

(* A frame e put behind a queue, which is of the current number if any     *)
(* before it is.                                                           *)
LEMMA AppendKeepsQueue ==
  ASSUME NEW S, NEW f \in Seq(S), NEW e \in S,
         NEW s, NEW lo, NEW hi, QueueOK(f, s, lo, hi),
         e.seq = EventSeq \/ e.seq = s \/ NextSeq(e.seq) = s,
         e.seq = s => e.cmd \in lo .. hi,
         \A i \in 1 .. Len(f) :
           f[i].seq = s => e.seq = s \/ e.seq = EventSeq
  PROVE  /\ QueueOK(Append(f, e), s, lo, hi)
         /\ \A g : /\ Before(g, f, s)
                   /\ \A i \in 1 .. Len(g) :
                        g[i].seq = s => e.seq = s \/ e.seq = EventSeq
                   => Before(g, Append(f, e), s)
         /\ \A g : /\ Before(f, g, s)
                   /\ e.seq = s => \A j \in 1 .. Len(g) :
                                     g[j].seq = s \/ g[j].seq = EventSeq
                   => Before(Append(f, e), g, s)
<1> DEFINE a == Append(f, e)
<1>1. /\ Len(f) \in Nat
      /\ \A i \in 1 .. Len(a) : \/ i \in 1 .. Len(f) /\ a[i] = f[i]
                                \/ i = Len(f) + 1 /\ a[i] = e
  BY AppendTo
<1> HIDE DEF a
<1>2. Recent(a, s) /\ Fresh(a, s, lo, hi)
  BY <1>1 DEF QueueOK, Recent, Fresh
<1>3. Ordered(a, s)
  <2> SUFFICES ASSUME NEW i \in 1 .. Len(a), NEW j \in 1 .. Len(a), i < j,
                      a[i].seq = s
               PROVE  a[j].seq = s \/ a[j].seq = EventSeq
    BY DEF Ordered
  <2>1. i \in 1 .. Len(f) /\ a[i] = f[i]
    <3>1. j <= Len(f) + 1
      BY <1>1
    <3>2. QED
      BY <1>1, <3>1
  <2>2. CASE j \in 1 .. Len(f) /\ a[j] = f[j]
    BY <2>1, <2>2 DEF QueueOK, Ordered
  <2>3. CASE a[j] = e
    BY <2>1, <2>3
  <2>4. QED
    BY <1>1, <2>2, <2>3
<1>4. \A g : /\ Before(g, f, s)
             /\ \A i \in 1 .. Len(g) :
                  g[i].seq = s => e.seq = s \/ e.seq = EventSeq
             => Before(g, a, s)
  BY <1>1 DEF Before
<1>5. \A g : /\ Before(f, g, s)
             /\ e.seq = s => \A j \in 1 .. Len(g) :
                               g[j].seq = s \/ g[j].seq = EventSeq
             => Before(a, g, s)
  BY <1>1 DEF Before
<1>6. QED
  BY <1>2, <1>3, <1>4, <1>5 DEF QueueOK, a

(* A frame that is like the oldest one of the younger queue q is put       *)
(* behind the older queue f, and that one is taken off q: the tool answers *)
(* a command, or the HID thread fetches a reply.                           *)
LEMMA MoveKeepsQueues ==
  ASSUME NEW S, NEW T, NEW f \in Seq(S), NEW q \in Seq(T), q # <<>>,
         NEW s \in 0 .. SeqMod - 1, NEW lo, NEW hi,
         QueueOK(f, s, lo, hi), QueueOK(q, s, lo, hi), Before(f, q, s),
         NEW e \in S, e.seq = Head(q).seq, e.cmd = Head(q).cmd
  PROVE  /\ QueueOK(Append(f, e), s, lo, hi)
         /\ QueueOK(Tail(q), s, lo, hi)
         /\ Before(Append(f, e), Tail(q), s)
         /\ \A g : Before(g, f, s) /\ Before(g, q, s) =>
                     Before(g, Append(f, e), s) /\ Before(g, Tail(q), s)
         /\ \A g : Before(f, g, s) /\ Before(q, g, s) =>
                     Before(Append(f, e), g, s) /\ Before(Tail(q), g, s)
<1>1. /\ Head(q) = q[1] /\ 1 \in 1 .. Len(q) /\ Len(q) \in Nat
      /\ \A i \in 1 .. Len(Tail(q)) :
           i + 1 \in 1 .. Len(q) /\ Tail(q)[i] = q[i + 1] /\ 1 < i + 1
  BY TailOf
<1>2. e.seq = q[1].seq /\ e.cmd = q[1].cmd
  BY <1>1
<1>3. /\ e.seq = EventSeq \/ e.seq = s \/ NextSeq(e.seq) = s
      /\ e.seq = s => e.cmd \in lo .. hi
      /\ \A i \in 1 .. Len(f) :
           f[i].seq = s => e.seq = s \/ e.seq = EventSeq
  BY <1>1, <1>2 DEF QueueOK, Recent, Fresh, Before
<1>4. /\ QueueOK(Tail(q), s, lo, hi)
      /\ \A g : Before(q, g, s) => Before(Tail(q), g, s)
      /\ \A g : Before(g, q, s) => Before(g, Tail(q), s)
  BY TailKeepsQueue
<1>5. /\ QueueOK(Append(f, e), s, lo, hi)
      /\ \A g : /\ Before(g, f, s)
                /\ \A i \in 1 .. Len(g) :
                     g[i].seq = s => e.seq = s \/ e.seq = EventSeq
                => Before(g, Append(f, e), s)
      /\ \A g : /\ Before(f, g, s)
                /\ e.seq = s => \A j \in 1 .. Len(g) :
                                  g[j].seq = s \/ g[j].seq = EventSeq
                => Before(Append(f, e), g, s)
  BY <1>3, AppendKeepsQueue
<1>6. Before(Append(f, e), Tail(q), s)
  <2>1. Before(f, Tail(q), s)
    BY <1>4
  <2>2. e.seq = s => \A j \in 1 .. Len(Tail(q)) :
                       Tail(q)[j].seq = s \/ Tail(q)[j].seq = EventSeq
    BY <1>1, <1>2 DEF QueueOK, Ordered
  <2>3. QED
    BY <1>5, <2>1, <2>2
<1>7. ASSUME NEW g, Before(g, f, s), Before(g, q, s)
      PROVE  Before(g, Append(f, e), s)
  <2>1. \A i \in 1 .. Len(g) : g[i].seq = s => e.seq = s \/ e.seq = EventSeq
    BY <1>1, <1>2, <1>7 DEF Before
  <2>2. QED
    BY <1>5, <1>7, <2>1
<1>8. ASSUME NEW g, Before(f, g, s), Before(q, g, s)
      PROVE  Before(Append(f, e), g, s)
  <2>1. e.seq = s => \A j \in 1 .. Len(g) :
                       g[j].seq = s \/ g[j].seq = EventSeq
    BY <1>1, <1>2, <1>8 DEF Before
  <2>2. QED
    BY <1>5, <1>8, <2>1
<1>9. QED
  BY <1>4, <1>5, <1>6, <1>7, <1>8

(* A frame of the current number goes to the tool: a command, or another   *)
(* attempt at it.                                                          *)
LEMMA SendKeepsWire ==
  ASSUME NEW p \in Seq(Frames), NEW r \in Seq(Replies), NEW q \in Seq(Commands),
         NEW s, NEW lo \in Nat, NEW hi \in Nat, NEW last \in Nat,
         WireOK(p, r, q, s, lo, hi),
         NEW c \in lo .. last, hi <= last, [seq |-> s, cmd |-> c] \in Commands
  PROVE  WireOK(p, r, Append(q, [seq |-> s, cmd |-> c]), s, lo, last)
<1> DEFINE e == [seq |-> s, cmd |-> c]
<1>1. e \in Commands /\ e.seq = s /\ e.cmd \in lo .. last
  OBVIOUS
<1> HIDE DEF e
<1>2. \A n \in lo .. hi : n \in lo .. last
  OBVIOUS
<1>3. WireOK(p, r, q, s, lo, last)
  BY <1>2 DEF WireOK, QueueOK, Fresh
<1>4. QueueOK(q, s, lo, last) /\ Before(p, q, s) /\ Before(r, q, s)
  BY <1>3 DEF WireOK
<1>5. /\ QueueOK(Append(q, e), s, lo, last)
      /\ Before(p, Append(q, e), s)
      /\ Before(r, Append(q, e), s)
  BY <1>1, <1>4, AppendKeepsQueue
<1>6. QED
  BY <1>3, <1>5 DEF WireOK, e

(* Once a reply under the current number is taken, all that is left on the *)
(* wire is of that number: the next one has not been used yet.             *)
LEMMA AcceptKeepsWire ==
  ASSUME NEW p \in Seq(Frames), NEW r \in Seq(Replies), NEW q \in Seq(Commands),
         NEW s \in 0 .. SeqMod - 1, NEW lo, NEW hi,
         WireOK(p, r, q, s, lo, hi), p # <<>>, Head(p).seq = s,
         NEW lo2, NEW hi2
  PROVE  WireOK(Tail(p), r, q, NextSeq(s), lo2, hi2)
<1> DEFINE Left(f) == \A i \in 1 .. Len(f) : f[i].seq = s \/ f[i].seq = EventSeq
<1>1. /\ NextSeq(s) # s /\ NextSeq(s) # EventSeq
  BY NextSeqProperties DEF EventSeq
<1>2. /\ Head(p) = p[1] /\ 1 \in 1 .. Len(p)
      /\ \A i \in 1 .. Len(Tail(p)) :
           i + 1 \in 1 .. Len(p) /\ Tail(p)[i] = p[i + 1] /\ 1 < i + 1
  BY TailOf
<1>3. Left(Tail(p))
  BY <1>2 DEF WireOK, QueueOK, Ordered
<1>4. Left(r) /\ Left(q)
  BY <1>2 DEF WireOK, Before
<1>5. ASSUME NEW f, Left(f)
      PROVE  /\ QueueOK(f, NextSeq(s), lo2, hi2)
             /\ \A g : Before(f, g, NextSeq(s))
  BY <1>1, <1>5 DEF QueueOK, Recent, Fresh, Ordered, Before
<1>6. QED
  BY <1>3, <1>4, <1>5 DEF WireOK

(* The oldest frame of the pipe is read and put aside. *)
LEMMA ReadKeepsWire ==
  ASSUME NEW p \in Seq(Frames), NEW r, NEW q, NEW s, NEW lo, NEW hi,
         WireOK(p, r, q, s, lo, hi), p # <<>>
  PROVE  WireOK(Tail(p), r, q, s, lo, hi)
BY TailKeepsQueue DEF WireOK

(* A command is lost on its way. *)
LEMMA LoseKeepsWire ==
  ASSUME NEW p, NEW r, NEW q \in Seq(Commands), NEW s, NEW lo, NEW hi,
         WireOK(p, r, q, s, lo, hi), q # <<>>
  PROVE  WireOK(p, r, Tail(q), s, lo, hi)
BY TailKeepsQueue DEF WireOK

(* The tool answers the oldest command, and keeps the reply. *)
LEMMA AnswerKeepsWire ==
  ASSUME NEW p \in Seq(Frames), NEW r \in Seq(Replies), NEW q \in Seq(Commands),
         NEW s \in 0 .. SeqMod - 1, NEW lo, NEW hi,
         WireOK(p, r, q, s, lo, hi), q # <<>>,
         NEW e \in Replies, e.seq = Head(q).seq, e.cmd = Head(q).cmd
  PROVE  WireOK(p, Append(r, e), Tail(q), s, lo, hi)
<1>1. /\ QueueOK(Append(r, e), s, lo, hi)
      /\ QueueOK(Tail(q), s, lo, hi)
      /\ Before(Append(r, e), Tail(q), s)
      /\ \A g : Before(g, r, s) /\ Before(g, q, s) =>
                  Before(g, Append(r, e), s) /\ Before(g, Tail(q), s)
  BY MoveKeepsQueues DEF WireOK
<1>2. QED
  BY <1>1 DEF WireOK

(* The oldest reply the tool keeps is fetched. *)
LEMMA FetchKeepsWire ==
  ASSUME NEW p \in Seq(Frames), NEW r \in Seq(Replies), NEW q,
         NEW s \in 0 .. SeqMod - 1, NEW lo, NEW hi,
         WireOK(p, r, q, s, lo, hi), r # <<>>
  PROVE  WireOK(Append(p, Head(r)), Tail(r), q, s, lo, hi)
<1>1. Head(r) \in Frames
  BY TailOf DEF Frames
<1>2. /\ QueueOK(Append(p, Head(r)), s, lo, hi)
      /\ QueueOK(Tail(r), s, lo, hi)
      /\ Before(Append(p, Head(r)), Tail(r), s)
      /\ \A g : Before(p, g, s) /\ Before(r, g, s) =>
                  Before(Append(p, Head(r)), g, s) /\ Before(Tail(r), g, s)
  BY <1>1, MoveKeepsQueues DEF WireOK
<1>3. QED
  BY <1>2 DEF WireOK

(* The tool answers at once. *)
LEMMA UsbAnswerKeepsWire ==
  ASSUME NEW p \in Seq(Frames), NEW q \in Seq(Commands),
         NEW s \in 0 .. SeqMod - 1, NEW lo, NEW hi,
         WireOK(p, <<>>, q, s, lo, hi), q # <<>>,
         NEW e \in Replies, e.seq = Head(q).seq, e.cmd = Head(q).cmd
  PROVE  WireOK(Append(p, e), <<>>, Tail(q), s, lo, hi)
<1>1. e \in Frames
  BY DEF Frames
<1>2. /\ QueueOK(Append(p, e), s, lo, hi)
      /\ QueueOK(Tail(q), s, lo, hi)
      /\ Before(Append(p, e), Tail(q), s)
  BY <1>1, MoveKeepsQueues DEF WireOK
<1>3. \A f : QueueOK(<<>>, s, lo, hi) /\ Before(f, <<>>, s) /\ Before(<<>>, f, s)
  BY DEF QueueOK, Recent, Fresh, Ordered, Before
<1>4. QED
  BY <1>2, <1>3 DEF WireOK

(* An event is of no number. *)
LEMMA EventKeepsWire ==
  ASSUME NEW p \in Seq(Frames), NEW r, NEW q,
         NEW s \in 0 .. SeqMod - 1, NEW lo, NEW hi,
         WireOK(p, r, q, s, lo, hi), NEW e \in Frames, IsEvent(e)
  PROVE  WireOK(Append(p, e), r, q, s, lo, hi)
<1>1. e.seq = EventSeq /\ e.seq # s
  BY NextSeqProperties DEF IsEvent
<1>2. /\ QueueOK(Append(p, e), s, lo, hi)
      /\ \A g : Before(p, g, s) => Before(Append(p, e), g, s)
  BY <1>1, AppendKeepsQueue DEF WireOK
<1>3. QED
  BY <1>2 DEF WireOK

-----------------------------------------------------------------------------
(* Lemmas about the events.                                                *)

(* Frames that are events have a serial, the others are replies. *)
LEMMA FrameKinds ==
  ASSUME NEW f \in Frames
  PROVE  /\ IsEvent(f) => f \in Events /\ f.serial \in 1 .. MaxEvents
         /\ ~IsEvent(f) => f \in Replies /\ f.seq \in 0 .. SeqMod - 1
                           /\ f.cmd \in 1 .. MaxIssue
BY Jtag3Assumption DEF Frames, Replies, Commands, Events, IsEvent, EventSeq

(* Neither a reply nor a command goes under the number of events. *)
LEMMA NumbersOfCommands ==
  /\ \A f \in Replies : f \in Frames /\ ~IsEvent(f) /\ f.seq # EventSeq
  /\ \A f \in Commands : f.seq # EventSeq
<1>1. ASSUME NEW f, f.seq \in 0 .. SeqMod - 1
      PROVE  f.seq # EventSeq
  BY <1>1, Jtag3Assumption DEF EventSeq
<1>2. /\ \A f \in Replies : f.seq \in 0 .. SeqMod - 1
      /\ \A f \in Commands : f.seq \in 0 .. SeqMod - 1
  BY DEF Replies, Commands
<1>3. QED
  BY <1>1, <1>2 DEF Frames, IsEvent

(* A frame is read, an event or not, and nothing is done with it. *)
LEMMA TailKeepsEvents ==
  ASSUME NEW p \in Seq(Frames), p # <<>>,
         NEW c \in Nat, NEW d \in Nat, NEW last \in Nat,
         EventsOK(p, c, d, last)
  PROVE  /\ EventsOK(Tail(p), c, d, last)
         /\ IsEvent(Head(p)) =>
              /\ Younger(Tail(p), Head(p).serial)
              /\ Head(p).serial > c /\ Head(p).serial > d
              /\ Head(p).serial <= last
<1> DEFINE t == Tail(p)
<1>1. /\ Head(p) = p[1] /\ 1 \in 1 .. Len(p)
      /\ Len(p) \in Nat /\ Len(t) \in Nat
      /\ \A i \in 1 .. Len(t) :
           i + 1 \in 1 .. Len(p) /\ t[i] = p[i + 1] /\ 1 < i + 1
  BY TailOf
<1>2. \A i, j \in 1 .. Len(t) : i < j => i + 1 < j + 1
  BY <1>1
<1>3. \A i \in 1 .. Len(p) : IsEvent(p[i]) => p[i].serial \in Nat
  <2>1. \A i \in 1 .. Len(p) : p[i] \in Frames
    BY ElementOfSeq
  <2>2. QED
    BY <2>1, FrameKinds, Jtag3Assumption
<1> HIDE DEF t
<1>4. Younger(t, c) /\ Younger(t, d)
  BY <1>1 DEF EventsOK, Younger
<1>5. Ascending(t)
  BY <1>1, <1>2 DEF EventsOK, Ascending
<1>6. \A i \in 1 .. Len(t) : IsEvent(t[i]) => t[i].serial <= last
  BY <1>1 DEF EventsOK
<1>7. ASSUME IsEvent(Head(p))
      PROVE  /\ Younger(t, Head(p).serial)
             /\ Head(p).serial > c /\ Head(p).serial > d
             /\ Head(p).serial <= last
  BY <1>1, <1>3, <1>7 DEF EventsOK, Younger, Ascending
<1>8. QED
  BY <1>4, <1>5, <1>6, <1>7 DEF EventsOK, t

(* A reply, or an event newer than every one before, joins the pipe. *)
LEMMA AppendKeepsEvents ==
  ASSUME NEW p \in Seq(Frames), NEW e \in Frames,
         NEW c \in Nat, NEW d \in Nat, NEW last \in Nat, NEW last2 \in Nat,
         EventsOK(p, c, d, last), last <= last2,
         IsEvent(e) => e.serial > last /\ e.serial <= last2
  PROVE  EventsOK(Append(p, e), c, d, last2)
<1> DEFINE a == Append(p, e)
<1>1. /\ Len(p) \in Nat
      /\ \A i \in 1 .. Len(a) : \/ i \in 1 .. Len(p) /\ a[i] = p[i]
                                \/ i = Len(p) + 1 /\ a[i] = e
  BY AppendTo
<1>2. \A i \in 1 .. Len(p) : IsEvent(p[i]) => p[i].serial \in Nat
  <2>1. \A i \in 1 .. Len(p) : p[i] \in Frames
    BY ElementOfSeq
  <2>2. QED
    BY <2>1, FrameKinds, Jtag3Assumption
<1>3. IsEvent(e) => e.serial \in Nat
  BY FrameKinds, Jtag3Assumption
<1> HIDE DEF a
<1>4. Younger(a, c) /\ Younger(a, d)
  <2>1. Younger(p, c) /\ Younger(p, d) /\ c <= last /\ d <= last
    BY DEF EventsOK
  <2>2. IsEvent(e) => e.serial > c /\ e.serial > d
    BY <1>3, <2>1
  <2>3. QED
    BY <1>1, <2>1, <2>2 DEF Younger
<1>5. Ascending(a)
  <2> SUFFICES ASSUME NEW i \in 1 .. Len(a), NEW j \in 1 .. Len(a), i < j,
                      IsEvent(a[i]), IsEvent(a[j])
               PROVE  a[i].serial < a[j].serial
    BY DEF Ascending
  <2>1. i \in 1 .. Len(p) /\ a[i] = p[i]
    <3>1. j <= Len(p) + 1
      BY <1>1
    <3>2. QED
      BY <1>1, <3>1
  <2>2. CASE j \in 1 .. Len(p) /\ a[j] = p[j]
    BY <2>1, <2>2 DEF EventsOK, Ascending
  <2>3. CASE a[j] = e
    BY <1>2, <1>3, <2>1, <2>3 DEF EventsOK
  <2>4. QED
    BY <1>1, <2>2, <2>3
<1>6. \A i \in 1 .. Len(a) : IsEvent(a[i]) => a[i].serial <= last2
  BY <1>1, <1>2, <1>3 DEF EventsOK
<1>7. c <= last2 /\ d <= last2
  BY DEF EventsOK
<1>8. QED
  BY <1>4, <1>5, <1>6, <1>7 DEF EventsOK, a

(* The kept event is taken or deleted: it, or the one handled before, is   *)
(* now the last.                                                           *)
LEMMA DropKeepsEvents ==
  ASSUME NEW p \in Seq(Frames), NEW c \in Nat, NEW d \in Nat, NEW last \in Nat,
         EventsOK(p, c, d, last)
  PROVE  /\ EventsOK(p, 0, d, last)
         /\ EventsOK(p, 0, c, last)
<1>1. \A i \in 1 .. Len(p) : IsEvent(p[i]) => p[i].serial \in 1 .. MaxEvents
  <2>1. \A i \in 1 .. Len(p) : p[i] \in Frames
    BY ElementOfSeq
  <2>2. QED
    BY <2>1, FrameKinds
<1>2. Younger(p, 0)
  BY <1>1, Jtag3Assumption DEF Younger
<1>3. QED
  BY <1>2 DEF EventsOK

-----------------------------------------------------------------------------
(* The inductive invariant.                                                *)

(* It holds before anything is sent. *)
LEMMA InitInv == Init => IInv
<1> SUFFICES ASSUME Init PROVE IInv
  OBVIOUS
<1>1. TypeOK
  BY Jtag3Assumption DEF Init, TypeOK, NoReply
<1>2. ReplyOfThisNumber
  BY DEF Init, ReplyOfThisNumber, NoReply
<1>3. WireOK(pipe, replies, toTool, command_sequence, base, cmd)
  BY DEF Init, WireOK, QueueOK, Recent, Fresh, Ordered, Before
<1>4. EventsOK(pipe, cached_event, handled, events)
  BY DEF Init, EventsOK, Younger, Ascending
<1>5. QED
  BY <1>1, <1>2, <1>3, <1>4 DEF Init, IInv

(* A command is issued, the kept event left alone or deleted. *)
LEMMA CommandInv ==
  ASSUME IInv, NEW who \in Callers, doCommand(who),
         handled' = handled, cached_event' \in {0, cached_event}
  PROVE  IInv'
<1> USE DEF doCommand, sendFrame, toolVars
<1> DEFINE e == [seq |-> command_sequence, cmd |-> cmd + 1]
<1>1. /\ command_sequence \in 0 .. SeqMod - 1 /\ base \in Nat /\ cmd \in Nat
      /\ cmd + 1 \in 1 .. MaxIssue /\ base <= cmd + 1
      /\ toTool \in Seq(Commands) /\ pipe \in Seq(Frames)
      /\ replies \in Seq(Replies)
      /\ cached_event \in Nat /\ handled \in Nat /\ events \in Nat
  BY Jtag3Assumption DEF IInv, TypeOK
<1>2. e \in Commands
  BY <1>1 DEF Commands
<1>3. TypeOK'
  <2>1. toTool' \in Seq(Commands)
    BY <1>1, <1>2, AppendTo
  <2>2. QED
    BY <1>1, <2>1, Jtag3Assumption DEF IInv, TypeOK, NoReply
<1>4. ReplyOfThisNumber'
  BY DEF ReplyOfThisNumber, NoReply
<1>5. WireOK(pipe, replies, Append(toTool, e), command_sequence, base, cmd + 1)
  BY <1>1, <1>2, SendKeepsWire DEF IInv
<1>6. EventsOK(pipe, cached_event', handled, events)
  <2>1. EventsOK(pipe, cached_event, handled, events)
    BY DEF IInv
  <2>2. QED
    BY <1>1, <2>1, DropKeepsEvents
<1>7. QED
  BY <1>1, <1>3, <1>4, <1>5, <1>6 DEF IInv

LEMMA IssueInv ==
  ASSUME IInv, NEW who \in {"doJtagCommand", "doSimpleJtagCommand"}, Issue(who)
  PROVE  IInv'
BY CommandInv DEF Issue, Callers, eventVars

(* jtagContinue() deletes the kept event and sends GO. *)
LEMMA ContinueInv == IInv /\ jtagContinue => IInv'
BY CommandInv DEF jtagContinue, Callers

(* An attempt that failed is given up, or the command is sent again under  *)
(* the number seq.                                                         *)
LEMMA AttemptFailedProperties ==
  ASSUME NEW seq \in 0 .. SeqMod - 1, TypeOK, caller # "none",
         AttemptFailed(seq)
  PROVE  /\ cmd' = cmd
         /\ \/ caller' = "none" /\ tries' = 0 /\ outcome' = "thrown"
               /\ toTool' = toTool
            \/ /\ caller' = caller /\ tries' \in 0 .. SimpleTries
               /\ outcome' = outcome
               /\ toTool' = Append(toTool, [seq |-> seq, cmd |-> cmd])
BY Jtag3Assumption DEF TypeOK, AttemptFailed, Return, sendFrame

(* Silence: the number stays. *)
LEMMA RecvTimeoutInv == IInv /\ RecvTimeout => IInv'
<1> SUFFICES ASSUME IInv, RecvTimeout PROVE IInv'
  OBVIOUS
<1> USE DEF RecvTimeout, seqVars, eventVars, toolVars
<1>1. /\ command_sequence \in 0 .. SeqMod - 1 /\ base \in Nat /\ cmd \in Nat
      /\ cmd \in 0 .. MaxIssue /\ base >= 1
      /\ toTool \in Seq(Commands) /\ pipe \in Seq(Frames)
      /\ replies \in Seq(Replies)
      /\ caller # "none" /\ base <= cmd
  BY Jtag3Assumption DEF IInv, TypeOK, Waiting
<1> DEFINE e == [seq |-> command_sequence, cmd |-> cmd]
<1>2. e \in Commands
  BY <1>1, Jtag3Assumption DEF Commands
<1>3. /\ cmd' = cmd
      /\ \/ caller' = "none" /\ tries' = 0 /\ outcome' = "thrown"
            /\ toTool' = toTool
         \/ /\ caller' = caller /\ tries' \in 0 .. SimpleTries
            /\ outcome' = outcome
            /\ toTool' = Append(toTool, e)
  BY <1>1, AttemptFailedProperties DEF IInv
<1>4. /\ Append(toTool, e) \in Seq(Commands)
      /\ WireOK(pipe, replies, Append(toTool, e), command_sequence, base, cmd)
  <2>1. cmd \in base .. cmd /\ cmd <= cmd
    BY <1>1
  <2>2. WireOK(pipe, replies, toTool, command_sequence, base, cmd)
    BY DEF IInv
  <2>3. QED
    BY <1>1, <1>2, <2>1, <2>2, SendKeepsWire, AppendTo
<1>5. TypeOK'
  <2>1. toTool' \in Seq(Commands)
    BY <1>1, <1>3, <1>4
  <2>2. QED
    <3>1. /\ caller \in {"none"} \cup Callers
          /\ outcome \in {"none", "done", "going", "thrown"}
          /\ 0 \in 0 .. SimpleTries
      BY Jtag3Assumption DEF IInv, TypeOK
    <3>2. /\ caller' \in {"none"} \cup Callers
          /\ outcome' \in {"none", "done", "going", "thrown"}
          /\ tries' \in 0 .. SimpleTries
      BY <1>3, <3>1
    <3>3. UNCHANGED <<cmd, hid, command_sequence, cached_event, handled,
                      replies, pipe, running, events, base, accepted>>
      BY <1>3
    <3>4. QED
      BY <2>1, <3>2, <3>3 DEF IInv, TypeOK
<1>6. WireOK(pipe, replies, toTool, command_sequence, base, cmd)'
  BY <1>3, <1>4 DEF IInv
<1>7. QED
  BY <1>1, <1>3, <1>5, <1>6 DEF IInv, ReplyOfThisNumber

(* The reply is taken, and the number moves on. *)
LEMMA RecvReplyInv == IInv /\ RecvReply => IInv'
<1> SUFFICES ASSUME IInv, RecvReply PROVE IInv'
  OBVIOUS
<1> USE DEF RecvReply, eventVars, toolVars
<1> DEFINE s == NextSeq(command_sequence)
           e == [seq |-> s, cmd |-> cmd]
           h == Head(pipe)
<1>1. /\ command_sequence \in 0 .. SeqMod - 1 /\ base \in Nat /\ cmd \in Nat
      /\ cmd \in 0 .. MaxIssue /\ base >= 1 /\ MaxIssue \in Nat
      /\ toTool \in Seq(Commands) /\ pipe \in Seq(Frames)
      /\ replies \in Seq(Replies) /\ pipe # <<>>
      /\ caller # "none" /\ base <= cmd
  BY Jtag3Assumption DEF IInv, TypeOK, Waiting
<1>2. /\ s \in 0 .. SeqMod - 1 /\ command_sequence # EventSeq
      /\ e \in Commands
  BY <1>1, NextSeqProperties DEF Commands
<1>3. /\ h \in Frames /\ h = pipe[1] /\ 1 \in 1 .. Len(pipe)
      /\ Tail(pipe) \in Seq(Frames)
  BY <1>1, TailOf
<1>4. h.cmd \in base .. cmd /\ h.cmd \in 0 .. MaxIssue
  <2>1. h.cmd \in base .. cmd
    BY <1>3 DEF IInv, WireOK, QueueOK, Fresh
  <2>2. QED
    BY <1>1, <2>1
<1>5. /\ cmd' = cmd
      /\ \/ /\ caller' = "none" /\ tries' = 0 /\ toTool' = toTool
            /\ outcome' \in {"done", "going", "thrown"} /\ base' = cmd + 1
         \/ /\ caller' = caller /\ tries' \in 0 .. SimpleTries
            /\ outcome' = outcome /\ base' = cmd
            /\ toTool' = Append(toTool, e)
  <2>1. CASE AttemptFailed(s)
    <3>1. TypeOK
      BY DEF IInv
    <3>2. QED
      BY <1>1, <1>2, <2>1, <3>1, AttemptFailedProperties
  <2>2. CASE \E how \in {"done", "going", "thrown"} : Return(how)
    BY <2>2 DEF Return
  <2>3. QED
    BY <2>1, <2>2 DEF StepInWrongMode
<1>6. \A lo, hi : WireOK(Tail(pipe), replies, toTool, s, lo, hi)
  BY <1>1, AcceptKeepsWire DEF IInv
<1>7. /\ Append(toTool, e) \in Seq(Commands)
      /\ WireOK(Tail(pipe), replies, Append(toTool, e), s, cmd, cmd)
  <2>1. cmd \in cmd .. cmd /\ cmd <= cmd
    BY <1>1
  <2>2. WireOK(Tail(pipe), replies, toTool, s, cmd, cmd)
    BY <1>6
  <2>3. QED
    BY <1>1, <1>2, <1>3, <2>1, <2>2, SendKeepsWire, AppendTo
<1>8. TypeOK'
  <2>1. base' \in 1 .. cmd' + 1
    BY <1>1, <1>5
  <2>2. toTool' \in Seq(Commands)
    BY <1>1, <1>5, <1>7
  <2>3. accepted' \in [cmd : 0 .. MaxIssue, lo : 0 .. MaxIssue + 1,
                       hi : 0 .. MaxIssue]
    BY <1>1, <1>4
  <2>4. /\ caller' \in {"none"} \cup Callers
        /\ tries' \in 0 .. SimpleTries
        /\ outcome' \in {"none", "done", "going", "thrown"}
    <3>1. /\ caller \in {"none"} \cup Callers
          /\ outcome \in {"none", "done", "going", "thrown"}
          /\ 0 \in 0 .. SimpleTries
      BY Jtag3Assumption DEF IInv, TypeOK
    <3>2. QED
      BY <1>5, <3>1
  <2>5. /\ command_sequence' \in 0 .. SeqMod - 1 /\ pipe' \in Seq(Frames)
        /\ UNCHANGED <<cmd, hid, running, events, replies, cached_event,
                       handled>>
    BY <1>2, <1>3, <1>5
  <2>6. QED
    BY <2>1, <2>2, <2>3, <2>4, <2>5 DEF IInv, TypeOK
<1>9. ReplyOfThisNumber'
  BY <1>4 DEF ReplyOfThisNumber
<1>10. WireOK(pipe, replies, toTool, command_sequence, base, cmd)'
  BY <1>5, <1>6, <1>7
<1>11. EventsOK(pipe, cached_event, handled, events)'
  <2>1. cached_event \in Nat /\ handled \in Nat /\ events \in Nat
    BY Jtag3Assumption DEF IInv, TypeOK
  <2>2. QED
    BY <1>1, <2>1, TailKeepsEvents DEF IInv
<1>12. QED
  BY <1>1, <1>5, <1>8, <1>9, <1>10, <1>11 DEF IInv

(* An event is read while a command waits. *)
LEMMA RecvEventInv == IInv /\ RecvEvent => IInv'
<1> SUFFICES ASSUME IInv, RecvEvent PROVE IInv'
  OBVIOUS
<1> USE DEF RecvEvent, seqVars, toolVars
<1>1. /\ pipe \in Seq(Frames) /\ pipe # <<>> /\ IsEvent(Head(pipe))
      /\ cached_event \in Nat /\ handled \in Nat /\ events \in Nat
  BY Jtag3Assumption DEF IInv, TypeOK
<1>2. Head(pipe) \in Frames /\ Tail(pipe) \in Seq(Frames)
  BY <1>1, TailOf
<1>3. Head(pipe).serial \in 1 .. MaxEvents
  BY <1>1, <1>2, FrameKinds
<1>4. TypeOK'
  <2>1. cached_event' \in 0 .. MaxEvents
    <3>1. cached_event \in 0 .. MaxEvents /\ MaxEvents \in Nat
      BY Jtag3Assumption DEF IInv, TypeOK
    <3>2. QED
      BY <1>3, <3>1
  <2>2. /\ pipe' \in Seq(Frames)
        /\ UNCHANGED <<cmd, caller, tries, outcome, handled, hid, replies,
                       running, events, command_sequence, base, accepted,
                       toTool>>
    BY <1>2
  <2>3. QED
    BY <2>1, <2>2 DEF IInv, TypeOK
<1>5. WireOK(Tail(pipe), replies, toTool, command_sequence, base, cmd)
  BY <1>1, ReadKeepsWire DEF IInv
<1>6. /\ EventsOK(Tail(pipe), cached_event, handled, events)
      /\ Younger(Tail(pipe), Head(pipe).serial)
      /\ Head(pipe).serial > handled
      /\ Head(pipe).serial <= events
  BY <1>1, TailKeepsEvents DEF IInv
<1>7. EventsOK(Tail(pipe), cached_event', handled, events)
  BY <1>1, <1>3, <1>6, Jtag3Assumption DEF EventsOK
<1>8. QED
  BY <1>4, <1>5, <1>7 DEF IInv, ReplyOfThisNumber

(* A reply under another number is dropped. *)
LEMMA RecvOtherInv == IInv /\ RecvOther => IInv'
<1> SUFFICES ASSUME IInv, RecvOther PROVE IInv'
  OBVIOUS
<1> USE DEF RecvOther, hostVars, seqVars, eventVars, toolVars
<1>1. /\ pipe \in Seq(Frames) /\ pipe # <<>>
      /\ cached_event \in Nat /\ handled \in Nat /\ events \in Nat
  BY Jtag3Assumption DEF IInv, TypeOK
<1>2. Tail(pipe) \in Seq(Frames)
  BY <1>1, TailOf
<1>3. TypeOK'
  BY <1>2 DEF IInv, TypeOK
<1>4. WireOK(Tail(pipe), replies, toTool, command_sequence, base, cmd)
  BY <1>1, ReadKeepsWire DEF IInv
<1>5. EventsOK(Tail(pipe), cached_event, handled, events)
  BY <1>1, TailKeepsEvents DEF IInv
<1>6. QED
  BY <1>3, <1>4, <1>5 DEF IInv, ReplyOfThisNumber

(* expectEvent() takes the kept event or reads a frame. *)
LEMMA ExpectEventInv == IInv /\ ExpectEvent => IInv'
<1> SUFFICES ASSUME IInv, ExpectEvent PROVE IInv'
  OBVIOUS
<1> USE DEF ExpectEvent, seqVars, toolVars
<1>1. /\ pipe \in Seq(Frames)
      /\ cached_event \in Nat /\ handled \in Nat /\ events \in Nat
      /\ cached_event \in 0 .. MaxEvents
  BY Jtag3Assumption DEF IInv, TypeOK
<1>2. CASE cached_event # 0
  <2>1. TypeOK'
    BY <1>2, Jtag3Assumption DEF IInv, TypeOK
  <2>2. EventsOK(pipe, 0, cached_event, events)
    <3>1. EventsOK(pipe, cached_event, handled, events)
      BY DEF IInv
    <3>2. QED
      BY <1>1, <3>1, DropKeepsEvents
  <2>3. QED
    BY <1>2, <2>1, <2>2 DEF IInv, ReplyOfThisNumber
<1>3. CASE cached_event = 0
  <2>1. pipe # <<>> /\ pipe' = Tail(pipe)
    BY <1>3
  <2>2. Head(pipe) \in Frames /\ Tail(pipe) \in Seq(Frames)
    BY <1>1, <2>1, TailOf
  <2>3. IsEvent(Head(pipe)) => Head(pipe).serial \in 1 .. MaxEvents
    BY <2>2, FrameKinds
  <2>4. TypeOK'
    <3>1. handled' \in 0 .. MaxEvents
      <4>1. handled \in 0 .. MaxEvents /\ MaxEvents \in Nat
        BY Jtag3Assumption DEF IInv, TypeOK
      <4>2. QED
        BY <1>3, <2>3, <4>1
    <3>2. QED
      BY <1>3, <2>1, <2>2, <3>1 DEF IInv, TypeOK
  <2>5. WireOK(Tail(pipe), replies, toTool, command_sequence, base, cmd)
    BY <1>1, <2>1, ReadKeepsWire DEF IInv
  <2>6. /\ EventsOK(Tail(pipe), cached_event, handled, events)
        /\ IsEvent(Head(pipe)) => /\ Younger(Tail(pipe), Head(pipe).serial)
                                  /\ Head(pipe).serial <= events
    BY <1>1, <2>1, TailKeepsEvents DEF IInv
  <2>7. EventsOK(Tail(pipe), 0, handled', events)
    BY <1>1, <1>3, <2>1, <2>6 DEF EventsOK
  <2>8. QED
    BY <1>3, <2>1, <2>4, <2>5, <2>7 DEF IInv, ReplyOfThisNumber
<1>4. QED
  BY <1>2, <1>3

(* The tool answers over libusb. *)
LEMMA UsbCommandInv == IInv /\ UsbCommand => IInv'
<1> SUFFICES ASSUME IInv, UsbCommand PROVE IInv'
  OBVIOUS
<1> USE DEF UsbCommand, hostVars, seqVars, eventVars, toolVars
<1> DEFINE e == Head(toTool)
<1>1. pipe' = Append(pipe, e)
  OBVIOUS
<1>2. /\ pipe \in Seq(Frames) /\ toTool \in Seq(Commands) /\ toTool # <<>>
      /\ replies = <<>> /\ command_sequence \in 0 .. SeqMod - 1
      /\ cached_event \in Nat /\ handled \in Nat /\ events \in Nat
  BY Jtag3Assumption DEF IInv, TypeOK
<1>3. Head(toTool) \in Commands /\ Tail(toTool) \in Seq(Commands)
  BY <1>2, TailOf
<1>4. /\ e \in Replies /\ e.seq = Head(toTool).seq /\ e.cmd = Head(toTool).cmd
      /\ ~IsEvent(e)
  BY <1>3, NumbersOfCommands DEF Replies
<1> HIDE DEF e
<1>5. e \in Frames /\ pipe' = Append(pipe, e)
  BY <1>1, <1>4 DEF Frames, e
<1>6. Append(pipe, e) \in Seq(Frames)
  BY <1>2, <1>5, AppendTo
<1>7. TypeOK'
  BY <1>3, <1>5, <1>6 DEF IInv, TypeOK
<1>8. WireOK(Append(pipe, e), <<>>, Tail(toTool), command_sequence, base, cmd)
  BY <1>2, <1>4, UsbAnswerKeepsWire DEF IInv
<1>9. EventsOK(Append(pipe, e), cached_event, handled, events)
  <2>1. EventsOK(pipe, cached_event, handled, events) /\ events <= events
    BY <1>2 DEF IInv
  <2>2. QED
    BY <1>2, <1>4, <1>5, <2>1, AppendKeepsEvents
<1>10. QED
  BY <1>2, <1>5, <1>7, <1>8, <1>9 DEF IInv, ReplyOfThisNumber

(* A command gets no reply. *)
LEMMA LoseInv == IInv /\ Lose => IInv'
<1> SUFFICES ASSUME IInv, Lose PROVE IInv'
  OBVIOUS
<1> USE DEF Lose, hostVars, seqVars, eventVars, toolVars
<1>1. toTool \in Seq(Commands) /\ toTool # <<>>
  BY DEF IInv, TypeOK
<1>2. TypeOK'
  BY <1>1, TailOf DEF IInv, TypeOK
<1>3. WireOK(pipe, replies, Tail(toTool), command_sequence, base, cmd)
  BY <1>1, LoseKeepsWire DEF IInv
<1>4. QED
  BY <1>2, <1>3 DEF IInv, ReplyOfThisNumber

(* The HID thread asks for a reply, and gets the oldest or none. *)
LEMMA HidCommandInv == IInv /\ HidCommand => IInv'
<1> SUFFICES ASSUME IInv, HidCommand PROVE IInv'
  OBVIOUS
<1> USE DEF HidCommand, hostVars, seqVars, eventVars
<1> DEFINE e == Head(toTool)
           ready == Append(replies, e)
<1>1. \/ pipe' = Append(pipe, Head(ready)) /\ replies' = Tail(ready)
      \/ UNCHANGED pipe /\ replies' = ready
  OBVIOUS
<1>2. /\ pipe \in Seq(Frames) /\ toTool \in Seq(Commands) /\ toTool # <<>>
      /\ replies \in Seq(Replies) /\ command_sequence \in 0 .. SeqMod - 1
      /\ cached_event \in Nat /\ handled \in Nat /\ events \in Nat
  BY Jtag3Assumption DEF IInv, TypeOK
<1>3. Head(toTool) \in Commands /\ Tail(toTool) \in Seq(Commands)
  BY <1>2, TailOf
<1>4. e \in Replies /\ e.seq = Head(toTool).seq /\ e.cmd = Head(toTool).cmd
  BY <1>3 DEF Replies
<1>5. \/ pipe' = Append(pipe, Head(ready)) /\ replies' = Tail(ready)
      \/ pipe' = pipe /\ replies' = ready
  BY <1>1
<1> HIDE DEF e
<1>6. ready \in Seq(Replies) /\ ready # <<>>
  BY <1>2, <1>4, AppendProperties
<1>7. WireOK(pipe, ready, Tail(toTool), command_sequence, base, cmd)
  BY <1>2, <1>4, AnswerKeepsWire DEF IInv
<1> HIDE DEF ready
<1>8. CASE pipe' = Append(pipe, Head(ready)) /\ replies' = Tail(ready)
  <2>1. Head(ready) \in Replies /\ Tail(ready) \in Seq(Replies)
    BY <1>6, TailOf
  <2>2. Head(ready) \in Frames /\ ~IsEvent(Head(ready))
    BY <2>1, NumbersOfCommands
  <2>3. Append(pipe, Head(ready)) \in Seq(Frames)
    BY <1>2, <2>2, AppendTo
  <2>4. TypeOK'
    BY <1>3, <1>8, <2>1, <2>3 DEF IInv, TypeOK
  <2>5. WireOK(Append(pipe, Head(ready)), Tail(ready), Tail(toTool),
               command_sequence, base, cmd)
    BY <1>2, <1>6, <1>7, FetchKeepsWire
  <2>6. EventsOK(Append(pipe, Head(ready)), cached_event, handled, events)
    BY <1>2, <2>2, AppendKeepsEvents DEF IInv
  <2>7. QED
    BY <1>8, <2>4, <2>5, <2>6 DEF IInv, ReplyOfThisNumber
<1>9. CASE pipe' = pipe /\ replies' = ready
  <2>1. TypeOK'
    BY <1>3, <1>6, <1>9 DEF IInv, TypeOK
  <2>2. QED
    BY <1>7, <1>9, <2>1 DEF IInv, ReplyOfThisNumber
<1>10. QED
  BY <1>5, <1>8, <1>9

(* An event happens. *)
LEMMA ToolEventInv == IInv /\ ToolEvent => IInv'
<1> SUFFICES ASSUME IInv, ToolEvent PROVE IInv'
  OBVIOUS
<1> USE DEF ToolEvent, hostVars, seqVars, eventVars
<1> DEFINE e == [seq |-> EventSeq, serial |-> events + 1]
<1>1. /\ pipe \in Seq(Frames) /\ command_sequence \in 0 .. SeqMod - 1
      /\ cached_event \in Nat /\ handled \in Nat /\ events \in Nat
      /\ events + 1 \in 1 .. MaxEvents /\ events <= events + 1
      /\ events + 1 > events /\ events + 1 <= events + 1 /\ events + 1 \in Nat
  BY Jtag3Assumption DEF IInv, TypeOK
<1>2. e \in Frames /\ IsEvent(e) /\ e.serial = events + 1
  BY <1>1 DEF Frames, Events, IsEvent
<1>3. pipe' = Append(pipe, e) /\ events' = events + 1
  OBVIOUS
<1> HIDE DEF e
<1>4. Append(pipe, e) \in Seq(Frames)
  BY <1>1, <1>2, AppendTo
<1>5. TypeOK'
  BY <1>1, <1>3, <1>4 DEF IInv, TypeOK
<1>6. WireOK(Append(pipe, e), replies, toTool, command_sequence, base, cmd)
  BY <1>1, <1>2, EventKeepsWire DEF IInv
<1>7. EventsOK(Append(pipe, e), cached_event, handled, events + 1)
  BY <1>1, <1>2, AppendKeepsEvents DEF IInv
<1>8. QED
  BY <1>3, <1>5, <1>6, <1>7 DEF IInv, ReplyOfThisNumber

(* Every step keeps the invariant. *)
LEMMA StepInv == IInv /\ [Next]_vars => IInv'
<1> SUFFICES ASSUME IInv, [Next]_vars PROVE IInv'
  OBVIOUS
<1>1. CASE Host
  BY <1>1, IssueInv, ContinueInv, RecvTimeoutInv, RecvReplyInv, RecvEventInv,
     RecvOtherInv, ExpectEventInv DEF Host, Recv
<1>2. CASE ThreadEnds
  BY <1>2 DEF ThreadEnds, hostVars, seqVars, eventVars, IInv, TypeOK,
              ReplyOfThisNumber
<1>3. CASE Tool
  BY <1>2, <1>3, UsbCommandInv, LoseInv, HidCommandInv, ToolEventInv DEF Tool
<1>4. CASE UNCHANGED vars
  BY <1>4 DEF vars, hostVars, toolVars, seqVars, eventVars, IInv, TypeOK,
              ReplyOfThisNumber
<1>5. QED
  BY <1>1, <1>3, <1>4 DEF Next

LEMMA Invariance == Spec => []IInv
<1>1. QED
  BY InitInv, StepInv, PTL DEF Spec

-----------------------------------------------------------------------------
(* The variables of the JTAGICE3 link keep their types, for every limit on *)
(* numbers, attempts, commands, events and kept replies.                   *)
THEOREM Jtag3TypeCorrect == Spec => []TypeOK
<1>1. IInv => TypeOK
  BY DEF IInv
<1>2. QED
  BY <1>1, Invariance, PTL

(* The reply recv() takes answers a command sent under the current number, *)
(* however many replies are lost, late, or fetched one behind over HID.    *)
THEOREM Jtag3ReplyOfThisNumber == Spec => []ReplyOfThisNumber
<1>1. IInv => ReplyOfThisNumber
  BY DEF IInv
<1>2. QED
  BY <1>1, Invariance, PTL

(* No frame in flight is more than one number old, so two generations of a *)
(* wrapping counter never meet.                                            *)
THEOREM Jtag3OneNumberBehind == Spec => []OneNumberBehind
<1>1. IInv => OneNumberBehind
  <2>1. TypeOK => /\ \A i \in 1 .. Len(toTool) : toTool[i].seq # EventSeq
                  /\ \A i \in 1 .. Len(replies) : replies[i].seq # EventSeq
    BY ElementOfSeq, NumbersOfCommands DEF TypeOK
  <2>2. QED
    BY <2>1 DEF IInv, WireOK, QueueOK, Recent, OneNumberBehind, IsEvent
<1>2. QED
  BY <1>1, Invariance, PTL

(* expectEvent() acts upon events in the order in which they happened, and *)
(* the event recv() kept is never replaced by another: it stays while a    *)
(* command waits, and afterwards is taken by expectEvent() or deleted by   *)
(* jtagContinue() as it sends the next GO.                                 *)
THEOREM Jtag3EventsKept == Spec => EventsKept
<1> DEFINE Kept == /\ handled' >= handled
                   /\ cached_event # 0 =>
                        \/ cached_event' = cached_event
                        \/ /\ cached_event' = 0
                           /\ caller = "none"
                           /\ \/ handled' = cached_event
                              \/ caller' = "jtagContinue"
<1>1. ASSUME IInv, [Next]_vars
      PROVE  [Kept]_<<handled, cached_event>>
  <2>1. /\ pipe \in Seq(Frames)
        /\ cached_event \in Nat /\ handled \in Nat /\ events \in Nat
        /\ EventsOK(pipe, cached_event, handled, events)
    BY <1>1, Jtag3Assumption DEF IInv, TypeOK
  <2>2. CASE RecvEvent
    BY <2>1, <2>2 DEF RecvEvent
  <2>3. CASE ExpectEvent
    <3>1. CASE cached_event # 0
      BY <2>1, <2>3, <3>1 DEF ExpectEvent, EventsOK
    <3>2. CASE cached_event = 0
      <4>1. pipe # <<>>
        BY <2>3, <3>2 DEF ExpectEvent
      <4>2. /\ Head(pipe) \in Frames
            /\ IsEvent(Head(pipe)) => Head(pipe).serial > handled
        BY <2>1, <4>1, TailOf, TailKeepsEvents
      <4>3. IsEvent(Head(pipe)) => Head(pipe).serial \in Nat
        BY <4>2, FrameKinds, Jtag3Assumption
      <4>4. QED
        BY <2>1, <2>3, <3>2, <4>2, <4>3 DEF ExpectEvent
    <3>3. QED
      BY <3>1, <3>2
  <2>4. CASE jtagContinue
    BY <2>1, <2>4 DEF jtagContinue, doCommand
  <2>5. CASE UNCHANGED <<handled, cached_event>>
    BY <2>5
  <2>6. QED
    BY <1>1, <2>2, <2>3, <2>4, <2>5
       DEF Next, Host, Tool, vars, hostVars, eventVars, Issue, Recv,
           RecvTimeout, RecvReply, RecvOther, UsbCommand, Lose, HidCommand,
           ToolEvent, ThreadEnds
<1>2. QED
  BY <1>1, Invariance, PTL DEF Spec, EventsKept
=============================================================================
