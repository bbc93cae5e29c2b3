-------------------------- MODULE Jtag2LinkProofs --------------------------
(***************************************************************************)
(* Proofs about Jtag2Link for every number of sequence numbers, attempts,  *)
(* commands and frames in flight.  The argument: reading the two queues    *)
(* from the oldest frame, frames of the previous number come first and     *)
(* frames of the current number after them; so the reply that moves the    *)
(* number on leaves nothing older than itself behind.                      *)
(***************************************************************************)
EXTENDS Jtag2Link, SequenceTheorems, TLAPS

(* Command frames q and host frames h, while s is the current number and   *)
(* lo .. hi are the commands sent under it.                                *)
Window(q, h, s) ==
  /\ \A i \in 1 .. Len(q) : q[i].seq = s \/ NextSeq(q[i].seq) = s
  /\ \A i \in 1 .. Len(h) :
       h[i].seq = EventSeq \/ h[i].seq = s \/ NextSeq(h[i].seq) = s

Fresh(q, h, s, lo, hi) ==
  /\ \A i \in 1 .. Len(q) : q[i].seq = s => q[i].cmd \in lo .. hi
  /\ \A i \in 1 .. Len(h) : h[i].seq = s => h[i].cmd \in lo .. hi

Ordered(q, h, s) ==
  /\ \A i, j \in 1 .. Len(q) : i < j /\ q[i].seq = s => q[j].seq = s
  /\ \A i, j \in 1 .. Len(h) :
       i < j /\ h[i].seq = s => h[j].seq = s \/ h[j].seq = EventSeq
  /\ \A i \in 1 .. Len(h), j \in 1 .. Len(q) : h[i].seq = s => q[j].seq = s

WireOK(q, h, s, lo, hi) ==
  Window(q, h, s) /\ Fresh(q, h, s, lo, hi) /\ Ordered(q, h, s)

(* The inductive invariant. *)
IInv ==
  /\ TypeOK
  /\ ReplyOfThisNumber
  /\ WireOK(toBox, toHost, command_sequence, base, cmd)
  /\ caller # "none" => base <= cmd

-----------------------------------------------------------------------------
(* Lemmas about the wire.                                                  *)

(* Successive numbers differ, stay in range, and are never an event's. *)
LEMMA NextSeqProperties ==
  ASSUME NEW s \in 0 .. SeqMod - 1
  PROVE  /\ NextSeq(s) \in 0 .. SeqMod - 1
         /\ NextSeq(s) # s
         /\ s # EventSeq
BY LinkAssumption DEF NextSeq, EventSeq

(* Taking the oldest frame off the way to the host keeps the wire in order. *)
LEMMA DropKeepsWire ==
  ASSUME NEW q \in Seq(CommandFrames), NEW h \in Seq(HostFrames), h # <<>>,
         NEW s, NEW lo, NEW hi, WireOK(q, h, s, lo, hi)
  PROVE  WireOK(q, Tail(h), s, lo, hi) /\ Tail(h) \in Seq(HostFrames)
<1>1. /\ Tail(h) \in Seq(HostFrames)
      /\ Len(Tail(h)) = Len(h) - 1
      /\ \A i \in 1 .. Len(Tail(h)) : Tail(h)[i] = h[i + 1]
  BY HeadTailProperties
<1>2. QED
  BY <1>1 DEF WireOK, Window, Fresh, Ordered

(* So does taking the oldest command off the way to the box. *)
LEMMA LoseKeepsWire ==
  ASSUME NEW q \in Seq(CommandFrames), NEW h \in Seq(HostFrames), q # <<>>,
         NEW s, NEW lo, NEW hi, WireOK(q, h, s, lo, hi)
  PROVE  WireOK(Tail(q), h, s, lo, hi) /\ Tail(q) \in Seq(CommandFrames)
<1>1. /\ Tail(q) \in Seq(CommandFrames)
      /\ Len(Tail(q)) = Len(q) - 1
      /\ \A i \in 1 .. Len(Tail(q)) : Tail(q)[i] = q[i + 1]
  BY HeadTailProperties
<1>2. QED
  BY <1>1 DEF WireOK, Window, Fresh, Ordered

(* A command sent under the current number goes behind everything else. *)
LEMMA SendKeepsWire ==
  ASSUME NEW q \in Seq(CommandFrames), NEW h \in Seq(HostFrames),
         NEW s \in 0 .. SeqMod - 1, NEW lo \in Nat, NEW hi \in Nat,
         NEW c \in lo .. hi, c \in 1 .. MaxIssue, WireOK(q, h, s, lo, hi)
  PROVE  /\ WireOK(Append(q, [seq |-> s, cmd |-> c]), h, s, lo, hi)
         /\ Append(q, [seq |-> s, cmd |-> c]) \in Seq(CommandFrames)
<1> DEFINE f == [seq |-> s, cmd |-> c]
<1>1. f \in CommandFrames /\ f.seq = s /\ f.cmd = c
  BY DEF CommandFrames
<1> HIDE DEF f
<1>2. /\ Append(q, f) \in Seq(CommandFrames)
      /\ Len(Append(q, f)) = Len(q) + 1
      /\ \A i \in 1 .. Len(q) : Append(q, f)[i] = q[i]
      /\ Append(q, f)[Len(q) + 1] = f
  BY <1>1, AppendProperties
<1>3. WireOK(Append(q, f), h, s, lo, hi)
  BY <1>1, <1>2 DEF WireOK, Window, Fresh, Ordered
<1>4. QED
  BY <1>2, <1>3 DEF f

(* The reply to the oldest command goes behind all that was answered. *)
LEMMA ReplyKeepsWire ==
  ASSUME NEW q \in Seq(CommandFrames), NEW h \in Seq(HostFrames), q # <<>>,
         NEW s \in 0 .. SeqMod - 1, NEW lo, NEW hi, WireOK(q, h, s, lo, hi),
         NEW f \in HostFrames, f.seq = Head(q).seq, f.cmd = Head(q).cmd
  PROVE  /\ WireOK(Tail(q), Append(h, f), s, lo, hi)
         /\ Tail(q) \in Seq(CommandFrames)
         /\ Append(h, f) \in Seq(HostFrames)
<1>1. /\ Tail(q) \in Seq(CommandFrames)
      /\ Len(Tail(q)) = Len(q) - 1
      /\ Len(q) \in Nat \ {0}
      /\ Head(q) = q[1]
      /\ \A i \in 1 .. Len(Tail(q)) : Tail(q)[i] = q[i + 1]
  BY HeadTailProperties
<1> DEFINE t == Tail(q)
           g == Append(h, f)
<1>2. /\ g \in Seq(HostFrames)
      /\ Len(g) = Len(h) + 1
      /\ \A i \in 1 .. Len(h) : g[i] = h[i]
      /\ g[Len(h) + 1] = f
  BY AppendProperties
<1>3. Len(h) \in Nat /\ Len(t) \in Nat
  BY <1>1
<1> HIDE DEF t, g
<1>4. \A i \in 1 .. Len(g) :
        \/ i \in 1 .. Len(h) /\ g[i].seq = h[i].seq /\ g[i].cmd = h[i].cmd
        \/ i = Len(h) + 1 /\ g[i].seq = q[1].seq /\ g[i].cmd = q[1].cmd
  BY <1>1, <1>2, <1>3
<1>5. \A i \in 1 .. Len(t) : i + 1 \in 1 .. Len(q) /\ t[i] = q[i + 1]
  BY <1>1 DEF t
<1>6. 1 \in 1 .. Len(q)
  BY <1>1
<1>7. Window(t, g, s)
  BY <1>4, <1>5, <1>6 DEF WireOK, Window
<1>8. Fresh(t, g, s, lo, hi)
  BY <1>4, <1>5, <1>6 DEF WireOK, Fresh
<1>9. Ordered(t, g, s)
  <2>1. ASSUME NEW i \in 1 .. Len(t), NEW j \in 1 .. Len(t), i < j,
               t[i].seq = s
        PROVE  t[j].seq = s
    <3>1. /\ i + 1 \in 1 .. Len(q) /\ j + 1 \in 1 .. Len(q) /\ i + 1 < j + 1
          /\ t[i] = q[i + 1] /\ t[j] = q[j + 1]
      BY <1>3, <1>5, <2>1
    <3>2. QED
      BY <2>1, <3>1 DEF WireOK, Ordered
  <2>2. ASSUME NEW i \in 1 .. Len(g), NEW j \in 1 .. Len(g), i < j,
               g[i].seq = s
        PROVE  g[j].seq = s \/ g[j].seq = EventSeq
    <3>1. i \in 1 .. Len(h) /\ h[i].seq = s
      BY <1>2, <1>3, <2>2
    <3>2. CASE j \in 1 .. Len(h)
      <4>1. h[j].seq = s \/ h[j].seq = EventSeq
        BY <2>2, <3>1, <3>2 DEF WireOK, Ordered
      <4>2. QED
        BY <1>2, <3>2, <4>1
    <3>3. CASE j = Len(h) + 1
      <4>1. q[1].seq = s
        BY <1>6, <3>1 DEF WireOK, Ordered
      <4>2. QED
        BY <1>4, <1>3, <3>3, <4>1
    <3>4. QED
      BY <1>2, <1>3, <3>2, <3>3
  <2>3. ASSUME NEW i \in 1 .. Len(g), NEW j \in 1 .. Len(t), g[i].seq = s
        PROVE  t[j].seq = s
    <3>1. /\ j + 1 \in 1 .. Len(q) /\ 1 < j + 1 /\ t[j] = q[j + 1]
      BY <1>3, <1>5, <2>3
    <3>2. q[j + 1].seq = s
      <4>1. CASE i \in 1 .. Len(h) /\ g[i].seq = h[i].seq
        BY <2>3, <3>1, <4>1 DEF WireOK, Ordered
      <4>2. CASE q[1].seq = s
        BY <1>6, <3>1, <4>2 DEF WireOK, Ordered
      <4>3. QED
        BY <1>4, <2>3, <4>1, <4>2
    <3>3. QED
      BY <3>1, <3>2
  <2>4. QED
    BY <2>1, <2>2, <2>3 DEF Ordered
<1>10. QED
  BY <1>1, <1>2, <1>7, <1>8, <1>9 DEF WireOK, t, g

(* An event joins the frames on their way to the host. *)
LEMMA EventKeepsWire ==
  ASSUME NEW q \in Seq(CommandFrames), NEW h \in Seq(HostFrames),
         NEW s \in 0 .. SeqMod - 1, NEW lo, NEW hi, WireOK(q, h, s, lo, hi),
         NEW f \in HostFrames, f.seq = EventSeq
  PROVE  WireOK(q, Append(h, f), s, lo, hi) /\ Append(h, f) \in Seq(HostFrames)
<1>1. /\ Append(h, f) \in Seq(HostFrames)
      /\ Len(Append(h, f)) = Len(h) + 1
      /\ \A i \in 1 .. Len(h) : Append(h, f)[i] = h[i]
      /\ Append(h, f)[Len(h) + 1] = f
  BY AppendProperties
<1> DEFINE g == Append(h, f)
<1>2. Len(h) \in Nat
  OBVIOUS
<1>3. EventSeq # s /\ NextSeq(s) # EventSeq
  BY NextSeqProperties
<1>4. \A i \in 1 .. Len(g) :
        \/ i \in 1 .. Len(h) /\ g[i] = h[i]
        \/ i = Len(h) + 1 /\ g[i].seq = EventSeq
  BY <1>1, <1>2
<1> HIDE DEF g
<1>5. Window(q, g, s)
  BY <1>3, <1>4 DEF WireOK, Window
<1>6. Fresh(q, g, s, lo, hi)
  BY <1>3, <1>4 DEF WireOK, Fresh
<1>7. Ordered(q, g, s)
  <2>1. ASSUME NEW i \in 1 .. Len(g), g[i].seq = s
        PROVE  i \in 1 .. Len(h) /\ h[i].seq = s
    BY <1>3, <1>4, <2>1
  <2>2. ASSUME NEW i \in 1 .. Len(g), NEW j \in 1 .. Len(g), i < j,
               g[i].seq = s
        PROVE  g[j].seq = s \/ g[j].seq = EventSeq
    <3>1. i \in 1 .. Len(h) /\ h[i].seq = s
      BY <2>1, <2>2
    <3>2. CASE j \in 1 .. Len(h) /\ g[j] = h[j]
      BY <2>2, <3>1, <3>2 DEF WireOK, Ordered
    <3>3. QED
      BY <1>4, <3>2
  <2>3. QED
    BY <2>1, <2>2 DEF WireOK, Ordered
<1>8. QED
  BY <1>1, <1>5, <1>6, <1>7 DEF WireOK, g

(* Naming one more command leaves the frames in flight as they are. *)
LEMMA IssueKeepsWire ==
  ASSUME NEW q \in Seq(CommandFrames), NEW h \in Seq(HostFrames), NEW s,
         NEW lo \in Nat, NEW hi \in Nat, WireOK(q, h, s, lo, hi)
  PROVE  WireOK(q, h, s, lo, hi + 1)
<1>1. Fresh(q, h, s, lo, hi + 1)
  BY DEF WireOK, Fresh
<1>2. QED
  BY <1>1 DEF WireOK

(* Accepting the reply at the head moves the number on: everything left is *)
(* then under the number before it, whatever window is opened.             *)
LEMMA AcceptKeepsWire ==
  ASSUME NEW q \in Seq(CommandFrames), NEW h \in Seq(HostFrames), h # <<>>,
         NEW s \in 0 .. SeqMod - 1, NEW lo, NEW hi, WireOK(q, h, s, lo, hi),
         Head(h).seq = s, NEW lo2, NEW hi2
  PROVE  WireOK(q, Tail(h), NextSeq(s), lo2, hi2)
<1>1. /\ Tail(h) \in Seq(HostFrames)
      /\ Len(Tail(h)) = Len(h) - 1
      /\ Len(h) \in Nat \ {0}
      /\ Head(h) = h[1]
      /\ \A i \in 1 .. Len(Tail(h)) : Tail(h)[i] = h[i + 1]
  BY HeadTailProperties
<1>2. \A j \in 1 .. Len(q) : q[j].seq = s
  BY <1>1 DEF WireOK, Ordered
<1>3. \A j \in 1 .. Len(Tail(h)) :
        Tail(h)[j].seq = s \/ Tail(h)[j].seq = EventSeq
  BY <1>1 DEF WireOK, Ordered
<1>4. NextSeq(s) # s /\ NextSeq(s) # EventSeq
  BY NextSeqProperties
<1>5. QED
  BY <1>1, <1>2, <1>3, <1>4 DEF WireOK, Window, Fresh, Ordered
-----------------------------------------------------------------------------
(* The invariant.                                                          *)

(* Going round the caller's loop again, or giving up, keeps the wire in    *)
(* order when the retry goes out under the current number.                 *)
LEMMA NextAttemptKeeps ==
  ASSUME IInv, Awaiting, NEW got,
         NEW h \in Seq(HostFrames), NEW s \in 0 .. SeqMod - 1,
         NEW lo \in Nat, lo <= cmd, WireOK(toBox, h, s, lo, cmd),
         NextAttempt(s, got)
  PROVE  /\ WireOK(toBox', h, s, lo, cmd)
         /\ toBox' \in Seq(CommandFrames)
         /\ cmd' = cmd
         /\ caller' \in {"none", caller}
         /\ tries' \in Nat
         /\ sizeseen' \in BOOLEAN
         /\ usbReset' \in BOOLEAN
         /\ outcome' \in {outcome, "io error", "timeout", "comm failed"}
<1>0. /\ toBox \in Seq(CommandFrames) /\ tries \in Nat
      /\ sizeseen \in BOOLEAN /\ usbReset \in BOOLEAN
      /\ cmd \in 0 .. MaxIssue /\ base \in 1 .. cmd + 1 /\ base <= cmd
  BY DEF IInv, TypeOK, Awaiting
<1>1. cmd \in 1 .. MaxIssue /\ cmd \in lo .. cmd
  BY <1>0, LinkAssumption
<1>2. sizeseen' \in BOOLEAN /\ usbReset' \in BOOLEAN
  BY <1>0 DEF NextAttempt, ResetDue
<1>3. CASE AnotherRound
  <2>1. /\ toBox' = Append(toBox, [seq |-> s, cmd |-> cmd])
        /\ UNCHANGED <<cmd, caller, outcome>>
        /\ tries' \in Nat
    BY <1>0, <1>3 DEF NextAttempt, Resend, sendFrame
  <2>2. lo \in Nat /\ cmd \in Nat
    BY <1>0, LinkAssumption
  <2>3. /\ WireOK(toBox', h, s, lo, cmd)
        /\ toBox' \in Seq(CommandFrames)
    BY <1>0, <1>1, <2>1, <2>2, SendKeepsWire
  <2>4. QED
    BY <1>2, <2>1, <2>3
<1>4. CASE ~AnotherRound
  <2>1. /\ UNCHANGED <<cmd, tries, toBox>>
        /\ caller' = "none"
        /\ outcome' \in {"io error", "timeout", "comm failed"}
    BY <1>4 DEF NextAttempt, GiveUp
  <2>2. QED
    BY <1>0, <1>2, <2>1
<1>5. QED
  BY <1>3, <1>4

LEMMA InitInv == Init => IInv
<1> SUFFICES ASSUME Init PROVE IInv
  OBVIOUS
<1>1. TypeOK
  <2>1. accepted \in [cmd : 0 .. MaxIssue, lo : 0 .. MaxIssue + 1,
                      hi : 0 .. MaxIssue, wire : Wires]
    BY LinkAssumption DEF Init, NoReply, Wires
  <2>2. command_sequence \in 0 .. SeqMod - 1
    BY LinkAssumption DEF Init
  <2>3. /\ cmd \in 0 .. MaxIssue /\ events \in 0 .. MaxEvents
        /\ base \in 1 .. cmd + 1
    BY LinkAssumption DEF Init
  <2>4. toBox \in Seq(CommandFrames) /\ toHost \in Seq(HostFrames)
    BY DEF Init
  <2>5. /\ caller \in {"none", "doJtagCommand", "doSimpleJtagCommand"}
        /\ tries \in Nat /\ sizeseen \in BOOLEAN /\ usbReset \in BOOLEAN
        /\ outcome \in {"none", "done", "io error", "timeout", "comm failed"}
    BY DEF Init
  <2>6. QED
    BY <2>1, <2>2, <2>3, <2>4, <2>5 DEF TypeOK
<1>2. ReplyOfThisNumber
  BY DEF Init, ReplyOfThisNumber, NoReply
<1>3. WireOK(toBox, toHost, command_sequence, base, cmd)
  BY DEF Init, WireOK, Window, Fresh, Ordered
<1>4. QED
  BY <1>1, <1>2, <1>3 DEF IInv, Init

LEMMA IssueInv ==
  ASSUME IInv, NEW who \in {"doJtagCommand", "doSimpleJtagCommand"}, Issue(who)
  PROVE  IInv'
<1> USE LinkAssumption
<1>0. /\ TypeOK /\ cmd < MaxIssue
      /\ cmd \in 0 .. MaxIssue /\ base \in 1 .. cmd + 1
      /\ toBox \in Seq(CommandFrames) /\ toHost \in Seq(HostFrames)
      /\ command_sequence \in 0 .. SeqMod - 1
      /\ WireOK(toBox, toHost, command_sequence, base, cmd)
  BY DEF IInv, TypeOK, Issue
<1>1. cmd \in Nat /\ base \in Nat
  BY <1>0
<1>2. /\ cmd' = cmd + 1 /\ caller' = who /\ tries' = 1 /\ outcome' = "none"
      /\ sizeseen' = FALSE /\ usbReset' = FALSE
      /\ toBox' = Append(toBox, [seq |-> command_sequence, cmd |-> cmd + 1])
      /\ UNCHANGED <<toHost, events, command_sequence, base, accepted>>
  BY DEF Issue, sendFrame, seqVars
<1>3. WireOK(toBox, toHost, command_sequence, base, cmd + 1)
  BY <1>0, <1>1, IssueKeepsWire
<1>4. /\ WireOK(toBox', toHost, command_sequence, base, cmd + 1)
      /\ toBox' \in Seq(CommandFrames)
  <2>1. /\ cmd + 1 \in base .. cmd + 1 /\ cmd + 1 \in 1 .. MaxIssue
        /\ base \in Nat /\ cmd + 1 \in Nat
    BY <1>0, <1>1
  <2>2. QED
    BY <1>0, <1>2, <1>3, <2>1, SendKeepsWire
<1>5. TypeOK'
  <2>1. cmd' \in 0 .. MaxIssue /\ base' \in 1 .. cmd' + 1
    BY <1>0, <1>2
  <2>2. caller' \in {"none", "doJtagCommand", "doSimpleJtagCommand"}
    BY <1>2
  <2>3. QED
    BY <1>0, <1>2, <1>4, <2>1, <2>2 DEF TypeOK
<1>6. base' <= cmd'
  BY <1>0, <1>2
<1>7. QED
  BY <1>2, <1>4, <1>5, <1>6 DEF IInv, ReplyOfThisNumber

(* A retry or a give-up after a silence or a damaged frame. *)
LEMMA MissInv ==
  ASSUME IInv, Awaiting, NEW got, NextAttempt(command_sequence, got),
         toHost' \in Seq(HostFrames),
         WireOK(toBox, toHost', command_sequence, base, cmd),
         UNCHANGED <<events, seqVars>>
  PROVE  IInv'
<1>1. /\ TypeOK /\ ReplyOfThisNumber /\ base <= cmd
      /\ command_sequence \in 0 .. SeqMod - 1 /\ base \in 1 .. cmd + 1
      /\ cmd \in 0 .. MaxIssue
  BY DEF IInv, TypeOK, Awaiting
<1>2. base \in Nat
  BY <1>1
<1>3. UNCHANGED <<events, command_sequence, base, accepted>>
  BY DEF seqVars
<1>4. /\ WireOK(toBox', toHost', command_sequence, base, cmd)
      /\ toBox' \in Seq(CommandFrames)
      /\ cmd' = cmd
      /\ caller' \in {"none", caller}
      /\ tries' \in Nat
      /\ sizeseen' \in BOOLEAN
      /\ usbReset' \in BOOLEAN
      /\ outcome' \in {outcome, "io error", "timeout", "comm failed"}
  BY <1>1, <1>2, NextAttemptKeeps
<1>5. TypeOK'
  BY <1>1, <1>3, <1>4 DEF TypeOK
<1>6. QED
  BY <1>1, <1>3, <1>4, <1>5 DEF IInv, ReplyOfThisNumber

LEMMA RecvTimeoutInv == IInv /\ RecvTimeout => IInv'
<1> SUFFICES ASSUME IInv, RecvTimeout PROVE IInv'
  OBVIOUS
<1>1. /\ Awaiting /\ NextAttempt(command_sequence, "silence")
      /\ UNCHANGED <<toHost, events, seqVars>>
  BY DEF RecvTimeout
<1>2. /\ toHost' \in Seq(HostFrames)
      /\ WireOK(toBox, toHost', command_sequence, base, cmd)
  BY <1>1 DEF IInv, TypeOK
<1>3. QED
  BY <1>1, <1>2, MissInv

LEMMA RecvDamagedInv == IInv /\ RecvDamaged => IInv'
<1> SUFFICES ASSUME IInv, RecvDamaged PROVE IInv'
  OBVIOUS
<1>1. /\ Awaiting /\ toHost # <<>>
      /\ NextAttempt(command_sequence, "damaged")
      /\ UNCHANGED <<events, seqVars>>
      /\ \/ toHost' = Tail(toHost)
         \/ Len(toHost) > 1 /\ toHost' = Tail(Tail(toHost))
  BY DEF RecvDamaged, DropHead
<1>2. /\ toBox \in Seq(CommandFrames) /\ toHost \in Seq(HostFrames)
      /\ WireOK(toBox, toHost, command_sequence, base, cmd)
  BY DEF IInv, TypeOK
<1>3. /\ WireOK(toBox, Tail(toHost), command_sequence, base, cmd)
      /\ Tail(toHost) \in Seq(HostFrames)
  BY <1>1, <1>2, DropKeepsWire
<1>4. Len(toHost) > 1 => Tail(toHost) # <<>>
  <2>1. Len(Tail(toHost)) = Len(toHost) - 1
    BY <1>1, <1>2, HeadTailProperties
  <2>2. QED
    BY <1>2, <2>1
<1>5. /\ toHost' \in Seq(HostFrames)
      /\ WireOK(toBox, toHost', command_sequence, base, cmd)
  BY <1>1, <1>2, <1>3, <1>4, DropKeepsWire
<1>6. QED
  BY <1>1, <1>5, MissInv

(* Steps that only take frames off, or put them on, the wire. *)
LEMMA WireStepInv ==
  ASSUME IInv,
         toBox' \in Seq(CommandFrames), toHost' \in Seq(HostFrames),
         events' \in 0 .. MaxEvents,
         WireOK(toBox', toHost', command_sequence, base, cmd),
         UNCHANGED <<cmd, caller, tries, sizeseen, usbReset, outcome,
                     command_sequence, base, accepted>>
  PROVE  IInv'
<1>1. TypeOK'
  BY DEF IInv, TypeOK
<1>2. QED
  BY <1>1 DEF IInv, ReplyOfThisNumber

LEMMA DropInv == IInv /\ (RecvOther \/ ExpectEvent) => IInv'
<1> SUFFICES ASSUME IInv, RecvOther \/ ExpectEvent PROVE IInv'
  OBVIOUS
<1>1. /\ toHost # <<>> /\ toHost' = Tail(toHost)
      /\ UNCHANGED <<cmd, caller, tries, sizeseen, usbReset, outcome, toBox,
                     events, command_sequence, base, accepted>>
  BY DEF RecvOther, ExpectEvent, FrameReturned, DropHead, seqVars
<1>2. /\ toBox \in Seq(CommandFrames) /\ toHost \in Seq(HostFrames)
      /\ events \in 0 .. MaxEvents
      /\ WireOK(toBox, toHost, command_sequence, base, cmd)
  BY DEF IInv, TypeOK
<1>3. QED
  BY <1>1, <1>2, DropKeepsWire, WireStepInv

LEMMA RecvReplyInv == IInv /\ RecvReply => IInv'
<1> SUFFICES ASSUME IInv, RecvReply PROVE IInv'
  OBVIOUS
<1> DEFINE next == NextSeq(command_sequence)
<1>1. /\ TypeOK /\ caller # "none" /\ base <= cmd
      /\ cmd \in 0 .. MaxIssue /\ base \in 1 .. cmd + 1
      /\ command_sequence \in 0 .. SeqMod - 1
      /\ toBox \in Seq(CommandFrames) /\ toHost \in Seq(HostFrames)
      /\ WireOK(toBox, toHost, command_sequence, base, cmd)
  BY DEF IInv, TypeOK, RecvReply, Awaiting
<1>2. /\ toHost # <<>> /\ toHost' = Tail(toHost)
      /\ Head(toHost).seq = command_sequence
      /\ command_sequence' = next
      /\ accepted' = [cmd |-> Head(toHost).cmd, lo |-> base, hi |-> cmd,
                      wire |-> Head(toHost).wire]
      /\ base' = IF caller' = "none" THEN cmd + 1 ELSE cmd
      /\ events' = events
  BY DEF RecvReply, FrameReturned, DropHead
<1>3. /\ toHost' \in Seq(HostFrames)
      /\ Head(toHost) \in HostFrames
      /\ Head(toHost) = toHost[1] /\ 1 \in 1 .. Len(toHost)
  BY <1>1, <1>2, HeadTailProperties
<1>4. Head(toHost).cmd \in base .. cmd
  BY <1>1, <1>2, <1>3 DEF WireOK, Fresh
<1>5. \A lo, hi : WireOK(toBox, toHost', next, lo, hi)
  BY <1>1, <1>2, AcceptKeepsWire
<1>6. next \in 0 .. SeqMod - 1
  BY <1>1, NextSeqProperties
<1>6a. cmd \in Nat \ {0} /\ cmd + 1 \in 1 .. cmd + 1 /\ cmd \in 1 .. cmd + 1
  BY <1>1, LinkAssumption
<1>7. ReplyOfThisNumber'
  BY <1>2, <1>4 DEF ReplyOfThisNumber
<1>8. accepted' \in [cmd : 0 .. MaxIssue, lo : 0 .. MaxIssue + 1,
                     hi : 0 .. MaxIssue, wire : Wires]
  <2>1. Head(toHost).cmd \in 0 .. MaxIssue /\ Head(toHost).wire \in Wires
    BY <1>3 DEF HostFrames
  <2>2. base \in 0 .. MaxIssue + 1
    BY <1>1, LinkAssumption
  <2>3. QED
    BY <1>1, <1>2, <2>1, <2>2
<1>9. \/ /\ caller' = "none" /\ toBox' = toBox
         /\ UNCHANGED <<cmd, tries, sizeseen, usbReset>>
         /\ outcome' \in {"done", "io error"}
      \/ NextAttempt(next, "reply")
  BY DEF RecvReply, GiveUp, OkVerdicts
<1>10. CASE /\ caller' = "none" /\ toBox' = toBox
            /\ UNCHANGED <<cmd, tries, sizeseen, usbReset>>
            /\ outcome' \in {"done", "io error"}
  <2>1. base' \in 1 .. cmd' + 1 /\ cmd' \in 0 .. MaxIssue
    BY <1>1, <1>2, <1>10, <1>6a
  <2>2. TypeOK'
    BY <1>1, <1>2, <1>3, <1>6, <1>8, <1>10, <2>1 DEF TypeOK
  <2>3. WireOK(toBox', toHost', command_sequence', base', cmd')
    BY <1>2, <1>5, <1>10
  <2>4. QED
    BY <1>7, <1>10, <2>2, <2>3 DEF IInv
<1>11. CASE NextAttempt(next, "reply")
  <2>1. cmd \in Nat /\ cmd <= cmd
    BY <1>1
  <2>2. /\ WireOK(toBox', toHost', next, cmd, cmd)
        /\ toBox' \in Seq(CommandFrames)
        /\ cmd' = cmd
        /\ caller' \in {"none", caller}
        /\ tries' \in Nat
        /\ sizeseen' \in BOOLEAN
        /\ usbReset' \in BOOLEAN
        /\ outcome' \in {outcome, "io error", "timeout", "comm failed"}
    BY <1>1, <1>3, <1>5, <1>6, <1>11, <2>1, NextAttemptKeeps DEF Awaiting
  <2>3. base' \in 1 .. cmd' + 1 /\ cmd' \in 0 .. MaxIssue
    BY <1>1, <1>2, <2>2, <1>6a
  <2>4. TypeOK'
    BY <1>1, <1>2, <1>3, <1>6, <1>8, <2>2, <2>3 DEF TypeOK
  <2>5. WireOK(toBox', toHost', command_sequence', base', cmd')
    <3>1. CASE caller' = "none"
      <4>1. toBox' = toBox
        BY <1>1, <1>11, <3>1 DEF NextAttempt, Resend, GiveUp
      <4>2. QED
        BY <1>2, <1>5, <2>2, <4>1
    <3>2. CASE caller' # "none"
      BY <1>2, <2>2, <3>2
    <3>3. QED
      BY <3>1, <3>2
  <2>6. caller' # "none" => base' <= cmd'
    BY <1>2, <2>1, <2>2
  <2>7. QED
    BY <1>7, <2>4, <2>5, <2>6 DEF IInv
<1>12. QED
  BY <1>9, <1>10, <1>11

LEMMA BoxInv == IInv /\ Box => IInv'
<1> SUFFICES ASSUME IInv, Box PROVE IInv'
  OBVIOUS
<1>1. /\ toBox \in Seq(CommandFrames) /\ toHost \in Seq(HostFrames)
      /\ events \in 0 .. MaxEvents
      /\ command_sequence \in 0 .. SeqMod - 1
      /\ WireOK(toBox, toHost, command_sequence, base, cmd)
  BY DEF IInv, TypeOK
<1>2. CASE BoxReply
  <2>1. PICK wire \in Wires, code \in Codes :
          toHost' = Append(toHost, [seq  |-> Head(toBox).seq,
                                    cmd  |-> Head(toBox).cmd,
                                    code |-> code, wire |-> wire])
    BY <1>2 DEF BoxReply
  <2> DEFINE f == [seq |-> Head(toBox).seq, cmd |-> Head(toBox).cmd,
                   code |-> code, wire |-> wire]
  <2>2. /\ toBox # <<>> /\ toBox' = Tail(toBox)
        /\ UNCHANGED <<events, cmd, caller, tries, sizeseen, usbReset, outcome,
                       command_sequence, base, accepted>>
    BY <1>2 DEF BoxReply, hostVars, seqVars
  <2>3. Head(toBox) \in CommandFrames
    BY <1>1, <2>2, HeadTailProperties
  <2>4. f \in HostFrames /\ f.seq = Head(toBox).seq /\ f.cmd = Head(toBox).cmd
    <3>1. Head(toBox).seq \in 0 .. SeqMod /\ Head(toBox).cmd \in 0 .. MaxIssue
      BY <2>3, LinkAssumption DEF CommandFrames
    <3>2. QED
      BY <3>1 DEF HostFrames
  <2> HIDE DEF f
  <2>5. toHost' = Append(toHost, f)
    BY <2>1 DEF f
  <2>6. /\ WireOK(toBox', toHost', command_sequence, base, cmd)
        /\ toBox' \in Seq(CommandFrames) /\ toHost' \in Seq(HostFrames)
    BY <1>1, <2>2, <2>4, <2>5, ReplyKeepsWire
  <2>7. QED
    BY <1>1, <2>2, <2>6, WireStepInv
<1>3. CASE Lose
  <2>1. /\ toBox # <<>> /\ toBox' = Tail(toBox)
        /\ UNCHANGED <<toHost, events, cmd, caller, tries, sizeseen, usbReset,
                       outcome, command_sequence, base, accepted>>
    BY <1>3 DEF Lose, hostVars, seqVars
  <2>2. QED
    BY <1>1, <2>1, LoseKeepsWire, WireStepInv
<1>4. CASE BoxEvent
  <2> DEFINE f == [seq |-> EventSeq, cmd |-> 0, code |-> "ok",
                   wire |-> "whole"]
  <2>1. /\ events < MaxEvents /\ events' = events + 1
        /\ toHost' = Append(toHost, f)
        /\ UNCHANGED <<toBox, cmd, caller, tries, sizeseen, usbReset, outcome,
                       command_sequence, base, accepted>>
    BY <1>4 DEF BoxEvent, hostVars, seqVars
  <2>2. f \in HostFrames /\ f.seq = EventSeq
    BY LinkAssumption DEF HostFrames, EventSeq, Codes, Wires
  <2> HIDE DEF f
  <2>3. events' \in 0 .. MaxEvents
    BY <1>1, <2>1, LinkAssumption
  <2>4. QED
    BY <1>1, <2>1, <2>2, <2>3, EventKeepsWire, WireStepInv
<1>5. QED
  BY <1>2, <1>3, <1>4 DEF Box

LEMMA StepInv == IInv /\ [Next]_vars => IInv'
<1> SUFFICES ASSUME IInv, [Next]_vars PROVE IInv'
  OBVIOUS
<1>1. CASE Host
  BY <1>1, IssueInv, RecvTimeoutInv, RecvDamagedInv, DropInv, RecvReplyInv
     DEF Host
<1>2. CASE Box
  BY <1>2, BoxInv
<1>3. CASE UNCHANGED vars
  BY <1>3 DEF vars, IInv, TypeOK, ReplyOfThisNumber
<1>4. QED
  BY <1>1, <1>2, <1>3 DEF Next

LEMMA Invariance == Spec => []IInv
<1>1. QED
  BY InitInv, StepInv, PTL DEF Spec

-----------------------------------------------------------------------------
(* The variables of the link keep their types, for every limit on numbers, *)
(* attempts, commands and events.                                          *)
THEOREM LinkTypeCorrect == Spec => []TypeOK
<1>1. IInv => TypeOK
  BY DEF IInv
<1>2. QED
  BY <1>1, Invariance, PTL

(* recv() never takes for a reply a frame that answers a command sent      *)
(* under an earlier sequence number, however often the counter wraps and   *)
(* whatever is lost, delayed, damaged or retried.                          *)
THEOREM LinkReplyOfThisNumber == Spec => []ReplyOfThisNumber
<1>1. IInv => ReplyOfThisNumber
  BY DEF IInv
<1>2. QED
  BY <1>1, Invariance, PTL

(* No frame in flight is more than one number old. *)
THEOREM LinkOneNumberBehind == Spec => []OneNumberBehind
<1>1. IInv => OneNumberBehind
  BY DEF IInv, WireOK, Window, OneNumberBehind, Recent
<1>2. QED
  BY <1>1, Invariance, PTL
=============================================================================
